----------------------------- MODULE Extraction -----------------------------
(***************************************************************************)
(* From an observation to the memories, entities and edges it leaves, for  *)
(* several runs of the pipeline at once on one user's graph.               *)
(*                                                                         *)
(*   contexta/core/pipeline.py                      the stages             *)
(*   contexta/core/cortex/                          worth storing or not   *)
(*   contexta/core/extraction/worker.py             what the model says    *)
(*   contexta/core/entities/bulk_resolver.py        mentions to entities   *)
(*   contexta/core/entities/relation_extractor.py   edges                  *)
(*   contexta/repositories/entity_repo.py           names and edges        *)
(*   contexta/core/graph/cache.py                   the adjacency cache    *)
(*                                                                         *)
(* An entity is its name in lower case: uq_entity_identity admits one row  *)
(* for a user.  Deduplication and truth maintenance have modules of their  *)
(* own (TruthSlots): here their verdicts are choices.                      *)
(***************************************************************************)
EXTENDS Grounding, Subsequences, SequencesExt

CONSTANTS Runs, Jobs,      \* a job gives each run its payload, or Nothing
          Names,           \* of entities
          Similar,         \* Similar[n]: the other names like n, the likest first
          Digits,          \* Digits[n]: the digit groups in n
          Known,           \* Known[n]: the mentions of n that are counted at the start
          Mode,            \* of the engine: offline, heuristic or remote
          MaxTries

ASSUME ExtractionAssumption ==
    /\ MaxTries \in Nat \ {0}
    /\ Similar \in [Names -> Seq(Names)]
    /\ Known \in [Names -> Nat]
    /\ Mode \in {"offline", "heuristic", "remote"}

\* A payload has, beside its times, the kind of talk it is and the replies the model may give:
\*   [status, items], an item of Grounding with [kind, tier, text, fact, names, verbs]
\* where verbs are the phrases between two names: [from, rel, to, apart].
PayloadFields == {"talk", "id", "source", "occurred", "observed", "event", "zone", "messages", "replies"}
ItemFields    == {"kind", "tier", "text", "fact", "names", "verbs",
                  "message", "like", "said", "event", "observed", "zone"}

ASSUME JobsAssumption ==
    \A j \in Jobs : \A r \in Runs : \A reply \in j[r].replies :
        /\ DOMAIN j[r] = PayloadFields /\ IsSeq(j[r].messages)
        /\ \A i \in DOMAIN j[r].messages : IsSeq(j[r].messages[i].said)
        /\ IsSeq(reply.items)
        /\ \A i \in DOMAIN reply.items : /\ DOMAIN reply.items[i] = ItemFields
                                        /\ reply.items[i].names \in Seq(Names)
                                        /\ IsSeq(reply.items[i].said)

VARIABLES job, run,
          entities,    \* the mentions counted of each name, 0 when there is no such row
          links,       \* of memories to entities
          edges, cached,
          lock         \* the run that has written a row and not yet committed

extractionVars == <<job, run, entities, links, edges, cached, lock>>

Nothing == [talk |-> "nothing", replies |-> {}]
Nobody  == "nobody"
MaxSimilar == 5
MaxApart   == 16
RelatedToMaxEntities == 4

-----------------------------------------------------------------------------
(* cortex: is it worth storing? *)

\* The service is asked once, within its deadline; whatever goes wrong is no answer.
JevEvaluate(answer) == IF answer \in {"timeout", "refused", "broken"} THEN "none" ELSE answer

\* An answer without the fields that are asked for stores.
FromJevResponse(answer) == answer # "not_worth_it"

HeuristicWriteDecision(p) == p.talk # "greeting"

EvaluateObservation(p, answer) ==
    CASE p.talk = "empty" -> FALSE
      [] p.talk # "empty" /\ Mode = "remote" /\ JevEvaluate(answer) # "none" -> FromJevResponse(answer)
      [] OTHER -> HeuristicWriteDecision(p)

ShouldStore(p, answer) == Mode = "offline" \/ EvaluateObservation(p, answer)

-----------------------------------------------------------------------------
(* what the model says *)

\* Types, flags and lists are coerced; what is no object, or is invalid, is skipped.
ParseMemories(reply, p, contexts) ==
    {[i \in DOMAIN valid |-> ApplyTemporalMetadata(valid[i], p, contexts)] :
        valid \in Picked(reply.items, {i \in DOMAIN reply.items : reply.items[i].kind = "object"})}

\* A triple with a direct identifier in it is dropped, the memory falls back to its text.
PseudonymizeFact(memory) ==
    IF memory.item.tier = "direct_in_fact" THEN [memory EXCEPT !.item.fact = "none"] ELSE memory

Safe(memories) ==
    {[i \in DOMAIN kept |-> PseudonymizeFact(kept[i])] :
        kept \in Picked(memories, {i \in DOMAIN memories : memories[i].item.tier # "direct"})}

\* The slot that the triple names, else the text.
BatchKeyOf(memory) == <<"text", memory.item.text>>
FactKey(memory)    == IF memory.item.fact # "none" THEN <<"slot", memory.item.fact>> ELSE BatchKeyOf(memory)

-----------------------------------------------------------------------------
(* mentions and edges *)

Mentions(kept) ==
    FlattenSeq([i \in DOMAIN kept |->
        [j \in DOMAIN kept[i].item.names |-> [memory |-> kept[i].item.text, name |-> kept[i].item.names[j]]]])

SeedExact(kept) ==
    LET said == {Mentions(kept)[i].name : i \in DOMAIN Mentions(kept)} IN {n \in said : entities[n] > 0}

FindSimilarNames(n) ==
    LET rows == SelectSeq(<<n>> \o Similar[n], LAMBDA c : entities[c] > 0)
    IN  SubSeq(rows, 1, Least(Len(rows), MaxSimilar))

\* The likest name whose numbers are the same.
FuzzyMatch(n) == SelectSeq(FindSimilarNames(n), LAMBDA c : Digits[c] = Digits[n])

\* A phrase between two names types their pair; the last one that does, stands.
Typed(item, present) ==
    LET pair(i) == {item.verbs[i].from, item.verbs[i].to}
        said    == {i \in DOMAIN item.verbs : /\ pair(i) \subseteq present
                                              /\ item.verbs[i].from # item.verbs[i].to
                                              /\ item.verbs[i].apart <= MaxApart}
    IN  {item.verbs[i] : i \in {k \in said : \A j \in said : j > k => pair(j) # pair(k)}}

\* Two names that nothing relates are related, unless there are too many of them.
RelatedToBackfill(names, first, covered) ==
    IF Cardinality(first) > RelatedToMaxEntities THEN {}
    ELSE {<<names[p[1]], "related_to", names[p[2]]>> :
            p \in {q \in first \X first : q[1] < q[2] /\ {names[q[1]], names[q[2]]} \notin covered}}

\* Of the names, each where it comes first.
SemanticRelations(item, names, first) ==
    LET typed == Typed(item, {names[i] : i \in first})
    IN  {<<v.from, v.rel, v.to>> : v \in typed}
        \union RelatedToBackfill(names, first, {{v.from, v.to} : v \in typed})

\* Of each memory that is kept, over the entities its mentions came to.
EdgesOf(kept, index) ==
    UNION {LET names == [j \in DOMAIN kept[i].item.names |-> index[kept[i].item.names[j]]]
               first == {j \in DOMAIN names : \A k \in 1 .. j - 1 : names[k] # names[j]}
           IN  IF Cardinality(first) < 2 THEN {}
               ELSE {e \in SemanticRelations(kept[i].item, names, first) : e[1] # e[3]} : i \in DOMAIN kept}

-----------------------------------------------------------------------------
(* runs *)

Fresh == [stage |-> "redact", tries |-> 0, extracted |-> 0, stored |-> 0, merged |-> 0, discarded |-> 0,
          contexts |-> <<>>, common |-> NoContext, rest |-> <<>>, kept |-> <<>>, keys |-> {}, mentions |-> <<>>, index |-> << >>, counts |-> << >>,
          new |-> <<>>, wrote |-> {}, links |-> {}, edges |-> {}]

ExtractionInit == /\ job \in Jobs
        /\ run = [r \in Runs |-> IF job[r] = Nothing THEN [Fresh EXCEPT !.stage = "done"] ELSE Fresh]
        /\ entities = Known
        /\ links = {} /\ edges = {} /\ cached = {}
        /\ lock = [n \in Names |-> Nobody]

Set(r, new) == run' = [run EXCEPT ![r] = new]
AtStage(r, stage) == run[r].stage = stage
Graph == <<entities, links, edges>>

\* The whole run is one transaction; the worker tries it again.
Rollback(r) ==
    /\ Set(r, [Fresh EXCEPT !.tries = run[r].tries + 1,
                            !.stage = IF run[r].tries + 1 < MaxTries THEN "redact" ELSE "failed"])
    /\ lock' = [n \in Names |-> IF lock[n] = r THEN Nobody ELSE lock[n]]
    /\ UNCHANGED <<job, Graph, cached>>

Quiet == UNCHANGED <<job, Graph, cached, lock>>

\* A gate that fails rejects the observation.
Redact(r, works) ==
    /\ AtStage(r, "redact")
    /\ Set(r, IF works THEN [run[r] EXCEPT !.stage = "decide"]
              ELSE [run[r] EXCEPT !.stage = "done", !.discarded = 1])
    /\ Quiet

\* The worker puts times to the messages before it asks the model.
Decide(r, answer) ==
    /\ AtStage(r, "decide")
    /\ Set(r, IF ShouldStore(job[r], answer)
              THEN [run[r] EXCEPT !.stage = "extract", !.contexts = NormalizeMessages(WorkerPayload(job[r]))]
              ELSE [run[r] EXCEPT !.stage = "done", !.discarded = 1])
    /\ Quiet

Extract(r, reply) ==
    \E parsed \in ParseMemories(reply, job[r], run[r].contexts) : \E memories \in Safe(parsed) :
        /\ AtStage(r, "extract") /\ reply.status = "memories"
        /\ Set(r, [run[r] EXCEPT !.stage = IF memories = <<>> THEN "done" ELSE "ground",
                                 !.extracted = Len(memories), !.rest = memories])
        /\ Quiet

\* The model does not answer, or not with a list of memories.
ExtractFails(r, reply) ==
    /\ AtStage(r, "extract") /\ reply.status # "memories"
    /\ Rollback(r)

\* What all messages share, for the second pass: here the payload has no event of its own.
Ground(r) ==
    /\ AtStage(r, "ground")
    /\ \E contexts \in {NormalizeMessages(job[r])} :
          Set(r, [run[r] EXCEPT !.stage = "dedup", !.contexts = <<>>, !.common = CommonContext(contexts, job[r])])
    /\ Quiet

\* Grounded a second time, then folded with what came before it: its text, then its slot.
\* (UncountedFold: a repeat of a slot is folded and not counted.)
UncountedFold(one, memory) ==
    IF BatchKeyOf(memory) \in one.keys THEN [one EXCEPT !.merged = @ + 1] ELSE one
FoldInBatch(one, memory) == [one EXCEPT !.merged = @ + 1]

Repeats(one, memory) == {BatchKeyOf(memory), FactKey(memory)} \cap one.keys # {}

Dedup(r, verdict) ==
    /\ AtStage(r, "dedup") /\ run[r].rest # <<>>
    /\ \E memory \in {GroundMemoryTemporal(Head(run[r].rest), run[r].common)} :
        LET one  == [run[r] EXCEPT !.rest = Tail(@)]
            seen == [one EXCEPT !.keys = @ \union {BatchKeyOf(memory), FactKey(memory)}]
        IN  IF Repeats(one, memory)
            THEN /\ verdict = "keep"
                 /\ Set(r, [FoldInBatch(one, memory) EXCEPT !.keys = @ \union {BatchKeyOf(memory)}])
            ELSE Set(r, CASE verdict = "discard" -> [seen EXCEPT !.discarded = @ + 1]
                          [] verdict = "merge"   -> [seen EXCEPT !.merged = @ + 1]
                          [] verdict = "keep"    -> [seen EXCEPT !.kept = Append(@, memory)])
    /\ Quiet

\* Slots that truth maintenance does not clear are not entered, before the graph is built.
\* (LateDrop: their mentions are taken with the others.)
LateDrop(kept, left)     == Mentions(kept)
MentionsLeft(kept, left) == Mentions(left)

PlanAll(r, blocked) ==
    \E left \in Picked(run[r].kept, {i \in DOMAIN run[r].kept : run[r].kept[i].item.text \notin blocked}) :
        /\ AtStage(r, "dedup") /\ run[r].rest = <<>>
        /\ Set(r, [run[r] EXCEPT !.stage = IF left = <<>> THEN "done" ELSE "seed",
                                 !.discarded = @ + Cardinality(blocked),
                                 !.mentions = IF left = <<>> THEN <<>> ELSE MentionsLeft(run[r].kept, left),
                                 !.kept = left])
        /\ Quiet

\* One query for the names of the whole batch.
Seed(r) ==
    LET found == SeedExact(run[r].kept)
    IN  /\ AtStage(r, "seed")
        /\ Set(r, [run[r] EXCEPT !.stage = "resolve", !.index = [n \in found |-> n],
                                 !.counts = [n \in found |-> entities[n]]])
        /\ Quiet

Noted(f, n, x) == [k \in DOMAIN f \union {n} |-> IF k = n THEN x ELSE f[k]]

\* A name that has been met, one like it, or a new one.  What is counted is what was read.
ResolveMention(r) ==
    LET one    == run[r]
        m      == Head(one.mentions)
        alike  == FuzzyMatch(m.name)
        known  == m.name \in DOMAIN one.index \/ alike # <<>>
        target == IF m.name \in DOMAIN one.index THEN one.index[m.name]
                  ELSE IF alike # <<>> THEN alike[1] ELSE m.name
        read   == IF target \in DOMAIN one.counts THEN one.counts[target] ELSE entities[target]
    IN  /\ AtStage(r, "resolve") /\ one.mentions # <<>>
        /\ Set(r, [one EXCEPT !.mentions = Tail(@),
                              !.index = Noted(@, m.name, target),
                              !.counts = Noted(@, target, IF known THEN read + 1 ELSE 1),
                              !.new = IF known THEN @ ELSE Append(@, m.name),
                              !.links = @ \union {<<r, m.memory, m.name, target>>}])
        /\ Quiet

SynthesizeEdges(r) ==
    /\ AtStage(r, "resolve") /\ run[r].mentions = <<>>
    /\ Set(r, [run[r] EXCEPT !.stage = "write", !.edges = EdgesOf(run[r].kept, run[r].index)])
    /\ Quiet

\* The rows it has yet to write: those that exist in an order of the unit of work, then the new ones.
Touched(one) == {l[4] : l \in one.links}
NextWrites(one) ==
    LET updates == (Touched(one) \ ToSet(one.new)) \ one.wrote
        inserts == {i \in DOMAIN one.new : one.new[i] \notin one.wrote}
    IN  IF updates # {} THEN updates ELSE {one.new[i] : i \in {k \in inserts : \A j \in inserts : k <= j}}

Duplicate(r, n) == n \in ToSet(run[r].new) /\ entities[n] > 0

\* A row that another run has written is waited for.
Write(r, n) ==
    /\ AtStage(r, "write") /\ n \in NextWrites(run[r]) /\ lock[n] = Nobody
    /\ ~Duplicate(r, n)
    /\ Set(r, [run[r] EXCEPT !.wrote = @ \union {n}])
    /\ lock' = [lock EXCEPT ![n] = r]
    /\ UNCHANGED <<job, Graph, cached>>

\* Another run has meanwhile committed an entity of the name.
WriteRefused(r, n) ==
    /\ AtStage(r, "write") /\ n \in NextWrites(run[r]) /\ lock[n] = Nobody
    /\ Duplicate(r, n)
    /\ Rollback(r)

\* Each waits for the other: the database aborts one.
WaitsFor(r, q) == AtStage(r, "write") /\ \E n \in NextWrites(run[r]) : lock[n] = q
Deadlocked(r) ==
    /\ \E q \in Runs \ {r} : WaitsFor(r, q) /\ WaitsFor(q, r)
    /\ Rollback(r)

\* Edges that are there already, and loops, are passed over.
InsertIgnoringConflicts(es) == edges \union {e \in es : e[1] # e[3]}

\* Then, before it commits, the cache learns of them.
Neighbours(es) == UNION {{<<e[1], e[3]>>, <<e[3], e[1]>>} : e \in es}
UpdateCache(r) ==
    /\ AtStage(r, "write") /\ NextWrites(run[r]) = {}
    /\ Set(r, [run[r] EXCEPT !.stage = "commit", !.stored = Len(run[r].kept)])
    /\ cached' = cached \union Neighbours(run[r].edges)
    /\ UNCHANGED <<job, Graph, lock>>

Commit(r) ==
    /\ AtStage(r, "commit")
    /\ Set(r, [run[r] EXCEPT !.stage = "done"])
    /\ entities' = [n \in Names |-> IF n \in run[r].wrote THEN run[r].counts[n] ELSE entities[n]]
    /\ links' = links \union run[r].links
    /\ edges' = InsertIgnoringConflicts(run[r].edges)
    /\ lock' = [n \in Names |-> IF lock[n] = r THEN Nobody ELSE lock[n]]
    /\ UNCHANGED <<job, cached>>

\* The process dies, or the database goes away.
Crash(r) == run[r].stage \notin {"redact", "done", "failed"} /\ Rollback(r)

Answers  == {"timeout", "refused", "broken", "malformed", "worth_it", "not_worth_it"}
Verdicts == {"discard", "merge", "keep"}

Step(r) ==
    \/ \E works \in BOOLEAN : Redact(r, works)
    \/ \E answer \in Answers : Decide(r, answer)
    \/ \E reply \in job[r].replies : Extract(r, reply) \/ ExtractFails(r, reply)
    \/ \E verdict \in Verdicts : Dedup(r, verdict)
    \/ \E blocked \in SUBSET {run[r].kept[i].item.text : i \in DOMAIN run[r].kept} : PlanAll(r, blocked)
    \/ Ground(r) \/ Seed(r) \/ ResolveMention(r) \/ SynthesizeEdges(r)
    \/ \E n \in Names : Write(r, n) \/ WriteRefused(r, n)
    \/ Deadlocked(r) \/ UpdateCache(r) \/ Commit(r) \/ Crash(r)

Working == {r \in Runs : run[r].stage \notin {"done", "failed"}}
Finished == Working = {} /\ UNCHANGED extractionVars
ExtractionNext == (\E r \in Runs : Step(r)) \/ Finished
ExtractionSpec == ExtractionInit /\ [][ExtractionNext]_extractionVars

-----------------------------------------------------------------------------
(* properties *)

Stored(r) == IF run[r].stage = "done" /\ run[r].stored > 0 THEN ToSet(run[r].kept) ELSE {}

\* What a run extracts is stored, merged or discarded, each item once: the counts it reports add
\* up, whether its items are folded, deduplicated or kept out of an occupied slot.
EveryItemAccounted ==
    \A r \in Runs : run[r].stage = "done" /\ run[r].extracted > 0 =>
        run[r].extracted = run[r].stored + run[r].merged + run[r].discarded

\* "a dropped memory leaves no orphan links or edges behind it": an entity that was not there
\* before, and both ends of an edge, are linked to a memory that has been stored.
NoOrphans ==
    LET of(n) == {<<l[1], l[2]>> : l \in {k \in links : k[4] = n}}
        stored == UNION {{<<r, m.item.text>> : m \in Stored(r)} : r \in Runs}
    IN  /\ \A n \in Names : entities[n] > 0 /\ Known[n] = 0 => of(n) \cap stored # {}
        /\ \A e \in edges : of(e[1]) \cap of(e[3]) \cap stored # {}
        /\ {<<l[1], l[2]>> : l \in links} \subseteq stored

\* A memory that names its message, or its source, and whose message says when it occurred, is read at that
\* moment in that zone by both passes, whatever the other messages and the payload say: the second
\* neither moves what the first resolved nor resolves what it could not; and where its own words
\* place the event, that is its event.
GroundedInItsMessage ==
    \A r \in Runs : \A i \in DOMAIN run[r].kept :
        LET m    == run[r].kept[i]
            own  == {j \in DOMAIN job[r].messages : m.item.message \in IdsOf(job[r].messages[j], job[r])}
            msg  == job[r].messages[Lowest(own)]
            zone == MessageZone(msg, job[r])
            read == Readings(m.item.said, msg.occurred.at, zone)
            said == UtcOf(FirstResolved(read).start, zone)
        IN  m.item.message # "none" /\ m.item.zone = NoZone /\ own # {} /\ Given(msg.occurred) =>
                /\ \A k \in DOMAIN read :
                       Resolved(read[k]) \/ Resolved(m.readings[k]) => m.readings[k] = read[k]
                /\ said # None /\ ~Given(m.item.event) => m.event = said

ReadingOf(m, form, unit, x) ==
    LET hits == {i \in DOMAIN m.readings : /\ m.item.said[i].form = form /\ m.item.said[i].unit = unit
                                           /\ IF form = "shift" THEN m.item.said[i].n = x
                                              ELSE m.item.said[i].dir = x}
    IN  IF hits = {} THEN NoMatch ELSE m.readings[Lowest(hits)]

\* The last, this and the next week, month or year follow one another without a gap or an overlap,
\* and the day they are spoken of is in the one in the middle.
PeriodsTile ==
    \A r \in Runs : \A i \in DOMAIN run[r].kept : \A unit \in {"week", "month", "year"} :
        LET m     == run[r].kept[i]
            at(d) == ReadingOf(m, "period", unit, d)
            today == DateAt(DateOf(job[r].messages[1].occurred.at))
        IN  (\A d \in {"last", "this", "next"} : Resolved(at(d))) =>
                /\ at("last").end + 24 = at("this").start
                /\ at("this").end + 24 = at("next").start
                /\ at("this").start <= today /\ today <= at("this").end

\* So many months before a day is a day of the month so many before its own, no later in it.
ShiftsLand ==
    \A r \in Runs : \A i \in DOMAIN run[r].kept : \A k \in {1, 2, 3, 12} :
        LET m     == run[r].kept[i]
            then  == DateOf(ReadingOf(m, "shift", "month", - k).start)
            today == DateOf(job[r].messages[1].occurred.at)
        IN  Resolved(ReadingOf(m, "shift", "month", - k)) =>
                /\ MonthOf(then) = MonthOf(today) - k
                /\ DayOfMonth(then) <= DayOfMonth(today)

\* So the calendar of time expressions is one.
CalendarHolds == PeriodsTile /\ ShiftsLand
=============================================================================
