------------------------------ MODULE Retrieval ------------------------------
(***************************************************************************)
(* One request for memories, while the memories change.                    *)
(*                                                                         *)
(*   contexta/api/routes/retrieval.py              retrieve, batch,        *)
(*                                                 investigate             *)
(*   contexta/core/retrieval/engine.py             the cascade             *)
(*   contexta/core/retrieval/fusion.py             the fusion, the gate    *)
(*   contexta/core/retrieval/agentic_engine.py     the investigation       *)
(*                                                                         *)
(* Each await of the engine is a step of its own: between two of them a    *)
(* fact may be superseded, archived or cooled by another transaction.  A   *)
(* statement sees what is committed when it runs, but a row that the       *)
(* request still holds keeps the attributes it was first read with.  A     *)
(* statement may fail, and what fails in the database fails every later    *)
(* statement of the session.  Scores are thousandths.                      *)
(***************************************************************************)
EXTENDS Ranking

CONSTANTS
    Worlds,     \* what requests are about: [rows, changes, links, edges, entities, known, asked, kind, ...]
    Sayings     \* [now, question, said]: a phrase of time, in a question and in a message
\* Every row has the columns that decide who sees it; what a question speaks of is finite.
Columns == ScopeFields \cup {"org", "user", "to", "archived", "state", "context"}
ASSUME WorldsAssumption ==
    \A w \in Worlds :
        /\ w.faults \in Nat /\ Len(w.questions) \in Nat \ {0}
        /\ \A i \in 1 .. Len(w.questions) :
              LET q == w.questions[i] IN "names" \in DOMAIN q /\ IsFiniteSet(q.names) /\ IsFiniteSet(q.capitals)
        /\ \A m \in DOMAIN w.rows : Columns \subseteq DOMAIN w.rows[m]
        /\ \A c \in w.changes : /\ c.what \in {"supersede", "archive", "cool"}
                                /\ c.what = "supersede" => Columns \subseteq DOMAIN c.row
        /\ w.kind # "graph" => "archived" \in DOMAIN w.asked

VARIABLES
    changed,    \* of world.changes, those that have been made
    req,        \* the request
    reading     \* what a phrase of time means to the planner and to the extraction, when it was last said
retrievalVars == <<world, store, changed, req, reading>>

\* Bounds of the source, with pages of a few rows.
CandidateLimit(plan, asked) == 15 * AtLeast(asked.limit, RetrievalLimitHint(plan))
WidenedLimit(plan, n) == IF Explicit(plan.constraints) # <<>> THEN (3 * n) \div 2 ELSE n

-----------------------------------------------------------------------------
(* rows the request holds *)

Held == ToSet(req.lexical) \cup ToSet(req.dense) \cup ToSet(req.graph) \cup req.collected
Seen(m) == IF m \in DOMAIN req.copies THEN req.copies[m] ELSE store[m]
Copies(ids) == [m \in (Held \cap DOMAIN req.copies) \cup ids |-> Seen(m)]

\* An investigation asks for the user alone, and leaves the rest of the scope to its repositories.
QueryScope == IF world.kind # "investigate" THEN req.scope
              ELSE [f \in DOMAIN req.scope |-> IF f \in ScopeFields THEN Unsaid ELSE req.scope[f]]
\* The columns of a scope are UUIDs: what is asked for and is none equals no row's.  (IncludeAnyones:
\* of whichever user.)
IncludeAnyones(asked, row) ==
    row.org = req.scope.org /\ ApplyScopeFilters(row, QueryScope) /\ row.to = None /\ (row.archived => asked.archived)
IncludeMemory(asked, row) ==
    /\ row.user = req.scope.user /\ row.org = req.scope.org
    /\ ApplyScopeFilters(row, QueryScope)
    /\ row.to = None
    /\ row.archived => asked.archived
    /\ row.state = "cold" => asked.cold
    /\ asked.types # {} => row.type \in asked.types
    /\ asked.tags # {} => row.tags \cap asked.tags # {}
Included(page) == Those(page, {i \in DOMAIN page : IncludeMemory(req.asked, Seen(page[i]))})

\* The repositories of the routes are wrapped, and return what is in scope.
Scoped == world.kind \in {"retrieve", "batch", "investigate"}
Visible(page) == IF Scoped THEN ScopedMemories([m \in DOMAIN store |-> Seen(m)], page, req.scope) ELSE page

-----------------------------------------------------------------------------
(* statements that may fail *)

Faults == {"none"} \cup (IF req.faults < world.faults THEN {"database"} ELSE {})
Fails(fault, page) == fault = "database" \/ req.aborted \/ ~Hydrates(store, page)
Failed(fault) == [req EXCEPT !.aborted = @ \/ fault = "database", !.faults = @ + IF fault = "database" THEN 1 ELSE 0]

-----------------------------------------------------------------------------
(* asking *)

NoPlan == [entities |-> {}, ids |-> {}, constraints |-> <<>>, intent |-> "fact", required |-> 1,
           evidence |-> {}, depth |-> 0, cold |-> FALSE]
Waiting == [pc |-> "ask", attempt |-> 1, i |-> 0, hop |-> 0, pass |-> 1, faults |-> 0, aborted |-> FALSE,
            scope |-> [f \in {"org", "user"} |-> Unsaid], asked |-> [limit |-> 1], q |-> [terms |-> {}], plan |-> NoPlan,
            names |-> {}, seeds |-> {}, depth |-> 0, embedded |-> TRUE,
            lexical |-> <<>>, dense |-> <<>>, graph |-> <<>>, weights |-> <<>>, copies |-> <<>>, seen |-> {},
            results |-> <<>>, score |-> <<>>, page |-> <<>>, reason |-> "none", touched |-> {},
            collected |-> {}, value |-> <<>>, explored |-> {}, pages |-> <<>>]

NoReading == [window |-> NoSpan, match |-> NoMatch]
RetrievalInit ==
    /\ world \in Worlds
    /\ store = world.rows
    /\ changed = {}
    /\ req = Waiting
    /\ reading = NoReading

\* Who asks, and in which scope.
Admit ==
    /\ req.pc = "ask"
    /\ Scoped
    /\ LET scope == ScopeFor(world.known, world.asked)
       IN  req' = IF ResolveIdentity(world.known, world.asked) /\ ScopeAgrees(world.known, world.asked)
                  THEN [req EXCEPT !.pc = "plan", !.scope = scope, !.i = 1, !.asked = world.asked,
                                   !.q = world.questions[1]]
                  ELSE [req EXCEPT !.pc = "refused"]
    /\ UNCHANGED <<world, store, changed, reading>>

\* The vector of the question, the entities of the user, and the plan.
Comparative(q) == "comparative" \in q.marks
Depth(asked, plan, names, q) ==
    LET base == AtLeast(asked.depth, plan.depth)
    IN  IF Cardinality(names) >= 2 /\ Comparative(q) THEN AtLeast(base, 2) ELSE base
Spoken(q, known) == (UNION {Called(e) : e \in known}) \cap q.names
Reference(asked) == IF asked.asOf = None THEN world.now ELSE asked.asOf
\* Of a user who has none, those of the whole tenant, unless the repositories are wrapped: the names
\* and the seeds of a question are then of other users' entities.
KnownEntities ==
    LET own == ScopedEntities(world.entities, req.scope)
    IN  IF own # {} \/ Scoped THEN own ELSE {e \in world.entities : e.org = req.scope.org}
Plan ==
    /\ req.pc = "plan"
    /\ \E fault \in Faults, embedded \in IF req.faults < world.faults /\ world.kind # "tool" THEN BOOLEAN ELSE {TRUE} :
       \E known \in {IF Fails(fault, <<>>) THEN {} ELSE KnownEntities} :
       \E plan \in {BuildQueryPlan(req.q, known, Reference(req.asked))} :
          LET names == plan.entities \cup req.q.capitals \cup Spoken(req.q, known)
          IN  req' = [Failed(fault) EXCEPT
                        !.pc = "lexical", !.attempt = 1, !.embedded = embedded, !.plan = plan, !.names = names,
                        !.seeds = {e.id : e \in {e \in known : Called(e) \cap req.q.names # {}}} \cup plan.ids,
                        !.depth = Depth(req.asked, plan, names, req.q)]
    /\ UNCHANGED <<world, store, changed, reading>>

-----------------------------------------------------------------------------
(* candidates of the words *)

Limit == WidenedLimit(req.plan, CandidateLimit(req.plan, req.asked))

\* First with all that the question asks, then with a limit alone.
Attempted == IF req.attempt = 1 THEN Filters(QueryScope, req.asked) ELSE Defaults(req.scope)
Retry(r, next) == IF r.attempt = 1 THEN [r EXCEPT !.attempt = 2] ELSE [r EXCEPT !.pc = next, !.attempt = 1]

ExpandedLexicalQuery(q) == q.terms \cup q.variants
Lexical ==
    /\ req.pc = "lexical"
    /\ \E fault \in Faults :
       \E page \in {GetByLexicalSimilarity(store, ExpandedLexicalQuery(req.q), Attempted, Limit)} :
       \E visible \in {Visible(page)} :
          req' = IF Fails(fault, page) THEN Retry(Failed(fault), "lexicalUser")
                 ELSE IF Included(visible) = <<>>
                      THEN [req EXCEPT !.pc = "lexicalUser", !.attempt = 1, !.seen = @ \cup ToSet(visible)]
                      ELSE [req EXCEPT !.pc = "seeds", !.attempt = 1, !.seen = @ \cup ToSet(visible),
                                       !.lexical = PageOf(Included(visible), Limit), !.copies = Copies(ToSet(Included(visible)))]
    /\ UNCHANGED <<world, store, changed, reading>>

\* get_by_user takes none of the filters: only the attempt with a limit is made.
FallbackMemories == GetByUser(store, Defaults(req.scope), AtLeast(2 * Limit, 1000))
OrderedBy(merit) ==
    Sorted(DOMAIN merit, LAMBDA a, b :
        LET key(m) == <<-merit[m], IF store[m].state = "cold" THEN 1 ELSE 0, -store[m].importance, -store[m].created, m>>
        IN  \E i \in 1 .. 5 : key(a)[i] < key(b)[i] /\ \A j \in 1 .. i - 1 : key(a)[j] = key(b)[j])
LexicalUser ==
    /\ req.pc = "lexicalUser"
    /\ \E fault \in Faults :
       \E page \in {FallbackMemories} :
       \E kept \in {ToSet(Included(Visible(page)))} :
       \E ranked \in {OrderedBy([m \in {m \in kept : KeywordScore(Seen(m), req.q.terms) > 0} |->
                                    KeywordScore(Seen(m), req.q.terms)])} :
          req' = IF Fails(fault, page) THEN [Failed(fault) EXCEPT !.pc = "seeds"]
                 ELSE [req EXCEPT !.pc = "seeds", !.seen = @ \cup ToSet(Visible(page)),
                                  !.lexical = PageOf(ranked, Limit), !.copies = Copies(ToSet(ranked))]
    /\ UNCHANGED <<world, store, changed, reading>>

-----------------------------------------------------------------------------
(* candidates of the graph *)

\* A walk that fails brings nothing, one that finds nothing the entities it began from.
NoWeights == [m \in {} |-> 0]
EntityHopDistances(seeds, depth) == WalkEntityGraph(world.edges, seeds, depth)
CurrentByEntity(distances) ==
    [e \in DOMAIN distances |-> CurrentIdsOfEntity(store, world.links, e, req.scope.org)]
Nonempty(ids) == [e \in {e \in DOMAIN ids : ids[e] # {}} |-> ids[e]]
Weigh(seeds, depth) ==
    LET distances == EntityHopDistances(seeds, depth)
    IN  IF seeds = {} THEN NoWeights ELSE GraphMemoryWeights(distances, Nonempty(CurrentByEntity(distances)))

\* A walk or a read of links that fails: where in the round it does is all the same.
Seeds ==
    /\ req.pc = "seeds"
    /\ \E fault \in Faults :
       \E weights \in {IF Fails(fault, <<>>) THEN NoWeights ELSE Weigh(req.seeds, req.depth)} :
          req' = [Failed(fault) EXCEPT !.pc = "anchors", !.weights = weights, !.graph = <<>>]
    /\ UNCHANGED <<world, store, changed, reading>>

\* From the first five of each channel, one hop further.
AnchorIds == ToSet(PageOf(req.dense, 5)) \cup ToSet(PageOf(req.lexical, 5))
EntityIdsForMemories(ids) == {l[1] : l \in {l \in ScopedLinks(world.links, world.entities, req.seen, req.scope) : l[2] \in ids}}
Anchors ==
    /\ req.pc = "anchors"
    /\ \E fault \in Faults :
       \E weights \in {IF Fails(fault, <<>>) THEN req.weights
                       ELSE MergedWeights(req.weights, Weigh(EntityIdsForMemories(AnchorIds), AtLeast(req.depth, 1)))} :
          req' = [Failed(fault) EXCEPT !.pc = "hydrate", !.weights = weights]
    /\ UNCHANGED <<world, store, changed, reading>>

\* Those that no other channel holds are read.
Wanted  == ToSet(PageOf(ByScore(DOMAIN req.weights, req.weights), Limit))
Missing == Wanted \ (ToSet(req.lexical) \cup ToSet(req.dense))
Hydrate ==
    /\ req.pc = "hydrate"
    /\ \E fault \in Faults :
       \E page \in {GetManyByIds(store, Missing, req.scope.org)} :
       \E fetched \in {IF Fails(fault, page) THEN <<>> ELSE Included(Visible(page))} :
          req' = IF Missing = {} THEN [req EXCEPT !.pc = "widen"]
                 ELSE [Failed(fault) EXCEPT
                         !.pc = IF Missing \subseteq ToSet(fetched) THEN "widen" ELSE "hydrateUser",
                         !.graph = fetched, !.copies = Copies(ToSet(fetched)),
                         !.seen = @ \cup (IF Fails(fault, page) THEN {} ELSE ToSet(Visible(page)))]
    /\ UNCHANGED <<world, store, changed, reading>>

HydrateUser ==
    /\ req.pc = "hydrateUser"
    /\ \E fault \in Faults :
       \E page \in {FallbackMemories} :
       \E found \in {(Missing \ ToSet(req.graph)) \cap ToSet(Included(Visible(page)))} :
          req' = IF Fails(fault, page) THEN [Failed(fault) EXCEPT !.pc = "widen"]
                 ELSE [req EXCEPT !.pc = "widen", !.graph = Sorted(ToSet(@) \cup found, <), !.copies = Copies(found),
                                  !.seen = @ \cup ToSet(Visible(page))]
    /\ UNCHANGED <<world, store, changed, reading>>

\* In the order of their weights, with those of the other channels.
GraphCandidates ==
    LET held == {m \in Wanted : m \in ToSet(req.graph) \cup ToSet(req.lexical) \cup ToSet(req.dense)}
    IN  ByScore({m \in held : IncludeMemory(req.asked, Seen(m))}, req.weights)
Widen ==
    /\ req.pc = "widen"
    /\ req' = [req EXCEPT !.pc = "fuse", !.graph = GraphCandidates]
    /\ UNCHANGED <<world, store, changed, reading>>

-----------------------------------------------------------------------------
(* fusion, and the vectors when it is not enough *)

Channels == IF req.pass = 1 THEN [lexical |-> req.lexical, graph |-> req.graph]
            ELSE [dense |-> req.dense, lexical |-> req.lexical, graph |-> req.graph]
Graph(m) == IF m \in DOMAIN req.weights THEN req.weights[m] ELSE 0
FuseAndScore ==
    [m \in UNION {ToSet(Channels[c]) : c \in DOMAIN Channels} |->
        ScoreCandidate(Seen(m), Fused(Seen(m), Channels, m),
                       ScoreMemory(Seen(m), req.q, req.plan, Graph(m), req.embedded, req.depth, Reference(req.asked)))]
Rows == [m \in Held |-> Seen(m)]
Fuse ==
    /\ req.pc = "fuse"
    /\ \E score \in {FuseAndScore} :
       \E results \in {ByScore(DOMAIN score, score)} :
       \E reason \in {IF req.pass = 2 THEN req.reason
                      ELSE AssessPrimarySufficiency(Rows, results, score, req.plan, req.names)} :
          req' = [req EXCEPT !.score = score, !.results = results, !.reason = reason,
                             !.pc = IF req.pass = 2 \/ Sufficient(reason) THEN "finish"
                                    ELSE IF req.embedded THEN "dense" ELSE "denseUser"]
    /\ UNCHANGED <<world, store, changed, reading>>

SecondPass(r) == [r EXCEPT !.pc = "seeds", !.attempt = 1, !.pass = 2]
Dense ==
    /\ req.pc = "dense"
    /\ \E fault \in Faults :
       \E page \in {GetByVectorSimilarity(store, req.q.meaning, world.profile, Attempted, Limit)} :
       \E visible \in {Visible(page)} :
          req' = IF Fails(fault, page) THEN Retry(Failed(fault), "denseUser")
                 ELSE IF Included(visible) = <<>>
                      THEN [req EXCEPT !.pc = "denseUser", !.seen = @ \cup ToSet(visible)]
                      ELSE [SecondPass(req) EXCEPT !.seen = @ \cup ToSet(visible),
                                !.dense = PageOf(Included(visible), Limit), !.copies = Copies(ToSet(Included(visible)))]
    /\ UNCHANGED <<world, store, changed, reading>>

DenseUser ==
    /\ req.pc = "denseUser"
    /\ \E fault \in Faults :
       \E page \in {FallbackMemories} :
       \E kept \in {{m \in ToSet(Included(Visible(page))) : Seen(m).vectors # {} /\ Cosine(Seen(m).meaning, req.q.meaning) > 0}} :
       \E ranked \in {IF req.embedded THEN OrderedBy([m \in kept |-> Cosine(Seen(m).meaning, req.q.meaning)]) ELSE <<>>} :
          req' = IF Fails(fault, page) THEN SecondPass(Failed(fault))
                 ELSE [SecondPass(req) EXCEPT !.seen = @ \cup ToSet(Visible(page)),
                                              !.dense = PageOf(ranked, Limit), !.copies = Copies(ToSet(ranked))]
    /\ UNCHANGED <<world, store, changed, reading>>

-----------------------------------------------------------------------------
(* the page, and what comes of it *)

InWindow(results) ==
    IF Explicit(req.plan.constraints) = <<>> THEN results
    ELSE Those(results, {i \in DOMAIN results : TemporalRelevance(Seen(results[i]), req.plan, Reference(req.asked)) > 0})
RerankPool(results, plan) ==
    EnsureRequiredEvidence(PageOf(results, AtLeast(45, RetrievalLimitHint(plan))), results, plan.evidence)
PageLimit == AtLeast(req.asked.limit, req.plan.required)
Finish ==
    /\ req.pc = "finish"
    /\ \E results \in {InWindow(req.results)} :
       \E page \in {PromoteEntityCoverage(Rows, RerankPool(results, req.plan), req.score, req.plan, req.names,
                                          Comparative(req.q), PageLimit)} :
          req' = [req EXCEPT !.pc = IF page = <<>> THEN "next" ELSE "touch", !.page = page]
    /\ UNCHANGED <<world, store, changed, reading>>

\* When they were read last, which decay goes by: of those that were read in scope.
TouchAccessed ==
    /\ req.pc = "touch"
    /\ \E fault \in Faults :
          req' = [Failed(fault) EXCEPT !.pc = "next",
                    !.touched = @ \cup (IF Fails(fault, <<>>) THEN {} ELSE ToSet(req.page) \cap req.seen)]
    /\ UNCHANGED <<world, store, changed, reading>>

\* The next question of a batch starts from nothing but the session.
Fresh(r) == [r EXCEPT !.pc = "plan", !.attempt = 1, !.pass = 1, !.lexical = <<>>, !.dense = <<>>, !.graph = <<>>,
                      !.weights = <<>>, !.results = <<>>, !.score = <<>>, !.reason = "none", !.page = <<>>]
Answered(r) == [r EXCEPT !.pages = Append(@, ToSet(r.page))]
NextQuestion ==
    /\ req.pc = "next"
    /\ world.kind # "investigate"
    /\ req' = IF req.i < Len(world.questions)
              THEN [Fresh(Answered(req)) EXCEPT !.i = @ + 1, !.q = world.questions[req.i + 1], !.copies = <<>>, !.seen = {}]
              ELSE [Answered(req) EXCEPT !.pc = "commit"]
    /\ UNCHANGED <<world, store, changed, reading>>

\* An investigation keeps what it finds and follows the name that most of it speaks of.  Its answer
\* reads of every result a field that results do not have: whoever found something is refused, and
\* the session is rolled back.
Leads(rows) == (UNION {rows[m].names : m \in DOMAIN rows}) \ req.explored
Evidence(rows, value, name) == Total({m \in DOMAIN value : name \in rows[m].names}, LAMBDA m : value[m])
TopEntity(rows, value, leads) == CHOOSE n \in leads : \A o \in leads : Evidence(rows, value, n) >= Evidence(rows, value, o)
SubQuestion(name) == [req.q EXCEPT !.terms = {name} \cup (IF "temporal" \in req.q.marks THEN {"history"} ELSE req.q.terms),
                                   !.names = {name} \cup req.q.names]
Collect(r) == [r EXCEPT !.collected = @ \cup ToSet(r.page), !.copies = [m \in r.collected \cup ToSet(r.page) |-> Seen(m)],
                        !.value = [m \in r.collected \cup ToSet(r.page) |-> IF m \in r.collected THEN r.value[m] ELSE r.score[m]],
                        !.explored = IF r.hop = 0 THEN @ \cup UNION {Seen(m).tags : m \in ToSet(r.page)} ELSE @]
Investigate ==
    /\ req.pc = "next"
    /\ world.kind = "investigate"
    /\ \E r \in {Collect(req)} :
          IF r.hop >= world.hops \/ UNION {r.copies[m].names : m \in r.collected} \subseteq r.explored
          THEN req' = IF r.collected = {} THEN [Answered(r) EXCEPT !.pc = "commit"]
                      ELSE [r EXCEPT !.pc = "refused", !.page = <<>>, !.touched = {}]
          ELSE \E name \in {TopEntity(r.copies, r.value, Leads(r.copies) \ r.explored)} :
                 req' = [Fresh(r) EXCEPT !.hop = @ + 1, !.explored = @ \cup {name}, !.q = SubQuestion(name),
                                         !.asked = [@ EXCEPT !.limit = 5, !.depth = 2]]
    /\ UNCHANGED <<world, store, changed, reading>>

\* The session commits behind the answer; one that failed in the database is rolled back.
Commit ==
    /\ req.pc = "commit"
    /\ req' = [req EXCEPT !.pc = "done", !.touched = IF req.aborted THEN {} ELSE @]
    /\ UNCHANGED <<world, store, changed, reading>>

-----------------------------------------------------------------------------
(* meanwhile *)

\* A fact that is corrected is closed, and its new version written, under a key of its own, at once.
Apply(c) ==
    CASE c.what = "supersede" -> [m \in DOMAIN store \cup {c.id} |->
                                    IF m = c.id THEN c.row ELSE IF m = c.of THEN [store[m] EXCEPT !.to = world.now] ELSE store[m]]
      [] c.what = "archive"   -> [store EXCEPT ![c.of].archived = TRUE]
      [] c.what = "cool"      -> [store EXCEPT ![c.of].state = "cold"]
Change ==
    /\ req.pc \notin {"ask", "commit", "done", "refused"}
    /\ \E c \in world.changes \ changed :
          /\ c.of \in DOMAIN store /\ store[c.of].to = None
          /\ c.what = "supersede" => c.id \notin DOMAIN store /\ PrepareEmbedding(c.row)
          /\ store' = Apply(c)
          /\ changed' = changed \cup {c}
    /\ UNCHANGED <<world, req, reading>>

\* A phrase as a question has it, and as a message had it the same day.
Say ==
    /\ req.pc = "ask"
    /\ world.kind = "reading"
    /\ \E s \in Sayings :
       \E plan \in {BuildQueryPlan(s.question, {}, s.now)} :
          reading' = [window |-> <<plan.constraints[1].start, plan.constraints[1].end>>, match |-> Resolve(s.said, s.now)]
    /\ req' = [req EXCEPT !.pc = "done"]
    /\ UNCHANGED <<world, store, changed>>

Over == req.pc \in {"done", "refused"}
RetrievalNext ==
    \/ Admit \/ Plan \/ Lexical \/ LexicalUser \/ Seeds \/ Anchors \/ Hydrate \/ HydrateUser \/ Widen \/ Fuse
    \/ Dense \/ DenseUser \/ Finish \/ TouchAccessed \/ NextQuestion \/ Investigate \/ Commit
    \/ Change \/ Say
    \/ (Over /\ UNCHANGED retrievalVars)

-----------------------------------------------------------------------------
(* properties *)

Returned == (UNION {req.pages[i] : i \in DOMAIN req.pages}) \cup ToSet(req.page)

\* What a caller is shown was, when the request began or since, a current fact that was not archived,
\* of the organisation, the user and the scope that the request was admitted for: whatever changes
\* between the reads, whichever read brought the row (the words, the links of an entity, of another
\* user's as well, a vector or the list of all) and whatever failed (engine.py:1337).
AdmittedOnPage ==
    \A m \in Returned :
        /\ store[m].org = req.scope.org /\ store[m].user = req.scope.user
        /\ m \in DOMAIN world.rows => world.rows[m].to = None /\ (world.rows[m].archived => world.asked.archived)
        /\ ApplyScopeFilters(store[m], req.scope)
        /\ Scoped => MemoryInScope(store[m], req.scope)

\* Promotion gives a place only to the best that speaks for a name of the question, and takes it
\* from the worst: when a row is left out though it scores above one on the page, that one speaks of
\* a name that no better row of the page speaks of.
PromotedForAName ==
    req.pc = "touch" =>
        \A in \in ToSet(req.page), out \in ToSet(InWindow(req.results)) \ ToSet(req.page) :
            req.score[out] > req.score[in] =>
                \E name \in Seen(in).names \cap (req.plan.entities \cup req.names) :
                    \A m \in ToSet(req.page) \ {in} : name \in Seen(m).names => req.score[m] <= req.score[in]

\* A correction does not demote what it corrects: a fact of an entity weighs by how many current
\* facts the entity has, however many closed ones its links still lead to.
CorrectedNotDemoted ==
    req.pc = "hydrate" /\ changed = {} =>
        \A m \in DOMAIN req.weights : \A e \in req.seeds :
            <<e, m>> \in world.links =>
                req.weights[m] >= InverseRoot[Cardinality({o \in DOMAIN store : <<e, o>> \in world.links /\ store[o].to = None})]
                \/ req.faults > 0

\* A question about yesterday, the last week or this year asks for the very hours that a message
\* of the same day means by it: what was remembered under the phrase is found under it.
WindowsAgree ==
    reading # NoReading =>
        /\ reading.window[1] = reading.match.start
        /\ reading.window[2] = Ends(reading.match) + 24

\* What is asked by a name, about a corrected fact or by a phrase of time gets its place.
AnsweredFairly == PromotedForAName /\ CorrectedNotDemoted /\ WindowsAgree

\* "`as_of` ... turns retrieval into a bitemporal range read: memories valid at that instant, not the
\* ones that are current now" (docs/src/app/concepts/retrieval.mdx:134).
AsOfAnswered ==
    world.asked.asOf # None => \A m \in Returned : ApplyAsOfFilter(store[m], world.asked.asOf)
=============================================================================
