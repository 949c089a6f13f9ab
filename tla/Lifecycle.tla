----------------------------- MODULE Lifecycle -----------------------------
(***************************************************************************)
(* What happens to a stored memory later: what users do to its row, the    *)
(* periodic cycles (decay, reflection, dreams), the proposals that a dream *)
(* and the consolidation service leave for review, and the tasks that give *)
(* the row a vector.                                                       *)
(*                                                                         *)
(*   contexta/api/routes/memories.py           pin, archive, delete ...    *)
(*   contexta/repositories/memory_repo.py      the updates of a row        *)
(*   contexta/workers/decay_tasks.py, reflection_tasks.py, dream_tasks.py  *)
(*   contexta/core/consolidation/memory.py     proposals and their policy  *)
(*   contexta/repositories/proposal_repo.py    rows of proposals           *)
(*   contexta/workers/embedding_tasks.py       vectors, one or a batch     *)
(*   contexta/services/embedding.py            what a vector must be       *)
(*                                                                         *)
(* A job is a request or a task: a transaction with the reads it makes,    *)
(* between which other jobs commit, and the commit that ends it.           *)
(***************************************************************************)
EXTENDS Integers, Sequences, FiniteSets

CONSTANTS
    Memories,       \* the memories of one user
    TypeOf,         \* the type of each
    Asked,          \* what each job may be asked, in the order they arrive
    Profiles,       \* embedding profiles of the running services
    NoId,           \* a field that is not given
    Limit,          \* DORMANT_BATCH_LIMIT
    MaxText         \* bound: how often a memory's text is rewritten

Jobs     == DOMAIN Asked
Requests == UNION {Asked[j] : j \in Jobs}

UserKinds   == {"pin", "unpin", "archive", "restore", "delete", "touch", "rewrite"}
ReviewKinds == {"validate", "approve", "reject"}
Kinds == UserKinds \cup ReviewKinds
            \cup {"feedback", "decay", "reflect", "dream", "propose", "apply", "embed"}

\* ids       the memories a request is about     key   the key of a proposal
\* tier, confidence   what a proposal claims     profile   the task's embedding profile
\* flag      a feedback that corrects the memory or whose penalty is total; a dry run of a dream
RequestFields == {"kind", "ids", "key", "tier", "confidence", "profile", "flag"}
Tiers == {"low", "medium", "high", "critical"}
ASSUME RequestsAssumption ==
    /\ Asked \in Seq(SUBSET Requests) /\ MaxText \in Nat
    /\ \A r \in Requests :
        /\ DOMAIN r = RequestFields /\ r.kind \in Kinds /\ r.ids \subseteq Memories
        /\ r.kind \in UserKinds \cup {"feedback"} => r.ids # {}
        /\ r.kind \in ReviewKinds \cup {"propose", "apply"} => r.key # NoId
        /\ r.tier \in Tiers /\ r.confidence \in Nat
        /\ r.kind = "embed" => r.profile \in Profiles
    /\ TypeOf \in [Memories -> {"fact", "goal", "rule"}]
    /\ NoId \notin Jobs /\ NoId \notin Requests /\ NoId \notin Profiles

VARIABLES
    row,            \* the committed rows of the memories
    proposal,       \* the committed proposals by idempotency key
    dreams,         \* the completed dreams: the memories each has processed
    locked,         \* the job that holds the row lock of a memory
    job

lifecycleVars == <<row, proposal, dreams, locked, job>>

States == {"active", "warm", "cold", "archived"}
Types  == {"fact", "goal", "rule"}
Rows ==
    [live : BOOLEAN, pinned : BOOLEAN, archived : BOOLEAN, current : BOOLEAN, idle : BOOLEAN,
     state : States, type : Types, text : 0 .. MaxText, vec : [Profiles -> 0 .. MaxText + 1],
     label : Profiles \cup {NoId}, utility : -1 .. 0]

ValidationStates == {"validated", "needs_review", "rejected", "approved", "applied"}
NoProposal == [state |-> "none"]

\* canonical   it has become a memory          approved   history: a reviewer approved it
Proposals ==
    [state : ValidationStates, tier : Tiers, evidence : SUBSET Memories, confidence : Nat,
     approved : BOOLEAN, canonical : BOOLEAN]

\* The key of a dream's proposal is the digest of what it is about.
Keys == ({r.key : r \in Requests} \ {NoId}) \cup ((SUBSET Memories) \ {{}})

Fresh ==
    [pc |-> "none", req |-> NoId, tries |-> 0, seen |-> {}, batch |-> {}, read |-> NoId,
     draft |-> NoProposal, embedded |-> {}, answer |-> "none"]

TypeOK ==
    /\ row \in [Memories -> Rows]
    /\ proposal \in [Keys -> Proposals \cup {NoProposal}]
    /\ dreams \subseteq SUBSET Memories
    /\ locked \in [Memories -> Jobs \cup {NoId}]
    /\ \A j \in Jobs :
        /\ job[j].pc \in {"none", "got", "read", "selected", "drafted", "embedded", "done"}
        /\ job[j].tries \in 0 .. 3
        /\ job[j].batch \subseteq Memories /\ job[j].embedded \subseteq Memories
        /\ job[j].pc = "none" <=> job[j].req = NoId

\* Memories are committed before this begins, and have no vector yet.
LifecycleInit ==
    /\ row = [m \in Memories |->
        [live |-> TRUE, pinned |-> FALSE, archived |-> FALSE, current |-> TRUE, idle |-> TRUE,
         state |-> "active", type |-> TypeOf[m], text |-> 0, vec |-> [p \in Profiles |-> 0],
         label |-> NoId, utility |-> 0]]
    /\ proposal = [k \in Keys |-> NoProposal]
    /\ dreams = {}
    /\ locked = [m \in Memories |-> NoId]
    /\ job = [j \in Jobs |-> Fresh]

-----------------------------------------------------------------------------
Req(j)     == job[j].req
At(j, pc)  == job[j].pc = pc
Asks(j, k) == At(j, "got") /\ Req(j).kind = k
Target(j)  == CHOOSE m \in Memories : m \in Req(j).ids

\* An UPDATE waits for the row's lock.  (NoWait: it does not.)
NoWait(m) == TRUE
Unlocked(m) == locked[m] = NoId

Ends(j, answer)  == job' = [job EXCEPT ![j].pc = "done", ![j].answer = answer]
Unlock(j)        == locked' = [m \in Memories |-> IF locked[m] = j THEN NoId ELSE locked[m]]
OnlyRows         == UNCHANGED <<proposal, dreams, locked>>
OnlyProposals    == UNCHANGED <<row, dreams, locked>>

Receive(j) ==
    /\ At(j, "none") /\ \A i \in Jobs : i < j => ~At(i, "none")
    /\ \E r \in Asked[j] : job' = [job EXCEPT ![j] = [Fresh EXCEPT !.pc = "got", !.req = r]]
    /\ UNCHANGED <<row, proposal, dreams, locked>>

-----------------------------------------------------------------------------
(* the row of a memory: MemoryRepository.update_by_id and the routes *)

\* One statement, 404 when it touches no row.
UpdateRow(j, m, new) ==
    /\ Unlocked(m)
    /\ row' = [row EXCEPT ![m] = IF @.live THEN new ELSE @]
    /\ Ends(j, IF row[m].live THEN "ok" ELSE "not_found")
    /\ OnlyRows

Pin(j)     == Asks(j, "pin")     /\ UpdateRow(j, Target(j), [row[Target(j)] EXCEPT !.pinned = TRUE])
Unpin(j)   == Asks(j, "unpin")   /\ UpdateRow(j, Target(j), [row[Target(j)] EXCEPT !.pinned = FALSE])
Archive(j) == Asks(j, "archive") /\ UpdateRow(j, Target(j), [row[Target(j)] EXCEPT !.archived = TRUE])
Restore(j) == Asks(j, "restore") /\ UpdateRow(j, Target(j), [row[Target(j)] EXCEPT !.archived = FALSE])
Delete(j)  == Asks(j, "delete")  /\ UpdateRow(j, Target(j), [row[Target(j)] EXCEPT !.live = FALSE])

\* touch_accessed_many, of every retrieval.
Touch(j) == Asks(j, "touch") /\ UpdateRow(j, Target(j), [row[Target(j)] EXCEPT !.idle = FALSE])

\* What a merge writes: a longer text; the vector stays.
Rewrite(j) ==
    /\ Asks(j, "rewrite") /\ row[Target(j)].text < MaxText
    /\ UpdateRow(j, Target(j), [row[Target(j)] EXCEPT !.text = @ + 1])

\* apply_feedback reads the row ...
FeedbackRead(j) ==
    /\ Asks(j, "feedback")
    /\ IF row[Target(j)].live
       THEN job' = [job EXCEPT ![j].pc = "read", ![j].read = row[Target(j)]]
       ELSE Ends(j, "not_found")
    /\ UNCHANGED <<row, proposal, dreams, locked>>

\* ... and writes what follows from what it read.
FeedbackWrite(j) ==
    /\ At(j, "read") /\ Req(j).kind = "feedback"
    /\ LET m == Target(j)
           old == job[j].read
           archives == Req(j).flag \/ old.utility = -1
       IN  UpdateRow(j, m,
             [row[m] EXCEPT !.idle = FALSE, !.utility = -1,
                !.state = IF archives THEN "archived" ELSE @,
                !.current = IF archives /\ old.current THEN FALSE ELSE @])

-----------------------------------------------------------------------------
(* decay and reflection *)

\* The clock of the cycles has a time zone and the columns they compare it with have none:
\* the age of a memory cannot be computed, and asking for it raises.
Raises == "raises"
Age(r) == Raises

\* transition_for: what is pinned, or is a rule, keeps its state without its age being asked.
Transition(r) ==
    IF r.pinned \/ r.type = "rule" THEN r.state
    ELSE IF Age(r) = Raises THEN Raises
    ELSE CASE r.state = "active" -> "warm"
           [] r.state = "warm"   -> "cold"
           [] OTHER              -> "archived"

Decaying == {m \in Memories : row[m].live /\ ~row[m].pinned /\ ~row[m].archived /\ row[m].current}
Goals    == {m \in Decaying : row[m].type = "goal"}

\* mark_dormant_goal
Dormancy(r) == IF Age(r) = Raises THEN Raises ELSE "cold"

\* A cycle is one transaction over the rows it selects, given their next states; what raises rolls it all back.
Cycle(j, next) ==
    IF \E m \in DOMAIN next : next[m] = Raises
    THEN Ends(j, "error") /\ UNCHANGED row
    ELSE /\ row' = [m \in Memories |->
                        IF m \in DOMAIN next THEN [row[m] EXCEPT !.state = next[m]] ELSE row[m]]
         /\ Ends(j, "completed")

RunDecayCycle(j) ==
    Asks(j, "decay") /\ Cycle(j, [m \in Decaying |-> Transition(row[m])]) /\ OnlyRows
RunReflectionCycle(j) ==
    Asks(j, "reflect") /\ Cycle(j, [m \in Goals |-> Dormancy(row[m])]) /\ OnlyRows

-----------------------------------------------------------------------------
(* proposals *)

\* RiskTieredAdmissionPolicy, its defaults.
MinConfidence(tier) == CASE tier = "low" -> 65 [] tier = "medium" -> 80 [] tier = "high" -> 90
                         [] tier = "critical" -> 95
MinEvidence(tier)   == CASE tier = "low" -> 1 [] tier \in {"medium", "high"} -> 2
                         [] tier = "critical" -> 3

\* Only a low risk with its evidence is validated without a review.  (RiskIgnored: any risk.)
RiskIgnored(tier, evidence, confidence) ==
    IF evidence = {} THEN "rejected"
    ELSE IF Cardinality(evidence) < MinEvidence(tier) \/ confidence < MinConfidence(tier)
         THEN "needs_review" ELSE "validated"
Evaluate(tier, evidence, confidence) ==
    IF evidence = {} THEN "rejected"
    ELSE IF \/ Cardinality(evidence) < MinEvidence(tier)
            \/ confidence < MinConfidence(tier)
            \/ tier # "low" THEN "needs_review" ELSE "validated"

Draft(tier, evidence, confidence) ==
    [state |-> Evaluate(tier, evidence, confidence), tier |-> tier, evidence |-> evidence,
     confidence |-> confidence, approved |-> FALSE, canonical |-> FALSE]

\* The same key, and the same content.
SameContent(p, q) == p.evidence = q.evidence

\* create_proposal: the key is looked up ...
Propose(j) ==
    /\ Asks(j, "propose")
    /\ LET new == Draft(Req(j).tier, Req(j).ids, Req(j).confidence)
           old == proposal[Req(j).key]
       IN  IF old # NoProposal
           THEN Ends(j, IF SameContent(old, new) THEN "existing" ELSE "conflict")
           ELSE job' = [job EXCEPT ![j].pc = "drafted", ![j].draft = new]
    /\ UNCHANGED <<row, proposal, dreams, locked>>

\* ... and inserted.  The unique index refuses the second of two; the lookup that follows runs
\* in the transaction the refusal has ended, and raises.
InsertProposal(j) ==
    /\ At(j, "drafted") /\ Req(j).kind = "propose"
    /\ IF proposal[Req(j).key] = NoProposal
       THEN proposal' = [proposal EXCEPT ![Req(j).key] = job[j].draft] /\ Ends(j, "created")
       ELSE UNCHANGED proposal /\ Ends(j, "error")
    /\ OnlyProposals

\* validate_proposal decides again, whatever was decided before; update_validation_state.
Validate(j) ==
    /\ Asks(j, "validate") /\ proposal[Req(j).key] # NoProposal
    /\ LET p == proposal[Req(j).key]
       IN  proposal' = [proposal EXCEPT ![Req(j).key].state =
                                            Evaluate(p.tier, p.evidence, p.confidence)]
    /\ Ends(j, "ok") /\ OnlyProposals

Approve(j) ==
    /\ Asks(j, "approve") /\ proposal[Req(j).key] # NoProposal
    /\ proposal' = [proposal EXCEPT ![Req(j).key] =
                      [@ EXCEPT !.state = "approved", !.approved = TRUE]]
    /\ Ends(j, "ok") /\ OnlyProposals

Reject(j) ==
    /\ Asks(j, "reject") /\ proposal[Req(j).key] # NoProposal
    /\ proposal' = [proposal EXCEPT ![Req(j).key] = [@ EXCEPT !.state = "rejected"]]
    /\ Ends(j, "ok") /\ OnlyProposals

Unknown(j) ==
    /\ At(j, "got") /\ Req(j).kind \in ReviewKinds \cup {"apply"} /\ proposal[Req(j).key] = NoProposal
    /\ Ends(j, "not_found") /\ UNCHANGED proposal /\ OnlyProposals

\* apply reads the proposal; only what is validated or approved is ready ...
Ready(p) == p.state \in {"validated", "approved"}
ApplyRead(j) ==
    /\ Asks(j, "apply") /\ proposal[Req(j).key] # NoProposal
    /\ IF Ready(proposal[Req(j).key])
       THEN job' = [job EXCEPT ![j].pc = "read", ![j].read = proposal[Req(j).key]]
       ELSE Ends(j, "not_ready")
    /\ UNCHANGED <<row, proposal, dreams, locked>>

\* ... the writer writes the memory, and mark_applied records it, whatever the row says now.
ApplyWrite(j) ==
    /\ At(j, "read") /\ Req(j).kind = "apply"
    /\ proposal' = [proposal EXCEPT ![Req(j).key] =
                      [@ EXCEPT !.state = "applied", !.canonical = TRUE]]
    /\ Ends(j, "applied") /\ OnlyProposals

-----------------------------------------------------------------------------
(* a dream cycle of the user *)

\* _dormant_filters
Dormant(r) == r.live /\ r.current /\ ~r.archived /\ ~r.pinned /\ r.idle

\* The memories of completed dreams are read first.
DreamStart(j) ==
    /\ Asks(j, "dream")
    /\ job' = [job EXCEPT ![j].pc = "read", ![j].seen = UNION dreams]
    /\ UNCHANGED <<row, proposal, dreams, locked>>

\* SELECT ... LIMIT ... FOR UPDATE SKIP LOCKED of the dormant ones that are not among them.
Selectable(j) == {m \in Memories \ job[j].seen : Dormant(row[m]) /\ locked[m] = NoId}
DreamSelect(j) ==
    /\ At(j, "read") /\ Req(j).kind = "dream"
    /\ \E batch \in SUBSET Selectable(j) :
        /\ Cardinality(batch) = Limit \/ (batch = Selectable(j) /\ Cardinality(batch) < Limit)
        /\ IF batch = {}
           THEN Ends(j, "skipped") /\ UNCHANGED locked
           ELSE /\ job' = [job EXCEPT ![j].pc = "selected", ![j].batch = batch]
                /\ locked' = [m \in Memories |-> IF m \in batch THEN j ELSE locked[m]]
    /\ UNCHANGED <<row, proposal, dreams>>

\* dry_run: the batch is counted, and left.
DreamDry(j) ==
    /\ At(j, "read") /\ Req(j).kind = "dream" /\ Req(j).flag
    /\ Ends(j, "dry_run")
    /\ UNCHANGED <<row, proposal, dreams, locked>>

\* consolidate: an observation and a summary proposal under the digest of the batch; a dream
\* whose proposal has become a memory raises.
DreamConsolidate(j) ==
    /\ At(j, "selected")
    /\ ~(proposal[job[j].batch] # NoProposal /\ proposal[job[j].batch].canonical)
    /\ job' = [job EXCEPT ![j].pc = "drafted", ![j].draft = Draft("low", job[j].batch, 70)]
    /\ UNCHANGED <<row, proposal, dreams, locked>>

DreamCommit(j) ==
    /\ At(j, "drafted") /\ Req(j).kind = "dream"
    /\ proposal' = [proposal EXCEPT ![job[j].batch] = IF @ = NoProposal THEN job[j].draft ELSE @]
    /\ dreams' = dreams \cup {job[j].batch}
    /\ Unlock(j) /\ Ends(j, "completed")
    /\ UNCHANGED row

\* Anything raises: rolled back, and tried again once.
DreamFails(j) ==
    /\ Req(j) # NoId /\ Req(j).kind = "dream" /\ job[j].pc \in {"read", "selected", "drafted"}
    /\ Unlock(j)
    /\ IF job[j].tries < 1
       THEN job' = [job EXCEPT ![j] = [Fresh EXCEPT !.pc = "got", !.req = Req(j), !.tries = 1]]
       ELSE Ends(j, "failed")
    /\ UNCHANGED <<row, proposal, dreams>>

-----------------------------------------------------------------------------
(* vectors: a task for one memory or for a batch *)

\* ensure_memory_compatible: a row labelled with another profile is not touched.
Compatible(r, p) == r.label \in {NoId, p}

\* store_embedding, by the row as this session has read it: one column at most is filled.
Storable(r, p) == Compatible(r, p) /\ \A q \in Profiles \ {p} : r.vec[q] = 0

EmbedRead(j) ==
    /\ Asks(j, "embed")
    /\ job' = [job EXCEPT ![j].pc = "read", ![j].read = row,
                          ![j].batch = {m \in Req(j).ids : row[m].live}]
    /\ UNCHANGED <<row, proposal, dreams, locked>>

\* embed_text, for every compatible memory of the batch.
Embed(j) ==
    /\ At(j, "read") /\ Req(j).kind = "embed"
    /\ LET good == {m \in job[j].batch : Storable(job[j].read[m], Req(j).profile)}
       IN  job' = [job EXCEPT ![j].pc = "embedded", ![j].embedded = good]
    /\ UNCHANGED <<row, proposal, dreams, locked>>

\* persist_embedding: a row that is gone raises, and the whole batch with it.
\* (Unnoticed: it does not.)
Unnoticed(j) == FALSE
Vanished(j)  == \E m \in job[j].embedded : ~row[m].live

\* The vector of the text that was read, under the profile of the task.
StoreEmbedding(r, read, p) ==
    IF r.live THEN [r EXCEPT !.vec[p] = read.text + 1, !.label = p] ELSE r
EmbedCommit(j) ==
    /\ At(j, "embedded") /\ ~Vanished(j) /\ \A m \in job[j].embedded : Unlocked(m)
    /\ row' = [m \in Memories |->
                IF m \in job[j].embedded
                THEN StoreEmbedding(row[m], job[j].read[m], Req(j).profile) ELSE row[m]]
    /\ Ends(j, "completed") /\ OnlyRows

\* The provider fails, a row is gone, or the worker dies (acks_late): rolled back, and tried
\* again three times.
TriesLeft(j) == job[j].tries < 3

EmbedFails(j) ==
    /\ Req(j) # NoId /\ Req(j).kind = "embed" /\ job[j].pc \in {"read", "embedded"}
    /\ IF TriesLeft(j)
       THEN job' = [job EXCEPT ![j] = [Fresh EXCEPT !.pc = "got", !.req = Req(j),
                                                    !.tries = job[j].tries + 1]]
       ELSE job' = [job EXCEPT ![j].pc = "done", ![j].answer = "failed", ![j].embedded = {}]
    /\ UNCHANGED <<row, proposal, dreams, locked>>

-----------------------------------------------------------------------------
User(j) ==
    Pin(j) \/ Unpin(j) \/ Archive(j) \/ Restore(j) \/ Delete(j) \/ Touch(j) \/ Rewrite(j)
    \/ FeedbackRead(j) \/ FeedbackWrite(j)
Review(j) ==
    Propose(j) \/ InsertProposal(j) \/ Validate(j) \/ Approve(j) \/ Reject(j) \/ Unknown(j)
    \/ ApplyRead(j) \/ ApplyWrite(j)
Dream(j) ==
    DreamStart(j) \/ DreamSelect(j) \/ DreamDry(j) \/ DreamConsolidate(j) \/ DreamCommit(j)
    \/ DreamFails(j)
Vector(j) == EmbedRead(j) \/ Embed(j) \/ EmbedCommit(j) \/ EmbedFails(j)

LifecycleNext ==
    \E j \in Jobs : Receive(j) \/ User(j) \/ RunDecayCycle(j) \/ RunReflectionCycle(j)
                    \/ Review(j) \/ Dream(j) \/ Vector(j)

LifecycleSpec == LifecycleInit /\ [][LifecycleNext]_lifecycleVars

-----------------------------------------------------------------------------
\* While a dream consolidates its batch, no user makes one of its memories pinned, archived,
\* closed, read or deleted, and no other dream consolidates one of them: what it records as
\* dormant is dormant when it commits.
BatchStaysDormant ==
    \A j \in Jobs : job[j].pc \in {"selected", "drafted"} /\ Req(j).kind = "dream" =>
        \A m \in job[j].batch :
            /\ Dormant(row[m])
            /\ \A i \in Jobs \ {j} :
                job[i].pc \in {"selected", "drafted"} /\ Req(i).kind = "dream" => m \notin job[i].batch

\* A proposal becomes a memory on its merits or by approval: of a risk that is not low, none
\* without a reviewer, however often it is validated and whoever applies it at the same time.
AppliedOnMerit ==
    \A k \in Keys : proposal[k] # NoProposal /\ proposal[k].canonical =>
        proposal[k].approved \/ (proposal[k].tier = "low" /\ proposal[k].evidence # {}
                                 /\ proposal[k].confidence >= MinConfidence("low"))

\* A task that reports a memory as embedded has given it a vector under its profile, and a row that
\* has a vector is labelled with a profile under which it has one: deletions in between fail the batch
\* as a whole.  Tasks of two profiles that race may leave a second vector, which the label does not
\* name: both had read the row without one (embedding_tasks.py:196).
EmbeddedAsReported ==
    /\ \A j \in Jobs : At(j, "done") /\ job[j].answer = "completed" =>
        \A m \in job[j].embedded : row[m].vec[Req(j).profile] # 0
    /\ \A m \in Memories : (\E p \in Profiles : row[m].vec[p] # 0) =>
        row[m].label # NoId /\ row[m].vec[row[m].label] # 0

\* The cycle "transitions unpinned memories": one that runs does not end in an error.
DecayCompletes ==
    \A j \in Jobs : At(j, "done") /\ Req(j).kind = "decay" => job[j].answer = "completed"
=============================================================================
