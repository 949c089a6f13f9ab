----------------------------- MODULE TruthSlots -----------------------------
(***************************************************************************)
(* Truth maintenance: one current memory per fact slot.                    *)
(*                                                                         *)
(* A pipeline run carries a claim for a fact slot.  In one transaction it  *)
(* deduplicates the claim, closes the row it contradicts (plan), inserts   *)
(* its own row under the partial unique index of current rows, and records *)
(* the lineage.  Runs of several workers, and the routes that close or     *)
(* delete memories, work on the slot at the same time.                     *)
(*                                                                         *)
(*   contexta/core/pipeline.py                 orchestrate                 *)
(*   contexta/core/extraction/deduplication.py deduplicate                 *)
(*   contexta/core/truth/service.py            plan, record                *)
(*   contexta/repositories/memory_repo.py      guarded closing             *)
(*   contexta/api/routes/memories.py, contexta/mcp/service.py  forget ...  *)
(*                                                                         *)
(* Slots do not share rows, so the module models one.  An action is one    *)
(* SQL statement (READ COMMITTED: it sees committed rows and its own), or  *)
(* the commit or rollback of a transaction.  A statement that needs a row  *)
(* or an index entry another transaction holds waits: it is not enabled.   *)
(***************************************************************************)
EXTENDS Integers, FiniteSets

CONSTANTS
    Runs,       \* pipeline runs; the row a run inserts has the run's name
    Claims,     \* the claims observations make about the slot
    Ops,        \* what else writes to rows of the slot: a subset of OpKinds
    NoRun,      \* no run, no row
    Absent,     \* a row that is not there
    MaxTime,    \* bound: the clock
    MaxTries,   \* attempts of an observation (see Ingestion)
    MaxOps      \* bound: requests to the other routes

OpKinds  == {"forget", "feedback", "reflect", "delete", "merge"}
Statuses == {"current", "superseded", "temporary"}
Values   == {"a", "b", "c"} \X {1, 2}     \* a kind of value and one of that kind
Types    == {"fact", "goal"}

\* from = 0: the claim has no time of its own and starts when it is ingested.
ClaimType == [type : Types, val : Values, status : Statuses, from : 0 .. MaxTime]

ASSUME ClaimsAssumption   == Claims \subseteq ClaimType /\ Claims # {}
ASSUME NoRunAssumption    == NoRun \notin Runs
ASSUME OpsAssumption      == Ops \subseteq OpKinds
ASSUME MaxTimeAssumption  == MaxTime \in Nat \ {0}
ASSUME MaxTriesAssumption == MaxTries \in Nat \ {0}
ASSUME MaxOpsAssumption   == MaxOps \in Nat

VARIABLES
    clock,
    rows,       \* committed memory_record rows of the slot
    versions,   \* committed memory_version rows: row old was superseded by row new
    run,        \* the pipeline runs
    op,         \* the request another route is serving
    ops         \* how many it has served

truthVars == <<clock, rows, versions, run, op, ops>>

Row    == [type : Types, val : Values, status : Statuses, from : 1 .. MaxTime, to : 0 .. MaxTime]

ASSUME AbsentAssumption   == Absent \notin Row

PCs    == {"idle", "dedup", "touch", "plan", "close", "insert", "record", "skip", "done", "dead"}

\* claim, from   the record being built and its valid_from
\* seen          the row read as incumbent or candidate
\* ts            the timestamp of the plan
\* holds         rows this transaction has updated and not yet committed
\* closes        those of them it has closed
\* free          history: the slot had no current row but `seen` when it was planned
RunState == [pc : PCs, claim : Claims, from : 1 .. MaxTime, seen : Runs \cup {NoRun},
             ts : 1 .. MaxTime, holds : SUBSET Runs, closes : SUBSET Runs,
             free : BOOLEAN, tries : 0 .. MaxTries]

\* A request: the row it has read, and the time it will write.
Request == [kind : OpKinds, row : Runs, at : 1 .. MaxTime]
NoOp    == [kind |-> "none"]

TypeOK ==
    /\ clock \in 1 .. MaxTime
    /\ rows \in [Runs -> Row \cup {Absent}]
    /\ versions \subseteq [old : Runs, new : Runs \cup {NoRun}]
    /\ run \in [Runs -> RunState]
    /\ op \in Request \cup {NoOp}
    /\ ops \in 0 .. MaxOps

\* A run outside a transaction.
Outside(pc, tries) ==
    [pc |-> pc, claim |-> CHOOSE c \in Claims : TRUE, from |-> 1, seen |-> NoRun, ts |-> 1,
     holds |-> {}, closes |-> {}, free |-> TRUE, tries |-> tries]

TruthInit ==
    /\ clock = 1
    /\ rows = [r \in Runs |-> Absent]
    /\ versions = {}
    /\ run = [r \in Runs |-> Outside("idle", 0)]
    /\ op = NoOp
    /\ ops = 0

-----------------------------------------------------------------------------
Exists(x)  == rows[x] # Absent
Current(x) == Exists(x) /\ rows[x].to = 0

RunAt(r, pc) == run[r].pc = pc

\* Row locks and index entries of transactions in progress.
Locked(x, r)   == \E q \in Runs \ {r} : x \in run[q].holds
Inserting(r)   == \E q \in Runs \ {r} : RunAt(q, "record")

\* get_current_by_fact_key: the current row of the slot with the claim's memory_type.
Incumbents(r) == {x \in Runs : Current(x) /\ rows[x].type = run[r].claim.type}

\* FactSlotContradictionDetector: two different values of one kind.
Contradicts(c, row) == c.val # row.val /\ c.val[1] = row.val[1]

\* refuses_to_close.  (ClosesAnyOrder: the start of the two claims is not compared.)
ClosesAnyOrder(r, row) == run[r].claim.status = "temporary" /\ row.status = "current"
RefusesToClose(r, row) ==
    \/ run[r].claim.status = "temporary" /\ row.status = "current"
    \/ run[r].from < row.from

Set(r, fields) == run' = [run EXCEPT ![r] = fields]
Goto(r, pc)    == Set(r, [run[r] EXCEPT !.pc = pc])

\* Rolled back: the locks are gone, and the ingestion retries the observation until its
\* attempts are spent.  (RetryForever: attempts are not counted.)
RetryForever(r) == Set(r, Outside("idle", run[r].tries))
Rollback(r) ==
    LET n == run[r].tries + 1
    IN  Set(r, Outside(IF n < MaxTries THEN "idle" ELSE "dead", n))

-----------------------------------------------------------------------------
(***************************************************************************)
(* A pipeline run                                                          *)
(***************************************************************************)
\* _valid_from_for_record: the claim's own time if it has one, else that of the ingestion.
ValidFrom(c) == IF c.from = 0 THEN clock ELSE c.from

\* orchestrate, up to the extracted claim (extracted anew at each attempt).
BeginRun(r) ==
    /\ RunAt(r, "idle")
    /\ \E c \in Claims :
          Set(r, [run[r] EXCEPT !.pc = "dedup", !.claim = c, !.from = ValidFrom(c)])
    /\ UNCHANGED <<clock, rows, versions, op, ops>>

\* deduplicate, with an incumbent in the slot: the same value is not stored again.
DedupSlot(r) ==
    /\ RunAt(r, "dedup")
    /\ \E x \in Incumbents(r) :
          Set(r, [run[r] EXCEPT !.seen = x,
                     !.pc = IF rows[x].val = run[r].claim.val THEN "touch" ELSE "plan"])
    /\ UNCHANGED <<clock, rows, versions, op, ops>>

\* Without one: the text decides; a duplicate of a memory in another slot is folded
\* into that memory, any other is stored.
DedupText(r) ==
    /\ RunAt(r, "dedup")
    /\ Incumbents(r) = {}
    /\ \E pc \in {"plan", "skip"} : Goto(r, pc)
    /\ UNCHANGED <<clock, rows, versions, op, ops>>

\* update_by_id(incumbent, updated_at): the row is locked, whatever became of it.
Touch(r) ==
    /\ RunAt(r, "touch")
    /\ ~Locked(run[r].seen, r)
    /\ Set(r, [run[r] EXCEPT !.pc = "skip",
                  !.holds = IF Exists(run[r].seen) THEN @ \cup {run[r].seen} ELSE @])
    /\ UNCHANGED <<clock, rows, versions, op, ops>>

\* _plan_one, the read: a claim labelled superseded, or one that does not contradict the
\* candidate or may not close it, is blocked; without a candidate there is nothing to close.
PlanSlot(r) ==
    /\ RunAt(r, "plan")
    /\ LET C == Incumbents(r)
           c == run[r].claim
       IN \/ /\ C = {}
             /\ Set(r, [run[r] EXCEPT !.pc = "insert", !.seen = NoRun, !.ts = clock,
                                      !.free = \A x \in Runs : ~Current(x)])
          \/ \E x \in C :
               Set(r, [run[r] EXCEPT !.seen = x, !.ts = clock,
                         !.free = \A y \in Runs \ {x} : ~Current(y),
                         !.pc = IF \/ c.status = "superseded"
                                   \/ ~Contradicts(c, rows[x])
                                   \/ RefusesToClose(r, rows[x])
                                THEN "skip" ELSE "close"])
    /\ UNCHANGED <<clock, rows, versions, op, ops>>

\* supersede_if_current: valid_to IS NULL is checked again inside the write.
\* (StillThere: any row that exists will do.)
StillThere(x)   == Exists(x)
StillCurrent(x) == Current(x)

\* (CloseCommits: the incumbent is closed in a transaction of its own.)
CloseCommits(r) ==
    /\ RunAt(r, "close")
    /\ LET x == run[r].seen IN
       /\ StillCurrent(x) /\ ~Locked(x, r)
       /\ rows' = [rows EXCEPT ![x].to = run[r].ts]
       /\ Set(r, [run[r] EXCEPT !.pc = "insert", !.closes = @ \cup {x}])
    /\ UNCHANGED <<clock, versions, op, ops>>

\* _close_validity: the row count says who won; whoever lost is blocked.
Close(r) ==
    /\ RunAt(r, "close")
    /\ LET x == run[r].seen IN
       \/ /\ StillCurrent(x)
          /\ rows[x].from <= run[r].ts
          /\ ~Locked(x, r)
          /\ Set(r, [run[r] EXCEPT !.pc = "insert", !.holds = @ \cup {x}, !.closes = @ \cup {x}])
       \/ /\ ~StillCurrent(x)
          /\ Exists(x) => rows[x].from <= run[r].ts
          /\ Goto(r, "skip")
    /\ UNCHANGED <<clock, rows, versions, op, ops>>

\* _validate_supersession raises: the candidate starts after the time of the plan.  It
\* looks at the instance the session has loaded, on which the row is current.
CloseInverted(r) ==
    /\ RunAt(r, "close")
    /\ Exists(run[r].seen)
    /\ rows[run[r].seen].from > run[r].ts
    /\ Rollback(r)
    /\ UNCHANGED <<clock, rows, versions, op, ops>>

\* The insert waits for every transaction that is putting a row in the slot or taking
\* one out of it, and then finds the slot free or not.  (SlotUnchecked: an index that is
\* not unique.)
SlotSettled(r) == ~Inserting(r) /\ \A x \in Runs : Current(x) => ~Locked(x, r)
SlotUnchecked(r) == TRUE
SlotFree(r) == \A x \in Runs : Current(x) => x \in run[r].closes

Insert(r) ==
    /\ RunAt(r, "insert")
    /\ SlotSettled(r)
    /\ SlotFree(r)
    /\ Goto(r, "record")
    /\ UNCHANGED <<clock, rows, versions, op, ops>>

\* uq_memory_record_current_fact_slot is violated: the whole observation is rolled back.
InsertRejected(r) ==
    /\ RunAt(r, "insert")
    /\ SlotSettled(r)
    /\ ~SlotFree(r)
    /\ Rollback(r)
    /\ UNCHANGED <<clock, rows, versions, op, ops>>

\* The rows the commit writes a version for.  (Unrecorded: none.)
Unrecorded(r) == {}
Superseded(r) == run[r].closes

\* record, and the commit of row, closed incumbent and lineage.
CommitRun(r) ==
    /\ RunAt(r, "record")
    /\ LET c == run[r].claim IN
       rows' = [x \in Runs |->
                  IF x = r
                  THEN [type |-> c.type, val |-> c.val, status |-> c.status,
                        from |-> run[r].from, to |-> 0]
                  ELSE IF x \in run[r].closes /\ Exists(x) THEN [rows[x] EXCEPT !.to = run[r].ts]
                  ELSE rows[x]]
    /\ versions' = versions \cup {[old |-> x, new |-> r] : x \in Superseded(r)}
    /\ Set(r, Outside("done", run[r].tries))
    /\ UNCHANGED <<clock, op, ops>>

\* The commit of a run that stores nothing.
CommitSkipped(r) ==
    /\ RunAt(r, "skip")
    /\ Set(r, Outside("done", run[r].tries))
    /\ UNCHANGED <<clock, rows, versions, op, ops>>

\* Any other failure of the pipeline, or of its worker.
Fail(r) ==
    /\ run[r].pc \notin {"idle", "done", "dead"}
    /\ Rollback(r)
    /\ UNCHANGED <<clock, rows, versions, op, ops>>

-----------------------------------------------------------------------------
(***************************************************************************)
(* What else writes to the rows                                            *)
(***************************************************************************)
\* The row is read, and the time the request will write is taken.  Feedback, reflection
\* and merges only choose a current row.  Reflection writes the creation time of the
\* newer memory it found.  _guard_identity_update rejects an inverted window.
OpRead(kind, x) ==
    /\ op = NoOp
    /\ ops < MaxOps
    /\ Exists(x)
    /\ kind \in {"feedback", "reflect", "merge"} => Current(x)
    /\ kind = "feedback" => rows[x].from <= clock
    /\ \E t \in 1 .. clock :
          /\ kind # "reflect" => t = clock
          /\ op' = [kind |-> kind, row |-> x, at |-> t]
    /\ ops' = ops + 1
    /\ UNCHANGED <<clock, rows, versions, run>>

\* forget, apply_feedback and reflect_memories write valid_to by id: the row is not
\* looked at again.
OpClose ==
    /\ op.kind \in {"forget", "feedback", "reflect"}
    /\ ~Locked(op.row, NoRun)
    /\ rows' = [rows EXCEPT ![op.row] = IF @ = Absent THEN @ ELSE [@ EXCEPT !.to = op.at]]
    /\ op' = NoOp
    /\ UNCHANGED <<clock, versions, run, ops>>

\* deduplicate of a claim for another slot whose text is similar: the claim is merged
\* into the row, value and status included (_merge_values).  The version it snapshots
\* replaces nothing and is left out.
OpMerge ==
    /\ op.kind = "merge"
    /\ ~Locked(op.row, NoRun)
    /\ \E c \in Claims :
          rows' = [rows EXCEPT ![op.row] =
                     IF @ = Absent THEN @ ELSE [@ EXCEPT !.val = c.val, !.status = c.status]]
    /\ op' = NoOp
    /\ UNCHANGED <<clock, versions, run, ops>>

\* delete_memory: versions of the row go with it (CASCADE), versions that name it as the
\* replacement forget it (SET NULL).
OpDelete ==
    /\ op.kind = "delete"
    /\ ~Locked(op.row, NoRun)
    /\ rows' = [rows EXCEPT ![op.row] = Absent]
    /\ versions' = {[v EXCEPT !.new = IF @ = op.row THEN NoRun ELSE @] :
                        v \in {w \in versions : w.old # op.row}}
    /\ op' = NoOp
    /\ UNCHANGED <<clock, run, ops>>

Tick ==
    /\ clock < MaxTime
    /\ clock' = clock + 1
    /\ UNCHANGED <<rows, versions, run, op, ops>>

-----------------------------------------------------------------------------
RunStep(r) ==
    \/ BeginRun(r) \/ DedupSlot(r) \/ DedupText(r) \/ Touch(r) \/ PlanSlot(r)
    \/ Close(r) \/ CloseInverted(r) \/ Insert(r) \/ InsertRejected(r)
    \/ CommitRun(r) \/ CommitSkipped(r) \/ Fail(r)

TruthNext ==
    \/ \E r \in Runs : RunStep(r)
    \/ \E kind \in Ops, x \in Runs : OpRead(kind, x)
    \/ OpClose \/ OpMerge \/ OpDelete
    \/ Tick

TruthSpec == TruthInit /\ [][TruthNext]_truthVars

\* A worker goes on with the run it has begun, a route finishes its request.
TruthFairSpec ==
    /\ TruthSpec
    /\ \A r \in Runs : WF_truthVars(RunStep(r))
    /\ WF_truthVars(OpClose \/ OpMerge \/ OpDelete)

-----------------------------------------------------------------------------
(***************************************************************************)
(* Properties                                                              *)
(***************************************************************************)
\* At no time are two rows of the slot current: the slot has one truth, whatever runs
\* race for it.
OneCurrentTruth == \A x, y \in Runs : Current(x) /\ Current(y) => x = y

\* Exactly one caller snapshots a record: no row is superseded twice, however many runs
\* planned to close it, and however often they were retried.
SupersededOnce == \A v, w \in versions : v.old = w.old => v = w

\* The lineage never leads backwards or to a row that does not stand in the slot: the
\* replacement starts no earlier than the row it closed, and the closed row stays closed.
LineageForward ==
    \A v \in versions :
        /\ Exists(v.old) /\ rows[v.old].to # 0
        /\ v.new # NoRun => Exists(v.new) /\ rows[v.new].from >= rows[v.old].from

\* So the lineage of the slot is a chain that leads forward: each row has at most one successor,
\* which stands in the slot and starts no earlier.
LineageSound == SupersededOnce /\ LineageForward

\* Supersession never empties the slot: a row is closed only together with the insertion
\* of the one that replaces it, whatever fails between the two.
NeverEmptied ==
    [][(\E x \in Runs : Current(x)) /\ (\A x \in Runs : ~Current(x)') => op # op']_truthVars

\* As long as no route has closed a row by itself, every closed row has its lineage, so that
\* `explain` can say what replaced it, and no supersession inverted its validity window.
HistoryKept ==
    ops = 0 => \A x \in Runs : Exists(x) /\ rows[x].to # 0
                  => rows[x].to >= rows[x].from /\ \E v \in versions : v.old = x

\* Every run comes to an end: no run waits for a lock for ever, and a rejected one is
\* retried until it is placed, folded, blocked or out of attempts.
RunsEnd == \A r \in Runs : RunAt(r, "dedup") ~> run[r].pc \in {"done", "dead"}
=============================================================================
