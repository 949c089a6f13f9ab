---------------------------- MODULE TruthProofs ----------------------------
(***************************************************************************)
(* What TruthSlots promises for any number of runs, any claims, and every  *)
(* route that writes to the rows: the slot has one current row, a row is   *)
(* superseded once, the lineage never leads backwards, and what the runs   *)
(* close has its lineage.                                                  *)
(***************************************************************************)
EXTENDS TruthSlots, TLAPS

Active(r) == run[r].pc \notin {"done", "dead"}

\* A run stores its row once, with its last step, and has attempts left until then.
RowsOfDone ==
    \A r \in Runs : /\ Exists(r) => RunAt(r, "done")
                    /\ Active(r) => run[r].tries < MaxTries

\* Row locks are exclusive, and a row that a run has closed is current for everyone else
\* until the run commits.
LocksHeld ==
    \A r \in Runs :
        /\ run[r].closes \subseteq run[r].holds
        /\ \A x \in run[r].closes : Current(x)
        /\ ~RunAt(r, "insert") /\ ~RunAt(r, "record") => run[r].closes = {}
        /\ \A q \in Runs \ {r} : run[q].holds \cap run[r].holds = {}

\* One run at a time has a row in the index and not committed, and has closed whatever
\* was current.
RecordAlone ==
    \A r \in Runs : RunAt(r, "record") =>
        /\ SlotFree(r)
        /\ \A q \in Runs : RunAt(q, "record") => q = r

\* The row a run closes, or is about to, starts no later than its own.
NoLater(r, x) == Exists(x) => rows[x].from <= run[r].from
ClosingOlder ==
    \A r \in Runs :
        /\ RunAt(r, "touch") => run[r].seen \in Runs
        /\ RunAt(r, "close") =>
              run[r].seen \in Runs /\ RunAt(run[r].seen, "done") /\ NoLater(r, run[r].seen)
        /\ \A x \in run[r].closes : NoLater(r, x)

RunInv == RowsOfDone /\ LocksHeld /\ RecordAlone /\ ClosingOlder
RowInv == OneCurrentTruth /\ LineageForward /\ SupersededOnce

\* The inductive invariant.
Inv == TypeOK /\ RunInv /\ RowInv

-----------------------------------------------------------------------------
\* A run outside a transaction has the type of a run.
LEMMA OutsideType ==
    ASSUME NEW pc \in PCs, NEW n \in 0 .. MaxTries
    PROVE  Outside(pc, n) \in RunState
  <1>1. (CHOOSE c \in Claims : TRUE) \in Claims
    BY ClaimsAssumption
  <1> QED BY <1>1, MaxTimeAssumption DEF Outside, RunState

\* The initial state satisfies the invariant.
LEMMA InitInv == TruthInit => Inv
  <1> SUFFICES ASSUME TruthInit PROVE Inv
    OBVIOUS
  <1>1. TypeOK
    <2>1. Outside("idle", 0) \in RunState
      BY OutsideType, MaxTriesAssumption DEF PCs
    <2> QED BY <2>1, MaxTimeAssumption, MaxOpsAssumption DEF TruthInit, TypeOK
  <1>2. \A r \in Runs : /\ run[r].pc = "idle" /\ run[r].closes = {} /\ run[r].holds = {}
                        /\ run[r].tries = 0 /\ rows[r] = Absent
    BY DEF TruthInit, Outside
  <1>3. RunInv
    BY <1>2, MaxTriesAssumption
       DEF RunInv, RowsOfDone, LocksHeld, RecordAlone, ClosingOlder, Exists, RunAt, Active
  <1>4. RowInv
    BY <1>2 DEF TruthInit, RowInv, OneCurrentTruth, LineageForward, SupersededOnce, Current, Exists
  <1> QED BY <1>1, <1>3, <1>4 DEF Inv

-----------------------------------------------------------------------------
\* A step of run r that writes no row yet: what its next state n must satisfy.
Moves(r, n) ==
    /\ run' = [run EXCEPT ![r] = n]
    /\ UNCHANGED <<rows, versions>>
    /\ run[r].pc # "done"
    /\ n.pc \notin {"done", "dead"} => n.tries < MaxTries
    /\ n.closes \subseteq n.holds
    /\ \A x \in n.holds : x \in run[r].holds \/ ~Locked(x, r)
    /\ \A x \in n.closes : Current(x) /\ rows[x].from <= n.from
    /\ n.pc \notin {"insert", "record"} => n.closes = {}
    /\ n.pc = "record" => ~Inserting(r) /\ \A x \in Runs : Current(x) => x \in n.closes
    /\ n.pc = "touch" => n.seen \in Runs
    /\ n.pc = "close" => n.seen \in Runs /\ Exists(n.seen) /\ rows[n.seen].from <= n.from

\* A step that changes runs and no row keeps the invariant.
LEMMA MovesInv ==
    ASSUME RunInv, RowInv, run \in [Runs -> RunState],
           NEW r \in Runs, NEW n \in RunState, Moves(r, n)
    PROVE  RunInv' /\ RowInv'
  <1>1. /\ run'[r] = n
        /\ \A q \in Runs \ {r} : run'[q] = run[q]
    BY DEF Moves
  <1>2. rows' = rows /\ versions' = versions
    BY DEF Moves
  <1>3. ~Exists(r)
    BY DEF Moves, RunInv, RowsOfDone, RunAt
  <1>4. RowsOfDone'
    BY <1>1, <1>2, <1>3 DEF Moves, RunInv, RowsOfDone, RunAt, Exists, Active
  <1>5. LocksHeld'
    <2> SUFFICES ASSUME NEW q \in Runs
                 PROVE  /\ run'[q].closes \subseteq run'[q].holds
                        /\ \A x \in run'[q].closes : Current(x)'
                        /\ ~RunAt(q, "insert")' /\ ~RunAt(q, "record")' => run'[q].closes = {}
                        /\ \A p \in Runs \ {q} : run'[p].holds \cap run'[q].holds = {}
      BY DEF LocksHeld
    <2>1. \A x : Current(x)' = Current(x)
      BY <1>2 DEF Current, Exists
    <2>2. \A p \in Runs \ {r} : n.holds \cap run[p].holds = {}
      BY DEF Moves, Locked, RunInv, LocksHeld
    <2>3. CASE q = r
      BY <1>1, <2>1, <2>2, <2>3 DEF Moves, RunAt
    <2>4. CASE q # r
      BY <1>1, <2>1, <2>2, <2>4 DEF RunInv, LocksHeld, RunAt
    <2> QED BY <2>3, <2>4
  <1>6. RecordAlone'
    <2>1. \A x : Current(x)' = Current(x)
      BY <1>2 DEF Current, Exists
    <2>2. n.pc = "record" => \A q \in Runs \ {r} : run[q].pc # "record"
      BY DEF Moves, Inserting, RunAt
    <2>3. \A q \in Runs \ {r} : RunAt(q, "record") => SlotFree(q)'
      BY <1>1, <2>1 DEF RunInv, RecordAlone, SlotFree
    <2>4. n.pc = "record" => SlotFree(r)'
      BY <1>1, <2>1 DEF Moves, SlotFree
    <2> QED BY <1>1, <2>2, <2>3, <2>4 DEF RunInv, RecordAlone, RunAt
  <1>7. ClosingOlder'
    <2>1. \A q \in Runs : RunAt(q, "done") => RunAt(q, "done")'
      BY <1>1 DEF RunAt, Moves
    <2>2. \A q \in Runs : Exists(q) => RunAt(q, "done")
      BY DEF RunInv, RowsOfDone
    <2> SUFFICES ASSUME NEW q \in Runs
                 PROVE  /\ run'[q].pc = "touch" => run'[q].seen \in Runs
                        /\ run'[q].pc = "close" =>
                              /\ run'[q].seen \in Runs
                              /\ run'[run'[q].seen].pc = "done"
                              /\ Exists(run'[q].seen) => rows[run'[q].seen].from <= run'[q].from
                        /\ \A x \in run'[q].closes : Exists(x) => rows[x].from <= run'[q].from
      BY <1>2 DEF ClosingOlder, NoLater, RunAt, Exists
    <2>4. CASE q = r
      BY <1>1, <2>1, <2>2, <2>4 DEF Moves, RunAt
    <2>5. CASE q # r
      BY <1>1, <2>1, <2>5 DEF RunInv, ClosingOlder, NoLater, RunAt
    <2> QED BY <2>4, <2>5
  <1>8. RowInv'
    BY <1>2 DEF RowInv, OneCurrentTruth, LineageForward, SupersededOnce, Current, Exists
  <1> QED BY <1>4, <1>5, <1>6, <1>7, <1>8 DEF RunInv

\* Such steps preserve the invariant.
RunMoves(r) ==
    /\ \E n \in RunState : Moves(r, n)
    /\ UNCHANGED <<clock, op, ops>>

\* A step of one run that writes no row keeps the invariant.
LEMMA RunMovesInv ==
    ASSUME Inv, NEW r \in Runs, RunMoves(r)
    PROVE  Inv'
  <1>1. PICK n \in RunState : Moves(r, n)
    BY DEF RunMoves
  <1>2. RunInv' /\ RowInv'
    BY <1>1, MovesInv DEF Inv, TypeOK
  <1>3. run' \in [Runs -> RunState] /\ rows' = rows /\ versions' = versions
    BY <1>1 DEF Moves, Inv, TypeOK
  <1>4. TypeOK'
    BY <1>3 DEF RunMoves, Inv, TypeOK
  <1> QED BY <1>2, <1>4 DEF Inv

\* Every step of a run but the commit of its row is of that kind.
LEMMA RollbackMoves ==
    ASSUME Inv, NEW r \in Runs, Active(r), Rollback(r), UNCHANGED <<clock, rows, versions, op, ops>>
    PROVE  RunMoves(r)
  <1> DEFINE m == run[r].tries + 1
  <1> DEFINE n == Outside(IF m < MaxTries THEN "idle" ELSE "dead", m)
  <1>1. m \in 0 .. MaxTries
    BY MaxTriesAssumption DEF Inv, TypeOK, RunInv, RowsOfDone, RunState
  <1>2. n \in RunState
    BY <1>1, OutsideType DEF PCs
  <1>3. Moves(r, n)
    BY <1>1, MaxTriesAssumption DEF Rollback, Set, Moves, Outside, Active
  <1> QED BY <1>2, <1>3 DEF RunMoves

\* Begin writes no row.
LEMMA BeginMoves ==
    ASSUME Inv, NEW r \in Runs, BeginRun(r)
    PROVE  RunMoves(r)
  <1>1. PICK c \in Claims :
          run' = [run EXCEPT ![r] = [run[r] EXCEPT !.pc = "dedup", !.claim = c,
                                                   !.from = ValidFrom(c)]]
    BY DEF BeginRun, Set
  <1> DEFINE n == [run[r] EXCEPT !.pc = "dedup", !.claim = c, !.from = ValidFrom(c)]
  <1>2. ValidFrom(c) \in 1 .. MaxTime
    BY ClaimsAssumption, MaxTimeAssumption DEF ClaimType, ValidFrom, Inv, TypeOK
  <1>3. run[r] \in RunState
    BY DEF Inv, TypeOK
  <1>4. n \in RunState
    BY <1>2, <1>3 DEF RunState, PCs
  <1>5. run[r].closes = {} /\ run[r].tries < MaxTries
    BY DEF BeginRun, RunAt, Inv, RunInv, LocksHeld, RowsOfDone, Active
  <1>6. Moves(r, n)
    BY <1>1, <1>3, <1>5 DEF BeginRun, RunAt, Moves, RunState
  <1> QED BY <1>4, <1>6 DEF RunMoves, BeginRun

\* The states of a run that has neither closed nor locked anything new.
LEMMA GotoMoves ==
    ASSUME Inv, NEW r \in Runs, Active(r), NEW seen \in Runs \cup {NoRun},
           NEW ts \in 1 .. MaxTime, NEW free \in BOOLEAN, NEW pc \in PCs,
           run[r].closes = {}, pc \notin {"done", "record"},
           pc = "touch" => seen \in Runs,
           pc = "close" => seen \in Runs /\ Exists(seen) /\ rows[seen].from <= run[r].from,
           run' = [run EXCEPT ![r] = [run[r] EXCEPT !.pc = pc, !.seen = seen, !.ts = ts,
                                                    !.free = free]],
           UNCHANGED <<clock, rows, versions, op, ops>>
    PROVE  RunMoves(r)
  <1> DEFINE n == [run[r] EXCEPT !.pc = pc, !.seen = seen, !.ts = ts, !.free = free]
  <1>1. run[r] \in RunState
    BY DEF Inv, TypeOK
  <1>2. n \in RunState
    BY <1>1 DEF RunState
  <1>3. run[r].tries < MaxTries
    BY DEF Inv, RunInv, RowsOfDone
  <1>4. Moves(r, n)
    BY <1>1, <1>3 DEF Moves, RunState, Active
  <1> QED BY <1>2, <1>4 DEF RunMoves

\* Facts about a run in a step before it has closed anything.
LEMMA BeforeClose ==
    ASSUME Inv, NEW r \in Runs, run[r].pc \in {"idle", "dedup", "touch", "plan", "close", "skip"}
    PROVE  run[r] \in RunState /\ run[r].closes = {} /\ Active(r) /\ run[r].tries < MaxTries
  <1>1. run[r].closes = {}
    BY DEF Inv, RunInv, LocksHeld, RunAt
  <1>2. Active(r) /\ run[r].tries < MaxTries
    BY DEF Active, Inv, RunInv, RowsOfDone
  <1> QED BY <1>1, <1>2 DEF Inv, TypeOK

\* The lookups of the deduplication write no row.
LEMMA DedupMoves ==
    ASSUME Inv, NEW r \in Runs, DedupSlot(r) \/ DedupText(r)
    PROVE  RunMoves(r)
  <1>1. run[r] \in RunState /\ run[r].closes = {} /\ Active(r)
    BY BeforeClose DEF DedupSlot, DedupText, RunAt
  <1>2. CASE DedupSlot(r)
    <2>1. PICK x \in Runs :
            run' = [run EXCEPT ![r] = [run[r] EXCEPT !.seen = x,
                      !.pc = IF rows[x].val = run[r].claim.val THEN "touch" ELSE "plan"]]
      BY <1>2 DEF DedupSlot, Set, Incumbents
    <2> DEFINE pc == IF rows[x].val = run[r].claim.val THEN "touch" ELSE "plan"
    <2>2. pc \in {"touch", "plan"}
      OBVIOUS
    <2> HIDE DEF pc
    <2>3. [run[r] EXCEPT !.seen = x, !.pc = pc] =
          [run[r] EXCEPT !.pc = pc, !.seen = x, !.ts = run[r].ts, !.free = run[r].free]
      BY <1>1 DEF RunState
    <2>4. run' = [run EXCEPT ![r] = [run[r] EXCEPT !.pc = pc, !.seen = x, !.ts = run[r].ts,
                                                   !.free = run[r].free]]
      BY <2>1, <2>3 DEF pc
    <2>5. pc \in PCs /\ pc \notin {"done", "record", "close"}
          /\ run[r].ts \in 1 .. MaxTime /\ run[r].free \in BOOLEAN
      BY <1>1, <2>2 DEF PCs, RunState
    <2>6. UNCHANGED <<clock, rows, versions, op, ops>>
      BY <1>2 DEF DedupSlot
    <2> QED BY <1>1, <2>4, <2>5, <2>6, GotoMoves
  <1>3. CASE DedupText(r)
    <2>1. PICK pc \in {"plan", "skip"} : run' = [run EXCEPT ![r] = [run[r] EXCEPT !.pc = pc]]
      BY <1>3 DEF DedupText, Goto, Set
    <2>2. [run[r] EXCEPT !.pc = pc] =
          [run[r] EXCEPT !.pc = pc, !.seen = run[r].seen, !.ts = run[r].ts, !.free = run[r].free]
      BY <1>1 DEF RunState
    <2>3. run' = [run EXCEPT ![r] = [run[r] EXCEPT !.pc = pc, !.seen = run[r].seen,
                                                   !.ts = run[r].ts, !.free = run[r].free]]
      BY <2>1, <2>2
    <2>4. pc \in PCs /\ pc \notin {"done", "record", "close", "touch"}
          /\ run[r].seen \in Runs \cup {NoRun}
          /\ run[r].ts \in 1 .. MaxTime /\ run[r].free \in BOOLEAN
      BY <1>1 DEF PCs, RunState
    <2>5. UNCHANGED <<clock, rows, versions, op, ops>>
      BY <1>3 DEF DedupText
    <2> QED BY <1>1, <2>3, <2>4, <2>5, GotoMoves
  <1> QED BY <1>2, <1>3

\* Planning writes no row, and what it chooses to close is no later than the claim.
LEMMA PlanMoves ==
    ASSUME Inv, NEW r \in Runs, PlanSlot(r)
    PROVE  RunMoves(r)
  <1>1. run[r] \in RunState /\ run[r].closes = {} /\ Active(r)
    BY BeforeClose DEF PlanSlot, RunAt
  <1>2. clock \in 1 .. MaxTime
    BY DEF Inv, TypeOK
  <1>3. UNCHANGED <<clock, rows, versions, op, ops>>
    BY DEF PlanSlot
  <1>4. CASE Incumbents(r) = {} /\
             run' = [run EXCEPT ![r] = [run[r] EXCEPT !.pc = "insert", !.seen = NoRun, !.ts = clock,
                                          !.free = \A x \in Runs : ~Current(x)]]
    <2> DEFINE free == \A x \in Runs : ~Current(x)
    <2>1. "insert" \in PCs /\ free \in BOOLEAN
      BY DEF PCs
    <2>2. run' = [run EXCEPT ![r] = [run[r] EXCEPT !.pc = "insert", !.seen = NoRun, !.ts = clock,
                                                   !.free = free]]
      BY <1>4
    <2> HIDE DEF free
    <2> QED BY <1>1, <1>2, <1>3, <2>1, <2>2, GotoMoves, ZenonT(60)
  <1>5. CASE \E x \in Incumbents(r) :
               run' = [run EXCEPT ![r] = [run[r] EXCEPT !.seen = x, !.ts = clock,
                         !.free = \A y \in Runs \ {x} : ~Current(y),
                         !.pc = IF \/ run[r].claim.status = "superseded"
                                   \/ ~Contradicts(run[r].claim, rows[x])
                                   \/ RefusesToClose(r, rows[x])
                                THEN "skip" ELSE "close"]]
    <2>1. PICK x \in Incumbents(r) :
               run' = [run EXCEPT ![r] = [run[r] EXCEPT !.seen = x, !.ts = clock,
                         !.free = \A y \in Runs \ {x} : ~Current(y),
                         !.pc = IF \/ run[r].claim.status = "superseded"
                                   \/ ~Contradicts(run[r].claim, rows[x])
                                   \/ RefusesToClose(r, rows[x])
                                THEN "skip" ELSE "close"]]
      BY <1>5
    <2> DEFINE pc == IF \/ run[r].claim.status = "superseded"
                        \/ ~Contradicts(run[r].claim, rows[x])
                        \/ RefusesToClose(r, rows[x])
                     THEN "skip" ELSE "close"
    <2> DEFINE free == \A y \in Runs \ {x} : ~Current(y)
    <2>2. x \in Runs /\ Exists(x) /\ rows[x].from \in 1 .. MaxTime
      BY DEF Incumbents, Current, Exists, Inv, TypeOK, Row
    <2>3. pc = "close" => rows[x].from <= run[r].from
      BY <1>1, <2>2 DEF RefusesToClose, RunState
    <2>4. pc \in {"skip", "close"} /\ free \in BOOLEAN
      OBVIOUS
    <2> HIDE DEF pc, free
    <2>5. [run[r] EXCEPT !.seen = x, !.ts = clock, !.free = free, !.pc = pc] =
          [run[r] EXCEPT !.pc = pc, !.seen = x, !.ts = clock, !.free = free]
      BY <1>1 DEF RunState
    <2>6. run' = [run EXCEPT ![r] = [run[r] EXCEPT !.pc = pc, !.seen = x, !.ts = clock, !.free = free]]
      BY <2>1, <2>5 DEF pc, free
    <2>7. pc \in PCs /\ pc \notin {"done", "record", "touch"}
      BY <2>4 DEF PCs
    <2> QED BY <1>1, <1>2, <1>3, <2>2, <2>3, <2>4, <2>6, <2>7, GotoMoves
  <1> QED BY <1>4, <1>5 DEF PlanSlot, Set

\* Touching the incumbent only takes its lock.
LEMMA TouchMoves ==
    ASSUME Inv, NEW r \in Runs, Touch(r)
    PROVE  RunMoves(r)
  <1>1. run[r] \in RunState /\ run[r].closes = {} /\ Active(r) /\ run[r].tries < MaxTries
    BY BeforeClose DEF Touch, RunAt
  <1>2. run[r].seen \in Runs
    BY DEF Touch, Inv, RunInv, ClosingOlder
  <1> DEFINE n == [run[r] EXCEPT !.pc = "skip",
                     !.holds = IF Exists(run[r].seen) THEN @ \cup {run[r].seen} ELSE @]
  <1>3. n \in RunState
    BY <1>1, <1>2 DEF RunState, PCs
  <1>4. Moves(r, n)
    BY <1>1, <1>2 DEF Touch, Set, RunAt, Moves, RunState
  <1> QED BY <1>3, <1>4 DEF RunMoves, Touch

\* Closing is invisible to the others until the commit.
LEMMA CloseMoves ==
    ASSUME Inv, NEW r \in Runs, Close(r)
    PROVE  RunMoves(r)
  <1>1. run[r] \in RunState /\ run[r].closes = {} /\ Active(r) /\ run[r].tries < MaxTries
    BY BeforeClose DEF Close, RunAt
  <1> DEFINE x == run[r].seen
  <1>2. x \in Runs /\ NoLater(r, x)
    BY DEF Close, Inv, RunInv, ClosingOlder
  <1>3. UNCHANGED <<clock, rows, versions, op, ops>>
    BY DEF Close
  <1>4. CASE /\ Current(x) /\ ~Locked(x, r)
             /\ run' = [run EXCEPT ![r] = [run[r] EXCEPT !.pc = "insert", !.holds = @ \cup {x},
                                                         !.closes = @ \cup {x}]]
    <2> DEFINE n == [run[r] EXCEPT !.pc = "insert", !.holds = @ \cup {x}, !.closes = @ \cup {x}]
    <2>1. n \in RunState
      BY <1>1, <1>2 DEF RunState, PCs
    <2>2. Moves(r, n)
      BY <1>1, <1>2, <1>3, <1>4 DEF Close, RunAt, Moves, RunState, NoLater, Current
    <2> QED BY <1>3, <2>1, <2>2 DEF RunMoves
  <1>5. CASE Goto(r, "skip")
    <2> DEFINE n == [run[r] EXCEPT !.pc = "skip"]
    <2>1. n \in RunState
      BY <1>1 DEF RunState, PCs
    <2>2. Moves(r, n)
      BY <1>1, <1>3, <1>5 DEF Close, RunAt, Moves, RunState, Goto, Set
    <2> QED BY <1>3, <2>1, <2>2 DEF RunMoves
  <1> QED BY <1>4, <1>5 DEF Close, Set, StillCurrent

\* So is the insertion, which leaves one run in the index.
LEMMA InsertMoves ==
    ASSUME Inv, NEW r \in Runs, Insert(r)
    PROVE  RunMoves(r)
  <1> DEFINE n == [run[r] EXCEPT !.pc = "record"]
  <1>1. run[r] \in RunState /\ run[r].tries < MaxTries
    BY DEF Inv, TypeOK, RunInv, RowsOfDone, Active, Insert, RunAt
  <1>2. /\ run[r].closes \subseteq run[r].holds
        /\ \A x \in run[r].closes : Current(x) /\ rows[x].from <= run[r].from
    BY DEF Inv, RunInv, LocksHeld, ClosingOlder, NoLater, Current
  <1>3. n \in RunState
    BY <1>1 DEF RunState, PCs
  <1>4. Moves(r, n)
    BY <1>1, <1>2 DEF Insert, RunAt, Goto, Set, Moves, SlotSettled, SlotFree, RunState
  <1> QED BY <1>3, <1>4 DEF RunMoves, Insert

\* A run that is folded or blocked ends without a row.
LEMMA SkippedMoves ==
    ASSUME Inv, NEW r \in Runs, CommitSkipped(r)
    PROVE  RunMoves(r)
  <1> DEFINE n == Outside("done", run[r].tries)
  <1>1. run[r].tries \in 0 .. MaxTries
    BY DEF Inv, TypeOK, RunState
  <1>2. n \in RunState
    BY <1>1, OutsideType DEF PCs
  <1>3. Moves(r, n)
    BY DEF CommitSkipped, RunAt, Set, Moves, Outside
  <1> QED BY <1>2, <1>3 DEF RunMoves, CommitSkipped

\* A run that fails or is rejected is rolled back.
LEMMA RejectedMoves ==
    ASSUME Inv, NEW r \in Runs, CloseInverted(r) \/ InsertRejected(r) \/ Fail(r)
    PROVE  RunMoves(r)
  BY RollbackMoves DEF CloseInverted, InsertRejected, Fail, RunAt, Active

-----------------------------------------------------------------------------
\* The commit of a row keeps the invariant: the rows it closes are the only current ones,
\* and none of them has a version yet.
LEMMA CommitInv ==
    ASSUME Inv, NEW r \in Runs, CommitRun(r)
    PROVE  Inv'
  <1> DEFINE c == run[r].claim
  <1> DEFINE new == [type |-> c.type, val |-> c.val, status |-> c.status,
                     from |-> run[r].from, to |-> 0]
  <1>1. run[r] \in RunState /\ ~Exists(r)
    BY DEF CommitRun, RunAt, Inv, TypeOK, RunInv, RowsOfDone
  <1>2. run[r].ts \in 1 .. MaxTime /\ run[r].from \in 1 .. MaxTime /\ c \in ClaimType
        /\ run[r].closes \subseteq Runs /\ run[r].tries \in 0 .. MaxTries
    BY <1>1, ClaimsAssumption DEF RunState
  <1>3. \A x \in run[r].closes : Current(x) /\ Exists(x) /\ rows[x] \in Row /\ x # r
                                 /\ rows[x].from <= run[r].from
    BY <1>1, <1>2 DEF Inv, TypeOK, RunInv, LocksHeld, ClosingOlder, NoLater, Current, Exists
  <1>4. \A x \in Runs : Current(x) => x \in run[r].closes
    BY DEF CommitRun, Inv, RunInv, RecordAlone, SlotFree
  <1>5. new \in Row /\ new.to = 0 /\ new.from = run[r].from /\ new # Absent
    BY <1>2, MaxTimeAssumption, AbsentAssumption DEF Row, ClaimType
  <1> HIDE DEF new
  <1>6. /\ rows' = [x \in Runs |-> IF x = r THEN new
                                   ELSE IF x \in run[r].closes /\ Exists(x)
                                        THEN [rows[x] EXCEPT !.to = run[r].ts]
                                        ELSE rows[x]]
        /\ versions' = versions \cup {[old |-> x, new |-> r] : x \in run[r].closes}
        /\ run' = [run EXCEPT ![r] = Outside("done", run[r].tries)]
        /\ UNCHANGED <<clock, op, ops>>
    BY DEF CommitRun, Set, Superseded, new
  <1>7. \A x \in run[r].closes : /\ rows'[x] \in Row /\ rows'[x].to = run[r].ts
                                 /\ rows'[x].from = rows[x].from
    BY <1>2, <1>3, <1>6 DEF Row
  <1>8. /\ rows'[r] = new
        /\ \A x \in Runs \ (run[r].closes \cup {r}) : rows'[x] = rows[x]
    BY <1>6
  <1>9. \A q \in Runs \ {r} : run'[q] = run[q]
    BY <1>6
  <1>10. run'[r].pc = "done" /\ run'[r].closes = {} /\ run'[r].holds = {}
    BY <1>6, <1>1 DEF Outside, Inv, TypeOK
  <1>11. \A x \in Runs : Exists(x)' <=> x = r \/ Exists(x)
    BY <1>3, <1>5, <1>7, <1>8, AbsentAssumption DEF Exists
  <1>12. \A x \in Runs : Current(x)' <=> x = r
    <2>1. Current(r)'
      BY <1>5, <1>8 DEF Current, Exists
    <2>2. \A x \in run[r].closes : ~Current(x)'
      BY <1>2, <1>7 DEF Current, Exists
    <2>3. \A x \in Runs \ (run[r].closes \cup {r}) : Current(x)' = Current(x)
      BY <1>8 DEF Current, Exists
    <2> QED BY <1>4, <2>1, <2>2, <2>3
  <1>13. TypeOK'
    <2>1. rows' \in [Runs -> Row \cup {Absent}]
      <3>1. \A x \in Runs : rows'[x] \in Row \cup {Absent}
        BY <1>5, <1>7, <1>8 DEF Inv, TypeOK
      <3> QED BY <1>6, <3>1
    <2>2. versions' \subseteq [old : Runs, new : Runs \cup {NoRun}]
      BY <1>2, <1>6 DEF Inv, TypeOK
    <2>3. run' \in [Runs -> RunState]
      BY <1>2, <1>6, OutsideType DEF Inv, TypeOK, PCs
    <2> QED BY <1>6, <2>1, <2>2, <2>3 DEF Inv, TypeOK
  <1>14. RowsOfDone'
    BY <1>9, <1>10, <1>11 DEF Inv, RunInv, RowsOfDone, RunAt, Active
  <1>15. \A q \in Runs \ {r} : run[q].closes = {} /\ run[q].pc # "record"
    <2>1. \A q \in Runs \ {r} : run[q].pc # "record"
      BY DEF CommitRun, RunAt, Inv, RunInv, RecordAlone
    <2>2. \A q \in Runs \ {r} : \A x \in run[q].closes : x \in run[r].closes
      BY <1>4 DEF Inv, TypeOK, RunState, RunInv, LocksHeld
    <2>3. \A q \in Runs \ {r} : run[q].closes \cap run[r].closes = {}
      BY DEF Inv, RunInv, LocksHeld
    <2> QED BY <2>1, <2>2, <2>3
  <1>16. LocksHeld'
    BY <1>9, <1>10, <1>15 DEF Inv, RunInv, LocksHeld, RunAt
  <1>17. RecordAlone'
    BY <1>9, <1>10, <1>15 DEF RecordAlone, RunAt
  <1>18. ClosingOlder'
    <2> SUFFICES ASSUME NEW q \in Runs \ {r}
                 PROVE  /\ run[q].pc = "touch" => run[q].seen \in Runs
                        /\ run[q].pc = "close" =>
                              /\ run[q].seen \in Runs
                              /\ run'[run[q].seen].pc = "done"
                              /\ Exists(run[q].seen)' => rows'[run[q].seen].from <= run[q].from
      BY <1>9, <1>10, <1>15 DEF ClosingOlder, NoLater, RunAt
    <2>1. CASE run[q].pc = "close"
      <3>1. /\ run[q].seen \in Runs /\ run[run[q].seen].pc = "done"
            /\ Exists(run[q].seen) => rows[run[q].seen].from <= run[q].from
        BY <2>1 DEF Inv, RunInv, ClosingOlder, NoLater, RunAt
      <3>2. run[q].seen # r
        BY <3>1 DEF CommitRun, RunAt
      <3>3. rows'[run[q].seen].from = rows[run[q].seen].from
        BY <1>7, <1>8, <3>1, <3>2
      <3> QED BY <1>9, <1>11, <2>1, <3>1, <3>2, <3>3
    <2>2. CASE run[q].pc # "close"
      BY <2>2 DEF Inv, RunInv, ClosingOlder, RunAt
    <2> QED BY <2>1, <2>2
  <1>19. LineageForward'
    <2> SUFFICES ASSUME NEW v \in versions'
                 PROVE  /\ Exists(v.old)' /\ rows'[v.old].to # 0
                        /\ v.new # NoRun => Exists(v.new)' /\ rows'[v.new].from >= rows'[v.old].from
      BY DEF LineageForward
    <2>1. CASE v \in versions
      <3>1. v.old \in Runs /\ v.new \in Runs \cup {NoRun}
        BY <2>1 DEF Inv, TypeOK
      <3>2. /\ Exists(v.old) /\ rows[v.old].to # 0
            /\ v.new # NoRun => Exists(v.new) /\ rows[v.new].from >= rows[v.old].from
        BY <2>1 DEF Inv, RowInv, LineageForward
      <3>3. v.old \notin run[r].closes /\ v.old # r /\ v.new # r
        BY <1>1, <1>3, <3>1, <3>2, NoRunAssumption DEF Current
      <3>4. rows'[v.old] = rows[v.old]
        BY <1>8, <3>1, <3>3
      <3>5. v.new # NoRun => rows'[v.new].from = rows[v.new].from
        BY <1>7, <1>8, <3>1, <3>3
      <3> QED BY <1>11, <3>1, <3>2, <3>4, <3>5
    <2>2. CASE \E x \in run[r].closes : v = [old |-> x, new |-> r]
      BY <1>2, <1>3, <1>5, <1>7, <1>8, <1>11, <2>2 DEF Row
    <2> QED BY <1>6, <2>1, <2>2
  <1>20. SupersededOnce'
    <2>1. \A v \in versions : v.old \notin run[r].closes
      BY <1>3 DEF Inv, RowInv, LineageForward, Current
    <2> QED BY <1>6, <2>1 DEF Inv, RowInv, SupersededOnce
  <1>21. OneCurrentTruth'
    BY <1>12 DEF OneCurrentTruth
  <1> QED BY <1>13, <1>14, <1>16, <1>17, <1>18, <1>19, <1>20, <1>21 DEF Inv, RunInv, RowInv

-----------------------------------------------------------------------------
\* A request writes one row that no run holds: it may close it, change its value or take
\* it away, and opens none.
Writes(x) ==
    /\ ~Locked(x, NoRun)
    /\ \A y \in Runs \ {x} : rows'[y] = rows[y]
    /\ rows' \in [Runs -> Row \cup {Absent}]
    /\ Exists(x)' => /\ Exists(x) /\ rows'[x].from = rows[x].from
                     /\ rows[x].to # 0 => rows'[x].to # 0
    /\ run' = run

\* A write by id to a row no run has locked keeps the runs, and adds no current row.
LEMMA WritesInv ==
    ASSUME Inv, NEW x \in Runs, Writes(x)
    PROVE  RunInv' /\ OneCurrentTruth'
  <1>1. \A y \in Runs : Exists(y)' => Exists(y) /\ rows'[y].from = rows[y].from
    BY DEF Writes, Exists
  <1>2. \A y \in Runs : Current(y)' => Current(y)
    BY <1>1 DEF Writes, Current, Exists
  <1>3. \A r \in Runs : x \notin run[r].holds /\ run[r].closes \subseteq run[r].holds
    BY NoRunAssumption DEF Writes, Locked, Inv, RunInv, LocksHeld
  <1>4. \A r \in Runs : \A y \in run[r].closes : y \in Runs /\ rows'[y] = rows[y]
    BY <1>3 DEF Writes, Inv, TypeOK, RunState
  <1>5. run' = run
    BY DEF Writes
  <1>6. RowsOfDone'
    BY <1>1, <1>5 DEF Inv, RunInv, RowsOfDone, RunAt, Active
  <1>7. LocksHeld'
    <2>1. \A r \in Runs : \A y \in run[r].closes : Current(y)'
      BY <1>4 DEF Inv, RunInv, LocksHeld, Current, Exists
    <2> QED BY <1>5, <2>1 DEF Inv, RunInv, LocksHeld, RunAt
  <1>8. RecordAlone'
    BY <1>2, <1>5 DEF Inv, RunInv, RecordAlone, SlotFree, RunAt
  <1>9. ClosingOlder'
    <2> SUFFICES ASSUME NEW r \in Runs
                 PROVE  /\ run[r].pc = "touch" => run[r].seen \in Runs
                        /\ run[r].pc = "close" =>
                              /\ run[r].seen \in Runs /\ run[run[r].seen].pc = "done"
                              /\ Exists(run[r].seen)' => rows'[run[r].seen].from <= run[r].from
                        /\ \A y \in run[r].closes : Exists(y)' => rows'[y].from <= run[r].from
      BY <1>5 DEF ClosingOlder, NoLater, RunAt
    <2>1. \A y \in run[r].closes : Exists(y)' => rows'[y].from <= run[r].from
      BY <1>1, <1>4 DEF Inv, RunInv, ClosingOlder, NoLater
    <2>2. /\ run[r].pc = "touch" => run[r].seen \in Runs
          /\ run[r].pc = "close" =>
                /\ run[r].seen \in Runs /\ run[run[r].seen].pc = "done"
                /\ Exists(run[r].seen) => rows[run[r].seen].from <= run[r].from
      BY DEF Inv, RunInv, ClosingOlder, NoLater, RunAt
    <2> QED BY <1>1, <1>5, <2>1, <2>2 DEF Exists
  <1>10. OneCurrentTruth'
    BY <1>2 DEF Inv, RowInv, OneCurrentTruth
  <1> QED BY <1>6, <1>7, <1>8, <1>9, <1>10 DEF RunInv

\* A write that leaves the versions alone and does not take the row away.
LEMMA WritesKeepLineage ==
    ASSUME Inv, NEW x \in Runs, Writes(x), Exists(x) => Exists(x)',
           versions' = versions
    PROVE  LineageForward' /\ SupersededOnce'
  <1>1. \A y \in Runs : Exists(y) => /\ Exists(y)' /\ rows'[y].from = rows[y].from
                                     /\ rows[y].to # 0 => rows'[y].to # 0
    BY DEF Writes, Exists
  <1>2. \A v \in versions : v.old \in Runs /\ v.new \in Runs \cup {NoRun}
    BY DEF Inv, TypeOK
  <1>3. LineageForward'
    BY <1>1, <1>2 DEF Inv, RowInv, LineageForward
  <1> QED BY <1>3 DEF Inv, RowInv, SupersededOnce

\* Requests in progress name a row.
LEMMA OpRow ==
    ASSUME Inv, op.kind \in OpKinds
    PROVE  op \in Request /\ op.row \in Runs /\ op.at \in 1 .. MaxTime
  BY DEF Inv, TypeOK, NoOp, Request, OpKinds

\* A route that reads a row changes none.
LEMMA OpReadInv ==
    ASSUME Inv, NEW kind \in Ops, NEW x \in Runs, OpRead(kind, x)
    PROVE  Inv'
  <1>1. PICK t \in 1 .. clock : op' = [kind |-> kind, row |-> x, at |-> t]
    BY DEF OpRead
  <1>2. op' \in Request
    BY <1>1, OpsAssumption, MaxTimeAssumption DEF Request, Inv, TypeOK
  <1>3. ops' \in 0 .. MaxOps
    BY MaxOpsAssumption DEF OpRead, Inv, TypeOK
  <1>4. TypeOK'
    BY <1>2, <1>3 DEF OpRead, Inv, TypeOK
  <1>5. RunInv'
    BY DEF OpRead, Inv, RunInv, RowsOfDone, LocksHeld, RecordAlone, ClosingOlder, NoLater,
           SlotFree, Current, Exists, RunAt, Active
  <1>6. RowInv'
    BY DEF OpRead, Inv, RowInv, OneCurrentTruth, LineageForward, SupersededOnce, Current, Exists
  <1> QED BY <1>4, <1>5, <1>6 DEF Inv

\* A route that closes a row by id.
LEMMA OpCloseInv ==
    ASSUME Inv, OpClose
    PROVE  Inv'
  <1>0. op.row \in Runs /\ op.at \in 1 .. MaxTime
    BY OpRow DEF OpClose, OpKinds
  <1>1. PICK x \in Runs : x = op.row
    BY <1>0
  <1>2. \A y \in Runs : rows'[y] = IF y = x /\ rows[y] # Absent
                                   THEN [rows[y] EXCEPT !.to = op.at] ELSE rows[y]
    BY <1>1 DEF OpClose, Inv, TypeOK
  <1>3. rows[x] # Absent => rows'[x] \in Row /\ rows'[x].from = rows[x].from /\ rows'[x].to # 0
    <2>1. rows[x] # Absent => rows[x] \in Row
      BY DEF Inv, TypeOK
    <2>2. op.at \in 0 .. MaxTime /\ op.at # 0
      BY <1>0, MaxTimeAssumption
    <2>3. rows[x] # Absent => rows'[x] = [rows[x] EXCEPT !.to = op.at]
      BY <1>2
    <2> QED BY <2>1, <2>2, <2>3 DEF Row
  <1>4. rows' \in [Runs -> Row \cup {Absent}]
    <2>1. \A y \in Runs : rows'[y] \in Row \cup {Absent}
      BY <1>2, <1>3 DEF Inv, TypeOK
    <2> QED BY <2>1 DEF OpClose, Inv, TypeOK
  <1>5. Writes(x) /\ (Exists(x) => Exists(x)')
    BY <1>1, <1>2, <1>3, <1>4, AbsentAssumption DEF Writes, OpClose, Exists
  <1>6. RunInv' /\ OneCurrentTruth'
    BY <1>1, <1>5, WritesInv
  <1>7. LineageForward' /\ SupersededOnce'
    BY <1>1, <1>5, WritesKeepLineage DEF OpClose
  <1>8. TypeOK'
    BY <1>4 DEF OpClose, Inv, TypeOK
  <1> QED BY <1>6, <1>7, <1>8 DEF Inv, RowInv

\* A claim of another slot that is merged into a row.
LEMMA OpMergeInv ==
    ASSUME Inv, OpMerge
    PROVE  Inv'
  <1>0. op.row \in Runs
    BY OpRow DEF OpMerge, OpKinds
  <1>1. PICK x \in Runs : x = op.row
    BY <1>0
  <1>2. PICK c \in Claims :
          rows' = [rows EXCEPT ![x] = IF @ = Absent THEN @
                                      ELSE [@ EXCEPT !.val = c.val, !.status = c.status]]
    BY <1>1 DEF OpMerge
  <1>3. c.val \in Values /\ c.status \in Statuses
    BY ClaimsAssumption DEF ClaimType
  <1>4. \A y \in Runs : rows'[y] = IF y = x /\ rows[y] # Absent
                                   THEN [rows[y] EXCEPT !.val = c.val, !.status = c.status]
                                   ELSE rows[y]
    BY <1>1, <1>2 DEF Inv, TypeOK
  <1>5. rows[x] # Absent => rows'[x] \in Row /\ rows'[x].from = rows[x].from
                            /\ rows'[x].to = rows[x].to
    <2>1. rows[x] # Absent => rows[x] \in Row
      BY DEF Inv, TypeOK
    <2> QED BY <1>3, <1>4, <2>1 DEF Row
  <1>6. rows' \in [Runs -> Row \cup {Absent}]
    <2>1. \A y \in Runs : rows'[y] \in Row \cup {Absent}
      BY <1>4, <1>5 DEF Inv, TypeOK
    <2> QED BY <1>2, <2>1 DEF Inv, TypeOK
  <1>7. Writes(x) /\ (Exists(x) => Exists(x)')
    BY <1>1, <1>4, <1>5, <1>6, AbsentAssumption DEF Writes, OpMerge, Exists
  <1>8. RunInv' /\ OneCurrentTruth'
    BY <1>1, <1>7, WritesInv
  <1>9. LineageForward' /\ SupersededOnce'
    BY <1>1, <1>7, WritesKeepLineage DEF OpMerge
  <1>10. TypeOK'
    BY <1>6 DEF OpMerge, Inv, TypeOK
  <1> QED BY <1>8, <1>9, <1>10 DEF Inv, RowInv

\* A deletion, with the cascade to the versions.
LEMMA OpDeleteInv ==
    ASSUME Inv, OpDelete
    PROVE  Inv'
  <1>0. op.row \in Runs
    BY OpRow DEF OpDelete, OpKinds
  <1>1. PICK x \in Runs : x = op.row
    BY <1>0
  <1>2. rows' = [rows EXCEPT ![x] = Absent] /\ UNCHANGED <<clock, run, ops>> /\ op' = NoOp
    BY <1>1 DEF OpDelete
  <1>3. rows' \in [Runs -> Row \cup {Absent}] /\ rows'[x] = Absent
        /\ \A y \in Runs \ {x} : rows'[y] = rows[y]
    BY <1>1, <1>2 DEF Inv, TypeOK
  <1>4. Writes(x)
    BY <1>1, <1>2, <1>3 DEF Writes, OpDelete, Exists
  <1>5. RunInv' /\ OneCurrentTruth'
    BY <1>1, <1>4, WritesInv
  <1>6. \A w \in versions : w \in [old : Runs, new : Runs \cup {NoRun}]
    BY DEF Inv, TypeOK
  <1>7. ASSUME NEW v \in versions'
        PROVE  \E w \in versions :
                  /\ w.old # x /\ v.old = w.old
                  /\ v.new = IF w.new = x THEN NoRun ELSE w.new
                  /\ v = [old |-> v.old, new |-> v.new]
    <2>1. PICK w \in versions :
             w.old # x /\ v = [w EXCEPT !.new = IF @ = x THEN NoRun ELSE @]
      BY <1>1 DEF OpDelete
    <2> QED BY <1>6, <2>1
  <1>8. versions' \subseteq [old : Runs, new : Runs \cup {NoRun}]
    BY <1>6, <1>7
  <1>9. LineageForward'
    <2> SUFFICES ASSUME NEW v \in versions'
                 PROVE  /\ Exists(v.old)' /\ rows'[v.old].to # 0
                        /\ v.new # NoRun => Exists(v.new)' /\ rows'[v.new].from >= rows'[v.old].from
      BY DEF LineageForward
    <2>1. PICK w \in versions : /\ w.old # x /\ v.old = w.old
                                /\ v.new = IF w.new = x THEN NoRun ELSE w.new
      BY <1>7
    <2>2. /\ Exists(w.old) /\ rows[w.old].to # 0
          /\ w.new # NoRun => Exists(w.new) /\ rows[w.new].from >= rows[w.old].from
      BY DEF Inv, RowInv, LineageForward
    <2> QED BY <1>3, <1>6, <2>1, <2>2 DEF Exists
  <1>10. SupersededOnce'
    <2> SUFFICES ASSUME NEW v1 \in versions', NEW v2 \in versions', v1.old = v2.old
                 PROVE  v1 = v2
      BY DEF SupersededOnce
    <2>1. PICK w1 \in versions : v1.old = w1.old /\ v1.new = (IF w1.new = x THEN NoRun ELSE w1.new)
                                 /\ v1 = [old |-> v1.old, new |-> v1.new]
      BY <1>7
    <2>2. PICK w2 \in versions : v2.old = w2.old /\ v2.new = (IF w2.new = x THEN NoRun ELSE w2.new)
                                 /\ v2 = [old |-> v2.old, new |-> v2.new]
      BY <1>7
    <2>3. w1 = w2
      BY <2>1, <2>2 DEF Inv, RowInv, SupersededOnce
    <2> QED BY <2>1, <2>2, <2>3
  <1>11. TypeOK'
    BY <1>2, <1>3, <1>8 DEF Inv, TypeOK
  <1> QED BY <1>5, <1>9, <1>10, <1>11 DEF Inv, RowInv

-----------------------------------------------------------------------------
\* Steps that write nothing but the clock, and stuttering steps.
LEMMA TickInv ==
    ASSUME Inv, Tick \/ UNCHANGED truthVars
    PROVE  Inv'
  <1>1. UNCHANGED <<rows, versions, run, op, ops>>
    BY DEF Tick, truthVars
  <1>2. clock' \in 1 .. MaxTime
    BY MaxTimeAssumption DEF Tick, truthVars, Inv, TypeOK
  <1>3. TypeOK'
    BY <1>1, <1>2 DEF Inv, TypeOK
  <1>4. RunInv'
    BY <1>1 DEF Inv, RunInv, RowsOfDone, LocksHeld, RecordAlone, ClosingOlder, NoLater,
                SlotFree, Current, Exists, RunAt, Active
  <1>5. RowInv'
    BY <1>1 DEF Inv, RowInv, OneCurrentTruth, LineageForward, SupersededOnce, Current, Exists
  <1> QED BY <1>3, <1>4, <1>5 DEF Inv

\* The invariant is inductive.
LEMMA NextInv == Inv /\ [TruthNext]_truthVars => Inv'
  <1> SUFFICES ASSUME Inv, [TruthNext]_truthVars PROVE Inv'
    OBVIOUS
  <1>1. ASSUME NEW r \in Runs, RunStep(r) PROVE Inv'
    <2>1. CASE CommitRun(r)
      BY <2>1, CommitInv
    <2>2. CASE ~CommitRun(r)
      <3>1. RunMoves(r)
        BY <1>1, <2>2, BeginMoves, DedupMoves, PlanMoves, TouchMoves, CloseMoves, InsertMoves,
           SkippedMoves, RejectedMoves DEF RunStep
      <3> QED BY <3>1, RunMovesInv
    <2> QED BY <2>1, <2>2
  <1>2. ASSUME NEW kind \in Ops, NEW x \in Runs, OpRead(kind, x) PROVE Inv'
    BY <1>2, OpReadInv
  <1> QED BY <1>1, <1>2, OpCloseInv, OpMergeInv, OpDeleteInv, TickInv DEF TruthNext

\* plan, insert and record of any number of runs, retried as often as they are, and the
\* routes that close, merge into or delete rows, never leave two current rows in a slot.
THEOREM OneTruth == TruthSpec => []OneCurrentTruth
  <1>1. Inv => OneCurrentTruth
    BY DEF Inv, RowInv
  <1> QED BY <1>1, InitInv, NextInv, PTL DEF TruthSpec

\* The guarded write of _close_validity makes its row count the arbiter: no row is superseded,
\* and no version of it recorded, twice; and refuses_to_close holds at the commit what it
\* decided at the plan: a replacement starts no earlier than what it replaced.
THEOREM LineageIsSound == TruthSpec => []LineageSound
  <1>1. Inv => LineageSound
    BY DEF Inv, RowInv, LineageSound
  <1> QED BY <1>1, InitInv, NextInv, PTL DEF TruthSpec

\* The fields of rows, versions, runs and requests keep their types.
THEOREM TruthTypes == TruthSpec => []TypeOK
  <1>1. Inv => TypeOK
    BY DEF Inv
  <1> QED BY <1>1, InitInv, NextInv, PTL DEF TruthSpec

-----------------------------------------------------------------------------
(* What the runs close among themselves has its lineage. *)

\* What a run has closed began no later than the time it writes.
ClosedInOrder == \A r \in Runs : \A x \in run[r].closes : rows[x].from <= run[r].ts
Recorded(x)   == Exists(x) /\ rows[x].to # 0 => rows[x].to >= rows[x].from /\ \E v \in versions : v.old = x
HistInv       == ops = 0 => op = NoOp /\ ClosedInOrder /\ \A x \in Runs : Recorded(x)

\* A step of a run other than its commit closes nothing that began after its time.
LEMMA ClosesInOrder ==
    ASSUME Inv, NEW r \in Runs, RunStep(r), ~CommitRun(r)
    PROVE  /\ UNCHANGED <<rows, versions, op, ops>> /\ \A q \in Runs \ {r} : run'[q] = run[q]
           /\ \A x \in run'[r].closes : (x \in run[r].closes /\ run'[r].ts = run[r].ts) \/ rows[x].from <= run'[r].ts
  <1>0. run \in [Runs -> RunState] /\ run[r] \in RunState
    BY DEF Inv, TypeOK
  <1>1. UNCHANGED <<rows, versions, op, ops>>
    BY DEF RunStep, BeginRun, DedupSlot, DedupText, Touch, PlanSlot, Close, CloseInverted, Insert, InsertRejected,
           CommitSkipped, Fail
  <1>2. ASSUME NEW n, Set(r, n) PROVE run'[r] = n /\ \A q \in Runs \ {r} : run'[q] = run[q]
    BY <1>0, <1>2 DEF Set
  <1>3. ASSUME CloseInverted(r) \/ InsertRejected(r) \/ CommitSkipped(r) \/ Fail(r)
        PROVE  \E n : Set(r, n) /\ n.closes = {}
    <2>1. \A pc, m : Outside(pc, m).closes = {}
      BY DEF Outside
    <2>2. Rollback(r) => \E n : Set(r, n) /\ n.closes = {}
      BY <2>1 DEF Rollback
    <2> QED BY <1>3, <2>1, <2>2 DEF CloseInverted, InsertRejected, CommitSkipped, Fail
  <1>4. ASSUME BeginRun(r) \/ DedupSlot(r) \/ DedupText(r) \/ Touch(r) \/ PlanSlot(r)
        PROVE  \E n : Set(r, n) /\ n.closes = {}
    <2>1. run[r].closes = {}
      BY <1>4, BeforeClose DEF BeginRun, DedupSlot, DedupText, Touch, PlanSlot, RunAt
    <2> DEFINE Keeps(n) == Set(r, n) /\ n.closes = {}
    <2>2. \A pc, c, f, s, t, h : /\ [run[r] EXCEPT !.pc = pc, !.claim = c, !.from = f].closes = {}
                                 /\ [run[r] EXCEPT !.seen = s, !.pc = pc].closes = {}
                                 /\ [run[r] EXCEPT !.pc = pc].closes = {}
                                 /\ [run[r] EXCEPT !.pc = pc, !.holds = h].closes = {}
                                 /\ [run[r] EXCEPT !.pc = pc, !.seen = s, !.ts = t, !.free = f].closes = {}
                                 /\ [run[r] EXCEPT !.seen = s, !.ts = t, !.free = f, !.pc = pc].closes = {}
      BY <1>0, <2>1 DEF RunState
    <2>3. BeginRun(r) => \E n : Keeps(n)
      BY <2>2, Zenon DEF BeginRun
    <2>4. DedupSlot(r) => \E n : Keeps(n)
      BY <2>2, Zenon DEF DedupSlot
    <2>5. DedupText(r) => \E n : Keeps(n)
      BY <2>2, Zenon DEF DedupText, Goto
    <2>6. Touch(r) => \E n : Keeps(n)
      BY <2>2, Zenon DEF Touch
    <2>7. PlanSlot(r) => \E n : Keeps(n)
      BY <2>2, Zenon DEF PlanSlot
    <2> QED BY <1>4, <2>3, <2>4, <2>5, <2>6, <2>7
  <1>5. ASSUME Close(r)
        PROVE  \E n : Set(r, n) /\ \A x \in n.closes : rows[x].from <= n.ts
    <2>1. run[r].closes = {}
      BY <1>5, BeforeClose DEF Close, RunAt
    <2> DEFINE x == run[r].seen
    <2>2. CASE /\ rows[x].from <= run[r].ts
               /\ Set(r, [run[r] EXCEPT !.pc = "insert", !.holds = @ \cup {x}, !.closes = @ \cup {x}])
      <3> DEFINE n == [run[r] EXCEPT !.pc = "insert", !.holds = @ \cup {x}, !.closes = @ \cup {x}]
      <3>1. n.closes = {x} /\ n.ts = run[r].ts
        BY <1>0, <2>1 DEF RunState
      <3> QED BY <2>2, <3>1
    <2>3. CASE Goto(r, "skip")
      <3>1. [run[r] EXCEPT !.pc = "skip"].closes = {}
        BY <1>0, <2>1 DEF RunState
      <3> QED BY <2>3, <3>1 DEF Goto
    <2> QED BY <1>5, <2>2, <2>3 DEF Close
  <1>6. ASSUME Insert(r)
        PROVE  \E n : Set(r, n) /\ n.closes = run[r].closes /\ n.ts = run[r].ts
    <2>1. [run[r] EXCEPT !.pc = "record"].closes = run[r].closes /\ [run[r] EXCEPT !.pc = "record"].ts = run[r].ts
      BY <1>0 DEF RunState
    <2> QED BY <1>6, <2>1 DEF Insert, Goto
  <1> QED BY <1>1, <1>2, <1>3, <1>4, <1>5, <1>6 DEF RunStep

\* The commit records what it closes, at a time it had already begun.
LEMMA CommitRecords ==
    ASSUME Inv, NEW r \in Runs, CommitRun(r), HistInv, ops = 0
    PROVE  op' = NoOp /\ ClosedInOrder' /\ \A x \in Runs : Recorded(x)'
  <1>0. rows \in [Runs -> Row \cup {Absent}] /\ run \in [Runs -> RunState]
    BY DEF Inv, TypeOK
  <1>1. /\ op' = op /\ versions' = versions \cup {[old |-> x, new |-> r] : x \in run[r].closes}
        /\ run'[r].closes = {} /\ \A q \in Runs \ {r} : run'[q] = run[q]
    BY <1>0 DEF CommitRun, Superseded, Set, Outside
  <1>2. ~Exists(r) /\ \A q \in Runs : \A x \in run[q].closes : x \in Runs /\ x # r /\ Current(x)
    BY <1>0 DEF CommitRun, Inv, RunInv, RowsOfDone, LocksHeld, RunAt, Current, RunState
  <1>3. rows'[r].to = 0
    BY DEF CommitRun
  <1>4. \A x \in Runs \ {r} : rows'[x] = IF x \in run[r].closes THEN [rows[x] EXCEPT !.to = run[r].ts] ELSE rows[x]
    BY <1>2 DEF CommitRun, Current
  <1>5. \A x \in Runs \ {r} : Exists(x) => rows'[x].from = rows[x].from
    BY <1>0, <1>4 DEF Exists, Row
  <1>6. ClosedInOrder'
    BY <1>1, <1>2, <1>5 DEF HistInv, ClosedInOrder, Current
  <1>7. ASSUME NEW x \in Runs PROVE Recorded(x)'
    <2>1. CASE x = r
      BY <1>3, <2>1 DEF Recorded
    <2>2. CASE x # r /\ x \notin run[r].closes
      BY <1>1, <1>4, <2>2 DEF HistInv, Recorded, Exists
    <2>3. CASE x \in run[r].closes
      <3>1. rows'[x].to = run[r].ts /\ rows'[x].from = rows[x].from
        BY <1>0, <1>2, <1>4, <2>3 DEF Current, Exists, Row
      <3>2. rows[x].from <= run[r].ts /\ rows[x].from \in Int /\ run[r].ts \in Int
        BY <1>0, <1>2, <2>3 DEF HistInv, ClosedInOrder, Current, Exists, Row, RunState
      <3>3. [old |-> x, new |-> r] \in versions'
        BY <1>1, <2>3
      <3> QED BY <3>1, <3>2, <3>3 DEF Recorded
    <2> QED BY <2>1, <2>2, <2>3
  <1> QED BY <1>1, <1>6, <1>7 DEF HistInv

LEMMA HistStep ==
    ASSUME Inv, HistInv, [TruthNext]_truthVars PROVE HistInv'
  <1> SUFFICES ASSUME ops' = 0 PROVE op' = NoOp /\ ClosedInOrder' /\ \A x \in Runs : Recorded(x)'
    BY DEF HistInv
  <1>0. ops = 0 /\ \A kind \in Ops, x \in Runs : ~OpRead(kind, x)
    <2>1. ops \in Nat
      BY MaxOpsAssumption DEF Inv, TypeOK
    <2>2. \A kind \in Ops, x \in Runs : ~OpRead(kind, x)
      BY <2>1 DEF OpRead
    <2>3. \A r \in Runs : RunStep(r) => UNCHANGED ops
      BY ClosesInOrder DEF CommitRun
    <2>4. OpClose \/ OpMerge \/ OpDelete \/ Tick \/ UNCHANGED truthVars => UNCHANGED ops
      BY DEF OpClose, OpMerge, OpDelete, Tick, truthVars
    <2> QED BY <2>2, <2>3, <2>4 DEF TruthNext
  <1>1. op = NoOp /\ ClosedInOrder /\ \A x \in Runs : Recorded(x)
    BY <1>0 DEF HistInv
  <1>2. ~OpClose /\ ~OpMerge /\ ~OpDelete
    BY <1>1 DEF NoOp, OpClose, OpMerge, OpDelete
  <1>3. CASE UNCHANGED <<rows, versions, run, op>>
    BY <1>1, <1>3 DEF ClosedInOrder, Recorded, Exists
  <1>4. ASSUME NEW r \in Runs, RunStep(r), ~CommitRun(r)
        PROVE  op' = NoOp /\ ClosedInOrder' /\ \A x \in Runs : Recorded(x)'
    <2>1. UNCHANGED <<rows, versions, op>>
      BY <1>4, ClosesInOrder
    <2>2. ClosedInOrder'
      BY <1>1, <1>4, <2>1, ClosesInOrder DEF ClosedInOrder
    <2> QED BY <1>1, <2>1, <2>2 DEF Recorded, Exists
  <1>5. ASSUME NEW r \in Runs, CommitRun(r) PROVE op' = NoOp /\ ClosedInOrder' /\ \A x \in Runs : Recorded(x)'
    BY <1>0, <1>5, CommitRecords
  <1> QED BY <1>0, <1>2, <1>3, <1>4, <1>5 DEF TruthNext, Tick, truthVars

\* Until a route closes a row by itself, every row that has ended has the version that says what
\* replaced it, and none ends before it began, whatever runs plan, close and roll back at the same
\* time (core/truth/service.py:576, :740).
THEOREM HistoryComplete == TruthSpec => []HistoryKept
  <1>1. TruthInit => HistInv
    BY DEF TruthInit, HistInv, ClosedInOrder, Recorded, Exists, Outside
  <1>2. Inv /\ HistInv => HistoryKept
    BY DEF HistInv, HistoryKept, Recorded
  <1> QED BY <1>1, <1>2, InitInv, NextInv, HistStep, PTL DEF TruthSpec

-----------------------------------------------------------------------------
(* What a run closes it replaces. *)

\* A run's commit leaves its own row current; its other steps leave the rows as they are.
LEMMA RunStepKeepsOne ==
    ASSUME Inv, NEW r \in Runs, RunStep(r)
    PROVE  rows' = rows \/ Current(r)'
  <1>1. CASE CommitRun(r)
    <2> DEFINE c == run[r].claim
    <2> DEFINE new == [type |-> c.type, val |-> c.val, status |-> c.status,
                       from |-> run[r].from, to |-> 0]
    <2>1. run[r] \in RunState
      BY DEF Inv, TypeOK
    <2>2. run[r].from \in 1 .. MaxTime /\ c \in ClaimType
      BY <2>1, ClaimsAssumption DEF RunState
    <2>3. new \in Row /\ new.to = 0
      BY <2>2, MaxTimeAssumption DEF Row, ClaimType
    <2>4. rows'[r] = new
      BY <1>1 DEF CommitRun
    <2> QED BY <2>3, <2>4, AbsentAssumption DEF Current, Exists
  <1>2. CASE ~CommitRun(r)
    BY <1>2 DEF RunStep, BeginRun, DedupSlot, DedupText, Touch, PlanSlot, Close, CloseInverted, Insert,
                InsertRejected, CommitSkipped, Fail
  <1> QED BY <1>1, <1>2

\* Whatever runs race for a slot, and whatever fails between the close and the insert, a step
\* that takes the slot's last current row out of it is one of a route that closes or deletes by
\* itself: supersession never empties the slot (memory_repo.py, supersede_if_current).
THEOREM SlotNeverEmptied == TruthSpec => NeverEmptied
  <1>1. ASSUME Inv, [TruthNext]_truthVars
        PROVE  [(\E x \in Runs : Current(x)) /\ (\A x \in Runs : ~Current(x)') => op # op']_truthVars
    <2>1. rows' = rows => (\A x \in Runs : Current(x)' = Current(x))
      BY DEF Current, Exists
    <2>2. ASSUME NEW r \in Runs, RunStep(r)
          PROVE  rows' = rows \/ \E x \in Runs : Current(x)'
      BY <1>1, <2>2, RunStepKeepsOne
    <2>3. (\E kind \in Ops, x \in Runs : OpRead(kind, x)) \/ Tick => rows' = rows
      BY DEF OpRead, Tick
    <2>4. ASSUME OpClose \/ OpMerge \/ OpDelete PROVE op # op'
      <3>1. op.kind # "none"
        BY <2>4 DEF OpClose, OpMerge, OpDelete
      <3>2. op' = NoOp
        BY <2>4, Zenon DEF OpClose, OpMerge, OpDelete
      <3>3. NoOp.kind = "none"
        BY DEF NoOp
      <3> QED BY <3>1, <3>2, <3>3
    <2> QED BY <1>1, <2>1, <2>2, <2>3, <2>4 DEF TruthNext
  <1>2. TruthSpec => []Inv
    BY InitInv, NextInv, PTL DEF TruthSpec
  <1> QED BY <1>1, <1>2, PTL DEF TruthSpec, NeverEmptied
=============================================================================
