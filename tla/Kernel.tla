------------------------------- MODULE Kernel -------------------------------
(***************************************************************************)
(* The memory kernel: the operations of /v1/kernel over one process-wide   *)
(* adapter, and the versioned memory blocks their results are about.       *)
(*                                                                         *)
(* The adapter keeps two tables in the process, the last result of each    *)
(* operation id and the result of each idempotency key.  They are read     *)
(* before an operation starts and written after its transaction is over;   *)
(* every await in between lets other calls run.  A restart loses both.     *)
(*                                                                         *)
(*   contexta/services/kernel.py             MemoryKernelAdapter           *)
(*   contexta/api/routes/kernel_runtime.py   the routes                    *)
(*   contexta/contracts/runtime.py           what a request must hold      *)
(*   contexta/repositories/block_repo.py     blocks and their revisions    *)
(*                                                                         *)
(* What is extracted, retrieved or walked in the graph is any set of the   *)
(* memories in scope: Retrieval and Extraction say which.                  *)
(***************************************************************************)
EXTENDS Integers, Sequences

CONSTANTS
    Requested,          \* what each call may ask, retries included, in the order they arrive
    NoId,           \* a field that is not given
    MaxRestarts     \* bound: restarts of the process

Reads  == {"recall", "build_context", "explain", "search_graph"}
Writes == {"observe", "correct", "propose"}
Kinds  == Reads \cup Writes \cup {"get_operation", "create_block", "append", "create_revision"}

Calls    == DOMAIN Requested
Requests == UNION {Requested[c] : c \in Calls}
RequestFields ==
    {"kind", "user", "claims", "agent", "key", "op", "content", "target", "expected"}
ASSUME RequestsAssumption ==
    /\ Requested \in Seq(SUBSET Requests)
    /\ \A r \in Requests : DOMAIN r = RequestFields /\ r.kind \in Kinds
    /\ NoId \notin Calls /\ MaxRestarts \in Nat

Users == {r.user : r \in Requests}

\* The HTTP status of each status of an operation.
Code ==
    [accepted |-> 202, queued |-> 202, proposed |-> 202, completed |-> 200, failed |-> 500,
     not_found |-> 404, conflict |-> 409]
Statuses == DOMAIN Code

\* by    the call that did the work        ids   the memories the result names
Results == [status : Statuses, by : Calls, ids : SUBSET Calls]
Refused == [status |-> "refused", by |-> NoId, ids |-> {}]
Broken  == [status |-> "error", by |-> NoId, ids |-> {}]

VARIABLES
    memories,       \* committed memories, each named after the observe that stored it
    committed,      \* history: the observes whose transaction is committed
    ops,            \* the process's results by user and operation id
    idem,           \* the process's results by user and idempotency key
    life,           \* restarts so far
    call,           \* the calls
    block,          \* the committed row of one memory block
    revisions,      \* its committed revisions
    locked          \* the call that holds the row lock of the block

kernelVars == <<memories, committed, ops, idem, life, call, block, revisions, locked>>

IdempotencyKeys   == {r.key : r \in Requests} \ {NoId}
OpIds  == ({r.op : r \in Requests} \ {NoId}) \cup Calls
NoResult == [status |-> "none", by |-> NoId, ids |-> {}]
NoEntry  == [print |-> NoId, result |-> NoResult]

FreshCall ==
    [pc |-> "none", req |-> NoId, life |-> 0, after |-> {}, ids |-> {}, seen |-> 0,
     number |-> 0, answer |-> NoResult]

Answers    == Results \cup {NoResult, Refused, Broken}
Prints     == {NoId} \cup {<<r.agent, r.op, r.content>> : r \in Requests}
Entries    == [print : Prints, result : Results \cup {NoResult}]
PCs        == {"none", "got", "run", "flushed", "committed", "locked", "done", "lost"}
CallStates ==
    [pc : PCs, req : Requests \cup {NoId}, life : 0 .. MaxRestarts, after : SUBSET Calls,
     ids : SUBSET Calls, seen : Nat, number : Nat, answer : Answers]

TypeOK ==
    /\ memories \subseteq Calls /\ committed \subseteq Calls
    /\ ops \in [Users -> [OpIds -> Results \cup {NoResult}]]
    /\ idem \in [Users -> [IdempotencyKeys -> Entries]]
    /\ life \in 0 .. MaxRestarts
    /\ call \in [Calls -> CallStates]
    /\ \A c \in Calls : call[c].pc # "none" => call[c].req \in Requests
    /\ block \in [version : Nat, current : Nat]
    /\ revisions \subseteq [number : Nat, supersedes : Nat, by : Calls]
    /\ locked \in Calls \cup {NoId}

KernelInit ==
    /\ memories = {} /\ committed = {}
    /\ ops = [u \in Users |-> [o \in OpIds |-> NoResult]]
    /\ idem = [u \in Users |-> [k \in IdempotencyKeys |-> NoEntry]]
    /\ life = 0
    /\ call = [c \in Calls |-> FreshCall]
    /\ block = [version |-> 0, current |-> 0]
    /\ revisions = {}
    /\ locked = NoId

-----------------------------------------------------------------------------
Req(c)      == call[c].req
Reached(c, pc)   == call[c].pc = pc
Asks(c, k)  == Reached(c, "got") /\ Req(c).kind = k
OpId(c)     == IF Req(c).op = NoId THEN c ELSE Req(c).op
Done        == {c \in Calls : Reached(c, "done")}
Stored      == <<memories, committed>>
BlockState  == <<block, revisions, locked>>

\* _assert_identity and the contract: the scope a body claims is the caller's, and a write
\* names an idempotency key.
ClaimsOwnScope(r) == r.claims \in {NoId, r.user}
HasKey(r)         == r.kind \in Writes => r.key # NoId
ContractHolds(r)  == ClaimsOwnScope(r) /\ HasKey(r)

\* The fingerprint of an observe is of the whole request, its request id included.
Fingerprint(r) == <<r.agent, r.op, r.content>>

\* _observation_payload: what is observed is stored under the scope of the request.
Payload(r) == [user |-> r.user, agent |-> r.agent]

\* _scope_matches_memory: what the request's scope leaves open matches anything.
ScopeMatches(m, r) ==
    LET stored == Payload(Req(m)) IN stored.user = r.user /\ r.agent \in {NoId, stored.agent}

\* _retrieve: some of the memories in scope.
Visible(r)   == {m \in memories : ScopeMatches(m, r)}
Retrieved(r) == SUBSET Visible(r)

Ends(c, result) ==
    call' = [call EXCEPT ![c].pc = "done", ![c].answer = result]

\* _remember: the last result under the caller's operation id.
Remember(c, result) == ops' = [ops EXCEPT ![Req(c).user][OpId(c)] = result]

\* _remember_idempotent, failures included.  (KeyForgotten: the entry is not kept.)
KeyForgotten(c, result) == UNCHANGED idem
RememberKey(c, result) ==
    idem' = [idem EXCEPT ![Req(c).user][Req(c).key] =
                            [print |-> Fingerprint(Req(c)), result |-> result]]

Result(c, status, ids) == [status |-> status, by |-> c, ids |-> ids]

\* An operation without an idempotency table ends.
Concludes(c, status, ids) ==
    /\ Ends(c, Result(c, status, ids))
    /\ Remember(c, Result(c, status, ids))
    /\ UNCHANGED <<Stored, idem, life, BlockState>>

-----------------------------------------------------------------------------
Receive(c) ==
    /\ Reached(c, "none") /\ \A d \in Calls : d < c => ~Reached(d, "none")
    /\ \E r \in Requested[c] :
        call' = [call EXCEPT ![c] = [FreshCall EXCEPT !.pc = "got", !.req = r, !.life = life,
                                                  !.after = Done]]
    /\ UNCHANGED <<Stored, ops, idem, life, BlockState>>

\* 403 for another's scope, 422 for a write without a key.
RefuseCall(c) ==
    /\ Reached(c, "got")
    /\ ~ContractHolds(Req(c))
    /\ Ends(c, Refused)
    /\ UNCHANGED <<Stored, ops, idem, life, BlockState>>

Accepted(c, kind) == Asks(c, kind) /\ ContractHolds(Req(c))
Entry(c) == idem[Req(c).user][Req(c).key]

-----------------------------------------------------------------------------
(* observe *)

\* The key is known with this request: the result it had, which is not remembered again.
ObserveReplayed(c) ==
    /\ Accepted(c, "observe")
    /\ Entry(c).result # NoResult /\ Entry(c).print = Fingerprint(Req(c))
    /\ Ends(c, Entry(c).result)
    /\ UNCHANGED <<Stored, ops, idem, life, BlockState>>

\* The key is known with another request.
ObserveConflict(c) ==
    /\ Accepted(c, "observe")
    /\ Entry(c).result # NoResult /\ Entry(c).print # Fingerprint(Req(c))
    /\ Concludes(c, "conflict", {})

\* The key is not known (yet: another call may be running under it).
ObserveStart(c) ==
    /\ Accepted(c, "observe")
    /\ Entry(c).result = NoResult
    /\ call' = [call EXCEPT ![c].pc = "run"]
    /\ UNCHANGED <<Stored, ops, idem, life, BlockState>>

\* The payload is built and redacted, the orchestrator stores what it extracts, if anything,
\* and the embeddings are stored or not: all in the session of the transaction.
Orchestrate(c) ==
    /\ Reached(c, "run")
    /\ \E ids \in {{}, {c}} : call' = [call EXCEPT ![c].pc = "flushed", ![c].ids = ids]
    /\ UNCHANGED <<Stored, ops, idem, life, BlockState>>

CommitObserve(c) ==
    /\ Reached(c, "flushed") /\ Req(c).kind = "observe"
    /\ memories' = memories \cup call[c].ids
    /\ committed' = committed \cup {c}
    /\ call' = [call EXCEPT ![c].pc = "committed"]
    /\ UNCHANGED <<ops, idem, life, BlockState>>

\* The session is closed, which is another await, before the result is remembered.
ObserveAnswered(c) ==
    /\ Reached(c, "committed")
    /\ LET result == Result(c, "accepted", call[c].ids)
       IN  Ends(c, result) /\ Remember(c, result) /\ RememberKey(c, result)
    /\ UNCHANGED <<Stored, life, BlockState>>

\* Leaving the transaction by an exception.  (NotRolledBack: what was flushed stays.)
NotRolledBack(c) ==
    /\ memories' = memories \cup call[c].ids
    /\ committed' = committed \cup {c}
RolledBack(c) == UNCHANGED <<memories, committed>>

\* An exception the adapter expects, the failure of the commit included: the result says
\* failed, and it is what the key answers from now on.
ObserveFails(c) ==
    /\ Reached(c, "run") \/ (Reached(c, "flushed") /\ Req(c).kind = "observe")
    /\ RolledBack(c)
    /\ LET result == Result(c, "failed", {})
       IN  Ends(c, result) /\ Remember(c, result) /\ RememberKey(c, result)
    /\ UNCHANGED <<life, BlockState>>

\* Any other exception: _kernel_call answers 500 and nothing is remembered.
Unexpected(c) ==
    /\ Reached(c, "run") \/ (Reached(c, "flushed") /\ Req(c).kind = "observe")
    /\ RolledBack(c)
    /\ Ends(c, Broken)
    /\ UNCHANGED <<ops, idem, life, BlockState>>

-----------------------------------------------------------------------------
(* the other operations *)

Recall(c) ==
    Accepted(c, "recall") /\ \E ids \in Retrieved(Req(c)) : Concludes(c, "completed", ids)

BuildContext(c) ==
    Accepted(c, "build_context")
    /\ \E ids \in Retrieved(Req(c)) : Concludes(c, "completed", ids)

SearchGraph(c) ==
    Accepted(c, "search_graph")
    /\ \E ids \in Retrieved(Req(c)) : Concludes(c, "completed", ids)

\* The memory is found in scope, and touched; or it is not.
Explain(c) ==
    Accepted(c, "explain")
    /\ IF Req(c).target \in Visible(Req(c)) THEN Concludes(c, "completed", {Req(c).target})
                                            ELSE Concludes(c, "not_found", {})

ReadFails(c) == Reached(c, "got") /\ Req(c).kind \in Reads /\ ContractHolds(Req(c)) /\ Concludes(c, "failed", {})

\* Neither changes the store: a correction is queued nowhere, a proposal has no row.
Correct(c)            == Accepted(c, "correct") /\ Concludes(c, "queued", {})
ProposeBlockUpdate(c) == Accepted(c, "propose") /\ Concludes(c, "proposed", {})

\* The recorded result of an operation of the caller; reading it records nothing.
GetOperation(c) ==
    /\ Asks(c, "get_operation")
    /\ LET found == ops[Req(c).user][OpId(c)]
       IN  Ends(c, IF found = NoResult THEN Result(c, "not_found", {}) ELSE found)
    /\ UNCHANGED <<Stored, ops, idem, life, BlockState>>

\* The process dies: both tables and the calls in flight are gone, transactions roll back.
Restart ==
    /\ life < MaxRestarts
    /\ life' = life + 1
    /\ ops' = [u \in Users |-> [o \in OpIds |-> NoResult]]
    /\ idem' = [u \in Users |-> [k \in IdempotencyKeys |-> NoEntry]]
    /\ call' = [c \in Calls |-> IF call[c].pc \in {"none", "done"} THEN call[c]
                                ELSE [call[c] EXCEPT !.pc = "lost"]]
    /\ locked' = NoId
    /\ UNCHANGED <<Stored, block, revisions>>

-----------------------------------------------------------------------------
(* blocks *)

Numbers    == {r.number : r \in revisions}
NextNumber == IF Numbers = {} THEN 1 ELSE 1 + CHOOSE n \in Numbers : \A m \in Numbers : m <= n

BlockEnds(c, status) ==
    /\ Ends(c, Result(c, status, {}))
    /\ locked' = IF locked = c THEN NoId ELSE locked
    /\ UNCHANGED <<Stored, ops, idem, life>>

\* create_with_revision: the block and its first revision; a block of the key refuses it.
CreateBlock(c) ==
    /\ Asks(c, "create_block")
    /\ IF block.current = 0
       THEN /\ block' = [version |-> 1, current |-> 1]
            /\ revisions' = revisions \cup {[number |-> 1, supersedes |-> 0, by |-> c]}
            /\ BlockEnds(c, "completed")
       ELSE BlockEnds(c, "failed") /\ UNCHANGED <<block, revisions>>

\* append_revision: SELECT ... FOR UPDATE.  (NoLock: a plain SELECT.)
NoLock   == TRUE
Unlocked == locked = NoId

LockBlock(c) ==
    /\ Asks(c, "append") /\ block.current # 0
    /\ Unlocked
    /\ locked' = c
    /\ call' = [call EXCEPT ![c].pc = "locked", ![c].seen = block.current]
    /\ UNCHANGED <<Stored, ops, idem, life, block, revisions>>

AppendMissing(c) ==
    /\ Asks(c, "append") /\ block.current = 0
    /\ BlockEnds(c, "not_found") /\ UNCHANGED <<block, revisions>>

\* BlockVersionConflict: the version is not the one the caller has read.
AppendConflict(c) ==
    /\ Reached(c, "locked")
    /\ Req(c).expected \notin {0, call[c].seen}
    /\ BlockEnds(c, "conflict") /\ UNCHANGED <<block, revisions>>

\* The number follows the block's version and every revision there is.
AppendRevision(c) ==
    /\ Reached(c, "locked")
    /\ Req(c).expected \in {0, call[c].seen}
    /\ call' = [call EXCEPT ![c].pc = "flushed", ![c].number = NextNumber]
    /\ UNCHANGED <<Stored, ops, idem, life, BlockState>>

\* The unique index on block and number decides between two writers of a number.
CommitAppend(c) ==
    /\ Reached(c, "flushed") /\ Req(c).kind = "append"
    /\ IF call[c].number \in Numbers
       THEN BlockEnds(c, "failed") /\ UNCHANGED <<block, revisions>>
       ELSE /\ revisions' = revisions \cup
                {[number |-> call[c].number, supersedes |-> call[c].seen, by |-> c]}
            /\ block' = [version |-> call[c].number, current |-> call[c].number]
            /\ BlockEnds(c, "completed")

\* MemoryBlockRevisionRepository.create: a revision beside the chain, without the lock.
ReadMaximum(c) ==
    /\ Asks(c, "create_revision") /\ block.current # 0
    /\ call' = [call EXCEPT ![c].pc = "flushed", ![c].number = NextNumber]
    /\ UNCHANGED <<Stored, ops, idem, life, BlockState>>

CommitRevision(c) ==
    /\ Reached(c, "flushed") /\ Req(c).kind = "create_revision"
    /\ IF call[c].number \in Numbers
       THEN BlockEnds(c, "failed") /\ UNCHANGED revisions
       ELSE /\ revisions' = revisions \cup
                {[number |-> call[c].number, supersedes |-> 0, by |-> c]}
            /\ BlockEnds(c, "completed")
    /\ UNCHANGED block

-----------------------------------------------------------------------------
Observe(c) ==
    ObserveReplayed(c) \/ ObserveConflict(c) \/ ObserveStart(c) \/ Orchestrate(c)
    \/ CommitObserve(c) \/ ObserveAnswered(c) \/ ObserveFails(c) \/ Unexpected(c)

Other(c) ==
    Recall(c) \/ BuildContext(c) \/ SearchGraph(c) \/ Explain(c) \/ ReadFails(c) \/ Correct(c)
    \/ ProposeBlockUpdate(c) \/ GetOperation(c)

Block(c) ==
    CreateBlock(c) \/ LockBlock(c) \/ AppendMissing(c) \/ AppendConflict(c)
    \/ AppendRevision(c) \/ CommitAppend(c) \/ ReadMaximum(c) \/ CommitRevision(c)

KernelNext ==
    \/ \E c \in Calls : Receive(c) \/ RefuseCall(c) \/ Observe(c) \/ Other(c) \/ Block(c)
    \/ Restart

KernelSpec == KernelInit /\ [][KernelNext]_kernelVars

-----------------------------------------------------------------------------
\* A result the kernel has given, or keeps under an operation id or a key, is true of the
\* store: what is accepted is committed with the memories it names, and an observe that
\* reports its failure has left nothing behind.
TrueOfStore(result) ==
    /\ result.status = "accepted" => result.by \in committed /\ result.ids \subseteq memories
    /\ result.status = "failed" => result.by \notin committed
ResultsTrue ==
    /\ \A c \in Done : TrueOfStore(call[c].answer)
    /\ \A u \in Users :
        /\ \A k \in IdempotencyKeys : TrueOfStore(idem[u][k].result)
        /\ \A o \in OpIds : ops[u][o] # NoResult =>
            TrueOfStore(ops[u][o]) /\ Req(ops[u][o].by).user = u /\ OpId(ops[u][o].by) = o

\* Once a key has been answered for, no observe that comes later in the life of the process
\* writes under it: the answer is the first one's or a conflict.
SameKey(c, d) ==
    Req(c).kind = "observe" /\ Req(d).kind = "observe"
    /\ Req(c).user = Req(d).user /\ Req(c).key = Req(d).key
SettledOnce ==
    \A c \in committed : \A d \in call[c].after :
        SameKey(c, d) /\ call[d].life = call[c].life
            => call[d].answer.status \notin {"accepted", "failed"}

\* The tables of the process and the store agree, across retries, failures and restarts.
AnsweredTruly == ResultsTrue /\ SettledOnce

\* The revisions appended to a block are one chain that ends in its current one: none is
\* superseded twice, whoever appends at the same time, and none replaces a version other
\* than the one its writer expected.
Appended == {r \in revisions : Req(r.by).kind # "create_revision"}
RevisionChain ==
    /\ \A r, s \in Appended : r.supersedes = s.supersedes => r = s
    /\ \A r \in Appended : r.supersedes < r.number
    /\ \A r \in Appended : Req(r.by).kind = "append" => Req(r.by).expected \in {0, r.supersedes}
    /\ Appended # {} =>
        \E r \in Appended : /\ r.number = block.current /\ r.number = block.version
                            /\ \A s \in Appended : s.number <= r.number /\ s.supersedes # r.number
=============================================================================
