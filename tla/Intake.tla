------------------------------- MODULE Intake -------------------------------
(***************************************************************************)
(* The intake of observations: POST /observations and /observations/batch. *)
(*                                                                         *)
(* A request handles its items one after the other, each in a savepoint of *)
(* the request's one transaction: the observation is inserted under its    *)
(* idempotency key, then its source turns and its outbox event.  An item   *)
(* whose key is stored is a replay or a conflict.  The transaction is      *)
(* committed before the answer is sent.                                    *)
(*                                                                         *)
(*   contexta/api/routes/observations.py       ingest_observation, _batch  *)
(*   contexta/repositories/ingestion_repo.py   insert_idempotently,        *)
(*                                  insert_source_turns, enqueue           *)
(*                                                                         *)
(* An insert meets a key that another transaction has inserted and not     *)
(* committed: it waits.  A single observation is a batch of one.  An item  *)
(* without a key is given one of its own and is left out.                  *)
(***************************************************************************)
EXTENDS Integers, Sequences

CONSTANTS
    Requests,       \* requests, retries of a request included
    Keys,           \* idempotency keys
    Contents,       \* what the caller sends
    Sessionless,    \* the contents that name no session
    Batches,        \* the sequences of items a request may carry
    NoRequest       \* the session is the caller's own

Item   == [key : Keys, content : Contents]
Hashes == Contents \X (Requests \cup {NoRequest})
Rows   == [key : Keys, hash : Hashes]
Codes  == {"accepted", "conflict", "error"}

ASSUME BatchesAssumption == Batches \subseteq Seq(Item) \ {<<>>}

\* Each item without a session is given one of its own.  A batch that holds such a content
\* twice is left out, so that the request tells the sessions apart.
ASSUME SessionlessOnce ==
    \A s \in Batches : \A m, n \in DOMAIN s :
        s[m].content = s[n].content /\ s[m].content \in Sessionless => m = n

Answers == [key : Keys, content : Contents, hash : Hashes, code : Codes]

VARIABLES
    stored,     \* committed observations
    req,        \* the requests
    answers     \* history: the answers given, item by item

intakeVars == <<stored, req, answers>>

\* codes     the outcome of the items handled so far
\* mine      observations inserted and not committed
\* open      the current item's observation is inserted, its turns and event are not
IntakeTypeOK ==
    /\ stored \subseteq Rows
    /\ req \in [Requests -> [pc : {"none", "busy", "done", "gone"}, items : Batches \cup {<<>>},
                             codes : Seq(Codes), mine : SUBSET Rows, open : BOOLEAN]]
    /\ answers \subseteq Answers

IntakeInit ==
    /\ stored = {}
    /\ req = [i \in Requests |-> [pc |-> "none", items |-> <<>>, codes |-> <<>>,
                                  mine |-> {}, open |-> FALSE]]
    /\ answers = {}

-----------------------------------------------------------------------------
\* _request_hash: a request that names no session has been given a fresh one by
\* _apply_authenticated_context, and the session is part of the hash.
\* (HashOfRequest: something of the request always is.)
HashOfRequest(i, c) == <<c, i>>
Hash(i, c) == IF c \in Sessionless THEN <<c, i>> ELSE <<c, NoRequest>>

RowOf(i, item) == [key |-> item.key, hash |-> Hash(i, item.content)]

Handling(i)    == req[i].pc = "busy"
More(i)    == Handling(i) /\ Len(req[i].codes) < Len(req[i].items)
Current(i) == req[i].items[Len(req[i].codes) + 1]

\* What a statement of request i sees, and the requests it would have to wait for.
Visible(i)     == stored \cup req[i].mine
Holding(k)     == {j \in Requests : \E r \in req[j].mine : r.key = k}
WaitsFor(i, j) == More(i) /\ ~req[i].open /\ j \in Holding(Current(i).key) \ {i}
Waits(i)       == \E j \in Requests : WaitsFor(i, j)

Code(i, code, mine) ==
    req' = [req EXCEPT ![i].codes = Append(@, code), ![i].mine = mine, ![i].open = FALSE]

-----------------------------------------------------------------------------
\* The body has been read, validated and redacted.
Arrive(i) ==
    /\ req[i].pc = "none"
    /\ \E items \in Batches : req' = [req EXCEPT ![i].pc = "busy", ![i].items = items]
    /\ UNCHANGED <<stored, answers>>

\* INSERT ... ON CONFLICT DO NOTHING RETURNING: the key is new.
KeyIsNew(i, k) == \A r \in Visible(i) : r.key # k

InsertRow(i) ==
    /\ More(i) /\ ~req[i].open /\ ~Waits(i)
    /\ KeyIsNew(i, Current(i).key)
    /\ req' = [req EXCEPT ![i].mine = @ \cup {RowOf(i, Current(i))}, ![i].open = TRUE]
    /\ UNCHANGED <<stored, answers>>

\* insert_source_turns and enqueue: the item is complete.
FinishItem(i) ==
    /\ More(i) /\ req[i].open
    /\ Code(i, "accepted", req[i].mine)
    /\ UNCHANGED <<stored, answers>>

\* The key is stored with this content; turns and event are found to be there.
SameContent(i, r) == r = RowOf(i, Current(i))

Replay(i) ==
    /\ More(i) /\ ~req[i].open /\ ~Waits(i)
    /\ \E r \in Visible(i) : r.key = Current(i).key /\ SameContent(i, r)
    /\ Code(i, "accepted", req[i].mine)
    /\ UNCHANGED <<stored, answers>>

\* IdempotencyConflictError.
Conflict(i) ==
    /\ More(i) /\ ~req[i].open /\ ~Waits(i)
    /\ \E r \in Visible(i) : r.key = Current(i).key /\ ~SameContent(i, r)
    /\ Code(i, "conflict", req[i].mine)
    /\ UNCHANGED <<stored, answers>>

\* Any other exception is captured: the savepoint is rolled back, the item reported, and
\* the next one handled.  (NoSavepoint: the item shares the request's transaction.)
NoSavepoint(i) == Code(i, "error", req[i].mine)
ItemFails(i) ==
    Code(i, "error", IF req[i].open THEN req[i].mine \ {RowOf(i, Current(i))} ELSE req[i].mine)

ItemError(i) ==
    /\ More(i)
    /\ ItemFails(i)
    /\ UNCHANGED <<stored, answers>>

\* PostgreSQL ends the wait of one request of a cycle, which is an exception like any other.
Deadlocked(i) ==
    \E S \in SUBSET {j \in Requests : Waits(j)} :
        /\ i \in S
        /\ \A a \in S : (\E b \in S : WaitsFor(a, b)) /\ (\E b \in S : WaitsFor(b, a))

DeadlockVictim(i) ==
    /\ Deadlocked(i)
    /\ ItemFails(i)
    /\ UNCHANGED <<stored, answers>>

\* get_db_session commits, and the response is sent: 202, 409 or 503 for one observation,
\* jobs and errors for a batch.
Answer(i, n, code) ==
    [key |-> req[i].items[n].key, content |-> req[i].items[n].content,
     hash |-> Hash(i, req[i].items[n].content), code |-> code]

\* The session is committed or rolled back, and closed.  (SessionLeft: it is left open.)
SessionLeft(i, pc) ==
    req' = [req EXCEPT ![i] = [@ EXCEPT !.pc = pc, !.items = <<>>, !.codes = <<>>, !.open = FALSE]]
Ends(i, pc) ==
    req' = [req EXCEPT ![i] = [@ EXCEPT !.pc = pc, !.items = <<>>, !.codes = <<>>,
                                        !.mine = {}, !.open = FALSE]]

Commit(i) ==
    /\ Handling(i) /\ ~More(i)
    /\ stored' = stored \cup req[i].mine
    /\ answers' = answers \cup {Answer(i, n, req[i].codes[n]) : n \in 1 .. Len(req[i].items)}
    /\ Ends(i, "done")

\* The commit is durable and the answer never arrives: the caller will send again what is
\* already stored.
AnswerLost(i) ==
    /\ Handling(i) /\ ~More(i)
    /\ stored' = stored \cup req[i].mine
    /\ Ends(i, "gone")
    /\ UNCHANGED answers

\* The commit fails: everything is rolled back, the answer is a 500.
\* (AnswerFirst: the response is sent whatever becomes of the commit.)
AnswerFirst(i, n) == req[i].codes[n]
FailedCode(i, n)  == "error"
CommitFails(i) ==
    /\ Handling(i) /\ ~More(i)
    /\ answers' = answers \cup {Answer(i, n, FailedCode(i, n)) : n \in 1 .. Len(req[i].items)}
    /\ Ends(i, "done")
    /\ UNCHANGED stored

\* The server dies, or the connection to the database: no answer.
ServerDies(i) ==
    /\ Handling(i)
    /\ Ends(i, "gone")
    /\ UNCHANGED <<stored, answers>>

-----------------------------------------------------------------------------
Progress(i) ==
    InsertRow(i) \/ FinishItem(i) \/ Replay(i) \/ Conflict(i) \/ DeadlockVictim(i) \/ Commit(i)

IntakeNext ==
    \E i \in Requests :
        Arrive(i) \/ Progress(i) \/ ItemError(i) \/ CommitFails(i) \/ AnswerLost(i) \/ ServerDies(i)

IntakeSpec     == IntakeInit /\ [][IntakeNext]_intakeVars
\* The server goes on with a request; nothing says that statements fail.
IntakeFairSpec == IntakeSpec /\ \A i \in Requests : WF_intakeVars(Progress(i))

-----------------------------------------------------------------------------
\* The routes implement the abstract store: rows that several requests insert, roll back
\* and commit concurrently look like a store that only grows, has one content per key and
\* is answered for truthfully.
Store == INSTANCE IdempotentStore
StoreSpec == Store!StoreSpec

\* A request commits the observations it reports as accepted and no others: what failed
\* in a batch is not stored behind the caller's back.
Accepted(i) == {n \in 1 .. Len(req[i].codes) : req[i].codes[n] = "accepted"}
MineAccounted ==
    \A i \in Requests :
        req[i].mine = ({RowOf(i, req[i].items[n]) : n \in Accepted(i)} \ stored)
                      \cup (IF req[i].open THEN {RowOf(i, Current(i))} ELSE {})

\* Every request that reaches the server is answered, whatever keys concurrent batches
\* share and in whatever order.
AllAnswered == \A i \in Requests : Handling(i) ~> req[i].pc \in {"done", "gone"}

\* A content that names its session, once it is accepted under a key, is no conflict when it is
\* sent again: whichever request inserts it, whichever waits for it, and whatever becomes of the
\* other items of either.
ReplayAccepted ==
    \A x, y \in answers :
        x.key = y.key /\ x.content = y.content /\ x.content \notin Sessionless /\ x.code = "accepted"
            => y.code # "conflict"

-----------------------------------------------------------------------------
\* What the documentation says and the code does not do.  "Replaying identical content returns
\* the existing observation", whatever it is: but the session that is drawn for a content without
\* one is hashed with it, and the caller's own retry conflicts with what he has stored.
IdenticalReplayed ==
    \A x, y \in answers :
        x.key = y.key /\ x.content = y.content /\ x.code = "accepted" => y.code # "conflict"
=============================================================================
