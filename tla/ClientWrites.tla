---------------------------- MODULE ClientWrites ----------------------------
(***************************************************************************)
(* The writes of the two SDKs: the retries of a request, the durable       *)
(* buffer a write falls back to, and the replays of what it holds.         *)
(*                                                                         *)
(*   clients/python/contexta_client/_http.py     requests, sync and async  *)
(*   clients/python/contexta_client/_buffer.py   a file of lines           *)
(*   clients/python/contexta_client/client.py, async_client.py             *)
(*   clients/typescript/src/http.ts              requests                  *)
(*   clients/typescript/src/buffer.ts            a queue and its copy      *)
(*                                                                         *)
(* A task is a thread or a coroutine of a client; the tasks of Python      *)
(* clients share the file, those of a TypeScript client its queue, and     *)
(* TypeScript clients the copy on the disk, where there is one: "memory"   *)
(* is a TypeScript client that has neither a localStorage nor Node's files. *)
(* A disk takes whatever is written to it.                                 *)
(***************************************************************************)
EXTENDS Integers, Sequences, FiniteSets

CONSTANTS
    Clients, Tasks, ClientOf,   \* who runs which task
    Languages,      \* what a client may be
    WriteKinds,          \* the writes that are made
    MaxRetries,     \* max_retries, maxRetries
    Batch,          \* FLUSH_BATCH_SIZE
    MaxEntries,     \* MAX_ENTRIES, maxSize
    MaxReplays,     \* maxRetries of the TypeScript buffer
    MaxCalls,       \* bound: writes made
    MaxCrashes      \* bound: processes killed and tasks interrupted

ASSUME ClientAssumption ==
    /\ ClientOf \in [Tasks -> Clients]
    /\ Languages \subseteq {"python", "asyncio", "typescript", "memory"}
    /\ WriteKinds \subseteq {"observe", "pin", "unpin", "delete"}
    /\ {MaxRetries, MaxEntries, MaxReplays, Batch} \subseteq Nat

VARIABLES
    language,       \* of each client
    observed,       \* observations of the service: [call, key]
    memory,         \* the one memory that is pinned, unpinned and deleted
    file, old, dead,    \* buffer.jsonl, buffer.jsonl.old and the dead letters
    queue, disk,    \* the queue of a TypeScript client, and the copy
    task,
    numCalls, crashes, \* how many so far
    sent,           \* history: the calls a client has had a 2xx for, in a replay or not
    told            \* history: what the last of these to be answered to its caller asked for

clientVars == <<language, observed, memory, file, old, dead, queue, disk, task, numCalls, crashes, sent,
          told>>

Ids == 1 .. MaxCalls

\* A write: which call, what, how often a replay of it has failed.
Idle ==
    [pc |-> "idle", entry |-> [call |-> 0, kind |-> "none", tries |-> 0], attempt |-> 0,
     replay |-> FALSE, timedOut |-> FALSE, left |-> <<>>, at |-> 1]

ClientInit ==
    /\ language \in [Clients -> Languages]
    /\ observed = {} /\ memory = "plain"
    /\ file = <<>> /\ old = <<>> /\ dead = {}
    /\ queue = [c \in Clients |-> <<>>] /\ disk = <<>>
    /\ task = [t \in Tasks |-> Idle]
    /\ numCalls = 0 /\ crashes = 0
    /\ sent = {} /\ told = "plain"

-----------------------------------------------------------------------------
Is(t, pc)  == task[t].pc = pc
Lang(t)    == language[ClientOf[t]]
Python(t)  == Lang(t) \in {"python", "asyncio"}
EntryOf(t)   == task[t].entry
Queue(t)   == queue[ClientOf[t]]
Members(s) == {s[i] : i \in DOMAIN s}
CallsOf(s) == {e.call : e \in Members(s)}
Rest(s, n) == SubSeq(s, n + 1, Len(s))

Goes(t, changed) == task' = [task EXCEPT ![t] = changed]

Buffers == <<file, old, dead, queue, disk>>
Service == <<observed, memory>>
Told    == <<sent, told>>
Counted == <<language, numCalls, crashes>>

-----------------------------------------------------------------------------
(* the service, as the clients see it *)

\* uuid7, drawn once per call and kept by every repetition.  (KeyOfAttempt: drawn by each.)
KeyOfAttempt(t) == <<EntryOf(t).call, task[t].attempt>>
Key(t)          == <<EntryOf(t).call, 0>>

\* An observation whose key is known is not stored again; a flag is set whenever it is asked.
ObserveCall(t) ==
    IF \E r \in observed : r.key = Key(t) THEN observed
    ELSE observed \cup {[call |-> EntryOf(t).call, key |-> Key(t)]}

\* What is deleted is not found.  A replay is a POST, and no route deletes by one.
Accepts(t) ==
    EntryOf(t).kind # "observe" => memory # "deleted" /\ (EntryOf(t).kind = "delete" => ~task[t].replay)

AskedFor(t) ==
    CASE EntryOf(t).kind = "pin" -> "pinned" [] EntryOf(t).kind = "unpin" -> "plain"
      [] EntryOf(t).kind = "delete" -> "deleted"

\* The service does what it is asked, and has no memory of the keys of flags.
Reaches(t) ==
    /\ Accepts(t)
    /\ IF EntryOf(t).kind = "observe"
       THEN observed' = ObserveCall(t) /\ UNCHANGED memory
       ELSE memory' = AskedFor(t) /\ UNCHANGED observed

\* An answer of 2xx.
Tells(t) ==
    /\ sent' = sent \cup {[call |-> EntryOf(t).call, replay |-> task[t].replay]}
    /\ told' = IF task[t].replay \/ EntryOf(t).kind = "observe" THEN told ELSE AskedFor(t)

-----------------------------------------------------------------------------
(* a call of either client *)

Call(t) ==
    /\ Is(t, "idle") /\ numCalls < MaxCalls
    /\ \E kind \in WriteKinds :
        Goes(t, [Idle EXCEPT !.pc = "sending",
                             !.entry = [call |-> numCalls + 1, kind |-> kind, tries |-> 0]])
    /\ numCalls' = numCalls + 1
    /\ UNCHANGED <<language, crashes, Service, Buffers, Told>>

\* flush() and, in Python, the end of an observe.
Flush(t) ==
    /\ Is(t, "idle")
    /\ IF Python(t) THEN file # <<>> ELSE Queue(t) # <<>>
    /\ Goes(t, [Idle EXCEPT !.pc = IF Python(t) THEN "dequeue" ELSE "drain"])
    /\ UNCHANGED <<Service, Buffers, Told, Counted>>

\* What is left of a batch, or of the calls, once the request has ended.
FlushSize(t)  == IF Lang(t) = "asyncio" THEN 1 ELSE Batch
BatchSize(t)  == IF Len(task[t].left) < FlushSize(t) THEN Len(task[t].left) ELSE FlushSize(t)
Current(t)    == SubSeq(task[t].left, 1, BatchSize(t))

AfterReplay(t, ok) ==
    IF ok /\ task[t].at < BatchSize(t)
    THEN [task[t] EXCEPT !.pc = "replay", !.at = @ + 1]
    ELSE [Idle EXCEPT !.pc = "replay", !.left = Rest(task[t].left, BatchSize(t))]

\* Any exception of a batch makes dead letters of all of it, also of what was sent.
\* (OnlyTheFailed: of the one that failed.)
OnlyTheFailed(t) == {EntryOf(t).call}
DeadLetters(t)   == CallsOf(Current(t))

Succeeds(t) ==
    /\ Is(t, "sending") /\ ~task[t].timedOut
    /\ Reaches(t) /\ Tells(t)
    /\ Goes(t, IF ~Python(t) THEN [Idle EXCEPT !.pc = IF task[t].replay THEN "drain" ELSE "idle"]
               ELSE IF task[t].replay THEN AfterReplay(t, TRUE)
               ELSE [Idle EXCEPT !.pc = IF EntryOf(t).kind = "observe" THEN "dequeue" ELSE "idle"])
    /\ UNCHANGED <<Buffers, Counted>>

-----------------------------------------------------------------------------
(* Python: HTTPClient._request and its asynchronous twin *)

Raises(t) ==
    IF task[t].replay
    THEN /\ dead' = dead \cup DeadLetters(t)
         /\ Goes(t, AfterReplay(t, FALSE))
    ELSE Goes(t, Idle) /\ UNCHANGED dead

\* 4xx, and the errors of the network that no clause names: raised at once, the latter perhaps
\* of what was served.
RefusedWrite(t) ==
    /\ Is(t, "sending") /\ Python(t)
    /\ Reaches(t) \/ UNCHANGED Service
    /\ Raises(t)
    /\ UNCHANGED <<file, old, queue, disk, Told, Counted>>

\* 429 and 5xx: tried again, never buffered.  A 5xx may follow a commit.
Busy(t) ==
    /\ Is(t, "sending") /\ Python(t)
    /\ Reaches(t) \/ UNCHANGED Service
    /\ IF task[t].attempt < MaxRetries
       THEN Goes(t, [task[t] EXCEPT !.attempt = @ + 1]) /\ UNCHANGED dead
       ELSE Raises(t)
    /\ UNCHANGED <<file, old, queue, disk, Told, Counted>>

\* The network fails, before or after the request is served: a write is buffered for every
\* attempt but the last, and tried again all the same.
Breaks(t) ==
    /\ Is(t, "sending") /\ Python(t)
    /\ Reaches(t) \/ UNCHANGED Service
    /\ IF task[t].attempt = MaxRetries THEN Raises(t)
       ELSE /\ Goes(t, IF task[t].replay THEN [task[t] EXCEPT !.attempt = @ + 1]
                       ELSE [task[t] EXCEPT !.pc = "rotate"])
            /\ UNCHANGED dead
    /\ UNCHANGED <<file, old, queue, disk, Told, Counted>>

-----------------------------------------------------------------------------
(* Python: DurableBuffer *)

\* A file that is found too long takes the place of the older one, whatever it holds by then.
Rotates == Len(file) > MaxEntries
RotateIfNeeded(t) ==
    /\ Is(t, "rotate")
    /\ Goes(t, [task[t] EXCEPT !.pc = IF Rotates THEN "rename" ELSE "append"])
    /\ UNCHANGED <<Service, Buffers, Told, Counted>>

Rename(t) ==
    /\ Is(t, "rename")
    /\ old' = file /\ file' = <<>>
    /\ Goes(t, [task[t] EXCEPT !.pc = "append"])
    /\ UNCHANGED <<Service, dead, queue, disk, Told, Counted>>

Enqueue(t) ==
    /\ Is(t, "append")
    /\ file' = Append(file, EntryOf(t))
    /\ Goes(t, [task[t] EXCEPT !.pc = "sending", !.attempt = @ + 1])
    /\ UNCHANGED <<Service, old, dead, queue, disk, Told, Counted>>

\* dequeue_all reads the file, and then removes it, whatever it holds by then.
DequeueRead(t) ==
    /\ Is(t, "dequeue")
    /\ Goes(t, IF file = <<>> THEN Idle ELSE [Idle EXCEPT !.pc = "unlink", !.left = file])
    /\ UNCHANGED <<Service, Buffers, Told, Counted>>

DequeueUnlink(t) ==
    /\ Is(t, "unlink")
    /\ file' = <<>>
    /\ Goes(t, [task[t] EXCEPT !.pc = "replay"])
    /\ UNCHANGED <<Service, old, dead, queue, disk, Told, Counted>>

\* The next of the batch is sent, as what is not a write: never buffered again.
Replay(t) ==
    /\ Is(t, "replay")
    /\ Goes(t, IF task[t].left = <<>> THEN Idle
               ELSE [task[t] EXCEPT !.pc = "sending", !.attempt = 0, !.replay = TRUE,
                                    !.entry = task[t].left[task[t].at]])
    /\ UNCHANGED <<Service, Buffers, Told, Counted>>

-----------------------------------------------------------------------------
(* TypeScript: HttpClient.request and DurableBuffer *)

SetQueue(t, q) == queue' = [queue EXCEPT ![ClientOf[t]] = q]
Persist(t, q)  == disk' = IF Lang(t) = "memory" THEN disk ELSE q

\* Dead letters are written where there is a disk, and dropped elsewhere.
Bury(t, calls) == dead' = IF Lang(t) = "memory" THEN dead ELSE dead \cup calls

\* Whatever is not 2xx is thrown at once.
RefusedTs(t) ==
    /\ Is(t, "sending") /\ ~Python(t) /\ ~task[t].replay /\ ~task[t].timedOut
    /\ Reaches(t) \/ UNCHANGED Service
    /\ Goes(t, Idle)
    /\ UNCHANGED <<Buffers, Told, Counted>>

\* The oldest make room for the newest.
Overflow(q) == IF Len(q) > MaxEntries THEN Len(q) - MaxEntries ELSE 0
Push(t, entry) ==
    LET q == Append(Queue(t), entry)
        kept == Rest(q, Overflow(q))
    IN  /\ SetQueue(t, kept) /\ Persist(t, kept)
        /\ Bury(t, CallsOf(SubSeq(q, 1, Overflow(q))))

\* The network fails: buffered after every attempt.  The one deadline of a call is shared by
\* its attempts, so that what follows a timeout times out before it is sent.
BreaksTs(t) ==
    /\ Is(t, "sending") /\ ~Python(t) /\ ~task[t].replay
    /\ \/ UNCHANGED Service
       \/ ~task[t].timedOut /\ Reaches(t)
    /\ Push(t, EntryOf(t))
    /\ \E timeout \in {TRUE, task[t].timedOut} :
        Goes(t, IF task[t].attempt = MaxRetries THEN Idle
                ELSE [task[t] EXCEPT !.attempt = @ + 1, !.timedOut = timeout])
    /\ UNCHANGED <<file, old, Told, Counted>>

\* drain takes the first entry off the queue, not off the disk ...
Drain(t) ==
    /\ Is(t, "drain")
    /\ IF Queue(t) = <<>>
       THEN Persist(t, <<>>) /\ Goes(t, Idle) /\ UNCHANGED queue
       ELSE /\ SetQueue(t, Tail(Queue(t)))
            /\ Goes(t, [Idle EXCEPT !.pc = "sending", !.replay = TRUE, !.entry = Head(Queue(t))])
            /\ UNCHANGED disk
    /\ UNCHANGED <<Service, file, old, dead, Told, Counted>>

\* ... and puts it back at the end when sending it fails, five times at most.
Requeue(t) ==
    /\ Is(t, "sending") /\ ~Python(t) /\ task[t].replay
    /\ Reaches(t) \/ UNCHANGED Service
    /\ LET failed == [EntryOf(t) EXCEPT !.tries = @ + 1]
           q == Append(Queue(t), failed)
       IN  IF failed.tries >= MaxReplays
           THEN Bury(t, {failed.call}) /\ UNCHANGED <<queue, disk>>
           ELSE SetQueue(t, q) /\ Persist(t, q) /\ UNCHANGED dead
    /\ Goes(t, [Idle EXCEPT !.pc = "drain"])
    /\ UNCHANGED <<file, old, Told, Counted>>

-----------------------------------------------------------------------------
\* A process dies and is started again; the TypeScript buffer is loaded from the disk.
Crash(c) ==
    /\ crashes < MaxCrashes
    /\ task' = [t \in Tasks |-> IF ClientOf[t] = c THEN Idle ELSE task[t]]
    /\ queue' = [queue EXCEPT ![c] = IF language[c] = "typescript" THEN disk ELSE <<>>]
    /\ crashes' = crashes + 1
    /\ UNCHANGED <<language, numCalls, Service, file, old, dead, disk, Told>>

\* A task of Python is cancelled or interrupted by the keyboard: neither is an Exception, so that
\* nothing puts back what a flush had taken, though its process lives.
Interrupt(t) ==
    /\ crashes < MaxCrashes
    /\ Python(t) /\ ~Is(t, "idle")
    /\ (Is(t, "sending") /\ Reaches(t)) \/ UNCHANGED Service
    /\ Goes(t, Idle)
    /\ crashes' = crashes + 1
    /\ UNCHANGED <<language, numCalls, Buffers, Told>>

TaskStep(t) ==
    \/ Call(t) \/ Flush(t) \/ Succeeds(t)
    \/ RefusedWrite(t) \/ Busy(t) \/ Breaks(t)
    \/ RotateIfNeeded(t) \/ Rename(t) \/ Enqueue(t) \/ DequeueRead(t) \/ DequeueUnlink(t) \/ Replay(t)
    \/ RefusedTs(t) \/ BreaksTs(t) \/ Drain(t) \/ Requeue(t) \/ Interrupt(t)

ClientNext == (\E t \in Tasks : TaskStep(t)) \/ (\E c \in Clients : Crash(c))

ClientSpec == ClientInit /\ [][ClientNext]_clientVars

-----------------------------------------------------------------------------
\* However often a call is tried, buffered and replayed, and by whom, what it observes is
\* stored once.
StoredOnce ==
    \A call \in Ids : Cardinality({r \in observed : r.call = call}) <= 1

\* What a client has put aside: on the disk, in a queue, or in the hands of a flush.
InHand(t) ==
    CallsOf(task[t].left) \cup (IF task[t].replay THEN {EntryOf(t).call} ELSE {})
Kept ==
    dead \cup CallsOf(file) \cup CallsOf(old) \cup CallsOf(disk)
        \cup (UNION {CallsOf(queue[c]) : c \in Clients}) \cup (UNION {InHand(t) : t \in Tasks})

\* What a step drops though the service has not answered it.
Lost == (Kept \ Kept') \ {s.call : s \in sent'}

\* What a client holds outside its files, and the dead letters of a queue.
Held(c) == CallsOf(queue[c]) \cup UNION {InHand(t) : t \in {u \in Tasks : ClientOf[u] = c}}
GivenUp(t) ==
    LET q == Append(Queue(t), EntryOf(t))
    IN  IF ~task[t].replay THEN CallsOf(SubSeq(q, 1, Overflow(q)))
        ELSE {e.call : e \in {f \in {EntryOf(t)} : f.tries + 1 >= MaxReplays}}

SentOrLost ==
    \/ Lost = {}
    \/ \E c \in Clients : crashes' # crashes /\ Lost \subseteq Held(c)
    \/ \E t \in Tasks : Is(t, "unlink") /\ Lost \subseteq CallsOf(file) \ CallsOf(task[t].left)
    \/ \E t \in Tasks : Is(t, "rename") /\ Lost \subseteq CallsOf(old)
    \/ \E t \in Tasks : Is(t, "sending") /\ Lang(t) = "memory" /\ Lost \subseteq GivenUp(t)

\* A write that was put aside stays somewhere until the service has answered it, except for what a
\* process that dies or a flush that is interrupted held, lines appended between the read and the
\* unlink of the file, the older file when it is rotated over, and what a queue that has no disk
\* gives up (of which buffer.ts:110-113 says that nothing is silently lost).  Partial batches, requeues,
\* overflows and concurrent flushes lose nothing else, as long as the disk takes what is written.
KeptUntilSent == [][SentOrLost]_clientVars

\* "Every write carries an Idempotency-Key": a repetition of it changes nothing.  When no
\* client has anything to do and every call has been answered, a memory is as its user was
\* last told.
LastWriteStands ==
    /\ \A t \in Tasks : Is(t, "idle")
    /\ \A id \in 1 .. numCalls : [call |-> id, replay |-> FALSE] \in sent
    => memory = told
=============================================================================
