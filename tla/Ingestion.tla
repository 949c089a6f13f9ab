----------------------------- MODULE Ingestion -----------------------------
(***************************************************************************)
(* The durable ingestion outbox of Contexta.                               *)
(*                                                                         *)
(* An accepted observation is a row of ingestion_observation together with *)
(* one row of ingestion_outbox_event.  A dispatcher leases due events and  *)
(* hands them to the extraction queue; Celery consumers claim the          *)
(* observation, run the memory pipeline under a lease, and settle the      *)
(* attempt and the event, each in a transaction of its own.                *)
(*                                                                         *)
(*   contexta/repositories/ingestion_repo.py   rows, leases, settlement    *)
(*   contexta/workers/outbox_tasks.py          dispatcher                  *)
(*   contexta/workers/extraction_tasks.py      consumer                    *)
(*   contexta/api/routes/observations.py       acceptance                  *)
(*                                                                         *)
(* One action is one committed database transaction, one broker call, one  *)
(* failure of these, the death of a consumer, or the passing of time.      *)
(***************************************************************************)
EXTENDS Integers, Sequences, FiniteSets

CONSTANTS
    Obs,          \* observations clients may submit
    Workers,      \* Celery consumers of the extraction queue
    NumTokens,    \* event lease tokens (uuid4) that can be told apart
    MaxAttempts,  \* DEFAULT_DURABLE_MAX_ATTEMPTS
    MaxRetries,   \* max_retries of process_observation_outbox
    MaxInFlight,  \* bound: messages claimed, queued or being consumed
    Lease,        \* lease_seconds, in ticks
    RetryDelay,   \* DEFAULT_DURABLE_RETRY_DELAY_SECONDS, in ticks
    Faults        \* what may go wrong (a subset of FaultKinds)

\* pipeline  the extraction pipeline raises
\* embed     enqueue_embedding_generation raises (broker down)
\* publish   process_observation_outbox.delay raises, or the dispatcher dies
\* db        a database transaction raises and is rolled back
\* crash     a consumer process is killed
\* slow      time passes while messages are queued or consumed
FaultKinds == {"pipeline", "embed", "publish", "db", "crash", "slow"}

ASSUME NumTokensAssumption   == NumTokens \in Nat
ASSUME MaxAttemptsAssumption == MaxAttempts \in Nat \ {0}
ASSUME MaxRetriesAssumption  == MaxRetries \in Nat
ASSUME MaxInFlightAssumption == MaxInFlight \in Nat
ASSUME LeaseAssumption       == Lease \in Nat \ {0}     \* _normalize_lease
ASSUME RetryDelayAssumption  == RetryDelay \in Nat
ASSUME FaultsAssumption      == Faults \subseteq FaultKinds

VARIABLES
    obs,          \* ingestion_observation rows
    attempts,     \* ingestion_attempt rows: attempts[o][n] is attempt number n
    deadLetters,  \* observations that have an ingestion_dead_letter row
    event,        \* the ingestion_outbox_event row of each observation
    claimed,      \* messages of events a dispatcher has leased, not yet published
    queue,        \* the extraction queue of the broker
    worker,       \* the consumers
    embeds        \* <<o, n>>: embedding tasks enqueued for attempt n of o

vars == <<obs, attempts, deadLetters, event, claimed, queue, worker, embeds>>
rows == <<obs, attempts, deadLetters, event>>

-----------------------------------------------------------------------------
(***************************************************************************)
(* Types.  A lease or a delay is the number of ticks left: lease_until <=  *)
(* now is lease = 0, next_attempt_at <= now (or NULL) is delay = 0.  The   *)
(* lease token of an attempt is its number: both are unique to the row.    *)
(* The attempt_count of an event is only ever compared with max_attempts,  *)
(* so it stops counting there.                                             *)
(***************************************************************************)
ObsStatus     == {"absent", "pending", "processing", "retrying", "completed", "dead_letter"}
AttemptStatus == {"processing", "completed", "failed"}
EventStatus   == {"absent", "pending", "claimed", "failed", "published", "dead_letter"}
PCs           == {"idle", "claim", "pipeline", "embed", "publish", "fail", "failEvent", "release"}

NoToken == 0
Tokens  == 1 .. NumTokens
NoMsg   == [obs |-> "none", tok |-> NoToken, tries |-> 0]
Msgs    == [obs : Obs, tok : Tokens, tries : 0 .. MaxRetries]

ObsRow   == [status : ObsStatus, attempts : Nat, token : Nat, lease : Nat, delay : Nat]
EventRow == [status : EventStatus, attempts : 0 .. MaxAttempts,
             token : Tokens \cup {NoToken}, lease : Nat, delay : Nat]
Consumer == [pc : PCs, msg : Msgs \cup {NoMsg}, att : Nat, tok : Tokens \cup {NoToken}]

Idle == [pc |-> "idle", msg |-> NoMsg, att |-> 0, tok |-> NoToken]

TypeOK ==
    /\ obs \in [Obs -> ObsRow]
    /\ attempts \in [Obs -> Seq(AttemptStatus)]
    /\ deadLetters \in SUBSET Obs
    /\ event \in [Obs -> EventRow]
    /\ claimed \in SUBSET Msgs
    /\ queue \in SUBSET Msgs
    /\ worker \in [Workers -> Consumer]
    /\ embeds \in SUBSET (Obs \X Nat)

Init ==
    /\ obs = [o \in Obs |-> [status |-> "absent", attempts |-> 0, token |-> 0,
                             lease |-> 0, delay |-> 0]]
    /\ attempts = [o \in Obs |-> <<>>]
    /\ deadLetters = {}
    /\ event = [o \in Obs |-> [status |-> "absent", attempts |-> 0, token |-> NoToken,
                               lease |-> 0, delay |-> 0]]
    /\ claimed = {}
    /\ queue = {}
    /\ worker = [w \in Workers |-> Idle]
    /\ embeds = {}

-----------------------------------------------------------------------------
(***************************************************************************)
(* Shared predicates                                                       *)
(***************************************************************************)
\* The WHERE clause of IngestionObservationRepository.claim.
Claimable(o) ==
    /\ obs[o].status \in {"pending", "retrying", "processing"}
    /\ obs[o].delay = 0
    /\ obs[o].lease = 0

\* max_attempts reached.  (SpentLate, SpentEarly: off by one.)
SpentLate(o)  == obs[o].attempts > MaxAttempts
SpentEarly(o) == obs[o].attempts + 1 >= MaxAttempts
Spent(o)      == obs[o].attempts >= MaxAttempts

\* MAX(attempt_number) + 1.  (ReusedNumber: the maximum itself.)
ReusedNumber(o)  == IF Len(attempts[o]) = 0 THEN 1 ELSE Len(attempts[o])
AttemptNumber(o) == Len(attempts[o]) + 1

\* The observation row once its lease is given up.  (KeepsLease: the lease columns are
\* not reset.)
KeepsLease(row, status, delay) == [row EXCEPT !.status = status, !.delay = delay]
Unleased(row, status, delay) ==
    [row EXCEPT !.status = status, !.token = 0, !.lease = 0, !.delay = delay]

\* The WHERE clause of claim_pending, mirrored by _pending_organization_ids_async.
\* (DispatchableOnce: failed events are not looked at again.)
DispatchableOnce(o) ==
    /\ event[o].status \in {"pending", "claimed"}
    /\ event[o].delay = 0
    /\ event[o].lease = 0

Dispatchable(o) ==
    /\ event[o].status \in {"pending", "failed", "claimed"}
    /\ event[o].delay = 0
    /\ event[o].lease = 0

At(w, pc) == worker[w].pc = pc
ObsOf(w)  == worker[w].msg.obs
Busy(w)   == worker[w].pc # "idle"

\* SKIP LOCKED: another transaction may hold the row when this one looks for it.
\* It does so only while it is the next step of some other consumer (or of the
\* dispatcher) to lock that row; the lock is gone once that step is taken.
ObsRowBusy(w) ==
    \E v \in Workers \ {w} :
        /\ Busy(v)
        /\ ObsOf(v) = ObsOf(w)
        /\ \/ worker[v].pc \in {"pipeline", "fail", "release"}
           \/ At(v, "claim") /\ Claimable(ObsOf(w))

EventRowBusy(w) ==
    \/ Dispatchable(ObsOf(w))
    \/ \E v \in Workers \ {w} :
           /\ Busy(v)
           /\ ObsOf(v) = ObsOf(w)
           /\ worker[v].pc \in {"claim", "publish", "failEvent"}

\* uuid4: a token nobody else remembers.  One representative is enough.
TokensInUse ==
    {event[o].token : o \in Obs} \cup {m.tok : m \in claimed \cup queue}
        \cup {worker[w].tok : w \in Workers} \cup {worker[w].msg.tok : w \in Workers}
FreshTokens ==
    LET free == Tokens \ TokensInUse IN {t \in free : \A u \in free : t <= u}

Bump(n) == IF n < MaxAttempts THEN n + 1 ELSE n

LeasedEvent(e, t) ==
    [e EXCEPT !.status = "claimed", !.attempts = Bump(@), !.token = t, !.lease = Lease]
DeadEvent(e) ==
    [e EXCEPT !.status = "dead_letter", !.token = NoToken, !.lease = 0]

Goto(w, pc) == worker' = [worker EXCEPT ![w].pc = pc]
Ack(w)      == worker' = [worker EXCEPT ![w] = Idle]

-----------------------------------------------------------------------------
(***************************************************************************)
(* Acceptance and dispatch                                                 *)
(***************************************************************************)
\* POST /v1/observations: the observation, its turns and its event commit together.
\* A replay of the same Idempotency-Key finds both rows and changes nothing.
Accept(o) ==
    /\ obs[o].status = "absent"
    /\ obs' = [obs EXCEPT ![o].status = "pending"]
    /\ event' = [event EXCEPT ![o].status = "pending"]
    /\ UNCHANGED <<attempts, deadLetters, claimed, queue, worker, embeds>>

\* claim_pending leases an event in a transaction of its own.  The batch it leases is
\* a sequence of these steps: the rows are independent of each other.
DispatchClaim(o) ==
    /\ Dispatchable(o)
    /\ Cardinality(claimed) + Cardinality(queue) + Cardinality({w \in Workers : Busy(w)})
           < MaxInFlight
    /\ \E t \in FreshTokens :
           /\ event' = [event EXCEPT ![o] = LeasedEvent(@, t)]
           /\ claimed' = claimed \cup {[obs |-> o, tok |-> t, tries |-> 0]}
    /\ UNCHANGED <<obs, attempts, deadLetters, queue, worker, embeds>>

\* _publish_claimed_events: process_observation_outbox.delay(...)
Publish(m) ==
    /\ m \in claimed
    /\ claimed' = claimed \ {m}
    /\ queue' = queue \cup {m}
    /\ UNCHANGED <<rows, worker, embeds>>

\* The delay() raises and the loop continues, or the dispatcher dies before it:
\* the event keeps its lease either way.
PublishFailed(m) ==
    /\ "publish" \in Faults
    /\ m \in claimed
    /\ claimed' = claimed \ {m}
    /\ UNCHANGED <<rows, queue, worker, embeds>>

-----------------------------------------------------------------------------
(***************************************************************************)
(* The consumer: process_observation_outbox                                *)
(***************************************************************************)
Take(w, m) ==
    /\ At(w, "idle")
    /\ m \in queue
    /\ queue' = queue \ {m}
    /\ worker' = [worker EXCEPT ![w] = [pc |-> "claim", msg |-> m, att |-> 0, tok |-> NoToken]]
    /\ UNCHANGED <<rows, claimed, embeds>>

\* What _find_outbox_event and claim_event leave in the event row, with the lease token
\* they return: a published event is not claimed, a locked one is not found, a live
\* lease is left to its owner, a spent event is dead-lettered, any other is leased.
ClaimedEvents(w) ==
    LET e == event[ObsOf(w)] IN
    IF e.status = "published" THEN {<<e, e.token>>}
    ELSE (IF EventRowBusy(w) THEN {<<e, NoToken>>} ELSE {}) \cup
         (IF e.status = "claimed" /\ e.lease > 0 THEN {<<e, e.token>>}
          ELSE IF e.attempts >= MaxAttempts THEN {<<DeadEvent(e), NoToken>>}
          ELSE {<<LeasedEvent(e, t), t>> : t \in FreshTokens})

\* _claim_durable_observation with an attempt: the observation is leased, the attempt
\* row inserted and the event claimed in one transaction.
Claim(w) ==
    /\ At(w, "claim")
    /\ Claimable(ObsOf(w))
    /\ ~Spent(ObsOf(w))
    /\ LET o == ObsOf(w)
           n == AttemptNumber(o)
       IN /\ obs' = [obs EXCEPT ![o] =
                        [status |-> "processing",
                         attempts |-> IF @.attempts < n THEN n ELSE @.attempts,
                         token |-> n, lease |-> Lease, delay |-> 0]]
          /\ attempts' = [attempts EXCEPT ![o] = Append(@, "processing")]
          /\ \E c \in ClaimedEvents(w) :
                /\ event' = [event EXCEPT ![o] = c[1]]
                /\ worker' = [worker EXCEPT ![w] =
                                 [pc |-> "pipeline", msg |-> @.msg, att |-> n,
                                  tok |-> IF c[2] # NoToken THEN c[2] ELSE @.msg.tok]]
    /\ UNCHANGED <<deadLetters, claimed, queue, embeds>>

\* A skipped claim publishes the event of an observation that is already completed.
\* (SkipAlwaysPublishes, SkipNeverPublishes: the test of the status is wrong.)
SkipAlwaysPublishes(o) == obs[o].status # "pending"
SkipNeverPublishes(o)  == FALSE
SkipPublishes(o)       == obs[o].status = "completed"

\* _claim_durable_observation without one (not claimable, attempts spent, or the row is
\* locked): the event is claimed all the same.  The message is dropped unless the
\* observation is completed, whose event is still to be published.
ClaimSkipped(w) ==
    /\ At(w, "claim")
    /\ \/ ~Claimable(ObsOf(w))
       \/ Spent(ObsOf(w))
       \/ ObsRowBusy(w)
    /\ \E c \in ClaimedEvents(w) :
          /\ event' = [event EXCEPT ![ObsOf(w)] = c[1]]
          /\ worker' = [worker EXCEPT ![w] =
                           IF SkipPublishes(ObsOf(w))
                           THEN [@ EXCEPT !.pc = "publish", !.tok = c[2]]
                           ELSE Idle]
    /\ UNCHANGED <<obs, attempts, deadLetters, claimed, queue, embeds>>

\* The pipeline's memories and complete_attempt commit together.  The token and owner it
\* checks are those of the attempt's own row; the observation row is skipped if locked.
CompleteAttempt(w) ==
    /\ At(w, "pipeline")
    /\ attempts' = [attempts EXCEPT ![ObsOf(w)][worker[w].att] = "completed"]
    /\ \/ obs' = [obs EXCEPT ![ObsOf(w)] = Unleased(@, "completed", @.delay)]
       \/ ObsRowBusy(w) /\ UNCHANGED obs
    /\ Goto(w, "embed")
    /\ UNCHANGED <<deadLetters, event, claimed, queue, embeds>>

PipelineFailed(w) ==
    /\ "pipeline" \in Faults
    /\ At(w, "pipeline")
    /\ Goto(w, "fail")
    /\ UNCHANGED <<rows, claimed, queue, embeds>>

\* enqueue_embedding_generation for the memories of the committed attempt.
\* (EnqueueBeforeCommit: from inside the pipeline's transaction.)
EnqueueBeforeCommit(w) ==
    /\ worker[w].pc \in {"pipeline", "embed"}
    /\ embeds' = embeds \cup {<<ObsOf(w), worker[w].att>>}
    /\ Goto(w, IF At(w, "embed") THEN "publish" ELSE "pipeline")
    /\ UNCHANGED <<rows, claimed, queue>>

EnqueueEmbeddings(w) ==
    /\ At(w, "embed")
    /\ embeds' = embeds \cup {<<ObsOf(w), worker[w].att>>}
    /\ Goto(w, "publish")
    /\ UNCHANGED <<rows, claimed, queue>>

\* Its exception is caught with the pipeline's, after the commit.
EnqueueFailed(w) ==
    /\ "embed" \in Faults
    /\ At(w, "embed")
    /\ Goto(w, "fail")
    /\ UNCHANGED <<rows, claimed, queue, embeds>>

\* mark_published: nothing happens to a locked row, under a token that is no longer the
\* event's (no token is no check), or unless the event is claimed.
MarkPublished(w) ==
    /\ At(w, "publish")
    /\ LET o == ObsOf(w) IN
       \/ /\ worker[w].tok \in {NoToken, event[o].token}
          /\ event[o].status = "claimed"
          /\ event' = [event EXCEPT ![o].status = "published", ![o].token = NoToken,
                                    ![o].lease = 0]
       \/ /\ \/ EventRowBusy(w)
             \/ worker[w].tok \notin {NoToken, event[o].token}
             \/ event[o].status # "claimed"
          /\ UNCHANGED event
    /\ Ack(w)
    /\ UNCHANGED <<obs, attempts, deadLetters, claimed, queue, embeds>>

\* fail_attempt returns at once if the attempt is completed.  (NeverCompleted: it does
\* not ask.)
NeverCompleted(w)    == FALSE
AlreadyCompleted(w)  == attempts[ObsOf(w)][worker[w].att] = "completed"

\* fail_attempt, the first transaction of _record_attempt_failure.
FailAttempt(w) ==
    /\ At(w, "fail")
    /\ LET o == ObsOf(w) IN
       \/ AlreadyCompleted(w) /\ UNCHANGED <<obs, attempts, deadLetters>>
       \/ /\ ~AlreadyCompleted(w)
          /\ attempts' = [attempts EXCEPT ![o][worker[w].att] = "failed"]
          /\ \/ /\ Spent(o)
                /\ obs' = [obs EXCEPT ![o] = Unleased(@, "dead_letter", 0)]
                /\ deadLetters' = deadLetters \cup {o}
             \/ /\ ~Spent(o)
                /\ obs' = [obs EXCEPT ![o] = Unleased(@, "retrying", RetryDelay)]
                /\ UNCHANGED deadLetters
             \/ /\ ObsRowBusy(w)
                /\ UNCHANGED <<obs, deadLetters>>
    /\ Goto(w, "failEvent")
    /\ UNCHANGED <<event, claimed, queue, embeds>>

\* fail_event, the second one; DurableAttemptError then ends the task.
FailEvent(w) ==
    /\ At(w, "failEvent")
    /\ LET o == ObsOf(w) IN
       \/ /\ worker[w].tok \in {NoToken, event[o].token}
          /\ event' = [event EXCEPT ![o] =
                IF @.attempts >= MaxAttempts
                THEN [DeadEvent(@) EXCEPT !.delay = 0]
                ELSE [@ EXCEPT !.status = "failed", !.token = NoToken, !.lease = 0,
                               !.delay = RetryDelay]]
       \/ /\ \/ EventRowBusy(w)
             \/ worker[w].tok \notin {NoToken, event[o].token}
          /\ UNCHANGED event
    /\ Ack(w)
    /\ UNCHANGED <<obs, attempts, deadLetters, claimed, queue, embeds>>

-----------------------------------------------------------------------------
(***************************************************************************)
(* Failures of the infrastructure                                          *)
(***************************************************************************)
\* A transaction outside the pipeline's try block raises and is rolled back.
DbError(w) ==
    /\ "db" \in Faults
    /\ worker[w].pc \in {"claim", "publish", "fail", "failEvent"}
    /\ Goto(w, "release")
    /\ UNCHANGED <<rows, claimed, queue, embeds>>

\* self.retry: the message again, until max_retries.
Retry(w) ==
    /\ queue' = LET m == worker[w].msg IN
                IF m.tries < MaxRetries THEN queue \cup {[m EXCEPT !.tries = @ + 1]} ELSE queue
    /\ Ack(w)

\* _release_claim_after_failure dead-letters an observation whose attempts are spent or
\* that is neither processing nor retrying, and frees any other for a retry.
Release(w) ==
    /\ At(w, "release")
    /\ LET o == ObsOf(w) IN
       \/ /\ Spent(o) \/ obs[o].status \notin {"processing", "retrying"}
          /\ obs' = [obs EXCEPT ![o] = Unleased(@, "dead_letter", 0)]
          /\ Ack(w)
          /\ UNCHANGED queue
       \/ /\ ~Spent(o)
          /\ obs[o].status \in {"processing", "retrying"}
          /\ obs' = [obs EXCEPT ![o] = Unleased(@, "retrying", 0)]
          /\ Retry(w)
    /\ UNCHANGED <<attempts, deadLetters, event, claimed, embeds>>

\* The release itself fails: logged, and the task retried all the same.
ReleaseFailed(w) ==
    /\ "db" \in Faults
    /\ At(w, "release")
    /\ Retry(w)
    /\ UNCHANGED <<rows, claimed, embeds>>

\* task_acks_late and task_reject_on_worker_lost: the message of a killed consumer is
\* queued again.
Crash(w) ==
    /\ "crash" \in Faults
    /\ Busy(w)
    /\ queue' = queue \cup {worker[w].msg}
    /\ Ack(w)
    /\ UNCHANGED <<rows, claimed, embeds>>

Less(n) == IF n > 0 THEN n - 1 ELSE 0

\* One tick of the clock.  Without "slow" the consumers keep up with the clock.
Tick ==
    /\ \E o \in Obs : obs[o].lease + obs[o].delay + event[o].lease + event[o].delay > 0
    /\ \/ "slow" \in Faults
       \/ claimed = {} /\ queue = {} /\ \A w \in Workers : ~Busy(w)
    /\ obs' = [o \in Obs |-> [obs[o] EXCEPT !.lease = Less(@), !.delay = Less(@)]]
    /\ event' = [o \in Obs |-> [event[o] EXCEPT !.lease = Less(@), !.delay = Less(@)]]
    /\ UNCHANGED <<attempts, deadLetters, claimed, queue, worker, embeds>>

-----------------------------------------------------------------------------
ConsumerStep(w) ==
    \/ \E m \in queue : Take(w, m)
    \/ Claim(w) \/ ClaimSkipped(w)
    \/ CompleteAttempt(w) \/ PipelineFailed(w)
    \/ EnqueueEmbeddings(w) \/ EnqueueFailed(w)
    \/ MarkPublished(w)
    \/ FailAttempt(w) \/ FailEvent(w)
    \/ DbError(w) \/ Release(w) \/ ReleaseFailed(w)

DispatcherStep ==
    \/ \E o \in Obs : DispatchClaim(o)
    \/ \E m \in claimed : Publish(m) \/ PublishFailed(m)

Next ==
    \/ \E o \in Obs : Accept(o)
    \/ DispatcherStep
    \/ \E w \in Workers : ConsumerStep(w) \/ Crash(w)
    \/ Tick

Spec == Init /\ [][Next]_vars

\* Celery beat runs the dispatcher every five seconds, a consumer that holds a message
\* goes on with it, and the clock runs.  The broker is not down for ever: of the messages
\* of an event, dispatched again and again, one is published.  Clients need not submit,
\* consumers may or may not be killed.
Fairness ==
    /\ WF_vars(DispatcherStep)
    /\ \A o \in Obs : SF_vars(\E m \in claimed : m.obs = o /\ Publish(m))
    /\ \A w \in Workers : WF_vars(ConsumerStep(w))
    /\ WF_vars(Tick)

FairSpec == Spec /\ Fairness

-----------------------------------------------------------------------------
(***************************************************************************)
(* Properties                                                              *)
(***************************************************************************)
InAttempt(w) == worker[w].pc \in {"pipeline", "embed", "fail", "failEvent"}

Committed(o) == \E n \in 1 .. Len(attempts[o]) : attempts[o][n] = "completed"

\* The attempt budget is never overrun, and the attempt numbers claim() derives from
\* MAX(attempt_number) stay in step with the denormalised attempt_count, whatever the
\* order of claims, late settlements, releases and crashes.
AttemptBudget ==
    \A o \in Obs :
        /\ obs[o].attempts = Len(attempts[o])
        /\ Len(attempts[o]) <= MaxAttempts

\* An observation is in `processing` exactly while it carries a lease token, and that
\* token is the one of its newest attempt: a late settlement never leaves the lease of
\* an older attempt behind.
LeaseIsNewest ==
    \A o \in Obs :
        IF obs[o].status = "processing"
        THEN obs[o].token = Len(attempts[o]) /\ obs[o].token > 0
        ELSE obs[o].token = 0 /\ obs[o].lease = 0

\* Two consumers never run the same attempt, not even when a message is redelivered.
AttemptExclusive ==
    \A v, w \in Workers :
        (v # w /\ InAttempt(v) /\ InAttempt(w) /\ ObsOf(v) = ObsOf(w))
            => worker[v].att # worker[w].att

\* The outbox retires an event as published, and the API reports an observation as
\* completed, only once the memories of one of the observation's attempts are committed:
\* no accepted observation is dropped as done, whatever fails on the way.
SettledIsCommitted ==
    \A o \in Obs : event[o].status = "published" \/ obs[o].status = "completed" => Committed(o)

\* An ingestion_dead_letter row is written only for an observation whose attempts are
\* all used up.
DeadLetterIsSpent ==
    \A o \in deadLetters : obs[o].attempts = MaxAttempts

\* Embedding tasks are enqueued only for memories that are already committed.
EmbedAfterCommit ==
    \A e \in embeds : e[2] \in 1 .. Len(attempts[e[1]]) /\ attempts[e[1]][e[2]] = "completed"

\* The tables that five transactions write at different moments agree with each other: counters
\* with attempt rows, lease with newest attempt, dead letters and embedding tasks with what the
\* attempts came to.
RecordsAgree == AttemptBudget /\ LeaseIsNewest /\ DeadLetterIsSpent /\ EmbedAfterCommit

\* An attempt that committed its memories stays completed: neither fail_attempt after a
\* broker error nor a later attempt rewrites it.
CommittedForever ==
    [][\A o \in Obs : \A n \in 1 .. Len(attempts[o]) :
          attempts[o][n] = "completed" => attempts'[o][n] = "completed"]_vars

\* Every accepted observation is eventually completed or dead-lettered.  The one exception is where
\* two counters drift apart: the event counts dispatches, the observation attempts, and dispatches
\* whose message the broker refused may use up the event while the observation waits for a retry.
EventuallySettled ==
    \A o \in Obs :
        obs[o].status # "absent" ~>
            \/ obs[o].status \in {"completed", "dead_letter"}
            \/ event[o].status = "dead_letter" /\ event[o].attempts > obs[o].attempts

\* The outbox drains: the event of every accepted observation is retired in the end and stays so,
\* whether its messages are lost between the dispatcher's commit and the broker or its attempts
\* fail before or after their commit.  It may be retired as a dead letter though the observation is
\* completed, when the last attempt commits and its embedding tasks cannot be enqueued.
OutboxDrains ==
    \A o \in Obs : event[o].status # "absent" ~> [](event[o].status \in {"published", "dead_letter"})

-----------------------------------------------------------------------------
(***************************************************************************)
(* What the documentation says and the code does not do                    *)
(***************************************************************************)
\* README: "concurrent workers never double-process".  The memories of an observation
\* are committed by at most one attempt.
NeverDoubleProcessed ==
    \A o \in Obs : Cardinality({n \in 1 .. Len(attempts[o]) : attempts[o][n] = "completed"}) <= 1

\* docs: "Completion and failure updates can verify both worker and lease token, preventing a stale
\* worker from overwriting a newer attempt."  An observation is not sent back for a retry, and not
\* given up, while its newest attempt runs its pipeline.
NewestStands ==
    \A w \in Workers :
        At(w, "pipeline") /\ worker[w].att = Len(attempts[ObsOf(w)])
            => obs[ObsOf(w)].status \notin {"retrying", "dead_letter"}
=============================================================================
