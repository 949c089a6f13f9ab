-------------------------- MODULE IngestionProofs --------------------------
(***************************************************************************)
(* Theorems about Ingestion, for every set of observations and consumers   *)
(* and every value of the bounds, checked by TLAPS.                        *)
(***************************************************************************)
EXTENDS Ingestion, SequenceTheorems, TLAPS

USE NumTokensAssumption, MaxAttemptsAssumption, MaxRetriesAssumption, LeaseAssumption,
    RetryDelayAssumption

(***************************************************************************)
(* Type correctness.  A busy consumer holds a message: without it nothing  *)
(* is known of the observation it works on.                                *)
(***************************************************************************)
BusyHasMsg == \A w \in Workers : Busy(w) => worker[w].msg \in Msgs

TypeInv == TypeOK /\ BusyHasMsg

\* The message of a busy consumer names an observation and a token.
LEMMA ObsOfBusy ==
    ASSUME TypeInv, NEW w \in Workers, Busy(w)
    PROVE  ObsOf(w) \in Obs /\ worker[w].msg.tok \in Tokens
BY DEF TypeInv, BusyHasMsg, Msgs, ObsOf

\* claim_event leaves an event row.
LEMMA LeasedEventType ==
    ASSUME NEW e \in EventRow, NEW t \in Tokens
    PROVE  LeasedEvent(e, t) \in EventRow
<1>1. Bump(e.attempts) \in 0 .. MaxAttempts
  BY DEF Bump, EventRow
<1> QED
  BY <1>1 DEF LeasedEvent, EventRow, EventStatus

\* So does giving an event up.
LEMMA DeadEventType ==
    ASSUME NEW e \in EventRow
    PROVE  DeadEvent(e) \in EventRow
BY DEF DeadEvent, EventRow, EventStatus, NoToken

\* Whatever the consumer's claim makes of the event is an event row and a token.
LEMMA ClaimedEventsType ==
    ASSUME TypeInv, NEW w \in Workers, Busy(w), NEW c \in ClaimedEvents(w)
    PROVE  c[1] \in EventRow /\ c[2] \in Tokens \cup {NoToken}
<1>1. ObsOf(w) \in Obs
  BY ObsOfBusy
<1>2. event[ObsOf(w)] \in EventRow
  BY <1>1 DEF TypeInv, TypeOK
<1>3. \A t \in FreshTokens : LeasedEvent(event[ObsOf(w)], t) \in EventRow /\ t \in Tokens
  BY <1>2, LeasedEventType DEF FreshTokens
<1>4. DeadEvent(event[ObsOf(w)]) \in EventRow
  BY <1>2, DeadEventType
<1>5. event[ObsOf(w)].token \in Tokens \cup {NoToken}
  BY <1>2 DEF EventRow
<1>6. \/ c = <<event[ObsOf(w)], event[ObsOf(w)].token>>
      \/ c = <<event[ObsOf(w)], NoToken>>
      \/ c = <<DeadEvent(event[ObsOf(w)]), NoToken>>
      \/ \E t \in FreshTokens : c = <<LeasedEvent(event[ObsOf(w)], t), t>>
  BY DEF ClaimedEvents
<1> QED
  BY <1>2, <1>3, <1>4, <1>5, <1>6

\* Taking the lease off an observation leaves an observation row.
LEMMA UnleasedType ==
    ASSUME NEW r \in ObsRow, NEW s \in ObsStatus, NEW d \in Nat
    PROVE  Unleased(r, s, d) \in ObsRow
BY DEF Unleased, ObsRow

\* Settling one attempt leaves a sequence of attempts of the same length.
LEMMA AttemptExcept ==
    ASSUME NEW s \in Seq(AttemptStatus), NEW n \in Nat, NEW x \in AttemptStatus
    PROVE  /\ [s EXCEPT ![n] = x] \in Seq(AttemptStatus)
           /\ Len([s EXCEPT ![n] = x]) = Len(s)
<1>1. CASE n \in 1 .. Len(s)
  BY <1>1, ExceptSeq
<1>2. CASE n \notin 1 .. Len(s)
  <2>1. DOMAIN s = 1 .. Len(s)
    OBVIOUS
  <2>2. [s EXCEPT ![n] = x] = [i \in DOMAIN s |-> s[i]]
    BY <1>2, <2>1
  <2>3. s = [i \in DOMAIN s |-> s[i]]
    OBVIOUS
  <2> QED
    BY <2>2, <2>3
<1> QED
  BY <1>1, <1>2

\* The initial state is well typed.
LEMMA TypeInit == Init => TypeInv
BY DEF Init, TypeInv, TypeOK, BusyHasMsg, Busy, ObsRow, EventRow, Consumer, Idle,
       ObsStatus, EventStatus, PCs, NoToken

\* Every step keeps the types.
LEMMA TypeNext == TypeInv /\ [Next]_vars => TypeInv'
<1> SUFFICES ASSUME TypeInv, [Next]_vars PROVE TypeInv'
  OBVIOUS
<1>ty. TypeOK
  BY DEF TypeInv
<1>idle. Idle \in Consumer
  BY DEF Idle, Consumer, PCs
<1>ack. ASSUME NEW w \in Workers, Ack(w)
        PROVE  worker' \in [Workers -> Consumer] /\ BusyHasMsg'
  <2>1. worker' \in [Workers -> Consumer]
    BY <1>ack, <1>ty, <1>idle DEF Ack, TypeOK
  <2>2. ASSUME NEW v \in Workers, worker'[v].pc # "idle" PROVE worker'[v].msg \in Msgs
    <3>1. v # w
      BY <1>ack, <2>2, <1>ty DEF Ack, Idle, TypeOK
    <3>2. worker'[v] = worker[v]
      BY <1>ack, <3>1, <1>ty DEF Ack, TypeOK
    <3> QED
      BY <2>2, <3>2 DEF TypeInv, BusyHasMsg, Busy
  <2> QED
    BY <2>1, <2>2 DEF BusyHasMsg, Busy
<1>goto. ASSUME NEW w \in Workers, Busy(w), NEW pc \in PCs, Goto(w, pc)
         PROVE  worker' \in [Workers -> Consumer] /\ BusyHasMsg'
  <2>1. worker' \in [Workers -> Consumer]
    BY <1>goto, <1>ty DEF Goto, TypeOK, Consumer
  <2>2. \A v \in Workers : worker'[v].msg = worker[v].msg
    BY <1>goto, <1>ty DEF Goto, TypeOK, Consumer
  <2>3. ASSUME NEW v \in Workers, worker'[v].pc # "idle" PROVE Busy(v)
    <3>1. CASE v = w
      BY <3>1, <1>goto
    <3>2. CASE v # w
      BY <3>2, <2>3, <1>goto, <1>ty DEF Goto, TypeOK, Busy
    <3> QED BY <3>1, <3>2
  <2> QED
    BY <2>1, <2>2, <2>3 DEF TypeInv, BusyHasMsg, Busy
<1>same. ASSUME UNCHANGED worker
         PROVE  worker' \in [Workers -> Consumer] /\ BusyHasMsg'
  BY <1>same, <1>ty DEF TypeInv, TypeOK, BusyHasMsg, Busy
<1>1. ASSUME NEW o \in Obs, Accept(o) PROVE TypeInv'
  BY <1>1, <1>ty, <1>same, ZenonT(60) DEF Accept, TypeInv, TypeOK, ObsRow, EventRow, ObsStatus, EventStatus
<1>2. ASSUME NEW o \in Obs, DispatchClaim(o) PROVE TypeInv'
  <2>1. PICK t \in FreshTokens :
           /\ event' = [event EXCEPT ![o] = LeasedEvent(@, t)]
           /\ claimed' = claimed \cup {[obs |-> o, tok |-> t, tries |-> 0]}
    BY <1>2 DEF DispatchClaim
  <2>2. t \in Tokens
    BY DEF FreshTokens
  <2>3. event' \in [Obs -> EventRow]
    BY <2>1, <2>2, <1>ty, LeasedEventType DEF TypeOK
  <2>4. [obs |-> o, tok |-> t, tries |-> 0] \in Msgs
    BY <2>2 DEF Msgs
  <2>5. claimed' \in SUBSET Msgs
    BY <2>1, <2>4, <1>ty DEF TypeOK
  <2> QED
    BY <1>2, <2>3, <2>5, <1>ty, <1>same DEF DispatchClaim, TypeInv, TypeOK
<1>3. ASSUME NEW m \in claimed, Publish(m) \/ PublishFailed(m) PROVE TypeInv'
  BY <1>3, <1>ty, <1>same DEF Publish, PublishFailed, rows, TypeInv, TypeOK
<1>4. ASSUME NEW w \in Workers, NEW m \in queue, Take(w, m) PROVE TypeInv'
  <2>1. m \in Msgs
    BY <1>ty DEF TypeOK
  <2>2. [pc |-> "claim", msg |-> m, att |-> 0, tok |-> NoToken] \in Consumer
    BY <2>1 DEF Consumer, PCs
  <2>3. worker' \in [Workers -> Consumer] /\ BusyHasMsg'
    BY <1>4, <2>1, <2>2, <1>ty DEF Take, TypeInv, TypeOK, BusyHasMsg, Busy
  <2> QED
    BY <1>4, <2>3, <1>ty DEF Take, rows, TypeInv, TypeOK
<1>5. ASSUME NEW w \in Workers, Claim(w) PROVE TypeInv'
  <2> DEFINE o == ObsOf(w)
             n == AttemptNumber(o)
  <2>1. Busy(w) /\ o \in Obs /\ worker[w].msg \in Msgs
    BY <1>5, ObsOfBusy DEF Claim, At, Busy, TypeInv, BusyHasMsg
  <2>2. Len(attempts[o]) \in Nat /\ n \in Nat
    BY <2>1, <1>ty DEF TypeOK, AttemptNumber
  <2>3. obs' \in [Obs -> ObsRow]
    BY <1>5, <2>1, <2>2, <1>ty DEF Claim, TypeOK, ObsRow, ObsStatus
  <2>4. attempts' \in [Obs -> Seq(AttemptStatus)]
    BY <1>5, <2>1, <1>ty DEF Claim, TypeOK, AttemptStatus
  <2>5. PICK c \in ClaimedEvents(w) :
          /\ event' = [event EXCEPT ![o] = c[1]]
          /\ worker' = [worker EXCEPT ![w] =
                           [pc |-> "pipeline", msg |-> @.msg, att |-> n,
                            tok |-> IF c[2] # NoToken THEN c[2] ELSE @.msg.tok]]
    BY <1>5 DEF Claim
  <2>6. c[1] \in EventRow /\ c[2] \in Tokens \cup {NoToken}
    BY <2>1, ClaimedEventsType
  <2>7. event' \in [Obs -> EventRow]
    BY <2>5, <2>6, <1>ty DEF TypeOK
  <2>8. [pc |-> "pipeline", msg |-> worker[w].msg, att |-> n,
         tok |-> IF c[2] # NoToken THEN c[2] ELSE worker[w].msg.tok] \in Consumer
    BY <2>1, <2>2, <2>6, ObsOfBusy DEF Consumer, PCs
  <2>9. worker' \in [Workers -> Consumer] /\ BusyHasMsg'
    BY <2>1, <2>5, <2>8, <1>ty DEF TypeInv, TypeOK, BusyHasMsg, Busy
  <2> QED
    BY <1>5, <2>3, <2>4, <2>7, <2>9, <1>ty DEF Claim, TypeInv, TypeOK
<1>6. ASSUME NEW w \in Workers, ClaimSkipped(w) PROVE TypeInv'
  <2>1. Busy(w) /\ ObsOf(w) \in Obs /\ worker[w].msg \in Msgs
    BY <1>6, ObsOfBusy DEF ClaimSkipped, At, Busy, TypeInv, BusyHasMsg
  <2>2. PICK c \in ClaimedEvents(w) :
          /\ event' = [event EXCEPT ![ObsOf(w)] = c[1]]
          /\ worker' = [worker EXCEPT ![w] =
                           IF SkipPublishes(ObsOf(w))
                           THEN [@ EXCEPT !.pc = "publish", !.tok = c[2]]
                           ELSE Idle]
    BY <1>6 DEF ClaimSkipped
  <2>3. c[1] \in EventRow /\ c[2] \in Tokens \cup {NoToken}
    BY <2>1, ClaimedEventsType
  <2>4. event' \in [Obs -> EventRow]
    BY <2>2, <2>3, <1>ty DEF TypeOK
  <2>5. worker' \in [Workers -> Consumer] /\ BusyHasMsg'
    <3>1. CASE SkipPublishes(ObsOf(w))
      <4>1. worker' = [worker EXCEPT ![w] = [@ EXCEPT !.pc = "publish", !.tok = c[2]]]
        BY <2>2, <3>1
      <4> QED
        BY <4>1, <2>1, <2>3, <1>ty, ZenonT(60) DEF TypeInv, TypeOK, BusyHasMsg, Busy, Consumer, PCs
    <3>2. CASE ~SkipPublishes(ObsOf(w))
      BY <2>2, <3>2, <1>ack DEF Ack
    <3> QED BY <3>1, <3>2
  <2> QED
    BY <1>6, <2>4, <2>5, <1>ty DEF ClaimSkipped, TypeInv, TypeOK
<1>7. ASSUME NEW w \in Workers, CompleteAttempt(w) PROVE TypeInv'
  <2>1. Busy(w) /\ ObsOf(w) \in Obs
    BY <1>7, ObsOfBusy DEF CompleteAttempt, At, Busy
  <2>2. attempts' \in [Obs -> Seq(AttemptStatus)]
    <3>1. [attempts[ObsOf(w)] EXCEPT ![worker[w].att] = "completed"] \in Seq(AttemptStatus)
      BY <2>1, <1>ty, AttemptExcept DEF TypeOK, Consumer, AttemptStatus
    <3> QED
      BY <1>7, <3>1, <1>ty DEF CompleteAttempt, TypeOK
  <2>3. obs' \in [Obs -> ObsRow]
    <3>1. obs[ObsOf(w)] \in ObsRow /\ obs[ObsOf(w)].delay \in Nat
      BY <2>1, <1>ty DEF TypeOK, ObsRow
    <3>2. Unleased(obs[ObsOf(w)], "completed", obs[ObsOf(w)].delay) \in ObsRow
      BY <3>1, UnleasedType DEF ObsStatus
    <3> QED
      BY <1>7, <3>2, <1>ty DEF CompleteAttempt, TypeOK
  <2>4. worker' \in [Workers -> Consumer] /\ BusyHasMsg'
    BY <1>7, <2>1, <1>goto DEF CompleteAttempt, PCs
  <2> QED
    BY <1>7, <2>2, <2>3, <2>4, <1>ty DEF CompleteAttempt, TypeInv, TypeOK
<1>8. ASSUME NEW w \in Workers, PipelineFailed(w) \/ EnqueueFailed(w) \/ DbError(w) PROVE TypeInv'
  <2>1. Busy(w)
    BY <1>8 DEF PipelineFailed, EnqueueFailed, DbError, At, Busy
  <2>2. worker' \in [Workers -> Consumer] /\ BusyHasMsg'
    BY <1>8, <2>1, <1>goto DEF PipelineFailed, EnqueueFailed, DbError, PCs
  <2> QED
    BY <1>8, <2>2, <1>ty DEF PipelineFailed, EnqueueFailed, DbError, rows, TypeInv, TypeOK
<1>9. ASSUME NEW w \in Workers, EnqueueEmbeddings(w) PROVE TypeInv'
  <2>1. Busy(w) /\ ObsOf(w) \in Obs
    BY <1>9, ObsOfBusy DEF EnqueueEmbeddings, At, Busy
  <2>2. worker' \in [Workers -> Consumer] /\ BusyHasMsg'
    BY <1>9, <2>1, <1>goto DEF EnqueueEmbeddings, PCs
  <2>3. worker[w].att \in Nat
    BY <1>ty DEF TypeOK, Consumer
  <2>4. embeds' \in SUBSET (Obs \X Nat)
    BY <1>9, <2>1, <2>3, <1>ty DEF EnqueueEmbeddings, TypeOK
  <2> QED
    BY <1>9, <2>2, <2>4, <1>ty DEF EnqueueEmbeddings, rows, TypeInv, TypeOK
<1>10. ASSUME NEW w \in Workers, MarkPublished(w) PROVE TypeInv'
  <2>1. worker' \in [Workers -> Consumer] /\ BusyHasMsg'
    BY <1>10, <1>ack DEF MarkPublished
  <2>2. event' \in [Obs -> EventRow]
    <3>1. \A e \in EventRow :
             [e EXCEPT !.status = "published", !.token = NoToken, !.lease = 0] \in EventRow
      BY DEF EventRow, EventStatus, NoToken
    <3>2. event' = [event EXCEPT ![ObsOf(w)] =
             [@ EXCEPT !.status = "published", !.token = NoToken, !.lease = 0]]
          \/ UNCHANGED event
      BY <1>10, <1>ty DEF MarkPublished, TypeOK
    <3>3. \A o \in Obs : event[o] \in EventRow
      BY <1>ty DEF TypeOK
    <3>4. ASSUME event' = [event EXCEPT ![ObsOf(w)] =
             [event[ObsOf(w)] EXCEPT !.status = "published", !.token = NoToken, !.lease = 0]]
          PROVE  event' \in [Obs -> EventRow]
      <4> DEFINE e == [event[ObsOf(w)] EXCEPT !.status = "published", !.token = NoToken, !.lease = 0]
      <4>1. ObsOf(w) \in Obs => e \in EventRow
        BY <3>1, <3>3
      <4> HIDE DEF e
      <4> QED
        BY <3>4, <4>1, <1>ty DEF TypeOK, e
    <3> QED
      BY <3>2, <3>4, <1>ty DEF TypeOK
  <2> QED
    BY <1>10, <2>1, <2>2, <1>ty DEF MarkPublished, TypeInv, TypeOK
<1>11. ASSUME NEW w \in Workers, FailAttempt(w) PROVE TypeInv'
  <2>1. Busy(w) /\ ObsOf(w) \in Obs
    BY <1>11, ObsOfBusy DEF FailAttempt, At, Busy
  <2>2. attempts' \in [Obs -> Seq(AttemptStatus)]
    <3>1. [attempts[ObsOf(w)] EXCEPT ![worker[w].att] = "failed"] \in Seq(AttemptStatus)
      BY <2>1, <1>ty, AttemptExcept DEF TypeOK, Consumer, AttemptStatus
    <3> QED
      BY <1>11, <3>1, <1>ty DEF FailAttempt, TypeOK
  <2>3. obs[ObsOf(w)] \in ObsRow
    BY <2>1, <1>ty DEF TypeOK
  <2>4. /\ Unleased(obs[ObsOf(w)], "dead_letter", 0) \in ObsRow
        /\ Unleased(obs[ObsOf(w)], "retrying", RetryDelay) \in ObsRow
    BY <2>3, UnleasedType DEF ObsStatus
  <2>5. obs' \in [Obs -> ObsRow] /\ deadLetters' \in SUBSET Obs
    BY <1>11, <2>1, <2>4, <1>ty DEF FailAttempt, TypeOK
  <2>6. worker' \in [Workers -> Consumer] /\ BusyHasMsg'
    BY <1>11, <2>1, <1>goto DEF FailAttempt, PCs
  <2> QED
    BY <1>11, <2>2, <2>5, <2>6, <1>ty DEF FailAttempt, TypeInv, TypeOK
<1>12. ASSUME NEW w \in Workers, FailEvent(w) PROVE TypeInv'
  <2>1. worker' \in [Workers -> Consumer] /\ BusyHasMsg'
    BY <1>12, <1>ack DEF FailEvent
  <2>2. event' \in [Obs -> EventRow]
    <3>1. \A e \in EventRow :
             /\ [e EXCEPT !.status = "failed", !.token = NoToken, !.lease = 0,
                          !.delay = RetryDelay] \in EventRow
             /\ [DeadEvent(e) EXCEPT !.delay = 0] \in EventRow
      BY DEF DeadEvent, EventRow, EventStatus, NoToken
    <3> DEFINE o == ObsOf(w)
               e1 == [DeadEvent(event[o]) EXCEPT !.delay = 0]
               e2 == [event[o] EXCEPT !.status = "failed", !.token = NoToken, !.lease = 0,
                                      !.delay = RetryDelay]
    <3>2. o \in Obs
      BY <1>12, ObsOfBusy DEF FailEvent, At, Busy
    <3>3. e1 \in EventRow /\ e2 \in EventRow
      BY <3>1, <3>2, <1>ty DEF TypeOK
    <3>4. \/ event' = [event EXCEPT ![o] = e1]
          \/ event' = [event EXCEPT ![o] = e2]
          \/ event' = event
      BY <1>12 DEF FailEvent
    <3> HIDE DEF e1, e2
    <3> QED
      BY <3>2, <3>3, <3>4, <1>ty DEF TypeOK
  <2> QED
    BY <1>12, <2>1, <2>2, <1>ty DEF FailEvent, TypeInv, TypeOK
<1>retry. ASSUME NEW w \in Workers, Busy(w), Retry(w)
          PROVE  queue' \in SUBSET Msgs /\ worker' \in [Workers -> Consumer] /\ BusyHasMsg'
  <2>1. worker[w].msg \in Msgs
    BY <1>retry DEF TypeInv, BusyHasMsg
  <2>2. worker[w].msg.tries < MaxRetries =>
           [worker[w].msg EXCEPT !.tries = @ + 1] \in Msgs
    BY <2>1 DEF Msgs
  <2> QED
    BY <1>retry, <2>2, <1>ty, <1>ack DEF Retry, TypeOK
<1>13. ASSUME NEW w \in Workers, Release(w) PROVE TypeInv'
  <2>1. Busy(w) /\ ObsOf(w) \in Obs
    BY <1>13, ObsOfBusy DEF Release, At, Busy
  <2>2. obs[ObsOf(w)] \in ObsRow
    BY <2>1, <1>ty DEF TypeOK
  <2>3. /\ Unleased(obs[ObsOf(w)], "dead_letter", 0) \in ObsRow
        /\ Unleased(obs[ObsOf(w)], "retrying", 0) \in ObsRow
    BY <2>2, UnleasedType DEF ObsStatus
  <2>4. obs' \in [Obs -> ObsRow]
    BY <1>13, <2>3, <1>ty DEF Release, TypeOK
  <2>5. queue' \in SUBSET Msgs /\ worker' \in [Workers -> Consumer] /\ BusyHasMsg'
    BY <1>13, <2>1, <1>ty, <1>ack, <1>retry DEF Release, TypeOK
  <2> QED
    BY <1>13, <2>4, <2>5, <1>ty DEF Release, TypeInv, TypeOK
<1>14. ASSUME NEW w \in Workers, ReleaseFailed(w) PROVE TypeInv'
  <2>1. Busy(w)
    BY <1>14 DEF ReleaseFailed, At, Busy
  <2> QED
    BY <1>14, <2>1, <1>retry, <1>ty DEF ReleaseFailed, rows, TypeInv, TypeOK
<1>15. ASSUME NEW w \in Workers, Crash(w) PROVE TypeInv'
  <2>1. worker[w].msg \in Msgs
    BY <1>15 DEF Crash, TypeInv, BusyHasMsg
  <2> QED
    BY <1>15, <2>1, <1>ack, <1>ty DEF Crash, rows, TypeInv, TypeOK
<1>16. ASSUME Tick PROVE TypeInv'
  <2>1. obs' \in [Obs -> ObsRow]
    <3>1. ASSUME NEW r \in ObsRow
          PROVE  [r EXCEPT !.lease = Less(@), !.delay = Less(@)] \in ObsRow
      <4>1. Less(r.lease) \in Nat /\ Less(r.delay) \in Nat
        BY DEF ObsRow, Less
      <4> QED
        BY <4>1 DEF ObsRow
    <3> QED
      BY <1>16, <3>1, <1>ty DEF Tick, TypeOK
  <2>2. event' \in [Obs -> EventRow]
    <3>1. ASSUME NEW r \in EventRow
          PROVE  [r EXCEPT !.lease = Less(@), !.delay = Less(@)] \in EventRow
      <4>1. Less(r.lease) \in Nat /\ Less(r.delay) \in Nat
        BY DEF EventRow, Less
      <4> QED
        BY <4>1 DEF EventRow
    <3> QED
      BY <1>16, <3>1, <1>ty DEF Tick, TypeOK
  <2> QED
    BY <1>16, <2>1, <2>2, <1>ty, <1>same DEF Tick, TypeInv, TypeOK
<1>17. ASSUME UNCHANGED vars PROVE TypeInv'
  BY <1>17, <1>ty, <1>same DEF vars, TypeInv, TypeOK
<1> QED
  BY <1>1, <1>2, <1>3, <1>4, <1>5, <1>6, <1>7, <1>8, <1>9, <1>10, <1>11, <1>12, <1>13,
     <1>14, <1>15, <1>16, <1>17 DEF Next, DispatcherStep, ConsumerStep

\* Every reachable state is well typed, whatever fails and however consumers, dispatcher
\* and clock interleave.
THEOREM TypeCorrect == Spec => []TypeOK
<1>1. TypeInv => TypeOK
  BY DEF TypeInv
<1> QED
  BY <1>1, TypeInit, TypeNext, PTL DEF Spec

-----------------------------------------------------------------------------
(***************************************************************************)
(* The inductive invariant.  What the runs check is not inductive by       *)
(* itself: that a consumer's attempt exists, that it is committed when its *)
(* embeddings are enqueued, and that its observation is committed when it  *)
(* is about to publish the event, is known only from how it got there.     *)
(***************************************************************************)
AttemptsOwned ==
    \A w \in Workers : InAttempt(w) => worker[w].att \in 1 .. Len(attempts[ObsOf(w)])

StageCommitted ==
    \A w \in Workers :
        /\ At(w, "embed") => attempts[ObsOf(w)][worker[w].att] = "completed"
        /\ At(w, "publish") => Committed(ObsOf(w))

IInv ==
    /\ TypeInv
    /\ AttemptBudget
    /\ LeaseIsNewest
    /\ AttemptsOwned
    /\ AttemptExclusive
    /\ StageCommitted
    /\ SettledIsCommitted
    /\ DeadLetterIsSpent
    /\ EmbedAfterCommit

(***************************************************************************)
(* What one step can do to each part of the state.                         *)
(***************************************************************************)
\* The attempts of an observation grow by a claim and are settled in place.
LEMMA AttemptsStep ==
    ASSUME TypeInv, AttemptsOwned, [Next]_vars, NEW o \in Obs
    PROVE  \/ attempts'[o] = attempts[o]
           \/ \E w \in Workers : Claim(w) /\ ObsOf(w) = o
                                 /\ attempts'[o] = Append(attempts[o], "processing")
           \/ \E w \in Workers :
                 /\ ObsOf(w) = o
                 /\ worker[w].att \in 1 .. Len(attempts[o])
                 /\ \/ /\ CompleteAttempt(w)
                       /\ attempts'[o] = [attempts[o] EXCEPT ![worker[w].att] = "completed"]
                    \/ /\ attempts[o][worker[w].att] # "completed"
                       /\ attempts'[o] = [attempts[o] EXCEPT ![worker[w].att] = "failed"]
<1>ty. attempts \in [Obs -> Seq(AttemptStatus)]
  BY DEF TypeInv, TypeOK
<1>1. ASSUME NEW w \in Workers, Claim(w)
      PROVE  attempts' = [attempts EXCEPT ![ObsOf(w)] = Append(@, "processing")]
  BY <1>1 DEF Claim
<1>2. ASSUME NEW w \in Workers, CompleteAttempt(w)
      PROVE  /\ InAttempt(w)
             /\ attempts' = [attempts EXCEPT ![ObsOf(w)][worker[w].att] = "completed"]
  BY <1>2 DEF CompleteAttempt, InAttempt, At
<1>3. ASSUME NEW w \in Workers, FailAttempt(w)
      PROVE  /\ InAttempt(w)
             /\ \/ attempts' = attempts
                \/ /\ attempts[ObsOf(w)][worker[w].att] # "completed"
                   /\ attempts' = [attempts EXCEPT ![ObsOf(w)][worker[w].att] = "failed"]
  BY <1>3 DEF FailAttempt, InAttempt, At, AlreadyCompleted
<1>4. \/ attempts' = attempts
      \/ \E w \in Workers : Claim(w) \/ CompleteAttempt(w) \/ FailAttempt(w)
  BY DEF Next, DispatcherStep, ConsumerStep, vars, rows, Accept, DispatchClaim, Publish,
         PublishFailed, Take, ClaimSkipped, PipelineFailed, EnqueueEmbeddings, EnqueueFailed,
         MarkPublished, FailEvent, DbError, Release, ReleaseFailed, Crash, Tick
<1>5. CASE \E w \in Workers : Claim(w)
  <2>1. PICK w \in Workers : Claim(w)
    BY <1>5
  <2>2. CASE ObsOf(w) = o
    BY <1>1, <1>ty, <2>1, <2>2
  <2>3. CASE ObsOf(w) # o
    BY <1>1, <1>ty, <2>1, <2>3
  <2> QED BY <2>2, <2>3
<1>6. CASE \E w \in Workers : CompleteAttempt(w)
  <2>1. PICK w \in Workers : CompleteAttempt(w)
    BY <1>6
  <2>2. CASE ObsOf(w) = o
    BY <1>2, <1>ty, <2>1, <2>2 DEF AttemptsOwned
  <2>3. CASE ObsOf(w) # o
    BY <1>2, <1>ty, <2>1, <2>3
  <2> QED BY <2>2, <2>3
<1>7. CASE \E w \in Workers : FailAttempt(w)
  <2>1. PICK w \in Workers : FailAttempt(w)
    BY <1>7
  <2>2. CASE ObsOf(w) = o
    BY <1>3, <1>ty, <2>1, <2>2 DEF AttemptsOwned
  <2>3. CASE ObsOf(w) # o
    BY <1>3, <1>ty, <2>1, <2>3
  <2> QED BY <2>2, <2>3
<1> QED
  BY <1>4, <1>5, <1>6, <1>7

\* So no attempt is ever lost, and a completed one stays completed.
LEMMA AttemptsMonotone ==
    ASSUME TypeInv, AttemptsOwned, [Next]_vars, NEW o \in Obs
    PROVE  /\ Len(attempts[o]) \in Nat
           /\ Len(attempts'[o]) \in Nat
           /\ Len(attempts[o]) <= Len(attempts'[o])
           /\ \A n \in 1 .. Len(attempts[o]) :
                 attempts[o][n] = "completed" => attempts'[o][n] = "completed"
<1> DEFINE s == attempts[o]
<1>1. s \in Seq(AttemptStatus) /\ Len(s) \in Nat
  BY DEF TypeInv, TypeOK
<1>2. CASE attempts'[o] = s
  BY <1>1, <1>2
<1>3. CASE attempts'[o] = Append(s, "processing")
  BY <1>1, <1>3 DEF AttemptStatus
<1>4. ASSUME NEW n \in 1 .. Len(s), NEW x \in AttemptStatus,
             attempts'[o] = [s EXCEPT ![n] = x],
             x = "completed" \/ s[n] # "completed"
      PROVE  /\ Len(attempts'[o]) = Len(s)
             /\ \A i \in 1 .. Len(s) : s[i] = "completed" => attempts'[o][i] = "completed"
  BY <1>1, <1>4, ExceptSeq
<1>5. \/ attempts'[o] = s
      \/ attempts'[o] = Append(s, "processing")
      \/ \E n \in 1 .. Len(s) : attempts'[o] = [s EXCEPT ![n] = "completed"]
      \/ \E n \in 1 .. Len(s) : s[n] # "completed" /\ attempts'[o] = [s EXCEPT ![n] = "failed"]
  BY AttemptsStep
<1>6. "completed" \in AttemptStatus /\ "failed" \in AttemptStatus
  BY DEF AttemptStatus
<1>7. CASE \E n \in 1 .. Len(s) : attempts'[o] = [s EXCEPT ![n] = "completed"]
  <2>1. PICK n \in 1 .. Len(s) : attempts'[o] = [s EXCEPT ![n] = "completed"]
    BY <1>7
  <2> QED
    BY <1>1, <2>1, <1>4, <1>6
<1>8. CASE \E n \in 1 .. Len(s) : s[n] # "completed" /\ attempts'[o] = [s EXCEPT ![n] = "failed"]
  <2>1. PICK n \in 1 .. Len(s) : s[n] # "completed" /\ attempts'[o] = [s EXCEPT ![n] = "failed"]
    BY <1>8
  <2> QED
    BY <1>1, <2>1, <1>4, <1>6
<1> QED
  BY <1>2, <1>3, <1>5, <1>7, <1>8

\* An observation with a committed attempt keeps one.
LEMMA CommittedMonotone ==
    ASSUME TypeInv, AttemptsOwned, [Next]_vars, NEW o \in Obs, Committed(o)
    PROVE  Committed(o)'
BY AttemptsMonotone DEF Committed

\* Outside a claim of its own, an observation keeps its attempts, and it either keeps its
\* lease (which may age) or gives it up and leaves `processing`.
LEMMA ObsStep ==
    ASSUME TypeInv, LeaseIsNewest, [Next]_vars, NEW o \in Obs
    PROVE  \/ \E w \in Workers : Claim(w) /\ ObsOf(w) = o
           \/ /\ obs'[o].attempts = obs[o].attempts
              /\ \/ /\ obs'[o].status = obs[o].status
                    /\ obs'[o].token = obs[o].token
                    /\ obs'[o].lease \in {obs[o].lease, Less(obs[o].lease)}
                 \/ /\ obs'[o].status # "processing"
                    /\ obs'[o].token = 0
                    /\ obs'[o].lease = 0
                    /\ obs'[o].status = "completed" =>
                          \E w \in Workers : CompleteAttempt(w) /\ ObsOf(w) = o
<1>ty. obs \in [Obs -> ObsRow]
  BY DEF TypeInv, TypeOK
<1>un. ASSUME NEW p, NEW s, NEW d, obs' = [obs EXCEPT ![p] = Unleased(@, s, d)], p = o
       PROVE  obs'[o].attempts = obs[o].attempts /\ obs'[o].status = s
              /\ obs'[o].token = 0 /\ obs'[o].lease = 0
  BY <1>un, <1>ty DEF Unleased, ObsRow
<1>other. ASSUME NEW p, NEW r, obs' = [obs EXCEPT ![p] = r], p # o
          PROVE  obs'[o] = obs[o]
  BY <1>other, <1>ty
<1>1. \/ obs' = obs
      \/ \E p \in Obs : Accept(p)
      \/ \E w \in Workers : Claim(w) \/ CompleteAttempt(w) \/ FailAttempt(w) \/ Release(w)
      \/ Tick
  BY DEF Next, DispatcherStep, ConsumerStep, vars, rows, DispatchClaim, Publish,
         PublishFailed, Take, ClaimSkipped, PipelineFailed, EnqueueEmbeddings, EnqueueFailed,
         MarkPublished, FailEvent, DbError, ReleaseFailed, Crash
<1>2. ASSUME NEW p \in Obs, Accept(p)
      PROVE  \/ obs'[o] = obs[o]
             \/ /\ obs'[o].attempts = obs[o].attempts
                /\ obs'[o].status = "pending"
                /\ obs'[o].token = 0
                /\ obs'[o].lease = 0
  BY <1>2, <1>ty DEF Accept, LeaseIsNewest, ObsRow
<1>3. ASSUME NEW w \in Workers, CompleteAttempt(w)
      PROVE  \/ obs'[o] = obs[o]
             \/ /\ ObsOf(w) = o
                /\ obs'[o].attempts = obs[o].attempts
                /\ obs'[o].status = "completed"
                /\ obs'[o].token = 0
                /\ obs'[o].lease = 0
  BY <1>3, <1>un, <1>other DEF CompleteAttempt
<1>4. ASSUME NEW w \in Workers, FailAttempt(w) \/ Release(w)
      PROVE  \/ obs'[o] = obs[o]
             \/ /\ obs'[o].attempts = obs[o].attempts
                /\ obs'[o].status \in {"dead_letter", "retrying"}
                /\ obs'[o].token = 0
                /\ obs'[o].lease = 0
  BY <1>4, <1>un, <1>other DEF FailAttempt, Release
<1>5. ASSUME NEW w \in Workers, Claim(w)
      PROVE  ObsOf(w) = o \/ obs'[o] = obs[o]
  BY <1>5, <1>ty DEF Claim
<1>6. ASSUME Tick
      PROVE  /\ obs'[o].attempts = obs[o].attempts
             /\ obs'[o].status = obs[o].status
             /\ obs'[o].token = obs[o].token
             /\ obs'[o].lease = Less(obs[o].lease)
  BY <1>6, <1>ty DEF Tick, ObsRow
<1> QED
  BY <1>1, <1>2, <1>3, <1>4, <1>5, <1>6

\* What a step can do to one consumer.
LEMMA ConsumerMoves ==
    ASSUME TypeInv, [Next]_vars, NEW v \in Workers
    PROVE  \/ worker'[v] = worker[v]
           \/ worker'[v].pc \in {"idle", "claim", "release"}
           \/ /\ worker'[v].msg = worker[v].msg
              /\ \/ /\ Claim(v)
                    /\ worker'[v].pc = "pipeline"
                    /\ worker'[v].att = AttemptNumber(ObsOf(v))
                 \/ /\ InAttempt(v)
                    /\ worker'[v].att = worker[v].att
                    /\ worker'[v].pc \in {"fail", "failEvent"}
                 \/ /\ CompleteAttempt(v)
                    /\ worker'[v].att = worker[v].att
                    /\ worker'[v].pc = "embed"
                 \/ /\ At(v, "embed") \/ obs[ObsOf(v)].status = "completed"
                    /\ worker'[v].pc = "publish"
<1>ty. worker \in [Workers -> Consumer]
  BY DEF TypeInv, TypeOK
<1>goto. ASSUME NEW w \in Workers, NEW pc, Goto(w, pc)
         PROVE  \/ worker'[v] = worker[v]
                \/ /\ v = w
                   /\ worker'[v].msg = worker[v].msg
                   /\ worker'[v].att = worker[v].att
                   /\ worker'[v].pc = pc
  BY <1>goto, <1>ty DEF Goto, Consumer
<1>ack. ASSUME NEW w \in Workers, Ack(w)
        PROVE  worker'[v] = worker[v] \/ worker'[v].pc = "idle"
  BY <1>ack, <1>ty DEF Ack, Idle
<1>1. \/ worker' = worker
      \/ \E w \in Workers :
           \/ \E m \in queue : Take(w, m)
           \/ Claim(w) \/ ClaimSkipped(w) \/ CompleteAttempt(w) \/ PipelineFailed(w)
           \/ EnqueueEmbeddings(w) \/ EnqueueFailed(w) \/ FailAttempt(w) \/ DbError(w)
           \/ Ack(w)
  BY DEF Next, DispatcherStep, ConsumerStep, vars, rows, Accept, DispatchClaim, Publish,
         PublishFailed, MarkPublished, FailEvent, Release, ReleaseFailed, Retry, Crash, Tick
<1>2. ASSUME NEW w \in Workers, NEW m \in queue, Take(w, m)
      PROVE  worker'[v] = worker[v] \/ worker'[v].pc = "claim"
  BY <1>2, <1>ty DEF Take
<1>3. ASSUME NEW w \in Workers, Claim(w)
      PROVE  \/ worker'[v] = worker[v]
             \/ /\ v = w
                /\ worker'[v].msg = worker[v].msg
                /\ worker'[v].pc = "pipeline"
                /\ worker'[v].att = AttemptNumber(ObsOf(v))
  BY <1>3, <1>ty DEF Claim
<1>4. ASSUME NEW w \in Workers, ClaimSkipped(w)
      PROVE  \/ worker'[v] = worker[v]
             \/ worker'[v].pc = "idle"
             \/ /\ v = w
                /\ worker'[v].msg = worker[v].msg
                /\ worker'[v].pc = "publish"
                /\ obs[ObsOf(v)].status = "completed"
  <2>1. PICK c \in ClaimedEvents(w) :
          worker' = [worker EXCEPT ![w] =
                        IF SkipPublishes(ObsOf(w))
                        THEN [@ EXCEPT !.pc = "publish", !.tok = c[2]]
                        ELSE Idle]
    BY <1>4 DEF ClaimSkipped
  <2>2. CASE SkipPublishes(ObsOf(w))
    <3>1. worker' = [worker EXCEPT ![w] = [@ EXCEPT !.pc = "publish", !.tok = c[2]]]
      BY <2>1, <2>2
    <3> QED
      BY <2>2, <3>1, <1>ty DEF SkipPublishes, Consumer
  <2>3. CASE ~SkipPublishes(ObsOf(w))
    BY <2>1, <2>3, <1>ack DEF Ack
  <2> QED BY <2>2, <2>3
<1>5. ASSUME NEW w \in Workers, CompleteAttempt(w)
      PROVE  \/ worker'[v] = worker[v]
             \/ /\ v = w
                /\ worker'[v].msg = worker[v].msg
                /\ worker'[v].att = worker[v].att
                /\ worker'[v].pc = "embed"
  BY <1>5, <1>goto DEF CompleteAttempt
<1>6. ASSUME NEW w \in Workers, PipelineFailed(w) \/ EnqueueFailed(w) \/ FailAttempt(w)
      PROVE  \/ worker'[v] = worker[v]
             \/ /\ v = w
                /\ InAttempt(v)
                /\ worker'[v].msg = worker[v].msg
                /\ worker'[v].att = worker[v].att
                /\ worker'[v].pc \in {"fail", "failEvent"}
  <2>1. InAttempt(w) /\ (Goto(w, "fail") \/ Goto(w, "failEvent"))
    BY <1>6 DEF PipelineFailed, EnqueueFailed, FailAttempt, InAttempt, At
  <2> QED
    BY <2>1, <1>goto
<1>7. ASSUME NEW w \in Workers, EnqueueEmbeddings(w)
      PROVE  \/ worker'[v] = worker[v]
             \/ /\ v = w
                /\ At(v, "embed")
                /\ worker'[v].msg = worker[v].msg
                /\ worker'[v].pc = "publish"
  BY <1>7, <1>goto DEF EnqueueEmbeddings
<1>8. ASSUME NEW w \in Workers, DbError(w)
      PROVE  worker'[v] = worker[v] \/ worker'[v].pc = "release"
  BY <1>8, <1>goto DEF DbError
<1>9. CASE worker' = worker
  BY <1>9
<1>10. CASE \E w \in Workers : \/ \E m \in queue : Take(w, m)
                               \/ DbError(w)
                               \/ Ack(w)
  BY <1>10, <1>2, <1>8, <1>ack
<1>11. CASE \E w \in Workers : Claim(w)
  BY <1>11, <1>3
<1>12. CASE \E w \in Workers : ClaimSkipped(w)
  BY <1>12, <1>4
<1>13. CASE \E w \in Workers : CompleteAttempt(w)
  BY <1>13, <1>5
<1>14. CASE \E w \in Workers : PipelineFailed(w) \/ EnqueueFailed(w) \/ FailAttempt(w)
  BY <1>14, <1>6
<1>15. CASE \E w \in Workers : EnqueueEmbeddings(w)
  BY <1>15, <1>7
<1> QED
  BY <1>1, <1>9, <1>10, <1>11, <1>12, <1>13, <1>14, <1>15

\* Consumers move one at a time.
LEMMA OneMoves ==
    ASSUME TypeInv, [Next]_vars, NEW v \in Workers, NEW w \in Workers, v # w
    PROVE  worker'[v] = worker[v] \/ worker'[w] = worker[w]
<1>ty. worker \in [Workers -> Consumer]
  BY DEF TypeInv, TypeOK
<1>1. worker' = worker \/ \E u \in Workers : \E c : worker' = [worker EXCEPT ![u] = c]
  BY ZenonT(60) DEF Next, DispatcherStep, ConsumerStep, vars, rows, Accept, DispatchClaim, Publish,
         PublishFailed, Take, Claim, ClaimSkipped, CompleteAttempt, PipelineFailed,
         EnqueueEmbeddings, EnqueueFailed, MarkPublished, FailAttempt, FailEvent, DbError,
         Release, ReleaseFailed, Retry, Crash, Tick, Goto, Ack
<1> QED
  BY <1>1, <1>ty

\* An event is published only by a consumer that is about to publish it.
LEMMA EventStep ==
    ASSUME TypeInv, [Next]_vars, NEW o \in Obs, event'[o].status = "published"
    PROVE  \/ event[o].status = "published"
           \/ \E w \in Workers : At(w, "publish") /\ ObsOf(w) = o
<1>ty. event \in [Obs -> EventRow]
  BY DEF TypeInv, TypeOK
<1>1. \/ event' = event
      \/ \E p \in Obs : Accept(p) \/ DispatchClaim(p)
      \/ \E w \in Workers : Claim(w) \/ ClaimSkipped(w) \/ MarkPublished(w) \/ FailEvent(w)
      \/ Tick
  BY DEF Next, DispatcherStep, ConsumerStep, vars, rows, Publish, PublishFailed, Take,
         CompleteAttempt, PipelineFailed, EnqueueEmbeddings, EnqueueFailed, FailAttempt,
         DbError, Release, ReleaseFailed, Crash
<1>2. ASSUME NEW p \in Obs, Accept(p) \/ DispatchClaim(p)
      PROVE  event[o].status = "published"
  <2>1. CASE p # o
    BY <1>2, <2>1, <1>ty DEF Accept, DispatchClaim
  <2>2. CASE p = o
    <3>1. ASSUME Accept(p) PROVE event'[o].status = "pending"
      BY <2>2, <3>1, <1>ty DEF Accept, EventRow
    <3>2. ASSUME DispatchClaim(p) PROVE event'[o].status = "claimed"
      <4>1. PICK t \in FreshTokens : event' = [event EXCEPT ![o] = LeasedEvent(event[o], t)]
        BY <2>2, <3>2 DEF DispatchClaim
      <4>2. event'[o] = LeasedEvent(event[o], t)
        BY <4>1, <1>ty
      <4> QED
        BY <4>2, <1>ty DEF LeasedEvent, EventRow
    <3> QED
      BY <1>2, <3>1, <3>2
  <2> QED BY <2>1, <2>2
<1>3. ASSUME NEW w \in Workers, Claim(w) \/ ClaimSkipped(w)
      PROVE  event[o].status = "published"
  <2>1. PICK c \in ClaimedEvents(w) : event' = [event EXCEPT ![ObsOf(w)] = c[1]]
    BY <1>3 DEF Claim, ClaimSkipped
  <2>2. CASE ObsOf(w) # o
    BY <2>1, <2>2, <1>ty
  <2>3. CASE ObsOf(w) = o
    <3>1. event'[o] = c[1]
      BY <2>1, <2>3, <1>ty
    <3>2. \/ c[1] = event[o]
          \/ c[1] = DeadEvent(event[o])
          \/ \E t \in FreshTokens : c[1] = LeasedEvent(event[o], t)
      BY <2>3 DEF ClaimedEvents
    <3> QED
      BY <3>1, <3>2, <1>ty DEF DeadEvent, LeasedEvent, EventRow
  <2> QED BY <2>2, <2>3
<1>4. ASSUME NEW w \in Workers, MarkPublished(w)
      PROVE  event[o].status = "published" \/ (At(w, "publish") /\ ObsOf(w) = o)
  BY <1>4, <1>ty DEF MarkPublished
<1>5. ASSUME NEW w \in Workers, FailEvent(w)
      PROVE  event[o].status = "published"
  <2>1. CASE ObsOf(w) # o
    BY <1>5, <2>1, <1>ty DEF FailEvent
  <2>2. CASE ObsOf(w) = o
    BY <1>5, <2>2, <1>ty DEF FailEvent, DeadEvent, EventRow
  <2> QED BY <2>1, <2>2
<1>6. ASSUME Tick PROVE event[o].status = "published"
  BY <1>6, <1>ty DEF Tick, EventRow
<1> QED
  BY <1>1, <1>2, <1>3, <1>4, <1>5, <1>6

\* The initial state satisfies the inductive invariant.
LEMMA InvInit == Init => IInv
<1> SUFFICES ASSUME Init PROVE IInv
  OBVIOUS
<1>1. TypeInv
  BY TypeInit
<1>2. \A w \in Workers : worker[w].pc = "idle"
  BY DEF Init, Idle
<1>3. \A o \in Obs : /\ obs[o].status = "absent" /\ obs[o].attempts = 0 /\ obs[o].token = 0
                     /\ obs[o].lease = 0 /\ event[o].status = "absent"
                     /\ attempts[o] = <<>> /\ Len(attempts[o]) = 0
  BY DEF Init
<1>4. deadLetters = {} /\ embeds = {}
  BY DEF Init
<1> QED
  BY <1>1, <1>2, <1>3, <1>4 DEF IInv, AttemptBudget, LeaseIsNewest, AttemptsOwned,
     AttemptExclusive, StageCommitted, SettledIsCommitted, DeadLetterIsSpent,
     EmbedAfterCommit, InAttempt, At

\* Every step keeps the inductive invariant.
LEMMA InvNext == IInv /\ [Next]_vars => IInv'
<1> SUFFICES ASSUME IInv, [Next]_vars PROVE IInv'
  OBVIOUS
<1>inv. TypeInv /\ AttemptBudget /\ LeaseIsNewest /\ AttemptsOwned /\ AttemptExclusive
        /\ StageCommitted /\ SettledIsCommitted /\ DeadLetterIsSpent /\ EmbedAfterCommit
  BY DEF IInv
<1>ty. TypeOK /\ TypeInv'
  BY <1>inv, TypeNext DEF TypeInv
<1>claim. ASSUME NEW o \in Obs, NEW w \in Workers, Claim(w), ObsOf(w) = o
          PROVE  /\ obs[o].attempts < MaxAttempts
                 /\ obs'[o].attempts = Len(attempts[o]) + 1
                 /\ obs'[o].status = "processing"
                 /\ obs'[o].token = Len(attempts[o]) + 1
                 /\ Len(attempts'[o]) = Len(attempts[o]) + 1
  <2>1. /\ obs[o] \in ObsRow /\ obs[o].attempts \in Nat
        /\ attempts[o] \in Seq(AttemptStatus) /\ Len(attempts[o]) \in Nat
        /\ obs[o].attempts = Len(attempts[o])
    BY <1>ty, <1>inv DEF TypeOK, ObsRow, AttemptBudget
  <2>2. attempts'[o] = Append(attempts[o], "processing")
    BY <1>claim, <1>ty DEF Claim, TypeOK
  <2>3. obs'[o] = [status |-> "processing",
                   attempts |-> IF obs[o].attempts < AttemptNumber(o) THEN AttemptNumber(o)
                                ELSE obs[o].attempts,
                   token |-> AttemptNumber(o), lease |-> Lease, delay |-> 0]
    BY <1>claim, <1>ty DEF Claim, TypeOK
  <2>4. obs[o].attempts < MaxAttempts
    BY <1>claim, <2>1 DEF Claim, Spent
  <2> QED
    BY <2>1, <2>2, <2>3, <2>4 DEF AttemptNumber
<1>len. ASSUME NEW o \in Obs
        PROVE  \/ \E w \in Workers : Claim(w) /\ ObsOf(w) = o
               \/ Len(attempts'[o]) = Len(attempts[o])
  <2>1. attempts[o] \in Seq(AttemptStatus)
    BY <1>ty DEF TypeOK
  <2>2. \A n \in 1 .. Len(attempts[o]) : \A x \in AttemptStatus :
           Len([attempts[o] EXCEPT ![n] = x]) = Len(attempts[o])
    BY <2>1, ExceptSeq
  <2>3. \/ attempts'[o] = attempts[o]
        \/ \E w \in Workers : Claim(w) /\ ObsOf(w) = o
        \/ \E n \in 1 .. Len(attempts[o]) : \E x \in AttemptStatus :
              attempts'[o] = [attempts[o] EXCEPT ![n] = x]
    <3>1. "completed" \in AttemptStatus /\ "failed" \in AttemptStatus
      BY DEF AttemptStatus
    <3> QED
      BY <3>1, <1>inv, AttemptsStep
  <2>4. CASE \E n \in 1 .. Len(attempts[o]) : \E x \in AttemptStatus :
              attempts'[o] = [attempts[o] EXCEPT ![n] = x]
    <3>1. PICK n \in 1 .. Len(attempts[o]), x \in AttemptStatus :
              attempts'[o] = [attempts[o] EXCEPT ![n] = x]
      BY <2>4
    <3>2. Len([attempts[o] EXCEPT ![n] = x]) = Len(attempts[o])
      BY <2>2
    <3> QED
      BY <3>1, <3>2
  <2> QED
    BY <2>3, <2>4
<1>1. AttemptBudget'
  <2> SUFFICES ASSUME NEW o \in Obs
               PROVE  obs'[o].attempts = Len(attempts'[o]) /\ Len(attempts'[o]) <= MaxAttempts
    BY DEF AttemptBudget
  <2>1. obs[o].attempts = Len(attempts[o]) /\ Len(attempts[o]) <= MaxAttempts
        /\ Len(attempts[o]) \in Nat
    BY <1>inv, <1>ty DEF AttemptBudget, TypeOK
  <2>2. CASE \E w \in Workers : Claim(w) /\ ObsOf(w) = o
    BY <2>1, <2>2, <1>claim
  <2>3. CASE ~ \E w \in Workers : Claim(w) /\ ObsOf(w) = o
    BY <2>1, <2>3, <1>inv, <1>len, ObsStep
  <2> QED BY <2>2, <2>3
<1>2. LeaseIsNewest'
  <2> SUFFICES ASSUME NEW o \in Obs
               PROVE  IF obs'[o].status = "processing"
                      THEN obs'[o].token = Len(attempts'[o]) /\ obs'[o].token > 0
                      ELSE obs'[o].token = 0 /\ obs'[o].lease = 0
    BY DEF LeaseIsNewest
  <2>1. Len(attempts[o]) \in Nat /\ obs[o].lease \in Nat
    BY <1>ty DEF TypeOK, ObsRow
  <2>2. CASE \E w \in Workers : Claim(w) /\ ObsOf(w) = o
    BY <2>1, <2>2, <1>claim
  <2>3. CASE ~ \E w \in Workers : Claim(w) /\ ObsOf(w) = o
    <3>1. Less(0) = 0
      BY DEF Less
    <3> QED
      BY <2>1, <2>3, <3>1, <1>inv, <1>len, ObsStep DEF LeaseIsNewest
  <2> QED BY <2>2, <2>3
<1>3. AttemptsOwned'
  <2> SUFFICES ASSUME NEW v \in Workers, InAttempt(v)'
               PROVE  worker'[v].att \in 1 .. Len(attempts'[worker'[v].msg.obs])
    BY DEF AttemptsOwned, ObsOf
  <2>1. ASSUME InAttempt(v), worker'[v].msg = worker[v].msg, worker'[v].att = worker[v].att
        PROVE  worker'[v].att \in 1 .. Len(attempts'[worker'[v].msg.obs])
    <3>1. ObsOf(v) \in Obs
      BY <2>1, <1>inv, ObsOfBusy DEF InAttempt, Busy
    <3>2. worker[v].att \in 1 .. Len(attempts[ObsOf(v)])
      BY <2>1, <1>inv DEF AttemptsOwned
    <3> QED
      BY <2>1, <3>1, <3>2, <1>inv, AttemptsMonotone DEF ObsOf
  <2>2. ASSUME Claim(v), worker'[v].msg = worker[v].msg,
               worker'[v].att = AttemptNumber(ObsOf(v))
        PROVE  worker'[v].att \in 1 .. Len(attempts'[worker'[v].msg.obs])
    <3>1. ObsOf(v) \in Obs
      BY <2>2, <1>inv, ObsOfBusy DEF Claim, At, Busy
    <3>2. Len(attempts[ObsOf(v)]) \in Nat
      BY <3>1, <1>ty DEF TypeOK
    <3> QED
      BY <2>2, <3>1, <3>2, <1>claim DEF AttemptNumber, ObsOf
  <2>3. CompleteAttempt(v) => InAttempt(v)
    BY DEF CompleteAttempt, InAttempt, At
  <2>4. worker'[v].pc \in {"pipeline", "embed", "fail", "failEvent"}
    BY DEF InAttempt
  <2>5. worker'[v] = worker[v] => InAttempt(v)
    BY <2>4 DEF InAttempt
  <2> QED
    BY <2>1, <2>2, <2>3, <2>4, <2>5, <1>inv, ConsumerMoves
<1>4. AttemptExclusive'
  <2>0. ASSUME NEW v \in Workers, NEW w \in Workers, v # w, InAttempt(v)', InAttempt(w)',
               worker'[v].msg.obs = worker'[w].msg.obs, worker'[w] = worker[w]
        PROVE  worker'[v].att # worker'[w].att
    <3>1. worker'[v].pc \in {"pipeline", "embed", "fail", "failEvent"} /\ InAttempt(w)
      BY <2>0 DEF InAttempt
    <3>2. CASE InAttempt(v) /\ worker'[v].msg = worker[v].msg /\ worker'[v].att = worker[v].att
      BY <2>0, <3>1, <3>2, <1>inv DEF AttemptExclusive, ObsOf
    <3>3. CASE Claim(v) /\ worker'[v].msg = worker[v].msg
               /\ worker'[v].att = AttemptNumber(ObsOf(v))
      <4>1. ObsOf(v) \in Obs /\ ObsOf(w) = ObsOf(v)
        BY <2>0, <3>3, <1>inv, ObsOfBusy DEF Claim, At, Busy, ObsOf
      <4>2. worker[w].att \in 1 .. Len(attempts[ObsOf(v)]) /\ Len(attempts[ObsOf(v)]) \in Nat
        BY <3>1, <4>1, <1>inv, <1>ty DEF AttemptsOwned, TypeOK
      <4> QED
        BY <2>0, <3>3, <4>2 DEF AttemptNumber
    <3>4. CompleteAttempt(v) => InAttempt(v)
      BY DEF CompleteAttempt, InAttempt, At
    <3>5. worker'[v] = worker[v] => InAttempt(v)
      BY <3>1 DEF InAttempt
    <3> QED
      BY <3>1, <3>2, <3>3, <3>4, <3>5, <1>inv, ConsumerMoves
  <2>1. ASSUME NEW v \in Workers, NEW w \in Workers, v # w, InAttempt(v)', InAttempt(w)',
               worker'[v].msg.obs = worker'[w].msg.obs
        PROVE  worker'[v].att # worker'[w].att
    <3>1. worker'[v] = worker[v] \/ worker'[w] = worker[w]
      BY <2>1, <1>inv, OneMoves
    <3> QED
      BY <2>0, <2>1, <3>1
  <2> QED
    BY <2>1 DEF AttemptExclusive, ObsOf
<1>complete. ASSUME NEW w \in Workers, CompleteAttempt(w)
             PROVE  /\ ObsOf(w) \in Obs
                    /\ worker[w].att \in 1 .. Len(attempts'[ObsOf(w)])
                    /\ attempts'[ObsOf(w)][worker[w].att] = "completed"
  <2>1. InAttempt(w) /\ Busy(w)
    BY <1>complete DEF CompleteAttempt, At, InAttempt, Busy
  <2>2. ObsOf(w) \in Obs /\ worker[w].att \in 1 .. Len(attempts[ObsOf(w)])
    BY <2>1, <1>inv, ObsOfBusy DEF AttemptsOwned
  <2>3. attempts[ObsOf(w)] \in Seq(AttemptStatus)
    BY <2>2, <1>ty DEF TypeOK
  <2>4. attempts'[ObsOf(w)] = [attempts[ObsOf(w)] EXCEPT ![worker[w].att] = "completed"]
    BY <1>complete, <2>2, <1>ty DEF CompleteAttempt, TypeOK
  <2> QED
    BY <2>2, <2>3, <2>4, ExceptSeq DEF AttemptStatus
<1>5. StageCommitted'
  <2> SUFFICES ASSUME NEW v \in Workers
               PROVE  /\ worker'[v].pc = "embed" =>
                           attempts'[worker'[v].msg.obs][worker'[v].att] = "completed"
                      /\ worker'[v].pc = "publish" => Committed(worker[v].msg.obs)'
                                                      /\ worker'[v].msg = worker[v].msg
    BY DEF StageCommitted, At, ObsOf, Committed
  <2>1. ASSUME worker'[v].pc = "embed"
        PROVE  attempts'[worker'[v].msg.obs][worker'[v].att] = "completed"
    <3>1. CASE worker'[v] = worker[v]
      <4>1. At(v, "embed") /\ InAttempt(v) /\ Busy(v)
        BY <2>1, <3>1 DEF At, InAttempt, Busy
      <4>2. /\ ObsOf(v) \in Obs
            /\ worker[v].att \in 1 .. Len(attempts[ObsOf(v)])
            /\ attempts[ObsOf(v)][worker[v].att] = "completed"
        BY <4>1, <1>inv, ObsOfBusy DEF StageCommitted, AttemptsOwned
      <4> QED
        BY <3>1, <4>2, <1>inv, AttemptsMonotone DEF ObsOf
    <3>2. CASE CompleteAttempt(v) /\ worker'[v].msg = worker[v].msg
               /\ worker'[v].att = worker[v].att
      BY <3>2, <1>complete DEF ObsOf
    <3> QED
      BY <2>1, <3>1, <3>2, <1>inv, ConsumerMoves
  <2>2. ASSUME worker'[v].pc = "publish"
        PROVE  Committed(worker[v].msg.obs)' /\ worker'[v].msg = worker[v].msg
    <3>1. /\ worker'[v].msg = worker[v].msg
          /\ \/ At(v, "publish") \/ At(v, "embed")
             \/ obs[ObsOf(v)].status = "completed"
      BY <2>2, <1>inv, ConsumerMoves DEF At
    <3>2. worker'[v].msg \in Msgs
      BY <2>2, <1>ty DEF TypeInv, BusyHasMsg, Busy
    <3>3. ObsOf(v) \in Obs
      BY <3>1, <3>2 DEF ObsOf, Msgs
    <3>4. At(v, "embed") => Committed(ObsOf(v))
      BY <1>inv DEF At, InAttempt, AttemptsOwned, StageCommitted, Committed
    <3>5. Committed(ObsOf(v))
      BY <3>1, <3>3, <3>4, <1>inv DEF StageCommitted, SettledIsCommitted
    <3> QED
      BY <3>1, <3>3, <3>5, <1>inv, CommittedMonotone DEF ObsOf, Committed
  <2> QED
    BY <2>1, <2>2
<1>6. SettledIsCommitted'
  <2> SUFFICES ASSUME NEW o \in Obs,
                      event'[o].status = "published" \/ obs'[o].status = "completed"
               PROVE  Committed(o)'
    BY DEF SettledIsCommitted
  <2>1. CASE event'[o].status = "published"
    <3>1. Committed(o)
      BY <2>1, <1>inv, EventStep DEF SettledIsCommitted, StageCommitted
    <3> QED
      BY <3>1, <1>inv, CommittedMonotone
  <2>2. CASE obs'[o].status = "completed"
    <3>1. \/ obs[o].status = "completed"
          \/ \E w \in Workers : CompleteAttempt(w) /\ ObsOf(w) = o
      BY <2>2, <1>inv, <1>claim, ObsStep
    <3>2. CASE obs[o].status = "completed"
      BY <3>2, <1>inv, CommittedMonotone DEF SettledIsCommitted
    <3>3. CASE \E w \in Workers : CompleteAttempt(w) /\ ObsOf(w) = o
      BY <3>3, <1>complete DEF Committed
    <3> QED BY <3>1, <3>2, <3>3
  <2> QED BY <2>1, <2>2
<1>7. DeadLetterIsSpent'
  <2> SUFFICES ASSUME NEW o \in deadLetters' PROVE obs'[o].attempts = MaxAttempts
    BY DEF DeadLetterIsSpent
  <2>1. deadLetters' = deadLetters
        \/ \E w \in Workers : FailAttempt(w)
    BY DEF Next, DispatcherStep, ConsumerStep, vars, rows, Accept, DispatchClaim, Publish,
           PublishFailed, Take, Claim, ClaimSkipped, CompleteAttempt, PipelineFailed,
           EnqueueEmbeddings, EnqueueFailed, MarkPublished, FailEvent, DbError, Release,
           ReleaseFailed, Crash, Tick
  <2>2. o \in Obs /\ obs[o].attempts = Len(attempts[o]) /\ Len(attempts[o]) <= MaxAttempts
        /\ Len(attempts[o]) \in Nat
    BY <1>ty, <1>inv DEF TypeInv, TypeOK, AttemptBudget
  <2>3. obs[o].attempts = MaxAttempts
    <3>1. CASE o \in deadLetters
      BY <3>1, <1>inv DEF DeadLetterIsSpent
    <3>2. CASE o \notin deadLetters
      BY <2>1, <2>2, <3>2 DEF FailAttempt, Spent
    <3> QED BY <3>1, <3>2
  <2> QED
    BY <2>2, <2>3, <1>inv, <1>claim, ObsStep
<1>8. EmbedAfterCommit'
  <2> SUFFICES ASSUME NEW e \in embeds'
               PROVE  e[2] \in 1 .. Len(attempts'[e[1]]) /\ attempts'[e[1]][e[2]] = "completed"
    BY DEF EmbedAfterCommit
  <2>1. embeds' = embeds \/ \E w \in Workers : EnqueueEmbeddings(w)
    BY DEF Next, DispatcherStep, ConsumerStep, vars, rows, Accept, DispatchClaim, Publish,
           PublishFailed, Take, Claim, ClaimSkipped, CompleteAttempt, PipelineFailed,
           EnqueueFailed, MarkPublished, FailAttempt, FailEvent, DbError, Release,
           ReleaseFailed, Crash, Tick
  <2>2. e[1] \in Obs /\ e[2] \in 1 .. Len(attempts[e[1]]) /\ attempts[e[1]][e[2]] = "completed"
    <3>1. CASE e \in embeds
      BY <3>1, <1>inv, <1>ty DEF EmbedAfterCommit, TypeOK
    <3>2. CASE e \notin embeds
      <4>1. PICK w \in Workers : EnqueueEmbeddings(w)
        BY <2>1, <3>2
      <4>2. e = <<ObsOf(w), worker[w].att>> /\ At(w, "embed")
        BY <3>2, <4>1 DEF EnqueueEmbeddings
      <4>3. InAttempt(w) /\ Busy(w)
        BY <4>2 DEF At, InAttempt, Busy
      <4> QED
        BY <4>2, <4>3, <1>inv, ObsOfBusy DEF AttemptsOwned, StageCommitted
    <3> QED BY <3>1, <3>2
  <2> QED
    BY <2>2, <1>inv, AttemptsMonotone
<1> QED
  BY <1>ty, <1>1, <1>2, <1>3, <1>4, <1>5, <1>6, <1>7, <1>8 DEF IInv

\* The inductive invariant holds in every state.
LEMMA InvAlways == Spec => []IInv
BY InvInit, InvNext, PTL DEF Spec

\* No event is retired as published and no observation reported as completed before the
\* memories of one of its attempts are committed.
THEOREM NoSilentLoss == Spec => []SettledIsCommitted
<1>1. IInv => SettledIsCommitted
  BY DEF IInv
<1> QED
  BY <1>1, InvAlways, PTL

\* No observation is attempted more often than max_attempts, and attempt numbers never
\* collide or leave a gap.
THEOREM BudgetKept == Spec => []AttemptBudget
<1>1. IInv => AttemptBudget
  BY DEF IInv
<1> QED
  BY <1>1, InvAlways, PTL

\* No two consumers run the same attempt of an observation.
THEOREM AttemptsExclusive == Spec => []AttemptExclusive
<1>1. IInv => AttemptExclusive
  BY DEF IInv
<1> QED
  BY <1>1, InvAlways, PTL

\* A lease that is in force is the one of the newest attempt.
THEOREM LeaseNewest == Spec => []LeaseIsNewest
<1>1. IInv => LeaseIsNewest
  BY DEF IInv
<1> QED
  BY <1>1, InvAlways, PTL

\* An ingestion_dead_letter row means that every attempt was used, and an embedding task
\* that its memories are committed.
THEOREM SideRecordsTrue == Spec => [](DeadLetterIsSpent /\ EmbedAfterCommit)
<1>1. IInv => DeadLetterIsSpent /\ EmbedAfterCommit
  BY DEF IInv
<1> QED
  BY <1>1, InvAlways, PTL

\* The records of an observation, of its attempts, of its dead letter and of its embedding tasks
\* agree, whatever the order in which their transactions commit or fail.
THEOREM RecordsAlwaysAgree == Spec => []RecordsAgree
<1>1. IInv => RecordsAgree
  BY DEF IInv, RecordsAgree
<1> QED
  BY <1>1, InvAlways, PTL

\* The memories of an attempt, once committed, are never disowned.
THEOREM CommitsKept == Spec => CommittedForever
<1>1. ASSUME IInv, [Next]_vars
      PROVE  [\A o \in Obs : \A n \in 1 .. Len(attempts[o]) :
                 attempts[o][n] = "completed" => attempts'[o][n] = "completed"]_vars
  BY <1>1, AttemptsMonotone DEF IInv
<1> QED
  BY <1>1, InvAlways, PTL DEF Spec, CommittedForever
=============================================================================
