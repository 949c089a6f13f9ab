----------------------------- MODULE Grounding ------------------------------
(***************************************************************************)
(* When a memory happened: the times of messages, the message an extracted *)
(* memory is about, and the two passes that read its expressions of time.  *)
(*                                                                         *)
(*   contexta/core/temporal.py            the context of a message         *)
(*   contexta/core/extraction/worker.py   the pass over what a model says  *)
(*   contexta/core/pipeline.py            the pass before it is stored     *)
(*                                                                         *)
(* A stamp is a moment in UTC with the offset it was written with; what an *)
(* expression means is a moment of the zone it is read in.                 *)
(***************************************************************************)
EXTENDS Calendar

NoStamp == [at |-> None, offset |-> 0]
NoZone  == 99
Arrival == -2        \* when the observation is taken in

\* A message:  [id, source, occurred, observed, event, zone, said]
\* A payload:  [id, source, occurred, observed, event, zone, messages]
\* An item that a model extracts from it:  [message, like, said, event, observed, zone], where
\* like[i] is the number of words it shares with message i, and said the expressions in it.

Given(stamp)       == stamp.at # None
OrElse(a, b)       == IF Given(a) THEN a ELSE b
LocalOf(utc, zone) == IF utc = None THEN None ELSE utc + zone
UtcOf(moment, zone) == IF moment = None THEN None ELSE moment - zone

\* The zone that is named, or that of the timestamp.
CoerceTimezone(zone, stamp) == IF zone # NoZone THEN zone ELSE IF Given(stamp) THEN stamp.offset ELSE 0

Readings(said, ref, zone) == [i \in DOMAIN said |-> Resolve(said[i], LocalOf(ref, zone))]

Lowest(S) == CHOOSE i \in S : \A j \in S : i <= j
FirstResolved(readings) ==
    LET found == {i \in DOMAIN readings : Resolved(readings[i])}
    IN  IF found = {} THEN NoMatch ELSE readings[Lowest(found)]

-----------------------------------------------------------------------------
(* the context of a message *)

Context(ref, observed, start, zone, basis, matches, ids) ==
    [ref |-> ref, observed |-> observed, start |-> IF start = None THEN ref ELSE start,
     zone |-> zone, basis |-> basis, matches |-> matches, ids |-> ids]

NoContext == Context(None, None, None, 0, "none", <<>>, {})

\* A message's own zone and the payload's, then the one its timestamp carries.
MessageZone(m, p) ==
    CoerceTimezone(IF m.zone # NoZone THEN m.zone ELSE p.zone,
                   OrElse(m.occurred, OrElse(m.observed, OrElse(p.occurred, p.observed))))

MessageReference(m, p) ==
    OrElse(OrElse(m.occurred, p.occurred), OrElse(OrElse(m.observed, p.observed), m.event)).at

MessageBasis(m, p, readings) ==
    CASE Given(m.occurred) -> "message_occurred_at"
      [] ~Given(m.occurred) /\ Given(p.occurred) -> "payload_occurred_at"
      [] ~Given(OrElse(m.occurred, p.occurred)) /\ Given(m.observed) -> "message_observed_at"
      [] ~Given(OrElse(m.occurred, OrElse(p.occurred, m.observed))) /\ Given(p.observed) ->
            "payload_observed_at"
      [] OTHER -> IF Resolved(FirstResolved(readings)) THEN FirstResolved(readings).basis
                  ELSE "unavailable"

\* What a message goes by: its id and that of its source, or those of the payload.
OrOf(x, y) == IF x # "none" THEN x ELSE y
IdsOf(m, p) == {OrOf(m.id, p.id), OrOf(m.source, p.source)} \ {"none"}

\* An event time that is given, else the first time the text speaks of, else when it was said.
NormalizeMessage(m, p) ==
    LET zone     == MessageZone(m, p)
        ref      == MessageReference(m, p)
        readings == Readings(m.said, ref, zone)
        spoken   == UtcOf(FirstResolved(readings).start, zone)
    IN  Context(ref, OrElse(m.observed, p.observed).at,
                IF Given(m.event) THEN m.event.at ELSE spoken,
                zone, MessageBasis(m, p, readings), readings,
                IdsOf(m, p))

NormalizeMessages(p) == [i \in DOMAIN p.messages |-> NormalizeMessage(p.messages[i], p)]

\* The worker lets an event time of the payload stand for when it occurred.
WorkerPayload(p) == [p EXCEPT !.occurred = OrElse(p.occurred, p.event)]

CommonContext(contexts, p) ==
    LET dated == {i \in DOMAIN contexts : contexts[i].ref # None}
        first == contexts[Lowest(dated)]
        said  == OrElse(p.occurred, p.observed).at
    IN  IF dated = {}
        THEN IF said = None THEN NoContext
             ELSE Context(said, p.observed.at, said, IF p.zone = NoZone THEN 0 ELSE p.zone,
                          IF Given(p.occurred) THEN "payload_occurred_at" ELSE "payload_observed_at",
                          <<>>, IdsOf(p, p))
        ELSE IF \E i \in dated : <<contexts[i].ref, contexts[i].zone>> # <<first.ref, first.zone>>
             THEN Context(None, None, None, first.zone, "ambiguous_message_timestamps", <<>>, {})
             ELSE first

-----------------------------------------------------------------------------
(* the message an item is about *)

\* The one with the most words in common, if there is just one and it has any.
Likest(item, dated) ==
    LET best == {i \in dated : item.like[i] > 0 /\ \A j \in dated \ {i} : item.like[j] < item.like[i]}
    IN  IF best = {} THEN 0 ELSE Lowest(best)

\* (WordsFirst: whichever it names.)
WordsFirst(item, contexts) == Likest(item, {i \in DOMAIN contexts : contexts[i].ref # None})
ContextMessage(item, contexts) ==
    LET named == {i \in DOMAIN contexts : item.message \in contexts[i].ids}
        dated == {i \in DOMAIN contexts : contexts[i].ref # None}
    IN  CASE named # {} -> Lowest(named)
          [] named = {} /\ dated = {} -> IF Len(contexts) = 1 THEN 1 ELSE 0
          [] named = {} /\ (\A i, j \in dated : /\ contexts[i].ref = contexts[j].ref
                                             /\ contexts[i].zone = contexts[j].zone) -> Lowest(dated)
          [] OTHER -> Likest(item, dated)

\* With no message, the times of the payload as it was sent.
ContextForMemory(item, p, contexts) ==
    LET i    == ContextMessage(item, contexts)
        said == OrElse(p.occurred, p.observed).at
    IN  IF i # 0 THEN contexts[i]
        ELSE IF said = None THEN NoContext
        ELSE Context(said, p.observed.at, said, IF p.zone = NoZone THEN 0 ELSE p.zone,
                     IF Given(p.occurred) THEN "payload_occurred_at" ELSE "payload_observed_at",
                     <<>>, IdsOf(p, p))

-----------------------------------------------------------------------------
(* the first pass: the worker *)

\* Where the context has no reference, the event the model gives, and then the payload.
ItemReference(item, p, ctx) ==
    IF ctx.ref # None THEN ctx.ref
    ELSE OrElse(item.event, OrElse(p.event, OrElse(p.occurred, p.observed))).at

\* What the model says outright, what the text says, what its message says, when it was said.
EventOf(item, ctx, readings, zone) ==
    LET spoken == FirstResolved(readings \o ctx.matches)
    IN  CASE Given(item.event) -> [at |-> item.event.at, precision |-> "exact", basis |-> "extracted_event_at"]
          [] ~Given(item.event) /\ Resolved(spoken) ->
                [at |-> UtcOf(spoken.start, zone), precision |-> spoken.precision, basis |-> spoken.basis]
          [] ~Given(item.event) /\ ~Resolved(spoken) /\ ctx.start # None ->
                [at |-> ctx.start, precision |-> "exact", basis |-> ctx.basis]
          [] OTHER -> [at |-> None, precision |-> "unknown", basis |-> "ingestion_fallback"]

ApplyTemporalMetadata(item, p, contexts) ==
    LET ctx      == ContextForMemory(item, p, contexts)
        zone     == CASE item.zone # NoZone -> item.zone
                      [] item.zone = NoZone /\ ctx # NoContext -> ctx.zone
                      [] OTHER -> IF p.zone = NoZone THEN 0 ELSE p.zone
        readings == Readings(item.said, ItemReference(item, p, ctx), zone)
        event    == EventOf(item, ctx, readings, zone)
    IN  [item |-> item, readings |-> readings, zone |-> zone, event |-> event.at,
         precision |-> event.precision, basis |-> event.basis,
         observed |-> CASE Given(item.observed) -> item.observed.at
                        [] ~Given(item.observed) /\ ctx.observed # None -> ctx.observed
                        [] OTHER -> Arrival]

-----------------------------------------------------------------------------
(* the second pass: the orchestrator *)

\* What is written out as a date reads as itself; what is left is read with what all messages share.
Reread(memory, common) ==
    [i \in DOMAIN memory.readings |->
        IF Resolved(memory.readings[i]) THEN memory.readings[i]
        ELSE Resolve(memory.item.said[i], LocalOf(common.ref, common.zone))]

GroundMemoryTemporal(memory, common) ==
    LET again  == Reread(memory, common)
        spoken == FirstResolved(again)
        event  == CASE memory.event # None -> memory.event
                    [] memory.event = None /\ Resolved(spoken) -> UtcOf(spoken.start, common.zone)
                    [] OTHER -> common.ref
    IN  [memory EXCEPT !.readings = again, !.event = event,
                       !.observed = IF @ = None THEN common.observed ELSE @]
=============================================================================
