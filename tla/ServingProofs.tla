--------------------------- MODULE ServingProofs ---------------------------
(***************************************************************************)
(* What Serving promises for any number of calls, keys and tenants: what   *)
(* the caches of both doors give out, and whom the limits turn away.       *)
(***************************************************************************)
EXTENDS Serving, FiniteSetTheorems, TLAPS

-----------------------------------------------------------------------------
(* functions and numbers *)

LEMMA MinOfTwo ==
    ASSUME NEW a \in Int, NEW b \in Int
    PROVE  Min({a, b}) \in {a, b} /\ Min({a, b}) <= a /\ Min({a, b}) <= b
  <1>1. \E x \in {a, b} : \A y \in {a, b} : x <= y
    OBVIOUS
  <1> QED BY <1>1 DEF Min

-----------------------------------------------------------------------------
(* the frame of a step *)

ReqFields == {"pc", "key", "who", "of", "saw", "answer", "made", "used", "at", "gateAt", "apiAt"}
Shaped == DOMAIN req = DOMAIN calls /\ \A i \in DOMAIN req : DOMAIN req[i] = ReqFields

Only(i, fields) == \A f \in ReqFields \ (fields \cup {"used"}) : req'[i][f] = req[i][f]

\* A step of one call changes nothing of another but that its stream is used up.
Reshaped(i) ==
    DOMAIN req' = DOMAIN req /\ (\A j \in DOMAIN req : DOMAIN req'[j] = ReqFields) /\ \A j \in DOMAIN req \ {i} : Only(j, {})
Framed(i) == NotKeys /\ Shaped' /\ Reshaped(i)

\* What becomes of the call itself.
Moved(i, pc)     == req'[i].pc = pc /\ Only(i, {"pc"})
Given(i, a)      == req'[i].pc = "answered" /\ req'[i].answer = a /\ req'[i].at = now /\ Only(i, {"pc", "answer", "at"})
Passed(i, a)     == req'[i].pc = "edge_store" /\ req'[i].answer = a /\ Only(i, {"pc", "answer"})
Returned(i, a)   == IF calls[i].door = "gateway" THEN Passed(i, a) ELSE Given(i, a)
Keyed(i, k)      == req'[i].pc = "gate_meter" /\ req'[i].key = k /\ Only(i, {"pc", "key"})
Admitted(i)      == req'[i].pc = "edge" /\ req'[i].gateAt = now /\ Only(i, {"pc", "gateAt"})
Unscoped(i)      == /\ req'[i].pc = "answered" /\ req'[i].answer = Answer(403) /\ req'[i].at = now /\ req'[i].gateAt = now
                    /\ Only(i, {"pc", "answer", "at", "gateAt"})
Follows(i, pc, l) == req'[i].pc = pc /\ req'[i].of = l /\ Only(i, {"pc", "of"})
Aborted(i)       == /\ req'[i].pc = "aborted" /\ req'[i].answer = Answer(502) /\ req'[i].at = now
                    /\ Only(i, {"pc", "answer", "at"})
Received(i, pc, who) == req'[i].pc = pc /\ req'[i].who = who /\ Only(i, {"pc", "who"})
Looked(i, b)     == req'[i].pc = "charge" /\ req'[i].saw = b /\ Only(i, {"pc", "saw"})
Charged(i)       == req'[i].pc = "lookup" /\ req'[i].apiAt = now /\ Only(i, {"pc", "apiAt"})
Made(i, pc, a)   == req'[i].pc = pc /\ req'[i].made = a /\ Only(i, {"pc", "made"})

LEMMA GoDoes ==
    ASSUME Shaped, NEW i \in DOMAIN req, NEW pc, Go(i, pc) PROVE Reshaped(i) /\ Moved(i, pc)
  BY DEF Shaped, ReqFields, Only, Reshaped, Moved, Go

LEMMA GiveDoes ==
    ASSUME Shaped, NEW i \in DOMAIN req, NEW a, Give(i, a) PROVE Reshaped(i) /\ Given(i, a)
  BY DEF Shaped, ReqFields, Only, Reshaped, Given, Give

LEMMA ReturnDoes ==
    ASSUME Shaped, NEW i \in DOMAIN req, NEW a, Return(i, a) PROVE Reshaped(i) /\ Returned(i, a)
  <1>1. CASE calls[i].door = "gateway"
    BY <1>1 DEF Shaped, ReqFields, Only, Reshaped, Passed, Returned, Return
  <1>2. CASE calls[i].door # "gateway"
    BY <1>2, GiveDoes DEF Returned, Return
  <1> QED BY <1>1, <1>2

LEMMA PassDoes ==
    ASSUME Shaped, NEW i \in DOMAIN req, NEW l \in DOMAIN req, Pass(i, l)
    PROVE  Reshaped(i) /\ Returned(i, Body(l))
  <1> DEFINE sent == [req EXCEPT ![l].used = TRUE]
  <1>1. DOMAIN sent = DOMAIN req /\ \A j \in DOMAIN req :
          DOMAIN sent[j] = ReqFields /\ \A f \in ReqFields \ {"used"} : sent[j][f] = req[j][f]
    BY DEF Shaped, ReqFields
  <1> HIDE DEF sent
  <1>2. CASE calls[i].door = "gateway"
    <2>1. req' = [sent EXCEPT ![i].pc = "edge_store", ![i].answer = Body(l)]
      BY <1>2 DEF Pass, sent
    <2> QED BY <1>1, <1>2, <2>1 DEF ReqFields, Only, Reshaped, Passed, Returned
  <1>3. CASE calls[i].door # "gateway"
    <2>1. req' = [sent EXCEPT ![i].pc = "answered", ![i].answer = Body(l), ![i].at = now]
      BY <1>3 DEF Pass, sent
    <2> QED BY <1>1, <1>3, <2>1 DEF ReqFields, Only, Reshaped, Given, Returned
  <1> QED BY <1>2, <1>3

-----------------------------------------------------------------------------
(* what each step does *)

LEMMA VerifyDoes ==
    ASSUME Shaped, NEW i \in DOMAIN req, Verify(i)
    PROVE  /\ Framed(i) /\ At(i, "gate") /\ UNCHANGED <<known, buckets, edge, cached, flights, tasks>>
           /\ LET t == calls[i].token
              IN  \/ Given(i, Answer(401))
                  \/ t \in DOMAIN known /\ Keyed(i, known[t])
                  \/ t \in published /\ Moved(i, "gate_read")
  <1> DEFINE t == calls[i].token
  <1>0. DOMAIN calls' = DOMAIN calls
    BY DEF Verify, NotKeys, calls
  <1>1. CASE t \in DOMAIN known /\ req' = [req EXCEPT ![i].pc = "gate_meter", ![i].key = known[t]]
    <2>1. Keyed(i, known[t]) /\ Reshaped(i)
      BY <1>1 DEF Shaped, ReqFields, Only, Reshaped, Keyed
    <2> QED BY <1>0, <1>1, <2>1 DEF Verify, Framed, Reshaped, Shaped
  <1>2. CASE t \in published /\ Go(i, "gate_read")
    <2>1. Moved(i, "gate_read") /\ Reshaped(i)
      BY <1>2, GoDoes
    <2> QED BY <1>0, <1>2, <2>1 DEF Verify, Framed, Reshaped, Shaped
  <1>3. CASE Give(i, Answer(401))
    <2>1. Given(i, Answer(401)) /\ Reshaped(i)
      BY <1>3, GiveDoes
    <2> QED BY <1>0, <1>3, <2>1 DEF Verify, Framed, Reshaped, Shaped
  <1> QED BY <1>1, <1>2, <1>3 DEF Verify

LEMMA ReadKeyDoes ==
    ASSUME Shaped, NEW i \in DOMAIN req, ReadKey(i)
    PROVE  LET t == calls[i].token
               key == IF t \in published THEN Published(t) ELSE EmptyKey
           IN  /\ Framed(i) /\ At(i, "gate_read") /\ UNCHANGED <<buckets, edge, cached, flights, tasks>>
               /\ Keyed(i, key) /\ known' = With(known, t, key)
  BY DEF ReadKey, Shaped, ReqFields, Only, Reshaped, Keyed, Framed, NotKeys, calls

LEMMA GateMeterDoes ==
    ASSUME Shaped, NEW i \in DOMAIN req, GateMeter(i)
    PROVE  LET k == req[i].key
               tier == GateTier(k)
               b == Bucket(<<"gate", k.id>>, tier)
           IN  /\ Framed(i) /\ At(i, "gate_meter") /\ UNCHANGED <<known, edge, cached, flights, tasks>>
               /\ \/ /\ Filled(b, tier) >= 1 /\ buckets' = With(buckets, <<"gate", k.id>>, Take(b, tier))
                     /\ IF k.scopes = {} THEN Unscoped(i) ELSE Admitted(i)
                  \/ UNCHANGED buckets /\ Filled(b, tier) < 1 /\ Given(i, Answer(429))
                  \/ UNCHANGED buckets /\ Given(i, Answer(500))
  <1> DEFINE k == req[i].key
             tier == GateTier(k)
             b == Bucket(<<"gate", k.id>>, tier)
  <1>0. DOMAIN calls' = DOMAIN calls
    BY DEF GateMeter, NotKeys, calls
  <1>1. CASE /\ Filled(b, tier) >= 1 /\ buckets' = With(buckets, <<"gate", k.id>>, Take(b, tier))
             /\ IF k.scopes = {} THEN req' = [req EXCEPT ![i].pc = "answered", ![i].answer = Answer(403), ![i].at = now, ![i].gateAt = now]
                ELSE req' = [req EXCEPT ![i].pc = "edge", ![i].gateAt = now]
    <2>1. Reshaped(i) /\ IF k.scopes = {} THEN Unscoped(i) ELSE Admitted(i)
      BY <1>1 DEF Shaped, ReqFields, Only, Reshaped, Unscoped, Admitted
    <2> QED BY <1>0, <1>1, <2>1 DEF GateMeter, Framed, Reshaped, Shaped
  <1>2. ASSUME NEW status, Give(i, Answer(status)) PROVE Framed(i) /\ Given(i, Answer(status))
    <2>1. Reshaped(i) /\ Given(i, Answer(status))
      BY <1>2, GiveDoes
    <2> QED BY <1>0, <2>1 DEF GateMeter, Framed, Reshaped, Shaped
  <1> QED BY <1>1, <1>2 DEF GateMeter

LEMMA EdgeLookupDoes ==
    ASSUME Shaped, NEW i \in DOMAIN req, EdgeLookup(i)
    PROVE  /\ Framed(i) /\ At(i, "edge") /\ UNCHANGED <<known, buckets, edge, cached, flights, tasks>>
           /\ \/ Moved(i, "arrive")
              \/ calls[i].path \in CacheablePaths /\ EdgeKey(i) \in DOMAIN edge /\ Given(i, edge[EdgeKey(i)].answer)
              \/ calls[i].path \in CacheablePaths /\ Moved(i, "edge_join")
  <1>0. DOMAIN calls' = DOMAIN calls
    BY DEF EdgeLookup, NotKeys, calls
  <1>1. CASE Go(i, "arrive")
    BY <1>0, <1>1, GoDoes DEF EdgeLookup, Framed, Reshaped, Shaped
  <1>2. CASE calls[i].path \in CacheablePaths /\ EdgeKey(i) \in DOMAIN edge /\ Give(i, edge[EdgeKey(i)].answer)
    BY <1>0, <1>2, GiveDoes DEF EdgeLookup, Framed, Reshaped, Shaped
  <1>3. CASE calls[i].path \in CacheablePaths /\ Go(i, "edge_join")
    BY <1>0, <1>3, GoDoes DEF EdgeLookup, Framed, Reshaped, Shaped
  <1> QED BY <1>1, <1>2, <1>3 DEF EdgeLookup

LEMMA EdgeJoinDoes ==
    ASSUME Shaped, NEW i \in DOMAIN req, EdgeJoin(i)
    PROVE  /\ Framed(i) /\ At(i, "edge_join") /\ UNCHANGED <<known, buckets, edge, cached, tasks>>
           /\ LET k == EdgeKey(i)
              IN  \/ k \notin DOMAIN flights /\ flights' = With(flights, k, i) /\ Moved(i, "arrive")
                  \/ k \in DOMAIN flights /\ UNCHANGED flights /\ Follows(i, "edge_wait", flights[k])
  <1> DEFINE k == EdgeKey(i)
  <1>0. DOMAIN calls' = DOMAIN calls
    BY DEF EdgeJoin, NotKeys, calls
  <1>1. CASE k \notin DOMAIN flights /\ flights' = With(flights, k, i) /\ Go(i, "arrive")
    BY <1>0, <1>1, GoDoes DEF EdgeJoin, Framed, Reshaped, Shaped
  <1>2. CASE k \in DOMAIN flights /\ req' = [req EXCEPT ![i].pc = "edge_wait", ![i].of = flights[k]] /\ UNCHANGED flights
    <2>1. Reshaped(i) /\ Follows(i, "edge_wait", flights[k])
      BY <1>2 DEF Shaped, ReqFields, Only, Reshaped, Follows
    <2> QED BY <1>0, <1>2, <2>1 DEF EdgeJoin, Framed, Reshaped, Shaped
  <1> QED BY <1>1, <1>2 DEF EdgeJoin

LEMMA EdgeAbortDoes ==
    ASSUME Shaped, NEW i \in DOMAIN req, EdgeAbort(i)
    PROVE  /\ Framed(i) /\ At(i, "edge_store") /\ Aborted(i)
           /\ UNCHANGED <<known, buckets, edge, cached, flights, tasks>>
  <1> DEFINE a == Answer(502)
  <1>1. req' = [req EXCEPT ![i].pc = "aborted", ![i].answer = a, ![i].at = now]
    BY DEF EdgeAbort
  <1> HIDE DEF a
  <1>2. Reshaped(i) /\ req'[i].pc = "aborted" /\ req'[i].answer = a /\ req'[i].at = now /\ Only(i, {"pc", "answer", "at"})
    BY <1>1 DEF Shaped, ReqFields, Only, Reshaped
  <1>3. Aborted(i)
    BY <1>2 DEF Aborted, a
  <1> QED BY <1>2, <1>3 DEF EdgeAbort, Framed, Reshaped, Shaped, NotKeys, calls

LEMMA EdgeStoreDoes ==
    ASSUME Shaped, NEW i \in DOMAIN req, EdgeStore(i)
    PROVE  /\ Framed(i) /\ At(i, "edge_store") /\ Moved(i, "edge_land")
           /\ UNCHANGED <<known, buckets, cached, flights, tasks>>
           /\ \/ UNCHANGED edge
              \/ /\ Leads(i) /\ req[i].answer.status = 200
                 /\ edge' = With(edge, EdgeKey(i), [answer |-> req[i].answer, until |-> now + TTL])
  <1>1. DOMAIN calls' = DOMAIN calls
    BY DEF EdgeStore, NotKeys, calls
  <1> QED BY <1>1, GoDoes DEF EdgeStore, Framed, Reshaped, Shaped

LEMMA EdgeLandDoes ==
    ASSUME Shaped, NEW i \in DOMAIN req, EdgeLand(i)
    PROVE  /\ Framed(i) /\ At(i, "edge_land") /\ Given(i, req[i].answer)
           /\ UNCHANGED <<known, buckets, edge, cached, tasks>>
           /\ flights' = IF Leads(i) THEN Restrict(flights, DOMAIN flights \ {EdgeKey(i)}) ELSE flights
  <1>1. DOMAIN calls' = DOMAIN calls
    BY DEF EdgeLand, NotKeys, calls
  <1> QED BY <1>1, GiveDoes DEF EdgeLand, Framed, Reshaped, Shaped

LEMMA EdgeWaitDoes ==
    ASSUME Shaped, NEW i \in DOMAIN req, EdgeWait(i)
    PROVE  /\ Framed(i) /\ At(i, "edge_wait") /\ UNCHANGED <<known, buckets, edge, cached, flights, tasks>>
           /\ \/ At(req[i].of, "answered") /\ Given(i, req[req[i].of].answer)
              \/ Given(i, Answer(504))
  <1>1. DOMAIN calls' = DOMAIN calls
    BY DEF EdgeWait, NotKeys, calls
  <1> QED BY <1>1, GiveDoes DEF EdgeWait, Framed, Reshaped, Shaped

LEMMA AnswersOfArrival ==
    ASSUME NEW c
    PROVE  Tenant(c, Authenticate(c)) \in {200, 400, 401, 403}
  <1>1. Authenticate(c).status \in {200, 400, 401, 403}
    BY DEF Authenticate, ByKey, Nobody, Refuse
  <1> QED BY <1>1 DEF Tenant

LEMMA ArriveDoes ==
    ASSUME Shaped, NEW i \in DOMAIN req, Arrive(i)
    PROVE  LET who == Authenticate(Sent(i))
           IN  /\ Framed(i) /\ At(i, "arrive") /\ UNCHANGED <<known, buckets, edge, cached, flights, tasks>>
               /\ \/ \E status \in {400, 401, 403, 503} : Returned(i, Answer(status))
                  \/ /\ Tenant(Sent(i), who) = 200
                     /\ Received(i, IF calls[i].path = "healthz" THEN "solo" ELSE "meter", who)
  <1> DEFINE who == Authenticate(Sent(i))
             status == Tenant(Sent(i), who)
             next == IF calls[i].path = "healthz" THEN "solo" ELSE "meter"
  <1>0. DOMAIN calls' = DOMAIN calls /\ status \in {200, 400, 401, 403}
    BY AnswersOfArrival DEF Arrive, NotKeys, calls
  <1> HIDE DEF who, status, next
  <1>1. CASE status = 200 /\ req' = [req EXCEPT ![i].pc = next, ![i].who = who]
    <2>1. Reshaped(i) /\ Received(i, next, who)
      BY <1>1 DEF Shaped, ReqFields, Only, Reshaped, Received
    <2> QED BY <1>0, <1>1, <2>1 DEF Arrive, Framed, Reshaped, Shaped, who, status, next
  <1>2. CASE \E s \in {400, 401, 403, 503} : Return(i, Answer(s))
    <2>1. Reshaped(i) /\ \E s \in {400, 401, 403, 503} : Returned(i, Answer(s))
      BY <1>2, ReturnDoes
    <2> QED BY <1>0, <2>1 DEF Arrive, Framed, Reshaped, Shaped
  <1>3. \/ status = 200 /\ req' = [req EXCEPT ![i].pc = next, ![i].who = who]
        \/ status # 200 /\ Return(i, Answer(status))
        \/ Return(i, Answer(503))
    BY DEF Arrive, who, status, next
  <1> QED BY <1>0, <1>1, <1>2, <1>3

LEMMA MeterDoes ==
    ASSUME Shaped, NEW i \in DOMAIN req, Meter(i)
    PROVE  /\ Framed(i) /\ At(i, "meter") /\ UNCHANGED <<known, buckets, edge, cached, flights, tasks>>
           /\ Looked(i, Bucket(Identity(i), Tier(i))) \/ Moved(i, "lookup")
  <1> DEFINE b == Bucket(Identity(i), Tier(i))
  <1>0. DOMAIN calls' = DOMAIN calls
    BY DEF Meter, NotKeys, calls
  <1> HIDE DEF b
  <1>1. CASE req' = [req EXCEPT ![i].pc = "charge", ![i].saw = b]
    <2>1. Reshaped(i) /\ Looked(i, b)
      BY <1>1 DEF Shaped, ReqFields, Only, Reshaped, Looked
    <2> QED BY <1>0, <2>1 DEF Meter, Framed, Reshaped, Shaped, b
  <1>2. CASE Go(i, "lookup")
    BY <1>0, <1>2, GoDoes DEF Meter, Framed, Reshaped, Shaped
  <1> QED BY <1>1, <1>2 DEF Meter, b

LEMMA ChargeDoes ==
    ASSUME Shaped, NEW i \in DOMAIN req, Charge(i)
    PROVE  LET available == Filled(req[i].saw, Tier(i))
           IN  /\ Framed(i) /\ At(i, "charge") /\ UNCHANGED <<known, edge, cached, flights, tasks>>
               /\ \/ /\ buckets' = With(buckets, Identity(i), [last |-> now, tokens |-> Remaining(available)])
                     /\ IF available >= 1 THEN Charged(i) ELSE Returned(i, Answer(429))
                  \/ UNCHANGED buckets /\ Moved(i, "lookup")
  <1> DEFINE available == Filled(req[i].saw, Tier(i))
             b == With(buckets, Identity(i), [last |-> now, tokens |-> Remaining(available)])
  <1>0. DOMAIN calls' = DOMAIN calls
    BY DEF Charge, NotKeys, calls
  <1> HIDE DEF available, b
  <1>1. CASE available >= 1 /\ buckets' = b /\ req' = [req EXCEPT ![i].pc = "lookup", ![i].apiAt = now]
    <2>1. Reshaped(i) /\ Charged(i)
      BY <1>1 DEF Shaped, ReqFields, Only, Reshaped, Charged
    <2> QED BY <1>0, <1>1, <2>1 DEF Charge, Framed, Reshaped, Shaped, available, b
  <1>2. CASE ~(available >= 1) /\ buckets' = b /\ Return(i, Answer(429))
    <2>1. Reshaped(i) /\ Returned(i, Answer(429))
      BY <1>2, ReturnDoes
    <2> QED BY <1>0, <1>2, <2>1 DEF Charge, Framed, Reshaped, Shaped, available, b
  <1>3. CASE UNCHANGED buckets /\ Go(i, "lookup")
    BY <1>0, <1>3, GoDoes DEF Charge, Framed, Reshaped, Shaped
  <1> QED BY <1>1, <1>2, <1>3 DEF Charge, available, b

LEMMA LookupDoes ==
    ASSUME Shaped, NEW i \in DOMAIN req, Lookup(i)
    PROVE  /\ Framed(i) /\ At(i, "lookup") /\ UNCHANGED <<known, buckets, edge, cached, flights, tasks>>
           /\ \/ Moved(i, "solo")
              \/ calls[i].path \in CacheablePaths /\ CacheKey(i) \in DOMAIN cached /\ Returned(i, cached[CacheKey(i)].answer)
              \/ calls[i].path \in CacheablePaths /\ Moved(i, "join")
  <1>0. DOMAIN calls' = DOMAIN calls
    BY DEF Lookup, NotKeys, calls
  <1>1. CASE Go(i, "solo")
    BY <1>0, <1>1, GoDoes DEF Lookup, Framed, Reshaped, Shaped
  <1>2. CASE calls[i].path \in CacheablePaths /\ CacheKey(i) \in DOMAIN cached /\ Return(i, cached[CacheKey(i)].answer)
    BY <1>0, <1>2, ReturnDoes DEF Lookup, Framed, Reshaped, Shaped
  <1>3. CASE calls[i].path \in CacheablePaths /\ Go(i, "join")
    BY <1>0, <1>3, GoDoes DEF Lookup, Framed, Reshaped, Shaped
  <1> QED BY <1>1, <1>2, <1>3 DEF Lookup

LEMMA JoinDoes ==
    ASSUME Shaped, NEW i \in DOMAIN req, Join(i)
    PROVE  /\ Framed(i) /\ At(i, "join") /\ UNCHANGED <<known, buckets, edge, cached, flights>>
           /\ LET k == CacheKey(i)
              IN  \/ k \notin DOMAIN tasks /\ tasks' = With(tasks, k, i) /\ Moved(i, "ask")
                  \/ k \in DOMAIN tasks /\ UNCHANGED tasks /\ Follows(i, "follow", tasks[k])
  <1> DEFINE k == CacheKey(i)
  <1>0. DOMAIN calls' = DOMAIN calls
    BY DEF Join, NotKeys, calls
  <1>1. CASE k \notin DOMAIN tasks /\ tasks' = With(tasks, k, i) /\ Go(i, "ask")
    BY <1>0, <1>1, GoDoes DEF Join, Framed, Reshaped, Shaped
  <1>2. CASE k \in DOMAIN tasks /\ req' = [req EXCEPT ![i].pc = "follow", ![i].of = tasks[k]] /\ UNCHANGED tasks
    <2>1. Reshaped(i) /\ Follows(i, "follow", tasks[k])
      BY <1>2 DEF Shaped, ReqFields, Only, Reshaped, Follows
    <2> QED BY <1>0, <1>2, <2>1 DEF Join, Framed, Reshaped, Shaped
  <1> QED BY <1>1, <1>2 DEF Join

LEMMA SoloDoes ==
    ASSUME Shaped, NEW i \in DOMAIN req, Solo(i)
    PROVE  /\ Framed(i) /\ At(i, "solo") /\ UNCHANGED <<known, buckets, edge, cached, flights, tasks>>
           /\ \E a \in {Handled(i), Answer(Raised)} : Returned(i, a)
  <1>0. DOMAIN calls' = DOMAIN calls
    BY DEF Solo, NotKeys, calls
  <1>1. PICK a \in {Handled(i), Answer(Raised)} : Return(i, a)
    BY DEF Solo
  <1> QED BY <1>0, <1>1, ReturnDoes DEF Solo, Framed, Reshaped, Shaped

LEMMA MakeDoes ==
    ASSUME Shaped, NEW i \in DOMAIN req, NEW pc, NEW a, req' = [req EXCEPT ![i].pc = pc, ![i].made = a]
    PROVE  Reshaped(i) /\ Made(i, pc, a)
  BY DEF Shaped, ReqFields, Only, Reshaped, Made

LEMMA AskDoes ==
    ASSUME Shaped, NEW i \in DOMAIN req, Ask(i)
    PROVE  /\ Framed(i) /\ At(i, "ask") /\ UNCHANGED <<known, buckets, edge, cached, flights, tasks>>
           /\ \/ Made(i, "store", Handled(i))
              \/ \E status \in {Raised, 503} : Made(i, "land", Answer(status))
  <1>0. DOMAIN calls' = DOMAIN calls
    BY DEF Ask, NotKeys, calls
  <1>1. CASE req' = [req EXCEPT ![i].pc = "store", ![i].made = Handled(i)]
    <2>1. Reshaped(i) /\ Made(i, "store", Handled(i))
      BY <1>1, MakeDoes
    <2> QED BY <1>0, <2>1 DEF Ask, Framed, Reshaped, Shaped
  <1>2. CASE \E status \in {Raised, 503} : req' = [req EXCEPT ![i].pc = "land", ![i].made = Answer(status)]
    <2>1. PICK status \in {Raised, 503} : req' = [req EXCEPT ![i].pc = "land", ![i].made = Answer(status)]
      BY <1>2
    <2> DEFINE a == Answer(status)
    <2>2. req' = [req EXCEPT ![i].pc = "land", ![i].made = a]
      BY <2>1
    <2> HIDE DEF a
    <2>3. Reshaped(i) /\ Made(i, "land", a)
      BY <2>2, MakeDoes
    <2> QED BY <1>0, <2>3 DEF Ask, Framed, Reshaped, Shaped, a
  <1> QED BY <1>1, <1>2 DEF Ask

LEMMA StoreDoes ==
    ASSUME Shaped, NEW i \in DOMAIN req, Store(i)
    PROVE  /\ Framed(i) /\ At(i, "store") /\ Moved(i, "land") /\ UNCHANGED <<known, buckets, edge, flights, tasks>>
           /\ \/ UNCHANGED cached
              \/ cached' = With(cached, CacheKey(i), [answer |-> req[i].made, until |-> Expires])
  <1>1. DOMAIN calls' = DOMAIN calls
    BY DEF Store, NotKeys, calls
  <1> QED BY <1>1, GoDoes DEF Store, Framed, Reshaped, Shaped

LEMMA LandDoes ==
    ASSUME Shaped, NEW i \in DOMAIN req, Land(i)
    PROVE  /\ Framed(i) /\ At(i, "land") /\ Returned(i, Body(i)) /\ UNCHANGED <<known, buckets, edge, cached, flights>>
           /\ tasks' = Restrict(tasks, DOMAIN tasks \ {CacheKey(i)})
  <1>1. DOMAIN calls' = DOMAIN calls
    BY DEF Land, NotKeys, calls
  <1> QED BY <1>1, PassDoes DEF Land, Framed, Reshaped, Shaped

LEMMA FollowDoes ==
    ASSUME Shaped, NEW i \in DOMAIN req, req[i].of \in DOMAIN req, Follow(i)
    PROVE  /\ Framed(i) /\ At(i, "follow") /\ UNCHANGED <<known, buckets, edge, cached, flights, tasks>>
           /\ Asked(req[i].of)
           /\ Moved(i, "solo") \/ Returned(i, Body(req[i].of))
  <1>0. DOMAIN calls' = DOMAIN calls
    BY DEF Follow, NotKeys, calls
  <1>1. CASE Go(i, "solo")
    BY <1>0, <1>1, GoDoes DEF Follow, Framed, Reshaped, Shaped
  <1>2. CASE Pass(i, req[i].of)
    BY <1>0, <1>2, PassDoes DEF Follow, Framed, Reshaped, Shaped
  <1> QED BY <1>1, <1>2 DEF Follow

LEMMA ComeDoes ==
    ASSUME Shaped, NEW i \in DOMAIN req, Come(i)
    PROVE  /\ Framed(i) /\ At(i, "out") /\ Moved(i, IF calls[i].door = "gateway" THEN "gate" ELSE "arrive")
           /\ UNCHANGED <<known, buckets, edge, cached, flights, tasks>>
  <1>1. DOMAIN calls' = DOMAIN calls
    BY DEF Come, NotKeys, calls
  <1> QED BY <1>1, GoDoes DEF Come, Framed, Reshaped, Shaped

-----------------------------------------------------------------------------
(* what the caches give out *)

GatePcs  == {"gate", "gate_read", "gate_meter", "edge", "edge_join", "edge_wait", "edge_store", "edge_land", "aborted"}
ApiPcs   == {"meter", "charge", "lookup", "join", "ask", "store", "land", "follow", "solo"}
PastGate == {"edge", "edge_join", "edge_wait", "arrive", "edge_store", "edge_land", "aborted"} \cup ApiPcs
Proxied  == {"arrive", "edge_store", "edge_land", "answered", "aborted"} \cup ApiPcs
AskedPcs == {"ask", "store", "land", "edge_store", "edge_land", "answered", "aborted"}

\* Of a key that lived when the clock last moved, or until now.
Token(i)    == calls[i].token
Alive(i)    == Token(i) # None => Token(i) \in DOMAIN Keys /\ now <= revokedAt[Token(i)]
HasKey(i)   == Token(i) \in DOMAIN Keys /\ req[i].key = Published(Token(i))
Told(i)     == calls[i].path \notin PublicPaths => Owner(req[i].who) = OwnerOf(i) /\ Alive(i)
MadeTrue(i) == req[i].made.status = 200 => req[i].made.owner = Owner(req[i].who) /\ req[i].made.read = now
\* What the API may answer now, and what has been answered.
Timely(i, a) ==
    a.status = 200 /\ calls[i].path \notin PublicPaths =>
        /\ a.owner = OwnerOf(i) /\ Alive(i)
        /\ a.read \in Int /\ a.read <= now /\ now - a.read <= TTL
Bound(i) == IF calls[i].door = "gateway" THEN 2 * TTL ELSE TTL
GivenTrue(i) ==
    Answered(i) =>
        /\ req[i].answer.owner = OwnerOf(i)
        /\ req[i].answer.read \in Int /\ req[i].at - req[i].answer.read <= Bound(i)
        /\ Token(i) # None => IF calls[i].door = "gateway"
                              THEN \E t \in DOMAIN Keys : Shares(i, t) /\ req[i].at <= revokedAt[t] + TTL
                              ELSE Token(i) \in DOMAIN Keys /\ req[i].at <= revokedAt[Token(i)]

Own(i) ==
    /\ req[i].at \in Int /\ req[i].at <= now /\ req[i].of \in DOMAIN req
    /\ req[i].pc \in GatePcs => calls[i].door = "gateway"
    /\ req[i].pc \in {"gate_read", "gate_meter"} => Token(i) \in DOMAIN Keys
    /\ req[i].pc = "gate_meter" => req[i].key \in {Published(Token(i)), EmptyKey}
    /\ calls[i].door = "gateway" /\ (req[i].pc \in PastGate \/ (req[i].pc = "answered" /\ req[i].answer.status = 200))
         => HasKey(i)
    /\ req[i].pc \in {"edge_join", "edge_wait", "join", "ask", "store", "land", "follow"}
         => calls[i].path \in CacheablePaths
    /\ req[i].pc \in ApiPcs => Told(i)
    /\ req[i].pc \in {"store", "land"} => MadeTrue(i)
    /\ req[i].pc = "store" => req[i].made.status = 200
    /\ req[i].pc \in {"edge_store", "edge_land"} => Timely(i, req[i].answer)
    /\ GivenTrue(i)

\* Whoever waits waits for one that asks the same, and is given what that one has just been given.
Linked(i) ==
    LET l == req[i].of
    IN  /\ req[i].pc = "follow" => /\ CacheKey(l) = CacheKey(i) /\ req[l].pc \in AskedPcs
                                   /\ req[l].pc # "ask" => MadeTrue(l)
        /\ req[i].pc = "edge_wait" => /\ EdgeKey(l) = EdgeKey(i) /\ calls[l].door = "gateway" /\ req[l].pc \in Proxied
                                      /\ req[l].pc = "answered" => req[l].at = now

\* What is kept is what its key says, and no older than what is said of it.
CachedTrue ==
    \A k \in DOMAIN cached :
        LET e == cached[k]
        IN  /\ e.answer.status = 200 /\ e.answer.owner = <<k[3], k[4]>> /\ e.answer.read \in Int /\ e.answer.read <= now
            /\ e.until = e.answer.read + TTL /\ e.until >= now
EdgeTrue ==
    \A k \in DOMAIN edge :
        LET e == edge[k]
        IN  /\ e.answer.status = 200 /\ e.answer.owner = <<k[3], k[4]>> /\ e.answer.read \in Int /\ e.until \in Int
            /\ e.until >= now /\ e.until - TTL <= now /\ e.until - TTL - e.answer.read <= TTL
            /\ \E t \in DOMAIN Keys : /\ k[5] = None \/ k[5] = t
                                      /\ Keys[t].org = k[3] /\ Keys[t].actor = k[4]
                                      /\ e.until - TTL <= revokedAt[t]
TasksTrue ==
    \A k \in DOMAIN tasks :
        LET l == tasks[k] IN l \in DOMAIN req /\ CacheKey(l) = k /\ req[l].pc \in {"ask", "store", "land"}
FlightsTrue ==
    \A k \in DOMAIN flights :
        LET l == flights[k]
        IN  /\ l \in DOMAIN req /\ EdgeKey(l) = k /\ calls[l].door = "gateway" /\ calls[l].path \in CacheablePaths
            /\ req[l].pc \in Proxied \ {"answered"}
KnownTrue == \A t \in DOMAIN known : t \in DOMAIN Keys /\ known[t] \in {Published(t), EmptyKey}
KeysTrue ==
    /\ now \in 0 .. MaxTime /\ case \in Cases /\ now <= case.ticks /\ published \subseteq DOMAIN Keys
    /\ DOMAIN stored = DOMAIN Keys /\ DOMAIN revokedAt = DOMAIN Keys
    /\ \A t \in DOMAIN Keys : revokedAt[t] \in Int /\ (stored[t] # "revoked" => revokedAt[t] = MaxTime + 1)

CachesTrue == CachedTrue /\ EdgeTrue /\ TasksTrue /\ FlightsTrue /\ KnownTrue
ServingInv == Shaped /\ KeysTrue /\ CachesTrue /\ \A i \in DOMAIN req : Own(i) /\ Linked(i)

\* How far a step takes a call that others wait for.
Progress(i) ==
    /\ req[i].pc \in Proxied => req'[i].pc \in Proxied /\ req'[i].key = req[i].key
    /\ req[i].pc \in AskedPcs => /\ req'[i].pc \in AskedPcs /\ req'[i].who = req[i].who
                                 /\ req[i].pc # "ask" => req'[i].pc # "ask" /\ req'[i].made = req[i].made
                                 /\ req[i].pc = "ask" /\ req'[i].pc # "ask" => MadeTrue(i)'
    /\ req'[i].pc = "answered" => req'[i].at = now
\* Only the end of a question or of a flight takes its call out of what is asked or in flight.
Steady(i) ==
    /\ req[i].pc \in {"ask", "store", "land"} => req'[i].pc \in {"ask", "store", "land"}
    /\ calls[i].door = "gateway" /\ req[i].pc \in Proxied \ {"answered"} => req'[i].pc \in Proxied \ {"answered"}

LEMMA OthersKeep ==
    ASSUME ServingInv, NEW i \in DOMAIN req, Framed(i), Progress(i), NEW j \in DOMAIN req \ {i}
    PROVE  Own(j)' /\ Linked(j)'
  <1>0. /\ UNCHANGED <<case, now, stored, revokedAt>> /\ calls' = calls /\ DOMAIN req' = DOMAIN req
        /\ req'[j].pc = req[j].pc /\ req'[j].key = req[j].key /\ req'[j].who = req[j].who /\ req'[j].of = req[j].of
        /\ req'[j].answer = req[j].answer /\ req'[j].made = req[j].made /\ req'[j].at = req[j].at
    BY DEF Framed, Reshaped, Only, ReqFields, NotKeys, keyVars, calls
  <1>1. Own(j) /\ Linked(j)
    BY DEF ServingInv
  <1>2. Own(j)'
    BY <1>0, <1>1, SMTT(40) DEF Own, Token, Alive, HasKey, Told, MadeTrue, Timely, GivenTrue, Answered, Bound, Shares, OwnerOf, Owner, calls
  <1> DEFINE l == req[j].of
  <1>3. l \in DOMAIN req
    BY <1>1 DEF Own
  <1>4. CASE l # i
    <2>1. /\ req'[l].pc = req[l].pc /\ req'[l].key = req[l].key /\ req'[l].who = req[l].who
          /\ req'[l].made = req[l].made /\ req'[l].at = req[l].at
      BY <1>3, <1>4 DEF Framed, Reshaped, Only, ReqFields
    <2>2. Linked(j)'
      BY <1>0, <1>1, <2>1 DEF Linked, CacheKey, EdgeKey, MadeTrue, calls
    <2> QED BY <1>2, <2>2
  <1>5. CASE l = i
    <2>1. req[j].pc = "follow" => (/\ CacheKey(l) = CacheKey(j) /\ req[l].pc \in AskedPcs
                                   /\ req[l].pc # "ask" => MadeTrue(l))'
      BY <1>0, <1>1, <1>5 DEF Linked, CacheKey, MadeTrue, Progress, calls
    <2>2. req[j].pc = "edge_wait" => (/\ EdgeKey(l) = EdgeKey(j) /\ calls[l].door = "gateway" /\ req[l].pc \in Proxied
                                      /\ req[l].pc = "answered" => req[l].at = now)'
      BY <1>0, <1>1, <1>5 DEF Linked, EdgeKey, Progress, calls
    <2>3. Linked(j)'
      BY <1>0, <2>1, <2>2 DEF Linked
    <2> QED BY <1>2, <2>3
  <1> QED BY <1>4, <1>5

\* Own and others' entries stay true while the clock and the keys stand.
LEMMA KeptStay ==
    ASSUME ServingInv, NEW i \in DOMAIN req, Framed(i)
    PROVE  (UNCHANGED cached => CachedTrue') /\ (UNCHANGED edge => EdgeTrue') /\ (UNCHANGED known => KnownTrue') /\ KeysTrue'
  <1>1. UNCHANGED <<case, now, stored, revokedAt, published>>
    BY DEF Framed, NotKeys, keyVars
  <1> QED BY <1>1 DEF ServingInv, CachesTrue, CachedTrue, EdgeTrue, KnownTrue, KeysTrue

LEMMA SharedStay ==
    ASSUME ServingInv, NEW i \in DOMAIN req, Framed(i), Progress(i), Steady(i), UNCHANGED <<tasks, flights>>
    PROVE  TasksTrue' /\ FlightsTrue'
  <1>0. /\ calls' = calls /\ DOMAIN req' = DOMAIN req
        /\ \A j \in DOMAIN req \ {i} : req'[j].pc = req[j].pc /\ req'[j].key = req[j].key /\ req'[j].who = req[j].who
    BY DEF Framed, Reshaped, Only, ReqFields, NotKeys, calls
  <1>1. TasksTrue'
    <2> SUFFICES ASSUME NEW k \in DOMAIN tasks
                 PROVE  (LET l == tasks[k] IN l \in DOMAIN req /\ CacheKey(l) = k /\ req[l].pc \in {"ask", "store", "land"})'
      BY DEF TasksTrue
    <2>1. /\ tasks[k] \in DOMAIN req /\ CacheKey(tasks[k]) = k /\ req[tasks[k]].pc \in {"ask", "store", "land"}
      BY DEF ServingInv, CachesTrue, TasksTrue
    <2>2. CASE tasks[k] = i
      BY <1>0, <2>1, <2>2 DEF Progress, Steady, AskedPcs, CacheKey, calls
    <2>3. CASE tasks[k] # i
      BY <1>0, <2>1, <2>3 DEF CacheKey, calls
    <2> QED BY <2>2, <2>3
  <1>2. FlightsTrue'
    <2> SUFFICES ASSUME NEW k \in DOMAIN flights
                 PROVE  (LET l == flights[k]
                         IN  /\ l \in DOMAIN req /\ EdgeKey(l) = k /\ calls[l].door = "gateway" /\ calls[l].path \in CacheablePaths
                             /\ req[l].pc \in Proxied \ {"answered"})'
      BY DEF FlightsTrue
    <2>1. /\ flights[k] \in DOMAIN req /\ EdgeKey(flights[k]) = k /\ calls[flights[k]].door = "gateway"
          /\ calls[flights[k]].path \in CacheablePaths /\ req[flights[k]].pc \in Proxied \ {"answered"}
      BY DEF ServingInv, CachesTrue, FlightsTrue
    <2>2. CASE flights[k] = i
      BY <1>0, <2>1, <2>2 DEF Progress, Steady, EdgeKey, calls
    <2>3. CASE flights[k] # i
      BY <1>0, <2>1, <2>3 DEF EdgeKey, calls
    <2> QED BY <2>2, <2>3
  <1> QED BY <1>1, <1>2

LEMMA StepKeeps ==
    ASSUME ServingInv, NEW i \in DOMAIN req, Framed(i), Progress(i), Own(i)', Linked(i)', CachesTrue'
    PROVE  ServingInv'
  <1>1. DOMAIN req' = DOMAIN req /\ Shaped'
    BY DEF Framed, Reshaped
  <1> QED BY <1>1, OthersKeep, KeptStay DEF ServingInv

LEMMA QuietKeeps ==
    ASSUME ServingInv, NEW i \in DOMAIN req, Framed(i), Progress(i), Steady(i), Own(i)', Linked(i)',
           UNCHANGED <<known, edge, cached, flights, tasks>>
    PROVE  ServingInv'
  BY KeptStay, SharedStay, StepKeeps DEF CachesTrue

-----------------------------------------------------------------------------
(* each step keeps what the caches say *)

LEMMA Separate == PublicPaths \cap CacheablePaths = {}
  BY DEF PublicPaths, CacheablePaths

\* A call that has come through the gateway has a key, and asks for its tenant.
LEMMA KeyOf ==
    ASSUME NEW i \in DOMAIN req, HasKey(i)
    PROVE  /\ Token(i) # None /\ Owner(req[i].key) = OwnerOf(i) /\ req[i].key.org = Keys[Token(i)].org
           /\ req[i].key.actor = Keys[Token(i)].actor
  <1>1. Token(i) # None /\ DOMAIN Keys[Token(i)] = KeyFields
    BY KeysAssumption DEF HasKey, None
  <1> QED BY <1>1 DEF HasKey, Published, OwnerOf, Owner, Token, KeyFields

\* What only goes on within the API or the gateway, and asks nothing new of a cache.
LEMMA MovedOwn ==
    ASSUME ServingInv, NEW i \in DOMAIN req, Framed(i), NEW pc, Moved(i, pc),
           pc \in {"gate", "arrive", "lookup", "solo", "land", "edge_land", "ask", "edge_join", "join", "gate_read"},
           \/ req[i].pc = "out" /\ pc = IF calls[i].door = "gateway" THEN "gate" ELSE "arrive"
           \/ req[i].pc = "gate" /\ pc = "gate_read" /\ Token(i) \in DOMAIN Keys
           \/ req[i].pc = "edge" /\ pc = "arrive"
           \/ req[i].pc = "edge" /\ pc = "edge_join" /\ calls[i].path \in CacheablePaths
           \/ req[i].pc = "edge_join" /\ pc = "arrive"
           \/ req[i].pc \in {"meter", "charge"} /\ pc = "lookup"
           \/ req[i].pc \in {"lookup", "follow"} /\ pc = "solo"
           \/ req[i].pc = "lookup" /\ pc = "join" /\ calls[i].path \in CacheablePaths
           \/ req[i].pc = "join" /\ pc = "ask"
           \/ req[i].pc = "store" /\ pc = "land"
           \/ req[i].pc = "edge_store" /\ pc = "edge_land"
    PROVE  Own(i)' /\ Linked(i)' /\ Progress(i) /\ Steady(i)
  <1>0. /\ UNCHANGED <<case, now, stored, revokedAt>> /\ calls' = calls /\ DOMAIN req' = DOMAIN req
        /\ req'[i].pc = pc /\ req'[i].key = req[i].key /\ req'[i].who = req[i].who /\ req'[i].of = req[i].of
        /\ req'[i].answer = req[i].answer /\ req'[i].made = req[i].made /\ req'[i].at = req[i].at
    BY DEF Framed, Reshaped, Moved, Only, ReqFields, NotKeys, keyVars, calls
  <1>1. Own(i)
    BY DEF ServingInv
  <1>2. /\ Alive(i)' = Alive(i) /\ Token(i)' = Token(i) /\ HasKey(i)' = HasKey(i) /\ Told(i)' = Told(i)
        /\ MadeTrue(i)' = MadeTrue(i) /\ Timely(i, req[i].answer)' = Timely(i, req[i].answer)
    BY <1>0 DEF Alive, Token, HasKey, Told, MadeTrue, Timely, OwnerOf, Owner, calls
  <1>3. Own(i)'
    <2>1. ~Answered(i)'
      BY <1>0 DEF Answered
    <2>2. pc \in GatePcs => calls[i].door = "gateway"
      BY <1>1 DEF Own, GatePcs
    <2>3. calls[i].door = "gateway" /\ pc \in PastGate => HasKey(i)
      BY <1>1 DEF Own, PastGate, ApiPcs
    <2>4. pc \in ApiPcs => Told(i)
      BY <1>1 DEF Own, ApiPcs
    <2>5. pc \in {"edge_join", "edge_wait", "join", "ask", "store", "land", "follow"} => calls[i].path \in CacheablePaths
      BY <1>1 DEF Own
    <2>6. /\ pc \in {"store", "land"} => MadeTrue(i)
          /\ pc \in {"edge_store", "edge_land"} => Timely(i, req[i].answer)
          /\ pc \in {"gate_read", "gate_meter"} => Token(i) \in DOMAIN Keys
          /\ pc # "gate_meter" /\ pc # "store" /\ pc # "answered"
      BY <1>1 DEF Own
    <2> QED BY <1>0, <1>1, <1>2, <2>1, <2>2, <2>3, <2>4, <2>5, <2>6 DEF Own, GivenTrue, calls
  <1>4. Linked(i)'
    BY <1>0 DEF Linked
  <1>5. Progress(i) /\ Steady(i)
    BY <1>0 DEF Progress, Steady, Proxied, AskedPcs, ApiPcs
  <1> QED BY <1>3, <1>4, <1>5

LEMMA ReturnedOwn ==
    ASSUME ServingInv, NEW i \in DOMAIN req, Framed(i), NEW a, Returned(i, a), Timely(i, a),
           req[i].pc \in (ApiPcs \ {"ask"}) \cup {"arrive"}
    PROVE  /\ Own(i)' /\ Linked(i)' /\ Progress(i) /\ (req[i].pc # "store" /\ req[i].pc # "land" => Steady(i))
           /\ calls[i].door = "gateway" => req'[i].pc = "edge_store"
  <1>0. /\ UNCHANGED <<case, now, stored, revokedAt>> /\ calls' = calls /\ DOMAIN req' = DOMAIN req
    BY DEF Framed, Reshaped, NotKeys, keyVars, calls
  <1>1. Own(i)
    BY DEF ServingInv
  <1>2. CASE calls[i].door = "gateway"
    <2>0. /\ req'[i].pc = "edge_store" /\ req'[i].key = req[i].key /\ req'[i].who = req[i].who /\ req'[i].of = req[i].of
          /\ req'[i].answer = a /\ req'[i].made = req[i].made /\ req'[i].at = req[i].at
      BY <1>2 DEF Returned, Passed, Only, ReqFields
    <2>1. HasKey(i)
      BY <1>1, <1>2 DEF Own, PastGate
    <2>2. HasKey(i)' /\ Timely(i, req[i].answer)'
      BY <1>0, <2>0, <2>1 DEF HasKey, Timely, Alive, Token, OwnerOf, Owner, calls
    <2>3. Own(i)'
      BY <1>0, <1>1, <1>2, <2>0, <2>2 DEF Own, GatePcs, ApiPcs, GivenTrue, Answered, calls
    <2>4. Linked(i)'
      BY <2>0 DEF Linked
    <2>5. Progress(i) /\ (req[i].pc # "store" /\ req[i].pc # "land" => Steady(i))
      BY <2>0 DEF Progress, Steady, Proxied, AskedPcs, ApiPcs
    <2> QED BY <2>0, <2>3, <2>4, <2>5
  <1>3. CASE calls[i].door # "gateway"
    <2>0. /\ req'[i].pc = "answered" /\ req'[i].key = req[i].key /\ req'[i].who = req[i].who /\ req'[i].of = req[i].of
          /\ req'[i].answer = a /\ req'[i].made = req[i].made /\ req'[i].at = now
      BY <1>3 DEF Returned, Given, Only, ReqFields
    <2>1. GivenTrue(i)'
      BY <1>0, <1>3, <2>0 DEF GivenTrue, Answered, Timely, Alive, Bound, Token, OwnerOf, Owner, calls
    <2>2. now \in Int
      BY DEF ServingInv, KeysTrue
    <2>3. Own(i)'
      BY <1>0, <1>1, <1>3, <2>0, <2>1, <2>2 DEF Own, GatePcs, ApiPcs, PastGate, calls
    <2>4. Linked(i)'
      BY <2>0 DEF Linked
    <2>5. Progress(i) /\ (req[i].pc # "store" /\ req[i].pc # "land" => Steady(i))
      BY <1>3, <2>0 DEF Progress, Steady, Proxied, AskedPcs, ApiPcs
    <2> QED BY <1>3, <2>3, <2>4, <2>5
  <1> QED BY <1>2, <1>3

\* What the gateway answers by itself, from its cache or with what another was given.
LEMMA GivenOwn ==
    ASSUME ServingInv, NEW i \in DOMAIN req, Framed(i), NEW a, Given(i, a),
           req[i].pc \in {"gate", "gate_meter", "edge", "edge_wait", "edge_land"},
           a.status = 200 => HasKey(i),
           a.status = 200 /\ calls[i].path \notin PublicPaths =>
              /\ a.owner = OwnerOf(i) /\ a.read \in Int /\ now - a.read <= 2 * TTL
              /\ \E t \in DOMAIN Keys : Shares(i, t) /\ now <= revokedAt[t] + TTL
    PROVE  Own(i)' /\ Linked(i)' /\ Progress(i) /\ req'[i].key = req[i].key
  <1>0. /\ UNCHANGED <<case, now, stored, revokedAt>> /\ calls' = calls /\ DOMAIN req' = DOMAIN req
    BY DEF Framed, Reshaped, NotKeys, keyVars, calls
  <1>1. Own(i) /\ calls[i].door = "gateway"
    BY DEF ServingInv, Own, GatePcs
  <1>2. /\ req'[i].pc = "answered" /\ req'[i].key = req[i].key /\ req'[i].who = req[i].who /\ req'[i].of = req[i].of
        /\ req'[i].answer = a /\ req'[i].made = req[i].made /\ req'[i].at = now
    BY DEF Given, Only, ReqFields
  <1>3. GivenTrue(i)'
    BY <1>0, <1>1, <1>2 DEF GivenTrue, Answered, Bound, Token, OwnerOf, Owner, Shares, calls
  <1>4. now \in Int /\ (a.status = 200 => HasKey(i)')
    BY <1>0, <1>2 DEF ServingInv, KeysTrue, HasKey, Token, calls
  <1>5. Own(i)'
    BY <1>0, <1>1, <1>2, <1>3, <1>4 DEF Own, GatePcs, ApiPcs, PastGate, calls
  <1>6. Linked(i)'
    BY <1>2 DEF Linked
  <1>7. Progress(i)
    BY <1>2 DEF Progress, Proxied, AskedPcs
  <1> QED BY <1>2, <1>5, <1>6, <1>7

LEMMA KeyedOwn ==
    ASSUME ServingInv, NEW i \in DOMAIN req, Framed(i), NEW k, Keyed(i, k), req[i].pc \in {"gate", "gate_read"},
           Token(i) \in DOMAIN Keys, k \in {Published(Token(i)), EmptyKey}
    PROVE  Own(i)' /\ Linked(i)' /\ Progress(i) /\ Steady(i)
  <1>0. /\ UNCHANGED <<case, now, stored, revokedAt>> /\ calls' = calls /\ DOMAIN req' = DOMAIN req
        /\ req'[i].pc = "gate_meter" /\ req'[i].key = k /\ req'[i].of = req[i].of /\ req'[i].at = req[i].at
    BY DEF Framed, Reshaped, Keyed, Only, ReqFields, NotKeys, keyVars, calls
  <1>1. Own(i) /\ calls[i].door = "gateway"
    BY DEF ServingInv, Own, GatePcs
  <1>2. Own(i)'
    BY <1>0, <1>1 DEF Own, GivenTrue, Answered, ApiPcs, PastGate, Token, calls
  <1>3. Linked(i)' /\ Progress(i) /\ Steady(i)
    BY <1>0 DEF Linked, Progress, Steady, Proxied, AskedPcs, ApiPcs
  <1> QED BY <1>2, <1>3

\* Within the API, before the question is looked up.
LEMMA MeteredOwn ==
    ASSUME ServingInv, NEW i \in DOMAIN req, Framed(i), NEW pc \in {"charge", "lookup"}, req[i].pc \in {"meter", "charge"},
           req'[i].pc = pc, Only(i, {"pc", "saw", "apiAt"})
    PROVE  Own(i)' /\ Linked(i)' /\ Progress(i) /\ Steady(i)
  <1>0. /\ UNCHANGED <<case, now, stored, revokedAt>> /\ calls' = calls /\ DOMAIN req' = DOMAIN req
        /\ req'[i].key = req[i].key /\ req'[i].of = req[i].of /\ req'[i].at = req[i].at /\ req'[i].who = req[i].who
    BY DEF Framed, Reshaped, Only, ReqFields, NotKeys, keyVars, calls
  <1>1. Own(i) /\ Told(i) /\ (calls[i].door = "gateway" => HasKey(i))
    BY DEF ServingInv, Own, ApiPcs, PastGate
  <1>2. Told(i)' /\ (calls[i].door = "gateway" => HasKey(i)')
    BY <1>0, <1>1 DEF Told, HasKey, Alive, Token, OwnerOf, Owner, calls
  <1>3. Own(i)'
    BY <1>0, <1>1, <1>2 DEF Own, GivenTrue, Answered, ApiPcs, GatePcs, PastGate, calls
  <1>4. Linked(i)' /\ Progress(i) /\ Steady(i)
    BY <1>0 DEF Linked, Progress, Steady, Proxied, AskedPcs, ApiPcs
  <1> QED BY <1>3, <1>4

LEMMA ComeKeeps ==
    ASSUME ServingInv, NEW i \in DOMAIN req, Come(i) PROVE ServingInv'
  <1>1. Framed(i) /\ At(i, "out") /\ Moved(i, IF calls[i].door = "gateway" THEN "gate" ELSE "arrive")
        /\ UNCHANGED <<known, edge, cached, flights, tasks>>
    BY ComeDoes DEF ServingInv
  <1> QED BY <1>1, MovedOwn, QuietKeeps DEF At

LEMMA VerifyKeeps ==
    ASSUME ServingInv, NEW i \in DOMAIN req, Verify(i) PROVE ServingInv'
  <1> DEFINE t == calls[i].token
  <1>1. /\ Framed(i) /\ req[i].pc = "gate" /\ UNCHANGED <<known, edge, cached, flights, tasks>>
        /\ \/ Given(i, Answer(401))
           \/ t \in DOMAIN known /\ Keyed(i, known[t])
           \/ t \in published /\ Moved(i, "gate_read")
    BY VerifyDoes DEF ServingInv, At
  <1>2. CASE Given(i, Answer(401))
    <2>1. Own(i)' /\ Linked(i)' /\ Progress(i)
      BY <1>1, <1>2, GivenOwn DEF Answer
    <2>2. Steady(i)
      BY <1>1 DEF Steady, Proxied, ApiPcs
    <2> QED BY <1>1, <2>1, <2>2, QuietKeeps
  <1>3. CASE t \in DOMAIN known /\ Keyed(i, known[t])
    <2>1. t \in DOMAIN Keys /\ known[t] \in {Published(t), EmptyKey}
      BY <1>3 DEF ServingInv, CachesTrue, KnownTrue
    <2> QED BY <1>1, <1>3, <2>1, KeyedOwn, QuietKeeps DEF Token
  <1>4. CASE t \in published /\ Moved(i, "gate_read")
    <2>1. t \in DOMAIN Keys
      BY <1>4 DEF ServingInv, KeysTrue
    <2> QED BY <1>1, <1>4, <2>1, MovedOwn, QuietKeeps DEF Token
  <1> QED BY <1>1, <1>2, <1>3, <1>4

LEMMA ReadKeyKeeps ==
    ASSUME ServingInv, NEW i \in DOMAIN req, ReadKey(i) PROVE ServingInv'
  <1> DEFINE t == calls[i].token
             key == IF t \in published THEN Published(t) ELSE EmptyKey
  <1>1. /\ Framed(i) /\ req[i].pc = "gate_read" /\ UNCHANGED <<buckets, edge, cached, flights, tasks>>
        /\ Keyed(i, key) /\ known' = With(known, t, key)
    BY ReadKeyDoes DEF ServingInv, At
  <1>2. t \in DOMAIN Keys
    BY <1>1 DEF ServingInv, Own, Token
  <1>3. Own(i)' /\ Linked(i)' /\ Progress(i) /\ Steady(i)
    BY <1>1, <1>2, KeyedOwn DEF Token
  <1>4. KnownTrue'
    <2>1. key \in {Published(t), EmptyKey}
      OBVIOUS
    <2> HIDE DEF key
    <2>2. \A u \in DOMAIN known : u \in DOMAIN Keys /\ known[u] \in {Published(u), EmptyKey}
      BY DEF ServingInv, CachesTrue, KnownTrue
    <2>3. DOMAIN known' = DOMAIN known \cup {t} /\ known'[t] = key /\ \A u \in DOMAIN known : u # t => known'[u] = known[u]
      <3>1. known' = With(known, t, key)
        BY <1>1
      <3> HIDE DEF t
      <3> QED BY <3>1 DEF With
    <2>4. \A u \in DOMAIN known' : u \in DOMAIN Keys /\ known'[u] \in {Published(u), EmptyKey}
      BY <1>2, <2>1, <2>2, <2>3
    <2> QED BY <2>4 DEF KnownTrue, Published
  <1> QED BY <1>1, <1>3, <1>4, KeptStay, SharedStay, StepKeeps DEF CachesTrue

LEMMA GateMeterKeeps ==
    ASSUME ServingInv, NEW i \in DOMAIN req, GateMeter(i) PROVE ServingInv'
  <1> DEFINE tier == GateTier(req[i].key)
             b == Bucket(<<"gate", req[i].key.id>>, tier)
  <1>0. /\ Framed(i) /\ At(i, "gate_meter") /\ UNCHANGED <<known, edge, cached, flights, tasks>>
        /\ \/ /\ Filled(b, tier) >= 1 /\ buckets' = With(buckets, <<"gate", req[i].key.id>>, Take(b, tier))
              /\ IF req[i].key.scopes = {} THEN Unscoped(i) ELSE Admitted(i)
           \/ UNCHANGED buckets /\ \E status \in {429, 500} : Given(i, Answer(status))
    BY GateMeterDoes DEF ServingInv
  <1>1. /\ Framed(i) /\ req[i].pc = "gate_meter" /\ UNCHANGED <<known, edge, cached, flights, tasks>>
        /\ \/ IF req[i].key.scopes = {} THEN Unscoped(i) ELSE Admitted(i)
           \/ \E status \in {429, 500} : Given(i, Answer(status))
    BY <1>0 DEF At
  <1>2. Steady(i)
    BY <1>1 DEF Steady, Proxied, ApiPcs
  <1>3. /\ UNCHANGED <<case, now, stored, revokedAt>> /\ calls' = calls /\ DOMAIN req' = DOMAIN req
    BY <1>1 DEF Framed, Reshaped, NotKeys, keyVars, calls
  <1>4. Own(i) /\ Token(i) \in DOMAIN Keys /\ req[i].key \in {Published(Token(i)), EmptyKey} /\ calls[i].door = "gateway" /\ now \in Int
    BY <1>1 DEF ServingInv, Own, GatePcs, KeysTrue
  <1>5. CASE \E status \in {429, 500} : Given(i, Answer(status))
    <2>1. PICK status \in {429, 500} : Given(i, Answer(status))
      BY <1>5
    <2>2. Answer(status).status # 200
      BY DEF Answer
    <2>3. Own(i)' /\ Linked(i)' /\ Progress(i)
      BY <1>1, <2>1, <2>2, GivenOwn
    <2> QED BY <1>1, <1>2, <2>3, QuietKeeps
  <1>6. CASE req[i].key.scopes # {} /\ Admitted(i)
    <2>1. req[i].key = Published(Token(i))
      <3>1. EmptyKey.scopes = {}
        BY DEF EmptyKey
      <3> QED BY <1>4, <1>6, <3>1
    <2>2. /\ req'[i].pc = "edge" /\ req'[i].key = req[i].key /\ req'[i].of = req[i].of /\ req'[i].at = req[i].at
      BY <1>6 DEF Admitted, Only, ReqFields
    <2>3. HasKey(i)'
      BY <1>3, <1>4, <2>1, <2>2 DEF HasKey, Token, calls
    <2>4. Own(i)'
      BY <1>3, <1>4, <2>2, <2>3 DEF Own, ApiPcs, GivenTrue, Answered, calls
    <2>5. Linked(i)' /\ Progress(i)
      BY <1>1, <2>2 DEF Linked, Progress, Proxied, AskedPcs, ApiPcs
    <2> QED BY <1>1, <1>2, <2>4, <2>5, QuietKeeps
  <1>7. CASE Unscoped(i)
    <2>1. /\ req'[i].pc = "answered" /\ req'[i].answer.status = 403 /\ req'[i].of = req[i].of /\ req'[i].at = now
      BY <1>7 DEF Unscoped, Only, ReqFields, Answer
    <2>2. Own(i)'
      BY <1>3, <1>4, <2>1 DEF Own, ApiPcs, GatePcs, PastGate, GivenTrue, Answered, calls
    <2>3. Linked(i)' /\ Progress(i)
      BY <1>1, <2>1 DEF Linked, Progress, Proxied, AskedPcs, ApiPcs
    <2> QED BY <1>1, <1>2, <2>2, <2>3, QuietKeeps
  <1> QED BY <1>1, <1>5, <1>6, <1>7

LEMMA EdgeLookupKeeps ==
    ASSUME ServingInv, NEW i \in DOMAIN req, EdgeLookup(i) PROVE ServingInv'
  <1> DEFINE k == EdgeKey(i)
             a == edge[k].answer
  <1>1. /\ Framed(i) /\ req[i].pc = "edge" /\ UNCHANGED <<known, edge, cached, flights, tasks>>
        /\ \/ Moved(i, "arrive")
           \/ calls[i].path \in CacheablePaths /\ k \in DOMAIN edge /\ Given(i, a)
           \/ calls[i].path \in CacheablePaths /\ Moved(i, "edge_join")
    BY EdgeLookupDoes DEF ServingInv, At
  <1>2. CASE Moved(i, "arrive") \/ (calls[i].path \in CacheablePaths /\ Moved(i, "edge_join"))
    BY <1>1, <1>2, MovedOwn, QuietKeeps
  <1>3. CASE k \in DOMAIN edge /\ Given(i, a)
    <2>1. HasKey(i) /\ now \in Int
      BY <1>1 DEF ServingInv, Own, GatePcs, PastGate, KeysTrue
    <2>2. /\ Token(i) # None /\ Owner(req[i].key) = OwnerOf(i) /\ req[i].key.org = Keys[Token(i)].org
          /\ req[i].key.actor = Keys[Token(i)].actor
      BY <2>1, KeyOf
    <2>3. /\ k[3] = req[i].key.org /\ k[4] = req[i].key.actor /\ k[5] = IF calls[i].bearer THEN None ELSE Token(i)
      BY DEF EdgeKey, Token
    <2>4. PICK t \in DOMAIN Keys : /\ k[5] = None \/ k[5] = t
                                   /\ Keys[t].org = k[3] /\ Keys[t].actor = k[4]
                                   /\ edge[k].until - TTL <= revokedAt[t]
      BY <1>3 DEF ServingInv, CachesTrue, EdgeTrue
    <2>5. Shares(i, t)
      BY <2>2, <2>3, <2>4, KeysAssumption DEF Shares, Token, None
    <2>6. /\ a.owner = <<k[3], k[4]>> /\ a.read \in Int /\ edge[k].until \in Int
          /\ edge[k].until >= now /\ edge[k].until - TTL - a.read <= TTL
      BY <1>3 DEF ServingInv, CachesTrue, EdgeTrue
    <2>7. TTL \in Nat /\ revokedAt[t] \in Int
      BY KeysAssumption DEF ServingInv, KeysTrue
    <2>8. a.owner = OwnerOf(i) /\ now - a.read <= 2 * TTL /\ now <= revokedAt[t] + TTL
      BY <2>1, <2>2, <2>3, <2>4, <2>6, <2>7 DEF Owner
    <2> HIDE DEF a, k
    <2>9. Own(i)' /\ Linked(i)' /\ Progress(i)
      BY <1>1, <1>3, <2>1, <2>5, <2>6, <2>8, GivenOwn
    <2>10. Steady(i)
      BY <1>1 DEF Steady, Proxied, ApiPcs
    <2> QED BY <1>1, <2>9, <2>10, QuietKeeps
  <1> QED BY <1>1, <1>2, <1>3

LEMMA EdgeJoinKeeps ==
    ASSUME ServingInv, NEW i \in DOMAIN req, EdgeJoin(i) PROVE ServingInv'
  <1> DEFINE k == EdgeKey(i)
  <1>1. /\ Framed(i) /\ req[i].pc = "edge_join" /\ UNCHANGED <<known, buckets, edge, cached, tasks>>
        /\ \/ k \notin DOMAIN flights /\ flights' = With(flights, k, i) /\ Moved(i, "arrive")
           \/ k \in DOMAIN flights /\ UNCHANGED flights /\ Follows(i, "edge_wait", flights[k])
    BY EdgeJoinDoes DEF ServingInv, At
  <1>2. /\ UNCHANGED <<case, now, stored, revokedAt>> /\ calls' = calls /\ DOMAIN req' = DOMAIN req
    BY <1>1 DEF Framed, Reshaped, NotKeys, keyVars, calls
  <1>3. Own(i) /\ calls[i].door = "gateway" /\ calls[i].path \in CacheablePaths /\ HasKey(i)
    BY <1>1 DEF ServingInv, Own, GatePcs, PastGate
  <1>4. CASE k \notin DOMAIN flights /\ flights' = With(flights, k, i) /\ Moved(i, "arrive")
    <2>1. Own(i)' /\ Linked(i)' /\ Progress(i) /\ Steady(i)
      BY <1>1, <1>4, MovedOwn
    <2>2. CachedTrue' /\ EdgeTrue' /\ KnownTrue'
      BY <1>1, KeptStay
    <2>3. TasksTrue'
      <3> SUFFICES ASSUME NEW n \in DOMAIN tasks
                   PROVE  (LET l == tasks[n] IN l \in DOMAIN req /\ CacheKey(l) = n /\ req[l].pc \in {"ask", "store", "land"})'
        BY <1>1 DEF TasksTrue
      <3>1. tasks[n] \in DOMAIN req /\ CacheKey(tasks[n]) = n /\ req[tasks[n]].pc \in {"ask", "store", "land"}
        BY DEF ServingInv, CachesTrue, TasksTrue
      <3>2. tasks[n] # i
        BY <1>1, <3>1
      <3>3. req'[tasks[n]].pc = req[tasks[n]].pc /\ req'[tasks[n]].who = req[tasks[n]].who
        BY <1>1, <3>1, <3>2 DEF Framed, Reshaped, Only, ReqFields
      <3> QED BY <1>1, <1>2, <3>1, <3>3 DEF CacheKey, calls
    <2>4. FlightsTrue'
      <3> SUFFICES ASSUME NEW n \in DOMAIN flights'
                   PROVE  (LET l == flights[n]
                           IN  /\ l \in DOMAIN req /\ EdgeKey(l) = n /\ calls[l].door = "gateway" /\ calls[l].path \in CacheablePaths
                               /\ req[l].pc \in Proxied \ {"answered"})'
        BY DEF FlightsTrue
      <3>1. req'[i].pc = "arrive" /\ req'[i].key = req[i].key
        BY <1>4 DEF Moved, Only, ReqFields
      <3>2. CASE n = k
        <4>1. flights'[n] = i
          BY <1>4, <3>2 DEF With
        <4> QED BY <1>2, <1>3, <3>1, <3>2, <4>1 DEF EdgeKey, Proxied, calls
      <3>3. CASE n # k
        <4> DEFINE l == flights[n]
        <4>1. n \in DOMAIN flights /\ flights'[n] = l
          BY <1>4, <3>3 DEF With
        <4>2. /\ l \in DOMAIN req /\ EdgeKey(l) = n /\ calls[l].door = "gateway" /\ calls[l].path \in CacheablePaths
              /\ req[l].pc \in Proxied \ {"answered"}
          BY <4>1 DEF ServingInv, CachesTrue, FlightsTrue
        <4>3. l # i
          BY <3>3, <4>2
        <4>4. req'[l].pc = req[l].pc /\ req'[l].key = req[l].key
          BY <1>1, <4>2, <4>3 DEF Framed, Reshaped, Only, ReqFields
        <4> QED BY <1>2, <4>1, <4>2, <4>4 DEF EdgeKey, calls
      <3> QED BY <3>2, <3>3
    <2> QED BY <1>1, <2>1, <2>2, <2>3, <2>4, StepKeeps DEF CachesTrue
  <1>5. CASE k \in DOMAIN flights /\ UNCHANGED flights /\ Follows(i, "edge_wait", flights[k])
    <2>0. PICK l \in DOMAIN req : l = flights[k]
      BY <1>5 DEF ServingInv, CachesTrue, FlightsTrue
    <2>1. /\ req'[i].pc = "edge_wait" /\ req'[i].of = l /\ req'[i].key = req[i].key /\ req'[i].at = req[i].at
      BY <1>5, <2>0 DEF Follows, Only, ReqFields
    <2>2. /\ l \in DOMAIN req /\ EdgeKey(l) = k /\ calls[l].door = "gateway" /\ req[l].pc \in Proxied \ {"answered"}
      BY <1>5, <2>0 DEF ServingInv, CachesTrue, FlightsTrue
    <2>3. l # i
      BY <1>1, <2>2 DEF Proxied, ApiPcs
    <2>4. req'[l].pc = req[l].pc /\ req'[l].key = req[l].key
      BY <1>1, <2>2, <2>3 DEF Framed, Reshaped, Only, ReqFields
    <2>5. Linked(i)'
      <3>1. EdgeKey(l)' = EdgeKey(l) /\ EdgeKey(i)' = EdgeKey(i)
        BY <1>2, <2>1, <2>4 DEF EdgeKey, calls
      <3>2. EdgeKey(l)' = EdgeKey(i)' /\ (calls[l].door = "gateway")'
        BY <1>2, <2>2, <3>1 DEF calls
      <3> QED BY <2>1, <2>2, <2>4, <3>2 DEF Linked
    <2>6. HasKey(i)'
      BY <1>2, <1>3, <2>1 DEF HasKey, Token, calls
    <2>7. Own(i)'
      BY <1>2, <1>3, <2>1, <2>2, <2>6 DEF Own, ApiPcs, GivenTrue, Answered, calls
    <2>8. Progress(i) /\ Steady(i)
      BY <1>1, <2>1 DEF Progress, Steady, Proxied, AskedPcs, ApiPcs
    <2> QED BY <1>1, <1>5, <2>5, <2>7, <2>8, QuietKeeps
  <1> QED BY <1>1, <1>4, <1>5

LEMMA EdgeAbortKeeps ==
    ASSUME ServingInv, NEW i \in DOMAIN req, EdgeAbort(i) PROVE ServingInv'
  <1>1. Framed(i) /\ req[i].pc = "edge_store" /\ Aborted(i) /\ UNCHANGED <<known, edge, cached, flights, tasks>>
    BY EdgeAbortDoes DEF ServingInv, At
  <1>2. /\ UNCHANGED <<case, now, stored, revokedAt>> /\ calls' = calls /\ DOMAIN req' = DOMAIN req
    BY <1>1 DEF Framed, Reshaped, NotKeys, keyVars, calls
  <1>3. /\ req'[i].pc = "aborted" /\ req'[i].of = req[i].of /\ req'[i].key = req[i].key /\ req'[i].at = now
        /\ req'[i].who = req[i].who /\ req'[i].made = req[i].made
    BY <1>1 DEF Aborted, Only, ReqFields
  <1>4. Own(i) /\ calls[i].door = "gateway" /\ HasKey(i) /\ now \in Int
    BY <1>1 DEF ServingInv, Own, GatePcs, PastGate, KeysTrue
  <1>5. HasKey(i)'
    BY <1>2, <1>3, <1>4 DEF HasKey, Token, calls
  <1>6. Own(i)'
    BY <1>2, <1>3, <1>4, <1>5 DEF Own, ApiPcs, GivenTrue, Answered, calls
  <1>7. Linked(i)' /\ Progress(i) /\ Steady(i)
    BY <1>1, <1>3 DEF Linked, Progress, Steady, Proxied, AskedPcs, ApiPcs
  <1> QED BY <1>1, <1>6, <1>7, QuietKeeps

LEMMA EdgeStoreKeeps ==
    ASSUME ServingInv, NEW i \in DOMAIN req, EdgeStore(i) PROVE ServingInv'
  <1> DEFINE k == EdgeKey(i)
             e == [answer |-> req[i].answer, until |-> now + TTL]
  <1>1. /\ Framed(i) /\ req[i].pc = "edge_store" /\ Moved(i, "edge_land") /\ UNCHANGED <<known, buckets, cached, flights, tasks>>
        /\ \/ UNCHANGED edge
           \/ Leads(i) /\ req[i].answer.status = 200 /\ edge' = With(edge, k, e)
    BY EdgeStoreDoes DEF ServingInv, At
  <1>2. Own(i)' /\ Linked(i)' /\ Progress(i) /\ Steady(i)
    BY <1>1, MovedOwn
  <1>3. CachedTrue' /\ KnownTrue' /\ (UNCHANGED edge => EdgeTrue') /\ TasksTrue' /\ FlightsTrue'
    BY <1>1, <1>2, KeptStay, SharedStay
  <1>4. ASSUME Leads(i), req[i].answer.status = 200, edge' = With(edge, k, e) PROVE EdgeTrue'
    <2>1. UNCHANGED <<now, revokedAt>> /\ now \in Int /\ TTL \in Nat \ {0}
      <3>1. UNCHANGED <<now, revokedAt>> /\ now \in Int
        BY <1>1 DEF Framed, NotKeys, keyVars, ServingInv, KeysTrue
      <3> QED BY <3>1, KeysAssumption
    <2>2. calls[i].path \in CacheablePaths
      BY <1>4 DEF Leads, ServingInv, CachesTrue, FlightsTrue
    <2>3. HasKey(i) /\ Timely(i, req[i].answer) /\ calls[i].door = "gateway"
      BY <1>1 DEF ServingInv, Own, GatePcs, PastGate
    <2>4. /\ Token(i) # None /\ Owner(req[i].key) = OwnerOf(i) /\ req[i].key.org = Keys[Token(i)].org
          /\ req[i].key.actor = Keys[Token(i)].actor
      BY <2>3, KeyOf
    <2>5. /\ req[i].answer.owner = OwnerOf(i) /\ Token(i) \in DOMAIN Keys /\ now <= revokedAt[Token(i)]
          /\ req[i].answer.read \in Int /\ req[i].answer.read <= now /\ now - req[i].answer.read <= TTL
      BY <1>4, <2>2, <2>3, <2>4, Separate DEF Timely, Alive
    <2>6. /\ k[3] = req[i].key.org /\ k[4] = req[i].key.actor /\ k[5] = IF calls[i].bearer THEN None ELSE Token(i)
      BY DEF EdgeKey, Token
    <2>7. e.answer = req[i].answer /\ e.until = now + TTL
      OBVIOUS
    <2>8. k[5] = None \/ k[5] = Token(i)
      BY <2>6
    <2>9. revokedAt[Token(i)] \in Int
      BY <2>5 DEF ServingInv, KeysTrue
    <2>10. DOMAIN edge' = DOMAIN edge \cup {k} /\ edge'[k] = e /\ \A n \in DOMAIN edge : n # k => edge'[n] = edge[n]
      BY <1>4 DEF With
    <2> HIDE DEF e, k
    <2>11. /\ e.answer.status = 200 /\ e.answer.owner = <<k[3], k[4]>> /\ e.answer.read \in Int /\ e.until \in Int
           /\ e.until >= now /\ e.until - TTL <= now /\ e.until - TTL - e.answer.read <= TTL
           /\ \E t \in DOMAIN Keys : /\ k[5] = None \/ k[5] = t
                                     /\ Keys[t].org = k[3] /\ Keys[t].actor = k[4]
                                     /\ e.until - TTL <= revokedAt[t]
      BY <1>4, <2>1, <2>4, <2>5, <2>6, <2>7, <2>8, <2>9 DEF Owner
    <2>12. EdgeTrue
      BY DEF ServingInv, CachesTrue
    <2> QED BY <2>1, <2>10, <2>11, <2>12 DEF EdgeTrue
  <1> QED BY <1>1, <1>2, <1>3, <1>4, StepKeeps DEF CachesTrue

LEMMA EdgeLandKeeps ==
    ASSUME ServingInv, NEW i \in DOMAIN req, EdgeLand(i) PROVE ServingInv'
  <1>1. /\ Framed(i) /\ req[i].pc = "edge_land" /\ Given(i, req[i].answer)
        /\ UNCHANGED <<known, buckets, edge, cached, tasks>>
        /\ flights' = IF Leads(i) THEN Restrict(flights, DOMAIN flights \ {EdgeKey(i)}) ELSE flights
    BY EdgeLandDoes DEF ServingInv, At
  <1>2. /\ UNCHANGED <<case, now, stored, revokedAt>> /\ calls' = calls /\ DOMAIN req' = DOMAIN req
    BY <1>1 DEF Framed, Reshaped, NotKeys, keyVars, calls
  <1>3. Own(i) /\ calls[i].door = "gateway" /\ HasKey(i) /\ Timely(i, req[i].answer) /\ Token(i) \in DOMAIN Keys
    BY <1>1 DEF ServingInv, Own, GatePcs, PastGate, HasKey
  <1>4. Own(i)' /\ Linked(i)' /\ Progress(i)
    <2> DEFINE a == req[i].answer
    <2>1. ASSUME a.status = 200, calls[i].path \notin PublicPaths
          PROVE  /\ a.owner = OwnerOf(i) /\ a.read \in Int /\ now - a.read <= 2 * TTL
                 /\ Shares(i, Token(i)) /\ now <= revokedAt[Token(i)] + TTL
      <3>1. TTL \in Nat /\ "none" \notin DOMAIN Keys
        BY KeysAssumption
      <3>2. a.owner = OwnerOf(i) /\ a.read \in Int /\ now - a.read <= TTL /\ now <= revokedAt[Token(i)]
        BY <1>3, <2>1, <3>1 DEF Timely, Alive, None
      <3>3. now \in Int /\ revokedAt[Token(i)] \in Int
        BY <1>3 DEF ServingInv, KeysTrue
      <3>4. Shares(i, Token(i))
        BY DEF Shares, Token
      <3> QED BY <3>1, <3>2, <3>3, <3>4
    <2> QED BY <1>1, <1>3, <2>1, GivenOwn
  <1>5. CachedTrue' /\ EdgeTrue' /\ KnownTrue'
    BY <1>1, KeptStay
  <1>6. TasksTrue'
    <2> SUFFICES ASSUME NEW n \in DOMAIN tasks
                 PROVE  (LET l == tasks[n] IN l \in DOMAIN req /\ CacheKey(l) = n /\ req[l].pc \in {"ask", "store", "land"})'
      BY <1>1 DEF TasksTrue
    <2>1. tasks[n] \in DOMAIN req /\ CacheKey(tasks[n]) = n /\ req[tasks[n]].pc \in {"ask", "store", "land"}
      BY DEF ServingInv, CachesTrue, TasksTrue
    <2>2. tasks[n] # i
      BY <1>1, <2>1
    <2>3. req'[tasks[n]].pc = req[tasks[n]].pc /\ req'[tasks[n]].who = req[tasks[n]].who
      BY <1>1, <2>1, <2>2 DEF Framed, Reshaped, Only, ReqFields
    <2> QED BY <1>1, <1>2, <2>1, <2>3 DEF CacheKey, calls
  <1>7. FlightsTrue'
    <2> SUFFICES ASSUME NEW n \in DOMAIN flights'
                 PROVE  (LET l == flights[n]
                         IN  /\ l \in DOMAIN req /\ EdgeKey(l) = n /\ calls[l].door = "gateway" /\ calls[l].path \in CacheablePaths
                             /\ req[l].pc \in Proxied \ {"answered"})'
      BY DEF FlightsTrue
    <2>1. n \in DOMAIN flights /\ flights'[n] = flights[n] /\ (Leads(i) => n # EdgeKey(i))
      BY <1>1 DEF Restrict
    <2>2. PICK l \in DOMAIN req : l = flights[n]
      BY <2>1 DEF ServingInv, CachesTrue, FlightsTrue
    <2>3. /\ EdgeKey(l) = n /\ calls[l].door = "gateway" /\ calls[l].path \in CacheablePaths
          /\ req[l].pc \in Proxied \ {"answered"}
      BY <2>1, <2>2 DEF ServingInv, CachesTrue, FlightsTrue
    <2>4. l # i
      BY <2>1, <2>2, <2>3 DEF Leads
    <2>5. req'[l].pc = req[l].pc /\ req'[l].key = req[l].key
      BY <1>1, <2>4 DEF Framed, Reshaped, Only, ReqFields
    <2> QED BY <1>2, <2>1, <2>2, <2>3, <2>5 DEF EdgeKey, calls
  <1> QED BY <1>1, <1>4, <1>5, <1>6, <1>7, StepKeeps DEF CachesTrue

LEMMA EdgeWaitKeeps ==
    ASSUME ServingInv, NEW i \in DOMAIN req, EdgeWait(i) PROVE ServingInv'
  <1>0. PICK l \in DOMAIN req : l = req[i].of
    BY DEF ServingInv, Own
  <1>1. /\ Framed(i) /\ req[i].pc = "edge_wait" /\ UNCHANGED <<known, edge, cached, flights, tasks>>
        /\ \/ req[l].pc = "answered" /\ Given(i, req[l].answer)
           \/ Given(i, Answer(504))
    BY <1>0, EdgeWaitDoes DEF ServingInv, At
  <1>2. Steady(i)
    BY <1>1 DEF Steady, Proxied, ApiPcs
  <1>3. CASE Given(i, Answer(504))
    <2>1. Answer(504).status # 200
      BY DEF Answer
    <2> QED BY <1>1, <1>2, <1>3, <2>1, GivenOwn, QuietKeeps
  <1>4. CASE req[l].pc = "answered" /\ Given(i, req[l].answer)
    <2> DEFINE a == req[l].answer
    <2>1. HasKey(i) /\ calls[i].path \in CacheablePaths
      BY <1>1 DEF ServingInv, Own, GatePcs, PastGate
    <2>2. EdgeKey(l) = EdgeKey(i) /\ calls[l].door = "gateway" /\ req[l].at = now
      BY <1>0, <1>1, <1>4 DEF ServingInv, Linked
    <2>3. ASSUME a.status = 200, calls[i].path \notin PublicPaths
          PROVE  /\ a.owner = OwnerOf(i) /\ a.read \in Int /\ now - a.read <= 2 * TTL
                 /\ \E t \in DOMAIN Keys : Shares(i, t) /\ now <= revokedAt[t] + TTL
      <3>1. HasKey(l) /\ GivenTrue(l)
        BY <1>4, <2>2, <2>3 DEF ServingInv, Own
      <3>2. /\ Token(i) # None /\ Owner(req[i].key) = OwnerOf(i) /\ req[i].key.org = Keys[Token(i)].org
            /\ req[i].key.actor = Keys[Token(i)].actor
        BY <2>1, KeyOf
      <3>3. /\ Token(l) # None /\ Owner(req[l].key) = OwnerOf(l) /\ req[l].key.org = Keys[Token(l)].org
            /\ req[l].key.actor = Keys[Token(l)].actor
        BY <3>1, KeyOf
      <3>4. /\ calls[l].path = calls[i].path /\ req[l].key.org = req[i].key.org /\ req[l].key.actor = req[i].key.actor
            /\ (IF calls[l].bearer THEN None ELSE Token(l)) = (IF calls[i].bearer THEN None ELSE Token(i))
        BY <2>2 DEF EdgeKey, Token
      <3>5. Answered(l)
        BY <1>4, <2>3, <3>4 DEF Answered
      <3>6. /\ a.owner = OwnerOf(l) /\ a.read \in Int /\ now - a.read <= 2 * TTL
            /\ \E t \in DOMAIN Keys : Shares(l, t) /\ now <= revokedAt[t] + TTL
        BY <2>2, <3>1, <3>3, <3>5 DEF GivenTrue, Bound
      <3>7. \A t : Shares(l, t) => Shares(i, t)
        BY <3>2, <3>3, <3>4 DEF Shares, Token
      <3> QED BY <3>2, <3>3, <3>4, <3>6, <3>7 DEF Owner
    <2> HIDE DEF a
    <2>4. Given(i, a)
      BY <1>4 DEF a
    <2>5. Own(i)' /\ Linked(i)' /\ Progress(i)
      BY <1>1, <2>1, <2>3, <2>4, GivenOwn
    <2> QED BY <1>1, <1>2, <2>5, QuietKeeps
  <1> QED BY <1>1, <1>3, <1>4

\* What the API takes a call for: the tenant of its key, which lives, or else the headers'.
LEMMA SentAs ==
    ASSUME ServingInv, NEW i \in DOMAIN req
    PROVE  /\ Sent(i).token = Token(i) /\ Sent(i).path = calls[i].path
           /\ calls[i].door # "gateway" => Sent(i) = calls[i]
  <1>1. i \in DOMAIN calls /\ case \in Cases
    BY DEF ServingInv, Shaped, KeysTrue
  <1>2. DOMAIN calls[i] = CallFields /\ calls[i].door \in {"api", "gateway"}
    BY <1>1, CasesAssumption DEF calls
  <1> QED BY <1>2 DEF Sent, Token, CallFields

LEMMA ArrivalTrue ==
    ASSUME ServingInv, NEW i \in DOMAIN req, calls[i].path \notin PublicPaths,
           calls[i].door = "gateway" => HasKey(i), Tenant(Sent(i), Authenticate(Sent(i))) = 200
    PROVE  Owner(Authenticate(Sent(i))) = OwnerOf(i) /\ Alive(i)
  <1> DEFINE c == Sent(i)
             who == Authenticate(c)
  <1>1. c.token = Token(i) /\ c.path \notin PublicPaths /\ (calls[i].door # "gateway" => c = calls[i])
    BY SentAs
  <1>2. who.status = 200
    BY <1>1 DEF Tenant
  <1>3. CASE Token(i) # None
    <2>1. who = ByKey(c, Value(c.orgs), Value(c.actors))
      BY <1>1, <1>2, <1>3 DEF Authenticate, Refuse, Nobody
    <2>2. Live(Token(i)) /\ who.org = Keys[Token(i)].org /\ who.actor = Keys[Token(i)].actor
      BY <1>1, <1>2, <2>1 DEF ByKey, FindByToken, Refuse, Nobody
    <2>3. Token(i) \in DOMAIN Keys /\ revokedAt[Token(i)] = MaxTime + 1
      BY <2>2 DEF Live, ServingInv, KeysTrue
    <2>4. MaxTime \in Nat /\ now \in 0 .. MaxTime
      BY KeysAssumption DEF ServingInv, KeysTrue
    <2>5. now <= revokedAt[Token(i)]
      BY <2>3, <2>4
    <2> QED BY <1>3, <2>2, <2>3, <2>5 DEF Alive, OwnerOf, Owner, Token
  <1>4. CASE Token(i) = None
    <2>1. calls[i].door # "gateway"
      <3>1. "none" \notin DOMAIN Keys
        BY KeysAssumption
      <3> QED BY <1>4, <3>1 DEF HasKey, None
    <2>2. who.org = Value(calls[i].orgs) /\ who.actor = Value(calls[i].actors)
      BY <1>1, <1>2, <1>4, <2>1 DEF Authenticate, Refuse, Nobody
    <2> QED BY <1>4, <2>2 DEF Alive, OwnerOf, Owner, Token
  <1> QED BY <1>3, <1>4

LEMMA ArriveKeeps ==
    ASSUME ServingInv, NEW i \in DOMAIN req, Arrive(i) PROVE ServingInv'
  <1> DEFINE who == Authenticate(Sent(i))
             pc == IF calls[i].path = "healthz" THEN "solo" ELSE "meter"
  <1>1. /\ Framed(i) /\ At(i, "arrive") /\ UNCHANGED <<known, buckets, edge, cached, flights, tasks>>
        /\ \/ \E status \in {400, 401, 403, 503} : Returned(i, Answer(status))
           \/ Tenant(Sent(i), who) = 200 /\ Received(i, pc, who)
    BY ArriveDoes DEF ServingInv
  <1>2. req[i].pc = "arrive"
    BY <1>1 DEF At
  <1>3. CASE \E status \in {400, 401, 403, 503} : Returned(i, Answer(status))
    <2>1. PICK status \in {400, 401, 403, 503} : Returned(i, Answer(status))
      BY <1>3
    <2> DEFINE a == Answer(status)
    <2>2. Timely(i, a) /\ Returned(i, a) /\ req[i].pc \in (ApiPcs \ {"ask"}) \cup {"arrive"}
      BY <1>2, <2>1 DEF Timely, Answer
    <2> HIDE DEF a
    <2>3. Own(i)' /\ Linked(i)' /\ Progress(i) /\ Steady(i)
      BY <1>1, <1>2, <2>2, ReturnedOwn
    <2> QED BY <1>1, <2>3, QuietKeeps
  <1>4. CASE Tenant(Sent(i), who) = 200 /\ Received(i, pc, who)
    <2>0. /\ UNCHANGED <<case, now, stored, revokedAt>> /\ calls' = calls /\ DOMAIN req' = DOMAIN req
      BY <1>1 DEF Framed, Reshaped, NotKeys, keyVars, calls
    <2>1. /\ req'[i].pc = pc /\ req'[i].who = who /\ req'[i].of = req[i].of /\ req'[i].key = req[i].key /\ req'[i].at = req[i].at
      BY <1>4 DEF Received, Only, ReqFields
    <2>2. Own(i) /\ (calls[i].door = "gateway" => HasKey(i))
      BY <1>2 DEF ServingInv, Own, PastGate
    <2>3. calls[i].path \notin PublicPaths => Owner(who) = OwnerOf(i) /\ Alive(i)
      BY <1>4, <2>2, ArrivalTrue
    <2> HIDE DEF who
    <2>4. Told(i)' /\ (calls[i].door = "gateway" => HasKey(i)')
      BY <2>0, <2>1, <2>2, <2>3 DEF Told, HasKey, Alive, Token, OwnerOf, Owner, calls
    <2>5. Own(i)'
      BY <2>0, <2>1, <2>2, <2>4 DEF Own, GivenTrue, Answered, ApiPcs, GatePcs, PastGate, calls
    <2>6. Linked(i)' /\ Progress(i) /\ Steady(i)
      BY <1>2, <2>1 DEF Linked, Progress, Steady, Proxied, AskedPcs, ApiPcs
    <2> QED BY <1>1, <2>5, <2>6, QuietKeeps
  <1> QED BY <1>1, <1>3, <1>4

LEMMA MeterKeeps ==
    ASSUME ServingInv, NEW i \in DOMAIN req, Meter(i) PROVE ServingInv'
  <1>1. /\ Framed(i) /\ req[i].pc = "meter" /\ UNCHANGED <<known, buckets, edge, cached, flights, tasks>>
        /\ Looked(i, Bucket(Identity(i), Tier(i))) \/ Moved(i, "lookup")
    BY MeterDoes DEF ServingInv, At
  <1>2. CASE Looked(i, Bucket(Identity(i), Tier(i)))
    BY <1>1, <1>2, MeteredOwn, QuietKeeps DEF Looked, Only
  <1>3. CASE Moved(i, "lookup")
    BY <1>1, <1>3, MovedOwn, QuietKeeps
  <1> QED BY <1>1, <1>2, <1>3

LEMMA ChargeKeeps ==
    ASSUME ServingInv, NEW i \in DOMAIN req, Charge(i) PROVE ServingInv'
  <1>1. /\ Framed(i) /\ At(i, "charge") /\ UNCHANGED <<known, edge, cached, flights, tasks>>
        /\ Charged(i) \/ Returned(i, Answer(429)) \/ Moved(i, "lookup")
    BY ChargeDoes DEF ServingInv
  <1>2. req[i].pc = "charge"
    BY <1>1 DEF At
  <1>3. CASE Charged(i)
    BY <1>1, <1>2, <1>3, MeteredOwn, QuietKeeps DEF Charged, Only
  <1>4. CASE Returned(i, Answer(429))
    <2> DEFINE a == Answer(429)
    <2>1. Timely(i, a) /\ Returned(i, a) /\ req[i].pc \in (ApiPcs \ {"ask"}) \cup {"arrive"}
      BY <1>2, <1>4 DEF Timely, Answer, ApiPcs
    <2> HIDE DEF a
    <2>2. Own(i)' /\ Linked(i)' /\ Progress(i) /\ Steady(i)
      BY <1>1, <1>2, <2>1, ReturnedOwn
    <2> QED BY <1>1, <2>2, QuietKeeps
  <1>5. CASE Moved(i, "lookup")
    BY <1>1, <1>2, <1>5, MovedOwn, QuietKeeps
  <1> QED BY <1>1, <1>3, <1>4, <1>5

LEMMA LookupKeeps ==
    ASSUME ServingInv, NEW i \in DOMAIN req, Lookup(i) PROVE ServingInv'
  <1> DEFINE k == CacheKey(i)
             a == cached[k].answer
  <1>1. /\ Framed(i) /\ req[i].pc = "lookup" /\ UNCHANGED <<known, buckets, edge, cached, flights, tasks>>
        /\ \/ Moved(i, "solo")
           \/ calls[i].path \in CacheablePaths /\ k \in DOMAIN cached /\ Returned(i, a)
           \/ calls[i].path \in CacheablePaths /\ Moved(i, "join")
    BY LookupDoes DEF ServingInv, At
  <1>2. CASE Moved(i, "solo") \/ (calls[i].path \in CacheablePaths /\ Moved(i, "join"))
    BY <1>1, <1>2, MovedOwn, QuietKeeps
  <1>3. CASE k \in DOMAIN cached /\ Returned(i, a)
    <2>1. Told(i) /\ <<k[3], k[4]>> = Owner(req[i].who)
      BY <1>1 DEF ServingInv, Own, ApiPcs, CacheKey, Owner
    <2>2. /\ a.owner = <<k[3], k[4]>> /\ a.read \in Int /\ a.read <= now /\ cached[k].until = a.read + TTL /\ cached[k].until >= now
      BY <1>3 DEF ServingInv, CachesTrue, CachedTrue
    <2>3. TTL \in Nat /\ now \in Int
      <3>1. now \in Int
        BY DEF ServingInv, KeysTrue
      <3> QED BY <3>1, KeysAssumption
    <2>4. Timely(i, a) /\ req[i].pc \in (ApiPcs \ {"ask"}) \cup {"arrive"}
      BY <1>1, <2>1, <2>2, <2>3 DEF Timely, Told, ApiPcs
    <2> HIDE DEF a
    <2>5. Own(i)' /\ Linked(i)' /\ Progress(i) /\ Steady(i)
      BY <1>1, <1>3, <2>4, ReturnedOwn
    <2> QED BY <1>1, <2>5, QuietKeeps
  <1> QED BY <1>1, <1>2, <1>3

LEMMA JoinKeeps ==
    ASSUME ServingInv, NEW i \in DOMAIN req, Join(i) PROVE ServingInv'
  <1> DEFINE k == CacheKey(i)
  <1>1. /\ Framed(i) /\ req[i].pc = "join" /\ UNCHANGED <<known, buckets, edge, cached, flights>>
        /\ \/ k \notin DOMAIN tasks /\ tasks' = With(tasks, k, i) /\ Moved(i, "ask")
           \/ k \in DOMAIN tasks /\ UNCHANGED tasks /\ Follows(i, "follow", tasks[k])
    BY JoinDoes DEF ServingInv, At
  <1>2. /\ UNCHANGED <<case, now, stored, revokedAt>> /\ calls' = calls /\ DOMAIN req' = DOMAIN req
    BY <1>1 DEF Framed, Reshaped, NotKeys, keyVars, calls
  <1>3. Own(i) /\ Told(i) /\ calls[i].path \in CacheablePaths /\ (calls[i].door = "gateway" => HasKey(i))
    BY <1>1 DEF ServingInv, Own, ApiPcs, PastGate
  <1>4. CASE k \notin DOMAIN tasks /\ tasks' = With(tasks, k, i) /\ Moved(i, "ask")
    <2>1. Own(i)' /\ Linked(i)' /\ Progress(i) /\ Steady(i)
      BY <1>1, <1>4, MovedOwn
    <2>2. CachedTrue' /\ EdgeTrue' /\ KnownTrue'
      BY <1>1, KeptStay
    <2>3. FlightsTrue'
      <3> SUFFICES ASSUME NEW n \in DOMAIN flights
                   PROVE  (LET l == flights[n]
                           IN  /\ l \in DOMAIN req /\ EdgeKey(l) = n /\ calls[l].door = "gateway" /\ calls[l].path \in CacheablePaths
                               /\ req[l].pc \in Proxied \ {"answered"})'
        BY <1>1 DEF FlightsTrue
      <3>1. PICK l \in DOMAIN req : l = flights[n]
        BY DEF ServingInv, CachesTrue, FlightsTrue
      <3>2. /\ EdgeKey(l) = n /\ calls[l].door = "gateway" /\ calls[l].path \in CacheablePaths
            /\ req[l].pc \in Proxied \ {"answered"}
        BY <3>1 DEF ServingInv, CachesTrue, FlightsTrue
      <3>3. req'[l].key = req[l].key /\ req'[l].pc \in Proxied \ {"answered"}
        BY <1>1, <1>4, <3>2 DEF Framed, Reshaped, Moved, Only, ReqFields, Proxied, ApiPcs
      <3> QED BY <1>1, <1>2, <3>1, <3>2, <3>3 DEF EdgeKey, calls
    <2>4. TasksTrue'
      <3> SUFFICES ASSUME NEW n \in DOMAIN tasks'
                   PROVE  (LET l == tasks[n] IN l \in DOMAIN req /\ CacheKey(l) = n /\ req[l].pc \in {"ask", "store", "land"})'
        BY DEF TasksTrue
      <3>1. req'[i].pc = "ask" /\ req'[i].who = req[i].who
        BY <1>4 DEF Moved, Only, ReqFields
      <3>2. CASE n = k
        <4>1. tasks'[n] = i
          BY <1>4, <3>2 DEF With
        <4> QED BY <1>2, <3>1, <3>2, <4>1 DEF CacheKey, calls
      <3>3. CASE n # k
        <4>1. n \in DOMAIN tasks /\ tasks'[n] = tasks[n]
          BY <1>4, <3>3 DEF With
        <4>2. PICK l \in DOMAIN req : l = tasks[n]
          BY <4>1 DEF ServingInv, CachesTrue, TasksTrue
        <4>3. CacheKey(l) = n /\ req[l].pc \in {"ask", "store", "land"}
          BY <4>1, <4>2 DEF ServingInv, CachesTrue, TasksTrue
        <4>4. l # i
          BY <3>3, <4>3
        <4>5. req'[l].pc = req[l].pc /\ req'[l].who = req[l].who
          BY <1>1, <4>4 DEF Framed, Reshaped, Only, ReqFields
        <4> QED BY <1>2, <4>1, <4>2, <4>3, <4>5 DEF CacheKey, calls
      <3> QED BY <3>2, <3>3
    <2> QED BY <1>1, <2>1, <2>2, <2>3, <2>4, StepKeeps DEF CachesTrue
  <1>5. CASE k \in DOMAIN tasks /\ UNCHANGED tasks /\ Follows(i, "follow", tasks[k])
    <2>0. PICK l \in DOMAIN req : l = tasks[k]
      BY <1>5 DEF ServingInv, CachesTrue, TasksTrue
    <2>1. /\ req'[i].pc = "follow" /\ req'[i].of = l /\ req'[i].key = req[i].key /\ req'[i].at = req[i].at
          /\ req'[i].who = req[i].who
      BY <1>5, <2>0 DEF Follows, Only, ReqFields
    <2>2. CacheKey(l) = k /\ req[l].pc \in {"ask", "store", "land"} /\ (req[l].pc # "ask" => MadeTrue(l))
      BY <1>5, <2>0 DEF ServingInv, CachesTrue, TasksTrue, Own
    <2>3. l # i
      BY <1>1, <2>2
    <2>4. req'[l].pc = req[l].pc /\ req'[l].who = req[l].who /\ req'[l].made = req[l].made
      BY <1>1, <2>3 DEF Framed, Reshaped, Only, ReqFields
    <2>5. Linked(i)'
      <3>1. CacheKey(l)' = CacheKey(l) /\ CacheKey(i)' = CacheKey(i) /\ MadeTrue(l)' = MadeTrue(l)
        BY <1>2, <2>1, <2>4 DEF CacheKey, MadeTrue, calls
      <3>2. CacheKey(l)' = CacheKey(i)' /\ (req[l].pc # "ask" => MadeTrue(l))'
        BY <2>2, <2>4, <3>1
      <3> QED BY <2>1, <2>2, <2>4, <3>2 DEF Linked, AskedPcs
    <2>6. Told(i)' /\ (calls[i].door = "gateway" => HasKey(i)')
      BY <1>2, <1>3, <2>1 DEF Told, HasKey, Alive, Token, OwnerOf, Owner, calls
    <2>7. Own(i)'
      BY <1>2, <1>3, <2>1, <2>6 DEF Own, ApiPcs, GatePcs, PastGate, GivenTrue, Answered, calls
    <2>8. Progress(i) /\ Steady(i)
      BY <1>1, <2>1 DEF Progress, Steady, Proxied, AskedPcs, ApiPcs
    <2> QED BY <1>1, <1>5, <2>5, <2>7, <2>8, QuietKeeps
  <1> QED BY <1>1, <1>4, <1>5

\* What the route answers is of the one who asked, and of now.
LEMMA HandledTrue ==
    ASSUME ServingInv, NEW i \in DOMAIN req, Told(i)
    PROVE  /\ Handled(i).status = 200 /\ Handled(i).owner = Owner(req[i].who) /\ Handled(i).read = now
           /\ Timely(i, Handled(i))
  <1>1. Handled(i).status = 200 /\ Handled(i).owner = Owner(req[i].who) /\ Handled(i).read = now
    BY DEF Handled, Answer
  <1>2. now \in Int /\ TTL \in Nat
    <2>1. now \in Int
      BY DEF ServingInv, KeysTrue
    <2> QED BY <2>1, KeysAssumption
  <1> DEFINE a == Handled(i)
  <1> HIDE DEF a
  <1>3. a.owner = Owner(req[i].who) /\ a.read = now => Timely(i, a)
    BY <1>2 DEF Timely, Told
  <1> QED BY <1>1, <1>3 DEF a

LEMMA SoloKeeps ==
    ASSUME ServingInv, NEW i \in DOMAIN req, Solo(i) PROVE ServingInv'
  <1>1. /\ Framed(i) /\ At(i, "solo") /\ UNCHANGED <<known, buckets, edge, cached, flights, tasks>>
        /\ \E a \in {Handled(i), Answer(Raised)} : Returned(i, a)
    BY SoloDoes DEF ServingInv
  <1>2. req[i].pc = "solo" /\ Told(i)
    BY <1>1 DEF At, ServingInv, Own, ApiPcs
  <1>3. Timely(i, Handled(i)) /\ Timely(i, Answer(Raised))
    BY <1>2, HandledTrue DEF Timely, Answer, Raised
  <1>4. PICK a : Returned(i, a) /\ Timely(i, a)
    BY <1>1, <1>3
  <1>5. Own(i)' /\ Linked(i)' /\ Progress(i) /\ Steady(i)
    BY <1>1, <1>2, <1>4, ReturnedOwn DEF ApiPcs
  <1> QED BY <1>1, <1>5, QuietKeeps

LEMMA AskKeeps ==
    ASSUME ServingInv, NEW i \in DOMAIN req, Ask(i) PROVE ServingInv'
  <1>1. /\ Framed(i) /\ req[i].pc = "ask" /\ UNCHANGED <<known, buckets, edge, cached, flights, tasks>>
        /\ \/ Made(i, "store", Handled(i))
           \/ \E status \in {Raised, 503} : Made(i, "land", Answer(status))
    BY AskDoes DEF ServingInv, At
  <1>2. /\ UNCHANGED <<case, now, stored, revokedAt>> /\ calls' = calls /\ DOMAIN req' = DOMAIN req
    BY <1>1 DEF Framed, Reshaped, NotKeys, keyVars, calls
  <1>3. Own(i) /\ Told(i) /\ calls[i].path \in CacheablePaths /\ (calls[i].door = "gateway" => HasKey(i))
    BY <1>1 DEF ServingInv, Own, ApiPcs, PastGate
  <1>4. PICK pc, a :
            /\ pc \in {"store", "land"} /\ Made(i, pc, a) /\ (a.status = 200 => a.owner = Owner(req[i].who) /\ a.read = now)
            /\ pc = "store" => a.status = 200
    <2>1. CASE Made(i, "store", Handled(i))
      BY <1>3, <2>1, HandledTrue
    <2>2. CASE \E status \in {Raised, 503} : Made(i, "land", Answer(status))
      <3>1. PICK status \in {Raised, 503} : Made(i, "land", Answer(status))
        BY <2>2
      <3>2. Answer(status).status # 200
        BY DEF Answer, Raised
      <3> QED BY <3>1, <3>2
    <2> QED BY <1>1, <2>1, <2>2
  <1>5. /\ req'[i].pc = pc /\ req'[i].made = a /\ req'[i].who = req[i].who /\ req'[i].of = req[i].of
        /\ req'[i].key = req[i].key /\ req'[i].at = req[i].at
    BY <1>4 DEF Made, Only, ReqFields
  <1>6. MadeTrue(i)' /\ Told(i)' /\ (calls[i].door = "gateway" => HasKey(i)')
    BY <1>2, <1>3, <1>4, <1>5 DEF MadeTrue, Told, HasKey, Alive, Token, OwnerOf, Owner, calls
  <1>7. Own(i)'
    BY <1>2, <1>3, <1>4, <1>5, <1>6 DEF Own, GivenTrue, Answered, ApiPcs, GatePcs, PastGate, calls
  <1>8. Linked(i)' /\ Progress(i) /\ Steady(i)
    BY <1>1, <1>4, <1>5, <1>6 DEF Linked, Progress, Steady, Proxied, AskedPcs, ApiPcs
  <1> QED BY <1>1, <1>7, <1>8, QuietKeeps

LEMMA StoreKeeps ==
    ASSUME ServingInv, NEW i \in DOMAIN req, Store(i) PROVE ServingInv'
  <1> DEFINE k == CacheKey(i)
             e == [answer |-> req[i].made, until |-> Expires]
  <1>1. /\ Framed(i) /\ req[i].pc = "store" /\ Moved(i, "land") /\ UNCHANGED <<known, buckets, edge, flights, tasks>>
        /\ UNCHANGED cached \/ cached' = With(cached, k, e)
    BY StoreDoes DEF ServingInv, At
  <1>2. Own(i)' /\ Linked(i)' /\ Progress(i) /\ Steady(i)
    BY <1>1, MovedOwn
  <1>3. EdgeTrue' /\ KnownTrue' /\ (UNCHANGED cached => CachedTrue') /\ TasksTrue' /\ FlightsTrue'
    BY <1>1, <1>2, KeptStay, SharedStay
  <1>4. ASSUME cached' = With(cached, k, e) PROVE CachedTrue'
    <2>1. UNCHANGED now /\ now \in Int
      BY <1>1 DEF Framed, NotKeys, ServingInv, KeysTrue
    <2>2. /\ req[i].made.status = 200 /\ req[i].made.owner = Owner(req[i].who) /\ req[i].made.read = now
      BY <1>1 DEF ServingInv, Own, MadeTrue
    <2>3. <<k[3], k[4]>> = Owner(req[i].who) /\ e.answer = req[i].made /\ e.until = now + TTL
      BY DEF CacheKey, Expires, Owner
    <2>4. TTL \in Nat \ {0}
      BY KeysAssumption
    <2> HIDE DEF e, k
    <2>5. /\ e.answer.status = 200 /\ e.answer.owner = <<k[3], k[4]>> /\ e.answer.read \in Int /\ e.answer.read <= now
          /\ e.until = e.answer.read + TTL /\ e.until >= now
      BY <2>1, <2>2, <2>3, <2>4
    <2>6. DOMAIN cached' = DOMAIN cached \cup {k} /\ cached'[k] = e /\ \A n \in DOMAIN cached : n # k => cached'[n] = cached[n]
      BY <1>4 DEF With
    <2>7. CachedTrue
      BY DEF ServingInv, CachesTrue
    <2> QED BY <2>1, <2>5, <2>6, <2>7 DEF CachedTrue
  <1> QED BY <1>1, <1>2, <1>3, <1>4, StepKeeps DEF CachesTrue

\* What those who share a question are given.
LEMMA BodyTrue ==
    ASSUME ServingInv, NEW i \in DOMAIN req, NEW l \in DOMAIN req, Told(i), MadeTrue(l), Owner(req[l].who) = Owner(req[i].who)
    PROVE  Timely(i, Body(l))
  <1>1. now \in Int /\ TTL \in Nat
    <2>1. now \in Int
      BY DEF ServingInv, KeysTrue
    <2> QED BY <2>1, KeysAssumption
  <1>2. Body(l).status = req[l].made.status /\ Body(l).owner = req[l].made.owner /\ Body(l).read = req[l].made.read
    BY DEF Body
  <1> DEFINE a == Body(l)
  <1> HIDE DEF a
  <1>3. a.status = req[l].made.status /\ a.owner = req[l].made.owner /\ a.read = req[l].made.read
    BY <1>2 DEF a
  <1>4. Timely(i, a)
    BY <1>1, <1>3 DEF Timely, MadeTrue, Told
  <1> QED BY <1>4 DEF a

LEMMA LandKeeps ==
    ASSUME ServingInv, NEW i \in DOMAIN req, Land(i) PROVE ServingInv'
  <1> DEFINE k == CacheKey(i)
  <1>1. /\ Framed(i) /\ At(i, "land") /\ Returned(i, Body(i)) /\ UNCHANGED <<known, buckets, edge, cached, flights>>
        /\ tasks' = Restrict(tasks, DOMAIN tasks \ {k})
    BY LandDoes DEF ServingInv
  <1>2. /\ UNCHANGED <<case, now, stored, revokedAt>> /\ calls' = calls /\ DOMAIN req' = DOMAIN req
    BY <1>1 DEF Framed, Reshaped, NotKeys, keyVars, calls
  <1>3. req[i].pc = "land" /\ Told(i) /\ MadeTrue(i)
    BY <1>1 DEF At, ServingInv, Own, ApiPcs
  <1>4. /\ Own(i)' /\ Linked(i)' /\ Progress(i) /\ (calls[i].door = "gateway" => req'[i].pc = "edge_store")
    <2>1. Timely(i, Body(i)) /\ req[i].pc \in (ApiPcs \ {"ask"}) \cup {"arrive"}
      BY <1>3, BodyTrue DEF ApiPcs
    <2> DEFINE a == Body(i)
    <2>2. Timely(i, a) /\ Returned(i, a)
      BY <1>1, <2>1
    <2> HIDE DEF a
    <2> QED BY <1>1, <2>1, <2>2, ReturnedOwn
  <1>5. CachedTrue' /\ EdgeTrue' /\ KnownTrue'
    BY <1>1, KeptStay
  <1>6. TasksTrue'
    <2> SUFFICES ASSUME NEW n \in DOMAIN tasks'
                 PROVE  (LET l == tasks[n] IN l \in DOMAIN req /\ CacheKey(l) = n /\ req[l].pc \in {"ask", "store", "land"})'
      BY DEF TasksTrue
    <2>1. n \in DOMAIN tasks /\ tasks'[n] = tasks[n] /\ n # k
      BY <1>1 DEF Restrict
    <2>2. PICK l \in DOMAIN req : l = tasks[n]
      BY <2>1 DEF ServingInv, CachesTrue, TasksTrue
    <2>3. CacheKey(l) = n /\ req[l].pc \in {"ask", "store", "land"}
      BY <2>1, <2>2 DEF ServingInv, CachesTrue, TasksTrue
    <2>4. l # i
      BY <2>1, <2>3
    <2>5. req'[l].pc = req[l].pc /\ req'[l].who = req[l].who
      BY <1>1, <2>4 DEF Framed, Reshaped, Only, ReqFields
    <2> QED BY <1>2, <2>1, <2>2, <2>3, <2>5 DEF CacheKey, calls
  <1>7. FlightsTrue'
    <2> SUFFICES ASSUME NEW n \in DOMAIN flights
                 PROVE  (LET l == flights[n]
                         IN  /\ l \in DOMAIN req /\ EdgeKey(l) = n /\ calls[l].door = "gateway" /\ calls[l].path \in CacheablePaths
                             /\ req[l].pc \in Proxied \ {"answered"})'
      BY <1>1 DEF FlightsTrue
    <2>1. PICK l \in DOMAIN req : l = flights[n]
      BY DEF ServingInv, CachesTrue, FlightsTrue
    <2>2. /\ EdgeKey(l) = n /\ calls[l].door = "gateway" /\ calls[l].path \in CacheablePaths
          /\ req[l].pc \in Proxied \ {"answered"}
      BY <2>1 DEF ServingInv, CachesTrue, FlightsTrue
    <2>3. req'[l].key = req[l].key /\ req'[l].pc \in Proxied \ {"answered"}
      <3>1. CASE l = i
        BY <1>3, <1>4, <2>2, <3>1 DEF Progress, Proxied, ApiPcs
      <3>2. CASE l # i
        BY <1>1, <2>2, <3>2 DEF Framed, Reshaped, Only, ReqFields
      <3> QED BY <3>1, <3>2
    <2> QED BY <1>1, <1>2, <2>1, <2>2, <2>3 DEF EdgeKey, calls
  <1> QED BY <1>1, <1>4, <1>5, <1>6, <1>7, StepKeeps DEF CachesTrue

LEMMA FollowKeeps ==
    ASSUME ServingInv, NEW i \in DOMAIN req, Follow(i) PROVE ServingInv'
  <1>0. PICK l \in DOMAIN req : l = req[i].of
    BY DEF ServingInv, Own
  <1>1. /\ Framed(i) /\ At(i, "follow") /\ UNCHANGED <<known, buckets, edge, cached, flights, tasks>>
        /\ Asked(l) /\ (Moved(i, "solo") \/ Returned(i, Body(l)))
    BY <1>0, FollowDoes DEF ServingInv
  <1>2. req[i].pc = "follow" /\ Told(i) /\ Linked(i)
    BY <1>1 DEF At, ServingInv, Own, ApiPcs
  <1>3. CASE Moved(i, "solo")
    BY <1>1, <1>2, <1>3, MovedOwn, QuietKeeps
  <1>4. CASE Returned(i, Body(l))
    <2>1. MadeTrue(l) /\ CacheKey(l) = CacheKey(i)
      BY <1>0, <1>1, <1>2 DEF Linked, Asked, AskedPcs
    <2>0. Owner(req[l].who) = Owner(req[i].who)
      BY <2>1 DEF CacheKey, Owner
    <2> DEFINE a == Body(l)
    <2>2. Timely(i, a) /\ Returned(i, a)
      BY <1>2, <1>4, <2>0, <2>1, BodyTrue
    <2> HIDE DEF a
    <2>3. Own(i)' /\ Linked(i)' /\ Progress(i) /\ Steady(i)
      BY <1>1, <1>2, <2>2, ReturnedOwn DEF ApiPcs
    <2> QED BY <1>1, <2>3, QuietKeeps
  <1> QED BY <1>1, <1>3, <1>4

-----------------------------------------------------------------------------
(* what happens beside the calls *)

\* A revocation that is committed now comes no earlier than anything that was given out or kept.
LEMMA KeysMove ==
    ASSUME ServingInv, KeysTrue', UNCHANGED <<case, now, known, edge, cached, flights, tasks, req>>,
           \A t \in DOMAIN Keys : revokedAt'[t] = revokedAt[t] \/ revokedAt'[t] = now
    PROVE  ServingInv'
  <1>0. calls' = calls /\ now \in Int /\ (\A t \in DOMAIN Keys : revokedAt[t] \in Int) /\ TTL \in Nat
    <2>1. calls' = calls /\ now \in Int /\ (\A t \in DOMAIN Keys : revokedAt[t] \in Int)
      BY DEF calls, ServingInv, KeysTrue
    <2> QED BY <2>1, KeysAssumption
  <1>1. CachesTrue'
    <2>1. CachedTrue' /\ TasksTrue' /\ FlightsTrue' /\ KnownTrue'
      BY DEF ServingInv, CachesTrue, CachedTrue, TasksTrue, FlightsTrue, KnownTrue, CacheKey, EdgeKey, calls
    <2>2. EdgeTrue'
      <3>1. EdgeTrue
        BY DEF ServingInv, CachesTrue
      <3> QED BY <1>0, <3>1 DEF EdgeTrue
    <2> QED BY <2>1, <2>2 DEF CachesTrue
  <1>2. ASSUME NEW i \in DOMAIN req PROVE Own(i)' /\ Linked(i)'
    <2>1. Own(i) /\ Linked(i)
      BY DEF ServingInv
    <2>2. Alive(i) => Alive(i)'
      BY <1>0 DEF Alive, Token, calls
    <2>3. (Told(i) => Told(i)') /\ (Timely(i, req[i].answer) => Timely(i, req[i].answer)')
      BY <1>0, <2>2 DEF Told, Timely, OwnerOf, Owner, calls
    <2>4. GivenTrue(i)'
      <3>1. req[i].at \in Int /\ req[i].at <= now /\ GivenTrue(i)
        BY <2>1 DEF Own
      <3>2. ASSUME Answered(i), Token(i) # None
            PROVE  IF calls[i].door = "gateway"
                   THEN \E t \in DOMAIN Keys : Shares(i, t) /\ req[i].at <= revokedAt'[t] + TTL
                   ELSE Token(i) \in DOMAIN Keys /\ req[i].at <= revokedAt'[Token(i)]
        BY <1>0, <3>1, <3>2 DEF GivenTrue
      <3> QED BY <1>0, <3>1, <3>2 DEF GivenTrue, Answered, Bound, Token, OwnerOf, Owner, Shares, calls
    <2>5. Own(i)'
      BY <1>0, <2>1, <2>3, <2>4 DEF Own, HasKey, MadeTrue, Token, calls
    <2>6. Linked(i)'
      BY <1>0, <2>1 DEF Linked, CacheKey, EdgeKey, MadeTrue, calls
    <2> QED BY <2>5, <2>6
  <1>3. Shaped'
    BY DEF ServingInv, Shaped, calls
  <1> QED BY <1>1, <1>2, <1>3 DEF ServingInv

LEMMA KeyStepKeeps ==
    ASSUME ServingInv, NEW t \in DOMAIN Keys, KeyStep(t) PROVE ServingInv'
  <1>1. UNCHANGED <<case, now, known, edge, cached, flights, tasks, req>>
    BY DEF KeyStep, MakeKey, CommitKey, RevokeKey, CommitRevocation, NotServing
  <1>2. KeysTrue
    BY DEF ServingInv
  <1>3. CASE MakeKey(t) \/ CommitKey(t) \/ RevokeKey(t)
    <2>1. UNCHANGED revokedAt /\ published' \subseteq DOMAIN Keys /\ DOMAIN stored' = DOMAIN Keys
      BY <1>2, <1>3 DEF MakeKey, CommitKey, RevokeKey, KeysTrue
    <2>2. \A u \in DOMAIN Keys : stored'[u] # "revoked" => stored[u] # "revoked"
      BY <1>2, <1>3 DEF MakeKey, CommitKey, RevokeKey, KeysTrue
    <2>3. KeysTrue'
      BY <1>1, <1>2, <2>1, <2>2 DEF KeysTrue
    <2> QED BY <1>1, <2>1, <2>3, KeysMove
  <1>4. CASE CommitRevocation(t)
    <2>1. /\ stored' = [stored EXCEPT ![t] = "revoked"] /\ revokedAt' = [revokedAt EXCEPT ![t] = now] /\ UNCHANGED published
      BY <1>4 DEF CommitRevocation
    <2>2. \A u \in DOMAIN Keys : revokedAt'[u] = revokedAt[u] \/ revokedAt'[u] = now
      BY <1>2, <2>1 DEF KeysTrue
    <2>3. KeysTrue'
      BY <1>1, <1>2, <2>1 DEF KeysTrue
    <2> QED BY <1>1, <2>2, <2>3, KeysMove
  <1> QED BY <1>3, <1>4 DEF KeyStep

\* What lapses is only gone.
LEMMA LapseKeeps ==
    ASSUME ServingInv, Lapse PROVE ServingInv'
  <1>1. /\ UNCHANGED <<case, now, stored, revokedAt, published, known, flights, tasks, req>> /\ calls' = calls
    BY DEF Lapse, keyVars, calls
  <1>2. /\ DOMAIN cached' \subseteq DOMAIN cached /\ \A k \in DOMAIN cached' : cached'[k] = cached[k]
        /\ DOMAIN edge' \subseteq DOMAIN edge /\ \A k \in DOMAIN edge' : edge'[k] = edge[k]
    BY DEF Lapse, Restrict
  <1>3. CachedTrue' /\ EdgeTrue'
    BY <1>1, <1>2 DEF ServingInv, CachesTrue, CachedTrue, EdgeTrue
  <1>4. TasksTrue' /\ FlightsTrue' /\ KnownTrue' /\ Shaped' /\ KeysTrue'
    BY <1>1 DEF ServingInv, CachesTrue, TasksTrue, FlightsTrue, KnownTrue, Shaped, KeysTrue, CacheKey, EdgeKey, calls
  <1>5. ASSUME NEW i \in DOMAIN req PROVE Own(i)' /\ Linked(i)'
    <2>1. Own(i) /\ Linked(i)
      BY DEF ServingInv
    <2>2. Own(i)'
      BY <1>1, <2>1 DEF Own, Token, Alive, HasKey, Told, MadeTrue, Timely, GivenTrue, Answered, Bound, Shares, OwnerOf, Owner, calls
    <2>3. Linked(i)'
      BY <1>1, <2>1 DEF Linked, CacheKey, EdgeKey, MadeTrue, Owner, calls
    <2> QED BY <2>2, <2>3
  <1> QED BY <1>1, <1>3, <1>4, <1>5 DEF ServingInv, CachesTrue

\* The clock finds no call within the API, and nobody who waits for what was answered before.
LEMMA TickKeeps ==
    ASSUME ServingInv, Tick PROVE ServingInv'
  <1>0. /\ UNCHANGED <<case, stored, revokedAt, published, known, flights, tasks, req>> /\ calls' = calls
        /\ now' = now + 1 /\ now < case.ticks /\ now \in 0 .. MaxTime /\ case \in Cases
    BY DEF Tick, keyVars, calls, ServingInv, KeysTrue
  <1>1. case.ticks \in 0 .. MaxTime /\ MaxTime \in Nat /\ TTL \in Nat \ {0}
    BY <1>0, CasesAssumption, KeysAssumption
  <1>2. now \in Int /\ now' \in 0 .. MaxTime /\ now' <= case.ticks
    BY <1>0, <1>1
  <1>3. KeysTrue'
    BY <1>0, <1>2 DEF ServingInv, KeysTrue
  <1>4. CachedTrue'
    <2>1. \A k \in DOMAIN cached' : k \in DOMAIN cached /\ cached'[k] = cached[k] /\ cached[k].until # now
      BY DEF Tick, Fresh, Lapsed, Restrict
    <2>2. CachedTrue
      BY DEF ServingInv, CachesTrue
    <2> QED BY <1>0, <1>1, <1>2, <2>1, <2>2 DEF CachedTrue
  <1>5. EdgeTrue'
    <2>1. \A k \in DOMAIN edge' : k \in DOMAIN edge /\ edge'[k] = edge[k] /\ edge[k].until # now
      BY DEF Tick, Fresh, Lapsed, Restrict
    <2>2. EdgeTrue
      BY DEF ServingInv, CachesTrue
    <2> QED BY <1>0, <1>1, <1>2, <2>1, <2>2 DEF EdgeTrue
  <1>6. TasksTrue' /\ FlightsTrue' /\ KnownTrue' /\ Shaped'
    BY <1>0 DEF ServingInv, CachesTrue, TasksTrue, FlightsTrue, KnownTrue, Shaped, CacheKey, EdgeKey, calls
  <1>7. ASSUME NEW i \in DOMAIN req PROVE Own(i)' /\ Linked(i)'
    <2>1. Own(i) /\ Linked(i) /\ req[i].pc \in Outside /\ req[i].of \in DOMAIN req
      BY DEF ServingInv, Own, Tick
    <2>2. req[i].pc \notin ApiPcs /\ req[i].pc \notin {"store", "land", "edge_store", "edge_land", "follow"}
      BY <2>1 DEF Outside, ApiPcs
    <2>3. GivenTrue(i)' /\ (HasKey(i) => HasKey(i)') /\ req[i].at <= now + 1
      BY <1>0, <1>2, <2>1 DEF Own, GivenTrue, Answered, Bound, Token, OwnerOf, Owner, Shares, HasKey, calls
    <2>4. Own(i)'
      BY <1>0, <2>1, <2>2, <2>3 DEF Own, Token, calls
    <2>5. req[i].pc = "edge_wait" => req[req[i].of].pc # "answered"
      BY DEF Tick, At
    <2>6. Linked(i)'
      BY <1>0, <2>1, <2>2, <2>5 DEF Linked, EdgeKey, calls
    <2> QED BY <2>4, <2>6
  <1> QED BY <1>0, <1>3, <1>4, <1>5, <1>6, <1>7 DEF ServingInv, CachesTrue

LEMMA ServingStarts == ServingInit => ServingInv
  <1> SUFFICES ASSUME ServingInit PROVE ServingInv
    OBVIOUS
  <1>1. /\ MaxTime \in Nat /\ case \in Cases /\ case.ticks \in 0 .. MaxTime
    BY KeysAssumption, CasesAssumption DEF ServingInit
  <1>2. KeysTrue
    BY <1>1 DEF ServingInit, KeysTrue
  <1>3. CachesTrue
    BY DEF ServingInit, CachesTrue, CachedTrue, EdgeTrue, TasksTrue, FlightsTrue, KnownTrue
  <1>4. Shaped
    BY DEF ServingInit, Shaped, ReqFields, calls
  <1>5. ASSUME NEW i \in DOMAIN req PROVE Own(i) /\ Linked(i)
    <2>1. req[i].pc = "out" /\ req[i].at = 0 /\ req[i].of = i /\ now = 0
      BY DEF ServingInit
    <2> QED BY <2>1 DEF Own, Linked, GivenTrue, Answered, GatePcs, ApiPcs, PastGate
  <1> QED BY <1>2, <1>3, <1>4, <1>5 DEF ServingInv

LEMMA ServingKeeps == ServingInv /\ [ServingNext]_servingVars => ServingInv'
  <1> SUFFICES ASSUME ServingInv, [ServingNext]_servingVars PROVE ServingInv'
    OBVIOUS
  <1>1. ASSUME NEW i \in DOMAIN req, Step(i) PROVE ServingInv'
    BY <1>1, ComeKeeps, VerifyKeeps, ReadKeyKeeps, GateMeterKeeps, EdgeLookupKeeps, EdgeJoinKeeps, EdgeAbortKeeps,
       EdgeStoreKeeps, EdgeLandKeeps, EdgeWaitKeeps, ArriveKeeps, MeterKeeps, ChargeKeeps, LookupKeeps, JoinKeeps,
       SoloKeeps, AskKeeps, StoreKeeps, LandKeeps, FollowKeeps DEF Step
  <1>2. ASSUME UNCHANGED servingVars PROVE ServingInv'
    <2>1. KeysTrue' /\ UNCHANGED <<case, now, known, edge, cached, flights, tasks, req, revokedAt>>
      BY <1>2 DEF servingVars, keyVars, ServingInv, KeysTrue
    <2> QED BY <2>1, KeysMove
  <1> QED BY <1>1, <1>2, KeyStepKeeps, LapseKeeps, TickKeeps DEF ServingNext

\* Whatever came through the caches of the API and of the gateway, and through a question that was
\* asked for several, was read for the tenant who was given it, is no older than it may be, and was
\* not given for a key that was dead (CacheTrue: response_cache.py, gateway cache).
THEOREM CachesTruthful == ServingSpec => []CacheTrue
  <1>1. ServingInv => CacheTrue
    <2> SUFFICES ASSUME ServingInv, NEW i \in DOMAIN req, Answered(i)
                 PROVE  /\ req[i].answer.owner = OwnerOf(i)
                        /\ req[i].at - req[i].answer.read <= (IF calls[i].door = "gateway" THEN 2 * TTL ELSE TTL)
                        /\ calls[i].token # None =>
                             IF calls[i].door = "gateway"
                             THEN \E t \in DOMAIN Keys : Shares(i, t) /\ req[i].at <= revokedAt[t] + TTL
                             ELSE req[i].at <= revokedAt[calls[i].token]
      BY DEF CacheTrue, OwnAnswer, AgeBound, KeysDie
    <2> QED BY DEF ServingInv, Own, GivenTrue, Bound, Token
  <1> QED BY <1>1, ServingStarts, ServingKeeps, PTL DEF ServingSpec

-----------------------------------------------------------------------------
(* whom the limits turn away *)

AtGate    == {"out", "gate", "gate_read", "gate_meter"}
BeforeApi == AtGate \cup {"edge", "edge_join", "edge_wait", "arrive"}
GateKeys  == {Published(t) : t \in DOMAIN Keys} \cup {EmptyKey}
TierOf(name) == Tiers[IF name \in DOMAIN Tiers THEN name ELSE "standard"]

\* The gateway let these calls with the key k in, from one tick to another.
LetIn(k, s, e)  == {x \in DOMAIN req : req[x].key = k /\ req[x].gateAt \in s .. e}
GateName(k)     == <<"gate", k.id>>
GateBucket(k)   == Bucket(GateName(k), GateTier(k))
\* From any tick to the last that was metered, those let in and the tokens left are no more than
\* the burst and what that time earns.
GateTrue(k) ==
    LET b == GateBucket(k)
        tier == GateTier(k)
    IN  /\ b.last \in 0 .. now /\ b.tokens \in 0 .. tier.burst
        /\ \A x \in DOMAIN req : req[x].key = k => /\ req[x].gateAt <= b.last
                                                   /\ GateName(k) \notin DOMAIN buckets => req[x].gateAt = -1
        /\ \A s \in 0 .. b.last : Cardinality(LetIn(k, s, b.last)) + b.tokens <= tier.burst + (b.last - s) * tier.rate
        /\ \A s, e \in 0 .. now : s <= e => Cardinality(LetIn(k, s, e)) <= tier.burst + (e - s) * tier.rate

\* When each call was let in by a key, at the one door and the other: -1 if it was not.
ApiLets(key) == [x \in DOMAIN req |-> IF req[x].who.key = key THEN req[x].apiAt ELSE -1]
GateLets(k)  == [x \in DOMAIN req |-> IF req[x].key = k THEN req[x].gateAt ELSE -1]
\* Those that are not yet earned back at the tick T.
Spent(lets, tier, T) ==
    {j \in DOMAIN lets : lets[j] # -1 /\ lets[j] <= T /\ (T - lets[j]) * tier.rate < tier.burst}
\* What a bucket lacks at any later tick is owed to calls that were let in.
Owed(lets, tier, b) ==
    \A T \in Int : T >= b.last => tier.burst - b.tokens - (T - b.last) * tier.rate <= Cardinality(Spent(lets, tier, T))
Metered(lets, tier, b, n) == b.last \in 0 .. n /\ b.tokens \in Nat /\ Owed(lets, tier, b)
ApiTrue(t) ==
    LET name == <<"api", Keys[t].id>>
    IN  name \in DOMAIN buckets => Metered(ApiLets(Keys[t].id), TierOf(Keys[t].tier), buckets[name], now)
GateOwes(k) == GateName(k) \in DOMAIN buckets => Metered(GateLets(k), GateTier(k), buckets[GateName(k)], now)

Refused(i) == req[i].pc = "answered" /\ req[i].answer.status = 429 /\ req[i].gateAt = -1
TurnedAway(i) ==
    /\ Refused(i) /\ req[i].who.key # None =>
         Cardinality(Spent(ApiLets(req[i].who.key), Tier(i), req[i].at)) >= Tier(i).burst
    /\ Refused(i) /\ calls[i].door = "gateway" =>
         Cardinality(Spent(GateLets(req[i].key), GateTier(req[i].key), req[i].at)) >= GateTier(req[i].key).burst

RateOwn(i) ==
    /\ req[i].gateAt \in -1 .. now /\ req[i].apiAt \in -1 .. now
    /\ req[i].pc \in AtGate => req[i].gateAt = -1
    /\ calls[i].door = "gateway" /\ req[i].pc \notin AtGate => req[i].gateAt # -1 \/ (req[i].pc = "answered" /\ req[i].who.key = None)
    /\ req[i].pc \in BeforeApi => req[i].who.key = None
    /\ req[i].pc \in BeforeApi \cup {"meter", "charge"} => req[i].apiAt = -1
    /\ req[i].gateAt # -1 => req[i].key \in GateKeys
    /\ req[i].who.key # None => \E t \in DOMAIN Keys : req[i].who.key = Keys[t].id /\ req[i].who.tier = Keys[t].tier
    /\ req[i].made.status # 429
    /\ req[i].pc = "charge" /\ req[i].who.key # None => Metered(ApiLets(req[i].who.key), Tier(i), req[i].saw, now)
    /\ TurnedAway(i)

RateInv ==
    /\ \A i \in DOMAIN req : RateOwn(i)
    /\ \A k \in GateKeys : GateTrue(k) /\ GateOwes(k)
    /\ \A t \in DOMAIN Keys : ApiTrue(t)

LEMMA Earned ==
    ASSUME NEW a \in Int, NEW b \in Int, NEW c \in Int, NEW r \in Nat
    PROVE  /\ (a - b) * r \in Int /\ (b - c) * r \in Int /\ (a - c) * r \in Int
           /\ (a - c) * r = (a - b) * r + (b - c) * r
           /\ a >= b => (a - b) * r >= 0
           /\ (a - a) * r = 0
  OBVIOUS

LEMMA TiersRated ==
    /\ \A k : GateTier(k).rate \in Nat /\ GateTier(k).burst \in Nat \ {0}
    /\ \A name : TierOf(name).rate \in Nat /\ TierOf(name).burst \in Nat \ {0}
  BY KeysAssumption DEF Rated, GateTier, TierOf

LEMMA FewCalls == ASSUME ServingInv PROVE IsFiniteSet(DOMAIN req)
  <1>1. case \in Cases /\ DOMAIN req = DOMAIN case.calls
    BY DEF ServingInv, KeysTrue, Shaped, calls
  <1>2. case.calls \in Seq({case.calls[i] : i \in DOMAIN case.calls})
    BY <1>1, CasesAssumption
  <1>3. DOMAIN case.calls = 1 .. Len(case.calls) /\ Len(case.calls) \in Nat
    BY <1>2
  <1> QED BY <1>1, <1>3, FS_Interval

LEMMA Sized ==
    ASSUME NEW U, IsFiniteSet(U), NEW T \in SUBSET U
    PROVE  IsFiniteSet(T) /\ Cardinality(T) \in Nat /\ \A S \in SUBSET T : Cardinality(S) <= Cardinality(T)
  <1>1. IsFiniteSet(T)
    BY FS_Subset
  <1> QED BY <1>1, FS_Subset, FS_CardinalityType

\* The ids of keys tell their buckets apart.
LEMMA GateNamed ==
    ASSUME NEW k \in GateKeys, NEW n \in GateKeys, GateName(k) = GateName(n) PROVE k = n
  <1>1. k.id = n.id
    BY DEF GateName
  <1>2. \A t \in DOMAIN Keys : Published(t).id = Keys[t].id /\ Keys[t].id # ""
    BY KeysAssumption DEF Published, KeyFields
  <1>3. EmptyKey.id = ""
    BY DEF EmptyKey
  <1>4. CASE k = EmptyKey \/ n = EmptyKey
    BY <1>1, <1>2, <1>3, <1>4 DEF GateKeys
  <1>5. CASE k # EmptyKey /\ n # EmptyKey
    <2>1. PICK t \in DOMAIN Keys, u \in DOMAIN Keys : k = Published(t) /\ n = Published(u)
      BY <1>5 DEF GateKeys
    <2>2. Keys[t].id = Keys[u].id
      BY <1>1, <1>2, <2>1
    <2> QED BY <2>1, <2>2, KeysAssumption
  <1> QED BY <1>4, <1>5

\* A bucket whose calls and whose tokens stay as they are.
LEMMA GateStays ==
    ASSUME NEW k, GateTrue(k), now \in Nat, UNCHANGED now, DOMAIN req' = DOMAIN req,
           \A x \in DOMAIN req :
              /\ (req'[x].key = k /\ req'[x].gateAt # -1) <=> (req[x].key = k /\ req[x].gateAt # -1)
              /\ req'[x].key = k /\ req'[x].gateAt # -1 => req'[x].gateAt = req[x].gateAt,
           GateName(k) \in DOMAIN buckets' <=> GateName(k) \in DOMAIN buckets,
           GateName(k) \in DOMAIN buckets => buckets'[GateName(k)] = buckets[GateName(k)]
    PROVE  GateTrue(k)'
  <1>1. GateBucket(k)' = GateBucket(k)
    BY DEF GateBucket, Bucket, GateName
  <1>2. ASSUME NEW s \in 0 .. now, NEW e \in 0 .. now PROVE LetIn(k, s, e)' = LetIn(k, s, e)
    BY DEF LetIn
  <1> PICK b : b = GateBucket(k)
    OBVIOUS
  <1>3. b.last \in 0 .. now
    BY DEF GateTrue
  <1>4. \A s \in 0 .. b.last : s \in 0 .. now
    BY <1>3
  <1> QED BY <1>1, <1>2, <1>3, <1>4 DEF GateTrue

\* The bucket of the one who is let in.
LEMMA GateAdmits ==
    ASSUME ServingInv, NEW i \in DOMAIN req, UNCHANGED now, DOMAIN req' = DOMAIN req,
           \A j \in DOMAIN req \ {i} : req'[j].key = req[j].key /\ req'[j].gateAt = req[j].gateAt,
           \A j \in DOMAIN req : req[j].gateAt \in -1 .. now, req[i].gateAt = -1, req'[i].gateAt = now, NEW k, req[i].key = k, req'[i].key = k, GateTrue(k),
           Filled(GateBucket(k), GateTier(k)) >= 1,
           buckets' = With(buckets, GateName(k), Take(GateBucket(k), GateTier(k)))
    PROVE  GateTrue(k)'
  <1> PICK tier : tier = GateTier(k)
    OBVIOUS
  <1> PICK b : b = GateBucket(k)
    OBVIOUS
  <1> PICK f : f = Filled(b, tier)
    OBVIOUS
  <1> PICK rate, burst, last, tokens : rate = tier.rate /\ burst = tier.burst /\ last = b.last /\ tokens = b.tokens
    OBVIOUS
  <1>0. now \in Nat /\ rate \in Nat /\ burst \in Nat \ {0} /\ IsFiniteSet(DOMAIN req)
    BY TiersRated, FewCalls DEF ServingInv, KeysTrue
  <1>1. /\ last \in 0 .. now /\ tokens \in 0 .. burst
        /\ \A x \in DOMAIN req : req[x].key = k => req[x].gateAt <= last
        /\ \A s \in 0 .. last : Cardinality(LetIn(k, s, last)) + tokens <= burst + (last - s) * rate
        /\ \A s, e \in 0 .. now : s <= e => Cardinality(LetIn(k, s, e)) <= burst + (e - s) * rate
    BY DEF GateTrue
  <1>2. f \in 1 .. burst /\ f <= tokens + (now - last) * rate
    <2>1. tokens + (now - last) * rate \in Int /\ burst \in Int
      BY <1>0, <1>1
    <2>2. f = Min({burst, tokens + (now - last) * rate})
      BY DEF Filled
    <2>3. PICK x \in Int : x = tokens + (now - last) * rate
      BY <2>1
    <2>4. Min({burst, x}) \in {burst, x} /\ Min({burst, x}) <= burst /\ Min({burst, x}) <= x
      BY <2>1, MinOfTwo
    <2> QED BY <2>1, <2>2, <2>3, <2>4
  <1>3. GateBucket(k)' = [last |-> now, tokens |-> f - 1] /\ GateName(k) \in DOMAIN buckets'
    BY DEF GateBucket, Bucket, GateName, With, Take
  <1>4. ASSUME NEW s \in 0 .. now, NEW e \in 0 .. now, e # now PROVE LetIn(k, s, e)' = LetIn(k, s, e)
    BY <1>0, <1>4 DEF LetIn
  <1>5. ASSUME NEW s \in 0 .. now
        PROVE  /\ Cardinality(LetIn(k, s, now)') = Cardinality(LetIn(k, s, last)) + 1
               /\ Cardinality(LetIn(k, s, last)) \in Nat
    <2>1. LetIn(k, s, now)' = LetIn(k, s, last) \cup {i} /\ i \notin LetIn(k, s, last)
      <3>1. \A x \in DOMAIN req : req[x].key = k /\ req[x].gateAt \in s .. now => req[x].gateAt \in s .. last
        BY <1>0, <1>1
      <3>2. \A x \in DOMAIN req : req[x].gateAt \in s .. last => req[x].gateAt \in s .. now
        BY <1>0, <1>1
      <3> QED BY <1>0, <1>1, <3>1, <3>2 DEF LetIn
    <2>2. IsFiniteSet(LetIn(k, s, last)) /\ Cardinality(LetIn(k, s, last)) \in Nat
      <3>1. LetIn(k, s, last) \in SUBSET DOMAIN req
        BY DEF LetIn
      <3> QED BY <1>0, <3>1, Sized
    <2> DEFINE before == LetIn(k, s, last)
    <2> DEFINE after  == LetIn(k, s, now)'
    <2>3. after = before \cup {i} /\ i \notin before /\ IsFiniteSet(before) /\ Cardinality(before) \in Nat
      BY <2>1, <2>2
    <2> HIDE DEF before, after
    <2>4. Cardinality(before \cup {i}) = Cardinality(before) + 1
      BY <2>3, FS_AddElement
    <2>5. Cardinality(after) = Cardinality(before) + 1 /\ Cardinality(before) \in Nat
      BY <2>3, <2>4
    <2> QED BY <2>5, Zenon DEF before, after
  <1>6. ASSUME NEW s \in 0 .. now
        PROVE  Cardinality(LetIn(k, s, now)') + (f - 1) <= burst + (now - s) * rate
    <2>0. Cardinality(LetIn(k, s, last)) \in Nat /\ Cardinality(LetIn(k, s, now)') = Cardinality(LetIn(k, s, last)) + 1
      BY <1>5
    <2>1. (now - s) * rate \in Int /\ (now - s) * rate >= 0
      BY <1>0, Earned
    <2>2. CASE s <= last
      <3>1. Cardinality(LetIn(k, s, last)) + tokens <= burst + (last - s) * rate
        BY <1>1, <2>2
      <3>2. /\ (now - s) * rate = (now - last) * rate + (last - s) * rate
            /\ (now - last) * rate \in Int /\ (last - s) * rate \in Int
        <4>1. PICK n \in Int : n = now
          BY <1>0
        <4>2. last \in Int /\ s \in Int /\ rate \in Nat
          BY <1>0, <1>1
        <4>3. (n - s) * rate = (n - last) * rate + (last - s) * rate /\ (n - last) * rate \in Int /\ (last - s) * rate \in Int
          BY <4>2, Earned
        <4> QED BY <4>1, <4>3
      <3> QED BY <1>0, <1>1, <1>2, <2>0, <2>1, <3>1, <3>2
    <2>3. CASE s > last
      <3>1. LetIn(k, s, last) = {}
        BY <1>0, <1>1, <2>3 DEF LetIn
      <3>2. Cardinality(LetIn(k, s, last)) = 0
        BY <3>1, FS_EmptySet
      <3> QED BY <1>0, <1>2, <2>0, <2>1, <3>2
    <2> QED BY <1>0, <1>1, <2>2, <2>3
  <1>7. \A s, e \in 0 .. now : s <= e => Cardinality(LetIn(k, s, e)') <= burst + (e - s) * rate
    <2> SUFFICES ASSUME NEW s \in 0 .. now, NEW e \in 0 .. now, s <= e
                 PROVE  Cardinality(LetIn(k, s, e)') <= burst + (e - s) * rate
      OBVIOUS
    <2>1. CASE e = now
      <3>1. Cardinality(LetIn(k, s, now)') + (f - 1) <= burst + (now - s) * rate /\ Cardinality(LetIn(k, s, now)') \in Nat
        BY <1>5, <1>6
      <3>2. (now - s) * rate \in Int
        BY <1>0
      <3> QED BY <1>0, <1>2, <2>1, <3>1, <3>2
    <2>2. CASE e # now
      BY <1>1, <1>4, <2>2
    <2> QED BY <2>1, <2>2
  <1>8. \A x \in DOMAIN req : req'[x].key = k => req'[x].gateAt <= now
    <2> SUFFICES ASSUME NEW x \in DOMAIN req, req'[x].key = k, x # i PROVE req[x].gateAt <= now
      BY <1>0
    <2>0. req[x].key = k
      OBVIOUS
    <2>1. req[x].gateAt <= last /\ last <= now
      BY <1>0, <1>1, <2>0
    <2>2. req[x].gateAt \in Int
      OBVIOUS
    <2> QED BY <1>0, <1>1, <2>1, <2>2
  <1> PICK c : c = [last |-> now, tokens |-> f - 1]
    OBVIOUS
  <1>9. c.last = now /\ c.tokens = f - 1 /\ c.tokens \in 0 .. burst /\ c.last \in 0 .. now
    BY <1>0, <1>2
  <1>10. GateBucket(k)' = c
    BY <1>3
  <1>11. \A s \in 0 .. c.last : Cardinality(LetIn(k, s, c.last)') + c.tokens <= burst + (c.last - s) * rate
    BY <1>6, <1>9
  <1> QED BY <1>3, <1>7, <1>8, <1>9, <1>10, <1>11 DEF GateTrue

\* A call that was let in stays so.
Grown(lets, more) == DOMAIN more = DOMAIN lets /\ \A x \in DOMAIN lets : lets[x] # -1 => more[x] = lets[x]
LetsGrow ==
    DOMAIN req' = DOMAIN req /\ \A x \in DOMAIN req :
        /\ req[x].apiAt # -1 => req'[x].apiAt = req[x].apiAt /\ req'[x].who = req[x].who
        /\ req[x].gateAt # -1 => req'[x].gateAt = req[x].gateAt /\ req'[x].key = req[x].key

LEMMA FewLets ==
    ASSUME ServingInv, NEW key PROVE IsFiniteSet(DOMAIN ApiLets(key)) /\ IsFiniteSet(DOMAIN GateLets(key))
  BY FewCalls DEF ApiLets, GateLets

LEMMA LetsGrown ==
    ASSUME LetsGrow, NEW key PROVE Grown(ApiLets(key), ApiLets(key)') /\ Grown(GateLets(key), GateLets(key)')
  BY DEF LetsGrow, Grown, ApiLets, GateLets

LEMMA SpentGrows ==
    ASSUME NEW lets, NEW more, Grown(lets, more), IsFiniteSet(DOMAIN lets), NEW tier, NEW T
    PROVE  /\ Cardinality(Spent(lets, tier, T)) \in Nat /\ Cardinality(Spent(more, tier, T)) \in Nat
           /\ Cardinality(Spent(lets, tier, T)) <= Cardinality(Spent(more, tier, T))
  <1>1. Spent(lets, tier, T) \subseteq Spent(more, tier, T) /\ Spent(more, tier, T) \in SUBSET DOMAIN lets
    BY DEF Spent, Grown
  <1> PICK S, R, U : S = Spent(lets, tier, T) /\ R = Spent(more, tier, T) /\ U = DOMAIN lets
    OBVIOUS
  <1>2. S \in SUBSET R /\ R \in SUBSET U /\ S \in SUBSET U /\ IsFiniteSet(U)
    BY <1>1
  <1> QED BY <1>2, Sized

\* What is owed is owed at a later tick, when more have been let in.
LEMMA MeteredStays ==
    ASSUME NEW lets, NEW more, Grown(lets, more), IsFiniteSet(DOMAIN lets), NEW n \in Nat, NEW m \in Nat, n <= m,
           NEW tier, tier.rate \in Nat, tier.burst \in Nat, NEW b, Metered(lets, tier, b, n)
    PROVE  Metered(more, tier, b, m)
  <1>1. b.last \in 0 .. n /\ b.tokens \in Nat /\ Owed(lets, tier, b)
    BY DEF Metered
  <1>2. b.last \in 0 .. m
    BY <1>1
  <1>3. ASSUME NEW T \in Int, T >= b.last
        PROVE  tier.burst - b.tokens - (T - b.last) * tier.rate <= Cardinality(Spent(more, tier, T))
    <2>1. tier.burst - b.tokens - (T - b.last) * tier.rate <= Cardinality(Spent(lets, tier, T))
      BY <1>1, <1>3 DEF Owed
    <2>2. (T - b.last) * tier.rate \in Int
      BY <1>1
    <2>3. /\ Cardinality(Spent(lets, tier, T)) \in Nat /\ Cardinality(Spent(more, tier, T)) \in Nat
          /\ Cardinality(Spent(lets, tier, T)) <= Cardinality(Spent(more, tier, T))
      BY SpentGrows
    <2> QED BY <1>1, <2>1, <2>2, <2>3
  <1> QED BY <1>1, <1>2, <1>3 DEF Metered, Owed

\* A full bucket owes nothing.
LEMMA FullMetered ==
    ASSUME NEW lets, IsFiniteSet(DOMAIN lets), NEW n \in Nat, NEW tier, tier.rate \in Nat, tier.burst \in Nat
    PROVE  Metered(lets, tier, [last |-> n, tokens |-> tier.burst], n)
  <1> PICK b : b = [last |-> n, tokens |-> tier.burst]
    OBVIOUS
  <1>1. ASSUME NEW T \in Int, T >= n
        PROVE  tier.burst - tier.burst - (T - n) * tier.rate <= Cardinality(Spent(lets, tier, T))
    <2>1. (T - n) * tier.rate \in Int /\ (T - n) * tier.rate >= 0
      BY <1>1, Earned
    <2>2. Cardinality(Spent(lets, tier, T)) \in Nat
      BY SpentGrows DEF Grown
    <2> QED BY <2>1, <2>2
  <1>2. b.last = n /\ b.tokens = tier.burst /\ n \in 0 .. n
    OBVIOUS
  <1>3. Metered(lets, tier, b, n)
    BY <1>1, <1>2 DEF Metered, Owed
  <1> QED BY <1>3

LEMMA TurnedAwayStays ==
    ASSUME ServingInv, LetsGrow, NEW i \in DOMAIN req, TurnedAway(i), calls' = calls, req'[i].pc = req[i].pc,
           req'[i].answer = req[i].answer, req'[i].who = req[i].who, req'[i].key = req[i].key,
           req'[i].gateAt = req[i].gateAt, req'[i].at = req[i].at
    PROVE  TurnedAway(i)'
  <1>1. Refused(i)' = Refused(i) /\ Tier(i)' = Tier(i)
    BY DEF Refused, Tier
  <1>2. ASSUME NEW lets, NEW more, Grown(lets, more), IsFiniteSet(DOMAIN lets), NEW tier, tier.burst \in Nat, NEW T,
               Cardinality(Spent(lets, tier, T)) >= tier.burst
        PROVE  Cardinality(Spent(more, tier, T)) >= tier.burst
    <2>1. /\ Cardinality(Spent(lets, tier, T)) \in Nat /\ Cardinality(Spent(more, tier, T)) \in Nat
          /\ Cardinality(Spent(lets, tier, T)) <= Cardinality(Spent(more, tier, T))
      BY <1>2, SpentGrows
    <2> QED BY <1>2, <2>1
  <1>3. ASSUME Refused(i), req[i].who.key # None
        PROVE  (Cardinality(Spent(ApiLets(req[i].who.key), Tier(i), req[i].at)) >= Tier(i).burst)'
    <2> PICK key, tier, T : key = req[i].who.key /\ tier = Tier(i) /\ T = req[i].at
      OBVIOUS
    <2>1. Cardinality(Spent(ApiLets(key), tier, T)) >= tier.burst /\ tier.burst \in Nat
      BY <1>3, TiersRated DEF TurnedAway, Tier, TierOf
    <2>2. Cardinality(Spent(ApiLets(key)', tier, T)) >= tier.burst
      BY <1>2, <2>1, FewLets, LetsGrown
    <2>3. Tier(i)' = tier /\ (req[i].who.key)' = key /\ (req[i].at)' = T
      BY <1>1
    <2> QED BY <2>2, <2>3 DEF ApiLets
  <1>4. ASSUME Refused(i), calls[i].door = "gateway"
        PROVE  (Cardinality(Spent(GateLets(req[i].key), GateTier(req[i].key), req[i].at)) >= GateTier(req[i].key).burst)'
    <2> PICK k, tier, T : k = req[i].key /\ tier = GateTier(k) /\ T = req[i].at
      OBVIOUS
    <2>1. Cardinality(Spent(GateLets(k), tier, T)) >= tier.burst /\ tier.burst \in Nat
      BY <1>4, TiersRated DEF TurnedAway
    <2>2. Cardinality(Spent(GateLets(k)', tier, T)) >= tier.burst
      BY <1>2, <2>1, FewLets, LetsGrown
    <2>3. (req[i].key)' = k /\ (req[i].at)' = T /\ GateTier(req[i].key)' = tier
      BY DEF GateTier
    <2> QED BY <2>2, <2>3 DEF GateLets
  <1> QED BY <1>1, <1>3, <1>4 DEF TurnedAway

\* What a bucket that was read holds when it is filled.
LEMMA FilledUp ==
    ASSUME NEW tier, tier.rate \in Nat, tier.burst \in Nat \ {0}, NEW b, now \in Nat, b.last \in 0 .. now, b.tokens \in Nat
    PROVE  /\ Filled(b, tier) \in Nat /\ Filled(b, tier) <= tier.burst
           /\ Filled(b, tier) = tier.burst \/ Filled(b, tier) = b.tokens + (now - b.last) * tier.rate
  <1>1. PICK n \in Nat : n = now
    OBVIOUS
  <1>2. PICK last \in Int, rate \in Nat : last = b.last /\ rate = tier.rate /\ n >= last
    BY <1>1
  <1>3. (n - last) * rate \in Int /\ (n - last) * rate >= 0
    BY <1>1, <1>2, Earned
  <1>4. PICK x \in Nat : x = b.tokens + (n - last) * rate
    BY <1>3
  <1>5. PICK burst \in Int : burst = tier.burst
    OBVIOUS
  <1>6. Min({burst, x}) \in {burst, x} /\ Min({burst, x}) <= burst
    <2>1. x \in Int
      BY <1>4
    <2> QED BY <1>5, <2>1, MinOfTwo
  <1>7. Filled(b, tier) = Min({burst, x})
    BY <1>1, <1>2, <1>4, <1>5 DEF Filled
  <1> QED BY <1>1, <1>2, <1>4, <1>5, <1>6, <1>7

\* A bucket that is read and filled: of one that is let in it is left with the call counted, of one
\* that is not it was spent.
LEMMA ChargeMeters ==
    ASSUME NEW lets, NEW more, IsFiniteSet(DOMAIN lets), NEW i \in DOMAIN lets, Grown(lets, more), lets[i] = -1,
           now \in Nat, NEW tier, tier.rate \in Nat, tier.burst \in Nat \ {0}, NEW b, Metered(lets, tier, b, now)
    PROVE  /\ Filled(b, tier) \in Nat
           /\ Filled(b, tier) >= 1 /\ more[i] = now =>
                Metered(more, tier, [last |-> now, tokens |-> Filled(b, tier) - 1], now)
           /\ Filled(b, tier) < 1 => /\ Metered(more, tier, [last |-> now, tokens |-> Filled(b, tier)], now)
                                     /\ Cardinality(Spent(more, tier, now)) >= tier.burst
  <1> PICK n : n = now
    OBVIOUS
  <1> PICK last, tokens, rate, burst : last = b.last /\ tokens = b.tokens /\ rate = tier.rate /\ burst = tier.burst
    OBVIOUS
  <1> PICK f : f = Filled(b, tier)
    OBVIOUS
  <1>0. /\ n \in Nat /\ rate \in Nat /\ burst \in Nat \ {0}
        /\ last \in Int /\ last >= 0 /\ last <= n /\ tokens \in Nat
    BY DEF Metered
  <1>1. f \in Nat /\ f <= burst /\ (f = burst \/ f = tokens + (n - last) * rate)
    BY <1>0, FilledUp
  <1>2. ASSUME NEW T \in Int, T >= n
        PROVE  /\ (T - n) * rate \in Int /\ (T - n) * rate >= 0
               /\ Cardinality(Spent(lets, tier, T)) \in Nat /\ Cardinality(Spent(more, tier, T)) \in Nat
               /\ Cardinality(Spent(lets, tier, T)) <= Cardinality(Spent(more, tier, T))
               /\ f = burst \/ burst - f - (T - n) * rate <= Cardinality(Spent(lets, tier, T))
    <2>1. (T - n) * rate \in Int /\ (T - n) * rate >= 0
      BY <1>0, <1>2, Earned
    <2>2. /\ Cardinality(Spent(lets, tier, T)) \in Nat /\ Cardinality(Spent(more, tier, T)) \in Nat
          /\ Cardinality(Spent(lets, tier, T)) <= Cardinality(Spent(more, tier, T))
      BY SpentGrows
    <2>3. ASSUME f = tokens + (n - last) * rate PROVE burst - f - (T - n) * rate <= Cardinality(Spent(lets, tier, T))
      <3>1. burst - tokens - (T - last) * rate <= Cardinality(Spent(lets, tier, T))
        <4>1. T >= last
          BY <1>0, <1>2
        <4> QED BY <4>1 DEF Metered, Owed
      <3>2. (T - last) * rate = (T - n) * rate + (n - last) * rate /\ (n - last) * rate \in Int
        BY <1>0, Earned
      <3> QED BY <1>0, <2>1, <2>2, <2>3, <3>1, <3>2
    <2> QED BY <1>1, <2>1, <2>2, <2>3
  <1>3. ASSUME f < 1
        PROVE  Metered(more, tier, [last |-> n, tokens |-> f], n) /\ Cardinality(Spent(more, tier, n)) >= burst
    <2> PICK c : c = [last |-> n, tokens |-> f]
      OBVIOUS
    <2>1. f = 0 /\ c.last = n /\ c.tokens = f
      BY <1>1, <1>3
    <2>2. ASSUME NEW T \in Int, T >= n PROVE burst - f - (T - n) * rate <= Cardinality(Spent(more, tier, T))
      BY <1>0, <1>1, <1>2, <2>1, <2>2
    <2>3. Cardinality(Spent(more, tier, n)) >= burst
      <3>1. (n - n) * rate = 0
        BY <1>0
      <3>2. burst - f - (n - n) * rate <= Cardinality(Spent(more, tier, n)) /\ Cardinality(Spent(more, tier, n)) \in Nat
        BY <1>0, <1>2, <2>2
      <3> QED BY <1>0, <2>1, <3>1, <3>2
    <2>4. Metered(more, tier, c, n)
      BY <1>0, <1>1, <2>1, <2>2 DEF Metered, Owed
    <2> QED BY <2>3, <2>4
  <1>4. ASSUME f >= 1, more[i] = n PROVE Metered(more, tier, [last |-> n, tokens |-> f - 1], n)
    <2> PICK c : c = [last |-> n, tokens |-> f - 1]
      OBVIOUS
    <2>1. f - 1 \in Nat /\ c.last = n /\ c.tokens = f - 1
      BY <1>1, <1>4
    <2>2. ASSUME NEW T \in Int, T >= n
          PROVE  burst - (f - 1) - (T - n) * rate <= Cardinality(Spent(more, tier, T))
      <3> PICK S, R : S = Spent(lets, tier, T) /\ R = Spent(more, tier, T)
        OBVIOUS
      <3>1. IsFiniteSet(S) /\ i \notin S
        <4>1. S \subseteq DOMAIN lets /\ i \notin S
          BY DEF Spent
        <4> QED BY <4>1, FS_Subset
      <3>2. /\ Cardinality(S) \in Nat /\ Cardinality(R) \in Nat /\ (f = burst \/ burst - f - (T - n) * rate <= Cardinality(S))
            /\ (T - n) * rate \in Int /\ (T - n) * rate >= 0
        BY <1>2, <2>2
      <3>3. CASE (T - n) * rate < burst
        <4>1. S \cup {i} \in SUBSET R /\ IsFiniteSet(R)
          <5>1. S \cup {i} \subseteq R
            BY <1>0, <1>4, <2>2, <3>3 DEF Spent, Grown
          <5>2. R \subseteq DOMAIN lets
            BY DEF Spent, Grown
          <5> QED BY <5>1, <5>2, FS_Subset
        <4>2. Cardinality(S \cup {i}) = Cardinality(S) + 1
          BY <3>1, FS_AddElement
        <4>3. Cardinality(S \cup {i}) <= Cardinality(R)
          BY <4>1, FS_Subset
        <4> QED BY <1>0, <1>1, <3>2, <4>2, <4>3
      <3>4. CASE (T - n) * rate >= burst
        BY <1>0, <1>1, <1>4, <3>2, <3>4
      <3> QED BY <1>0, <3>2, <3>3, <3>4
    <2>3. Metered(more, tier, c, n)
      BY <1>0, <2>1, <2>2 DEF Metered, Owed
    <2> QED BY <2>3
  <1> QED BY <1>1, <1>3, <1>4

\* The buckets of both doors, when they are left as they are.
LEMMA BucketsStay ==
    ASSUME ServingInv, LetsGrow, now' \in Nat, now <= now'
    PROVE  /\ \A t \in DOMAIN Keys : \A name :
                /\ name = <<"api", Keys[t].id>> /\ ApiTrue(t)
                /\ name \in DOMAIN buckets' => name \in DOMAIN buckets /\ buckets'[name] = buckets[name]
                => ApiTrue(t)'
           /\ \A k : /\ GateOwes(k)
                     /\ GateName(k) \in DOMAIN buckets' => GateName(k) \in DOMAIN buckets /\ buckets'[GateName(k)] = buckets[GateName(k)]
                     => GateOwes(k)'
  <1>1. now \in Nat
    BY DEF ServingInv, KeysTrue
  <1>2. ASSUME NEW t \in DOMAIN Keys, NEW name, name = <<"api", Keys[t].id>>, ApiTrue(t),
               name \in DOMAIN buckets' => name \in DOMAIN buckets /\ buckets'[name] = buckets[name]
        PROVE  ApiTrue(t)'
    <2> SUFFICES ASSUME name \in DOMAIN buckets'
                 PROVE  Metered(ApiLets(Keys[t].id)', TierOf(Keys[t].tier), buckets'[name], now')
      BY <1>2 DEF ApiTrue
    <2> PICK b, key, tier : b = buckets[name] /\ key = Keys[t].id /\ tier = TierOf(Keys[t].tier)
      OBVIOUS
    <2>1. Metered(ApiLets(key), tier, b, now) /\ tier.rate \in Nat /\ tier.burst \in Nat
      BY <1>2, TiersRated DEF ApiTrue
    <2>2. Grown(ApiLets(key), ApiLets(key)') /\ IsFiniteSet(DOMAIN ApiLets(key))
      BY LetsGrown, FewLets
    <2>3. Metered(ApiLets(key)', tier, b, now')
      BY <1>1, <2>1, <2>2, MeteredStays
    <2> QED BY <1>2, <2>3
  <1>3. ASSUME NEW k, GateOwes(k),
               GateName(k) \in DOMAIN buckets' => GateName(k) \in DOMAIN buckets /\ buckets'[GateName(k)] = buckets[GateName(k)]
        PROVE  GateOwes(k)'
    <2> SUFFICES ASSUME GateName(k) \in DOMAIN buckets'
                 PROVE  Metered(GateLets(k)', GateTier(k), buckets'[GateName(k)], now')
      BY <1>3 DEF GateOwes
    <2> PICK b, tier : b = buckets[GateName(k)] /\ tier = GateTier(k)
      OBVIOUS
    <2>1. Metered(GateLets(k), tier, b, now) /\ tier.rate \in Nat /\ tier.burst \in Nat
      BY <1>3, TiersRated DEF GateOwes
    <2>2. Grown(GateLets(k), GateLets(k)') /\ IsFiniteSet(DOMAIN GateLets(k))
      BY LetsGrown, FewLets
    <2>3. Metered(GateLets(k)', tier, b, now')
      BY <1>1, <2>1, <2>2, MeteredStays
    <2> QED BY <1>3, <2>3
  <1> QED BY <1>2, <1>3

\* What one step leaves of the others' part in it.
LEMMA RateFrame ==
    ASSUME ServingInv, RateInv, NEW i \in DOMAIN req, Framed(i), LetsGrow, RateOwn(i)',
           \A k \in GateKeys : GateTrue(k)' /\ GateOwes(k)', \A t \in DOMAIN Keys : ApiTrue(t)'
    PROVE  RateInv'
  <1>0. calls' = calls /\ now' = now /\ now \in Nat /\ DOMAIN req' = DOMAIN req
    BY DEF Framed, Reshaped, NotKeys, calls, ServingInv, KeysTrue
  <1>1. ASSUME NEW j \in DOMAIN req \ {i} PROVE RateOwn(j)'
    <2>1. /\ req'[j].pc = req[j].pc /\ req'[j].key = req[j].key /\ req'[j].who = req[j].who /\ req'[j].saw = req[j].saw
          /\ req'[j].answer = req[j].answer /\ req'[j].made = req[j].made /\ req'[j].at = req[j].at
          /\ req'[j].gateAt = req[j].gateAt /\ req'[j].apiAt = req[j].apiAt
      BY DEF Framed, Reshaped, Only, ReqFields
    <2>2. RateOwn(j)
      BY DEF RateInv
    <2>3. TurnedAway(j)'
      BY <1>0, <2>1, <2>2, TurnedAwayStays DEF RateOwn
    <2>4. ASSUME req[j].pc = "charge", req[j].who.key # None
          PROVE  Metered(ApiLets(req[j].who.key), Tier(j), req[j].saw, now)'
      <3> PICK key, tier, b : key = req[j].who.key /\ tier = Tier(j) /\ b = req[j].saw
        OBVIOUS
      <3>1. tier.rate \in Nat /\ tier.burst \in Nat /\ IsFiniteSet(DOMAIN ApiLets(key)) /\ Grown(ApiLets(key), ApiLets(key)')
        BY TiersRated, FewLets, LetsGrown DEF Tier, TierOf
      <3>2. Metered(ApiLets(key), tier, b, now)
        BY <2>2, <2>4 DEF RateOwn
      <3>3. Metered(ApiLets(key)', tier, b, now')
        BY <1>0, <3>1, <3>2, MeteredStays
      <3>4. Tier(j)' = tier /\ (req[j].who.key)' = key /\ (req[j].saw)' = b
        BY <2>1 DEF Tier
      <3> QED BY <3>3, <3>4 DEF ApiLets
    <2> QED BY <1>0, <2>1, <2>2, <2>3, <2>4 DEF RateOwn, calls
  <1> QED BY <1>0, <1>1 DEF RateInv

\* A step that lets nobody in and meters nothing.
Idle(i) ==
    /\ req[i].pc # "answered"
    /\ Only(i, {"pc", "key", "of", "answer", "made", "at"})
    /\ req[i].gateAt # -1 => req'[i].key = req[i].key
    /\ req'[i].made.status # 429
    /\ req'[i].pc # "charge" /\ req'[i].pc # "meter"
    /\ req'[i].pc \in AtGate => req[i].pc \in AtGate
    /\ req'[i].pc \in BeforeApi => req[i].pc \in BeforeApi
    /\ calls[i].door = "gateway" /\ req[i].pc \in AtGate /\ req'[i].pc \notin AtGate => req'[i].pc = "answered"
    /\ req'[i].pc = "answered" => req'[i].answer.status # 429 \/ (calls[i].door = "gateway" /\ req[i].pc \notin AtGate)

LEMMA RateIdle ==
    ASSUME ServingInv, RateInv, NEW i \in DOMAIN req, Framed(i), Idle(i), UNCHANGED buckets
    PROVE  RateInv'
  <1>0. /\ calls' = calls /\ now' = now /\ now \in Nat /\ DOMAIN req' = DOMAIN req
        /\ req'[i].who = req[i].who /\ req'[i].gateAt = req[i].gateAt /\ req'[i].apiAt = req[i].apiAt
    BY DEF Framed, Reshaped, Idle, Only, ReqFields, NotKeys, calls, ServingInv, KeysTrue
  <1>1. \A x \in DOMAIN req : /\ req'[x].apiAt = req[x].apiAt /\ (req[x].apiAt # -1 => req'[x].who = req[x].who)
                              /\ req'[x].gateAt = req[x].gateAt /\ (req[x].gateAt # -1 => req'[x].key = req[x].key)
    BY <1>0 DEF Framed, Reshaped, Idle, Only, ReqFields
  <1>2. RateOwn(i)'
    <2>1. RateOwn(i)
      BY DEF RateInv
    <2>2. calls[i].door = "gateway" /\ req'[i].pc \notin AtGate =>
            req'[i].gateAt # -1 \/ (req'[i].pc = "answered" /\ req'[i].who.key = None)
      <3>1. AtGate \subseteq BeforeApi /\ "answered" \notin AtGate
        BY DEF AtGate, BeforeApi
      <3> QED BY <1>0, <2>1, <3>1 DEF RateOwn, Idle
    <2>3. TurnedAway(i)'
      <3>1. ~Refused(i)'
        BY <1>0, <2>1 DEF Refused, RateOwn, Idle
      <3> QED BY <3>1 DEF TurnedAway
    <2> QED BY <1>0, <2>1, <2>2, <2>3 DEF RateOwn, Idle, calls
  <1>3. ASSUME NEW k \in GateKeys PROVE GateTrue(k)'
    <2>1. GateTrue(k)
      BY DEF RateInv
    <2> QED BY <1>0, <1>1, <2>1, GateStays
  <1>4. LetsGrow
    BY <1>0, <1>1 DEF LetsGrow
  <1>5. (\A k \in GateKeys : GateOwes(k)') /\ \A t \in DOMAIN Keys : ApiTrue(t)'
    <2>0. now <= now'
      BY <1>0
    <2>1. buckets' = buckets
      BY <1>0
    <2>2. \A k : GateOwes(k) => GateOwes(k)'
      BY <1>0, <1>4, <2>0, <2>1, BucketsStay
    <2>3. \A t \in DOMAIN Keys : ApiTrue(t) => ApiTrue(t)'
      BY <1>0, <1>4, <2>0, <2>1, BucketsStay
    <2>4. (\A k \in GateKeys : GateOwes(k)) /\ \A t \in DOMAIN Keys : ApiTrue(t)
      BY DEF RateInv
    <2>5. \A k \in GateKeys : GateOwes(k)'
      BY <2>2, <2>4
    <2> QED BY <2>3, <2>4, <2>5
  <1> QED BY <1>2, <1>3, <1>4, <1>5, RateFrame

\* How the steps that meter nothing show it.
LEMMA IdleWays ==
    ASSUME ServingInv, RateInv, NEW i \in DOMAIN req
    PROVE  /\ \A pc \in {"arrive", "edge_join", "lookup", "solo", "join", "ask", "land", "edge_land"} :
                Moved(i, pc) /\ req[i].pc \notin AtGate /\ req[i].pc # "answered" /\ (pc \in BeforeApi => req[i].pc \in BeforeApi) => Idle(i)
           /\ \A a : Given(i, a) /\ req[i].pc # "answered"
                        /\ (a.status # 429 \/ (calls[i].door = "gateway" /\ req[i].pc \notin AtGate)) => Idle(i)
           /\ \A a : Returned(i, a) /\ req[i].pc \notin AtGate \cup {"answered"}
                        /\ (a.status # 429 \/ calls[i].door = "gateway") => Idle(i)
           /\ \A pc \in {"edge_wait", "follow"} : \A l : Follows(i, pc, l) /\ req[i].pc \notin AtGate \cup {"answered"}
                        /\ (pc \in BeforeApi => req[i].pc \in BeforeApi) => Idle(i)
  <1>0. req[i].made.status # 429
    BY DEF RateInv, RateOwn
  <1>1. ASSUME NEW pc \in {"arrive", "edge_join", "lookup", "solo", "join", "ask", "land", "edge_land"},
               Moved(i, pc), req[i].pc \notin AtGate, req[i].pc # "answered", pc \in BeforeApi => req[i].pc \in BeforeApi
        PROVE  Idle(i)
    BY <1>0, <1>1 DEF Idle, Moved, Only, ReqFields, AtGate
  <1>2. ASSUME NEW a, Given(i, a), req[i].pc # "answered",
               a.status # 429 \/ (calls[i].door = "gateway" /\ req[i].pc \notin AtGate)
        PROVE  Idle(i)
    BY <1>0, <1>2 DEF Idle, Given, Only, ReqFields, AtGate, BeforeApi
  <1>3. ASSUME NEW a, Passed(i, a), req[i].pc \notin AtGate \cup {"answered"} PROVE Idle(i)
    BY <1>0, <1>3 DEF Idle, Passed, Only, ReqFields, AtGate, BeforeApi
  <1>4. ASSUME NEW pc \in {"edge_wait", "follow"}, NEW l, Follows(i, pc, l), req[i].pc \notin AtGate \cup {"answered"},
               pc \in BeforeApi => req[i].pc \in BeforeApi
        PROVE  Idle(i)
    BY <1>0, <1>4 DEF Idle, Follows, Only, ReqFields, AtGate
  <1> QED BY <1>1, <1>2, <1>3, <1>4 DEF Returned

LEMMA ComeRates ==
    ASSUME ServingInv, RateInv, NEW i \in DOMAIN req, Come(i) PROVE RateInv'
  <1>1. Framed(i) /\ At(i, "out") /\ Moved(i, IF calls[i].door = "gateway" THEN "gate" ELSE "arrive") /\ UNCHANGED buckets
    BY ComeDoes DEF ServingInv
  <1>2. req[i].made.status # 429
    BY DEF RateInv, RateOwn
  <1>3. Idle(i)
    BY <1>1, <1>2 DEF At, Idle, Moved, Only, ReqFields, AtGate, BeforeApi
  <1> QED BY <1>1, <1>3, RateIdle

LEMMA KeyedIdle ==
    ASSUME RateInv, NEW i \in DOMAIN req, NEW k, Keyed(i, k), req[i].pc \in AtGate PROVE Idle(i)
  <1>1. req[i].made.status # 429 /\ req[i].gateAt = -1
    BY DEF RateInv, RateOwn
  <1> QED BY <1>1 DEF Idle, Keyed, Only, ReqFields, AtGate, BeforeApi

LEMMA VerifyRates ==
    ASSUME ServingInv, RateInv, NEW i \in DOMAIN req, Verify(i) PROVE RateInv'
  <1>1. /\ Framed(i) /\ req[i].pc = "gate" /\ UNCHANGED buckets
        /\ Given(i, Answer(401)) \/ Moved(i, "gate_read") \/ \E k : Keyed(i, k)
    BY VerifyDoes DEF ServingInv, At
  <1>2. ASSUME Given(i, Answer(401)) PROVE Idle(i)
    <2>1. Answer(401).status # 429
      BY DEF Answer
    <2> QED BY <1>1, <1>2, <2>1, IdleWays
  <1>3. ASSUME Moved(i, "gate_read") PROVE Idle(i)
    <2>1. req[i].made.status # 429
      BY DEF RateInv, RateOwn
    <2> QED BY <1>1, <1>3, <2>1 DEF Idle, Moved, Only, ReqFields, AtGate, BeforeApi
  <1>4. ASSUME NEW k, Keyed(i, k) PROVE Idle(i)
    BY <1>1, <1>4, KeyedIdle DEF AtGate
  <1> QED BY <1>1, <1>2, <1>3, <1>4, RateIdle

LEMMA ReadKeyRates ==
    ASSUME ServingInv, RateInv, NEW i \in DOMAIN req, ReadKey(i) PROVE RateInv'
  <1> DEFINE key == IF calls[i].token \in published THEN Published(calls[i].token) ELSE EmptyKey
  <1>1. Framed(i) /\ At(i, "gate_read") /\ UNCHANGED buckets /\ Keyed(i, key)
    BY ReadKeyDoes DEF ServingInv
  <1>2. PICK k : Keyed(i, k)
    BY <1>1
  <1>3. Idle(i)
    BY <1>1, <1>2, KeyedIdle DEF At, AtGate
  <1> QED BY <1>1, <1>3, RateIdle

LEMMA EdgeRates ==
    ASSUME ServingInv, RateInv, NEW i \in DOMAIN req,
           EdgeLookup(i) \/ EdgeJoin(i) \/ EdgeAbort(i) \/ EdgeStore(i) \/ EdgeLand(i) \/ EdgeWait(i)
    PROVE  RateInv'
  <1>0. Shaped /\ (req[i].pc \in GatePcs => calls[i].door = "gateway")
    BY DEF ServingInv, Own
  <1>1. CASE EdgeLookup(i)
    <2>1. /\ Framed(i) /\ req[i].pc = "edge" /\ UNCHANGED buckets
          /\ Moved(i, "arrive") \/ Moved(i, "edge_join") \/ Given(i, edge[EdgeKey(i)].answer)
      BY <1>0, <1>1, EdgeLookupDoes DEF At
    <2>2. PICK a : a = edge[EdgeKey(i)].answer
      OBVIOUS
    <2>3. Idle(i)
      BY <1>0, <2>1, <2>2, IdleWays DEF AtGate, BeforeApi, GatePcs
    <2> QED BY <2>1, <2>3, RateIdle
  <1>2. CASE EdgeJoin(i)
    <2>1. /\ Framed(i) /\ req[i].pc = "edge_join" /\ UNCHANGED buckets
          /\ Moved(i, "arrive") \/ Follows(i, "edge_wait", flights[EdgeKey(i)])
      BY <1>0, <1>2, EdgeJoinDoes DEF At
    <2>2. PICK l : l = flights[EdgeKey(i)]
      OBVIOUS
    <2>3. Idle(i)
      BY <2>1, <2>2, IdleWays DEF AtGate, BeforeApi
    <2> QED BY <2>1, <2>3, RateIdle
  <1>3. CASE EdgeAbort(i)
    <2>1. Framed(i) /\ req[i].pc = "edge_store" /\ Aborted(i) /\ UNCHANGED buckets /\ req[i].made.status # 429
      BY <1>0, <1>3, EdgeAbortDoes DEF At, RateInv, RateOwn
    <2>2. Idle(i)
      BY <2>1 DEF Idle, Aborted, Only, ReqFields, AtGate, BeforeApi
    <2> QED BY <2>1, <2>2, RateIdle
  <1>4. CASE EdgeStore(i)
    <2>1. Framed(i) /\ req[i].pc = "edge_store" /\ Moved(i, "edge_land") /\ UNCHANGED buckets
      BY <1>0, <1>4, EdgeStoreDoes DEF At
    <2>2. Idle(i)
      BY <2>1, IdleWays DEF AtGate, BeforeApi
    <2> QED BY <2>1, <2>2, RateIdle
  <1>5. CASE EdgeLand(i)
    <2>1. Framed(i) /\ req[i].pc = "edge_land" /\ Given(i, req[i].answer) /\ UNCHANGED buckets
      BY <1>0, <1>5, EdgeLandDoes DEF At
    <2>2. PICK a : a = req[i].answer
      OBVIOUS
    <2>3. Idle(i)
      BY <1>0, <2>1, <2>2, IdleWays DEF GatePcs, AtGate
    <2> QED BY <2>1, <2>3, RateIdle
  <1>6. CASE EdgeWait(i)
    <2>1. /\ Framed(i) /\ req[i].pc = "edge_wait" /\ UNCHANGED buckets
          /\ Given(i, req[req[i].of].answer) \/ Given(i, Answer(504))
      BY <1>0, <1>6, EdgeWaitDoes DEF At
    <2>2. PICK a : Given(i, a)
      BY <2>1
    <2>3. Idle(i)
      BY <1>0, <2>1, <2>2, IdleWays DEF GatePcs, AtGate
    <2> QED BY <2>1, <2>3, RateIdle
  <1> QED BY <1>1, <1>2, <1>3, <1>4, <1>5, <1>6

LEMMA AnsweringRates ==
    ASSUME ServingInv, RateInv, NEW i \in DOMAIN req,
           Lookup(i) \/ Join(i) \/ Solo(i) \/ Ask(i) \/ Store(i) \/ Land(i) \/ Follow(i)
    PROVE  RateInv'
  <1>0. Shaped /\ \A l \in DOMAIN req : req[l].made.status # 429 /\ Body(l).status = req[l].made.status
    BY DEF ServingInv, RateInv, RateOwn, Body
  <1>8. Handled(i).status # 429 /\ \A status \in {Raised, 503} : Answer(status).status # 429
    BY DEF Handled, Answer, Raised
  <1>1. CASE Lookup(i)
    <2>1. /\ Framed(i) /\ req[i].pc = "lookup" /\ UNCHANGED buckets
          /\ \/ Moved(i, "solo") \/ Moved(i, "join")
             \/ CacheKey(i) \in DOMAIN cached /\ Returned(i, cached[CacheKey(i)].answer)
      BY <1>0, <1>1, LookupDoes DEF At
    <2>2. ASSUME CacheKey(i) \in DOMAIN cached, Returned(i, cached[CacheKey(i)].answer) PROVE Idle(i)
      <3>1. cached[CacheKey(i)].answer.status = 200
        BY <2>2 DEF ServingInv, CachesTrue, CachedTrue
      <3>2. PICK a : a = cached[CacheKey(i)].answer
        OBVIOUS
      <3> QED BY <2>1, <2>2, <3>1, <3>2, IdleWays DEF AtGate
    <2>3. Idle(i)
      BY <2>1, <2>2, IdleWays DEF AtGate, BeforeApi
    <2> QED BY <2>1, <2>3, RateIdle
  <1>2. CASE Join(i)
    <2>1. /\ Framed(i) /\ req[i].pc = "join" /\ UNCHANGED buckets
          /\ Moved(i, "ask") \/ Follows(i, "follow", tasks[CacheKey(i)])
      BY <1>0, <1>2, JoinDoes DEF At
    <2>2. PICK l : l = tasks[CacheKey(i)]
      OBVIOUS
    <2>3. Idle(i)
      BY <2>1, <2>2, IdleWays DEF AtGate, BeforeApi
    <2> QED BY <2>1, <2>3, RateIdle
  <1>3. CASE Solo(i)
    <2>1. Framed(i) /\ req[i].pc = "solo" /\ UNCHANGED buckets /\ \E a \in {Handled(i), Answer(Raised)} : Returned(i, a)
      BY <1>0, <1>3, SoloDoes DEF At
    <2>2. PICK a : Returned(i, a) /\ a.status # 429
      BY <1>8, <2>1
    <2>3. Idle(i)
      BY <2>1, <2>2, IdleWays DEF AtGate
    <2> QED BY <2>1, <2>3, RateIdle
  <1>4. CASE Ask(i)
    <2>1. /\ Framed(i) /\ req[i].pc = "ask" /\ UNCHANGED buckets
          /\ Made(i, "store", Handled(i)) \/ \E status \in {Raised, 503} : Made(i, "land", Answer(status))
      BY <1>0, <1>4, AskDoes DEF At
    <2>2. PICK pc, a : pc \in {"store", "land"} /\ Made(i, pc, a) /\ a.status # 429
      BY <1>8, <2>1
    <2>3. Idle(i)
      BY <2>1, <2>2 DEF Idle, Made, Only, ReqFields, AtGate, BeforeApi
    <2> QED BY <2>1, <2>3, RateIdle
  <1>5. CASE Store(i)
    <2>0. /\ Framed(i) /\ At(i, "store") /\ Moved(i, "land")
          /\ UNCHANGED <<known, buckets, edge, flights, tasks>>
      <3>1. Shaped
        BY <1>0
      <3> QED BY <1>5, <3>1, StoreDoes
    <2>1. Framed(i) /\ req[i].pc = "store" /\ Moved(i, "land") /\ UNCHANGED buckets
      BY <2>0 DEF At
    <2>2. Idle(i)
      BY <2>1, IdleWays DEF AtGate, BeforeApi
    <2> QED BY <2>1, <2>2, RateIdle
  <1>6. CASE Land(i)
    <2>0. /\ Framed(i) /\ At(i, "land") /\ Returned(i, Body(i))
          /\ UNCHANGED <<known, buckets, edge, cached, flights>>
      <3>1. Shaped
        BY <1>0
      <3> QED BY <1>6, <3>1, LandDoes
    <2>1. Framed(i) /\ req[i].pc = "land" /\ Returned(i, Body(i)) /\ UNCHANGED buckets
      BY <2>0 DEF At
    <2>2. PICK a : Returned(i, a) /\ a.status # 429
      BY <1>0, <2>1
    <2>3. Idle(i)
      BY <2>1, <2>2, IdleWays DEF AtGate
    <2> QED BY <2>1, <2>3, RateIdle
  <1>7. CASE Follow(i)
    <2>0. PICK l \in DOMAIN req : l = req[i].of
      BY DEF ServingInv, Own
    <2>1. Framed(i) /\ req[i].pc = "follow" /\ (Moved(i, "solo") \/ Returned(i, Body(l))) /\ UNCHANGED buckets
      BY <1>0, <1>7, <2>0, FollowDoes DEF At
    <2>2. ASSUME Returned(i, Body(l)) PROVE Idle(i)
      <3>1. PICK a : Returned(i, a) /\ a.status # 429
        BY <1>0, <2>2
      <3> QED BY <2>1, <3>1, IdleWays DEF AtGate
    <2>3. Idle(i)
      BY <2>1, <2>2, IdleWays DEF AtGate, BeforeApi
    <2> QED BY <2>1, <2>3, RateIdle
  <1> QED BY <1>1, <1>2, <1>3, <1>4, <1>5, <1>6, <1>7

\* What a step leaves of the buckets' truth that changes no bucket and no call's place in one.
LEMMA RateSame ==
    ASSUME ServingInv, RateInv, NEW i \in DOMAIN req, Framed(i), RateOwn(i)', UNCHANGED buckets,
           req'[i].gateAt = req[i].gateAt, req'[i].key = req[i].key, req'[i].apiAt = req[i].apiAt,
           req[i].apiAt # -1 => req'[i].who = req[i].who
    PROVE  RateInv'
  <1>0. /\ now' = now /\ now \in Nat /\ DOMAIN req' = DOMAIN req
        /\ \A x \in DOMAIN req : /\ req'[x].apiAt = req[x].apiAt /\ (req[x].apiAt # -1 => req'[x].who = req[x].who)
                                 /\ req'[x].gateAt = req[x].gateAt /\ req'[x].key = req[x].key
    BY DEF Framed, Reshaped, Only, ReqFields, NotKeys, ServingInv, KeysTrue
  <1>1. ASSUME NEW k \in GateKeys PROVE GateTrue(k)'
    <2>1. GateTrue(k)
      BY DEF RateInv
    <2> QED BY <1>0, <2>1, GateStays
  <1>2. LetsGrow
    BY <1>0 DEF LetsGrow
  <1>3. (\A k \in GateKeys : GateOwes(k)') /\ \A t \in DOMAIN Keys : ApiTrue(t)'
    <2>0. now <= now'
      BY <1>0
    <2>1. buckets' = buckets
      OBVIOUS
    <2>2. \A k : GateOwes(k) => GateOwes(k)'
      BY <1>0, <1>2, <2>0, <2>1, BucketsStay
    <2>3. \A t \in DOMAIN Keys : ApiTrue(t) => ApiTrue(t)'
      BY <1>0, <1>2, <2>0, <2>1, BucketsStay
    <2>4. (\A k \in GateKeys : GateOwes(k)) /\ \A t \in DOMAIN Keys : ApiTrue(t)
      BY DEF RateInv
    <2>5. \A k \in GateKeys : GateOwes(k)'
      BY <2>2, <2>4
    <2> QED BY <2>3, <2>4, <2>5
  <1> QED BY <1>1, <1>2, <1>3, RateFrame

\* The bucket of the gateway as it is read.
LEMMA GateMetered ==
    ASSUME ServingInv, RateInv, NEW k \in GateKeys PROVE Metered(GateLets(k), GateTier(k), GateBucket(k), now)
  <1>1. CASE GateName(k) \in DOMAIN buckets
    BY <1>1 DEF RateInv, GateOwes, GateBucket, Bucket
  <1>2. CASE GateName(k) \notin DOMAIN buckets
    <2>1. now \in Nat /\ IsFiniteSet(DOMAIN GateLets(k)) /\ GateTier(k).rate \in Nat /\ GateTier(k).burst \in Nat
      BY FewLets, TiersRated DEF ServingInv, KeysTrue
    <2>2. GateBucket(k) = [last |-> now, tokens |-> GateTier(k).burst]
      BY <1>2 DEF GateBucket, Bucket
    <2> QED BY <2>1, <2>2, FullMetered
  <1> QED BY <1>1, <1>2

\* A call that the gateway turns away finds its bucket spent.
LEMMA GateRefuses ==
    ASSUME ServingInv, RateInv, NEW i \in DOMAIN req, Framed(i), req[i].pc = "gate_meter", UNCHANGED buckets,
           Given(i, Answer(429)), Filled(GateBucket(req[i].key), GateTier(req[i].key)) < 1
    PROVE  RateInv'
  <1> PICK k, tier : k = req[i].key /\ tier = GateTier(k)
    OBVIOUS
  <1>0. /\ calls' = calls /\ now' = now /\ now \in Nat /\ DOMAIN req' = DOMAIN req /\ RateOwn(i)
        /\ k \in GateKeys /\ calls[i].door = "gateway"
    BY DEF Framed, Reshaped, NotKeys, calls, ServingInv, KeysTrue, RateInv, Own, GateKeys, GatePcs
  <1>1. /\ req'[i].pc = "answered" /\ req'[i].at = now /\ req'[i].key = k /\ req'[i].who = req[i].who
        /\ req'[i].gateAt = req[i].gateAt /\ req'[i].apiAt = req[i].apiAt /\ req'[i].made = req[i].made
    BY DEF Given, Only, ReqFields
  <1>2. req[i].gateAt = -1 /\ req[i].apiAt = -1 /\ req[i].who.key = None
    BY <1>0 DEF RateOwn, AtGate, BeforeApi
  <1>3. \A j \in DOMAIN req : /\ req'[j].key = req[j].key /\ req'[j].gateAt = req[j].gateAt
                              /\ req'[j].apiAt = req[j].apiAt /\ req'[j].who = req[j].who
    BY <1>1 DEF Framed, Reshaped, Only, ReqFields
  <1>4. GateLets(k)' = GateLets(k)
    BY <1>0, <1>3 DEF GateLets
  <1>5. Cardinality(Spent(GateLets(k), tier, now)) >= tier.burst
    <2>1. tier.rate \in Nat /\ tier.burst \in Nat \ {0} /\ IsFiniteSet(DOMAIN GateLets(k))
      BY TiersRated, FewLets
    <2>2. Metered(GateLets(k), tier, GateBucket(k), now)
      BY <1>0, GateMetered
    <2>3. i \in DOMAIN GateLets(k) /\ GateLets(k)[i] = -1 /\ Grown(GateLets(k), GateLets(k))
      BY <1>2 DEF GateLets, Grown
    <2> QED BY <1>0, <2>1, <2>2, <2>3, ChargeMeters
  <1>6. TurnedAway(i)'
    <2>1. (Cardinality(Spent(GateLets(req[i].key), GateTier(req[i].key), req[i].at)) >= GateTier(req[i].key).burst)'
      BY <1>1, <1>4, <1>5 DEF GateTier, GateLets
    <2> QED BY <1>1, <1>2, <2>1 DEF TurnedAway
  <1>7. RateOwn(i)'
    BY <1>0, <1>1, <1>2, <1>6 DEF RateOwn, AtGate, BeforeApi
  <1> QED BY <1>1, <1>2, <1>7, RateSame

LEMMA GateMeterRates ==
    ASSUME ServingInv, RateInv, NEW i \in DOMAIN req, GateMeter(i) PROVE RateInv'
  <1> PICK k : k = req[i].key
    OBVIOUS
  <1> DEFINE admits == /\ Filled(GateBucket(k), GateTier(k)) >= 1
                       /\ buckets' = With(buckets, GateName(k), Take(GateBucket(k), GateTier(k)))
                       /\ Unscoped(i) \/ Admitted(i)
             refuses == UNCHANGED buckets /\ Given(i, Answer(429)) /\ Filled(GateBucket(k), GateTier(k)) < 1
             fails == UNCHANGED buckets /\ Given(i, Answer(500))
  <1>1. Framed(i) /\ req[i].pc = "gate_meter" /\ (admits \/ refuses \/ fails)
    <2> DEFINE tier == GateTier(req[i].key)
               b == Bucket(<<"gate", req[i].key.id>>, tier)
    <2>1. /\ Framed(i) /\ At(i, "gate_meter")
          /\ \/ /\ Filled(b, tier) >= 1 /\ buckets' = With(buckets, <<"gate", req[i].key.id>>, Take(b, tier))
                /\ IF req[i].key.scopes = {} THEN Unscoped(i) ELSE Admitted(i)
             \/ UNCHANGED buckets /\ Given(i, Answer(429)) /\ Filled(b, tier) < 1
             \/ UNCHANGED buckets /\ Given(i, Answer(500))
      BY GateMeterDoes DEF ServingInv
    <2> QED BY <2>1 DEF At, GateBucket, GateName
  <1>2. k \in GateKeys /\ calls[i].door = "gateway"
    BY <1>1 DEF ServingInv, Own, GateKeys, GatePcs
  <1>3. CASE refuses
    BY <1>1, <1>3, GateRefuses
  <1>5. CASE fails
    <2>1. PICK a : Given(i, a) /\ a.status # 429
      BY <1>5 DEF Answer
    <2>2. Idle(i)
      BY <1>1, <2>1, IdleWays
    <2> QED BY <1>1, <1>5, <2>2, RateIdle
  <1>4. CASE admits
    <2>0. /\ calls' = calls /\ now' = now /\ now \in Nat /\ DOMAIN req' = DOMAIN req /\ RateOwn(i)
      BY <1>1 DEF Framed, Reshaped, NotKeys, calls, ServingInv, KeysTrue, RateInv
    <2>1. /\ req'[i].pc \in {"edge", "answered"} /\ req'[i].gateAt = now /\ req'[i].apiAt = req[i].apiAt
          /\ req'[i].who = req[i].who /\ req'[i].key = k /\ req'[i].made = req[i].made
      BY <1>4 DEF Unscoped, Admitted, Only, ReqFields
    <2>2. req[i].gateAt = -1 /\ req[i].apiAt = -1 /\ req[i].who.key = None
      BY <1>1, <2>0 DEF RateOwn, AtGate, BeforeApi
    <2>3. RateOwn(i)'
      <3>1. TurnedAway(i)'
        BY <2>0, <2>1, <2>2 DEF TurnedAway, Refused
      <3> QED BY <1>2, <2>0, <2>1, <2>2, <3>1 DEF RateOwn, AtGate, GateKeys
    <2>4. /\ \A j \in DOMAIN req \ {i} : /\ req'[j].key = req[j].key /\ req'[j].gateAt = req[j].gateAt
                                         /\ req'[j].apiAt = req[j].apiAt /\ req'[j].who = req[j].who
      BY <1>1 DEF Framed, Reshaped, Only, ReqFields
    <2>5. \A j \in DOMAIN req : req[j].gateAt \in -1 .. now
      BY DEF RateInv, RateOwn
    <2>6. ASSUME NEW n \in GateKeys PROVE GateTrue(n)'
      <3>0. GateTrue(n)
        BY DEF RateInv
      <3>1. CASE n = k
        BY <1>4, <2>0, <2>1, <2>2, <2>4, <2>5, <3>0, <3>1, GateAdmits
      <3>2. CASE n # k
        <4>1. GateName(n) # GateName(k)
          BY <1>2, <3>2, GateNamed
        <4>2. /\ GateName(n) \in DOMAIN buckets' <=> GateName(n) \in DOMAIN buckets
              /\ GateName(n) \in DOMAIN buckets => buckets'[GateName(n)] = buckets[GateName(n)]
          BY <1>4, <4>1 DEF With
        <4>3. \A x \in DOMAIN req :
                /\ (req'[x].key = n /\ req'[x].gateAt # -1) <=> (req[x].key = n /\ req[x].gateAt # -1)
                /\ req'[x].key = n /\ req'[x].gateAt # -1 => req'[x].gateAt = req[x].gateAt
          BY <2>1, <2>2, <2>4, <3>2
        <4> QED BY <2>0, <3>0, <4>2, <4>3, GateStays
      <3> QED BY <3>1, <3>2
    <2>7. LetsGrow
      BY <2>0, <2>2, <2>4 DEF LetsGrow
    <2>8. ASSUME NEW n \in GateKeys PROVE GateOwes(n)'
      <3>1. CASE n = k
        <4> PICK tier, b, f : tier = GateTier(k) /\ b = GateBucket(k) /\ f = Filled(b, tier)
          OBVIOUS
        <4>1. tier.rate \in Nat /\ tier.burst \in Nat \ {0} /\ IsFiniteSet(DOMAIN GateLets(k))
          BY TiersRated, FewLets
        <4>2. Metered(GateLets(k), tier, b, now)
          BY <1>2, GateMetered
        <4>3. /\ i \in DOMAIN GateLets(k) /\ GateLets(k)[i] = -1 /\ GateLets(k)'[i] = now
              /\ Grown(GateLets(k), GateLets(k)')
          BY <2>0, <2>1, <2>2, <2>7, LetsGrown DEF GateLets
        <4>4. Metered(GateLets(k)', tier, [last |-> now, tokens |-> f - 1], now)
          BY <1>4, <2>0, <4>1, <4>2, <4>3, ChargeMeters
        <4>5. buckets'[GateName(k)] = [last |-> now, tokens |-> f - 1]
          BY <1>4 DEF With, Take
        <4>6. Metered(GateLets(k)', GateTier(k), buckets'[GateName(k)], now')
          BY <2>0, <4>4, <4>5
        <4> QED BY <3>1, <4>6 DEF GateOwes
      <3>2. CASE n # k
        <4>1. GateName(n) # GateName(k)
          BY <1>2, <3>2, GateNamed
        <4>2. GateName(n) \in DOMAIN buckets' => GateName(n) \in DOMAIN buckets /\ buckets'[GateName(n)] = buckets[GateName(n)]
          BY <1>4, <4>1 DEF With
        <4> QED BY <2>0, <2>7, <4>2, BucketsStay DEF RateInv
      <3> QED BY <3>1, <3>2
    <2>9. ASSUME NEW t \in DOMAIN Keys PROVE ApiTrue(t)'
      <3>1. PICK name : name = <<"api", Keys[t].id>>
        OBVIOUS
      <3>2. name # GateName(k)
        BY <3>1 DEF GateName
      <3>3. name \in DOMAIN buckets' => name \in DOMAIN buckets /\ buckets'[name] = buckets[name]
        BY <1>4, <3>2 DEF With
      <3> QED BY <2>0, <2>7, <3>1, <3>3, BucketsStay DEF RateInv
    <2> QED BY <1>1, <2>3, <2>6, <2>7, <2>8, <2>9, RateFrame
  <1> QED BY <1>1, <1>3, <1>4, <1>5

\* The tier is that of the key.
LEMMA ArrivalKey ==
    ASSUME ServingInv, NEW i \in DOMAIN req, Tenant(Sent(i), Authenticate(Sent(i))) = 200,
           Authenticate(Sent(i)).key # None
    PROVE  \E t \in DOMAIN Keys : Authenticate(Sent(i)).key = Keys[t].id /\ Authenticate(Sent(i)).tier = Keys[t].tier
  <1> DEFINE c == Sent(i)
             who == Authenticate(c)
  <1>1. who = ByKey(c, Value(c.orgs), Value(c.actors)) /\ c.token # None
    BY DEF Authenticate, Refuse, Nobody
  <1>2. Live(c.token) /\ who.key = Keys[c.token].id /\ who.tier = Keys[c.token].tier
    BY <1>1 DEF ByKey, FindByToken, Refuse, Nobody
  <1>3. c.token \in DOMAIN Keys
    BY <1>2 DEF Live, ServingInv, KeysTrue
  <1> QED BY <1>2, <1>3

LEMMA ArriveRates ==
    ASSUME ServingInv, RateInv, NEW i \in DOMAIN req, Arrive(i) PROVE RateInv'
  <1> PICK who : who = Authenticate(Sent(i))
    OBVIOUS
  <1> PICK pc : pc = IF calls[i].path = "healthz" THEN "solo" ELSE "meter"
    OBVIOUS
  <1>1. /\ Framed(i) /\ req[i].pc = "arrive" /\ UNCHANGED buckets
        /\ \/ \E status \in {400, 401, 403, 503} : Returned(i, Answer(status))
           \/ Tenant(Sent(i), Authenticate(Sent(i))) = 200 /\ Received(i, pc, who)
    BY ArriveDoes DEF ServingInv, At
  <1>2. CASE \E status \in {400, 401, 403, 503} : Returned(i, Answer(status))
    <2>1. \A status \in {400, 401, 403, 503} : Answer(status).status # 429
      BY DEF Answer
    <2>2. PICK a : Returned(i, a) /\ a.status # 429
      BY <1>2, <2>1
    <2>3. Idle(i)
      BY <1>1, <2>2, IdleWays DEF AtGate
    <2> QED BY <1>1, <2>3, RateIdle
  <1>3. CASE Tenant(Sent(i), Authenticate(Sent(i))) = 200 /\ Received(i, pc, who)
    <2>0. calls' = calls /\ now' = now /\ RateOwn(i)
      BY <1>1 DEF Framed, NotKeys, calls, RateInv
    <2>1. /\ req'[i].pc = pc /\ pc \in {"solo", "meter"} /\ req'[i].who = who /\ req'[i].key = req[i].key
          /\ req'[i].gateAt = req[i].gateAt /\ req'[i].apiAt = req[i].apiAt /\ req'[i].made = req[i].made
      BY <1>3 DEF Received, Only, ReqFields
    <2>2. req[i].apiAt = -1
      BY <1>1, <2>0 DEF RateOwn, BeforeApi
    <2>3. who.key # None => \E t \in DOMAIN Keys : who.key = Keys[t].id /\ who.tier = Keys[t].tier
      BY <1>3, ArrivalKey
    <2>4. calls[i].door = "gateway" => req[i].gateAt # -1
      BY <1>1, <2>0 DEF RateOwn, AtGate
    <2>5. TurnedAway(i)'
      BY <2>1 DEF TurnedAway, Refused
    <2>6. RateOwn(i)'
      BY <2>0, <2>1, <2>2, <2>3, <2>4, <2>5 DEF RateOwn, AtGate, BeforeApi, GateKeys, calls
    <2> QED BY <1>1, <2>1, <2>2, <2>6, RateSame
  <1> QED BY <1>1, <1>2, <1>3

\* A bucket of a key is read as what it holds, or as full.
LEMMA BucketMetered ==
    ASSUME ServingInv, RateInv, NEW t \in DOMAIN Keys, NEW name, name = <<"api", Keys[t].id>>,
           NEW tier, tier = TierOf(Keys[t].tier)
    PROVE  Metered(ApiLets(Keys[t].id), tier, Bucket(name, tier), now)
  <1>1. CASE name \in DOMAIN buckets
    BY <1>1 DEF RateInv, ApiTrue, Bucket
  <1>2. CASE name \notin DOMAIN buckets
    <2>1. now \in Nat /\ IsFiniteSet(DOMAIN ApiLets(Keys[t].id)) /\ tier.rate \in Nat /\ tier.burst \in Nat
      BY FewLets, TiersRated DEF ServingInv, KeysTrue
    <2>2. Bucket(name, tier) = [last |-> now, tokens |-> tier.burst]
      BY <1>2 DEF Bucket
    <2> QED BY <2>1, <2>2, FullMetered
  <1> QED BY <1>1, <1>2

LEMMA MeterRates ==
    ASSUME ServingInv, RateInv, NEW i \in DOMAIN req, Meter(i) PROVE RateInv'
  <1> PICK b : b = Bucket(Identity(i), Tier(i))
    OBVIOUS
  <1>1. Framed(i) /\ req[i].pc = "meter" /\ UNCHANGED buckets /\ (Looked(i, b) \/ Moved(i, "lookup"))
    BY MeterDoes DEF ServingInv, At
  <1>2. CASE Moved(i, "lookup")
    <2>1. Idle(i)
      BY <1>1, <1>2, IdleWays DEF AtGate, BeforeApi
    <2> QED BY <1>1, <2>1, RateIdle
  <1>3. CASE Looked(i, b)
    <2>0. calls' = calls /\ now' = now /\ now \in Nat /\ DOMAIN req' = DOMAIN req /\ RateOwn(i)
      BY <1>1 DEF Framed, Reshaped, NotKeys, calls, RateInv, ServingInv, KeysTrue
    <2>1. /\ req'[i].pc = "charge" /\ req'[i].saw = b /\ req'[i].who = req[i].who /\ req'[i].key = req[i].key
          /\ req'[i].gateAt = req[i].gateAt /\ req'[i].apiAt = req[i].apiAt /\ req'[i].made = req[i].made
      BY <1>3 DEF Looked, Only, ReqFields
    <2>2. req[i].apiAt = -1 /\ (calls[i].door = "gateway" => req[i].gateAt # -1)
      BY <1>1, <2>0 DEF RateOwn, AtGate
    <2>3. ASSUME req[i].who.key # None PROVE Metered(ApiLets(req[i].who.key), Tier(i), req[i].saw, now)'
      <3> PICK key, tier : key = req[i].who.key /\ tier = Tier(i)
        OBVIOUS
      <3>1. PICK t \in DOMAIN Keys : key = Keys[t].id /\ req[i].who.tier = Keys[t].tier
        BY <2>0, <2>3 DEF RateOwn
      <3>2. PICK name : name = <<"api", Keys[t].id>> /\ name = Identity(i)
        BY <2>3, <3>1 DEF Identity
      <3>3. tier = TierOf(Keys[t].tier) /\ tier.rate \in Nat /\ tier.burst \in Nat
        BY <3>1, TiersRated DEF Tier, TierOf
      <3>4. Metered(ApiLets(key), tier, b, now)
        BY <3>1, <3>2, <3>3, BucketMetered
      <3>5. \A x \in DOMAIN req : req'[x].apiAt = req[x].apiAt /\ req'[x].who = req[x].who
        BY <1>1, <2>1 DEF Framed, Reshaped, Only, ReqFields
      <3>6. ApiLets(key)' = ApiLets(key)
        BY <2>0, <3>5 DEF ApiLets
      <3>7. Tier(i)' = tier /\ (req[i].who.key)' = key /\ (req[i].saw)' = b
        BY <2>1 DEF Tier
      <3> QED BY <2>0, <3>4, <3>6, <3>7 DEF ApiLets
    <2>4. TurnedAway(i)'
      BY <2>1 DEF TurnedAway, Refused
    <2>5. RateOwn(i)'
      BY <2>0, <2>1, <2>2, <2>3, <2>4 DEF RateOwn, AtGate, BeforeApi, calls
    <2> QED BY <1>1, <2>1, <2>5, RateSame
  <1> QED BY <1>1, <1>2, <1>3

LEMMA ChargeRates ==
    ASSUME ServingInv, RateInv, NEW i \in DOMAIN req, Charge(i) PROVE RateInv'
  <1> PICK name, tier, saw, key : name = Identity(i) /\ tier = Tier(i) /\ saw = req[i].saw /\ key = req[i].who.key
    OBVIOUS
  <1> PICK f, c : f = Filled(saw, tier) /\ c = [last |-> now, tokens |-> Remaining(f)]
    OBVIOUS
  <1>1. /\ Framed(i) /\ req[i].pc = "charge"
        /\ \/ buckets' = With(buckets, name, c) /\ IF f >= 1 THEN Charged(i) ELSE Returned(i, Answer(429))
           \/ UNCHANGED buckets /\ Moved(i, "lookup")
    <2> DEFINE available == Filled(req[i].saw, Tier(i))
    <2>1. /\ Framed(i) /\ At(i, "charge")
          /\ \/ /\ buckets' = With(buckets, Identity(i), [last |-> now, tokens |-> Remaining(available)])
                /\ IF available >= 1 THEN Charged(i) ELSE Returned(i, Answer(429))
             \/ UNCHANGED buckets /\ Moved(i, "lookup")
      BY ChargeDoes DEF ServingInv
    <2> QED BY <2>1 DEF At
  <1>2. CASE UNCHANGED buckets /\ Moved(i, "lookup")
    <2>1. Idle(i)
      BY <1>1, <1>2, IdleWays DEF AtGate, BeforeApi
    <2> QED BY <1>1, <1>2, <2>1, RateIdle
  <1>3. CASE buckets' = With(buckets, name, c) /\ IF f >= 1 THEN Charged(i) ELSE Returned(i, Answer(429))
    <2>0. calls' = calls /\ now' = now /\ now \in Nat /\ DOMAIN req' = DOMAIN req /\ RateOwn(i)
      BY <1>1 DEF Framed, Reshaped, NotKeys, calls, RateInv, ServingInv, KeysTrue
    <2>1. /\ req'[i].who = req[i].who /\ req'[i].key = req[i].key /\ req'[i].gateAt = req[i].gateAt /\ req'[i].made = req[i].made
          /\ IF f >= 1 THEN req'[i].pc = "lookup" /\ req'[i].apiAt = now
             ELSE /\ req'[i].apiAt = req[i].apiAt
                  /\ IF calls[i].door = "gateway" THEN req'[i].pc = "edge_store"
                     ELSE req'[i].pc = "answered" /\ req'[i].at = now
      BY <1>3 DEF Charged, Returned, Given, Passed, Only, ReqFields
    <2>2. req[i].apiAt = -1 /\ (calls[i].door = "gateway" => req[i].gateAt # -1)
      BY <1>1, <2>0 DEF RateOwn, AtGate
    <2>3. \A x \in DOMAIN req \ {i} : /\ req'[x].apiAt = req[x].apiAt /\ req'[x].who = req[x].who
                                      /\ req'[x].gateAt = req[x].gateAt /\ req'[x].key = req[x].key
      BY <1>1 DEF Framed, Reshaped, Only, ReqFields
    <2>10. LetsGrow
      BY <2>0, <2>1, <2>2, <2>3 DEF LetsGrow
    <2>4. ASSUME key # None
          PROVE  /\ Metered(ApiLets(key)', tier, c, now)
                 /\ f < 1 => Cardinality(Spent(ApiLets(key)', tier, now)) >= tier.burst
                 /\ f \in Nat
      <3>1. /\ Metered(ApiLets(key), tier, saw, now) /\ tier.rate \in Nat /\ tier.burst \in Nat \ {0}
            /\ IsFiniteSet(DOMAIN ApiLets(key))
        BY <1>1, <2>0, <2>4, TiersRated, FewLets DEF RateOwn, Tier, TierOf
      <3>2. /\ i \in DOMAIN ApiLets(key) /\ ApiLets(key)[i] = -1 /\ (f >= 1 => ApiLets(key)'[i] = now)
            /\ Grown(ApiLets(key), ApiLets(key)')
        BY <2>0, <2>1, <2>2, <2>10, LetsGrown DEF ApiLets
      <3>3. /\ f \in Nat
            /\ f >= 1 => Metered(ApiLets(key)', tier, [last |-> now, tokens |-> f - 1], now)
            /\ f < 1 => /\ Metered(ApiLets(key)', tier, [last |-> now, tokens |-> f], now)
                        /\ Cardinality(Spent(ApiLets(key)', tier, now)) >= tier.burst
        BY <2>0, <3>1, <3>2, ChargeMeters
      <3>4. CASE f >= 1
        <4>1. c = [last |-> now, tokens |-> f - 1]
          BY <3>4 DEF Remaining
        <4> QED BY <3>3, <3>4, <4>1
      <3>5. CASE ~(f >= 1)
        <4>1. c = [last |-> now, tokens |-> f]
          BY <3>5 DEF Remaining
        <4> QED BY <3>3, <3>5, <4>1
      <3> QED BY <3>4, <3>5
    <2>5. TurnedAway(i)'
      <3> SUFFICES ASSUME Refused(i)'
                   PROVE  /\ req'[i].who.key # None =>
                               (Cardinality(Spent(ApiLets(req[i].who.key), Tier(i), req[i].at)) >= Tier(i).burst)'
                          /\ calls'[i].door # "gateway"
        BY DEF TurnedAway
      <3>0. calls[i].door # "gateway" /\ ~(f >= 1) /\ req'[i].at = now
        BY <2>1 DEF Refused
      <3>1. ASSUME key # None
            PROVE  (Cardinality(Spent(ApiLets(req[i].who.key), Tier(i), req[i].at)) >= Tier(i).burst)'
        <4>1. Cardinality(Spent(ApiLets(key)', tier, now)) >= tier.burst
          BY <2>4, <3>0, <3>1
        <4>2. Tier(i)' = tier /\ (req[i].who.key)' = key /\ (req[i].at)' = now
          BY <2>1, <3>0 DEF Tier
        <4> QED BY <4>1, <4>2 DEF ApiLets
      <3> QED BY <2>0, <2>1, <3>0, <3>1
    <2>6. RateOwn(i)'
      BY <2>0, <2>1, <2>2, <2>5 DEF RateOwn, AtGate, BeforeApi, calls
    <2>7. ASSUME NEW k \in GateKeys PROVE GateTrue(k)'
      <3>1. GateTrue(k)
        BY DEF RateInv
      <3>2. name # GateName(k)
        BY DEF GateName, Identity
      <3>3. /\ GateName(k) \in DOMAIN buckets' <=> GateName(k) \in DOMAIN buckets
            /\ GateName(k) \in DOMAIN buckets => buckets'[GateName(k)] = buckets[GateName(k)]
        BY <1>3, <3>2 DEF With
      <3>4. \A x \in DOMAIN req : req'[x].key = req[x].key /\ req'[x].gateAt = req[x].gateAt
        BY <2>1, <2>3
      <3> QED BY <2>0, <3>1, <3>3, <3>4, GateStays
    <2>8. ASSUME NEW t \in DOMAIN Keys PROVE ApiTrue(t)'
      <3>1. PICK own : own = <<"api", Keys[t].id>>
        OBVIOUS
      <3>2. CASE own = name
        <4>1. key # None /\ key = Keys[t].id
          BY <3>1, <3>2 DEF Identity
        <4>2. PICK u \in DOMAIN Keys : key = Keys[u].id /\ req[i].who.tier = Keys[u].tier
          BY <2>0, <4>1 DEF RateOwn
        <4>3. u = t
          BY <4>1, <4>2, KeysAssumption
        <4>4. tier = TierOf(Keys[t].tier)
          BY <4>2, <4>3 DEF Tier, TierOf
        <4>5. buckets'[own] = c
          BY <1>3, <3>2 DEF With
        <4>6. Metered(ApiLets(Keys[t].id)', TierOf(Keys[t].tier), buckets'[own], now')
          BY <2>0, <2>4, <4>1, <4>4, <4>5
        <4> QED BY <3>1, <4>6 DEF ApiTrue
      <3>3. CASE own # name
        <4>1. own \in DOMAIN buckets' => own \in DOMAIN buckets /\ buckets'[own] = buckets[own]
          BY <1>3, <3>3 DEF With
        <4> QED BY <2>0, <2>10, <3>1, <4>1, BucketsStay DEF RateInv
      <3> QED BY <3>2, <3>3
    <2>9. ASSUME NEW k \in GateKeys PROVE GateOwes(k)'
      <3>1. name # GateName(k)
        BY DEF GateName, Identity
      <3>2. GateName(k) \in DOMAIN buckets' => GateName(k) \in DOMAIN buckets /\ buckets'[GateName(k)] = buckets[GateName(k)]
        BY <1>3, <3>1 DEF With
      <3> QED BY <2>0, <2>10, <3>2, BucketsStay DEF RateInv
    <2> QED BY <1>1, <2>6, <2>7, <2>8, <2>9, <2>10, RateFrame
  <1> QED BY <1>1, <1>2, <1>3

\* Time earns what it may, and lets nobody in.
LEMMA TickGates ==
    ASSUME ServingInv, RateInv, Tick, NEW k \in GateKeys PROVE GateTrue(k)'
  <1> PICK n, tier, name : n = now /\ tier = GateTier(k) /\ name = GateName(k)
    OBVIOUS
  <1> PICK rate, burst : rate = tier.rate /\ burst = tier.burst
    OBVIOUS
  <1>0. /\ n \in Nat /\ now' = n + 1 /\ UNCHANGED <<req, buckets>> /\ rate \in Nat /\ burst \in Nat \ {0}
        /\ \A x \in DOMAIN req : req[x].gateAt \in -1 .. n
    BY TiersRated DEF ServingInv, KeysTrue, Tick, RateInv, RateOwn
  <1>1. GateTrue(k)
    BY DEF RateInv
  <1>2. ASSUME NEW s \in 0 .. n + 1, NEW e \in 0 .. n + 1, s <= e
        PROVE  Cardinality(LetIn(k, s, e)) <= burst + (e - s) * rate /\ Cardinality(LetIn(k, s, e)) \in Nat
    <2>0. Cardinality(LetIn(k, s, e)) \in Nat
      <3>1. LetIn(k, s, e) \in SUBSET DOMAIN req /\ IsFiniteSet(DOMAIN req)
        BY FewCalls DEF LetIn
      <3> QED BY <3>1, Sized
    <2>1. (e - s) * rate \in Int /\ (e - s) * rate >= 0
      BY <1>0, <1>2, Earned
    <2>2. CASE e <= n
      BY <1>0, <1>1, <1>2, <2>0, <2>2 DEF GateTrue
    <2>3. CASE e = n + 1 /\ s <= n
      <3>1. LetIn(k, s, e) = LetIn(k, s, n)
        BY <1>0, <2>3 DEF LetIn
      <3>2. Cardinality(LetIn(k, s, n)) <= burst + (n - s) * rate
        BY <1>0, <1>1, <2>3 DEF GateTrue
      <3>3. (e - s) * rate = (e - n) * rate + (n - s) * rate /\ (e - n) * rate >= 0 /\ (e - n) * rate \in Int /\ (n - s) * rate \in Int
        BY <1>0, <2>3, Earned
      <3> QED BY <1>0, <2>0, <3>1, <3>2, <3>3
    <2>4. CASE s = n + 1
      <3>1. LetIn(k, s, e) = {}
        BY <1>0, <2>4 DEF LetIn
      <3> QED BY <1>0, <2>0, <2>1, <3>1, FS_EmptySet
    <2> QED BY <1>0, <1>2, <2>0, <2>2, <2>3, <2>4
  <1>3. \A s, e \in 0 .. now' : s <= e => Cardinality(LetIn(k, s, e)') <= burst + (e - s) * rate
    BY <1>0, <1>2 DEF LetIn
  <1>4. CASE name \in DOMAIN buckets
    <2> PICK b : b = GateBucket(k)
      OBVIOUS
    <2>1. GateBucket(k)' = b /\ b = buckets[name]
      BY <1>0, <1>4 DEF GateBucket, Bucket, GateName
    <2>2. /\ b.last \in 0 .. n /\ b.tokens \in 0 .. burst
          /\ \A x \in DOMAIN req : req[x].key = k => req[x].gateAt <= b.last
          /\ \A s \in 0 .. b.last : Cardinality(LetIn(k, s, b.last)) + b.tokens <= burst + (b.last - s) * rate
      BY <1>1 DEF GateTrue
    <2>3. \A s \in 0 .. b.last : Cardinality(LetIn(k, s, b.last)') + b.tokens <= burst + (b.last - s) * rate
      BY <1>0, <2>2 DEF LetIn
    <2>4. b.last \in 0 .. now'
      BY <1>0, <2>2
    <2>5. (GateName(k) \in DOMAIN buckets)'
      BY <1>0, <1>4
    <2> QED BY <1>0, <1>3, <2>1, <2>2, <2>3, <2>4, <2>5 DEF GateTrue
  <1>5. CASE name \notin DOMAIN buckets
    <2>1. \A x \in DOMAIN req : req[x].key = k => req[x].gateAt = -1
      BY <1>1, <1>5 DEF GateTrue
    <2>2. PICK b : b = [last |-> n + 1, tokens |-> burst]
      OBVIOUS
    <2>3. GateBucket(k)' = b /\ b.last = n + 1 /\ b.tokens = burst
      BY <1>0, <1>5, <2>2 DEF GateBucket, Bucket, GateName
    <2>4. ASSUME NEW s \in 0 .. b.last
          PROVE  Cardinality(LetIn(k, s, b.last)') + b.tokens <= burst + (b.last - s) * rate
      <3>1. LetIn(k, s, b.last)' = {}
        BY <1>0, <2>1 DEF LetIn
      <3>2. Cardinality(LetIn(k, s, b.last)') = 0
        BY <3>1, FS_EmptySet
      <3>3. (n + 1 - s) * rate \in Int /\ (n + 1 - s) * rate >= 0
        <4>1. n + 1 \in Int /\ s \in Int /\ n + 1 >= s
          BY <1>0, <2>3
        <4> QED BY <1>0, <4>1, Earned
      <3> QED BY <1>0, <2>3, <3>2, <3>3
    <2>5. \A x \in DOMAIN req' : req'[x].key = k => req'[x].gateAt <= b.last /\ req'[x].gateAt = -1
      BY <1>0, <2>1, <2>3
    <2>6. b.last \in 0 .. now' /\ b.tokens \in 0 .. burst
      BY <1>0, <2>3
    <2> QED BY <1>0, <1>3, <2>3, <2>4, <2>5, <2>6 DEF GateTrue
  <1> QED BY <1>4, <1>5

LEMMA TickRates ==
    ASSUME ServingInv, RateInv, Tick PROVE RateInv'
  <1>0. /\ calls' = calls /\ UNCHANGED <<req, buckets>> /\ now \in Nat /\ now' \in Nat /\ now <= now' /\ now' = now + 1
        /\ \A i \in DOMAIN req : req[i].pc \in Outside
    BY DEF Tick, calls, ServingInv, KeysTrue
  <1>4. LetsGrow
    BY <1>0 DEF LetsGrow
  <1>1. ASSUME NEW i \in DOMAIN req PROVE RateOwn(i)'
    <2>1. RateOwn(i) /\ req[i].pc # "charge"
      BY <1>0 DEF RateInv, Outside
    <2>2. TurnedAway(i)'
      BY <1>0, <1>4, <2>1, TurnedAwayStays DEF RateOwn
    <2>3. req[i].gateAt \in -1 .. now' /\ req[i].apiAt \in -1 .. now'
      BY <1>0, <2>1 DEF RateOwn
    <2> QED BY <1>0, <2>1, <2>2, <2>3 DEF RateOwn, calls
  <1>2. (\A k \in GateKeys : GateOwes(k)') /\ \A t \in DOMAIN Keys : ApiTrue(t)'
    BY <1>0, <1>4, BucketsStay DEF RateInv
  <1>3. \A k \in GateKeys : GateTrue(k)'
    BY TickGates
  <1> QED BY <1>0, <1>1, <1>2, <1>3 DEF RateInv

LEMMA RateApart ==
    ASSUME RateInv, UNCHANGED <<case, now, buckets, req>> PROVE RateInv'
  <1>0. \A key : ApiLets(key)' = ApiLets(key) /\ GateLets(key)' = GateLets(key)
    BY DEF ApiLets, GateLets
  <1>1. ASSUME NEW i \in DOMAIN req PROVE RateOwn(i)'
    <2>1. RateOwn(i)
      BY DEF RateInv
    <2>2. TurnedAway(i)'
      BY <1>0, <2>1 DEF RateOwn, TurnedAway, Refused, Tier, GateTier, calls
    <2>3. Tier(i)' = Tier(i)
      BY DEF Tier
    <2> QED BY <1>0, <2>1, <2>2, <2>3 DEF RateOwn, calls
  <1>2. ASSUME NEW k \in GateKeys PROVE GateTrue(k)' /\ GateOwes(k)'
    <2>1. GateTrue(k) /\ GateOwes(k)
      BY DEF RateInv
    <2>2. GateTrue(k)'
      BY <2>1 DEF GateTrue, GateBucket, Bucket, GateName, LetIn
    <2> QED BY <1>0, <2>1, <2>2 DEF GateOwes
  <1>3. ASSUME NEW t \in DOMAIN Keys PROVE ApiTrue(t)'
    <2>1. ApiTrue(t)
      BY DEF RateInv
    <2> QED BY <1>0, <2>1 DEF ApiTrue
  <1> QED BY <1>1, <1>2, <1>3 DEF RateInv

LEMMA RateStarts == ServingInit => RateInv
  <1> SUFFICES ASSUME ServingInit PROVE RateInv
    OBVIOUS
  <1>0. ServingInv /\ now = 0 /\ buckets = <<>>
    BY ServingStarts DEF ServingInit
  <1>1. ASSUME NEW i \in DOMAIN req
        PROVE  /\ req[i].pc = "out" /\ req[i].gateAt = -1 /\ req[i].apiAt = -1 /\ req[i].who.key = None
               /\ req[i].made.status = 0
    BY DEF ServingInit, Nobody, Answer
  <1>2. ASSUME NEW i \in DOMAIN req PROVE RateOwn(i)
    BY <1>0, <1>1 DEF RateOwn, TurnedAway, Refused, AtGate
  <1>3. ASSUME NEW k \in GateKeys PROVE GateTrue(k)
    <2> PICK tier, b : tier = GateTier(k) /\ b = GateBucket(k)
      OBVIOUS
    <2>1. tier.rate \in Nat /\ tier.burst \in Nat \ {0}
      BY TiersRated
    <2>2. b.last = 0 /\ b.tokens = tier.burst
      BY <1>0 DEF GateBucket, Bucket
    <2>3. \A s, e : s \in 0 .. 0 => LetIn(k, s, e) = {}
      BY <1>1 DEF LetIn
    <2>4. \A s, e : s \in 0 .. 0 => Cardinality(LetIn(k, s, e)) = 0
      BY <2>3, FS_EmptySet
    <2>5. \A s \in 0 .. 0 : s = 0 /\ (0 - s) * tier.rate = 0
      BY <2>1
    <2> QED BY <1>0, <1>1, <2>1, <2>2, <2>4, <2>5 DEF GateTrue
  <1>4. (\A k \in GateKeys : GateOwes(k)) /\ \A t \in DOMAIN Keys : ApiTrue(t)
    BY <1>0 DEF ApiTrue, GateOwes
  <1> QED BY <1>2, <1>3, <1>4 DEF RateInv

LEMMA RateKeeps == ServingInv /\ RateInv /\ [ServingNext]_servingVars => RateInv'
  <1> SUFFICES ASSUME ServingInv, RateInv, [ServingNext]_servingVars PROVE RateInv'
    OBVIOUS
  <1>1. ASSUME NEW i \in DOMAIN req, Step(i) PROVE RateInv'
    BY <1>1, ComeRates, VerifyRates, ReadKeyRates, GateMeterRates, EdgeRates, ArriveRates, MeterRates, ChargeRates,
       AnsweringRates DEF Step
  <1>2. ASSUME NEW t \in DOMAIN Keys, KeyStep(t) PROVE RateInv'
    BY <1>2, RateApart DEF KeyStep, MakeKey, CommitKey, RevokeKey, CommitRevocation, NotServing
  <1>3. ASSUME Lapse PROVE RateInv'
    BY <1>3, RateApart DEF Lapse
  <1>4. ASSUME UNCHANGED servingVars PROVE RateInv'
    BY <1>4, RateApart DEF servingVars
  <1> QED BY <1>1, <1>2, <1>3, <1>4, TickRates DEF ServingNext

\* Nobody is turned away at either door whose burst, by the tier that the door serves the key by, is not
\* spent on calls that were let in, however the reads and writes of a bucket cross, and the gateway's
\* script lets in no more than it may (RatesKept: ratelimit.py, gateway bucket.go).
THEOREM RatesTrue == ServingSpec => []RatesKept
  <1>1. ServingInv /\ RateInv => RatesKept
    <2> SUFFICES ASSUME ServingInv, RateInv PROVE RatesKept
      OBVIOUS
    <2>1. ASSUME NEW i \in DOMAIN req PROVE TurnedAway(i)
      BY DEF RateInv, RateOwn
    <2>3. RefusedWhenSpent
      <3> SUFFICES ASSUME NEW i \in DOMAIN req, req[i].pc = "answered", req[i].answer.status = 429,
                          req[i].who.key # None, req[i].gateAt = -1
                   PROVE  Cardinality({j \in DOMAIN req : /\ req[j].who.key = req[i].who.key
                                                         /\ req[j].apiAt # -1 /\ req[j].apiAt <= req[i].at
                                                         /\ (req[i].at - req[j].apiAt) * Tier(i).rate < Tier(i).burst})
                            >= Tier(i).burst
        BY DEF RefusedWhenSpent
      <3> PICK key, tier, T : key = req[i].who.key /\ tier = Tier(i) /\ T = req[i].at
        OBVIOUS
      <3>1. Cardinality(Spent(ApiLets(key), tier, T)) >= tier.burst
        BY <2>1 DEF TurnedAway, Refused
      <3>2. Spent(ApiLets(key), tier, T) =
              {j \in DOMAIN req : /\ req[j].who.key = key /\ req[j].apiAt # -1 /\ req[j].apiAt <= T
                                  /\ (T - req[j].apiAt) * tier.rate < tier.burst}
        BY DEF Spent, ApiLets
      <3> QED BY <3>1, <3>2
    <2>4. GateRefusedWhenSpent
      <3> SUFFICES ASSUME NEW i \in DOMAIN req, req[i].pc = "answered", req[i].answer.status = 429,
                          calls[i].door = "gateway", req[i].gateAt = -1
                   PROVE  Cardinality({j \in DOMAIN req :
                                          /\ req[j].key = req[i].key /\ req[j].gateAt # -1 /\ req[j].gateAt <= req[i].at
                                          /\ (req[i].at - req[j].gateAt) * GateTier(req[i].key).rate < GateTier(req[i].key).burst})
                            >= GateTier(req[i].key).burst
        BY DEF GateRefusedWhenSpent
      <3> PICK k, tier, T : k = req[i].key /\ tier = GateTier(k) /\ T = req[i].at
        OBVIOUS
      <3>1. Cardinality(Spent(GateLets(k), tier, T)) >= tier.burst
        BY <2>1 DEF TurnedAway, Refused
      <3>2. Spent(GateLets(k), tier, T) =
              {j \in DOMAIN req : /\ req[j].key = k /\ req[j].gateAt # -1 /\ req[j].gateAt <= T
                                  /\ (T - req[j].gateAt) * tier.rate < tier.burst}
        BY DEF Spent, GateLets
      <3> QED BY <3>1, <3>2
    <2>2. GateWithin
      <3> SUFFICES ASSUME NEW i \in DOMAIN req, NEW j \in DOMAIN req, req[i].gateAt # -1, req[j].gateAt >= req[i].gateAt
                   PROVE  Cardinality({x \in DOMAIN req : req[x].key = req[i].key /\ req[x].gateAt \in req[i].gateAt .. req[j].gateAt})
                            <= GateTier(req[i].key).burst + (req[j].gateAt - req[i].gateAt) * GateTier(req[i].key).rate
        BY DEF GateWithin
      <3> PICK k, s, e : k = req[i].key /\ s = req[i].gateAt /\ e = req[j].gateAt
        OBVIOUS
      <3>1. s \in -1 .. now /\ e \in -1 .. now /\ k \in GateKeys /\ now \in Nat
        BY DEF RateInv, RateOwn, ServingInv, KeysTrue
      <3>2. s \in 0 .. now /\ e \in 0 .. now /\ s <= e
        BY <3>1
      <3>3. Cardinality(LetIn(k, s, e)) <= GateTier(k).burst + (e - s) * GateTier(k).rate
        BY <3>1, <3>2 DEF RateInv, GateTrue
      <3> QED BY <3>3 DEF LetIn
    <2> QED BY <2>2, <2>3, <2>4 DEF RatesKept
  <1> QED BY <1>1, ServingStarts, ServingKeeps, RateStarts, RateKeeps, PTL DEF ServingSpec
=============================================================================
