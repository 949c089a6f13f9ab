------------------------------ MODULE Serving ------------------------------
(***************************************************************************)
(* How a request reaches the program and is answered.                      *)
(*                                                                         *)
(*   contexta/api/middleware/auth.py, tenant.py, ratelimit.py,             *)
(*   response_cache.py, and the order of them in contexta/api/app.py       *)
(*   contexta/repositories/api_key_repo.py, contexta/api/routes/api_keys.py*)
(*   services/gateway/internal: auth, ratelimit, server                    *)
(*                                                                         *)
(* A call comes in by the API's own door or by the gateway's, which sends  *)
(* it on to the API.  Keys live in the database, a copy of each in Redis,  *)
(* which the gateway reads once and keeps; both doors meter what they let  *)
(* in, keep answers for a while and let one of several equal questions be  *)
(* asked for all of them.  Of an answer there is whose rows it tells and   *)
(* the tick in which they were read.                                       *)
(*                                                                         *)
(* A tick of the clock is longer than a request takes within the API and   *)
(* than the two steps of a revocation.                                     *)
(***************************************************************************)
EXTENDS Integers, Sequences, FiniteSets, FiniteSetsExt, Functions

CONSTANTS
    Cases,          \* what may come: [calls, fresh: keys to be made, dying: to be revoked, faults, ticks: how many]
    Keys,           \* token -> [id, org, actor, scopes, tier]
    Tiers, GateTiers,  \* tier -> [rate, burst] by the tick, of the API and of the gateway
    TTL,            \* how many ticks an answer is kept
    MaxTime,
    LegacyHeaders   \* CONTEXTA_ALLOW_LEGACY_TENANT_HEADERS

KeyFields == {"id", "org", "actor", "scopes", "tier"}
CallFields == {"door", "token", "bearer", "orgs", "actors", "queryOrg", "queryActor", "path", "question"}
Rated(tiers, default) ==
    default \in DOMAIN tiers /\ \A t \in DOMAIN tiers : tiers[t].rate \in Nat /\ tiers[t].burst \in Nat \ {0}

\* A key's id is its own; a call without a token has not got one of the keys.
ASSUME KeysAssumption ==
    /\ \A t \in DOMAIN Keys :
        /\ DOMAIN Keys[t] = KeyFields /\ Keys[t].org # "none" /\ Keys[t].id \notin {"", "none"}
        /\ \A u \in DOMAIN Keys : Keys[u].id = Keys[t].id => u = t
    /\ "none" \notin DOMAIN Keys
    /\ TTL \in Nat \ {0} /\ MaxTime \in Nat /\ LegacyHeaders \in BOOLEAN
    /\ Rated(Tiers, "standard") /\ Rated(GateTiers, "hobby")
ASSUME CasesAssumption ==
    \A c \in Cases :
        /\ c.calls \in Seq({c.calls[i] : i \in DOMAIN c.calls})
        /\ c.faults \in Nat /\ c.ticks \in 0 .. MaxTime
        /\ \A i \in DOMAIN c.calls : DOMAIN c.calls[i] = CallFields /\ c.calls[i].door \in {"api", "gateway"}

VARIABLES
    case, now, faults,
    stored,         \* token -> "none", "making", "live", "revoking" or "revoked"
    revokedAt,
    published,      \* the keys that are in Redis
    known,          \* token -> what the gateway keeps of it
    buckets,        \* the limits' state in Redis
    edge, cached,   \* the answers the gateway and the API keep in Redis
    flights, tasks, \* the questions that are being asked, and by which call
    req             \* call -> where it is

keyVars == <<stored, revokedAt, published>>
servingVars    == <<case, now, faults, keyVars, known, buckets, edge, cached, flights, tasks, req>>

None     == "none"
calls    == case.calls
Fallible == faults > 0
Fail     == Fallible /\ faults' = faults - 1
NoFail   == UNCHANGED faults
With(f, k, v) == [l \in DOMAIN f \cup {k} |-> IF l = k THEN v ELSE f[l]]

-----------------------------------------------------------------------------
(* who is asking *)

PublicPaths    == {"healthz", "signup"}
CacheablePaths == {"retrieve", "search"}
\* Whose rows an answer tells, or whom a key or a header speaks for.
Owner(who) == <<who.org, who.actor>>
Answer(status) == [status |-> status, owner |-> <<None, None>>, read |-> 0, whole |-> TRUE]
Live(t)        == t \in DOMAIN stored /\ stored[t] \in {"live", "revoking"}

\* What several headers say of one thing: nothing, one value, or values that do not agree.
Malformed(values) == "malformed" \in values \/ Cardinality(values) > 1
Value(values)     == IF values = {} THEN None ELSE CHOOSE v \in values : TRUE
Differs(said, is) == said # None /\ said # is

Nobody == [status |-> 200, org |-> None, actor |-> None, key |-> None, tier |-> "standard"]
Refuse(status) == [Nobody EXCEPT !.status = status]

\* The key decides; headers may only agree with it.
FindByToken(t) == Live(t)
ByKey(c, org, actor) ==
    IF ~FindByToken(c.token) THEN Refuse(401)
    ELSE LET k == Keys[c.token]
         IN  IF Differs(org, k.org) \/ Differs(actor, k.actor) THEN Refuse(403)
             ELSE [status |-> 200, org |-> k.org, actor |-> k.actor, key |-> k.id, tier |-> k.tier]
Authenticate(c) ==
    LET org == Value(c.orgs)
        actor == Value(c.actors)
    IN  IF c.path \in PublicPaths THEN Nobody
        ELSE IF Malformed(c.orgs) \/ Malformed(c.actors) THEN Refuse(400)
        ELSE IF c.token # None THEN ByKey(c, org, actor)
        ELSE IF org # None /\ actor # None /\ LegacyHeaders
             THEN [Nobody EXCEPT !.org = org, !.actor = actor]
             ELSE Refuse(401)

\* The query may not name another tenant or actor either.
Tenant(c, who) ==
    IF c.path \in PublicPaths \/ who.status # 200 THEN who.status
    ELSE IF Malformed(c.queryOrg) \/ Malformed(c.queryActor) THEN 400
    ELSE IF \/ Differs(Value(c.queryOrg), who.org) \/ Differs(Value(c.queryActor), who.actor)
            \/ Differs(Value(c.orgs), who.org) \/ Differs(Value(c.actors), who.actor) THEN 403
    ELSE 200

-----------------------------------------------------------------------------
(* steps of a call *)

At(i, pc)     == req[i].pc = pc
Go(i, pc)     == req' = [req EXCEPT ![i].pc = pc]
Give(i, a)    == req' = [req EXCEPT ![i].pc = "answered", ![i].answer = a, ![i].at = now]
\* What the API answers goes to the gateway if that asked.
Return(i, a) ==
    IF calls[i].door = "gateway" THEN req' = [req EXCEPT ![i].pc = "edge_store", ![i].answer = a] ELSE Give(i, a)

NotKeys == UNCHANGED <<case, now, keyVars>>

\* The key's copy in Redis is looked for, then read; what is read is kept, even if it is gone by then.
\* Whatever tier a key has in the database, the one in Redis is "standard".
Published(t) == [Keys[t] EXCEPT !.tier = "standard"]
EmptyKey == [id |-> "", org |-> "", actor |-> "", scopes |-> {}, tier |-> ""]
Verify(i) ==
    LET t == calls[i].token IN
    /\ At(i, "gate") /\ NotKeys /\ UNCHANGED <<known, buckets, edge, cached, flights, tasks>>
    /\ \/ t = None /\ Give(i, Answer(401)) /\ NoFail
       \/ t # None /\ t \in DOMAIN known /\ req' = [req EXCEPT ![i].pc = "gate_meter", ![i].key = known[t]] /\ NoFail
       \/ t # None /\ t \notin DOMAIN known /\ t \in published /\ Go(i, "gate_read") /\ NoFail
       \/ t # None /\ t \notin DOMAIN known /\ t \notin published /\ Give(i, Answer(401)) /\ NoFail
       \/ t # None /\ t \notin DOMAIN known /\ Give(i, Answer(401)) /\ Fail
ReadKey(i) ==
    LET t == calls[i].token
        key == IF t \in published THEN Published(t) ELSE EmptyKey IN
    /\ At(i, "gate_read") /\ req' = [req EXCEPT ![i].pc = "gate_meter", ![i].key = key]
    /\ known' = With(known, t, key)
    /\ NotKeys /\ NoFail /\ UNCHANGED <<buckets, edge, cached, flights, tasks>>

\* One script reads the bucket, fills it for the time that went by and takes from it, or leaves it.
\* A tier that the gateway does not know, such as "standard", it serves as "hobby".
GateTier(k) == IF k.tier \in DOMAIN GateTiers THEN GateTiers[k.tier] ELSE GateTiers["hobby"]
Filled(b, tier) == Min({tier.burst, b.tokens + (now - b.last) * tier.rate})
Bucket(name, tier) == IF name \in DOMAIN buckets THEN buckets[name] ELSE [last |-> now, tokens |-> tier.burst]

Take(b, tier) == [last |-> now, tokens |-> Filled(b, tier) - 1]
GateMeter(i) ==
    LET k == req[i].key
        tier == GateTier(k)
        name == <<"gate", k.id>>
        b == Bucket(name, tier)
    IN  /\ At(i, "gate_meter") /\ NotKeys /\ UNCHANGED <<known, edge, cached, flights, tasks>>
        /\ \/ /\ Filled(b, tier) >= 1 /\ NoFail
              /\ buckets' = With(buckets, name, Take(b, tier))
              /\ IF k.scopes = {} THEN req' = [req EXCEPT ![i].pc = "answered", ![i].answer = Answer(403), ![i].at = now, ![i].gateAt = now]
                 ELSE req' = [req EXCEPT ![i].pc = "edge", ![i].gateAt = now]
           \/ Filled(b, tier) < 1 /\ Give(i, Answer(429)) /\ NoFail /\ UNCHANGED buckets
           \/ Give(i, Answer(500)) /\ Fail /\ UNCHANGED buckets

\* The headers are set from the key before the question is looked up.
EdgeKey(i) ==
    LET k == req[i].key
    IN  <<calls[i].path, calls[i].question, k.org, k.actor, IF calls[i].bearer THEN None ELSE calls[i].token>>
EdgeLookup(i) ==
    LET k == EdgeKey(i) IN
    /\ At(i, "edge") /\ NotKeys /\ UNCHANGED <<known, buckets, edge, cached, flights, tasks>>
    /\ \/ calls[i].path \notin CacheablePaths /\ Go(i, "arrive") /\ NoFail
       \/ calls[i].path \in CacheablePaths /\ k \in DOMAIN edge /\ Give(i, edge[k].answer) /\ NoFail
       \/ calls[i].path \in CacheablePaths /\ k \notin DOMAIN edge /\ Go(i, "edge_join") /\ NoFail
       \/ calls[i].path \in CacheablePaths /\ k \in DOMAIN edge /\ Go(i, "edge_join") /\ Fail
EdgeJoin(i) ==
    LET k == EdgeKey(i) IN
    /\ At(i, "edge_join") /\ NotKeys /\ NoFail /\ UNCHANGED <<known, buckets, edge, cached, tasks>>
    /\ \/ k \notin DOMAIN flights /\ flights' = With(flights, k, i) /\ Go(i, "arrive")
       \/ k \in DOMAIN flights /\ req' = [req EXCEPT ![i].pc = "edge_wait", ![i].of = flights[k]] /\ UNCHANGED flights

\* The body of the API's answer may stop coming: the handler panics, and nothing is cleared away.
Leads(i) == EdgeKey(i) \in DOMAIN flights /\ flights[EdgeKey(i)] = i
EdgeAbort(i) ==
    /\ At(i, "edge_store") /\ Fail /\ req' = [req EXCEPT ![i].pc = "aborted", ![i].answer = Answer(502), ![i].at = now]
    /\ NotKeys /\ UNCHANGED <<known, buckets, edge, cached, flights, tasks>>
EdgeStore(i) ==
    /\ At(i, "edge_store") /\ Go(i, "edge_land")
    /\ \/ Leads(i) /\ req[i].answer.status = 200 /\ NoFail
          /\ edge' = With(edge, EdgeKey(i), [answer |-> req[i].answer, until |-> now + TTL])
       \/ (~Leads(i) \/ req[i].answer.status # 200) /\ NoFail /\ UNCHANGED edge
       \/ Fail /\ UNCHANGED edge
    /\ NotKeys /\ UNCHANGED <<known, buckets, cached, flights, tasks>>
EdgeLand(i) ==
    /\ At(i, "edge_land") /\ Give(i, req[i].answer)
    /\ flights' = IF Leads(i) THEN Restrict(flights, DOMAIN flights \ {EdgeKey(i)}) ELSE flights
    /\ NotKeys /\ NoFail /\ UNCHANGED <<known, buckets, edge, cached, tasks>>
\* One that waits is given what the leader had, or its own time is up and nothing it can ask is answered.
EdgeWait(i) ==
    /\ At(i, "edge_wait") /\ NotKeys /\ NoFail /\ UNCHANGED <<known, buckets, edge, cached, flights, tasks>>
    /\ \/ At(req[i].of, "answered") /\ Give(i, req[req[i].of].answer)
       \/ ~At(req[i].of, "answered") /\ Give(i, Answer(504))

-----------------------------------------------------------------------------
(* within the API *)

\* The gateway has set some of the headers of the tenant and the actor (X-Mem-*, x-organization-id,
\* x-user-id).  The others (x-org-id, x-contexta-user-id), which `orgs` and `actors` are of a call that
\* comes by it, it leaves as they came.
Sent(i) ==
    IF calls[i].door = "api" THEN calls[i]
    ELSE LET k == req[i].key IN [calls[i] EXCEPT !.orgs = @ \cup {k.org}, !.actors = @ \cup {k.actor}]
Arrive(i) ==
    LET who == Authenticate(Sent(i))
        status == Tenant(Sent(i), who)
    IN  /\ At(i, "arrive") /\ NotKeys /\ UNCHANGED <<known, buckets, edge, cached, flights, tasks>>
        /\ \/ status = 200 /\ NoFail
              /\ req' = [req EXCEPT ![i].pc = IF calls[i].path = "healthz" THEN "solo" ELSE "meter", ![i].who = who]
           \/ status # 200 /\ Return(i, Answer(status)) /\ NoFail
           \/ calls[i].token # None /\ calls[i].path \notin PublicPaths /\ Return(i, Answer(503)) /\ Fail

\* The bucket is read in one round trip and written in the next.  Without Redis everyone may pass.
Identity(i) == IF req[i].who.key # None THEN <<"api", req[i].who.key>> ELSE <<"ip", None>>
Tier(i) == Tiers[IF req[i].who.tier \in DOMAIN Tiers THEN req[i].who.tier ELSE "standard"]
Meter(i) ==
    /\ At(i, "meter") /\ NotKeys /\ UNCHANGED <<known, buckets, edge, cached, flights, tasks>>
    /\ \/ NoFail /\ req' = [req EXCEPT ![i].pc = "charge", ![i].saw = Bucket(Identity(i), Tier(i))]
       \/ Fail /\ Go(i, "lookup")
\* (ChargeRefused: one that is turned away pays as well.)
ChargeRefused(available) == available - 1
Remaining(available) == IF available >= 1 THEN available - 1 ELSE available
Charge(i) ==
    LET available == Filled(req[i].saw, Tier(i)) IN
    /\ At(i, "charge") /\ NotKeys /\ UNCHANGED <<known, edge, cached, flights, tasks>>
    /\ \/ /\ NoFail /\ buckets' = With(buckets, Identity(i), [last |-> now, tokens |-> Remaining(available)])
          /\ IF available >= 1 THEN req' = [req EXCEPT ![i].pc = "lookup", ![i].apiAt = now]
             ELSE Return(i, Answer(429))
       \/ Fail /\ Go(i, "lookup") /\ UNCHANGED buckets

\* (CacheKeyOfQuestion: only what is asked tells answers apart.)
CacheKeyOfQuestion(i) == <<calls[i].path, calls[i].question>>
CacheKey(i) == <<calls[i].path, calls[i].question, req[i].who.org, req[i].who.actor, req[i].who.key>>
Lookup(i) ==
    LET k == CacheKey(i) IN
    /\ At(i, "lookup") /\ NotKeys /\ UNCHANGED <<known, buckets, edge, cached, flights, tasks>>
    /\ \/ calls[i].path \notin CacheablePaths /\ Go(i, "solo") /\ NoFail
       \/ calls[i].path \in CacheablePaths /\ k \in DOMAIN cached /\ Return(i, cached[k].answer) /\ NoFail
       \/ calls[i].path \in CacheablePaths /\ k \notin DOMAIN cached /\ Go(i, "join") /\ NoFail
       \/ calls[i].path \in CacheablePaths /\ k \in DOMAIN cached /\ Go(i, "join") /\ Fail
Join(i) ==
    LET k == CacheKey(i) IN
    /\ At(i, "join") /\ NotKeys /\ NoFail /\ UNCHANGED <<known, buckets, edge, cached, flights>>
    /\ \/ k \notin DOMAIN tasks /\ tasks' = With(tasks, k, i) /\ Go(i, "ask")
       \/ k \in DOMAIN tasks /\ req' = [req EXCEPT ![i].pc = "follow", ![i].of = tasks[k]] /\ UNCHANGED tasks

\* The route's own answer: of the tenant's rows, by a transaction, or an error.
Handled(i) == [Answer(200) EXCEPT !.owner = Owner(req[i].who), !.read = now]
Raised == 500
Solo(i) ==
    /\ At(i, "solo") /\ NotKeys /\ UNCHANGED <<known, buckets, edge, cached, flights, tasks>>
    /\ (Return(i, Handled(i)) /\ NoFail) \/ (Return(i, Answer(Raised)) /\ Fail)
Ask(i) ==
    /\ At(i, "ask") /\ NotKeys /\ UNCHANGED <<known, buckets, edge, cached, flights, tasks>>
    /\ \/ NoFail /\ req' = [req EXCEPT ![i].pc = "store", ![i].made = Handled(i)]
       \/ Fail /\ \E status \in {Raised, 503} : req' = [req EXCEPT ![i].pc = "land", ![i].made = Answer(status)]
Expires == now + TTL
Store(i) ==
    /\ At(i, "store") /\ Go(i, "land")
    /\ \/ NoFail /\ cached' = With(cached, CacheKey(i), [answer |-> req[i].made, until |-> Expires])
       \/ Fail /\ UNCHANGED cached
    /\ NotKeys /\ UNCHANGED <<known, buckets, edge, flights, tasks>>

\* An answer that is not kept is still a stream, which the first of those who share it uses up.
Body(l) == [req[l].made EXCEPT !.whole = @ /\ (req[l].made.status = 200 \/ ~req[l].used)]
Pass(i, l) ==
    LET sent == [req EXCEPT ![l].used = TRUE]
    IN  req' = IF calls[i].door = "gateway" THEN [sent EXCEPT ![i].pc = "edge_store", ![i].answer = Body(l)]
               ELSE [sent EXCEPT ![i].pc = "answered", ![i].answer = Body(l), ![i].at = now]
Land(i) ==
    /\ At(i, "land") /\ Pass(i, i)
    /\ tasks' = Restrict(tasks, DOMAIN tasks \ {CacheKey(i)})
    /\ NotKeys /\ NoFail /\ UNCHANGED <<known, buckets, edge, cached, flights>>
Asked(l) == req[l].pc \notin {"ask", "store"}
Follow(i) ==
    /\ At(i, "follow") /\ Asked(req[i].of)
    /\ IF req[req[i].of].made.status = Raised THEN Go(i, "solo") ELSE Pass(i, req[i].of)
    /\ NotKeys /\ NoFail /\ UNCHANGED <<known, buckets, edge, cached, flights, tasks>>

-----------------------------------------------------------------------------
(* what happens beside the calls *)

Come(i) ==
    /\ At(i, "out") /\ Go(i, IF calls[i].door = "gateway" THEN "gate" ELSE "arrive")
    /\ NotKeys /\ NoFail /\ UNCHANGED <<known, buckets, edge, cached, flights, tasks>>

\* A key is in Redis before its row is committed, and out of it before its revocation is; or Redis
\* failed and it never is.
NotServing == UNCHANGED <<case, now, known, buckets, edge, cached, flights, tasks, req>>
MakeKey(t) ==
    /\ stored[t] = "none" /\ t \in case.fresh /\ stored' = [stored EXCEPT ![t] = "making"]
    /\ (published' = published \cup {t} /\ NoFail) \/ (UNCHANGED published /\ Fail)
    /\ UNCHANGED revokedAt /\ NotServing
CommitKey(t) ==
    /\ stored[t] = "making" /\ stored' = [stored EXCEPT ![t] = "live"]
    /\ UNCHANGED <<revokedAt, published>> /\ NoFail /\ NotServing
RevokeKey(t) ==
    /\ stored[t] = "live" /\ t \in case.dying /\ stored' = [stored EXCEPT ![t] = "revoking"]
    /\ (published' = published \ {t} /\ NoFail) \/ (UNCHANGED published /\ Fail)
    /\ UNCHANGED revokedAt /\ NotServing
CommitRevocation(t) ==
    /\ stored[t] = "revoking" /\ stored' = [stored EXCEPT ![t] = "revoked"] /\ revokedAt' = [revokedAt EXCEPT ![t] = now]
    /\ UNCHANGED published /\ NoFail /\ NotServing

\* An answer is gone at some moment of the tick in which its time ends: one that was kept late in a
\* tick is still found early in that one.
Lapsed(entries) == {k \in DOMAIN entries : entries[k].until = now}
Lapse ==
    /\ \/ \E k \in Lapsed(edge) : edge' = Restrict(edge, DOMAIN edge \ {k}) /\ UNCHANGED cached
       \/ \E k \in Lapsed(cached) : cached' = Restrict(cached, DOMAIN cached \ {k}) /\ UNCHANGED edge
    /\ NoFail /\ UNCHANGED <<case, now, keyVars, known, buckets, flights, tasks, req>>

Outside == {"out", "gate", "gate_read", "gate_meter", "edge", "edge_join", "edge_wait", "answered", "aborted"}
Fresh(entries) == Restrict(entries, DOMAIN entries \ Lapsed(entries))
Tick ==
    /\ now < case.ticks /\ now' = now + 1
    /\ \A i \in DOMAIN req : req[i].pc \in Outside
    /\ \A i \in DOMAIN req : At(i, "edge_wait") => ~At(req[i].of, "answered")
    /\ \A t \in DOMAIN stored : stored[t] \notin {"making", "revoking"}
    /\ edge' = Fresh(edge) /\ cached' = Fresh(cached)
    /\ NoFail /\ UNCHANGED <<case, keyVars, known, buckets, flights, tasks, req>>

ServingInit ==
    /\ case \in Cases /\ now = 0 /\ faults = case.faults
    /\ stored = [t \in DOMAIN Keys |-> IF t \in case.fresh THEN "none" ELSE "live"]
    /\ revokedAt = [t \in DOMAIN Keys |-> MaxTime + 1]
    /\ published = DOMAIN Keys \ case.fresh
    /\ known = <<>> /\ buckets = <<>> /\ edge = <<>> /\ cached = <<>> /\ flights = <<>> /\ tasks = <<>>
    /\ req = [i \in DOMAIN case.calls |->
                [pc |-> "out", key |-> EmptyKey, who |-> Nobody, of |-> i, saw |-> [last |-> 0, tokens |-> 0], answer |-> Answer(0),
                 made |-> Answer(0), used |-> FALSE, at |-> 0, gateAt |-> -1, apiAt |-> -1]]

Step(i) ==
    \/ Come(i) \/ Verify(i) \/ ReadKey(i) \/ GateMeter(i) \/ EdgeLookup(i) \/ EdgeJoin(i) \/ EdgeAbort(i)
    \/ EdgeStore(i) \/ EdgeLand(i) \/ EdgeWait(i) \/ Arrive(i) \/ Meter(i) \/ Charge(i) \/ Lookup(i) \/ Join(i)
    \/ Solo(i) \/ Ask(i) \/ Store(i) \/ Land(i) \/ Follow(i)
KeyStep(t) == MakeKey(t) \/ CommitKey(t) \/ RevokeKey(t) \/ CommitRevocation(t)
ServingNext ==
    \/ \E i \in DOMAIN req : Step(i)
    \/ \E t \in DOMAIN Keys : KeyStep(t)
    \/ Lapse
    \/ Tick
ServingSpec == ServingInit /\ [][ServingNext]_servingVars

-----------------------------------------------------------------------------
(***************************************************************************)
(* Properties.                                                             *)
(***************************************************************************)

Answered(i) == req[i].pc = "answered" /\ req[i].answer.status = 200 /\ calls[i].path \notin PublicPaths
OwnerOf(i) ==
    IF calls[i].token # None THEN Owner(Keys[calls[i].token])
    ELSE <<Value(calls[i].orgs), Value(calls[i].actors)>>

\* Whichever of the two caches and of the two ways to share a question an answer came through, it
\* was read for the tenant and the actor who asked ("a cached response can never cross a tenant or
\* actor boundary", response_cache.py:17).
OwnAnswer == \A i \in DOMAIN req : Answered(i) => req[i].answer.owner = OwnerOf(i)

\* What an answer tells was read no longer ago than answers are kept: once by the API, and once more
\* by the gateway, which also keeps what the API had kept.
AgeBound ==
    \A i \in DOMAIN req : Answered(i) =>
        req[i].at - req[i].answer.read <= (IF calls[i].door = "gateway" THEN 2 * TTL ELSE TTL)

\* A key that was revoked is of no more use at the API, and at the gateway, which goes on knowing
\* it, only for the answers that it still keeps: its own or, if it comes as a bearer token, those
\* of any key of its actor.
Shares(i, t) ==
    LET token == calls[i].token
    IN  t = token \/ (calls[i].bearer /\ Keys[t].org = Keys[token].org /\ Keys[t].actor = Keys[token].actor)
KeysDie ==
    \A i \in DOMAIN req : Answered(i) /\ calls[i].token # None =>
        IF calls[i].door = "gateway"
        THEN \E t \in DOMAIN Keys : Shares(i, t) /\ req[i].at <= revokedAt[t] + TTL
        ELSE req[i].at <= revokedAt[calls[i].token]

\* What the caches of both doors give out: to its tenant and actor alone, no older than it may be, and
\* not for a key that is dead.
CacheTrue == OwnAnswer /\ AgeBound /\ KeysDie

\* The API turns a call away for its rate only if so many others that share its bucket were let in
\* that it is spent: a race over the bucket may let in too many but never keeps anyone out.
RefusedWhenSpent ==
    \A i \in DOMAIN req : req[i].pc = "answered" /\ req[i].answer.status = 429 /\ req[i].who.key # None /\ req[i].gateAt = -1 =>
        Cardinality({j \in DOMAIN req : /\ req[j].who.key = req[i].who.key
                                       /\ req[j].apiAt # -1 /\ req[j].apiAt <= req[i].at
                                       /\ (req[i].at - req[j].apiAt) * Tier(i).rate < Tier(i).burst})
            >= Tier(i).burst

\* So does the gateway, by the tier that it serves the key by, which need not be the key's own.
GateRefusedWhenSpent ==
    \A i \in DOMAIN req :
        LET key == req[i].key
            tier == GateTier(key)
        IN  req[i].pc = "answered" /\ req[i].answer.status = 429 /\ calls[i].door = "gateway" /\ req[i].gateAt = -1 =>
              Cardinality({j \in DOMAIN req : /\ req[j].key = key
                                             /\ req[j].gateAt # -1 /\ req[j].gateAt <= req[i].at
                                             /\ (req[i].at - req[j].gateAt) * tier.rate < tier.burst})
                  >= tier.burst

\* The gateway's script admits no more of a key in any time than the burst and what that time earns.
GateWithin ==
    \A i, j \in DOMAIN req : req[i].gateAt # -1 /\ req[j].gateAt >= req[i].gateAt =>
        LET admitted == {x \in DOMAIN req : req[x].key = req[i].key /\ req[x].gateAt \in req[i].gateAt .. req[j].gateAt}
            tier == GateTier(req[i].key)
        IN  Cardinality(admitted) <= tier.burst + (req[j].gateAt - req[i].gateAt) * tier.rate

\* Neither bucket keeps out whom the tier that it serves the key by lets in, and the gateway's lets in
\* nobody else.  That tier is the key's own at the API only: at the gateway it is "hobby" for every
\* key (Published, GateTier).
RatesKept == RefusedWhenSpent /\ GateRefusedWhenSpent /\ GateWithin
=============================================================================
