---------------------------- MODULE MCServices ----------------------------
(* Small instances of ClientWrites, Kernel and Serving for TLC, which share no state: one run
   explores each, chosen by `part`, while the others stay as they began. *)
EXTENDS ClientWrites, Kernel, Serving, TLC

CONSTANTS Sides, c1, c2, t1, t2, u, v, k1, o1, a1, x, y
VARIABLE part

-----------------------------------------------------------------------------
(* two clients that share a file, the copy of a queue or nothing, and one client alone *)

TwoClients == (t1 :> c1 @@ t2 :> c2)
OneClient  == (t1 :> c1)
Together ==
    {(c1 :> "python" @@ c2 :> "asyncio"),
     (c1 :> "typescript" @@ c2 :> "typescript"), (c1 :> "python"), (c1 :> "memory" @@ c2 :> "memory")}

-----------------------------------------------------------------------------
(* three calls to the kernel *)

R(kind) ==
    [kind |-> kind, user |-> u, claims |-> NoId, agent |-> NoId, key |-> k1, op |-> NoId,
     content |-> x, target |-> NoId, expected |-> 0]

\* An observe under a key, and its retries: the same, with a request id, with another
\* content, of another user.
Observes ==
    {R("observe"), [R("observe") EXCEPT !.op = o1], [R("observe") EXCEPT !.content = y, !.op = o1]}
Appends  == {R("append"), [R("append") EXCEPT !.expected = 1]}

MixedRequests ==
    <<{R("observe"), [R("observe") EXCEPT !.op = o1], R("create_block")},
      Appends \cup {R("observe"), [R("observe") EXCEPT !.user = v, !.op = o1], R("create_block"),
                     [R("observe") EXCEPT !.claims = v], R("create_revision")},
      Observes \cup Appends \cup {[R("observe") EXCEPT !.key = NoId], R("recall"), [R("explain") EXCEPT !.target = 1], [R("explain") EXCEPT !.target = 1, !.agent = a1],
       R("build_context"), R("search_graph"), R("correct"), R("propose"),
       [R("get_operation") EXCEPT !.op = o1]}>>

-----------------------------------------------------------------------------
(* Two tenants, one of them with two actors; up to three calls at a time, by the same key, by those
   of two actors of a tenant, by those of one actor, or by headers alone. *)

MCKeys ==
    [k \in {"a", "b", "c", "d"} |->
        [id |-> k, org |-> IF k = "b" THEN "o2" ELSE "o1", actor |-> [a |-> "ua", b |-> "ub", c |-> "uc", d |-> "ua"][k],
         scopes |-> {"read"}, tier |-> IF k = "c" THEN "hobby" ELSE "standard"]]
MCTiers     == [t \in {"hobby", "standard"} |-> [rate |-> 1, burst |-> IF t = "hobby" THEN 1 ELSE 2]]
MCGateTiers == [t \in {"hobby"} |-> [rate |-> 1, burst |-> 1]]

CallTo(door, token, path) ==
    [door |-> door, token |-> token, bearer |-> TRUE, orgs |-> {}, actors |-> {}, queryOrg |-> {}, queryActor |-> {},
     path |-> path, question |-> "q"]
Headed == [CallTo("api", None, "retrieve") EXCEPT !.orgs = {"o1"}, !.actors = {"ua"}]
Case(some, ticks) == [calls |-> some, fresh |-> {}, dying |-> {}, faults |-> 0, ticks |-> ticks]
Api(t)  == CallTo("api", t, "retrieve")
Gate(t) == CallTo("gateway", t, "retrieve")
NoCase == Case(<<>>, 0)
MCCases ==
    {NoCase, Case(<<Api("a"), Api("a"), Api("b")>>, 2), Case(<<Api("a"), Gate("a")>>, 3), Case(<<Gate("a"), Gate("a"), Gate("b")>>, 0),
     Case(<<Gate("c"), Gate("c"), Gate("c")>>, 2), Case(<<Api("c"), Api("c"), Api("c")>>, 1),
     Case(<<Api("a"), Api("c")>>, 1), Case(<<Gate("a"), Gate("c"), Api("c")>>, 1), Case(<<Api("a"), Gate("a"), Gate("a")>>, 3),
     Case(<<Api("a"), Headed, [Headed EXCEPT !.orgs = {"o2"}]>>, 1), Case(<<Headed, [Headed EXCEPT !.actors = {"uc"}]>>, 1),
     [Case(<<Api("a"), Gate("a"), Gate("a")>>, 2) EXCEPT !.dying = {"a"}],
     [Case(<<Gate("a"), Gate("d")>>, 2) EXCEPT !.dying = {"a"}],
     [Case(<<Gate("b"), Gate("b")>>, 1) EXCEPT !.fresh = {"b"}, !.dying = {"b"}, !.faults = 1],
     Case(<<[Api("a") EXCEPT !.orgs = {"o1"}, !.queryOrg = {"o2"}], [Api("b") EXCEPT !.actors = {"ua"}],
            [Headed EXCEPT !.orgs = {"o1", "o2"}], [Api("a") EXCEPT !.queryActor = {"ua", "ub"}]>>, 0),
     Case(<<[Gate("a") EXCEPT !.bearer = FALSE], CallTo("gateway", "b", "observations"), CallTo("api", None, "healthz")>>, 0),
     Case(<<[Gate("a") EXCEPT !.orgs = {"o2"}], [Gate("a") EXCEPT !.orgs = {"o1"}, !.actors = {"uc"}]>>, 1),
     [Case(<<Api("a"), Api("a"), Api("a")>>, 0) EXCEPT !.faults = 1], [Case(<<Gate("a"), Gate("a")>>, 1) EXCEPT !.faults = 1],
     [Case(<<CallTo("gateway", "a", "observations"), CallTo("gateway", None, "retrieve"), CallTo("api", None, "signup")>>, 0) EXCEPT !.faults = 1]}

-----------------------------------------------------------------------------
Init ==
    /\ part \in Sides
    /\ ClientInit /\ KernelInit /\ ServingInit
    /\ language \in Together
    /\ part # "clients" => language[c1] = "python"
    /\ part # "serving" => case = NoCase
ClientStep  == part = "clients" /\ ClientNext /\ UNCHANGED <<part, kernelVars, servingVars>>
KernelStep  == part = "kernel" /\ KernelNext /\ UNCHANGED <<part, clientVars, servingVars>>
ServingStep == part = "serving" /\ ServingNext /\ UNCHANGED <<part, clientVars, kernelVars>>
Spec ==
    Init /\ [][ClientStep \/ KernelStep \/ ServingStep]_<<part, clientVars, kernelVars, servingVars>>
=============================================================================
