------------------------------ MODULE Recollect ------------------------------
(***************************************************************************)
(* Every way in which memory is read, over one store.                      *)
(*                                                                         *)
(*   contexta/api/routes/memories.py   the lists, the searches, context    *)
(*   contexta/services/kernel.py       recall, build_context               *)
(*   contexta/mcp/service.py           recall                              *)
(*                                                                         *)
(* Retrieval is one request of the engine; this module is who else makes   *)
(* one and what becomes of its page: the context of a focus is built from  *)
(* what the engine held of the rows when it answered.  The reads that ask  *)
(* the store alone are here too, and so are those that follow relations    *)
(* (GraphSearch).  One world is of one kind of read.                       *)
(***************************************************************************)
EXTENDS Retrieval, Context, GraphSearch

CONSTANT TruthsRead         \* facts that a context without a focus is built from
\* An entity is linked to memories of its own user: who links them looks both up for one user.
ASSUME LinksAssumption ==
    \A w \in Worlds : \A e \in w.entities, m \in DOMAIN w.rows :
        <<e.id, m>> \in w.links => w.rows[m].org = e.org /\ w.rows[m].user = e.user
\* Relations are told apart by the order they are listed in; a search asks for some rounds (runtime.py).
ASSUME RelationsAssumption ==
    \A w \in Worlds :
        /\ IsFiniteSet(w.relations \cup w.coming)
        /\ \A x, y \in w.relations \cup w.coming : x.id \in Int /\ (x.id = y.id => x = y)
        /\ w.kind = "graph" /\ w.asked.route \in Walks => w.asked.hops \in Int /\ (w.asked.route = "search" => w.asked.hops > 0)
VARIABLE listed             \* what a list or a search of the store shows

vars == <<retrievalVars, graphVars, contextVars, listed>>

NoAsk == [page |-> <<>>, request |-> [kind |-> "package", plan |-> NoPlan, named |-> {}, limit |-> 1, budget |-> 0,
                                      userModel |-> TRUE, messages |-> 0]]
NoContext == stage = "none" /\ ask = NoAsk /\ values = <<>> /\ built = <<>> /\ package = Nothing /\ blocks = <<>>
Init ==
    /\ RetrievalInit /\ GraphInit /\ listed = <<>>
    /\ IF world.kind = "page" THEN ContextInit ELSE NoContext

-----------------------------------------------------------------------------
(* who else asks the engine *)

Admitted(scope, asked) == req' = [req EXCEPT !.pc = "plan", !.scope = scope, !.i = 1, !.asked = asked, !.q = world.questions[1]]
AsksAs(kinds) == req.pc = "ask" /\ world.kind \in kinds
Everyone == [f \in ScopeFields \cup {"org", "user"} |-> IF f = "org" THEN world.known.org ELSE Unsaid]

\* The kernel asks in the scope of its request, with nothing around its repositories.
AdmitRecall ==
    /\ AsksAs({"recall", "focus"})
    /\ Admitted([f \in DOMAIN Everyone |-> world.asked[f]], world.asked)
    /\ UNCHANGED <<world, store, changed, reading, graphVars, contextVars, listed>>

\* A tool asks for a user of its organisation, and needs the vector of the question.
AdmitTool ==
    /\ AsksAs({"tool"})
    /\ \/ Admitted([Everyone EXCEPT !.user = world.asked.user], world.asked)
       \/ world.faults > 0 /\ req' = [req EXCEPT !.pc = "refused"]
    /\ UNCHANGED <<world, store, changed, reading, graphVars, contextVars, listed>>

\* The hybrid search of a user, or else of nobody, from one relation to three.
Nobody == "nobody"
AdmitHybrid ==
    /\ AsksAs({"hybrid"})
    /\ LET user == IF world.asked.user = Unsaid THEN Nobody ELSE world.asked.user
       IN  Admitted([Everyone EXCEPT !.user = user], [world.asked EXCEPT !.depth = Clip(@, 1, 3)])
    /\ UNCHANGED <<world, store, changed, reading, graphVars, contextVars, listed>>

-----------------------------------------------------------------------------
(* what a context is built from *)

\* What the builder reads of a row, as the request holds it.
Card(m, row) ==
    [id |-> m, type |-> row.type, tags |-> row.tags, at |-> row.event, told |-> None, observed |-> row.created,
     said |-> row.said, noted |-> {}, names |-> row.names, tagged |-> row.tags, words |-> Cardinality(row.words),
     heading |-> 1, importance |-> row.importance, archived |-> row.archived, closed |-> row.to # None,
     rows |-> <<>>, facts |-> <<>>, sources |-> <<row.session>>]
Given(page, request) ==
    /\ stage' = "asked" /\ ask' = [page |-> page, request |-> request] /\ values' = page
    /\ UNCHANGED <<built, package, blocks>>

\* The page that answered the focus; its plan is made again, without the entities that are known.
Gather ==
    /\ world.kind = "focus" /\ req.pc = "done" /\ stage = "none"
    /\ Given([i \in DOMAIN req.page |-> Card(req.page[i], Seen(req.page[i]))],
             [world.request EXCEPT !.plan = BuildQueryPlan(world.questions[1], {}, world.now)])
    /\ UNCHANGED <<retrievalVars, graphVars, listed>>

\* Without a focus: so many of the facts that are current, whichever the statement returns first.
Orders(S, n) == {p \in [1 .. Least(n, Cardinality(S)) -> S] : \A i, j \in DOMAIN p : i # j => p[i] # p[j]}
GatherTruths ==
    /\ AsksAs({"truths"})
    /\ req' = [req EXCEPT !.pc = "done"]
    /\ \E page \in Orders(GetCurrentTruths(store, world.asked), TruthsRead) :
          LET kept == Those(page, {i \in DOMAIN page : ScopeMatchesMemory(store[page[i]])})
          IN  Given([i \in DOMAIN kept |-> Card(kept[i], store[kept[i]])],
                    [world.request EXCEPT !.plan = BuildQueryPlan(world.questions[1], {}, world.now)])
    /\ UNCHANGED <<world, store, changed, reading, graphVars, listed>>

\* A prompt, for any user of the organisation that the key is of.
GetContext ==
    /\ AsksAs({"prompt"})
    /\ IF world.asked.org # world.known.org
       THEN req' = [req EXCEPT !.pc = "refused"] /\ UNCHANGED contextVars
       ELSE /\ req' = [req EXCEPT !.pc = "done"]
            /\ \E page \in Orders(GetCurrentTruths(store, [Everyone EXCEPT !.user = world.asked.user]), TruthsRead) :
                  Given([i \in DOMAIN page |-> Card(page[i], store[page[i]])], world.request)
    /\ UNCHANGED <<world, store, changed, reading, graphVars, listed>>

-----------------------------------------------------------------------------
(* the lists *)

Lists(kinds) == AsksAs(kinds) /\ req' = [req EXCEPT !.pc = "done"]
\* Newest first, those of one moment in any order.
NewestFirst(page) == \A i, j \in DOMAIN page : i < j => store[page[i]].created >= store[page[j]].created
PageFrom(page, offset, n) == SubSeq(page, offset + 1, Least(offset + n, Len(page)))

\* Whatever has become of them, unless the list is of some state.
Matches(row, wanted) == \A f \in DOMAIN wanted : row[f] = wanted[f]
ListMemories ==
    /\ Lists({"list"})
    /\ \E S \in {{m \in ScopeSelect(store, world.known.org) : Matches(store[m], world.wanted)}} :
       \E page \in {p \in Orders(S, Cardinality(S)) : NewestFirst(p)} :
          listed' = PageFrom(page, world.offset, world.asked.limit)
    /\ UNCHANGED <<world, store, changed, reading, graphVars, contextVars>>

\* What happened to each of a user's: archived before superseded, and else that it was written.
Event(row) == IF row.archived THEN "archived" ELSE IF row.to # None THEN "superseded" ELSE "created"
Timeline ==
    /\ Lists({"timeline"})
    /\ \E S \in {{m \in ScopeSelect(store, world.known.org) : store[m].user = world.asked.user}} :
       \E page \in {p \in Orders(S, Cardinality(S)) : NewestFirst(p)} :
          LET shown == PageOf(page, TruthsRead) IN listed' = [i \in DOMAIN shown |-> <<shown[i], Event(store[shown[i]])>>]
    /\ UNCHANGED <<world, store, changed, reading, graphVars, contextVars>>

\* By their vectors alone, of one user or of all, and of those the ones that are near enough.
Searched(user) ==
    GetByVectorSimilarity(store, world.questions[1].meaning, world.profile,
                          [Defaults([Everyone EXCEPT !.user = user]) EXCEPT !.types = world.asked.types], world.asked.limit)
NearEnough(m) == Cosine(store[m].meaning, world.questions[1].meaning) >= world.threshold
SearchMemories ==
    /\ AsksAs({"search"})
    /\ \/ world.faults > 0 /\ req' = [req EXCEPT !.pc = "refused"] /\ UNCHANGED listed
       \/ \E page \in {Searched(world.asked.user)} :
             IF Hydrates(store, page)
             THEN req' = [req EXCEPT !.pc = "done"] /\ listed' = SelectSeq(page, NearEnough)
             ELSE req' = [req EXCEPT !.pc = "refused"] /\ UNCHANGED listed
    /\ UNCHANGED <<world, store, changed, reading, graphVars, contextVars>>

-----------------------------------------------------------------------------
RetrievalStep == RetrievalNext /\ UNCHANGED <<graphVars, contextVars, listed>>
ContextStep   == ContextNext /\ UNCHANGED <<retrievalVars, graphVars, listed>>
GraphStep     == GraphNext /\ UNCHANGED <<retrievalVars, contextVars, listed>>
Ended == \/ Over /\ (world.kind \in {"focus", "truths", "prompt"} => req.pc = "refused" \/ stage = "handed")
         \/ stage = "handed"
         \/ walk.pc \in {"done", "refused", "unknown", "failed"}
Next ==
    \/ RetrievalStep \/ ContextStep \/ GraphStep
    \/ AdmitRecall \/ AdmitTool \/ AdmitHybrid
    \/ Gather \/ GatherTruths \/ GetContext
    \/ ListMemories \/ Timeline \/ SearchMemories
    \/ (Ended /\ UNCHANGED vars)
Spec == Init /\ [][Next]_vars

-----------------------------------------------------------------------------
(* properties *)

\* A context holds nothing but what the reader may see and what was current when it was asked for or
\* since, whoever asked, however the page came to be and whatever the builder made of it.
GivenOnlyAdmitted ==
    stage = "handed" /\ world.kind \in {"focus", "truths", "prompt"} =>
        \A i \in DOMAIN values :
            LET m == values[i].id
            IN  /\ store[m].user = world.asked.user /\ store[m].org = world.asked.org
                /\ m \in DOMAIN world.rows => world.rows[m].to = None /\ ~world.rows[m].archived
=============================================================================
