----------------------------- MODULE GraphSearch -----------------------------
(***************************************************************************)
(* The reads that follow the relations of entities.                        *)
(*                                                                         *)
(*   contexta/api/routes/graph.py              traverse, graph, memories   *)
(*   contexta/services/kernel.py               search_graph                *)
(*   contexta/mcp/service.py                   explore_graph               *)
(*   contexta/repositories/entity_repo.py      the statements              *)
(*                                                                         *)
(* A walk reads the relations of one entity at a time, of a frontier in    *)
(* whatever order, and goes on from what it has found in rounds.  Between  *)
(* two reads another transaction may commit a relation.  The walks differ  *)
(* in what they begin from, in how many rounds they make, in what they do  *)
(* with what they find in the last, and in what they show.                 *)
(* An entity is [id, name, folded, parts, org, user]: its name, without    *)
(* case, and what may be a part of it.  A relation is [id, from, to,       *)
(* type], and the newer ones have the greater id.  What is asked, and of   *)
(* whom, is world.asked.                                                   *)
(***************************************************************************)
EXTENDS MemoryReads

CONSTANTS
    NeighbourLimit,     \* relations of an entity that are read
    LinkLimit,          \* links of an entity that are read
    ExploreEdges,       \* relations that an exploration shows
    ExploreLinks        \* links that it follows
ASSUME LimitsAssumption ==
    /\ {NeighbourLimit, LinkLimit, ExploreEdges, ExploreLinks} \subseteq Nat \ {0}
    /\ ExploreEdges <= NeighbourLimit /\ ExploreLinks <= LinkLimit

VARIABLES
    edges,      \* the relations that are committed
    walk        \* the read
graphVars == <<edges, walk>>

ga == world.asked
Walks == {"traverse", "overview", "search"}
Mine  == ScopedEntities(world.entities, ga)

-----------------------------------------------------------------------------
(* the statements *)

GetByIdForUser(id)     == {e \in Mine : e.id = id}
GetByName(name)        == {e \in Mine : e.name = name}
GetByNameIlike(folded) == {e \in Mine : e.folded = folded}
GetByNames(folded)     == {e \in Mine : e.folded \in folded}
FindByNameFragment(part) == {e \in world.entities : e.org = ga.org /\ part \in e.parts}
\* Not every entity that a relation leads to is the caller's.
GetEntitiesByIds(ids) == {e.id : e \in {e \in Mine : e.id \in ids}}

GetNeighbors(e) ==
    PageOf(Sorted({x \in edges : e \in {x.from, x.to}}, LAMBDA x, y : x.id > y.id), NeighbourLimit)
GetMemoriesForEntity(e) == PageOf(Sorted({m \in DOMAIN store : <<e, m>> \in world.links}, >), LinkLimit)
Linked(ids) == {m \in ScopeSelect(store, ga.org) : store[m].user = ga.user /\ \E e \in ids : <<e, m>> \in world.links}
GetLinkedToEntities(ids) == {m \in Linked(ids) : store[m].to = None}
CountMemoriesPerEntity(ids) ==
    LET of(e) == {m \in DOMAIN store : <<e, m>> \in world.links}
    IN  [e \in {e \in ids : of(e) # {}} |-> Cardinality(of(e))]

-----------------------------------------------------------------------------
(* asking *)

Resting == [pc |-> "ask", round |-> 1, roots |-> {}, found |-> {}, expanded |-> {}, frontier |-> {}, next |-> {},
            edges |-> {}, nodes |-> {}, linked |-> {}, counts |-> <<>>, shown |-> {}]
GraphInit == edges = world.relations /\ walk = Resting

AskedOf(route) == walk.pc = "ask" /\ world.kind = "graph" /\ ga.route = route
End(how)     == walk' = [walk EXCEPT !.pc = how]

\* How many rounds.  (RoundsShort: a search that does not read what it found last.)
RoundsShort == IF ga.route = "traverse" THEN Least(3, AtLeast(1, ga.hops)) ELSE AtLeast(0, ga.hops)
Rounds ==
    CASE ga.route = "traverse" -> Least(3, AtLeast(1, ga.hops))
      [] ga.route = "search"   -> ga.hops + 1
      [] OTHER                 -> AtLeast(0, ga.hops)
Begin(ids) ==
    walk' = [walk EXCEPT !.pc = "walk", !.roots = ids, !.found = ids, !.frontier = IF Rounds = 0 THEN {} ELSE ids]

\* From an entity of the caller by its identifier or, whatever the case, its name.  Two of a name fail.
AskTraverse ==
    /\ AskedOf("traverse")
    /\ LET byId == GetByIdForUser(ga.source)
           byName == GetByNameIlike(ga.source)
           root == IF byId # {} THEN byId ELSE byName
       IN  CASE Cardinality(root) = 1 -> Begin({e.id : e \in root})
             [] root = {}             -> End("unknown")
             [] OTHER                 -> End("failed")
    /\ UNCHANGED edges
AskOverview ==
    /\ AskedOf("overview")
    /\ IF ga.path = ga.user THEN Begin({e.id : e \in Mine}) ELSE End("refused")
    /\ UNCHANGED edges
\* From whatever identifiers are given, and the caller's entities that the question names.
AskSearch ==
    /\ AskedOf("search")
    /\ Begin(ga.ids \cup {e.id : e \in GetByNames(ga.names)})
    /\ UNCHANGED edges

-----------------------------------------------------------------------------
(* the walk *)

EndsOf(near) == UNION {{x.from, x.to} : x \in near}
Edge(x)    == [from |-> x.from, to |-> x.to, type |-> x.type]
Expanding(route, e) == walk.pc = "walk" /\ ga.route = route /\ e \in walk.frontier
\* Both ends of what was read are found, and those that were not yet are next.
Find(e, near) ==
    walk' = [walk EXCEPT !.frontier = @ \ {e}, !.expanded = @ \cup {e}, !.edges = @ \cup {Edge(x) : x \in near},
                         !.next = @ \cup (EndsOf(near) \ walk.found), !.found = @ \cup EndsOf(near)]

ExpandTraverse(e) ==
    /\ Expanding("traverse", e)
    /\ Find(e, {x \in ToSet(GetNeighbors(e)) : ga.types = {} \/ x.type \in ga.types})
    /\ UNCHANGED edges
ExpandOverview(e) ==
    /\ Expanding("overview", e)
    /\ Find(e, ToSet(GetNeighbors(e)))
    /\ UNCHANGED edges

\* A search goes along some relations in one direction, and counts what it keeps.
Followed(asked, e, x) ==
    /\ asked.direction = "outgoing" => x.from = e
    /\ asked.direction = "incoming" => x.to = e
    /\ asked.types = {} \/ x.type \in asked.types
UpTo(S, more) == FoldLeft(LAMBDA kept, x : IF Cardinality(kept) < ga.limit THEN kept \cup {x} ELSE kept, S, more)
\* (AnyNode: whosever it is.)
AnyNode(e) == {x.id : x \in {x \in world.entities : x.org = ga.org /\ x.id = e}}
Node(e)    == {x.id : x \in {x \in world.entities : x.org = ga.org /\ x.id = e /\ x.user = ga.user}}
ExpandSearch(e) ==
    /\ Expanding("search", e)
    /\ LET all   == GetNeighbors(e)
           near  == Those(all, {i \in DOMAIN all : Followed(ga, e, all[i])})
           found == IF walk.round < Rounds THEN EndsOf({x \in ToSet(all) : Followed(ga, e, x)}) ELSE {}
       IN  walk' = [walk EXCEPT !.frontier = @ \ {e}, !.expanded = @ \cup {e},
                                !.nodes = IF Cardinality(@) < ga.limit THEN @ \cup Node(e) ELSE @,
                                !.linked = @ \cup ToSet(GetMemoriesForEntity(e)),
                                !.edges = UpTo(@, [i \in DOMAIN near |-> Edge(near[i])]),
                                !.next = @ \cup found, !.found = @ \cup found]
    /\ UNCHANGED edges

Beyond == walk.next \ walk.expanded
NextRound ==
    /\ walk.pc = "walk" /\ walk.frontier = {} /\ Beyond # {} /\ walk.round < Rounds
    /\ walk' = [walk EXCEPT !.frontier = Beyond, !.next = {}, !.round = @ + 1]
    /\ UNCHANGED edges
Walked(route) ==
    walk.pc = "walk" /\ ga.route = route /\ walk.frontier = {} /\ (Beyond = {} \/ walk.round >= Rounds)

-----------------------------------------------------------------------------
(* what is shown *)

ShowTraverse ==
    /\ Walked("traverse")
    /\ LET nodes == walk.roots \cup GetEntitiesByIds(walk.found)
       IN  walk' = [walk EXCEPT !.pc = "done", !.nodes = nodes, !.shown = GetLinkedToEntities(nodes)]
    /\ UNCHANGED edges
ShowOverview ==
    /\ Walked("overview")
    /\ LET nodes == walk.roots \cup GetEntitiesByIds(walk.found)
       IN  walk' = [walk EXCEPT !.pc = "done", !.nodes = nodes, !.counts = CountMemoriesPerEntity(walk.found)]
    /\ UNCHANGED edges
ScopeMatchesMemory(row) == row.org = ga.org /\ row.user = ga.user /\ ApplyScopeFilters(row, ga)
ShowSearch ==
    /\ Walked("search")
    /\ LET page == GetManyByIds(store, walk.linked, ga.org)
           kept == Those(page, {i \in DOMAIN page : ScopeMatchesMemory(store[page[i]])})
       IN  walk' = [walk EXCEPT !.pc = "done", !.shown = ToSet(PageOf(kept, ga.limit))]
    /\ UNCHANGED edges

\* One entity of the caller, and all that it is linked to in the tenant.
GetEntityMemories ==
    /\ AskedOf("memories")
    /\ LET of == {m \in ToSet(GetMemoriesForEntity(ga.source)) : store[m].org = ga.org}
       IN  CASE ga.path # ga.user             -> End("refused")
             [] GetByIdForUser(ga.source) = {} -> End("unknown")
             [] OTHER -> walk' = [walk EXCEPT !.pc = "done", !.roots = {ga.source}, !.nodes = @ \cup {ga.source}, !.shown = of]
    /\ UNCHANGED edges

\* By name, else by a part of one, else by a part of one of somebody else's in the tenant.
Explored ==
    LET own == GetByName(ga.source)
        part == {e \in Mine : ga.source \in e.parts}
    IN  IF own # {} THEN own ELSE IF part # {} THEN part ELSE FindByNameFragment(ga.source)
ExploreGraph ==
    /\ AskedOf("explore")
    /\ IF Explored = {} THEN End("unknown")
       ELSE \E e \in Explored :
              LET near == PageOf(GetNeighbors(e.id), ExploreEdges)
                  of == ToSet(PageOf(GetMemoriesForEntity(e.id), ExploreLinks))
                  tenant == {x.id : x \in {x \in world.entities : x.org = ga.org}}
              IN  walk' = [walk EXCEPT !.pc = "done", !.roots = {e.id}, !.shown = {m \in of : store[m].org = ga.org},
                                       !.edges = {Edge(x) : x \in ToSet(near)},
                                       !.nodes = (EndsOf(ToSet(near)) \ {e.id}) \cap tenant]
    /\ UNCHANGED edges

\* Meanwhile what is remembered brings relations.
Relate ==
    /\ walk.pc = "walk"
    /\ \E x \in world.coming \ edges : edges' = edges \cup {x}
    /\ UNCHANGED walk

GraphNext ==
    \/ AskTraverse \/ AskOverview \/ AskSearch
    \/ \E e \in walk.frontier : ExpandTraverse(e) \/ ExpandOverview(e) \/ ExpandSearch(e)
    \/ NextRound \/ ShowTraverse \/ ShowOverview \/ ShowSearch \/ GetEntityMemories \/ ExploreGraph \/ Relate

-----------------------------------------------------------------------------
(* properties *)

\* The entities within so many relations of some, of those that may be followed.
Along(asked, relations, e) ==
    {x \in relations : /\ e \in {x.from, x.to}
                       /\ asked.route # "overview" => asked.types = {} \/ x.type \in asked.types
                       /\ asked.route = "search" => Followed(asked, e, x)}
Around(asked, relations, ids) == ids \cup UNION {EndsOf(Along(asked, relations, e)) : e \in ids}
Reach(asked, relations, ids, hops) ==
    LET within[n \in Nat] == IF n = 0 THEN ids ELSE Around(asked, relations, within[n - 1]) IN within[hops]
Hops == IF ga.route = "traverse" THEN Least(3, AtLeast(1, ga.hops)) ELSE AtLeast(0, ga.hops)
Uncapped ==
    /\ \A e \in UNION {{x.from, x.to} : x \in edges} : Cardinality({x \in edges : e \in {x.from, x.to}}) <= NeighbourLimit
    /\ \A e \in world.entities : Cardinality({l \in world.links : l[1] = e.id}) <= LinkLimit

\* A walk finds no entity farther than it was asked to go, and every one that was as near when it
\* began, unless some entity has more relations than are read of one: with them it shows each current
\* memory of theirs that is the caller's.  It reads the relations of one entity at a time, in any
\* order, while others are committed, and one walk stops short of reading what it found last.
WalkReaches ==
    walk.pc = "done" /\ ga.route \in Walks =>
        LET reached == IF ga.route = "search" THEN walk.expanded ELSE walk.found
            near == Reach(ga, world.relations, walk.roots, Hops)
        IN  /\ reached \subseteq Reach(ga, edges, walk.roots, Hops)
            /\ Uncapped => near \subseteq reached
            /\ Uncapped /\ ga.route = "traverse" =>
                   {m \in DOMAIN store : store[m].user = ga.user /\ store[m].to = None /\ \E e \in near : <<e, m>> \in world.links
                                         /\ \E x \in Mine : x.id = e} \subseteq walk.shown

\* Whatever a walk begins from and passes through, the entities and memories that it shows are the
\* caller's: "an id arriving from a walk is not evidence of ownership" (entity_repo.py:251-252).
ShowsTheCallers ==
    walk.pc = "done" /\ ga.route # "explore" =>
        /\ walk.nodes \subseteq {e.id : e \in Mine}
        /\ \A m \in walk.shown : store[m].user = ga.user /\ store[m].org = ga.org

\* A walk tells the truth (entity_repo.py, routes/graph.py, kernel.py): it reaches what it was asked for
\* and shows only what its caller may see.
WalkTrue == WalkReaches /\ ShowsTheCallers

=============================================================================
