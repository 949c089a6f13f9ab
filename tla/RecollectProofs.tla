--------------------------- MODULE RecollectProofs ---------------------------
(***************************************************************************)
(* What Recollect promises for any store, question, scope and change: a    *)
(* caller is shown and an agent is given nothing but what the caller may   *)
(* see and what was current when it was asked for or since; a walk of the  *)
(* relations shows nothing but the caller's, goes no farther than it was   *)
(* asked to, and misses nothing that near.                                 *)
(*                                                                         *)
(* The argument is that of a candidate.  Whatever channel brings a row,    *)
(* the row passes the engine's conditions as the request holds it; what    *)
(* the request holds of a row is what the row was at some time since the   *)
(* request began; and of what decides who sees a row nothing changes but   *)
(* that it is closed or archived.                                          *)
(* That of a walk is an induction over its rounds.                         *)
(***************************************************************************)
EXTENDS Recollect, FiniteSetTheorems, SequenceTheorems, WellFoundedInduction, TLAPS

\* The fields of a request and of a walk.
ReqFields ==
    {"pc", "attempt", "i", "hop", "pass", "faults", "aborted", "scope", "asked", "q", "plan", "names", "seeds",
     "depth", "embedded", "lexical", "dense", "graph", "weights", "copies", "seen", "results", "score", "page",
     "reason", "touched", "collected", "value", "explored", "pages"}
WalkFields ==
    {"pc", "round", "roots", "found", "expanded", "frontier", "next", "edges", "nodes", "linked", "counts", "shown"}

\* What is read of a row, now or since the request began, of what is in the store.
Lasting == ScopeFields \cup {"org", "user", "context"}
Since(m, row) ==
    /\ \A f \in Lasting : row[f] = store[m][f]
    /\ m \in DOMAIN world.rows =>
        (row.to = None => world.rows[m].to = None) /\ (world.rows[m].archived => row.archived)
StoreInv ==
    /\ world \in Worlds
    /\ DOMAIN world.rows \subseteq DOMAIN store
    /\ \A m \in DOMAIN store : Columns \subseteq DOMAIN store[m] /\ Since(m, store[m])
    /\ world.kind = "graph" => req.pc = "ask" /\ store = world.rows

\* A row that may be shown.
Admissible(m) ==
    /\ m \in DOMAIN store /\ store[m].user = req.scope.user /\ store[m].org = req.scope.org
    /\ m \in DOMAIN world.rows => world.rows[m].to = None /\ (world.rows[m].archived => world.asked.archived)
    /\ ApplyScopeFilters(store[m], req.scope)
    /\ Scoped => MemoryInScope(store[m], req.scope)

\* A request that is under way, and all that it might show.
Working == req.pc \notin {"ask", "refused", "done"}
Candidates == Held \cup ToSet(req.results) \cup DOMAIN req.score \cup ToSet(req.page)
RequestInv ==
    /\ DOMAIN req = ReqFields
    /\ req.pc = "ask" => req = Waiting
    /\ \A m \in DOMAIN req.copies : m \in DOMAIN store /\ Since(m, req.copies[m])
    /\ \A m \in Candidates : Admissible(m)
    /\ req.pages \in Seq(SUBSET {m \in DOMAIN store : Admissible(m)})
    /\ Working => "archived" \in DOMAIN req.asked /\ req.asked.archived = world.asked.archived
    /\ req.i \in Nat /\ DOMAIN req.results \subseteq Nat
    /\ IsFiniteSet(req.plan.evidence) /\ IsFiniteSet(req.plan.entities) /\ IsFiniteSet(req.names)
    /\ Working => "names" \in DOMAIN req.q /\ IsFiniteSet(req.q.names) /\ IsFiniteSet(req.q.capitals)
    /\ world.kind = "focus" /\ req.pc \notin {"ask", "refused"} =>
        req.scope.user = world.asked.user /\ req.scope.org = world.asked.org

\* What a context is built from.
Given3 == {"focus", "truths", "prompt"}
CardTrue(c) ==
    /\ c.id \in DOMAIN store /\ store[c.id].user = world.asked.user /\ store[c.id].org = world.asked.org
    /\ c.id \in DOMAIN world.rows =>
        (~c.closed => world.rows[c.id].to = None) /\ (~c.archived => ~world.rows[c.id].archived)
ContextInv ==
    world.kind \in Given3 =>
        \A i \in DOMAIN values :
            CardTrue(values[i]) /\ (stage \notin {"none", "asked"} => ~values[i].closed /\ ~values[i].archived)

\* A walk goes from what is the caller's, but for a search.
WalkInv ==
    /\ DOMAIN walk = WalkFields
    /\ walk.pc # "ask" => world.kind = "graph"
    /\ world.kind = "graph" /\ ga.route \in {"traverse", "overview"} => walk.roots \subseteq {e.id : e \in Mine}
    /\ world.kind = "graph" /\ ga.route # "explore" =>
        /\ walk.nodes \subseteq {e.id : e \in Mine}
        /\ \A m \in walk.shown : store[m].user = ga.user /\ store[m].org = ga.org

RecollectInv == StoreInv /\ RequestInv /\ ContextInv /\ WalkInv

\* Where a walk of relations is: its rounds are as many relations around what it begins from, of those
\* that are committed by now and, where no entity has more than are read, of those that were at first.
Outer(k) == Reach(ga, edges, walk.roots, k)
Inner(k) == Reach(ga, world.relations, walk.roots, k)
Full == \A e : Cardinality({x \in edges : e \in {x.from, x.to}}) <= NeighbourLimit
Visited == walk.frontier \cup walk.expanded
NoFarther ==
    /\ walk.round \in Nat \ {0} /\ walk.round <= AtLeast(1, Rounds)
    /\ Visited \subseteq Outer(walk.round - 1) /\ walk.found \subseteq Outer(walk.round)
    /\ Rounds = 0 => walk.frontier = {} /\ walk.found \subseteq walk.roots
NoneMissed ==
    /\ walk.roots \cup Visited \cup walk.next \subseteq walk.found
    /\ Rounds # 0 => walk.found \subseteq Visited \cup walk.next
    /\ Full /\ Rounds # 0 => Inner(walk.round - 1) \subseteq Visited
    /\ Full /\ (ga.route = "search" => walk.round < Rounds) =>
          \A e \in walk.expanded : EndsOf(Along(ga, world.relations, e)) \subseteq walk.found
AtItsEnd ==
    /\ walk.frontier = {} /\ (walk.next \subseteq walk.expanded \/ walk.round >= Rounds)
    /\ ga.route = "traverse" =>
          \A m \in DOMAIN store, e \in Mine :
             /\ store[m].user = ga.user /\ store[m].org = ga.org /\ store[m].to = None
             /\ e.id \in walk.found /\ <<e.id, m>> \in world.links
             => m \in walk.shown
ReachInv ==
    /\ walk.pc = "ask" => walk = Resting
    /\ world.relations \subseteq edges /\ edges \subseteq world.relations \cup world.coming
    /\ walk.pc \in {"walk", "done"} /\ ga.route \in Walks => NoFarther /\ NoneMissed
    /\ walk.pc = "done" /\ ga.route \in Walks => AtItsEnd

-----------------------------------------------------------------------------
(* pages *)

LEMMA RankedAre ==
    ASSUME NEW S, NEW before, NEW i \in DOMAIN InRank(S, before)
    PROVE  InRank(S, before)[i] \in S
  <1> DEFINE next(y) == Cardinality(before[y]) = i - 1
  <1>1. i \in 1 .. Cardinality(S) /\ InRank(S, before)[i] = CHOOSE x \in S : next(x) \/ \A y \in S : ~next(y)
    BY DEF InRank
  <1>2. S # {}
    BY <1>1, FS_EmptySet
  <1>3. \E x \in S : next(x) \/ \A y \in S : ~next(y)
    BY <1>2
  <1> HIDE DEF next
  <1> QED BY <1>1, <1>3

LEMMA ThoseAre ==
    ASSUME NEW seq, NEW places, NEW i \in DOMAIN Those(seq, places)
    PROVE  \E j \in places : Those(seq, places)[i] = seq[j]
  <1> DEFINE before == [j \in places |-> {k \in places : k < j}]
             order == InRank(places, before)
  <1>1. i \in 1 .. Cardinality(places) /\ Those(seq, places)[i] = seq[order[i]]
    BY DEF Those
  <1>2. DOMAIN order = 1 .. Cardinality(places)
    BY DEF InRank
  <1>3. order[i] \in places
    BY <1>1, <1>2, RankedAre
  <1> QED BY <1>1, <1>3

LEMMA PageIs ==
    ASSUME NEW seq, NEW n
    PROVE  ToSet(PageOf(seq, n)) \subseteq ToSet(seq)
  BY DEF ToSet, PageOf

LEMMA PlacesAre ==
    /\ \A S, before : DOMAIN InRank(S, before) \subseteq Nat
    /\ \A seq, places : DOMAIN Those(seq, places) \subseteq Nat
  BY DEF InRank, Those

LEMMA RankedIn ==
    \A S, before : ToSet(InRank(S, before)) \subseteq S
  BY RankedAre DEF ToSet

LEMMA ThoseIn ==
    ASSUME NEW seq, NEW places, places \subseteq DOMAIN seq, NEW x \in ToSet(Those(seq, places))
    PROVE  x \in ToSet(seq) /\ \E j \in places : x = seq[j]
  BY ThoseAre DEF ToSet

-----------------------------------------------------------------------------
(* every statement reads rows of the store *)

LEMMA LexicalReads ==
    ASSUME NEW terms, NEW filters, NEW limit
    PROVE  ToSet(GetByLexicalSimilarity(store, terms, filters, limit)) \subseteq DOMAIN store
  <1>1. \A S : S \subseteq Selected(store, filters) => S \subseteq DOMAIN store
    BY DEF Selected, ScopeSelect
  <1> QED BY <1>1, RankedIn, PageIs DEF GetByLexicalSimilarity, Sorted

LEMMA VectorReads ==
    ASSUME NEW meaning, NEW profile, NEW filters, NEW limit
    PROVE  ToSet(GetByVectorSimilarity(store, meaning, profile, filters, limit)) \subseteq DOMAIN store
  <1>1. \A S : S \subseteq Selected(store, filters) => S \subseteq DOMAIN store
    BY DEF Selected, ScopeSelect
  <1> QED BY <1>1, RankedIn, PageIs DEF GetByVectorSimilarity, Sorted

LEMMA UserReads ==
    ASSUME NEW filters, NEW limit
    PROVE  ToSet(GetByUser(store, filters, limit)) \subseteq DOMAIN store
  <1>1. ScopeSelect(store, filters.org) \subseteq DOMAIN store
    BY DEF ScopeSelect
  <1> QED BY <1>1, RankedIn, PageIs DEF GetByUser, Newest, Sorted

LEMMA IdsRead ==
    ASSUME NEW ids, NEW org
    PROVE  ToSet(GetManyByIds(store, ids, org)) \subseteq DOMAIN store \cap ids
  BY RankedIn DEF GetManyByIds, ScopeSelect, Sorted

-----------------------------------------------------------------------------
(* what passes the conditions of the engine *)

LEMMA SeenSince ==
    ASSUME StoreInv, RequestInv, NEW m \in DOMAIN store
    PROVE  Since(m, Seen(m))
  BY DEF StoreInv, RequestInv, Seen

LEMMA VisibleAre ==
    ASSUME NEW page, ToSet(page) \subseteq DOMAIN store, NEW m \in ToSet(Visible(page))
    PROVE  m \in ToSet(page) /\ (Scoped => MemoryInScope(Seen(m), req.scope))
  <1>1. CASE Scoped
    <2> DEFINE rows == [x \in DOMAIN store |-> Seen(x)]
               places == {i \in DOMAIN page : MemoryInScope(rows[page[i]], req.scope)}
    <2>1. m \in ToSet(Those(page, places))
      BY <1>1 DEF Visible, ScopedMemories
    <2>2. m \in ToSet(page) /\ \E j \in places : m = page[j]
      BY <2>1, ThoseIn
    <2> QED BY <1>1, <2>2
  <1>2. CASE ~Scoped
    BY <1>2 DEF Visible
  <1> QED BY <1>1, <1>2

LEMMA IncludedAre ==
    ASSUME NEW page, NEW m \in ToSet(Included(page))
    PROVE  m \in ToSet(page) /\ IncludeMemory(req.asked, Seen(m))
  <1> DEFINE places == {i \in DOMAIN page : IncludeMemory(req.asked, Seen(page[i]))}
  <1>1. m \in ToSet(page) /\ \E j \in places : m = page[j]
    BY ThoseIn DEF Included
  <1> QED BY <1>1

\* What the request was told of the row when it read it is what decides.
LEMMA FoundAdmissible ==
    ASSUME StoreInv, RequestInv, Working, NEW m \in DOMAIN store,
           IncludeMemory(req.asked, Seen(m)), Scoped => MemoryInScope(Seen(m), req.scope)
    PROVE  Admissible(m)
  <1> DEFINE row == Seen(m)
  <1>1. Since(m, row)
    BY SeenSince
  <1>2. req.asked.archived = world.asked.archived
    BY DEF RequestInv
  <1> HIDE DEF row
  <1>3. IncludeMemory(req.asked, row) /\ (Scoped => MemoryInScope(row, req.scope))
    BY DEF row
  <1>4. store[m].user = req.scope.user /\ store[m].org = req.scope.org
    BY <1>1, <1>3 DEF Since, IncludeMemory, Lasting
  <1>5. m \in DOMAIN world.rows => world.rows[m].to = None /\ (world.rows[m].archived => world.asked.archived)
    BY <1>1, <1>2, <1>3 DEF Since, IncludeMemory
  <1>6. Scoped => MemoryInScope(store[m], req.scope)
    BY <1>1, <1>3 DEF Since, MemoryInScope, MemoryScopeMatches, Lasting, ScopeFields
  <1>7. ApplyScopeFilters(store[m], req.scope)
    <2>1. CASE world.kind = "investigate"
      BY <1>6, <2>1 DEF Scoped, MemoryInScope, MemoryScopeMatches, ApplyScopeFilters
    <2>2. CASE world.kind # "investigate"
      BY <1>1, <1>3, <2>2 DEF IncludeMemory, QueryScope, ApplyScopeFilters, Since, Lasting
    <2> QED BY <2>1, <2>2
  <1> QED BY <1>4, <1>5, <1>6, <1>7 DEF Admissible

LEMMA PageAdmissible ==
    ASSUME StoreInv, RequestInv, Working, NEW page, ToSet(page) \subseteq DOMAIN store,
           NEW m \in ToSet(Included(Visible(page)))
    PROVE  Admissible(m)
  BY IncludedAre, VisibleAre, FoundAdmissible

-----------------------------------------------------------------------------
(* a step of the engine *)

\* What a request may become in a step: it is told of rows and shows some, and is about the same.
About == {"scope", "asked", "q", "plan", "names", "i", "pages"}
Shows(of) ==
    ToSet(of.lexical) \cup ToSet(of.dense) \cup ToSet(of.graph) \cup of.collected \cup
    ToSet(of.results) \cup DOMAIN of.score \cup ToSet(of.page)
Fits(of) ==
    /\ DOMAIN of = ReqFields /\ of.pc # "ask" /\ DOMAIN of.results \subseteq Nat
    /\ \A f \in About : of[f] = req[f]
    /\ \A m \in DOMAIN of.copies : m \in DOMAIN store /\ Since(m, of.copies[m])
    /\ \A m \in Shows(of) : Admissible(m)

LEMMA CopiesTrue ==
    ASSUME StoreInv, RequestInv, NEW ids, ids \subseteq DOMAIN store
    PROVE  \A m \in DOMAIN Copies(ids) : m \in DOMAIN store /\ Since(m, Copies(ids)[m])
  <1> SUFFICES ASSUME NEW m \in DOMAIN Copies(ids)
               PROVE  m \in DOMAIN store /\ Since(m, Copies(ids)[m])
    OBVIOUS
  <1>1. m \in DOMAIN store /\ Copies(ids)[m] = Seen(m)
    BY DEF Copies, RequestInv
  <1> QED BY <1>1, SeenSince

LEMMA FitsKeeps ==
    ASSUME StoreInv, RequestInv, Working, UNCHANGED <<world, store>>, Fits(req')
    PROVE  StoreInv' /\ RequestInv'
  <1>1. StoreInv'
    BY DEF StoreInv, Since, Working
  <1>2. \A m : Admissible(m)' <=> Admissible(m)
    BY DEF Fits, About, Admissible, Scoped
  <1>3. (\A m \in DOMAIN req.copies : m \in DOMAIN store /\ Since(m, req.copies[m]))'
    BY DEF Fits, Since
  <1>4. \A m \in Candidates' : Admissible(m)'
    BY <1>2 DEF Fits, Candidates, Held, Shows
  <1>5. req'.pages \in Seq(SUBSET {m \in DOMAIN store' : Admissible(m)'})
    <2>1. {m \in DOMAIN store' : Admissible(m)'} = {m \in DOMAIN store : Admissible(m)}
      BY <1>2
    <2>2. req'.pages = req.pages
      BY DEF Fits, About
    <2> QED BY <2>1, <2>2 DEF RequestInv
  <1>6. /\ req'.scope = req.scope /\ req'.asked = req.asked /\ req'.q = req.q /\ req'.plan = req.plan
        /\ req'.names = req.names /\ req'.i = req.i /\ req'.pc # "ask" /\ DOMAIN req' = ReqFields
        /\ DOMAIN req'.results \subseteq Nat
    BY DEF Fits, About
  <1> QED BY <1>1, <1>3, <1>4, <1>5, <1>6 DEF RequestInv, Working

\* A statement that fails is noted, and nothing else.
LEMMA FailedFits ==
    ASSUME StoreInv, RequestInv, Working, NEW fault
    PROVE  /\ Fits(Failed(fault))
           /\ \A f \in ReqFields \ {"aborted", "faults"} : Failed(fault)[f] = req[f]
  <1> DEFINE new == Failed(fault)
  <1>1. DOMAIN new = ReqFields /\ \A f \in ReqFields \ {"aborted", "faults"} : new[f] = req[f]
    BY DEF Failed, RequestInv
  <1> HIDE DEF new
  <1>2. /\ new.pc = req.pc /\ new.copies = req.copies /\ new.lexical = req.lexical /\ new.dense = req.dense /\ new.graph = req.graph
        /\ new.collected = req.collected /\ new.results = req.results /\ new.score = req.score /\ new.page = req.page
        /\ \A f \in About : new[f] = req[f]
    BY <1>1 DEF ReqFields, About
  <1>3. Shows(new) = Candidates
    BY <1>2 DEF Shows, Candidates, Held
  <1>4. Fits(new)
    BY <1>1, <1>2, <1>3 DEF Fits, RequestInv, Working
  <1> QED BY <1>1, <1>4 DEF new

LEMMA ReqFits ==
    ASSUME StoreInv, RequestInv, Working PROVE Fits(req)
  <1>1. Shows(req) = Candidates
    BY DEF Shows, Candidates, Held
  <1> QED BY <1>1 DEF Fits, RequestInv, Working

\* What a statement brings and the engine lets in.
LEMMA LetIn ==
    ASSUME StoreInv, RequestInv, Working, NEW page, ToSet(page) \subseteq DOMAIN store,
           NEW S, S \subseteq ToSet(Included(Visible(page)))
    PROVE  /\ \A m \in S : Admissible(m)
           /\ \A m \in DOMAIN Copies(S) : m \in DOMAIN store /\ Since(m, Copies(S)[m])
  <1>1. \A m \in S : Admissible(m)
    BY PageAdmissible
  <1>2. S \subseteq DOMAIN store
    BY <1>1 DEF Admissible
  <1> QED BY <1>1, <1>2, CopiesTrue

LEMMA NoneShown == ToSet(<<>>) = {}
  BY DEF ToSet

LEMMA LexicalFits ==
    ASSUME StoreInv, RequestInv, Lexical PROVE Fits(req')
  <1>0. Working
    BY DEF Lexical, Working
  <1>1. PICK fault \in Faults :
            LET page == GetByLexicalSimilarity(store, ExpandedLexicalQuery(req.q), Attempted, Limit)
                visible == Visible(page)
            IN  req' = IF Fails(fault, page) THEN Retry(Failed(fault), "lexicalUser")
                       ELSE IF Included(visible) = <<>>
                            THEN [req EXCEPT !.pc = "lexicalUser", !.attempt = 1, !.seen = @ \cup ToSet(visible)]
                            ELSE [req EXCEPT !.pc = "seeds", !.attempt = 1, !.seen = @ \cup ToSet(visible),
                                             !.lexical = PageOf(Included(visible), Limit), !.copies = Copies(ToSet(Included(visible)))]
    BY DEF Lexical
  <1> DEFINE page == GetByLexicalSimilarity(store, ExpandedLexicalQuery(req.q), Attempted, Limit)
             shown == Included(Visible(page))
             read == PageOf(shown, Limit)
             copies == Copies(ToSet(shown))
  <1>2. ToSet(page) \subseteq DOMAIN store
    BY LexicalReads
  <1>3. \A m \in ToSet(shown) : Admissible(m)
    BY <1>0, <1>2, LetIn
  <1>4. \A m \in ToSet(read) : Admissible(m)
    BY <1>3, PageIs
  <1>5. \A m \in DOMAIN copies : m \in DOMAIN store /\ Since(m, copies[m])
    BY <1>0, <1>2, LetIn
  <1> HIDE DEF shown, page, read, copies
  <1>6. CASE req' = Retry(Failed(fault), "lexicalUser")
    BY <1>0, <1>6, FailedFits DEF Retry, Fits, Shows, ReqFields, About
  <1>7. CASE \E s : req' = [req EXCEPT !.pc = "lexicalUser", !.attempt = 1, !.seen = s]
    BY <1>0, <1>7, ReqFits DEF Fits, Shows, ReqFields, About
  <1>8. CASE \E s : req' = [req EXCEPT !.pc = "seeds", !.attempt = 1, !.seen = s, !.lexical = read, !.copies = copies]
    BY <1>0, <1>4, <1>5, <1>8, ReqFits DEF Fits, Shows, ReqFields, About
  <1> QED BY <1>1, <1>6, <1>7, <1>8 DEF page, shown, read, copies

LEMMA LexicalUserFits ==
    ASSUME StoreInv, RequestInv, LexicalUser PROVE Fits(req')
  <1>0. Working
    BY DEF LexicalUser, Working
  <1> DEFINE page == FallbackMemories
             kept == ToSet(Included(Visible(page)))
             merit == [m \in {m \in kept : KeywordScore(Seen(m), req.q.terms) > 0} |-> KeywordScore(Seen(m), req.q.terms)]
             ranked == OrderedBy(merit)
             read == PageOf(ranked, Limit)
             copies == Copies(ToSet(ranked))
  <1>1. PICK fault \in Faults :
            req' = IF Fails(fault, page) THEN [Failed(fault) EXCEPT !.pc = "seeds"]
                   ELSE [req EXCEPT !.pc = "seeds", !.seen = @ \cup ToSet(Visible(page)),
                                    !.lexical = read, !.copies = copies]
    BY DEF LexicalUser
  <1>2. ToSet(page) \subseteq DOMAIN store
    BY UserReads DEF FallbackMemories
  <1>3. ToSet(ranked) \subseteq kept
    <2>1. ToSet(ranked) \subseteq DOMAIN merit
      BY RankedIn DEF OrderedBy, Sorted
    <2> QED BY <2>1
  <1>4. /\ \A m \in ToSet(ranked) : Admissible(m)
        /\ \A m \in DOMAIN copies : m \in DOMAIN store /\ Since(m, copies[m])
    BY <1>0, <1>2, <1>3, LetIn
  <1>5. \A m \in ToSet(read) : Admissible(m)
    BY <1>4, PageIs
  <1> HIDE DEF page, kept, merit, ranked, read, copies
  <1>6. CASE req' = [Failed(fault) EXCEPT !.pc = "seeds"]
    BY <1>0, <1>6, FailedFits DEF Fits, Shows, ReqFields, About
  <1>7. CASE \E s : req' = [req EXCEPT !.pc = "seeds", !.seen = s, !.lexical = read, !.copies = copies]
    BY <1>0, <1>4, <1>5, <1>7, ReqFits DEF Fits, Shows, ReqFields, About
  <1> QED BY <1>1, <1>6, <1>7

\* The walks bring weights, and no row.
LEMMA WeightsFit ==
    ASSUME StoreInv, RequestInv, Seeds \/ Anchors PROVE Fits(req')
  <1>0. Working
    BY DEF Seeds, Anchors, Working
  <1>1. CASE Seeds
    <2>1. PICK fault, weights : req' = [Failed(fault) EXCEPT !.pc = "anchors", !.weights = weights, !.graph = <<>>]
      BY <1>1 DEF Seeds
    <2> QED BY <1>0, <2>1, FailedFits, NoneShown DEF Fits, Shows, ReqFields, About
  <1>2. CASE Anchors
    <2>1. PICK fault, weights : req' = [Failed(fault) EXCEPT !.pc = "hydrate", !.weights = weights]
      BY <1>2 DEF Anchors
    <2> QED BY <1>0, <2>1, FailedFits DEF Fits, Shows, ReqFields, About
  <1> QED BY <1>1, <1>2

LEMMA HydrateFits ==
    ASSUME StoreInv, RequestInv, Hydrate PROVE Fits(req')
  <1>0. Working
    BY DEF Hydrate, Working
  <1> DEFINE page == GetManyByIds(store, Missing, req.scope.org)
             shown == Included(Visible(page))
             Fetched(fault) == IF Fails(fault, page) THEN <<>> ELSE shown
  <1>1. PICK fault \in Faults :
            req' = IF Missing = {} THEN [req EXCEPT !.pc = "widen"]
                   ELSE [Failed(fault) EXCEPT
                           !.pc = IF Missing \subseteq ToSet(Fetched(fault)) THEN "widen" ELSE "hydrateUser",
                           !.graph = Fetched(fault), !.copies = Copies(ToSet(Fetched(fault))),
                           !.seen = @ \cup (IF Fails(fault, page) THEN {} ELSE ToSet(Visible(page)))]
    BY DEF Hydrate
  <1> DEFINE fetched == Fetched(fault)
             copies == Copies(ToSet(fetched))
  <1>2. ToSet(page) \subseteq DOMAIN store
    BY IdsRead
  <1>3. ToSet(fetched) \subseteq ToSet(shown)
    BY NoneShown
  <1>4. /\ \A m \in ToSet(fetched) : Admissible(m)
        /\ \A m \in DOMAIN copies : m \in DOMAIN store /\ Since(m, copies[m])
    BY <1>0, <1>2, <1>3, LetIn
  <1>5. \/ req' = [req EXCEPT !.pc = "widen"]
        \/ \E s : req' = [Failed(fault) EXCEPT !.pc = "widen", !.graph = fetched, !.copies = copies, !.seen = s]
        \/ \E s : req' = [Failed(fault) EXCEPT !.pc = "hydrateUser", !.graph = fetched, !.copies = copies, !.seen = s]
    BY <1>1
  <1> HIDE DEF page, shown, fetched, copies, Fetched
  <1>6. CASE req' = [req EXCEPT !.pc = "widen"]
    BY <1>0, <1>6, ReqFits DEF Fits, Shows, ReqFields, About
  <1>7. ASSUME NEW pc \in {"widen", "hydrateUser"}, NEW s,
               req' = [Failed(fault) EXCEPT !.pc = pc, !.graph = fetched, !.copies = copies, !.seen = s]
        PROVE  Fits(req')
    BY <1>0, <1>4, <1>7, FailedFits DEF Fits, Shows, ReqFields, About
  <1> QED BY <1>5, <1>6, <1>7

LEMMA HydrateUserFits ==
    ASSUME StoreInv, RequestInv, HydrateUser PROVE Fits(req')
  <1>0. Working
    BY DEF HydrateUser, Working
  <1> DEFINE page == FallbackMemories
             found == (Missing \ ToSet(req.graph)) \cap ToSet(Included(Visible(page)))
             graph == Sorted(ToSet(req.graph) \cup found, <)
             copies == Copies(found)
  <1>1. PICK fault \in Faults :
            req' = IF Fails(fault, page) THEN [Failed(fault) EXCEPT !.pc = "widen"]
                   ELSE [req EXCEPT !.pc = "widen", !.graph = graph, !.copies = copies,
                                    !.seen = @ \cup ToSet(Visible(page))]
    BY DEF HydrateUser
  <1>2. ToSet(page) \subseteq DOMAIN store
    BY UserReads DEF FallbackMemories
  <1>3. /\ \A m \in found : Admissible(m)
        /\ \A m \in DOMAIN copies : m \in DOMAIN store /\ Since(m, copies[m])
    BY <1>0, <1>2, LetIn
  <1>4. \A m \in ToSet(graph) : Admissible(m)
    <2>1. ToSet(graph) \subseteq ToSet(req.graph) \cup found
      BY RankedIn DEF Sorted
    <2> QED BY <1>3, <2>1 DEF RequestInv, Candidates, Held
  <1> HIDE DEF page, found, graph, copies
  <1>6. CASE req' = [Failed(fault) EXCEPT !.pc = "widen"]
    BY <1>0, <1>6, FailedFits DEF Fits, Shows, ReqFields, About
  <1>7. CASE \E s : req' = [req EXCEPT !.pc = "widen", !.graph = graph, !.copies = copies, !.seen = s]
    BY <1>0, <1>3, <1>4, <1>7, ReqFits DEF Fits, Shows, ReqFields, About
  <1> QED BY <1>1, <1>6, <1>7

LEMMA WidenFits ==
    ASSUME StoreInv, RequestInv, Widen PROVE Fits(req')
  <1>0. Working
    BY DEF Widen, Working
  <1> DEFINE graph == GraphCandidates
  <1>1. req' = [req EXCEPT !.pc = "fuse", !.graph = graph]
    BY DEF Widen
  <1>2. ToSet(graph) \subseteq Candidates
    BY RankedIn DEF GraphCandidates, ByScore, Sorted, Candidates, Held
  <1>3. \A m \in ToSet(graph) : Admissible(m)
    BY <1>2 DEF RequestInv
  <1> HIDE DEF graph
  <1> QED BY <1>0, <1>1, <1>3, ReqFits DEF Fits, Shows, ReqFields, About

LEMMA FuseFits ==
    ASSUME StoreInv, RequestInv, Fuse PROVE Fits(req')
  <1>0. Working
    BY DEF Fuse, Working
  <1> DEFINE score == FuseAndScore
             results == ByScore(DOMAIN score, score)
             Reason == IF req.pass = 2 THEN req.reason
                       ELSE AssessPrimarySufficiency(Rows, results, score, req.plan, req.names)
             pc == IF req.pass = 2 \/ Sufficient(Reason) THEN "finish" ELSE IF req.embedded THEN "dense" ELSE "denseUser"
  <1>1. req' = [req EXCEPT !.score = score, !.results = results, !.reason = Reason, !.pc = pc]
    BY DEF Fuse
  <1>2. DOMAIN score \subseteq Candidates
    BY DEF FuseAndScore, Channels, Candidates, Held
  <1>3. ToSet(results) \subseteq DOMAIN score
    BY RankedIn DEF ByScore, Sorted
  <1>4. \A m \in ToSet(results) \cup DOMAIN score : Admissible(m)
    BY <1>2, <1>3 DEF RequestInv
  <1>5. pc # "ask" /\ DOMAIN results \subseteq Nat
    BY PlacesAre DEF ByScore, Sorted
  <1> HIDE DEF score, results, Reason, pc
  <1> QED BY <1>0, <1>1, <1>4, <1>5, ReqFits DEF Fits, Shows, ReqFields, About

LEMMA DenseFits ==
    ASSUME StoreInv, RequestInv, Dense PROVE Fits(req')
  <1>0. Working
    BY DEF Dense, Working
  <1> DEFINE page == GetByVectorSimilarity(store, req.q.meaning, world.profile, Attempted, Limit)
             shown == Included(Visible(page))
             read == PageOf(shown, Limit)
             copies == Copies(ToSet(shown))
  <1>1. PICK fault \in Faults :
            req' = IF Fails(fault, page) THEN Retry(Failed(fault), "denseUser")
                   ELSE IF shown = <<>>
                        THEN [req EXCEPT !.pc = "denseUser", !.seen = @ \cup ToSet(Visible(page))]
                        ELSE [SecondPass(req) EXCEPT !.seen = @ \cup ToSet(Visible(page)), !.dense = read, !.copies = copies]
    BY DEF Dense
  <1>2. ToSet(page) \subseteq DOMAIN store
    BY VectorReads
  <1>3. /\ \A m \in ToSet(shown) : Admissible(m)
        /\ \A m \in DOMAIN copies : m \in DOMAIN store /\ Since(m, copies[m])
    BY <1>0, <1>2, LetIn
  <1>4. \A m \in ToSet(read) : Admissible(m)
    BY <1>3, PageIs
  <1>5. \/ req' = Retry(Failed(fault), "denseUser")
        \/ \E s : req' = [req EXCEPT !.pc = "denseUser", !.seen = s]
        \/ \E s : req' = [SecondPass(req) EXCEPT !.seen = s, !.dense = read, !.copies = copies]
    BY <1>1
  <1> HIDE DEF page, shown, read, copies
  <1>6. CASE req' = Retry(Failed(fault), "denseUser")
    BY <1>0, <1>6, FailedFits DEF Retry, Fits, Shows, ReqFields, About
  <1>7. CASE \E s : req' = [req EXCEPT !.pc = "denseUser", !.seen = s]
    BY <1>0, <1>7, ReqFits DEF Fits, Shows, ReqFields, About
  <1>8. CASE \E s : req' = [SecondPass(req) EXCEPT !.seen = s, !.dense = read, !.copies = copies]
    BY <1>0, <1>3, <1>4, <1>8, ReqFits DEF SecondPass, Fits, Shows, ReqFields, About
  <1> QED BY <1>5, <1>6, <1>7, <1>8

LEMMA DenseUserFits ==
    ASSUME StoreInv, RequestInv, DenseUser PROVE Fits(req')
  <1>0. Working
    BY DEF DenseUser, Working
  <1> DEFINE page == FallbackMemories
             kept == {m \in ToSet(Included(Visible(page))) : Seen(m).vectors # {} /\ Cosine(Seen(m).meaning, req.q.meaning) > 0}
             merit == [m \in kept |-> Cosine(Seen(m).meaning, req.q.meaning)]
             ranked == IF req.embedded THEN OrderedBy(merit) ELSE <<>>
             read == PageOf(ranked, Limit)
             copies == Copies(ToSet(ranked))
  <1>1. PICK fault \in Faults :
            req' = IF Fails(fault, page) THEN SecondPass(Failed(fault))
                   ELSE [SecondPass(req) EXCEPT !.seen = @ \cup ToSet(Visible(page)), !.dense = read, !.copies = copies]
    BY DEF DenseUser
  <1>2. ToSet(page) \subseteq DOMAIN store
    BY UserReads DEF FallbackMemories
  <1>3. ToSet(ranked) \subseteq ToSet(Included(Visible(page)))
    <2>1. ToSet(OrderedBy(merit)) \subseteq DOMAIN merit
      BY RankedIn DEF OrderedBy, Sorted
    <2>2. ToSet(OrderedBy(merit)) \subseteq kept
      BY <2>1
    <2> QED BY <2>2, NoneShown
  <1>4. /\ \A m \in ToSet(ranked) : Admissible(m)
        /\ \A m \in DOMAIN copies : m \in DOMAIN store /\ Since(m, copies[m])
    BY <1>0, <1>2, <1>3, LetIn
  <1>5. \A m \in ToSet(read) : Admissible(m)
    BY <1>4, PageIs
  <1>6. \/ req' = SecondPass(Failed(fault))
        \/ \E s : req' = [SecondPass(req) EXCEPT !.seen = s, !.dense = read, !.copies = copies]
    BY <1>1
  <1> HIDE DEF page, kept, merit, ranked, read, copies
  <1>7. CASE req' = SecondPass(Failed(fault))
    BY <1>0, <1>7, FailedFits DEF SecondPass, Fits, Shows, ReqFields, About
  <1>8. CASE \E s : req' = [SecondPass(req) EXCEPT !.seen = s, !.dense = read, !.copies = copies]
    BY <1>0, <1>4, <1>5, <1>8, ReqFits DEF SecondPass, Fits, Shows, ReqFields, About
  <1> QED BY <1>6, <1>7, <1>8

LEMMA EndFits ==
    ASSUME StoreInv, RequestInv, TouchAccessed \/ Commit PROVE Fits(req')
  <1>0. Working
    BY DEF TouchAccessed, Commit, Working
  <1>1. CASE TouchAccessed
    <2>1. PICK fault : \E t : req' = [Failed(fault) EXCEPT !.pc = "next", !.touched = t]
      BY <1>1 DEF TouchAccessed
    <2> QED BY <1>0, <2>1, FailedFits DEF Fits, Shows, ReqFields, About
  <1>2. CASE Commit
    <2>1. \E t : req' = [req EXCEPT !.pc = "done", !.touched = t]
      BY <1>2 DEF Commit
    <2> QED BY <1>0, <2>1, ReqFits DEF Fits, Shows, ReqFields, About
  <1> QED BY <1>1, <1>2

-----------------------------------------------------------------------------
(* folds over a finite set: what one step stays within, the whole does *)

LEMMA LeastIn ==
    ASSUME NEW S, S \subseteq Nat, S # {}
    PROVE  \E m \in S : \A n \in S : m <= n
  <1> DEFINE below == {p \in Nat \X Nat : p[1] < p[2]}
  <1>1. IsWellFoundedOn(below, Nat)
    BY NatLessThanWellFounded DEF OpToRel
  <1>2. PICK m \in S : \A n \in S : <<n, m>> \notin below
    <2> HIDE DEF below
    <2> QED BY <1>1, WFMin
  <1>3. ASSUME NEW n \in S PROVE m <= n
    <2>1. m \in Nat /\ n \in Nat /\ ~(n < m)
      BY <1>2
    <2> QED BY <2>1
  <1> QED BY <1>3

\* The element that a fold takes next.
Taken(s) == CHOOSE x \in s : TRUE

LEMMA Smaller ==
    ASSUME NEW S, IsFiniteSet(S), S # {}
    PROVE  /\ Taken(S) \in S /\ IsFiniteSet(S \ {Taken(S)})
           /\ Cardinality(S) \in Nat /\ Cardinality(S \ {Taken(S)}) \in Nat
           /\ Cardinality(S \ {Taken(S)}) < Cardinality(S)
  <1>1. Taken(S) \in S
    BY DEF Taken
  <1>2. /\ IsFiniteSet(S \ {Taken(S)}) /\ Cardinality(S \ {Taken(S)}) = Cardinality(S) - 1
    BY <1>1, FS_RemoveElement
  <1>3. Cardinality(S) \in Nat /\ Cardinality(S \ {Taken(S)}) \in Nat
    BY <1>2, FS_CardinalityType
  <1> QED BY <1>1, <1>2, <1>3

LEMMA FoldedIn ==
    ASSUME NEW S, IsFiniteSet(S), NEW States, NEW f, f[{}] \in States,
           \A s \in SUBSET S : s # {} /\ f[s \ {Taken(s)}] \in States => f[s] \in States
    PROVE  f[S] \in States
  <1> DEFINE Bad == {s \in SUBSET S : f[s] \notin States}
             sizes == {Cardinality(s) : s \in Bad}
  <1> SUFFICES ASSUME Bad # {} PROVE FALSE
    OBVIOUS
  <1>1. \A s \in Bad : IsFiniteSet(s) /\ Cardinality(s) \in Nat
    BY FS_Subset, FS_CardinalityType
  <1>2. PICK n \in sizes : \A k \in sizes : n <= k
    <2>1. sizes \subseteq Nat /\ sizes # {}
      BY <1>1
    <2> HIDE DEF sizes
    <2> QED BY <2>1, LeastIn
  <1>3. PICK s \in Bad : n = Cardinality(s)
    BY <1>2
  <1>4. s # {} /\ IsFiniteSet(s)
    BY <1>1
  <1>5. s \ {Taken(s)} \in Bad
    BY <1>4
  <1>6. n <= Cardinality(s \ {Taken(s)})
    BY <1>2, <1>5
  <1>7. Cardinality(s \ {Taken(s)}) < n /\ n \in Nat /\ Cardinality(s \ {Taken(s)}) \in Nat
    BY <1>3, <1>4, Smaller
  <1> HIDE DEF sizes, Bad
  <1> QED BY <1>6, <1>7

Folded(S, States, base, step) ==
    \E g \in [SUBSET S -> States] :
        \A s \in SUBSET S : g[s] = IF s = {} THEN base ELSE step[<<Taken(s), g[s \ {Taken(s)}]>>]

LEMMA FoldExists ==
    ASSUME NEW S, IsFiniteSet(S), NEW States, NEW base \in States, NEW step,
           \A x \in S, t \in States : step[<<x, t>>] \in States
    PROVE  Folded(S, States, base, step)
  <1> DEFINE Below(k) == {s \in SUBSET S : Cardinality(s) <= k}
             Solves(g, k) == \A s \in Below(k) : g[s] = IF s = {} THEN base ELSE step[<<Taken(s), g[s \ {Taken(s)}]>>]
             Good == {k \in Nat : \E g \in [Below(k) -> States] : Solves(g, k)}
  <1>0. \A s \in SUBSET S : IsFiniteSet(s) /\ Cardinality(s) \in Nat /\ (Cardinality(s) = 0 <=> s = {})
    BY FS_Subset, FS_CardinalityType, FS_EmptySet
  <1>1. 0 \in Good
    <2> DEFINE g == [s \in Below(0) |-> base]
    <2>1. \A s \in Below(0) : s = {}
      BY <1>0
    <2>2. g \in [Below(0) -> States] /\ Solves(g, 0)
      BY <2>1
    <2> QED BY <2>2
  <1>2. ASSUME NEW k \in Nat, k \in Good PROVE k + 1 \in Good
    <2>1. PICK g \in [Below(k) -> States] : Solves(g, k)
      BY <1>2
    <2> DEFINE h == [s \in Below(k + 1) |-> IF s = {} THEN base ELSE step[<<Taken(s), g[s \ {Taken(s)}]>>]]
    <2>2. ASSUME NEW s \in Below(k + 1), s # {}
          PROVE  Taken(s) \in S /\ s \ {Taken(s)} \in Below(k) /\ s \ {Taken(s)} \in Below(k + 1)
      <3>1. Taken(s) \in s /\ Cardinality(s \ {Taken(s)}) < Cardinality(s)
            /\ Cardinality(s) \in Nat /\ Cardinality(s \ {Taken(s)}) \in Nat
        BY <1>0, <2>2, Smaller
      <3>2. Cardinality(s) <= k + 1
        OBVIOUS
      <3>3. Cardinality(s \ {Taken(s)}) <= k /\ Cardinality(s \ {Taken(s)}) <= k + 1
        BY <3>1, <3>2
      <3> QED BY <3>1, <3>3
    <2>3. h \in [Below(k + 1) -> States]
      <3> SUFFICES ASSUME NEW s \in Below(k + 1) PROVE h[s] \in States
        OBVIOUS
      <3>1. CASE s = {}
        BY <3>1
      <3>2. CASE s # {}
        <4>1. Taken(s) \in S /\ g[s \ {Taken(s)}] \in States
          BY <2>1, <2>2, <3>2
        <4>2. h[s] = step[<<Taken(s), g[s \ {Taken(s)}]>>]
          BY <3>2
        <4> QED BY <4>1, <4>2
      <3> QED BY <3>1, <3>2
    <2>4. \A t \in Below(k) : t \in Below(k + 1) /\ h[t] = g[t]
      <3> SUFFICES ASSUME NEW t \in Below(k) PROVE t \in Below(k + 1) /\ h[t] = g[t]
        OBVIOUS
      <3>1. t \in Below(k + 1)
        BY <1>0
      <3>2. g[t] = IF t = {} THEN base ELSE step[<<Taken(t), g[t \ {Taken(t)}]>>]
        BY <2>1
      <3> QED BY <3>1, <3>2
    <2>5. Solves(h, k + 1)
      <3> SUFFICES ASSUME NEW s \in Below(k + 1)
                   PROVE  h[s] = IF s = {} THEN base ELSE step[<<Taken(s), h[s \ {Taken(s)}]>>]
        OBVIOUS
      <3>1. h[s] = IF s = {} THEN base ELSE step[<<Taken(s), g[s \ {Taken(s)}]>>]
        OBVIOUS
      <3>2. s # {} => h[s \ {Taken(s)}] = g[s \ {Taken(s)}]
        BY <2>2, <2>4
      <3> HIDE DEF h
      <3> QED BY <3>1, <3>2
    <2> HIDE DEF h, Solves, Below
    <2> QED BY <2>3, <2>5
  <1>3. Good = Nat
    <2> DEFINE Bad == Nat \ Good
    <2> SUFFICES ASSUME Bad # {} PROVE FALSE
      OBVIOUS
    <2> HIDE DEF Good
    <2>1. PICK n \in Bad : \A k \in Bad : n <= k
      BY LeastIn
    <2>2. n \in Nat /\ n # 0
      BY <1>1
    <2>3. n - 1 \in Nat /\ n - 1 \in Good
      BY <2>1, <2>2
    <2>4. (n - 1) + 1 \in Good
      BY <1>2, <2>3
    <2> QED BY <2>1, <2>2, <2>4
  <1> DEFINE n == Cardinality(S)
  <1>4. n \in Nat /\ Below(n) = SUBSET S
    <2>1. \A s \in SUBSET S : Cardinality(s) <= n
      BY FS_Subset
    <2> QED BY <1>0, <2>1
  <1>5. PICK g \in [Below(n) -> States] : Solves(g, n)
    BY <1>3, <1>4
  <1> QED BY <1>4, <1>5 DEF Folded

-----------------------------------------------------------------------------
(* the page is of the results *)

LEMMA EnsuredIn ==
    ASSUME NEW T, NEW pool, NEW results, NEW required, IsFiniteSet(required),
           pool \in [DOMAIN pool -> T], ToSet(results) \subseteq T
    PROVE  EnsureRequiredEvidence(pool, results, required) \in [DOMAIN pool -> T]
  <1> DEFINE S == required \cap ToSet(results)
             States == [DOMAIN pool -> T]
             Op(m, p) == IF m \in ToSet(p) \/ ToSet(p) \subseteq required THEN p
                         ELSE [p EXCEPT ![LastFree(p, required)] = m]
             step == [mp \in S \X States |-> Op(mp[1], mp[2])]
             Folds(iter) == iter = [s \in SUBSET S |-> IF s = {} THEN pool ELSE Op(Taken(s), iter[s \ {Taken(s)}])]
             fold == CHOOSE iter : Folds(iter)
  <1>1. IsFiniteSet(S) /\ S \subseteq T
    BY FS_Subset
  <1>2. \A m \in S, p \in States : Op(m, p) \in States /\ step[<<m, p>>] = Op(m, p)
    BY <1>1
  <1>3. \A s \in SUBSET S : s # {} => Taken(s) \in S /\ s \ {Taken(s)} \in SUBSET S
    BY DEF Taken
  <1>4. Folds(fold)
    <2>1. PICK g \in [SUBSET S -> States] :
              \A s \in SUBSET S : g[s] = IF s = {} THEN pool ELSE step[<<Taken(s), g[s \ {Taken(s)}]>>]
      <3> HIDE DEF S, States, Op, step
      <3>1. pool \in States
        BY DEF States
      <3>2. \A m \in S, p \in States : step[<<m, p>>] \in States
        BY <1>2
      <3>3. Folded(S, States, pool, step)
        BY <1>1, <3>1, <3>2, FoldExists
      <3> QED BY <3>3 DEF Folded
    <2>2. \A s \in SUBSET S : g[s] = IF s = {} THEN pool ELSE Op(Taken(s), g[s \ {Taken(s)}])
      <3> HIDE DEF S, States, Op, step
      <3> QED BY <1>2, <1>3, <2>1
    <2>3. Folds(g)
      <3> HIDE DEF S, States, Op, step
      <3> QED BY <2>1, <2>2
    <2> HIDE DEF Folds
    <2> QED BY <2>3
  <1>5. fold[S] \in States
    <2>1. \A s \in SUBSET S : fold[s] = IF s = {} THEN pool ELSE Op(Taken(s), fold[s \ {Taken(s)}])
      <3> HIDE DEF fold, S, States, Op, step
      <3> QED BY <1>4
    <2> HIDE DEF fold, S, Op, step, Folds
    <2>2. fold[{}] \in States
      BY <2>1
    <2>3. ASSUME NEW s \in SUBSET S, s # {}, fold[s \ {Taken(s)}] \in States
          PROVE  fold[s] \in States
      <3> HIDE DEF States
      <3> QED BY <1>2, <1>3, <2>1, <2>3
    <2> HIDE DEF States
    <2> QED BY <1>1, <2>2, <2>3, FoldedIn
  <1>6. EnsureRequiredEvidence(pool, results, required) = fold[S]
    BY DEF EnsureRequiredEvidence, FoldSet, MapThenFoldSet, Taken
  <1> QED BY <1>5, <1>6

\* A promotion brings in the candidate, and no other.
LEMMA PromoteIn ==
    ASSUME NEW page, NEW promoted, NEW candidate, NEW score, NEW limit
    PROVE  Promote(page, promoted, candidate, score, limit) \subseteq page \cup {candidate}
  BY DEF Promote

LEMMA RequiredIn ==
    ASSUME NEW T, NEW state \in [page : SUBSET T, promoted : SUBSET T], NEW results, ToSet(results) \subseteq T,
           NEW m, NEW score, NEW limit
    PROVE  PromoteRequired(state, results, m, score, limit) \in [page : SUBSET T, promoted : SUBSET T]
  <1> DEFINE page == Promote(state.page, state.promoted, m, score, limit)
  <1>1. CASE m \in state.page \/ m \notin ToSet(results)
    BY <1>1 DEF PromoteRequired
  <1>2. CASE ~(m \in state.page \/ m \notin ToSet(results))
    <2>1. page \subseteq T
      BY <1>2, PromoteIn
    <2>2. PromoteRequired(state, results, m, score, limit) = [page |-> page, promoted |-> state.promoted \cup (page \cap {m})]
      BY <1>2 DEF PromoteRequired
    <2> HIDE DEF page
    <2> QED BY <2>1, <2>2
  <1> QED BY <1>1, <1>2

LEMMA LowestIn ==
    ASSUME NEW places, places \subseteq Nat, places # {}
    PROVE  Lowest(places) \in places
  BY LeastIn DEF Lowest

LEMMA EntityIn ==
    ASSUME NEW T, NEW state \in [page : SUBSET T, promoted : SUBSET T], NEW results, ToSet(results) \subseteq T,
           DOMAIN results \subseteq Nat, NEW rows, NEW name, NEW score, NEW limit
    PROVE  PromoteEntity(rows, state, results, name, score, limit) \in [page : SUBSET T, promoted : SUBSET T]
  <1> DEFINE speaking == {i \in DOMAIN results : results[i] \notin state.page /\ name \in rows[results[i]].names}
             best == results[Lowest(speaking)]
             page == Promote(state.page, state.promoted, best, score, limit)
             none == (\E m \in state.page : name \in rows[m].names) \/ speaking = {}
  <1>1. PromoteEntity(rows, state, results, name, score, limit) =
            IF none THEN state ELSE [page |-> page, promoted |-> state.promoted \cup (page \cap {best})]
    BY DEF PromoteEntity
  <1>2. CASE speaking # {}
    <2>1. Lowest(speaking) \in speaking
      BY <1>2, LowestIn
    <2>2. best \in T
      BY <2>1 DEF ToSet
    <2> HIDE DEF best
    <2>3. page \subseteq T
      BY <2>2, PromoteIn
    <2> HIDE DEF page, none
    <2> QED BY <1>1, <2>3
  <1>3. CASE speaking = {}
    BY <1>1, <1>3
  <1> QED BY <1>2, <1>3

LEMMA CoveredIn ==
    ASSUME NEW rows, NEW results, NEW score, NEW plan, NEW names, NEW comparative, NEW limit, DOMAIN results \subseteq Nat,
           IsFiniteSet(plan.evidence), IsFiniteSet(plan.entities), IsFiniteSet(names)
    PROVE  ToSet(PromoteEntityCoverage(rows, results, score, plan, names, comparative, limit)) \subseteq ToSet(results)
  <1> DEFINE T == ToSet(results)
             States == [page : SUBSET T, promoted : SUBSET T]
             start == [page |-> ToSet(PageOf(results, limit)),
                       promoted |-> plan.evidence \cap ToSet(PageOf(results, limit))]
             covering == IF comparative \/ RequiresEntityCoverage(plan) THEN plan.entities \cup names ELSE {}
             E == plan.evidence
             Req(m, state) == PromoteRequired(state, results, m, score, limit)
             Ent(name, state) == PromoteEntity(rows, state, results, name, score, limit)
             reqs == [mt \in E \X States |-> Req(mt[1], mt[2])]
             ents == [mt \in covering \X States |-> Ent(mt[1], mt[2])]
             FoldsReq(iter) == iter = [s \in SUBSET E |-> IF s = {} THEN start ELSE Req(Taken(s), iter[s \ {Taken(s)}])]
             one == CHOOSE iter : FoldsReq(iter)
             required == one[E]
             FoldsEnt(iter) == iter = [s \in SUBSET covering |-> IF s = {} THEN required ELSE Ent(Taken(s), iter[s \ {Taken(s)}])]
             two == CHOOSE iter : FoldsEnt(iter)
             last == two[covering]
  <1>1. IsFiniteSet(E) /\ IsFiniteSet(covering)
    BY FS_Union, FS_EmptySet
  <1>2. \A s : s # {} => Taken(s) \in s
    BY DEF Taken
  <1>3. start \in States
    BY PageIs
  <1>4. required \in States
    <2>1. \A m \in E, t \in States : Req(m, t) \in States /\ reqs[<<m, t>>] = Req(m, t)
      BY RequiredIn
    <2> HIDE DEF E, T, States, start, Req, reqs
    <2>2. PICK g \in [SUBSET E -> States] :
              \A s \in SUBSET E : g[s] = IF s = {} THEN start ELSE reqs[<<Taken(s), g[s \ {Taken(s)}]>>]
      <3>1. \A m \in E, t \in States : reqs[<<m, t>>] \in States
        BY <2>1
      <3>2. Folded(E, States, start, reqs)
        BY <1>1, <1>3, <3>1, FoldExists
      <3> QED BY <3>2 DEF Folded
    <2>3. \A s \in SUBSET E : g[s] = IF s = {} THEN start ELSE Req(Taken(s), g[s \ {Taken(s)}])
      BY <1>2, <2>1, <2>2
    <2>4. FoldsReq(g)
      BY <2>2, <2>3
    <2>5. FoldsReq(one)
      <3> HIDE DEF FoldsReq
      <3> QED BY <2>4
    <2>6. \A s \in SUBSET E : one[s] = IF s = {} THEN start ELSE Req(Taken(s), one[s \ {Taken(s)}])
      <3> HIDE DEF one
      <3> QED BY <2>5
    <2> HIDE DEF one, FoldsReq
    <2>7. \A s \in SUBSET E : s # {} /\ one[s \ {Taken(s)}] \in States => one[s] \in States
      BY <1>2, <2>1, <2>6
    <2>8. one[{}] \in States
      BY <1>3, <2>6
    <2> QED BY <1>1, <2>7, <2>8, FoldedIn
  <1>5. last \in States
    <2>1. \A m \in covering, t \in States : Ent(m, t) \in States /\ ents[<<m, t>>] = Ent(m, t)
      <3> HIDE DEF covering
      <3> QED BY EntityIn
    <2> HIDE DEF covering, T, States, required, Ent, ents
    <2>2. PICK g \in [SUBSET covering -> States] :
              \A s \in SUBSET covering : g[s] = IF s = {} THEN required ELSE ents[<<Taken(s), g[s \ {Taken(s)}]>>]
      <3>1. \A m \in covering, t \in States : ents[<<m, t>>] \in States
        BY <2>1
      <3>2. Folded(covering, States, required, ents)
        BY <1>1, <1>4, <3>1, FoldExists
      <3> QED BY <3>2 DEF Folded
    <2>3. \A s \in SUBSET covering : g[s] = IF s = {} THEN required ELSE Ent(Taken(s), g[s \ {Taken(s)}])
      BY <1>2, <2>1, <2>2
    <2>4. FoldsEnt(g)
      BY <2>2, <2>3
    <2>5. FoldsEnt(two)
      <3> HIDE DEF FoldsEnt
      <3> QED BY <2>4
    <2>6. \A s \in SUBSET covering : two[s] = IF s = {} THEN required ELSE Ent(Taken(s), two[s \ {Taken(s)}])
      <3> HIDE DEF two
      <3> QED BY <2>5
    <2> HIDE DEF two, FoldsEnt
    <2>7. \A s \in SUBSET covering : s # {} /\ two[s \ {Taken(s)}] \in States => two[s] \in States
      BY <1>2, <2>1, <2>6
    <2>8. two[{}] \in States
      BY <1>4, <2>6
    <2> QED BY <1>1, <2>7, <2>8, FoldedIn
  <1>6. PromoteEntityCoverage(rows, results, score, plan, names, comparative, limit) = OrderedPage(last.page, score, limit)
    BY DEF PromoteEntityCoverage, FoldSet, MapThenFoldSet, Taken
  <1> HIDE DEF last
  <1>7. ToSet(OrderedPage(last.page, score, limit)) \subseteq last.page
    BY RankedIn, PageIs DEF OrderedPage, ByScore, Sorted
  <1> QED BY <1>5, <1>6, <1>7

LEMMA FinishFits ==
    ASSUME StoreInv, RequestInv, Finish PROVE Fits(req')
  <1>0. Working
    BY DEF Finish, Working
  <1> DEFINE results == InWindow(req.results)
             first == PageOf(results, AtLeast(45, RetrievalLimitHint(req.plan)))
             pool == RerankPool(results, req.plan)
             page == PromoteEntityCoverage(Rows, pool, req.score, req.plan, req.names, Comparative(req.q), PageLimit)
  <1>1. req' = [req EXCEPT !.pc = IF page = <<>> THEN "next" ELSE "touch", !.page = page]
    BY DEF Finish
  <1>2. ToSet(results) \subseteq ToSet(req.results) /\ DOMAIN results \subseteq Nat
    <2>1. CASE Explicit(req.plan.constraints) = <<>>
      BY <2>1 DEF InWindow, RequestInv
    <2>2. CASE Explicit(req.plan.constraints) # <<>>
      <3> DEFINE places == {i \in DOMAIN req.results :
                                TemporalRelevance(Seen(req.results[i]), req.plan, Reference(req.asked)) > 0}
      <3>1. results = Those(req.results, places)
        BY <2>2 DEF InWindow
      <3>2. places \subseteq DOMAIN req.results
        OBVIOUS
      <3> HIDE DEF places, results
      <3> QED BY <3>1, <3>2, ThoseIn, PlacesAre
    <2> QED BY <2>1, <2>2
  <1>3. ToSet(pool) \subseteq ToSet(results) /\ DOMAIN pool \subseteq Nat
    <2> HIDE DEF results
    <2>1. first \in [DOMAIN first -> ToSet(results)] /\ DOMAIN first \subseteq Nat
      BY <1>2 DEF PageOf, ToSet
    <2>2. pool = EnsureRequiredEvidence(first, results, req.plan.evidence)
      BY DEF RerankPool
    <2> HIDE DEF first, pool
    <2>3. pool \in [DOMAIN first -> ToSet(results)]
      BY <2>1, <2>2, EnsuredIn DEF RequestInv
    <2> QED BY <2>1, <2>3 DEF ToSet
  <1> HIDE DEF results, pool
  <1>4. ToSet(page) \subseteq ToSet(pool)
    BY <1>3, CoveredIn DEF RequestInv
  <1>5. \A m \in ToSet(page) : Admissible(m)
    BY <1>2, <1>3, <1>4 DEF RequestInv, Candidates
  <1> HIDE DEF page
  <1> QED BY <1>0, <1>1, <1>5, ReqFits DEF Fits, Shows, ReqFields, About

-----------------------------------------------------------------------------
(* a request begins, is planned, goes on to another question and ends *)

LEMMA BegunKeeps ==
    ASSUME StoreInv, RequestInv, req.pc = "ask", world.kind # "graph", UNCHANGED <<world, store>>,
           NEW scope, NEW asked, "archived" \in DOMAIN asked, asked.archived = world.asked.archived,
           world.kind = "focus" => scope.user = world.asked.user /\ scope.org = world.asked.org,
           Admitted(scope, asked)
    PROVE  StoreInv' /\ RequestInv'
  <1>1. DOMAIN req = ReqFields /\ req = Waiting
    BY DEF RequestInv
  <1>2. PICK q : q = world.questions[1]
    OBVIOUS
  <1>3. "names" \in DOMAIN q /\ IsFiniteSet(q.names) /\ IsFiniteSet(q.capitals)
    BY <1>2, WorldsAssumption DEF StoreInv
  <1>4. req' = [req EXCEPT !.pc = "plan", !.scope = scope, !.i = 1, !.asked = asked, !.q = q]
    BY <1>2 DEF Admitted
  <1>5. /\ req.copies = <<>> /\ req.lexical = <<>> /\ req.dense = <<>> /\ req.graph = <<>> /\ req.collected = {}
        /\ req.results = <<>> /\ req.score = <<>> /\ req.page = <<>> /\ req.pages = <<>> /\ req.names = {}
        /\ req.plan.evidence = {} /\ req.plan.entities = {}
    BY <1>1 DEF Waiting, NoPlan
  <1>6. /\ req'.copies = <<>> /\ req'.lexical = <<>> /\ req'.dense = <<>> /\ req'.graph = <<>> /\ req'.collected = {}
        /\ req'.results = <<>> /\ req'.score = <<>> /\ req'.page = <<>> /\ req'.pages = <<>> /\ req'.names = {}
        /\ req'.plan.evidence = {} /\ req'.plan.entities = {}
        /\ DOMAIN req' = ReqFields /\ req'.pc = "plan" /\ req'.scope = scope /\ req'.i = 1 /\ req'.asked = asked /\ req'.q = q
    BY <1>1, <1>4, <1>5 DEF ReqFields
  <1>7. StoreInv'
    BY DEF StoreInv, Since
  <1>8. Candidates' = {}
    BY <1>6, NoneShown DEF Candidates, Held
  <1>9. req'.pages \in Seq(SUBSET {m \in DOMAIN store' : Admissible(m)'})
    BY <1>6
  <1>10. IsFiniteSet({})
    BY FS_EmptySet
  <1> QED BY <1>3, <1>6, <1>7, <1>8, <1>9, <1>10 DEF RequestInv, Working

\* What is answered or refused at once.
LEMMA SettledKeeps ==
    ASSUME StoreInv, RequestInv, req.pc = "ask", world.kind # "graph", UNCHANGED <<world, store>>,
           NEW pc \in {"done", "refused"}, pc = "done" => world.kind # "focus", req' = [req EXCEPT !.pc = pc]
    PROVE  StoreInv' /\ RequestInv'
  <1>1. DOMAIN req = ReqFields
    BY DEF RequestInv
  <1>2. DOMAIN req' = ReqFields /\ req'.pc = pc /\ \A f \in ReqFields \ {"pc"} : req'[f] = req[f]
    BY <1>1
  <1>3. /\ req'.copies = req.copies /\ req'.lexical = req.lexical /\ req'.dense = req.dense /\ req'.graph = req.graph
        /\ req'.collected = req.collected /\ req'.results = req.results /\ req'.score = req.score /\ req'.page = req.page
        /\ req'.pages = req.pages /\ req'.names = req.names /\ req'.plan = req.plan /\ req'.scope = req.scope /\ req'.i = req.i
    BY <1>2 DEF ReqFields
  <1>4. StoreInv'
    BY DEF StoreInv, Since
  <1>5. \A m : Admissible(m)' <=> Admissible(m)
    BY <1>3 DEF Admissible, Scoped
  <1>6. Candidates' = Candidates
    BY <1>3 DEF Candidates, Held
  <1>7. req'.pages \in Seq(SUBSET {m \in DOMAIN store' : Admissible(m)'})
    <2>1. {m \in DOMAIN store' : Admissible(m)'} = {m \in DOMAIN store : Admissible(m)}
      BY <1>5
    <2> QED BY <1>3, <2>1 DEF RequestInv
  <1>8. (\A m \in DOMAIN req.copies : m \in DOMAIN store /\ Since(m, req.copies[m]))'
    BY <1>3 DEF RequestInv, Since
  <1> QED BY <1>2, <1>3, <1>4, <1>5, <1>6, <1>7, <1>8 DEF RequestInv, Working

\* A step in which the request comes to ask something else in the same scope.
LEMMA TurnedKeeps ==
    ASSUME StoreInv, RequestInv, Working, UNCHANGED <<world, store>>,
           DOMAIN req' = ReqFields, req'.pc # "ask", req'.scope = req.scope,
           \A m \in DOMAIN req'.copies : m \in DOMAIN store /\ Since(m, req'.copies[m]),
           \A m \in Shows(req') : Admissible(m),
           req'.pages \in Seq(SUBSET {m \in DOMAIN store : Admissible(m)}),
           "archived" \in DOMAIN req'.asked /\ req'.asked.archived = world.asked.archived,
           req'.i \in Nat /\ DOMAIN req'.results \subseteq Nat,
           IsFiniteSet(req'.plan.evidence) /\ IsFiniteSet(req'.plan.entities) /\ IsFiniteSet(req'.names),
           "names" \in DOMAIN req'.q /\ IsFiniteSet(req'.q.names) /\ IsFiniteSet(req'.q.capitals)
    PROVE  StoreInv' /\ RequestInv'
  <1>1. StoreInv'
    BY DEF StoreInv, Since, Working
  <1>2. \A m : Admissible(m)' <=> Admissible(m)
    BY DEF Admissible, Scoped
  <1>3. (\A m \in DOMAIN req.copies : m \in DOMAIN store /\ Since(m, req.copies[m]))'
    BY DEF Since
  <1>4. \A m \in Candidates' : Admissible(m)'
    BY <1>2 DEF Candidates, Held, Shows
  <1>5. req'.pages \in Seq(SUBSET {m \in DOMAIN store' : Admissible(m)'})
    <2>1. {m \in DOMAIN store' : Admissible(m)'} = {m \in DOMAIN store : Admissible(m)}
      BY <1>2
    <2> QED BY <2>1
  <1> QED BY <1>1, <1>3, <1>4, <1>5 DEF RequestInv, Working

LEMMA AskersKeep ==
    ASSUME StoreInv, RequestInv, Admit \/ AdmitRecall \/ AdmitTool \/ AdmitHybrid
    PROVE  StoreInv' /\ RequestInv'
  <1>1. req.pc = "ask" /\ world.kind # "graph" /\ UNCHANGED <<world, store>>
    BY DEF Admit, AdmitRecall, AdmitTool, AdmitHybrid, AsksAs, Scoped
  <1>2. "archived" \in DOMAIN world.asked
    BY <1>1, WorldsAssumption DEF StoreInv
  <1>3. CASE Admit
    <2>1. world.kind # "focus"
      BY <1>3 DEF Admit, Scoped
    <2>2. \/ Admitted(ScopeFor(world.known, world.asked), world.asked)
          \/ req' = [req EXCEPT !.pc = "refused"]
      BY <1>3 DEF Admit, Admitted
    <2> QED BY <1>1, <1>2, <2>1, <2>2, BegunKeeps, SettledKeeps
  <1>4. CASE AdmitRecall
    <2> DEFINE scope == [f \in DOMAIN Everyone |-> world.asked[f]]
    <2>1. scope.user = world.asked.user /\ scope.org = world.asked.org
      BY DEF Everyone
    <2>2. Admitted(scope, world.asked)
      BY <1>4 DEF AdmitRecall
    <2> HIDE DEF scope
    <2> QED BY <1>1, <1>2, <2>1, <2>2, BegunKeeps
  <1>5. CASE AdmitTool
    <2>1. world.kind # "focus"
      BY <1>5 DEF AdmitTool, AsksAs
    <2>2. \/ Admitted([Everyone EXCEPT !.user = world.asked.user], world.asked)
          \/ req' = [req EXCEPT !.pc = "refused"]
      BY <1>5 DEF AdmitTool
    <2> QED BY <1>1, <1>2, <2>1, <2>2, BegunKeeps, SettledKeeps
  <1>6. CASE AdmitHybrid
    <2> DEFINE scope == [Everyone EXCEPT !.user = IF world.asked.user = Unsaid THEN Nobody ELSE world.asked.user]
               asked == [world.asked EXCEPT !.depth = Clip(@, 1, 3)]
    <2>1. world.kind # "focus"
      BY <1>6 DEF AdmitHybrid, AsksAs
    <2>2. Admitted(scope, asked)
      BY <1>6 DEF AdmitHybrid
    <2>3. "archived" \in DOMAIN asked /\ asked.archived = world.asked.archived
      BY <1>2
    <2> HIDE DEF scope, asked
    <2> QED BY <1>1, <1>2, <2>1, <2>2, <2>3, BegunKeeps
  <1> QED BY <1>3, <1>4, <1>5, <1>6

LEMMA SpokenIn ==
    ASSUME NEW q, NEW known PROVE Spoken(q, known) \subseteq q.names
  BY DEF Spoken

LEMMA PlanKeeps ==
    ASSUME StoreInv, RequestInv, Plan
    PROVE  StoreInv' /\ RequestInv'
  <1>0. Working /\ UNCHANGED <<world, store>>
    BY DEF Plan, Working
  <1> DEFINE Made(fault, embedded, known, plan) ==
                LET names == plan.entities \cup req.q.capitals \cup Spoken(req.q, known)
                IN  req' = [Failed(fault) EXCEPT
                        !.pc = "lexical", !.attempt = 1, !.embedded = embedded, !.plan = plan, !.names = names,
                        !.seeds = {e.id : e \in {e \in known : Called(e) \cap req.q.names # {}}} \cup plan.ids,
                        !.depth = Depth(req.asked, plan, names, req.q)]
  <1>1. PICK fault, embedded, known, plan :
            plan = BuildQueryPlan(req.q, known, Reference(req.asked)) /\ Made(fault, embedded, known, plan)
    <2>1. \E fault \in Faults, embedded \in IF req.faults < world.faults /\ world.kind # "tool" THEN BOOLEAN ELSE {TRUE} :
          \E known \in {IF Fails(fault, <<>>) THEN {} ELSE KnownEntities} :
          \E plan \in {BuildQueryPlan(req.q, known, Reference(req.asked))} : Made(fault, embedded, known, plan)
      BY DEF Plan
    <2> HIDE DEF Made
    <2> QED BY <2>1
  <1> DEFINE names == plan.entities \cup req.q.capitals \cup Spoken(req.q, known)
  <1>2. plan.evidence = {} /\ plan.entities = ExtractEntities(req.q, known)
    BY <1>1 DEF BuildQueryPlan, PlanWith
  <1>3. IsFiniteSet(req.q.names) /\ IsFiniteSet(req.q.capitals)
    BY <1>0 DEF RequestInv
  <1>4. ExtractEntities(req.q, known) \subseteq req.q.capitals \cup req.q.names
        /\ names \subseteq req.q.capitals \cup req.q.names
    <2>1. \A S : {n \in S : n \in req.q.names} \subseteq req.q.names /\ S \cap req.q.names \subseteq req.q.names
      OBVIOUS
    <2>2. ExtractEntities(req.q, known) \subseteq req.q.capitals \cup req.q.names
      BY <2>1 DEF ExtractEntities
    <2>3. Spoken(req.q, known) \subseteq req.q.names
      BY SpokenIn
    <2> QED BY <1>2, <2>2, <2>3
  <1>5. IsFiniteSet(plan.evidence) /\ IsFiniteSet(plan.entities) /\ IsFiniteSet(names)
    <2>1. IsFiniteSet(req.q.capitals \cup req.q.names)
      BY <1>3, FS_Union
    <2> HIDE DEF names
    <2> QED BY <1>2, <1>4, <2>1, FS_Subset, FS_EmptySet
  <1>6. \E seeds, depth : req' = [Failed(fault) EXCEPT !.pc = "lexical", !.attempt = 1, !.embedded = embedded,
                                      !.plan = plan, !.names = names, !.seeds = seeds, !.depth = depth]
    BY <1>1
  <1> HIDE DEF names
  <1>7. /\ DOMAIN req' = ReqFields /\ req'.pc = "lexical" /\ req'.plan = plan /\ req'.names = names
        /\ \A f \in ReqFields \ {"aborted", "faults", "pc", "attempt", "embedded", "plan", "names", "seeds", "depth"} :
              req'[f] = req[f]
    <2>1. DOMAIN Failed(fault) = ReqFields /\ \A f \in ReqFields \ {"aborted", "faults"} : Failed(fault)[f] = req[f]
      BY <1>0, FailedFits DEF Fits
    <2> QED BY <1>6, <2>1 DEF ReqFields
  <1>8. /\ req'.copies = req.copies /\ req'.lexical = req.lexical /\ req'.dense = req.dense /\ req'.graph = req.graph
        /\ req'.collected = req.collected /\ req'.results = req.results /\ req'.score = req.score /\ req'.page = req.page
        /\ req'.pages = req.pages /\ req'.scope = req.scope /\ req'.i = req.i /\ req'.asked = req.asked /\ req'.q = req.q
    BY <1>7 DEF ReqFields
  <1>9. Shows(req') = Candidates
    BY <1>8 DEF Shows, Candidates, Held
  <1>10. \A m \in Shows(req') : Admissible(m)
    BY <1>9 DEF RequestInv
  <1>11. /\ \A m \in DOMAIN req'.copies : m \in DOMAIN store /\ Since(m, req'.copies[m])
         /\ req'.pages \in Seq(SUBSET {m \in DOMAIN store : Admissible(m)})
         /\ "archived" \in DOMAIN req'.asked /\ req'.asked.archived = world.asked.archived
         /\ req'.i \in Nat /\ DOMAIN req'.results \subseteq Nat
         /\ "names" \in DOMAIN req'.q /\ IsFiniteSet(req'.q.names) /\ IsFiniteSet(req'.q.capitals)
    BY <1>0, <1>8 DEF RequestInv
  <1> QED BY <1>0, <1>5, <1>7, <1>8, <1>10, <1>11, TurnedKeeps

\* A page that is kept is of rows that may be shown.
LEMMA PageKept ==
    ASSUME RequestInv
    PROVE  /\ ToSet(req.page) \in SUBSET {m \in DOMAIN store : Admissible(m)}
           /\ req.collected \in SUBSET {m \in DOMAIN store : Admissible(m)}
  <1>1. \A m \in ToSet(req.page) \cup req.collected : Admissible(m)
    BY DEF RequestInv, Candidates, Held
  <1> QED BY <1>1 DEF Admissible

LEMMA NextQuestionKeeps ==
    ASSUME StoreInv, RequestInv, NextQuestion
    PROVE  StoreInv' /\ RequestInv'
  <1>0. Working /\ UNCHANGED <<world, store>> /\ DOMAIN req = ReqFields
    BY DEF NextQuestion, Working, RequestInv
  <1> DEFINE Shown == SUBSET {m \in DOMAIN store : Admissible(m)}
             pages == Append(req.pages, ToSet(req.page))
  <1>1. pages \in Seq(Shown)
    <2>1. req.pages \in Seq(Shown) /\ ToSet(req.page) \in Shown
      BY PageKept DEF RequestInv
    <2> HIDE DEF Shown
    <2> QED BY <2>1, AppendProperties
  <1> HIDE DEF pages
  <1>2. CASE req.i < Len(world.questions)
    <2>1. PICK q : q = world.questions[req.i + 1]
      OBVIOUS
    <2>2. "names" \in DOMAIN q /\ IsFiniteSet(q.names) /\ IsFiniteSet(q.capitals)
      <3>1. Len(world.questions) \in Nat /\ req.i \in Nat
        BY WorldsAssumption DEF StoreInv, RequestInv
      <3>2. req.i + 1 \in 1 .. Len(world.questions)
        BY <1>2, <3>1
      <3> QED BY <2>1, <3>2, WorldsAssumption DEF StoreInv
    <2>3. req' = [Fresh([req EXCEPT !.pages = pages]) EXCEPT !.i = req.i + 1, !.q = q, !.copies = <<>>, !.seen = {}]
      BY <1>0, <1>2, <2>1 DEF NextQuestion, Answered, Fresh, ReqFields, pages
    <2>4. /\ DOMAIN req' = ReqFields /\ req'.pc = "plan" /\ req'.scope = req.scope /\ req'.asked = req.asked
          /\ req'.plan = req.plan /\ req'.names = req.names /\ req'.i = req.i + 1 /\ req'.q = q /\ req'.pages = pages
          /\ req'.copies = <<>> /\ req'.lexical = <<>> /\ req'.dense = <<>> /\ req'.graph = <<>> /\ req'.results = <<>>
          /\ req'.score = <<>> /\ req'.page = <<>> /\ req'.collected = req.collected
      BY <1>0, <2>3 DEF Fresh, ReqFields
    <2>5. Shows(req') = req.collected
      BY <2>4, NoneShown DEF Shows
    <2>6. \A m \in Shows(req') : Admissible(m)
      BY <2>5 DEF RequestInv, Candidates, Held
    <2>7. /\ \A m \in DOMAIN req'.copies : m \in DOMAIN store /\ Since(m, req'.copies[m])
          /\ "archived" \in DOMAIN req'.asked /\ req'.asked.archived = world.asked.archived
          /\ req'.i \in Nat /\ DOMAIN req'.results \subseteq Nat
          /\ IsFiniteSet(req'.plan.evidence) /\ IsFiniteSet(req'.plan.entities) /\ IsFiniteSet(req'.names)
      BY <1>0, <2>4 DEF RequestInv
    <2> QED BY <1>0, <1>1, <2>2, <2>4, <2>6, <2>7, TurnedKeeps
  <1>3. CASE ~(req.i < Len(world.questions))
    <2>1. req' = [req EXCEPT !.pages = pages, !.pc = "commit"]
      BY <1>0, <1>3 DEF NextQuestion, Answered, ReqFields, pages
    <2>2. /\ DOMAIN req' = ReqFields /\ req'.pc = "commit" /\ req'.pages = pages
          /\ req'.copies = req.copies /\ req'.lexical = req.lexical /\ req'.dense = req.dense /\ req'.graph = req.graph
          /\ req'.collected = req.collected /\ req'.results = req.results /\ req'.score = req.score /\ req'.page = req.page
          /\ req'.scope = req.scope /\ req'.i = req.i /\ req'.asked = req.asked /\ req'.q = req.q
          /\ req'.plan = req.plan /\ req'.names = req.names
      BY <1>0, <2>1 DEF ReqFields
    <2>3. Shows(req') = Candidates
      BY <2>2 DEF Shows, Candidates, Held
    <2>4. /\ \A m \in DOMAIN req'.copies : m \in DOMAIN store /\ Since(m, req'.copies[m])
          /\ \A m \in Shows(req') : Admissible(m)
          /\ "archived" \in DOMAIN req'.asked /\ req'.asked.archived = world.asked.archived
          /\ req'.i \in Nat /\ DOMAIN req'.results \subseteq Nat
          /\ IsFiniteSet(req'.plan.evidence) /\ IsFiniteSet(req'.plan.entities) /\ IsFiniteSet(req'.names)
          /\ "names" \in DOMAIN req'.q /\ IsFiniteSet(req'.q.names) /\ IsFiniteSet(req'.q.capitals)
      BY <1>0, <2>2, <2>3 DEF RequestInv
    <2> QED BY <1>0, <1>1, <2>2, <2>4, TurnedKeeps
  <1> QED BY <1>2, <1>3

LEMMA InvestigateKeeps ==
    ASSUME StoreInv, RequestInv, Investigate
    PROVE  StoreInv' /\ RequestInv'
  <1>0. Working /\ UNCHANGED <<world, store>> /\ DOMAIN req = ReqFields
    BY DEF Investigate, Working, RequestInv
  <1> DEFINE all == req.collected \cup ToSet(req.page)
             copies == [m \in all |-> Seen(m)]
             Shown == SUBSET {m \in DOMAIN store : Admissible(m)}
  <1>1. PICK value, explored : Collect(req) = [req EXCEPT !.collected = all, !.copies = copies,
                                                         !.value = value, !.explored = explored]
    BY DEF Collect
  <1> DEFINE kept == Collect(req)
  <1>2. all \in Shown /\ \A m \in all : Admissible(m)
    BY PageKept
  <1>3. \A m \in DOMAIN copies : m \in DOMAIN store /\ Since(m, copies[m])
    BY <1>2, SeenSince DEF Admissible
  <1>4. \/ kept.collected = {} /\ req' = [Answered(kept) EXCEPT !.pc = "commit"]
        \/ req' = [kept EXCEPT !.pc = "refused", !.page = <<>>, !.touched = {}]
        \/ \E name : req' = [Fresh(kept) EXCEPT !.hop = @ + 1, !.explored = @ \cup {name}, !.q = SubQuestion(name),
                                             !.asked = [@ EXCEPT !.limit = 5, !.depth = 2]]
    BY DEF Investigate
  <1> HIDE DEF all, copies, kept, Shown
  <1>5. /\ DOMAIN kept = ReqFields /\ kept.collected = all /\ kept.copies = copies
        /\ \A f \in ReqFields \ {"collected", "copies", "value", "explored"} : kept[f] = req[f]
    BY <1>0, <1>1 DEF ReqFields, kept
  <1>6. /\ kept.lexical = req.lexical /\ kept.dense = req.dense /\ kept.graph = req.graph /\ kept.results = req.results
        /\ kept.score = req.score /\ kept.page = req.page /\ kept.scope = req.scope /\ kept.i = req.i /\ kept.asked = req.asked
        /\ kept.q = req.q /\ kept.plan = req.plan /\ kept.names = req.names /\ kept.pages = req.pages
    BY <1>5 DEF ReqFields
  <1>7. /\ "archived" \in DOMAIN req.asked /\ req.asked.archived = world.asked.archived
        /\ req.i \in Nat /\ DOMAIN req.results \subseteq Nat
        /\ IsFiniteSet(req.plan.evidence) /\ IsFiniteSet(req.plan.entities) /\ IsFiniteSet(req.names)
        /\ "names" \in DOMAIN req.q /\ IsFiniteSet(req.q.names) /\ IsFiniteSet(req.q.capitals)
        /\ \A m \in Candidates : Admissible(m)
        /\ req.pages \in Seq(Shown)
    BY <1>0 DEF RequestInv, Shown
  <1>8. CASE kept.collected = {} /\ req' = [Answered(kept) EXCEPT !.pc = "commit"]
    <2>1. /\ DOMAIN req' = ReqFields /\ req'.pc = "commit" /\ req'.pages = Append(req.pages, ToSet(req.page)) /\ req'.copies = copies
          /\ req'.collected = all /\ req'.lexical = req.lexical /\ req'.dense = req.dense /\ req'.graph = req.graph
          /\ req'.results = req.results /\ req'.score = req.score /\ req'.page = req.page /\ req'.scope = req.scope
          /\ req'.i = req.i /\ req'.asked = req.asked /\ req'.q = req.q /\ req'.plan = req.plan /\ req'.names = req.names
      BY <1>5, <1>6, <1>8 DEF Answered, ReqFields
    <2>2. Shows(req') = Candidates
      BY <2>1 DEF Shows, Candidates, Held, all
    <2>3. req'.pages \in Seq(Shown)
      <3>1. ToSet(req.page) \in Shown
        BY PageKept DEF Shown
      <3>2. \A s \in Seq(Shown), x \in Shown : Append(s, x) \in Seq(Shown)
        OBVIOUS
      <3> QED BY <1>7, <2>1, <3>1, <3>2
    <2> QED BY <1>0, <1>3, <1>7, <2>1, <2>2, <2>3, TurnedKeeps DEF Shown
  <1>9. CASE req' = [kept EXCEPT !.pc = "refused", !.page = <<>>, !.touched = {}]
    <2>1. /\ DOMAIN req' = ReqFields /\ req'.pc = "refused" /\ req'.pages = req.pages /\ req'.copies = copies
          /\ req'.collected = all /\ req'.lexical = req.lexical /\ req'.dense = req.dense /\ req'.graph = req.graph
          /\ req'.results = req.results /\ req'.score = req.score /\ req'.page = <<>> /\ req'.scope = req.scope
          /\ req'.i = req.i /\ req'.asked = req.asked /\ req'.q = req.q /\ req'.plan = req.plan /\ req'.names = req.names
      BY <1>5, <1>6, <1>9 DEF ReqFields
    <2>2. Shows(req') = Candidates
      BY <2>1, NoneShown DEF Shows, Candidates, Held, all
    <2>3. req'.pages \in Seq(Shown)
      BY <1>7, <2>1
    <2> QED BY <1>0, <1>3, <1>7, <2>1, <2>2, <2>3, TurnedKeeps DEF Shown
  <1>10. ASSUME NEW name,
               req' = [Fresh(kept) EXCEPT !.hop = @ + 1, !.explored = @ \cup {name}, !.q = SubQuestion(name),
                                       !.asked = [@ EXCEPT !.limit = 5, !.depth = 2]]
        PROVE  StoreInv' /\ RequestInv'
    <2> DEFINE asked == [req.asked EXCEPT !.limit = 5, !.depth = 2]
               q == SubQuestion(name)
    <2>1. /\ DOMAIN req' = ReqFields /\ req'.pc = "plan" /\ req'.pages = req.pages /\ req'.copies = copies
          /\ req'.collected = all /\ req'.lexical = <<>> /\ req'.dense = <<>> /\ req'.graph = <<>>
          /\ req'.results = <<>> /\ req'.score = <<>> /\ req'.page = <<>> /\ req'.scope = req.scope
          /\ req'.i = req.i /\ req'.asked = asked /\ req'.q = q /\ req'.plan = req.plan /\ req'.names = req.names
      <3>1. \E h, e : req' = [Fresh(kept) EXCEPT !.hop = h, !.explored = e, !.q = q, !.asked = asked]
        BY <1>5, <1>6, <1>10 DEF Fresh, ReqFields
      <3> HIDE DEF q, asked
      <3>2. PICK h, e : req' = [Fresh(kept) EXCEPT !.hop = h, !.explored = e, !.q = q, !.asked = asked]
        BY <3>1
      <3>3. /\ DOMAIN Fresh(kept) = ReqFields
            /\ Fresh(kept).pc = "plan" /\ Fresh(kept).pages = req.pages /\ Fresh(kept).copies = copies
            /\ Fresh(kept).collected = all /\ Fresh(kept).lexical = <<>> /\ Fresh(kept).dense = <<>> /\ Fresh(kept).graph = <<>>
            /\ Fresh(kept).results = <<>> /\ Fresh(kept).score = <<>> /\ Fresh(kept).page = <<>> /\ Fresh(kept).scope = req.scope
            /\ Fresh(kept).i = req.i /\ Fresh(kept).plan = req.plan /\ Fresh(kept).names = req.names
        BY <1>5, <1>6 DEF Fresh, ReqFields
      <3> QED BY <3>2, <3>3 DEF ReqFields
    <2>2. "archived" \in DOMAIN asked /\ asked.archived = world.asked.archived
      BY <1>7
    <2>3. "names" \in DOMAIN q /\ IsFiniteSet(q.names) /\ IsFiniteSet(q.capitals)
      <3>1. PICK terms : q = [req.q EXCEPT !.terms = terms, !.names = {name} \cup req.q.names]
        BY DEF SubQuestion
      <3> HIDE DEF q
      <3>2. "names" \in DOMAIN q /\ q.names = {name} \cup req.q.names /\ q.capitals = req.q.capitals
        BY <1>7, <3>1
      <3>3. IsFiniteSet({name} \cup req.q.names)
        BY <1>7, FS_Singleton, FS_Union
      <3> QED BY <1>7, <3>2, <3>3
    <2> HIDE DEF asked, q
    <2>4. Shows(req') = all
      BY <2>1, NoneShown DEF Shows
    <2>5. req'.pages \in Seq(Shown) /\ DOMAIN req'.results \subseteq Nat
      BY <1>7, <2>1
    <2> QED BY <1>0, <1>2, <1>3, <1>7, <2>1, <2>2, <2>3, <2>4, <2>5, TurnedKeeps DEF Shown
  <1> QED BY <1>4, <1>8, <1>9, <1>10

-----------------------------------------------------------------------------
(* meanwhile a fact is superseded, archived or cooled *)

LEMMA ChangedAre ==
    ASSUME StoreInv, Change
    PROVE  /\ Working /\ world.kind # "graph" /\ UNCHANGED <<world, req>>
           /\ StoreInv'
           /\ \A m \in DOMAIN store : m \in DOMAIN store' /\ \A f \in Lasting : store'[m][f] = store[m][f]
  <1>1. Working /\ world.kind # "graph" /\ UNCHANGED <<world, req>>
    BY DEF Change, Working, StoreInv
  <1>2. PICK c \in world.changes \ changed :
            /\ c.of \in DOMAIN store /\ store[c.of].to = None
            /\ c.what = "supersede" => c.id \notin DOMAIN store /\ PrepareEmbedding(c.row)
            /\ store' = Apply(c)
    BY DEF Change
  <1>3. c.what = "supersede" => Columns \subseteq DOMAIN c.row
    BY <1>2, WorldsAssumption DEF StoreInv
  <1>0. c.what \in {"supersede", "archive", "cool"}
    BY <1>2, WorldsAssumption DEF StoreInv
  <1>4. /\ DOMAIN world.rows \subseteq DOMAIN store
        /\ \A m \in DOMAIN store : Columns \subseteq DOMAIN store[m] /\ Since(m, store[m])
    BY DEF StoreInv
  <1> DEFINE Same(m) == /\ \A f \in Lasting : store'[m][f] = store[m][f]
                        /\ store'[m].to = None => store[m].to = None
                        /\ store[m].archived => store'[m].archived
             Later == /\ DOMAIN store \subseteq DOMAIN store'
                      /\ \A m \in DOMAIN store' : Columns \subseteq DOMAIN store'[m]
                      /\ \A m \in DOMAIN store : Same(m)
  <1>5. ASSUME c.what = "supersede" PROVE Later
    <2>1. store' = [m \in DOMAIN store \cup {c.id} |->
                      IF m = c.id THEN c.row ELSE IF m = c.of THEN [store[m] EXCEPT !.to = world.now] ELSE store[m]]
      BY <1>2, <1>5 DEF Apply
    <2>2. \A m \in DOMAIN store : m # c.id
      BY <1>2, <1>5
    <2>3. \A m \in DOMAIN store : m # c.of => store'[m] = store[m]
      BY <2>1, <2>2
    <2>4. store'[c.of] = [store[c.of] EXCEPT !.to = world.now]
      BY <1>2, <2>1, <2>2
    <2>5. /\ DOMAIN store'[c.of] = DOMAIN store[c.of]
          /\ \A f \in Lasting : store'[c.of][f] = store[c.of][f]
          /\ store[c.of].archived => store'[c.of].archived
      BY <1>2, <1>4, <2>4 DEF Lasting, ScopeFields, Columns
    <2>6. store'[c.id] = c.row /\ DOMAIN store' = DOMAIN store \cup {c.id}
      BY <2>1
    <2>7. Same(c.of)
      BY <1>2, <2>5
    <2>8. \A m \in DOMAIN store : Same(m)
      BY <2>3, <2>7
    <2>9. \A m \in DOMAIN store' : Columns \subseteq DOMAIN store'[m]
      BY <1>2, <1>3, <1>4, <1>5, <2>3, <2>5, <2>6
    <2> HIDE DEF Same
    <2> QED BY <2>6, <2>8, <2>9
  <1>6. ASSUME c.what = "archive" PROVE Later
    <2>1. store' = [store EXCEPT ![c.of] = [store[c.of] EXCEPT !.archived = TRUE]]
      BY <1>2, <1>6 DEF Apply
    <2>2. DOMAIN store' = DOMAIN store /\ \A m \in DOMAIN store : m # c.of => store'[m] = store[m]
      BY <2>1
    <2>3. store'[c.of] = [store[c.of] EXCEPT !.archived = TRUE]
      BY <1>2, <2>1
    <2>4. /\ DOMAIN store'[c.of] = DOMAIN store[c.of]
          /\ \A f \in Lasting : store'[c.of][f] = store[c.of][f]
          /\ store'[c.of].to = store[c.of].to /\ store'[c.of].archived
      BY <1>2, <1>4, <2>3 DEF Lasting, ScopeFields, Columns
    <2>5. Same(c.of)
      BY <2>4
    <2>6. \A m \in DOMAIN store : Same(m)
      BY <2>2, <2>5
    <2>7. \A m \in DOMAIN store' : Columns \subseteq DOMAIN store'[m]
      BY <1>2, <1>4, <2>2, <2>4
    <2> HIDE DEF Same
    <2> QED BY <2>2, <2>6, <2>7
  <1>7. ASSUME c.what = "cool" PROVE Later
    <2>1. store' = [store EXCEPT ![c.of] = [store[c.of] EXCEPT !.state = "cold"]]
      BY <1>2, <1>7 DEF Apply
    <2>2. DOMAIN store' = DOMAIN store /\ \A m \in DOMAIN store : m # c.of => store'[m] = store[m]
      BY <2>1
    <2>3. store'[c.of] = [store[c.of] EXCEPT !.state = "cold"]
      BY <1>2, <2>1
    <2>4. /\ DOMAIN store'[c.of] = DOMAIN store[c.of]
          /\ \A f \in Lasting : store'[c.of][f] = store[c.of][f]
          /\ store'[c.of].to = store[c.of].to /\ store'[c.of].archived = store[c.of].archived
      BY <1>2, <1>4, <2>3 DEF Lasting, ScopeFields, Columns
    <2>5. Same(c.of)
      BY <2>4
    <2>6. \A m \in DOMAIN store : Same(m)
      BY <2>2, <2>5
    <2>7. \A m \in DOMAIN store' : Columns \subseteq DOMAIN store'[m]
      BY <1>2, <1>4, <2>2, <2>4
    <2> HIDE DEF Same
    <2> QED BY <2>2, <2>6, <2>7
  <1> HIDE DEF Later
  <1>8. Later
    BY <1>0, <1>5, <1>6, <1>7
  <1>9. StoreInv'
    <2>1. ASSUME NEW m \in DOMAIN store' PROVE Since(m, store[m])'
      <3>1. m \in DOMAIN world.rows => m \in DOMAIN store /\ Since(m, store[m])
        BY <1>4
      <3>2. m \in DOMAIN world.rows =>
              (store'[m].to = None => world.rows[m].to = None) /\ (world.rows[m].archived => store'[m].archived)
        BY <1>8, <3>1 DEF Since, Later
      <3> QED BY <1>1, <3>2 DEF Since
    <2> QED BY <1>1, <1>4, <1>8, <2>1 DEF StoreInv, Later
  <1> QED BY <1>1, <1>8, <1>9 DEF Later

LEMMA ChangeKeeps ==
    ASSUME RecollectInv, Change, UNCHANGED <<graphVars, contextVars>>
    PROVE  RecollectInv'
  <1>0. StoreInv /\ RequestInv /\ ContextInv /\ WalkInv
    BY DEF RecollectInv
  <1>1. /\ Working /\ world.kind # "graph" /\ UNCHANGED <<world, req>> /\ StoreInv'
        /\ \A m \in DOMAIN store : m \in DOMAIN store' /\ \A f \in Lasting : store'[m][f] = store[m][f]
    BY <1>0, ChangedAre
  <1>2. \A m : Admissible(m) => Admissible(m)'
    BY <1>1 DEF Admissible, Scoped, ApplyScopeFilters, MemoryInScope, MemoryScopeMatches, Lasting, ScopeFields
  <1>3. RequestInv'
    <2>1. Candidates' = Candidates
      BY <1>1 DEF Candidates, Held
    <2>2. req'.pages \in Seq(SUBSET {m \in DOMAIN store' : Admissible(m)'})
      <3> DEFINE Old == SUBSET {m \in DOMAIN store : Admissible(m)}
                 New == SUBSET {m \in DOMAIN store' : Admissible(m)'}
      <3>1. Old \subseteq New
        BY <1>1, <1>2
      <3>2. req.pages \in Seq(Old)
        BY <1>0 DEF RequestInv
      <3> HIDE DEF Old, New
      <3>3. req.pages \in Seq(New)
        BY <3>1, <3>2, SeqMonotonic
      <3> QED BY <1>1, <3>3 DEF New
    <2>3. (\A m \in DOMAIN req.copies : m \in DOMAIN store /\ Since(m, req.copies[m]))'
      BY <1>0, <1>1 DEF RequestInv, Since
    <2>4. \A m \in Candidates : Admissible(m)'
      BY <1>0, <1>2 DEF RequestInv
    <2> QED BY <1>0, <1>1, <2>1, <2>2, <2>3, <2>4 DEF RequestInv, Working
  <1>4. ContextInv'
    <2>1. UNCHANGED <<values, stage>>
      BY DEF contextVars
    <2>2. \A c : CardTrue(c) => CardTrue(c)'
      BY <1>1 DEF CardTrue, Lasting
    <2> QED BY <1>0, <1>1, <2>1, <2>2 DEF ContextInv
  <1>5. WalkInv'
    BY <1>0, <1>1 DEF WalkInv, graphVars
  <1> QED BY <1>1, <1>3, <1>4, <1>5 DEF RecollectInv

-----------------------------------------------------------------------------
(* what a context is built from, and what is made of it *)

LEMMA CardOfSince ==
    ASSUME StoreInv, NEW m \in DOMAIN store, store[m].user = world.asked.user, store[m].org = world.asked.org,
           NEW row, Since(m, row)
    PROVE  CardTrue(Card(m, row))
  <1> DEFINE c == Card(m, row)
  <1>1. c.id = m /\ c.archived = row.archived /\ c.closed = (row.to # None)
    BY DEF Card
  <1> HIDE DEF c
  <1>2. CardTrue(c)
    BY <1>1 DEF CardTrue, Since
  <1> QED BY <1>2 DEF c

\* Nothing is asked and nothing changes.
LEMMA StillKeeps ==
    ASSUME StoreInv, RequestInv, UNCHANGED <<world, store, req>>
    PROVE  StoreInv' /\ RequestInv'
  <1>1. \A m : Admissible(m)' <=> Admissible(m)
    BY DEF Admissible, Scoped
  <1>2. Candidates' = Candidates
    BY DEF Candidates, Held
  <1>3. {m \in DOMAIN store' : Admissible(m)'} = {m \in DOMAIN store : Admissible(m)}
    BY <1>1
  <1>4. (\A m \in DOMAIN req.copies : m \in DOMAIN store /\ Since(m, req.copies[m]))'
    BY DEF RequestInv, Since
  <1>5. RequestInv'
    BY <1>1, <1>2, <1>3, <1>4 DEF RequestInv, Working
  <1>6. StoreInv'
    BY DEF StoreInv, Since
  <1> QED BY <1>5, <1>6

LEMMA GatherKeeps ==
    ASSUME StoreInv, RequestInv, WalkInv, Gather
    PROVE  RecollectInv'
  <1>1. world.kind = "focus" /\ req.pc = "done" /\ UNCHANGED <<world, store, req, walk>>
    BY DEF Gather, retrievalVars, graphVars
  <1>2. stage' = "asked" /\ values' = [i \in DOMAIN req.page |-> Card(req.page[i], Seen(req.page[i]))]
    BY DEF Gather, Given
  <1>3. ASSUME NEW i \in DOMAIN req.page
        PROVE  CardTrue(Card(req.page[i], Seen(req.page[i])))
    <2>1. Admissible(req.page[i])
      BY DEF RequestInv, Candidates, ToSet
    <2>2. /\ req.page[i] \in DOMAIN store /\ store[req.page[i]].user = world.asked.user
          /\ store[req.page[i]].org = world.asked.org
      BY <1>1, <2>1 DEF Admissible, RequestInv
    <2> QED BY <2>2, SeenSince, CardOfSince
  <1>4. \A c : CardTrue(c)' <=> CardTrue(c)
    BY <1>1 DEF CardTrue
  <1>5. ContextInv'
    BY <1>2, <1>3, <1>4 DEF ContextInv
  <1>6. StoreInv' /\ RequestInv'
    BY <1>1, StillKeeps
  <1>8. WalkInv'
    BY <1>1 DEF WalkInv
  <1> QED BY <1>5, <1>6, <1>8 DEF RecollectInv

\* A context of the facts that are current for the user, whichever are read first.
LEMMA TruthsKeep ==
    ASSUME StoreInv, RequestInv, WalkInv, GatherTruths
    PROVE  RecollectInv'
  <1>1. req.pc = "ask" /\ world.kind = "truths" /\ req' = [req EXCEPT !.pc = "done"] /\ UNCHANGED <<world, store, walk>>
    BY DEF GatherTruths, AsksAs, graphVars
  <1>2. PICK page \in Orders(GetCurrentTruths(store, world.asked), TruthsRead) :
            LET kept == Those(page, {i \in DOMAIN page : ScopeMatchesMemory(store[page[i]])})
            IN  Given([i \in DOMAIN kept |-> Card(kept[i], store[kept[i]])],
                      [world.request EXCEPT !.plan = BuildQueryPlan(world.questions[1], {}, world.now)])
    BY DEF GatherTruths
  <1> DEFINE places == {i \in DOMAIN page : ScopeMatchesMemory(store[page[i]])}
             kept == Those(page, places)
  <1>3. stage' = "asked" /\ values' = [i \in DOMAIN kept |-> Card(kept[i], store[kept[i]])]
    BY <1>2 DEF Given
  <1>4. \A i \in DOMAIN page : page[i] \in GetCurrentTruths(store, world.asked)
    BY DEF Orders
  <1> HIDE DEF kept
  <1>5. ASSUME NEW i \in DOMAIN kept PROVE CardTrue(Card(kept[i], store[kept[i]]))
    <2>1. \E j \in places : kept[i] = page[j]
      <3> HIDE DEF places
      <3> QED BY ThoseAre DEF kept
    <2>2. kept[i] \in GetCurrentTruths(store, world.asked)
      BY <1>4, <2>1
    <2>3. /\ kept[i] \in DOMAIN store /\ store[kept[i]].user = world.asked.user /\ store[kept[i]].org = world.asked.org
      BY <2>2 DEF GetCurrentTruths, ScopeSelect
    <2> QED BY <2>3, CardOfSince DEF StoreInv
  <1>6. \A c : CardTrue(c)' <=> CardTrue(c)
    BY <1>1 DEF CardTrue
  <1>7. ContextInv'
    BY <1>3, <1>5, <1>6 DEF ContextInv
  <1>8. StoreInv' /\ RequestInv'
    BY <1>1, SettledKeeps
  <1>9. WalkInv'
    BY <1>1 DEF WalkInv
  <1> QED BY <1>7, <1>8, <1>9 DEF RecollectInv

LEMMA PromptKeeps ==
    ASSUME RecollectInv, GetContext
    PROVE  RecollectInv'
  <1>0. StoreInv /\ RequestInv /\ ContextInv /\ WalkInv
    BY DEF RecollectInv
  <1>1. req.pc = "ask" /\ world.kind = "prompt" /\ UNCHANGED <<world, store, walk>>
    BY DEF GetContext, AsksAs, graphVars
  <1>2. \A c : CardTrue(c)' <=> CardTrue(c)
    BY <1>1 DEF CardTrue
  <1>3. WalkInv'
    BY <1>0, <1>1 DEF WalkInv
  <1>4. CASE world.asked.org # world.known.org
    <2>1. req' = [req EXCEPT !.pc = "refused"] /\ UNCHANGED <<stage, values>>
      BY <1>4 DEF GetContext, contextVars
    <2>2. StoreInv' /\ RequestInv'
      BY <1>0, <1>1, <2>1, SettledKeeps
    <2>3. ContextInv'
      BY <1>0, <1>1, <1>2, <2>1 DEF ContextInv
    <2> QED BY <1>3, <2>2, <2>3 DEF RecollectInv
  <1>5. CASE world.asked.org = world.known.org
    <2> DEFINE scope == [Everyone EXCEPT !.user = world.asked.user]
    <2>1. req' = [req EXCEPT !.pc = "done"]
      BY <1>5 DEF GetContext
    <2>2. PICK page \in Orders(GetCurrentTruths(store, scope), TruthsRead) :
              Given([i \in DOMAIN page |-> Card(page[i], store[page[i]])], world.request)
      BY <1>5 DEF GetContext
    <2>3. stage' = "asked" /\ values' = [i \in DOMAIN page |-> Card(page[i], store[page[i]])]
      BY <2>2 DEF Given
    <2>4. scope.user = world.asked.user /\ scope.org = world.asked.org
      BY <1>5 DEF Everyone
    <2>5. \A i \in DOMAIN page : page[i] \in GetCurrentTruths(store, scope)
      BY DEF Orders
    <2> HIDE DEF scope
    <2>6. ASSUME NEW i \in DOMAIN page PROVE CardTrue(Card(page[i], store[page[i]]))
      <3>1. /\ page[i] \in DOMAIN store /\ store[page[i]].user = world.asked.user /\ store[page[i]].org = world.asked.org
        BY <2>4, <2>5 DEF GetCurrentTruths, ScopeSelect
      <3> QED BY <1>0, <3>1, CardOfSince DEF StoreInv
    <2>7. StoreInv' /\ RequestInv'
      BY <1>0, <1>1, <2>1, SettledKeeps
    <2>8. ContextInv'
      BY <1>2, <2>3, <2>6 DEF ContextInv
    <2> QED BY <1>3, <2>7, <2>8 DEF RecollectInv
  <1> QED BY <1>4, <1>5

\* Every step of the builder leaves some of what it had, and the first only what is valid.
LEMMA KeptIn ==
    \A ms : \A c \in ToSet(ByImportance(ms)) : c \in ToSet(ms)
  <1> SUFFICES ASSUME NEW ms, NEW c \in ToSet(ByImportance(ms)) PROVE c \in ToSet(ms)
    OBVIOUS
  <1> DEFINE Before(i, j) == \/ ms[i].importance > ms[j].importance
                             \/ ms[i].importance = ms[j].importance /\ i < j
             before == [x \in DOMAIN ms |-> {y \in DOMAIN ms : Before(y, x)}]
             order == InRank(DOMAIN ms, before)
  <1>1. ByImportance(ms) = [i \in DOMAIN order |-> ms[order[i]]]
    BY DEF ByImportance, Sorted
  <1> HIDE DEF before
  <1>2. \A i \in DOMAIN order : order[i] \in DOMAIN ms
    BY RankedAre
  <1> HIDE DEF order
  <1> QED BY <1>1, <1>2 DEF ToSet

LEMMA ContextKeeps ==
    ASSUME RecollectInv, ContextNext, UNCHANGED <<world, store, req, walk>>
    PROVE  RecollectInv'
  <1>0. StoreInv /\ RequestInv /\ ContextInv /\ WalkInv
    BY DEF RecollectInv
  <1>1. StoreInv' /\ RequestInv'
    BY <1>0, StillKeeps
  <1>2. WalkInv'
    BY <1>0 DEF WalkInv, ga, Mine
  <1>3. \A c : CardTrue(c)' <=> CardTrue(c)
    BY DEF CardTrue
  <1>4. ContextInv'
    <2> SUFFICES ASSUME world.kind \in Given3
                 PROVE  \A c \in ToSet(values') : CardTrue(c) /\ (stage' \notin {"none", "asked"} => ~c.closed /\ ~c.archived)
      BY <1>3 DEF ContextInv, ToSet
    <2>1. \A c \in ToSet(values) : CardTrue(c) /\ (stage \notin {"none", "asked"} => ~c.closed /\ ~c.archived)
      BY <1>0 DEF ContextInv, ToSet
    <2>2. CASE Keep
      <3> DEFINE places == {i \in DOMAIN values : Valid(values[i])}
                 valid == Those(values, places)
      <3>1. ToSet(values') \subseteq ToSet(valid)
        <4>1. values' = IF Planned THEN valid ELSE ByImportance(valid)
          BY <2>2 DEF Keep
        <4> HIDE DEF valid
        <4> QED BY <4>1, KeptIn
      <3>2. ASSUME NEW c \in ToSet(valid) PROVE c \in ToSet(values) /\ Valid(c)
        <4>1. c \in ToSet(values) /\ \E j \in places : c = values[j]
          BY ThoseIn
        <4> QED BY <4>1
      <3> HIDE DEF valid
      <3> QED BY <2>1, <3>1, <3>2 DEF Valid
    <2>3. CASE LimitValues
      <3>1. \A ms : \A c \in ToSet(DeduplicateValues(ms)) : c \in ToSet(ms)
        BY ThoseIn DEF DeduplicateValues
      <3>2. \A ms : \A c \in ToSet(LimitWithRequired(ms)) : c \in ToSet(ms)
        BY ThoseIn DEF LimitWithRequired
      <3>3. ToSet(values') \subseteq ToSet(values) /\ stage = "kept"
        BY <2>3, <3>1, <3>2 DEF LimitValues
      <3> QED BY <2>1, <3>3
    <2>4. CASE Fill
      <3>1. \A ms, chosen : \A c \in ToSet(InOrder(ms, chosen)) : c \in ToSet(ms)
        BY ThoseIn DEF InOrder
      <3>2. ToSet(values') \subseteq ToSet(values) /\ stage = "limited"
        BY <2>4, <3>1 DEF Fill
      <3> QED BY <2>1, <3>2
    <2>5. CASE Assemble \/ Pack \/ Hand
      BY <2>1, <2>5 DEF Assemble, Pack, Hand
    <2> QED BY <2>2, <2>3, <2>4, <2>5 DEF ContextNext
  <1> QED BY <1>1, <1>2, <1>4 DEF RecollectInv

-----------------------------------------------------------------------------
(* a walk *)

LEMMA WalkKeeps ==
    ASSUME RecollectInv, GraphNext, UNCHANGED <<world, store, req, stage, values>>
    PROVE  RecollectInv'
  <1>0. StoreInv /\ RequestInv /\ ContextInv /\ WalkInv
    BY DEF RecollectInv
  <1>1. StoreInv' /\ RequestInv'
    BY <1>0, StillKeeps
  <1>2. ContextInv'
    BY <1>0 DEF ContextInv, CardTrue
  <1> DEFINE mine == {e.id : e \in Mine}
             Shown(S) == \A m \in S : store[m].user = ga.user /\ store[m].org = ga.org
  <1>3. /\ DOMAIN walk = WalkFields
        /\ walk.pc # "ask" => world.kind = "graph"
        /\ world.kind = "graph" /\ ga.route \in {"traverse", "overview"} => walk.roots \subseteq mine
        /\ world.kind = "graph" /\ ga.route # "explore" => walk.nodes \subseteq mine /\ Shown(walk.shown)
    BY <1>0 DEF WalkInv
  <1>4. UNCHANGED <<ga, Mine>>
    BY DEF ga, Mine
  <1> DEFINE Goes == /\ DOMAIN walk' = WalkFields /\ world.kind = "graph"
                     /\ ga.route \in {"traverse", "overview"} => walk'.roots \subseteq mine
                     /\ ga.route # "explore" => walk'.nodes \subseteq mine /\ Shown(walk'.shown)
  <1>5. ASSUME Goes PROVE WalkInv'
    BY <1>4, <1>5 DEF WalkInv
  <1>6. \A ids : GetEntitiesByIds(ids) \subseteq mine
    BY DEF GetEntitiesByIds
  <1>7. GetByIdForUser(ga.source) \subseteq Mine /\ GetByNameIlike(ga.source) \subseteq Mine
    BY DEF GetByIdForUser, GetByNameIlike
  <1>8. ASSUME Goes PROVE RecollectInv'
    BY <1>1, <1>2, <1>5, <1>8 DEF RecollectInv
  <1> HIDE DEF mine, Shown
  <1>9. CASE AskTraverse \/ AskOverview \/ AskSearch
    <2>1. walk.pc = "ask" /\ world.kind = "graph"
      BY <1>9 DEF AskTraverse, AskOverview, AskSearch, AskedOf
    <2>2. \/ \E pc : walk' = [walk EXCEPT !.pc = pc]
          \/ \E ids, frontier : /\ walk' = [walk EXCEPT !.pc = "walk", !.roots = ids, !.found = ids, !.frontier = frontier]
                                /\ ga.route \in {"traverse", "overview"} => ids \subseteq mine
      <3>1. CASE AskTraverse
        <4> DEFINE root == IF GetByIdForUser(ga.source) # {} THEN GetByIdForUser(ga.source) ELSE GetByNameIlike(ga.source)
        <4>1. \/ Begin({e.id : e \in root}) \/ End("unknown") \/ End("failed")
          BY <3>1 DEF AskTraverse
        <4>2. {e.id : e \in root} \subseteq mine
          BY <1>7 DEF mine
        <4> HIDE DEF root
        <4> QED BY <4>1, <4>2 DEF Begin, End
      <3>2. CASE AskOverview
        <4>1. Begin(mine) \/ End("refused")
          BY <3>2 DEF AskOverview, mine
        <4> QED BY <4>1 DEF Begin, End
      <3>3. CASE AskSearch
        <4>1. PICK ids : Begin(ids) /\ ga.route = "search"
          BY <3>3 DEF AskSearch, AskedOf
        <4> QED BY <4>1 DEF Begin
      <3> QED BY <1>9, <3>1, <3>2, <3>3
    <2>3. Goes
      BY <1>3, <2>1, <2>2 DEF WalkFields
    <2> HIDE DEF Goes
    <2> QED BY <1>8, <2>3
  <1>10. CASE \E e \in walk.frontier : ExpandTraverse(e) \/ ExpandOverview(e) \/ ExpandSearch(e)
    <2>1. PICK e : ExpandTraverse(e) \/ ExpandOverview(e) \/ ExpandSearch(e)
      BY <1>10
    <2>2. world.kind = "graph"
      BY <1>3, <2>1 DEF ExpandTraverse, ExpandOverview, ExpandSearch, Expanding
    <2>3. Node(e) \subseteq mine
      BY DEF Node, mine, Mine, ScopedEntities
    <2>4. /\ DOMAIN walk' = WalkFields /\ walk'.roots = walk.roots /\ walk'.shown = walk.shown
          /\ walk'.nodes \subseteq walk.nodes \cup Node(e)
      <3>1. CASE ExpandTraverse(e) \/ ExpandOverview(e)
        <4>1. PICK near : Find(e, near)
          BY <3>1 DEF ExpandTraverse, ExpandOverview
        <4>2. \E a, b, c, d, f : walk' = [walk EXCEPT !.frontier = a, !.expanded = b, !.edges = c, !.next = d, !.found = f]
          BY <4>1 DEF Find
        <4> QED BY <1>3, <4>2 DEF WalkFields
      <3>2. CASE ExpandSearch(e)
        <4> DEFINE nodes == IF Cardinality(walk.nodes) < ga.limit THEN walk.nodes \cup Node(e) ELSE walk.nodes
        <4>1. \E a, b, c, d, f, g :
                 walk' = [walk EXCEPT !.frontier = a, !.expanded = b, !.nodes = nodes,
                                      !.linked = g, !.edges = c, !.next = d, !.found = f]
          BY <1>3, <3>2 DEF ExpandSearch, WalkFields
        <4>2. nodes \subseteq walk.nodes \cup Node(e)
          OBVIOUS
        <4> HIDE DEF nodes
        <4> QED BY <1>3, <4>1, <4>2 DEF WalkFields
      <3> QED BY <2>1, <3>1, <3>2
    <2>5. Goes
      BY <1>3, <2>2, <2>3, <2>4
    <2> HIDE DEF Goes
    <2> QED BY <1>8, <2>5
  <1>11. CASE NextRound \/ Relate
    <2>1. \/ \E a, b, c : walk' = [walk EXCEPT !.frontier = a, !.next = b, !.round = c]
          \/ walk' = walk
      BY <1>11 DEF NextRound, Relate
    <2>2. world.kind = "graph"
      BY <1>3, <1>11 DEF NextRound, Relate
    <2>3. Goes
      BY <1>3, <2>1, <2>2 DEF WalkFields
    <2> HIDE DEF Goes
    <2> QED BY <1>8, <2>3
  <1>12. CASE ShowTraverse \/ ShowOverview
    <2> DEFINE nodes == walk.roots \cup GetEntitiesByIds(walk.found)
    <2>1. world.kind = "graph" /\ ga.route \in {"traverse", "overview"}
      BY <1>3, <1>12 DEF ShowTraverse, ShowOverview, Walked
    <2>2. nodes \subseteq mine
      BY <1>3, <1>6, <2>1
    <2>3. Shown(GetLinkedToEntities(nodes))
      BY DEF Shown, GetLinkedToEntities, Linked, ScopeSelect
    <2>4. \/ walk' = [walk EXCEPT !.pc = "done", !.nodes = nodes, !.shown = GetLinkedToEntities(nodes)]
          \/ \E counts : walk' = [walk EXCEPT !.pc = "done", !.nodes = nodes, !.counts = counts]
      BY <1>12 DEF ShowTraverse, ShowOverview
    <2> HIDE DEF nodes
    <2>5. Goes
      BY <1>3, <2>1, <2>2, <2>3, <2>4 DEF WalkFields
    <2> HIDE DEF Goes
    <2> QED BY <1>8, <2>5
  <1>13. CASE ShowSearch
    <2> DEFINE page == GetManyByIds(store, walk.linked, ga.org)
               places == {i \in DOMAIN page : ScopeMatchesMemory(store[page[i]])}
               kept == Those(page, places)
               shown == ToSet(PageOf(kept, ga.limit))
    <2>1. world.kind = "graph" /\ ga.route = "search"
      BY <1>3, <1>13 DEF ShowSearch, Walked
    <2>2. walk' = [walk EXCEPT !.pc = "done", !.shown = shown]
      BY <1>13 DEF ShowSearch
    <2>3. ASSUME NEW m \in shown PROVE ScopeMatchesMemory(store[m])
      <3> HIDE DEF page
      <3>1. m \in ToSet(kept)
        BY PageIs
      <3>2. \E j \in places : m = page[j]
        BY <3>1, ThoseIn
      <3> QED BY <3>2
    <2> HIDE DEF shown
    <2>4. Shown(shown)
      BY <2>3 DEF Shown, ScopeMatchesMemory
    <2>5. Goes
      BY <1>3, <2>1, <2>2, <2>4 DEF WalkFields
    <2> HIDE DEF Goes
    <2> QED BY <1>8, <2>5
  <1>14. CASE GetEntityMemories
    <2> DEFINE of == {m \in ToSet(GetMemoriesForEntity(ga.source)) : store[m].org = ga.org}
    <2>1. world.kind = "graph" /\ ga.route = "memories"
      BY <1>14 DEF GetEntityMemories, AskedOf
    <2>2. \/ \E pc : walk' = [walk EXCEPT !.pc = pc]
          \/ /\ GetByIdForUser(ga.source) # {}
             /\ walk' = [walk EXCEPT !.pc = "done", !.roots = {ga.source}, !.nodes = @ \cup {ga.source}, !.shown = of]
      BY <1>14 DEF GetEntityMemories, End
    <2>3. ASSUME GetByIdForUser(ga.source) # {}
          PROVE  ga.source \in mine /\ Shown(of)
      <3>1. PICK e \in Mine : e.id = ga.source
        BY <2>3 DEF GetByIdForUser
      <3>2. e \in world.entities /\ e.org = ga.org /\ e.user = ga.user
        BY DEF Mine, ScopedEntities
      <3>3. ASSUME NEW m \in of PROVE store[m].user = ga.user /\ store[m].org = ga.org
        <4>1. m \in DOMAIN store /\ <<ga.source, m>> \in world.links
          BY PageIs, RankedIn DEF GetMemoriesForEntity, Sorted
        <4>2. world \in Worlds /\ store = world.rows
          BY <1>0, <2>1 DEF StoreInv
        <4> QED BY <3>1, <3>2, <4>1, <4>2, LinksAssumption
      <3> QED BY <3>1, <3>3 DEF mine, Shown
    <2> HIDE DEF of
    <2>4. Goes
      <3>1. CASE \E pc : walk' = [walk EXCEPT !.pc = pc]
        BY <1>3, <2>1, <3>1 DEF WalkFields
      <3>2. ASSUME GetByIdForUser(ga.source) # {},
                   walk' = [walk EXCEPT !.pc = "done", !.roots = {ga.source}, !.nodes = walk.nodes \cup {ga.source}, !.shown = of]
            PROVE  Goes
        <4>1. DOMAIN walk' = WalkFields /\ walk'.nodes = walk.nodes \cup {ga.source} /\ walk'.shown = of
          BY <1>3, <3>2 DEF WalkFields
        <4> QED BY <1>3, <2>1, <2>3, <3>2, <4>1
      <3> QED BY <1>3, <2>2, <3>1, <3>2 DEF WalkFields
    <2> HIDE DEF Goes
    <2> QED BY <1>8, <2>4
  <1>15. CASE ExploreGraph
    <2>1. world.kind = "graph" /\ ga.route = "explore"
      BY <1>15 DEF ExploreGraph, AskedOf
    <2>2. \/ \E pc : walk' = [walk EXCEPT !.pc = pc]
          \/ \E roots, shown, es, nodes :
                walk' = [walk EXCEPT !.pc = "done", !.roots = roots, !.shown = shown, !.edges = es, !.nodes = nodes]
      BY <1>15 DEF ExploreGraph, End
    <2>3. Goes
      BY <1>3, <2>1, <2>2 DEF WalkFields
    <2> HIDE DEF Goes
    <2> QED BY <1>8, <2>3
  <1> QED BY <1>9, <1>10, <1>11, <1>12, <1>13, <1>14, <1>15 DEF GraphNext

-----------------------------------------------------------------------------
(* what is within so many relations *)

LEMMA Counted ==
    ASSUME NEW S, 0 \in S, \A n \in Nat : n \in S => n + 1 \in S
    PROVE  Nat \subseteq S
  <1> DEFINE Bad == Nat \ S
  <1> SUFFICES ASSUME Bad # {} PROVE FALSE
    OBVIOUS
  <1>1. PICK n \in Bad : \A k \in Bad : n <= k
    BY LeastIn
  <1>2. n \in Nat /\ n # 0
    OBVIOUS
  <1>3. n - 1 \in Nat /\ n - 1 \in S
    BY <1>1, <1>2
  <1>4. (n - 1) + 1 \in S
    BY <1>3
  <1> QED BY <1>2, <1>4

\* A sequence of values, each given by the one before it.
Iterated(f, base, step) ==
    /\ f = [n \in Nat |-> IF n = 0 THEN base ELSE step[f[n - 1]]]

LEMMA IterationExists ==
    ASSUME NEW States, NEW base \in States, NEW step \in [States -> States]
    PROVE  \E f \in [Nat -> States] : Iterated(f, base, step)
  <1> DEFINE SoFar(a, n) == \A k \in 0 .. n : a[k] = IF k = 0 THEN base ELSE step[a[k - 1]]
             Some == {n \in Nat : \E a \in [0 .. n -> States] : SoFar(a, n)}
  <1>1. 0 \in Some
    <2> DEFINE a == [k \in 0 .. 0 |-> base]
    <2>1. a \in [0 .. 0 -> States] /\ SoFar(a, 0)
      OBVIOUS
    <2> QED BY <2>1
  <1>2. ASSUME NEW n \in Nat, n \in Some PROVE n + 1 \in Some
    <2>1. PICK a \in [0 .. n -> States] : SoFar(a, n)
      BY <1>2
    <2> DEFINE b == [k \in 0 .. n + 1 |-> IF k = 0 THEN base ELSE step[a[k - 1]]]
    <2>2. b \in [0 .. n + 1 -> States]
      <3> SUFFICES ASSUME NEW k \in 0 .. n + 1, k # 0 PROVE step[a[k - 1]] \in States
        OBVIOUS
      <3>1. a[k - 1] \in States
        OBVIOUS
      <3> QED BY <3>1
    <2>3. \A k \in 0 .. n : b[k] = a[k]
      BY <2>1
    <2>4. SoFar(b, n + 1)
      <3> SUFFICES ASSUME NEW k \in 0 .. n + 1 PROVE b[k] = IF k = 0 THEN base ELSE step[b[k - 1]]
        OBVIOUS
      <3>1. b[k] = IF k = 0 THEN base ELSE step[a[k - 1]]
        OBVIOUS
      <3> HIDE DEF b
      <3>2. k # 0 => k - 1 \in 0 .. n
        OBVIOUS
      <3>3. k # 0 => b[k - 1] = a[k - 1]
        BY <2>3, <3>2
      <3> QED BY <3>1, <3>3
    <2> HIDE DEF b, SoFar
    <2> QED BY <2>2, <2>4
  <1>3. Nat \subseteq Some
    <2> HIDE DEF Some
    <2> QED BY <1>1, <1>2, Counted
  <1> DEFINE pick == [n \in Nat |-> CHOOSE a \in [0 .. n -> States] : SoFar(a, n)]
             f == [n \in Nat |-> pick[n][n]]
  <1>4. ASSUME NEW n \in Nat PROVE pick[n] \in [0 .. n -> States] /\ SoFar(pick[n], n)
    <2>1. \E a \in [0 .. n -> States] : SoFar(a, n)
      BY <1>3
    <2> HIDE DEF SoFar
    <2> QED BY <2>1
  <1> HIDE DEF pick
  \* Any two agree as far as both go.
  <1>5. \A n, k \in Nat : k <= n => pick[n][k] = f[k]
    <2> DEFINE Same == {k \in Nat : \A n \in Nat : k <= n => pick[n][k] = f[k]}
    <2>1. 0 \in Same
      BY <1>4
    <2>2. ASSUME NEW k \in Nat, k \in Same PROVE k + 1 \in Same
      <3> SUFFICES ASSUME NEW n \in Nat, k + 1 <= n PROVE pick[n][k + 1] = f[k + 1]
        OBVIOUS
      <3>1. pick[n][k + 1] = step[pick[n][k]]
        <4>1. SoFar(pick[n], n) /\ k + 1 \in 0 .. n
          BY <1>4
        <4> QED BY <4>1
      <3>2. pick[k + 1][k + 1] = step[pick[k + 1][k]]
        <4>1. SoFar(pick[k + 1], k + 1) /\ k + 1 \in 0 .. k + 1
          BY <1>4
        <4> QED BY <4>1
      <3>3. pick[k + 1][k] = f[k] /\ pick[n][k] = f[k]
        BY <2>2
      <3> QED BY <3>1, <3>2, <3>3
    <2> HIDE DEF Same
    <2>3. Nat \subseteq Same
      BY <2>1, <2>2, Counted
    <2> QED BY <2>3 DEF Same
  <1>6. f \in [Nat -> States]
    BY <1>4
  <1>7. ASSUME NEW n \in Nat PROVE f[n] = IF n = 0 THEN base ELSE step[f[n - 1]]
    <2>1. f[n] = pick[n][n]
      OBVIOUS
    <2>2. pick[n][n] = IF n = 0 THEN base ELSE step[pick[n][n - 1]]
      <3>1. SoFar(pick[n], n) /\ n \in 0 .. n
        BY <1>4
      <3> QED BY <3>1
    <2>3. n # 0 => n - 1 \in Nat /\ n - 1 <= n
      OBVIOUS
    <2>4. n # 0 => pick[n][n - 1] = f[n - 1]
      BY <1>5, <2>3
    <2> HIDE DEF f
    <2> QED BY <2>1, <2>2, <2>4
  <1>8. f = [n \in Nat |-> IF n = 0 THEN base ELSE step[f[n - 1]]]
    <2> DEFINE g == [n \in Nat |-> IF n = 0 THEN base ELSE step[f[n - 1]]]
    <2>1. \A n \in Nat : f[n] = g[n]
      BY <1>7
    <2>2. f = [n \in Nat |-> f[n]] /\ g = [n \in Nat |-> g[n]]
      BY <1>6
    <2> HIDE DEF f, g
    <2>3. f = g
      BY <2>1, <2>2
    <2> QED BY <2>3 DEF g
  <1> HIDE DEF f
  <1> QED BY <1>6, <1>8 DEF Iterated

LEMMA ReachIs ==
    ASSUME NEW asked, NEW relations, NEW ids, NEW k \in Nat
    PROVE  /\ Reach(asked, relations, ids, 0) = ids
           /\ Reach(asked, relations, ids, k + 1) = Around(asked, relations, Reach(asked, relations, ids, k))
  <1> DEFINE all == ids \cup EndsOf(relations)
             States == SUBSET all
             step == [s \in States |-> Around(asked, relations, s)]
             Solves(f) == f = [n \in Nat |-> IF n = 0 THEN ids ELSE Around(asked, relations, f[n - 1])]
  <1>1. step \in [States -> States]
    <2>1. \A e : EndsOf(Along(asked, relations, e)) \subseteq EndsOf(relations)
      BY DEF EndsOf, Along
    <2> QED BY <2>1 DEF Around
  <1>2. PICK f \in [Nat -> States] : Iterated(f, ids, step)
    <2> HIDE DEF States, step
    <2>1. ids \in States
      BY DEF States
    <2> QED BY <1>1, <2>1, IterationExists
  <1>3. Solves(f)
    <2>1. \A n \in Nat : f[n] = IF n = 0 THEN ids ELSE step[f[n - 1]]
      BY <1>2 DEF Iterated
    <2>2. ASSUME NEW n \in Nat, n # 0 PROVE step[f[n - 1]] = Around(asked, relations, f[n - 1])
      <3>1. n - 1 \in Nat /\ f[n - 1] \in States
        BY <1>2, <2>2
      <3> QED BY <3>1
    <2> HIDE DEF States, step
    <2>3. \A n \in Nat : f[n] = IF n = 0 THEN ids ELSE Around(asked, relations, f[n - 1])
      BY <2>1, <2>2
    <2>4. f = [n \in Nat |-> f[n]]
      OBVIOUS
    <2> QED BY <2>3, <2>4
  <1> DEFINE within == CHOOSE g : Solves(g)
  <1>4. Solves(within)
    BY <1>3
  <1>5. \A n \in Nat : within[n] = IF n = 0 THEN ids ELSE Around(asked, relations, within[n - 1])
    <2> HIDE DEF within
    <2> QED BY <1>4
  <1>6. \A n : Reach(asked, relations, ids, n) = within[n]
    BY DEF Reach
  <1> HIDE DEF within
  <1>7. within[k + 1] = Around(asked, relations, within[k])
    <2>1. k + 1 \in Nat /\ k + 1 # 0 /\ (k + 1) - 1 = k
      OBVIOUS
    <2> QED BY <1>5, <2>1
  <1> QED BY <1>5, <1>6, <1>7

\* More relations reach farther, and so do more rounds.
LEMMA ReachGrows ==
    ASSUME NEW asked, NEW few, NEW many, few \subseteq many, NEW ids, NEW n \in Nat
    PROVE  /\ Reach(asked, few, ids, n) \subseteq Reach(asked, many, ids, n)
           /\ Reach(asked, few, ids, n) \subseteq Reach(asked, few, ids, n + 1)
  <1> DEFINE Good == {k \in Nat : Reach(asked, few, ids, k) \subseteq Reach(asked, many, ids, k)}
  <1>1. 0 \in Good
    BY ReachIs
  <1>2. ASSUME NEW k \in Nat, k \in Good PROVE k + 1 \in Good
    <2> DEFINE a == Reach(asked, few, ids, k)
               b == Reach(asked, many, ids, k)
    <2>1. a \subseteq b
      BY <1>2
    <2>2. \A e : EndsOf(Along(asked, few, e)) \subseteq EndsOf(Along(asked, many, e))
      BY DEF EndsOf, Along
    <2>3. /\ Reach(asked, few, ids, k + 1) = Around(asked, few, a)
          /\ Reach(asked, many, ids, k + 1) = Around(asked, many, b)
      BY ReachIs
    <2> HIDE DEF a, b
    <2>4. Around(asked, few, a) \subseteq Around(asked, many, b)
      BY <2>1, <2>2 DEF Around
    <2> QED BY <2>3, <2>4
  <1>3. Nat \subseteq Good
    <2> HIDE DEF Good
    <2> QED BY <1>1, <1>2, Counted
  <1>4. Reach(asked, few, ids, n) \subseteq Reach(asked, few, ids, n + 1)
    <2>1. Reach(asked, few, ids, n + 1) = Around(asked, few, Reach(asked, few, ids, n))
      BY ReachIs
    <2> QED BY <2>1 DEF Around
  <1> QED BY <1>3, <1>4

\* What the relations lead nowhere out of, holds all that is reached from it.
LEMMA ReachClosed ==
    ASSUME NEW asked, NEW relations, NEW ids, NEW S, ids \subseteq S,
           \A e \in S : EndsOf(Along(asked, relations, e)) \subseteq S, NEW n \in Nat
    PROVE  Reach(asked, relations, ids, n) \subseteq S
  <1> DEFINE Good == {k \in Nat : Reach(asked, relations, ids, k) \subseteq S}
  <1>1. 0 \in Good
    BY ReachIs
  <1>2. ASSUME NEW k \in Nat, k \in Good PROVE k + 1 \in Good
    <2>1. Around(asked, relations, Reach(asked, relations, ids, k)) \subseteq S
      BY <1>2 DEF Around
    <2>2. Reach(asked, relations, ids, k + 1) = Around(asked, relations, Reach(asked, relations, ids, k))
      BY ReachIs
    <2> QED BY <2>1, <2>2
  <1>3. Nat \subseteq Good
    <2> HIDE DEF Good
    <2> QED BY <1>1, <1>2, Counted
  <1> QED BY <1>3

\* Nothing is missing from a list in the order of distinct numbers.
LEMMA RankedAll ==
    ASSUME NEW S, IsFiniteSet(S), \A x, y \in S : x.id \in Int /\ (x.id = y.id => x = y)
    PROVE  ToSet(InRank(S, [x \in S |-> {y \in S : y.id > x.id}])) = S
  <1> DEFINE before == [x \in S |-> {y \in S : y.id > x.id}]
             n == Cardinality(S)
  <1>1. ASSUME NEW x \in S PROVE IsFiniteSet(before[x]) /\ Cardinality(before[x]) \in 0 .. n - 1
    <2>1. before[x] \subseteq S \ {x}
      OBVIOUS
    <2>2. IsFiniteSet(S \ {x}) /\ Cardinality(S \ {x}) = n - 1 /\ n \in Nat
      BY FS_RemoveElement, FS_CardinalityType
    <2> HIDE DEF before, n
    <2>3. IsFiniteSet(before[x]) /\ Cardinality(before[x]) <= n - 1
      BY <2>1, <2>2, FS_Subset
    <2>4. Cardinality(before[x]) \in Nat
      BY <2>3, FS_CardinalityType
    <2> QED BY <2>2, <2>3, <2>4
  <1>2. ASSUME NEW x \in S, NEW y \in S, y.id > x.id PROVE Cardinality(before[y]) < Cardinality(before[x])
    <2>1. before[y] \subseteq before[x] \ {y} /\ y \in before[x]
      BY <1>2
    <2> HIDE DEF before
    <2>2. IsFiniteSet(before[x] \ {y}) /\ Cardinality(before[x] \ {y}) = Cardinality(before[x]) - 1
      BY <1>1, <2>1, FS_RemoveElement
    <2>3. Cardinality(before[y]) <= Cardinality(before[x]) - 1
      BY <2>1, <2>2, FS_Subset
    <2> HIDE DEF n
    <2>4. Cardinality(before[x]) \in Nat /\ Cardinality(before[y]) \in Nat
      BY <1>1, FS_CardinalityType
    <2> QED BY <2>3, <2>4
  <1>3. ASSUME NEW x \in S PROVE \E i \in 1 .. n : InRank(S, before)[i] = x
    <2> DEFINE i == Cardinality(before[x]) + 1
               next(z) == Cardinality(before[z]) = i - 1
               z0 == CHOOSE z \in S : next(z) \/ \A y \in S : ~next(y)
    <2>1. i \in 1 .. n /\ next(x)
      <3> HIDE DEF before
      <3>1. Cardinality(before[x]) \in 0 .. n - 1 /\ n \in Nat
        BY <1>1, FS_CardinalityType
      <3> HIDE DEF n
      <3> QED BY <3>1
    <2>2. InRank(S, before)[i] = z0
      <3> HIDE DEF before
      <3> QED BY <2>1 DEF InRank
    <2> HIDE DEF next
    <2>3. z0 \in S /\ next(z0)
      BY <2>1
    <2> HIDE DEF z0, before, n
    <2>4. Cardinality(before[z0]) = Cardinality(before[x]) /\ Cardinality(before[x]) \in Int
      BY <1>1, <2>3, FS_CardinalityType DEF next
    <2>5. ~(z0.id > x.id) /\ ~(x.id > z0.id)
      BY <1>2, <2>3, <2>4
    <2>6. z0 = x
      BY <2>3, <2>5
    <2> QED BY <2>1, <2>2, <2>6
  <1>4. DOMAIN InRank(S, before) = 1 .. n
    <2> HIDE DEF before
    <2> QED BY DEF InRank
  <1> HIDE DEF before, n
  <1>5. S \subseteq ToSet(InRank(S, before))
    BY <1>3, <1>4 DEF ToSet
  <1>6. ToSet(InRank(S, before)) = S
    BY <1>5, RankedIn
  <1> QED BY <1>6 DEF before

-----------------------------------------------------------------------------
(* a walk reaches what it should *)

LEMMA NeighboursAre ==
    ASSUME world \in Worlds, edges \subseteq world.relations \cup world.coming, NEW e
    PROVE  LET near == {x \in edges : e \in {x.from, x.to}}
           IN  /\ ToSet(GetNeighbors(e)) \subseteq near
               /\ Full => ToSet(GetNeighbors(e)) = near
  <1> DEFINE near == {x \in edges : e \in {x.from, x.to}}
             order == InRank(near, [x \in near |-> {y \in near : y.id > x.id}])
  <1>1. GetNeighbors(e) = PageOf(order, NeighbourLimit)
    BY DEF GetNeighbors, Sorted
  <1>2. IsFiniteSet(near) /\ \A x, y \in near : x.id \in Int /\ (x.id = y.id => x = y)
    <2>1. near \subseteq world.relations \cup world.coming
      OBVIOUS
    <2>2. IsFiniteSet(world.relations \cup world.coming)
      BY RelationsAssumption
    <2>3. \A x, y \in world.relations \cup world.coming : x.id \in Int /\ (x.id = y.id => x = y)
      BY RelationsAssumption
    <2> HIDE DEF near
    <2> QED BY <2>1, <2>2, <2>3, FS_Subset
  <1>3. ToSet(order) = near
    <2> HIDE DEF near
    <2> QED BY <1>2, RankedAll
  <1>4. Full => Cardinality(near) <= NeighbourLimit
    BY DEF Full
  <1>5. Cardinality(near) \in Nat /\ NeighbourLimit \in Nat /\ DOMAIN order = 1 .. Cardinality(near)
    <2>1. NeighbourLimit \in Nat
      BY LimitsAssumption
    <2>2. DOMAIN order = 1 .. Cardinality(near)
      BY DEF InRank
    <2> HIDE DEF near, order
    <2> QED BY <1>2, <2>1, <2>2, FS_CardinalityType
  <1> HIDE DEF near, order
  <1>6. ToSet(PageOf(order, NeighbourLimit)) \subseteq near
    BY <1>3, PageIs
  <1>7. ASSUME Full PROVE near \subseteq ToSet(PageOf(order, NeighbourLimit))
    <2>1. \A i \in DOMAIN order : i \in Nat /\ i <= NeighbourLimit
      BY <1>4, <1>5, <1>7
    <2>2. \A i \in DOMAIN order : PageOf(order, NeighbourLimit)[i] = order[i] /\ i \in DOMAIN PageOf(order, NeighbourLimit)
      BY <2>1 DEF PageOf
    <2> QED BY <1>3, <2>2 DEF ToSet
  <1> QED BY <1>1, <1>6, <1>7 DEF near

\* A walk of one of the three makes some number of rounds, and its last is the one that was asked for.
LEMMA RoundsAre ==
    ASSUME world \in Worlds, world.kind = "graph", ga.route \in Walks
    PROVE  /\ Rounds \in Nat /\ Hops \in Nat
           /\ IF ga.route = "search" THEN Rounds = Hops + 1 ELSE Rounds = Hops
  <1>1. ga.hops \in Int /\ (ga.route = "search" => ga.hops > 0)
    BY RelationsAssumption DEF ga
  <1> QED BY <1>1 DEF Rounds, Hops, Walks, Least, AtLeast

\* The state of a walk that is neither where its rounds nor its findings are.
LEMMA WalkBegins ==
    ASSUME NEW ids, walk = Resting, walk' = [walk EXCEPT !.pc = "walk", !.roots = ids, !.found = ids,
                                                         !.frontier = IF Rounds = 0 THEN {} ELSE ids],
           ReachInv, UNCHANGED <<world, edges>>, world \in Worlds, world.kind = "graph"
    PROVE  ReachInv'
  <1> SUFFICES ASSUME ga.route \in Walks PROVE (NoFarther /\ NoneMissed)'
    BY DEF ReachInv, ga, Resting
  <1>1. UNCHANGED <<ga, Rounds>>
    BY DEF ga, Rounds
  <1>2. /\ walk'.round = 1 /\ walk'.roots = ids /\ walk'.found = ids /\ walk'.next = {} /\ walk'.expanded = {}
        /\ walk'.frontier = IF Rounds = 0 THEN {} ELSE ids
    BY DEF Resting
  <1>3. Rounds \in Nat
    BY RoundsAre
  <1>4. \A R : Reach(ga, R, ids, 0) = ids /\ ids \subseteq Reach(ga, R, ids, 1)
    <2>1. 0 \in Nat /\ 0 + 1 = 1
      OBVIOUS
    <2>2. \A R : Reach(ga, R, ids, 0) = ids /\ Reach(ga, R, ids, 0 + 1) = Around(ga, R, Reach(ga, R, ids, 0))
      BY ReachIs
    <2> QED BY <2>1, <2>2 DEF Around
  <1>5. NoFarther'
    BY <1>1, <1>2, <1>3, <1>4 DEF NoFarther, Visited, Outer, AtLeast
  <1>6. NoneMissed'
    BY <1>1, <1>2, <1>3, <1>4 DEF NoneMissed, Visited, Inner
  <1> QED BY <1>5, <1>6

\* An entity of the frontier is read.
LEMMA ExpandReaches ==
    ASSUME ReachInv, walk.pc = "walk", ga.route \in Walks, UNCHANGED <<world, edges>>, world \in Worlds, world.kind = "graph",
           NEW e \in walk.frontier, NEW found,
           found \subseteq EndsOf(Along(ga, edges, e)),
           Full /\ (ga.route = "search" => walk.round < Rounds) => EndsOf(Along(ga, world.relations, e)) \subseteq found,
           walk'.pc = "walk", UNCHANGED <<walk.round, walk.roots>>,
           walk'.frontier = walk.frontier \ {e}, walk'.expanded = walk.expanded \cup {e},
           walk'.found = walk.found \cup found,
           walk'.next \subseteq walk.next \cup found, walk.next \cup (found \ walk.found) \subseteq walk'.next
    PROVE  ReachInv'
  <1>0. NoFarther /\ NoneMissed /\ world.relations \subseteq edges /\ edges \subseteq world.relations \cup world.coming
    BY DEF ReachInv
  <1>1. UNCHANGED <<ga, Rounds, Full>>
    BY DEF ga, Rounds, Full
  <1>2. Visited' = Visited
    BY DEF Visited
  <1>3. Rounds # 0 /\ e \in Outer(walk.round - 1)
    BY <1>0 DEF NoFarther, Visited
  <1>4. found \subseteq Outer(walk.round)
    <2> DEFINE k == walk.round - 1
    <2>1. k \in Nat /\ k + 1 = walk.round
      BY <1>0 DEF NoFarther
    <2> HIDE DEF k
    <2>2. Outer(k + 1) = Around(ga, edges, Outer(k))
      BY <2>1, ReachIs DEF Outer
    <2>3. EndsOf(Along(ga, edges, e)) \subseteq Outer(k + 1)
      BY <1>3, <2>2 DEF Around, k
    <2> QED BY <2>1, <2>3
  <1>5. NoFarther'
    <2>1. Outer(walk.round)' = Outer(walk.round) /\ Outer(walk.round - 1)' = Outer(walk.round - 1)
      BY <1>1 DEF Outer
    <2> QED BY <1>0, <1>1, <1>2, <1>3, <1>4, <2>1 DEF NoFarther
  <1>6. NoneMissed'
    <2>1. Inner(walk.round - 1)' = Inner(walk.round - 1)
      BY <1>1 DEF Inner
    <2>2. (walk.roots \cup Visited \cup walk.next \subseteq walk.found)'
      BY <1>0, <1>2 DEF NoneMissed
    <2>3. (Rounds # 0 => walk.found \subseteq Visited \cup walk.next)'
      BY <1>0, <1>1, <1>2 DEF NoneMissed
    <2>4. (Full /\ Rounds # 0 => Inner(walk.round - 1) \subseteq Visited)'
      BY <1>0, <1>1, <1>2, <2>1 DEF NoneMissed
    <2>5. ASSUME Full', (ga.route = "search" => walk.round < Rounds)', NEW d \in walk'.expanded
          PROVE  EndsOf(Along(ga, world.relations, d)) \subseteq walk'.found
      <3>1. Full /\ (ga.route = "search" => walk.round < Rounds)
        BY <1>1, <2>5
      <3>2. CASE d = e
        BY <3>1, <3>2
      <3>3. CASE d \in walk.expanded
        BY <1>0, <3>1, <3>3 DEF NoneMissed
      <3> QED BY <3>2, <3>3
    <2> QED BY <1>1, <2>2, <2>3, <2>4, <2>5 DEF NoneMissed
  <1> QED BY <1>0, <1>5, <1>6 DEF ReachInv

\* The next round begins.
LEMMA RoundReaches ==
    ASSUME ReachInv, NextRound, UNCHANGED world, world \in Worlds, world.kind = "graph", DOMAIN walk = WalkFields
    PROVE  ReachInv'
  <1>0. world.relations \subseteq edges /\ edges \subseteq world.relations \cup world.coming /\ UNCHANGED edges
    BY DEF ReachInv, NextRound
  <1>1. UNCHANGED <<ga, Rounds, Full>>
    BY <1>0 DEF ga, Rounds, Full
  <1>2. /\ walk.pc = "walk" /\ walk.frontier = {} /\ walk.round < Rounds /\ walk'.pc = "walk"
        /\ walk'.frontier = walk.next \ walk.expanded /\ walk'.next = {} /\ walk'.round = walk.round + 1
        /\ UNCHANGED <<walk.expanded, walk.found, walk.roots>>
    BY DEF NextRound, Beyond, WalkFields
  <1> SUFFICES ASSUME ga.route \in Walks PROVE (NoFarther /\ NoneMissed)'
    BY <1>0, <1>1, <1>2 DEF ReachInv
  <1>3. NoFarther /\ NoneMissed
    BY <1>2 DEF ReachInv
  <1>4. Rounds \in Nat /\ walk.round \in Nat \ {0} /\ Rounds # 0 /\ (walk.round + 1) - 1 = walk.round
    BY <1>2, <1>3, RoundsAre DEF NoFarther
  <1>5. Visited' = walk.next \cup walk.expanded
    BY <1>2 DEF Visited
  <1>6. walk.found \subseteq Outer(walk.round) /\ Outer(walk.round) \subseteq Outer(walk.round + 1)
    <2>1. Outer(walk.round) \subseteq Outer(walk.round + 1)
      BY <1>4, ReachGrows DEF Outer
    <2> QED BY <1>3, <2>1 DEF NoFarther
  <1>7. NoFarther'
    <2>1. Outer(walk.round - 1)' = Outer(walk.round) /\ Outer(walk.round)' = Outer(walk.round + 1)
      BY <1>0, <1>1, <1>2, <1>4 DEF Outer
    <2>2. Visited' \subseteq Outer(walk.round)
      BY <1>3, <1>5, <1>6 DEF NoneMissed, Visited
    <2> QED BY <1>1, <1>2, <1>4, <1>6, <2>1, <2>2 DEF NoFarther, AtLeast
  <1>8. NoneMissed'
    <2>1. (walk.roots \cup Visited \cup walk.next \subseteq walk.found)'
      BY <1>2, <1>3, <1>5 DEF NoneMissed, Visited
    <2>2. walk.found \subseteq Visited'
      BY <1>2, <1>3, <1>4, <1>5 DEF NoneMissed, Visited
    <2>3. ASSUME Full PROVE Inner(walk.round) \subseteq Visited'
      <3> DEFINE k == walk.round - 1
      <3>1. k \in Nat /\ k + 1 = walk.round
        BY <1>4
      <3>2. Inner(k) \subseteq walk.expanded
        BY <1>2, <1>3, <1>4, <2>3 DEF NoneMissed, Visited
      <3> HIDE DEF k
      <3>3. Inner(k + 1) = Around(ga, world.relations, Inner(k))
        BY <3>1, ReachIs DEF Inner
      <3>4. \A e \in walk.expanded : EndsOf(Along(ga, world.relations, e)) \subseteq walk.found
        BY <1>2, <1>3, <2>3 DEF NoneMissed
      <3>5. walk.expanded \subseteq walk.found
        BY <1>3 DEF NoneMissed, Visited
      <3>6. Around(ga, world.relations, Inner(k)) \subseteq walk.found
        BY <3>2, <3>4, <3>5 DEF Around
      <3> QED BY <2>2, <3>1, <3>3, <3>6
    <2>4. Inner(walk.round - 1)' = Inner(walk.round)
      BY <1>1, <1>2, <1>4 DEF Inner
    <2>5. ASSUME Full, NEW e \in walk.expanded
          PROVE  EndsOf(Along(ga, world.relations, e)) \subseteq walk.found
      BY <1>2, <1>3, <2>5 DEF NoneMissed
    <2> QED BY <1>1, <1>2, <2>1, <2>2, <2>3, <2>4, <2>5 DEF NoneMissed
  <1> QED BY <1>7, <1>8

\* Another observation has committed a relation.
LEMMA RelateReaches ==
    ASSUME ReachInv, Relate, UNCHANGED world, world \in Worlds, world.kind = "graph"
    PROVE  ReachInv'
  <1>1. walk.pc = "walk" /\ UNCHANGED walk /\ \E x \in world.coming : edges' = edges \cup {x}
    BY DEF Relate
  <1>2. /\ world.relations \subseteq edges /\ edges \subseteq edges'
        /\ edges' \subseteq world.relations \cup world.coming
    BY <1>1 DEF ReachInv
  <1>3. UNCHANGED <<ga, Rounds, Visited>>
    BY <1>1 DEF ga, Rounds, Visited
  <1> SUFFICES ASSUME ga.route \in Walks PROVE (NoFarther /\ NoneMissed)'
    BY <1>1, <1>2, <1>3 DEF ReachInv
  <1>4. NoFarther /\ NoneMissed
    BY <1>1 DEF ReachInv
  <1>5. \A k \in Nat : Outer(k) \subseteq Outer(k)' /\ Inner(k)' = Inner(k)
    <2> SUFFICES ASSUME NEW k \in Nat PROVE Outer(k) \subseteq Outer(k)' /\ Inner(k)' = Inner(k)
      OBVIOUS
    <2>1. Reach(ga, edges, walk.roots, k) \subseteq Reach(ga, edges', walk.roots, k)
      BY <1>2, ReachGrows
    <2> QED BY <1>1, <1>3, <2>1 DEF Outer, Inner
  <1>6. Full' => Full
    <2> SUFFICES ASSUME Full', NEW e PROVE Cardinality({x \in edges : e \in {x.from, x.to}}) <= NeighbourLimit
      BY DEF Full
    <2> DEFINE now == {x \in edges : e \in {x.from, x.to}}
               then == {x \in edges' : e \in {x.from, x.to}}
    <2>1. now \subseteq then /\ then \subseteq world.relations \cup world.coming /\ Cardinality(then) <= NeighbourLimit
      BY <1>2 DEF Full
    <2>2. IsFiniteSet(world.relations \cup world.coming)
      BY RelationsAssumption
    <2> HIDE DEF now, then
    <2>3. IsFiniteSet(then) /\ IsFiniteSet(now) /\ Cardinality(now) <= Cardinality(then)
      BY <2>1, <2>2, FS_Subset
    <2>4. Cardinality(now) \in Nat /\ Cardinality(then) \in Nat /\ NeighbourLimit \in Nat
      BY <2>3, FS_CardinalityType, LimitsAssumption
    <2>5. Cardinality(now) <= NeighbourLimit
      BY <2>1, <2>3, <2>4
    <2> QED BY <2>5 DEF now
  <1>7. walk.round \in Nat /\ walk.round - 1 \in Nat
    BY <1>4 DEF NoFarther
  <1>8. NoFarther'
    <2>1. Outer(walk.round) \subseteq Outer(walk.round)' /\ Outer(walk.round - 1) \subseteq Outer(walk.round - 1)'
      BY <1>1, <1>5, <1>7 DEF Outer
    <2> QED BY <1>1, <1>3, <1>4, <2>1 DEF NoFarther
  <1>9. NoneMissed'
    <2>1. Inner(walk.round - 1)' = Inner(walk.round - 1)
      BY <1>1, <1>3 DEF Inner
    <2> QED BY <1>1, <1>3, <1>4, <1>6, <2>1 DEF NoneMissed
  <1> QED BY <1>8, <1>9

\* What is shown at the end.
LEMMA ShowReaches ==
    ASSUME ReachInv, ShowTraverse \/ ShowOverview \/ ShowSearch, UNCHANGED <<world, store>>, world \in Worlds,
           world.kind = "graph", DOMAIN walk = WalkFields
    PROVE  ReachInv'
  <1>1. /\ walk.pc = "walk" /\ walk.frontier = {} /\ (walk.next \subseteq walk.expanded \/ walk.round >= Rounds)
        /\ ga.route \in Walks /\ UNCHANGED edges
    BY DEF ShowTraverse, ShowOverview, ShowSearch, Walked, Beyond, Walks
  <1>2. \E nodes, counts, shown : walk' = [walk EXCEPT !.pc = "done", !.nodes = nodes, !.counts = counts, !.shown = shown]
    <2> DEFINE Goes == \E nodes, counts, shown :
                          walk' = [walk EXCEPT !.pc = "done", !.nodes = nodes, !.counts = counts, !.shown = shown]
    <2> SUFFICES Goes
      OBVIOUS
    <2>1. CASE ShowTraverse
      <3>1. PICK nodes, shown : walk' = [walk EXCEPT !.pc = "done", !.nodes = nodes, !.shown = shown]
        BY <2>1 DEF ShowTraverse
      <3>2. walk' = [walk EXCEPT !.pc = "done", !.nodes = nodes, !.counts = walk.counts, !.shown = shown]
        BY <3>1 DEF WalkFields
      <3> QED BY <3>2
    <2>2. CASE ShowOverview
      <3>1. PICK nodes, counts : walk' = [walk EXCEPT !.pc = "done", !.nodes = nodes, !.counts = counts]
        BY <2>2 DEF ShowOverview
      <3>2. walk' = [walk EXCEPT !.pc = "done", !.nodes = nodes, !.counts = counts, !.shown = walk.shown]
        BY <3>1 DEF WalkFields
      <3> QED BY <3>2
    <2>3. CASE ShowSearch
      <3>1. PICK shown : walk' = [walk EXCEPT !.pc = "done", !.shown = shown]
        BY <2>3 DEF ShowSearch
      <3>2. walk' = [walk EXCEPT !.pc = "done", !.nodes = walk.nodes, !.counts = walk.counts, !.shown = shown]
        BY <3>1 DEF WalkFields
      <3> QED BY <3>2
    <2> HIDE DEF Goes
    <2> QED BY <2>1, <2>2, <2>3
  <1>3. walk'.pc = "done" /\ UNCHANGED <<walk.round, walk.roots, walk.found, walk.expanded, walk.frontier, walk.next>>
    BY <1>2 DEF WalkFields
  <1>4. UNCHANGED <<ga, Rounds, Full, Visited, Mine>>
    BY <1>1, <1>3 DEF ga, Rounds, Full, Visited, Mine
  <1>5. /\ NoFarther /\ NoneMissed
        /\ world.relations \subseteq edges /\ edges \subseteq world.relations \cup world.coming
    BY <1>1 DEF ReachInv
  <1>6. NoFarther' /\ NoneMissed'
    <2>1. UNCHANGED <<Outer(walk.round), Outer(walk.round - 1), Inner(walk.round - 1)>>
      BY <1>1, <1>3, <1>4 DEF Outer, Inner
    <2> QED BY <1>3, <1>4, <1>5, <2>1 DEF NoFarther, NoneMissed
  <1>7. ASSUME ga.route = "traverse", NEW m \in DOMAIN store, NEW e \in Mine,
               store[m].user = ga.user, store[m].org = ga.org, store[m].to = None,
               e.id \in walk.found, <<e.id, m>> \in world.links
        PROVE  m \in walk'.shown
    <2>1. ShowTraverse
      BY <1>7 DEF ShowOverview, ShowSearch, Walked
    <2> DEFINE nodes == walk.roots \cup GetEntitiesByIds(walk.found)
    <2>2. walk'.shown = GetLinkedToEntities(nodes)
      BY <2>1 DEF ShowTraverse, WalkFields
    <2>3. e.id \in nodes
      BY <1>7 DEF GetEntitiesByIds
    <2> HIDE DEF nodes
    <2>4. m \in GetLinkedToEntities(nodes)
      BY <1>7, <2>3 DEF GetLinkedToEntities, Linked, ScopeSelect
    <2> QED BY <2>2, <2>4
  <1>8. AtItsEnd'
    BY <1>1, <1>3, <1>4, <1>7 DEF AtItsEnd
  <1> QED BY <1>1, <1>3, <1>4, <1>5, <1>6, <1>8 DEF ReachInv

LEMMA WalkReach ==
    ASSUME ReachInv, GraphNext, UNCHANGED <<world, store>>, world \in Worlds, DOMAIN walk = WalkFields,
           walk.pc # "ask" => world.kind = "graph"
    PROVE  ReachInv'
  <1>0. /\ walk.pc = "ask" => walk = Resting
        /\ world.relations \subseteq edges /\ edges \subseteq world.relations \cup world.coming
    BY DEF ReachInv
  <1>1. ASSUME NEW pc \in {"unknown", "failed", "refused"}, walk' = [walk EXCEPT !.pc = pc], UNCHANGED edges PROVE ReachInv'
    <2>1. walk'.pc = pc
      BY <1>1 DEF WalkFields
    <2> QED BY <1>0, <1>1, <2>1 DEF ReachInv
  <1>2. CASE AskTraverse \/ AskOverview \/ AskSearch
    <2>1. walk.pc = "ask" /\ world.kind = "graph" /\ UNCHANGED edges
      BY <1>2 DEF AskTraverse, AskOverview, AskSearch, AskedOf
    <2>2. \/ \E ids : Begin(ids)
          \/ \E pc \in {"unknown", "failed", "refused"} : walk' = [walk EXCEPT !.pc = pc]
      <3>1. CASE AskTraverse
        BY <3>1 DEF AskTraverse, End
      <3>2. CASE AskOverview
        BY <3>2 DEF AskOverview, End
      <3>3. CASE AskSearch
        BY <3>3 DEF AskSearch
      <3> QED BY <1>2, <3>1, <3>2, <3>3
    <2>3. ASSUME NEW ids, Begin(ids) PROVE ReachInv'
      BY <1>0, <2>1, <2>3, WalkBegins DEF Begin
    <2> QED BY <1>1, <2>1, <2>2, <2>3
  <1>3. CASE \E e \in walk.frontier : ExpandTraverse(e) \/ ExpandOverview(e) \/ ExpandSearch(e)
    <2>1. PICK e \in walk.frontier : ExpandTraverse(e) \/ ExpandOverview(e) \/ ExpandSearch(e)
      BY <1>3
    <2> DEFINE all == ToSet(GetNeighbors(e))
               near == {x \in edges : e \in {x.from, x.to}}
    <2>2. walk.pc = "walk" /\ ga.route \in Walks /\ world.kind = "graph" /\ UNCHANGED edges
      BY <2>1 DEF ExpandTraverse, ExpandOverview, ExpandSearch, Expanding, Walks
    <2>3. all \subseteq near /\ (Full => all = near)
      BY <1>0, NeighboursAre
    <2> HIDE DEF all
    <2>4. CASE ExpandTraverse(e) \/ ExpandOverview(e)
      <3> DEFINE along == {x \in all : ga.route = "traverse" => ga.types = {} \/ x.type \in ga.types}
      <3>1. Find(e, along) /\ ga.route \in {"traverse", "overview"}
        <4>1. CASE ExpandTraverse(e)
          <5>1. Find(e, {x \in all : ga.types = {} \/ x.type \in ga.types}) /\ ga.route = "traverse"
            BY <4>1 DEF ExpandTraverse, Expanding, all
          <5>2. along = {x \in all : ga.types = {} \/ x.type \in ga.types}
            BY <5>1
          <5> QED BY <5>1, <5>2
        <4>2. CASE ExpandOverview(e)
          <5>1. Find(e, all) /\ ga.route = "overview"
            BY <4>2 DEF ExpandOverview, Expanding, all
          <5>2. along = all
            BY <5>1
          <5> QED BY <5>1, <5>2
        <4> QED BY <2>4, <4>1, <4>2
      <3>2. along \subseteq Along(ga, edges, e)
        BY <2>3, <3>1 DEF Along
      <3>3. Full => Along(ga, world.relations, e) \subseteq along
        BY <1>0, <2>3, <3>1 DEF Along
      <3> HIDE DEF along
      <3>4. EndsOf(along) \subseteq EndsOf(Along(ga, edges, e)) /\ (Full => EndsOf(Along(ga, world.relations, e)) \subseteq EndsOf(along))
        BY <3>2, <3>3 DEF EndsOf
      <3> DEFINE found == EndsOf(along)
      <3>5. /\ walk'.pc = "walk" /\ UNCHANGED <<walk.round, walk.roots>>
            /\ walk'.frontier = walk.frontier \ {e} /\ walk'.expanded = walk.expanded \cup {e}
            /\ walk'.found = walk.found \cup found /\ walk'.next = walk.next \cup (found \ walk.found)
        BY <2>2, <3>1 DEF Find, WalkFields
      <3> HIDE DEF found
      <3> QED BY <2>2, <3>4, <3>5, ExpandReaches DEF found
    <2>5. CASE ExpandSearch(e)
      <3> DEFINE along == {x \in all : Followed(ga, e, x)}
                 found == IF walk.round < Rounds THEN EndsOf(along) ELSE {}
      <3>1. ga.route = "search"
        BY <2>5 DEF ExpandSearch, Expanding
      <3>2. along \subseteq Along(ga, edges, e)
        BY <2>3, <3>1 DEF Along, Followed
      <3>3. Full => Along(ga, world.relations, e) \subseteq along
        BY <1>0, <2>3, <3>1 DEF Along
      <3> HIDE DEF along
      <3>4. /\ found \subseteq EndsOf(Along(ga, edges, e))
            /\ Full /\ walk.round < Rounds => EndsOf(Along(ga, world.relations, e)) \subseteq found
        BY <3>2, <3>3 DEF EndsOf
      <3> HIDE DEF found
      <3>5. \E a, b, c : walk' = [walk EXCEPT !.frontier = walk.frontier \ {e}, !.expanded = walk.expanded \cup {e},
                                              !.nodes = a, !.linked = b, !.edges = c,
                                              !.next = walk.next \cup found, !.found = walk.found \cup found]
        BY <2>5 DEF ExpandSearch, WalkFields, found, along, all
      <3>6. /\ walk'.pc = "walk" /\ UNCHANGED <<walk.round, walk.roots>>
            /\ walk'.frontier = walk.frontier \ {e} /\ walk'.expanded = walk.expanded \cup {e}
            /\ walk'.found = walk.found \cup found /\ walk'.next = walk.next \cup found
        BY <2>2, <3>5 DEF WalkFields
      <3> QED BY <2>2, <3>1, <3>4, <3>6, ExpandReaches
    <2> QED BY <2>1, <2>4, <2>5
  <1>4. CASE NextRound
    <2>1. world.kind = "graph"
      BY <1>4 DEF NextRound
    <2> QED BY <1>4, <2>1, RoundReaches
  <1>5. CASE ShowTraverse \/ ShowOverview \/ ShowSearch
    <2>1. world.kind = "graph"
      BY <1>5 DEF ShowTraverse, ShowOverview, ShowSearch, Walked
    <2> QED BY <1>5, <2>1, ShowReaches
  <1>6. CASE GetEntityMemories \/ ExploreGraph
    <2>1. walk.pc = "ask" /\ ga.route \notin Walks /\ UNCHANGED <<ga, edges>>
      BY <1>6 DEF GetEntityMemories, ExploreGraph, AskedOf, Walks, ga
    <2>2. walk'.pc # "ask"
      BY <1>6 DEF GetEntityMemories, ExploreGraph, End, WalkFields
    <2> QED BY <1>0, <2>1, <2>2 DEF ReachInv
  <1>7. CASE Relate
    <2>1. world.kind = "graph"
      BY <1>7 DEF Relate
    <2> QED BY <1>7, <2>1, RelateReaches
  <1> QED BY <1>2, <1>3, <1>4, <1>5, <1>6, <1>7 DEF GraphNext

\* More rounds reach farther.
LEMMA RoundsReach ==
    ASSUME NEW asked, NEW relations, NEW ids, NEW n \in Nat, NEW k \in Nat, n <= k
    PROVE  Reach(asked, relations, ids, n) \subseteq Reach(asked, relations, ids, k)
  <1> DEFINE Good == {d \in Nat : Reach(asked, relations, ids, n) \subseteq Reach(asked, relations, ids, n + d)}
  <1>1. 0 \in Good
    OBVIOUS
  <1>2. ASSUME NEW d \in Nat, d \in Good PROVE d + 1 \in Good
    <2>1. n + d \in Nat /\ n + (d + 1) = (n + d) + 1
      OBVIOUS
    <2>2. Reach(asked, relations, ids, n + d) \subseteq Reach(asked, relations, ids, (n + d) + 1)
      BY <2>1, ReachGrows
    <2> QED BY <1>2, <2>1, <2>2
  <1>3. Nat \subseteq Good
    <2> HIDE DEF Good
    <2> QED BY <1>1, <1>2, Counted
  <1>4. k - n \in Nat /\ n + (k - n) = k
    OBVIOUS
  <1>5. k - n \in Good
    BY <1>3, <1>4
  <1> QED BY <1>4, <1>5

LEMMA ReachedIs ==
    ASSUME ReachInv, world \in Worlds, world.kind = "graph", store = world.rows
    PROVE  WalkReaches
  <1> SUFFICES ASSUME walk.pc = "done", ga.route \in Walks PROVE WalkReaches
    BY DEF WalkReaches
  <1> DEFINE reached == IF ga.route = "search" THEN walk.expanded ELSE walk.found
  <1>1. NoFarther /\ NoneMissed /\ AtItsEnd
    BY DEF ReachInv
  <1>2. /\ Rounds \in Nat /\ Hops \in Nat
        /\ IF ga.route = "search" THEN Rounds = Hops + 1 ELSE Rounds = Hops
    BY RoundsAre
  <1>3. /\ walk.round \in Nat \ {0} /\ walk.round <= AtLeast(1, Rounds) /\ walk.round - 1 \in Nat
        /\ (walk.round - 1) + 1 = walk.round
        /\ Visited = walk.expanded /\ walk.expanded \subseteq walk.found /\ walk.roots \subseteq walk.found
    BY <1>1 DEF NoFarther, NoneMissed, AtItsEnd, Visited
  <1>4. reached \subseteq Outer(Hops)
    <2>1. CASE ga.route = "search"
      <3>1. walk.round - 1 <= Hops
        BY <1>2, <1>3, <2>1 DEF AtLeast
      <3>2. Outer(walk.round - 1) \subseteq Outer(Hops)
        BY <1>2, <1>3, <3>1, RoundsReach DEF Outer
      <3> QED BY <1>1, <1>3, <2>1, <3>2 DEF NoFarther
    <2>2. CASE ga.route # "search" /\ Rounds = 0
      <3>1. walk.found \subseteq walk.roots /\ Hops = 0
        BY <1>1, <1>2, <2>2 DEF NoFarther
      <3>2. Outer(0) = walk.roots
        BY ReachIs DEF Outer
      <3> QED BY <2>2, <3>1, <3>2
    <2>3. CASE ga.route # "search" /\ Rounds # 0
      <3>1. walk.round <= Hops
        BY <1>2, <1>3, <2>3 DEF AtLeast
      <3>2. Outer(walk.round) \subseteq Outer(Hops)
        BY <1>2, <1>3, <3>1, RoundsReach DEF Outer
      <3> QED BY <1>1, <2>3, <3>2 DEF NoFarther
    <2> QED BY <2>1, <2>2, <2>3
  <1>5. Uncapped => Full
    <2> SUFFICES ASSUME Uncapped, NEW e PROVE Cardinality({x \in edges : e \in {x.from, x.to}}) <= NeighbourLimit
      BY DEF Full
    <2>1. CASE e \in UNION {{x.from, x.to} : x \in edges}
      BY <2>1 DEF Uncapped
    <2>2. CASE e \notin UNION {{x.from, x.to} : x \in edges}
      <3>1. {x \in edges : e \in {x.from, x.to}} = {}
        BY <2>2
      <3>2. Cardinality({}) = 0 /\ 0 <= NeighbourLimit
        BY FS_EmptySet, LimitsAssumption
      <3> QED BY <3>1, <3>2
    <2> QED BY <2>1, <2>2
  <1>6. ASSUME Full PROVE Inner(Hops) \subseteq reached
    <2>1. CASE Rounds = 0
      <3>1. ga.route # "search" /\ Hops = 0
        BY <1>2, <2>1
      <3>2. Inner(0) = walk.roots
        BY ReachIs DEF Inner
      <3> QED BY <1>3, <3>1, <3>2
    <2>2. CASE Rounds # 0 /\ walk.round >= Rounds
      <3>1. walk.round = Rounds
        BY <1>2, <1>3, <2>2 DEF AtLeast
      <3>2. Inner(walk.round - 1) \subseteq walk.expanded
        BY <1>1, <1>3, <1>6, <2>2 DEF NoneMissed
      <3>3. CASE ga.route = "search"
        <4>1. walk.round - 1 = Hops
          BY <1>2, <3>1, <3>3
        <4> QED BY <3>2, <3>3, <4>1
      <3>4. CASE ga.route # "search"
        <4> DEFINE k == walk.round - 1
        <4>1. Hops = k + 1 /\ k \in Nat
          BY <1>2, <1>3, <3>1, <3>4
        <4>2. Inner(k) \subseteq walk.expanded
          BY <3>2
        <4> HIDE DEF k
        <4>3. Inner(k + 1) = Around(ga, world.relations, Inner(k))
          BY <4>1, ReachIs DEF Inner
        <4>4. \A e \in walk.expanded : EndsOf(Along(ga, world.relations, e)) \subseteq walk.found
          BY <1>1, <1>6, <3>4 DEF NoneMissed
        <4>5. Around(ga, world.relations, Inner(k)) \subseteq walk.found
          BY <1>3, <4>2, <4>4 DEF Around
        <4> QED BY <3>4, <4>1, <4>3, <4>5
      <3> QED BY <3>3, <3>4
    <2>3. CASE Rounds # 0 /\ walk.round < Rounds
      <3>1. walk.next \subseteq walk.expanded
        BY <1>1, <1>2, <1>3, <2>3 DEF AtItsEnd
      <3>2. walk.found \subseteq walk.expanded
        BY <1>1, <1>3, <2>3, <3>1 DEF NoneMissed
      <3>3. \A e \in walk.expanded : EndsOf(Along(ga, world.relations, e)) \subseteq walk.expanded
        <4>1. \A e \in walk.expanded : EndsOf(Along(ga, world.relations, e)) \subseteq walk.found
          BY <1>1, <1>6, <2>3 DEF NoneMissed
        <4> QED BY <3>2, <4>1
      <3>4. walk.roots \subseteq walk.expanded
        BY <1>3, <3>2
      <3>5. Inner(Hops) \subseteq walk.expanded
        BY <1>2, <3>3, <3>4, ReachClosed DEF Inner
      <3> QED BY <1>3, <3>5
    <2> QED BY <1>2, <1>3, <2>1, <2>2, <2>3
  <1>7. ASSUME Full, ga.route = "traverse", NEW m \in DOMAIN store, store[m].user = ga.user, store[m].to = None,
               NEW e \in Inner(Hops), <<e, m>> \in world.links, NEW x \in Mine, x.id = e
        PROVE  m \in walk.shown
    <2>1. e \in walk.found
      BY <1>6, <1>7
    <2>2. x \in world.entities /\ x.org = ga.org
      BY DEF Mine, ScopedEntities
    <2>3. store[m].org = ga.org
      BY <1>7, <2>2, LinksAssumption
    <2> QED BY <1>1, <1>7, <2>1, <2>3 DEF AtItsEnd
  <1> HIDE DEF reached
  <1>8. /\ reached \subseteq Reach(ga, edges, walk.roots, Hops)
        /\ Uncapped => Reach(ga, world.relations, walk.roots, Hops) \subseteq reached
    BY <1>4, <1>5, <1>6 DEF Outer, Inner
  <1>9. Uncapped /\ ga.route = "traverse" =>
           {m \in DOMAIN store : /\ store[m].user = ga.user /\ store[m].to = None
                                 /\ \E e \in Reach(ga, world.relations, walk.roots, Hops) :
                                       <<e, m>> \in world.links /\ \E x \in Mine : x.id = e} \subseteq walk.shown
    BY <1>5, <1>7 DEF Inner
  <1> QED BY <1>8, <1>9 DEF WalkReaches, reached

\* Whoever else takes a step leaves a walk where it is.
LEMMA ReachStays ==
    ASSUME ReachInv, UNCHANGED <<world, walk, edges>>, walk.pc # "ask" => UNCHANGED store
    PROVE  ReachInv'
  <1>1. UNCHANGED <<ga, Rounds, Full, Visited, Mine>>
    BY DEF ga, Rounds, Full, Visited, Mine
  <1>2. \A k : Outer(k)' = Outer(k) /\ Inner(k)' = Inner(k)
    BY <1>1 DEF Outer, Inner
  <1>3. UNCHANGED <<NoFarther, NoneMissed>>
    <2>1. UNCHANGED <<Outer(walk.round), Outer(walk.round - 1), Inner(walk.round - 1)>>
      BY <1>1 DEF Outer, Inner
    <2> QED BY <1>1, <2>1 DEF NoFarther, NoneMissed
  <1>4. walk.pc = "done" => (AtItsEnd => AtItsEnd')
    BY <1>1 DEF AtItsEnd
  <1> QED BY <1>1, <1>3, <1>4 DEF ReachInv

-----------------------------------------------------------------------------
(* the theorems *)

LEMMA RecollectInit ==
    Init => RecollectInv
  <1> SUFFICES ASSUME Init PROVE RecollectInv
    OBVIOUS
  <1>1. world \in Worlds /\ store = world.rows /\ req = Waiting
    BY DEF Init, RetrievalInit
  <1>2. StoreInv
    <2>1. \A m \in DOMAIN world.rows : Columns \subseteq DOMAIN world.rows[m]
      BY <1>1, WorldsAssumption
    <2>2. req.pc = "ask"
      BY <1>1 DEF Waiting
    <2> QED BY <1>1, <2>1, <2>2 DEF StoreInv, Since
  <1>3. RequestInv
    <2>1. /\ DOMAIN req = ReqFields /\ req.pc = "ask" /\ req.copies = <<>> /\ req.pages = <<>> /\ req.i = 0
          /\ req.lexical = <<>> /\ req.dense = <<>> /\ req.graph = <<>> /\ req.collected = {} /\ req.results = <<>>
          /\ req.score = <<>> /\ req.page = <<>> /\ req.names = {} /\ req.plan.evidence = {} /\ req.plan.entities = {}
      BY <1>1 DEF Waiting, ReqFields, NoPlan
    <2>2. Candidates = {}
      BY <2>1, NoneShown DEF Candidates, Held
    <2>3. req.pages \in Seq(SUBSET {m \in DOMAIN store : Admissible(m)})
      BY <2>1
    <2> QED BY <1>1, <2>1, <2>2, <2>3, FS_EmptySet DEF RequestInv, Working
  <1>4. ContextInv
    <2>1. world.kind \in Given3 => values = <<>>
      BY DEF Init, NoContext, Given3
    <2> QED BY <2>1 DEF ContextInv
  <1>5. WalkInv
    BY DEF Init, GraphInit, Resting, WalkInv, WalkFields
  <1> QED BY <1>2, <1>3, <1>4, <1>5 DEF RecollectInv

\* What a step of the engine leaves alone.
LEMMA EngineKeeps ==
    ASSUME RecollectInv, StoreInv' /\ RequestInv', UNCHANGED <<world, store, stage, values, walk>>
    PROVE  RecollectInv'
  <1>1. ContextInv'
    BY DEF RecollectInv, ContextInv, CardTrue
  <1>2. WalkInv'
    BY DEF RecollectInv, WalkInv, ga, Mine
  <1> QED BY <1>1, <1>2 DEF RecollectInv

LEMMA RecollectSteps ==
    RecollectInv /\ [Next]_vars => RecollectInv'
  <1> SUFFICES ASSUME RecollectInv, [Next]_vars PROVE RecollectInv'
    OBVIOUS
  <1>0. StoreInv /\ RequestInv /\ ContextInv /\ WalkInv
    BY DEF RecollectInv
  <1>1. CASE RetrievalStep
    <2>1. RetrievalNext /\ UNCHANGED <<graphVars, contextVars, stage, values, walk>>
      BY <1>1 DEF RetrievalStep, graphVars, contextVars
    <2>2. ASSUME Working, UNCHANGED <<world, store>>, Fits(req') PROVE RecollectInv'
      BY <1>0, <2>1, <2>2, FitsKeeps, EngineKeeps
    <2>3. CASE Change
      BY <2>1, <2>3, ChangeKeeps
    <2>4. CASE Admit
      <3>1. UNCHANGED <<world, store>>
        BY <2>4 DEF Admit
      <3> QED BY <1>0, <2>1, <2>4, <3>1, AskersKeep, EngineKeeps
    <2>5. CASE Plan
      <3>1. UNCHANGED <<world, store>>
        BY <2>5 DEF Plan
      <3> QED BY <1>0, <2>1, <2>5, <3>1, PlanKeeps, EngineKeeps
    <2>6. CASE NextQuestion
      <3>1. UNCHANGED <<world, store>>
        BY <2>6 DEF NextQuestion
      <3> QED BY <1>0, <2>1, <2>6, <3>1, NextQuestionKeeps, EngineKeeps
    <2>7. CASE Investigate
      <3>1. UNCHANGED <<world, store>>
        BY <2>7 DEF Investigate
      <3> QED BY <1>0, <2>1, <2>7, <3>1, InvestigateKeeps, EngineKeeps
    <2>8. CASE Say
      <3>1. req.pc = "ask" /\ world.kind = "reading" /\ req' = [req EXCEPT !.pc = "done"] /\ UNCHANGED <<world, store>>
        BY <2>8 DEF Say
      <3>2. StoreInv' /\ RequestInv'
        BY <1>0, <3>1, SettledKeeps
      <3> QED BY <2>1, <3>1, <3>2, EngineKeeps
    <2>9. CASE Over /\ UNCHANGED retrievalVars
      <3>1. UNCHANGED <<world, store, req>>
        BY <2>9 DEF retrievalVars
      <3> QED BY <1>0, <2>1, <3>1, StillKeeps, EngineKeeps
    <2>10. CASE Lexical
      <3>1. Working /\ UNCHANGED <<world, store>>
        BY <2>10 DEF Lexical, Working
      <3> QED BY <1>0, <2>2, <2>10, <3>1, LexicalFits
    <2>11. CASE LexicalUser
      <3>1. Working /\ UNCHANGED <<world, store>>
        BY <2>11 DEF LexicalUser, Working
      <3> QED BY <1>0, <2>2, <2>11, <3>1, LexicalUserFits
    <2>12. CASE Seeds \/ Anchors
      <3>1. Working /\ UNCHANGED <<world, store>>
        BY <2>12 DEF Seeds, Anchors, Working
      <3> QED BY <1>0, <2>2, <2>12, <3>1, WeightsFit
    <2>13. CASE Hydrate
      <3>1. Working /\ UNCHANGED <<world, store>>
        BY <2>13 DEF Hydrate, Working
      <3> QED BY <1>0, <2>2, <2>13, <3>1, HydrateFits
    <2>14. CASE HydrateUser
      <3>1. Working /\ UNCHANGED <<world, store>>
        BY <2>14 DEF HydrateUser, Working
      <3> QED BY <1>0, <2>2, <2>14, <3>1, HydrateUserFits
    <2>15. CASE Widen
      <3>1. Working /\ UNCHANGED <<world, store>>
        BY <2>15 DEF Widen, Working
      <3> QED BY <1>0, <2>2, <2>15, <3>1, WidenFits
    <2>16. CASE Fuse
      <3>1. Working /\ UNCHANGED <<world, store>>
        BY <2>16 DEF Fuse, Working
      <3> QED BY <1>0, <2>2, <2>16, <3>1, FuseFits
    <2>17. CASE Dense
      <3>1. Working /\ UNCHANGED <<world, store>>
        BY <2>17 DEF Dense, Working
      <3> QED BY <1>0, <2>2, <2>17, <3>1, DenseFits
    <2>18. CASE DenseUser
      <3>1. Working /\ UNCHANGED <<world, store>>
        BY <2>18 DEF DenseUser, Working
      <3> QED BY <1>0, <2>2, <2>18, <3>1, DenseUserFits
    <2>19. CASE Finish
      <3>1. Working /\ UNCHANGED <<world, store>>
        BY <2>19 DEF Finish, Working
      <3> QED BY <1>0, <2>2, <2>19, <3>1, FinishFits
    <2>20. CASE TouchAccessed \/ Commit
      <3>1. Working /\ UNCHANGED <<world, store>>
        BY <2>20 DEF TouchAccessed, Commit, Working
      <3> QED BY <1>0, <2>2, <2>20, <3>1, EndFits
    <2> QED BY <2>1, <2>3, <2>4, <2>5, <2>6, <2>7, <2>8, <2>9, <2>10, <2>11, <2>12, <2>13, <2>14, <2>15, <2>16, <2>17,
               <2>18, <2>19, <2>20 DEF RetrievalNext
  <1>2. CASE ContextStep
    <2>1. ContextNext /\ UNCHANGED <<world, store, req, walk>>
      BY <1>2 DEF ContextStep, retrievalVars, graphVars
    <2> QED BY <2>1, ContextKeeps
  <1>3. CASE GraphStep
    <2>1. GraphNext /\ UNCHANGED <<world, store, req, stage, values>>
      BY <1>3 DEF GraphStep, retrievalVars, contextVars
    <2> QED BY <2>1, WalkKeeps
  <1>4. CASE AdmitRecall \/ AdmitTool \/ AdmitHybrid
    <2>1. UNCHANGED <<world, store, stage, values, walk>>
      BY <1>4 DEF AdmitRecall, AdmitTool, AdmitHybrid, graphVars, contextVars
    <2>2. StoreInv' /\ RequestInv'
      BY <1>0, <1>4, AskersKeep
    <2> QED BY <2>1, <2>2, EngineKeeps
  <1>5. CASE Gather
    BY <1>0, <1>5, GatherKeeps
  <1>6. CASE GatherTruths
    BY <1>0, <1>6, TruthsKeep
  <1>7. CASE GetContext
    BY <1>7, PromptKeeps
  <1>8. CASE ListMemories \/ Timeline \/ SearchMemories
    <2>1. /\ UNCHANGED <<world, store, stage, values, walk>>
          /\ req.pc = "ask" /\ world.kind \in {"list", "timeline", "search"}
          /\ \E pc \in {"done", "refused"} : req' = [req EXCEPT !.pc = pc]
      BY <1>8 DEF ListMemories, Timeline, SearchMemories, Lists, AsksAs, graphVars, contextVars
    <2>2. PICK pc \in {"done", "refused"} : req' = [req EXCEPT !.pc = pc]
      BY <2>1
    <2>3. StoreInv' /\ RequestInv'
      BY <1>0, <2>1, <2>2, SettledKeeps
    <2> QED BY <2>1, <2>3, EngineKeeps
  <1>9. CASE UNCHANGED vars
    <2>1. UNCHANGED <<world, store, req, stage, values, walk>>
      BY <1>9 DEF vars, retrievalVars, graphVars, contextVars
    <2> QED BY <1>0, <2>1, StillKeeps, EngineKeeps
  <1> QED BY <1>1, <1>2, <1>3, <1>4, <1>5, <1>6, <1>7, <1>8, <1>9 DEF Next

\* What a request holds, shows and has shown is what its caller may see, and what it holds of a row was
\* true of it since the request began; a context and a walk hold nothing else: Retrieval, Context and
\* GraphSearch together, whatever the store, the question and the changes are.
THEOREM RecollectInvariant ==
    Spec => []RecollectInv
  BY RecollectInit, RecollectSteps, PTL DEF Spec

\* What a caller is shown was, when the request began or since, a current fact that was not archived, of
\* the organisation, the user and the scope that the request was admitted for: the conditions of the
\* engine (engine.py, _include_memory) decide on a row as it was read, whichever statement brought it,
\* whoever's entities led to it and whatever has become of it.
THEOREM AdmittedAlways ==
    Spec => []AdmittedOnPage
  <1>1. RecollectInv => AdmittedOnPage
    <2> SUFFICES ASSUME RecollectInv, NEW m \in Returned
                 PROVE  /\ store[m].org = req.scope.org /\ store[m].user = req.scope.user
                        /\ m \in DOMAIN world.rows => world.rows[m].to = None /\ (world.rows[m].archived => world.asked.archived)
                        /\ ApplyScopeFilters(store[m], req.scope)
                        /\ Scoped => MemoryInScope(store[m], req.scope)
      BY DEF AdmittedOnPage
    <2>1. RequestInv
      BY DEF RecollectInv
    <2>2. CASE m \in ToSet(req.page)
      BY <2>1, <2>2 DEF RequestInv, Candidates, Admissible
    <2>3. CASE m \in UNION {req.pages[i] : i \in DOMAIN req.pages}
      <3>1. PICK i \in DOMAIN req.pages : m \in req.pages[i]
        BY <2>3
      <3> DEFINE Shown == SUBSET {n \in DOMAIN store : Admissible(n)}
      <3>2. req.pages \in Seq(Shown)
        BY <2>1 DEF RequestInv
      <3>3. req.pages[i] \in Shown
        <4> HIDE DEF Shown
        <4> QED BY <3>1, <3>2
      <3>4. Admissible(m)
        BY <3>1, <3>3
      <3> QED BY <3>4 DEF Admissible
    <2> QED BY <2>2, <2>3 DEF Returned
  <1> QED BY <1>1, RecollectInvariant, PTL

\* Nothing is handed to an agent but what the reader may see and what was current and not archived when it
\* was asked for or since: the routes and the kernel that gather the page, and every step of the builder
\* and the planner after them (builder.py, planner.py).
THEOREM GivenAlways ==
    Spec => []GivenOnlyAdmitted
  <1>1. RecollectInv => GivenOnlyAdmitted
    BY DEF RecollectInv, ContextInv, CardTrue, Given3, GivenOnlyAdmitted
  <1> QED BY <1>1, RecollectInvariant, PTL

LEMMA ReachInit ==
    Init => ReachInv
  <1> SUFFICES ASSUME Init PROVE ReachInv
    OBVIOUS
  <1>1. edges = world.relations /\ walk = Resting /\ walk.pc = "ask"
    BY DEF Init, GraphInit, Resting
  <1> QED BY <1>1 DEF ReachInv

LEMMA ReachSteps ==
    RecollectInv /\ RecollectInv' /\ ReachInv /\ [Next]_vars => ReachInv'
  <1> SUFFICES ASSUME RecollectInv, RecollectInv', ReachInv, [Next]_vars PROVE ReachInv'
    OBVIOUS
  <1>0. StoreInv /\ StoreInv' /\ WalkInv
    BY DEF RecollectInv
  <1>1. CASE GraphStep
    <2>1. GraphNext /\ UNCHANGED <<world, store>>
      BY <1>1 DEF GraphStep, retrievalVars
    <2>2. world \in Worlds /\ DOMAIN walk = WalkFields /\ (walk.pc # "ask" => world.kind = "graph")
      BY <1>0 DEF StoreInv, WalkInv
    <2> QED BY <2>1, <2>2, WalkReach
  <1>2. CASE UNCHANGED <<world, walk, edges>>
    <2>1. walk.pc # "ask" => UNCHANGED store
      BY <1>0, <1>2 DEF StoreInv, WalkInv
    <2> QED BY <1>2, <2>1, ReachStays
  <1>3. RetrievalStep => UNCHANGED <<world, walk, edges>>
    <2> SUFFICES ASSUME RetrievalStep PROVE UNCHANGED <<world, walk, edges>>
      OBVIOUS
    <2>1. RetrievalNext /\ UNCHANGED <<walk, edges>>
      BY DEF RetrievalStep, graphVars
    <2>2. UNCHANGED world
      <3>1. CASE Admit \/ Plan \/ Lexical \/ LexicalUser \/ Seeds \/ Anchors \/ Hydrate \/ HydrateUser \/ Widen
        BY <3>1 DEF Admit, Plan, Lexical, LexicalUser, Seeds, Anchors, Hydrate, HydrateUser, Widen
      <3>2. CASE Fuse \/ Dense \/ DenseUser \/ Finish \/ TouchAccessed \/ NextQuestion \/ Investigate \/ Commit
        BY <3>2 DEF Fuse, Dense, DenseUser, Finish, TouchAccessed, NextQuestion, Investigate, Commit
      <3>3. CASE Change \/ Say \/ (Over /\ UNCHANGED retrievalVars)
        BY <3>3 DEF Change, Say, retrievalVars
      <3> QED BY <2>1, <3>1, <3>2, <3>3 DEF RetrievalNext
    <2> QED BY <2>1, <2>2
  <1>4. ContextStep => UNCHANGED <<world, walk, edges>>
    BY DEF ContextStep, retrievalVars, graphVars
  <1>5. AdmitRecall \/ AdmitTool \/ AdmitHybrid \/ Gather \/ GatherTruths \/ GetContext => UNCHANGED <<world, walk, edges>>
    BY DEF AdmitRecall, AdmitTool, AdmitHybrid, Gather, GatherTruths, GetContext, retrievalVars, graphVars
  <1>6. ListMemories \/ Timeline \/ SearchMemories => UNCHANGED <<world, walk, edges>>
    BY DEF ListMemories, Timeline, SearchMemories, graphVars
  <1>7. UNCHANGED vars => UNCHANGED <<world, walk, edges>>
    BY DEF vars, retrievalVars, graphVars
  <1> QED BY <1>1, <1>2, <1>3, <1>4, <1>5, <1>6, <1>7 DEF Next

\* What a walk finds and shows: it goes no farther than it was asked to and misses nothing that near, for
\* any graph, any order of its reads and any relations committed between them, unless an entity has more
\* relations than are read of one; and whatever it begins from and passes through, what it shows is the
\* caller's (entity_repo.py, routes/graph.py and kernel.py, search_graph).
THEOREM WalksTrue ==
    Spec => []WalkTrue
  <1>1. Init => RecollectInv /\ ReachInv
    BY RecollectInit, ReachInit
  <1>2. RecollectInv /\ ReachInv /\ [Next]_vars => (RecollectInv /\ ReachInv)'
    BY RecollectSteps, ReachSteps
  <1>3. RecollectInv /\ ReachInv => WalkTrue
    <2> SUFFICES ASSUME RecollectInv, ReachInv PROVE WalkTrue
      OBVIOUS
    <2>1. ShowsTheCallers
      BY DEF RecollectInv, WalkInv, ShowsTheCallers
    <2>2. WalkReaches
      <3>1. CASE walk.pc = "done"
        <4>1. world \in Worlds /\ world.kind = "graph" /\ store = world.rows
          BY <3>1 DEF RecollectInv, StoreInv, WalkInv
        <4> QED BY <4>1, ReachedIs
      <3>2. CASE walk.pc # "done"
        BY <3>2 DEF WalkReaches
      <3> QED BY <3>1, <3>2
    <2> QED BY <2>1, <2>2 DEF WalkTrue
  <1> QED BY <1>1, <1>2, <1>3, PTL DEF Spec
=============================================================================
