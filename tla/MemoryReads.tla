----------------------------- MODULE MemoryReads -----------------------------
(***************************************************************************)
(* What the reads of memory return, and who may see it.                    *)
(*                                                                         *)
(*   contexta/repositories/memory_repo.py     the statements               *)
(*   contexta/repositories/entity_repo.py     links and the walk           *)
(*   contexta/api/routes/retrieval.py         the scope around them        *)
(*                                                                         *)
(* A store is a function from the identifiers of memories, which are       *)
(* numbers, to rows.  A read is evaluated on the store as it is when the   *)
(* statement runs, and yields identifiers in the order of its page.        *)
(***************************************************************************)
EXTENDS QueryPlan

VARIABLES
    world,      \* what is asked, and of which rows, links and entities
    store       \* the rows that are committed

\* A field of a scope that is not asked for, or not known.
Unsaid == "unsaid"
ScopeFields == {"member", "agent", "project", "session"}

-----------------------------------------------------------------------------
(* conditions of the statements *)

\* _scope_select: a repository reads the rows of its tenant.
ScopeSelect(rows, org) == {m \in DOMAIN rows : rows[m].org = org}

ApplyScopeFilters(row, scope) == \A f \in ScopeFields : scope[f] = Unsaid \/ row[f] = scope[f]

\* Believed at the moment: from then on, and not yet closed.
ApplyAsOfFilter(row, asOf) ==
    asOf = None \/ (row.from <= asOf /\ (row.to = None \/ asOf < row.to))

ApplyTagFilter(row, tags) == tags = {} \/ row.tags \cap tags # {}

Kept(row, filters) ==
    /\ filters.archived \/ ~row.archived
    /\ filters.cold \/ row.state # "cold"
    /\ filters.types = {} \/ row.type \in filters.types

MaxPage == 10000
BoundedLimit(n) == IF n <= 0 THEN 1 ELSE Least(n, MaxPage)
PageOf(seq, n) == [i \in {i \in DOMAIN seq : i <= n} |-> seq[i]]

\* What a method that is called with a limit alone takes the rest to be.
Defaults(scope) == [scope |-> [f \in ScopeFields |-> Unsaid], archived |-> FALSE, cold |-> TRUE,
                    types |-> {}, tags |-> {}, asOf |-> None, user |-> scope.user, org |-> scope.org]
Filters(scope, asked) ==
    [scope |-> [f \in ScopeFields |-> scope[f]], archived |-> asked.archived, cold |-> asked.cold,
     types |-> asked.types, tags |-> asked.tags, asOf |-> asked.asOf, user |-> scope.user, org |-> scope.org]

-----------------------------------------------------------------------------
(* vectors: a row holds those of columns, under a label or none *)

Profiles == {"offline", "online"}
StorageColumn(profile) == IF profile = "offline" THEN "embedding_1024" ELSE "embedding"
CanonicalProfile(name) == name \in Profiles

\* A label is a profile with all its parts, nothing, or less than all.
ProfileFromMetadata(row, column) == CanonicalProfile(row.label) /\ StorageColumn(row.label) = column
ValidateUnlabelled(row) == row.label = "none"
Labelled(row, column) == IF row.label \in Profiles THEN ProfileFromMetadata(row, column) ELSE ValidateUnlabelled(row)

\* One unreadable row fails the page it is on.
Projects(row) == Cardinality(row.vectors) <= 1 /\ \A column \in row.vectors : Labelled(row, column)
Hydrates(rows, page) == \A m \in ToSet(page) : Projects(rows[m])

\* A row that is created must hold one vector, and no label without one.
PrepareEmbedding(row) == Projects(row) /\ (row.vectors = {} => row.label # "partial")

\* The profile that is configured, and the space it searches.
QueryProfile(profile) == IF CanonicalProfile(profile) THEN StorageColumn(profile) ELSE "none"
InSpace(row, profile) == row.vectors = {QueryProfile(profile)} /\ row.label = profile

-----------------------------------------------------------------------------
(* the statements *)

Newest(rows, S) ==
    Sorted(S, LAMBDA a, b : \/ rows[a].created > rows[b].created
                            \/ rows[a].created = rows[b].created /\ a < b)

GetByUser(rows, filters, limit) ==
    PageOf(Newest(rows, {m \in ScopeSelect(rows, filters.org) :
                            /\ rows[m].user = filters.user
                            /\ rows[m].to = None
                            /\ ApplyScopeFilters(rows[m], filters.scope)}), BoundedLimit(limit))

\* Of one user, or of every user of the tenant.
Selected(rows, filters) ==
    {m \in ScopeSelect(rows, filters.org) :
        /\ filters.user \in {Unsaid, rows[m].user}
        /\ rows[m].to = None
        /\ ApplyScopeFilters(rows[m], filters.scope)
        /\ Kept(rows[m], filters)
        /\ ApplyTagFilter(rows[m], filters.tags)
        /\ ApplyAsOfFilter(rows[m], filters.asOf)}

\* Of two vectors of one space: a thousand when they say the same, less the farther apart.
Cosine(a, b) == AtLeast(0, 1000 - 250 * (IF a < b THEN b - a ELSE a - b))

GetByVectorSimilarity(rows, meaning, profile, filters, limit) ==
    PageOf(Sorted({m \in Selected(rows, filters) : InSpace(rows[m], profile)},
               LAMBDA a, b : \/ Cosine(rows[a].meaning, meaning) > Cosine(rows[b].meaning, meaning)
                             \/ Cosine(rows[a].meaning, meaning) = Cosine(rows[b].meaning, meaning) /\ a < b), limit)

\* No statement at all for a question of nothing but stop words.
LexicalTsquery(terms) == {t \in terms : t \notin {"the", "user"}}
Matching(row, terms) == Cardinality(row.words \cap LexicalTsquery(terms))
GetByLexicalSimilarity(rows, terms, filters, limit) ==
    PageOf(Sorted({m \in Selected(rows, filters) : Matching(rows[m], terms) > 0},
               LAMBDA a, b : \/ Matching(rows[a], terms) > Matching(rows[b], terms)
                             \/ /\ Matching(rows[a], terms) = Matching(rows[b], terms)
                                /\ \/ rows[a].created > rows[b].created
                                   \/ rows[a].created = rows[b].created /\ a < b), limit)

\* Current facts, in no order: the archived ones as well.
GetCurrentTruths(rows, scope) ==
    {m \in ScopeSelect(rows, scope.org) :
        rows[m].user = scope.user /\ rows[m].to = None /\ ApplyScopeFilters(rows[m], scope)}

GetManyByIds(rows, ids, org) == Sorted(ids \cap ScopeSelect(rows, org), <)

-----------------------------------------------------------------------------
(* the graph *)

\* Distances within a depth from the seeds, which are of the tenant.
Neighbours(edges, S) == {e \in UNION edges : \E s \in S : {s, e} \in edges}
WalkEntityGraph(edges, seeds, depth) ==
    LET one == Neighbours(edges, seeds) \ seeds
        two == Neighbours(edges, one) \ (seeds \cup one)
    IN  [e \in seeds \cup (IF depth > 0 THEN one ELSE {}) \cup (IF depth > 1 THEN two ELSE {}) |->
            IF e \in seeds THEN 0 ELSE IF e \in one THEN 1 ELSE 2]

\* The memories of an entity that are current.  (EveryLink: whatever has become of them.)
EveryLink(rows, links, entity, org) == {m \in ScopeSelect(rows, org) : <<entity, m>> \in links}
CurrentIdsOfEntity(rows, links, entity, org) ==
    {m \in ScopeSelect(rows, org) : <<entity, m>> \in links /\ rows[m].to = None}

-----------------------------------------------------------------------------
(* the scope of a request *)

\* What the caller is known by and what it says must not differ.
ResolveIdentity(known, said) ==
    IF known.verified THEN \A f \in {"org", "user"} : said[f] \in {Unsaid, known[f]}
    ELSE known.fallback /\ Unsaid \notin {said.org, said.user}
ScopeAgrees(known, said) == \A f \in ScopeFields : Unsaid \in {known[f], said[f]} \/ known[f] = said[f]
ScopeFor(known, said) ==
    [f \in ScopeFields \cup {"org", "user"} |-> IF said[f] = Unsaid THEN known[f] ELSE said[f]]

\* A row may carry a field of its scope twice, in its column and among what it says of itself.
MemoryScopeMatches(row, f, asked) == row[f] = asked /\ (f \in DOMAIN row.context => row.context[f] = asked)
MemoryInScope(row, scope) ==
    /\ row.org = scope.org /\ row.user = scope.user
    /\ \A f \in ScopeFields : scope[f] = Unsaid \/ MemoryScopeMatches(row, f, scope[f])
ScopedMemories(rows, page, scope) == Those(page, {i \in DOMAIN page : MemoryInScope(rows[page[i]], scope)})
ScopedEntities(entities, scope) == {e \in entities : e.org = scope.org /\ e.user = scope.user}

\* Links of memories that have been seen in scope, to entities of the scope.
ScopedLinks(links, entities, seen, scope) ==
    {l \in links : l[2] \in seen /\ \E e \in ScopedEntities(entities, scope) : e.id = l[1]}
=============================================================================
