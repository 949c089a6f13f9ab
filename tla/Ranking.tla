------------------------------- MODULE Ranking -------------------------------
(***************************************************************************)
(* How the candidates of a request become a page.                          *)
(*                                                                         *)
(*   contexta/core/retrieval/fusion.py     fusion of ranks, the gate       *)
(*   contexta/core/retrieval/engine.py     scores, windows, promotion      *)
(*   contexta/core/scoring/engine.py       freshness                       *)
(*                                                                         *)
(* Candidates are identifiers, rows a function that gives each its row.    *)
(* Scores are thousandths, rounded down, and halve in steps.               *)
(***************************************************************************)
EXTENDS MemoryReads

Clip(n, low, high) == IF n < low THEN low ELSE IF n > high THEN high ELSE n
Total(S, f(_)) == FoldSet(LAMBDA x, sum : sum + f(x), 0, S)
\* Of a thousand nothing is left after ten.
Halved(n, times) == n \div 2 ^ Least(times, 10)
ByScore(S, score) == Sorted(S, LAMBDA a, b : score[a] > score[b] \/ (score[a] = score[b] /\ a < b))

-----------------------------------------------------------------------------
(* what time does to a memory *)

\* A claim that is resolved but coarse ages the slower, the coarser it is.
PrecisionHalfLifeScale(row) ==
    IF row.precision \notin DOMAIN Rank \/ row.precision = "unknown" THEN 1 ELSE AtLeast(1, Rank[row.precision] - 1)
Freshness(row, at, now, halfLifeDays) ==
    Halved(1000, AtLeast(0, now - at) \div (24 * halfLifeDays * PrecisionHalfLifeScale(row)))

\* A memory without a time of its own answers for what it says.
TemporalDateParts(a, b) == \A part \in {"y", "m", "d"} : a[part] \in {0, b[part]}
TemporalExpressionMatches(row, constraint) ==
    \/ constraint.expression \in row.said
    \/ constraint.kind = "date" /\ \E t \in row.dates : TemporalDateParts(constraint.expression, t)
Satisfies(row, c) ==
    IF row.event # None THEN (c.start = None \/ c.start <= row.event) /\ (c.end = None \/ row.event < c.end)
    ELSE TemporalExpressionMatches(row, c) \/ (c.start = None /\ c.end = None)
TemporalRelevance(row, plan, now) ==
    LET explicit == ToSet(Explicit(plan.constraints))
    IN  CASE explicit # {} ->
               IF \E c \in explicit : ~Satisfies(row, c) THEN 0
               ELSE IF row.event = None THEN 750
               ELSE IF \E c \in explicit : c.end = None \/ c.day # 0 THEN 1000 ELSE 800
          [] explicit = {} /\ plan.intent # "temporal" -> 0
          [] OTHER -> IF row.said # {} THEN 750
                      ELSE IF row.event = None THEN 0 ELSE (65 * Freshness(row, row.event, now, 3650)) \div 100

-----------------------------------------------------------------------------
(* scores *)

Normalised(terms) == LET kept == {t \in terms : t # "the"} IN IF kept = {} THEN terms ELSE kept
KeywordScore(row, terms) ==
    LET weight(t) == IF t = "user" THEN 1 ELSE 4
        asked == Normalised(terms)
    IN  IF asked = {} THEN 0 ELSE (1000 * Total(asked \cap row.words, weight)) \div Total(asked, weight)

\* Of the features of a row, whatever channel brought it.
ScoreMemory(row, q, plan, graph, embedded, depth, now) ==
    LET deep == depth >= 2 /\ graph > 0
        semantic == IF embedded /\ row.vectors # {} THEN Cosine(row.meaning, q.meaning) ELSE 0
        at == IF row.event = None THEN row.created ELSE row.event
    IN  Clip((IF deep THEN 32 * semantic + 22 * KeywordScore(row, q.terms) + 18 * graph
              ELSE 34 * semantic + 24 * KeywordScore(row, q.terms) + 12 * graph)
             + 8 * row.importance + 10 * Freshness(row, at, now, 30) + 5 * row.utility + 3 * row.confidence
             + 12 * TemporalRelevance(row, plan, now), 0, 100000) \div 100

\* Rank in a page of candidates, from 1.
RankIn(page, m) == CHOOSE i \in DOMAIN page : page[i] = m
ChannelWeights == [dense |-> 50, lexical |-> 30, graph |-> 20]

\* Normalised by the channels that brought anything, with a little for what the row is worth.
ReciprocalRank(channels, m) ==
    LET active == {c \in DOMAIN channels : channels[c] # <<>>}
        holding == {c \in active : m \in ToSet(channels[c])}
        share(c) == (ChannelWeights[c] * 61000) \div (60 + RankIn(channels[c], m))
        weight(c) == ChannelWeights[c]
    IN  Least(1000, Total(holding, share) \div Total(active, weight))
Fused(row, channels, m) ==
    ReciprocalRank(channels, m) + (5 * (row.utility + 1000)) \div 2000 + (120 * row.importance + 80 * row.confidence) \div 1000

\* A cold row keeps seven tenths of all it has.
ScoreCandidate(row, fused, feature) ==
    LET blended == (80 * fused + 20 * feature) \div 100
    IN  Clip(IF row.state = "cold" THEN (7 * blended) \div 10 ELSE blended, 0, 1000)

\* The weight a memory takes from the nearest, least shared of its entities.
InverseRoot == <<1000, 707, 577, 500, 447, 408, 377, 353>>
EntityWeight(degree, depth) == Halved(InverseRoot[Least(degree, 8)], depth)
GraphMemoryWeights(distances, ids) ==
    [m \in UNION {ids[e] : e \in DOMAIN ids} |->
        Max({EntityWeight(Cardinality(ids[e]), distances[e]) : e \in {e \in DOMAIN ids : m \in ids[e]}})]
MergedWeights(a, b) ==
    [m \in DOMAIN a \cup DOMAIN b |-> AtLeast(IF m \in DOMAIN a THEN a[m] ELSE 0, IF m \in DOMAIN b THEN b[m] ELSE 0)]

-----------------------------------------------------------------------------
(* is what the words and the graph brought enough? *)

Mentioned(rows, S, names) == {n \in names : \E m \in S : n \in rows[m].names}
AssessPrimarySufficiency(rows, results, score, plan, names) ==
    LET top == IF results = <<>> THEN 0 ELSE score[results[1]]
        next == IF Len(results) < 2 THEN 0 ELSE score[results[2]]
        wanted == AtLeast(RetrievalLimitHint(plan), plan.required)
    IN  CASE ~(plan.evidence \subseteq ToSet(results)) -> "missing_required_evidence"
          [] Mentioned(rows, ToSet(results), plan.entities \cup names) # plan.entities \cup names -> "missing_required_entity"
          [] top < 450 -> "below_quality_floor"
          [] Len(results) >= wanted -> "sufficient_depth"
          [] top - next >= 100 -> "sufficient_dominant_hit"
          [] OTHER -> "no_dominant_hit"
Sufficient(reason) == reason \in {"sufficient_depth", "sufficient_dominant_hit"}

-----------------------------------------------------------------------------
(* the page *)

\* The pool a reranker sees: what the plan requires in place of the last that it does not.
LastFree(pool, protected) == Max({i \in DOMAIN pool : pool[i] \notin protected})
EnsureRequiredEvidence(pool, results, required) ==
    FoldSet(LAMBDA m, p : IF m \in ToSet(p) \/ ToSet(p) \subseteq required THEN p
                          ELSE [p EXCEPT ![LastFree(p, required)] = m],
            pool, required \cap ToSet(results))

OrderedPage(S, score, limit) == PageOf(ByScore(S, score), limit)
Lowest(places) == CHOOSE i \in places : \A j \in places : i <= j

\* A row in, when there is room, or else for the worst that was not promoted itself.
\* (PromoteOverBest: for the best.)
PromoteOverBest(page, promoted, candidate, score, limit) ==
    IF Cardinality(page) < limit THEN page \cup {candidate}
    ELSE IF page \subseteq promoted THEN page
    ELSE (page \ {ByScore(page \ promoted, score)[1]}) \cup {candidate}
Promote(page, promoted, candidate, score, limit) ==
    IF Cardinality(page) < limit THEN page \cup {candidate}
    ELSE IF page \subseteq promoted THEN page
    ELSE (page \ {ByScore(page \ promoted, [m \in DOMAIN score |-> -score[m]])[1]}) \cup {candidate}

\* One row for each entity that no row of the page speaks of, the entities in their order.
PromoteEntity(rows, state, results, name, score, limit) ==
    LET speaking == {i \in DOMAIN results : results[i] \notin state.page /\ name \in rows[results[i]].names}
        best == results[Lowest(speaking)]
        page == Promote(state.page, state.promoted, best, score, limit)
    IN  IF (\E m \in state.page : name \in rows[m].names) \/ speaking = {} THEN state
        ELSE [page |-> page, promoted |-> state.promoted \cup (page \cap {best})]
PromoteRequired(state, results, m, score, limit) ==
    IF m \in state.page \/ m \notin ToSet(results) THEN state
    ELSE LET page == Promote(state.page, state.promoted, m, score, limit)
         IN  [page |-> page, promoted |-> state.promoted \cup (page \cap {m})]
PromoteEntityCoverage(rows, results, score, plan, names, comparative, limit) ==
    LET first == [page |-> ToSet(PageOf(results, limit)),
                  promoted |-> plan.evidence \cap ToSet(PageOf(results, limit))]
        required == FoldSet(LAMBDA m, state : PromoteRequired(state, results, m, score, limit), first, plan.evidence)
        covering == IF comparative \/ RequiresEntityCoverage(plan) THEN plan.entities \cup names ELSE {}
        last == FoldSet(LAMBDA name, state : PromoteEntity(rows, state, results, name, score, limit), required, covering)
    IN  OrderedPage(last.page, score, limit)
=============================================================================
