------------------------------ MODULE QueryPlan ------------------------------
(***************************************************************************)
(* How a question becomes a plan.                                          *)
(*                                                                         *)
(*   contexta/core/retrieval/query_understanding.py                        *)
(*                                                                         *)
(* The patterns of the source have been applied: a question is a record of *)
(* what they find in it.  Its ranges and dates are dates [y, m, d] with 0  *)
(* where a part is left out, what it says is a sequence of relative        *)
(* phrases, its marks are the classes of the words it holds, its capitals  *)
(* the capitalised names and its names all that are spoken of, in whatever *)
(* case.  A question is read by this module alone, on its own rules: what  *)
(* is remembered was read by temporal.py, the module Calendar.             *)
(***************************************************************************)
EXTENDS Calendar, SequencesExt

\* A set in an order, given what stands before each element: the next is one that as many stand
\* before, or any where two claim a place and none has the one after it.
InRank(S, before) ==
    [i \in 1 .. Cardinality(S) |->
        CHOOSE x \in S : LET next(y) == Cardinality(before[y]) = i - 1 IN next(x) \/ \A y \in S : ~next(y)]
Sorted(S, Before(_, _)) == InRank(S, [x \in S |-> {y \in S : Before(y, x)}])

\* What stands at some places of a sequence, in its order.
Those(seq, places) ==
    LET order == InRank(places, [i \in places |-> {j \in places : j < i}])
    IN  [i \in 1 .. Cardinality(places) |-> seq[order[i]]]

-----------------------------------------------------------------------------
(* dates *)

NoSpan             == <<None, None>>
DateBound(y, m, d) == DateAt(Date(y, m, d))
NextMonth(y, m)    == IF m = 12 THEN DateBound(y + 1, 1, 1) ELSE DateBound(y, m + 1, 1)

\* From the first hour to the first that is no longer of it.  A date that does not exist is none.
DaySpan(y, m, d) ==
    IF DateBound(y, m, d) >= NextMonth(y, m) THEN NoSpan
    ELSE <<DateBound(y, m, d), DateBound(y, m, d) + 24>>
DateOfYear(t, y) ==
    CASE t.m > 0 /\ t.d > 0 -> DaySpan(y, t.m, t.d)
      [] t.m > 0            -> <<DateBound(y, t.m, 1), NextMonth(y, t.m)>>
      [] OTHER              -> <<DateBound(y, 1, 1), DateBound(y + 1, 1, 1)>>
ParseDateText(t, now) == DateOfYear(t, IF t.y = 0 THEN Year(DateOf(now)) ELSE t.y)

-----------------------------------------------------------------------------
(* constraints of time *)

Constraint(kind, said, span, day, explicit) ==
    [kind |-> kind, expression |-> said, start |-> span[1], end |-> span[2], day |-> day, explicit |-> explicit]

\* "between a and b", or one end: after a day ends, before it starts.
RangeConstraint(range, left, right) ==
    CASE range.word \in {"between", "from"} ->
            Constraint("range", range, <<IF right[1] < left[1] THEN right[1] ELSE left[1],
                                         IF right[2] > left[2] THEN right[2] ELSE left[2]>>, 0, TRUE)
      [] range.word \in {"after", "since"} -> Constraint(range.word, range, <<left[2], None>>, range.left.d, TRUE)
      [] OTHER                             -> Constraint(range.word, range, <<None, left[1]>>, range.left.d, TRUE)
ParsedRange(range, now) == NoSpan \notin {ParseDateText(range.left, now), ParseDateText(range.right, now)}
Ranges(q, now) ==
    LET parsed == SelectSeq(q.ranges, LAMBDA r : ParsedRange(r, now))
    IN  [i \in DOMAIN parsed |-> RangeConstraint(parsed[i], ParseDateText(parsed[i].left, now),
                                                 ParseDateText(parsed[i].right, now))]

\* A date that a range has taken is not a date of its own.
Dates(q, now) ==
    LET free == SelectSeq(q.dates, LAMBDA t : /\ ParseDateText(t, now) # NoSpan
                                              /\ t.within = 0 \/ ~ParsedRange(q.ranges[t.within], now))
    IN  [i \in DOMAIN free |-> Constraint("date", free[i], ParseDateText(free[i], now), free[i].d, TRUE)]

\* This week, or the one before.  (RollingWeek: the seven days that end today.)
RollingWeek(today, k) == <<DateAt(today + 7 * k), DateAt(today + 7 * k + 7)>>
WeekSpan(today, k) ==
    LET monday == today - Weekday(today) + 7 * k IN <<DateAt(monday), DateAt(monday + 7)>>
PeriodSpan(said, today) ==
    LET first == FirstOfMonth(today)
        year == Year(today)
    IN  CASE said.word = "yesterday" -> <<DateAt(today - 1), DateAt(today)>>
          [] said.word = "today"     -> <<DateAt(today), DateAt(today + 1)>>
          [] said.word = "last" /\ said.unit = "week"  -> WeekSpan(today, -1)
          [] said.word = "this" /\ said.unit = "week"  -> WeekSpan(today, 0)
          [] said.word = "last" /\ said.unit = "month" -> <<DateAt(FirstOfMonth(first - 1)), DateAt(first)>>
          [] said.word = "this" /\ said.unit = "month" -> <<DateAt(first), DateAt(FirstOfMonth(first + 31))>>
          [] said.word = "last" /\ said.unit = "year"  -> <<DateBound(year - 1, 1, 1), DateBound(year, 1, 1)>>
          [] said.word = "this" /\ said.unit = "year"  -> <<DateBound(year, 1, 1), DateBound(year + 1, 1, 1)>>

\* "the last 3 weeks", "lately": so many days back, and a day ahead.
Days == [day |-> 1, week |-> 7, month |-> 30, year |-> 365]
RelativeConstraint(said, now) ==
    CASE said.n > 0          -> Constraint("relative", said, <<now - 24 * said.n * Days[said.unit], now + 24>>, 0, TRUE)
      [] said.word = "recent" -> Constraint("relative", said, <<now - 24 * 30, now + 24>>, 0, TRUE)
      [] OTHER                -> Constraint("relative", said, PeriodSpan(said, DateOf(now)), 0, TRUE)

Marker == Constraint("marker", [word |-> "temporal"], NoSpan, 0, FALSE)

DeduplicateConstraints(constraints) ==
    FoldSeq(LAMBDA c, kept : IF c \in ToSet(kept) THEN kept ELSE Append(kept, c), <<>>, constraints)

OrMarked(found, q) == IF found = <<>> /\ "temporal" \in q.marks THEN <<Marker>> ELSE found
ParseTemporalConstraints(q, now) ==
    OrMarked(DeduplicateConstraints(Ranges(q, now) \o Dates(q, now)
                                    \o [i \in DOMAIN q.said |-> RelativeConstraint(q.said[i], now)]), q)

Explicit(constraints) == SelectSeq(constraints, LAMBDA c : c.explicit)

-----------------------------------------------------------------------------
(* names *)

Called(entity) == {entity.name} \cup entity.aliases
ExtractEntities(q, known) ==
    LET spoken == {n \in UNION {Called(e) : e \in known} : n \in q.names}
    IN  q.capitals \cup spoken
EntityIdsForNames(names, known) == {e.id : e \in {e \in known : Called(e) \cap names # {}}}

-----------------------------------------------------------------------------
(* the plan *)

AtLeast(a, b) == IF a < b THEN b ELSE a

Intent(q, temporal) ==
    CASE "count" \in q.marks       -> "count"
      [] "table" \in q.marks       -> "table"
      [] "comparison" \in q.marks  -> "comparison"
      [] "list_form" \in q.marks   -> "list"
      [] temporal                  -> "temporal"
      [] "list" \in q.marks        -> "list"
      [] OTHER                     -> "fact"
Required(intent, entities) ==
    CASE intent = "count"      -> 5
      [] intent = "table"      -> AtLeast(4, 2 * entities)
      [] intent = "comparison" -> AtLeast(2, entities)
      [] intent = "list"       -> AtLeast(3, entities + 1)
      [] intent = "temporal"   -> 2
      [] OTHER                 -> 1
GraphDepth(q, intent, entities, temporal) ==
    CASE "relationship" \in q.marks \/ entities > 1 \/ intent = "comparison" -> 2
      [] entities > 0 \/ temporal -> 1
      [] OTHER -> 0
Classify(q, entities, constraints) ==
    LET temporal == constraints # <<>> \/ "temporal" \in q.marks
        intent == Intent(q, temporal)
    IN  [intent |-> intent, required |-> Least(20, Required(intent, entities)),
         depth |-> GraphDepth(q, intent, entities, temporal), temporal |-> temporal]

PlanWith(q, known, entities, constraints) ==
    LET class == Classify(q, Cardinality(entities), constraints)
    IN  [entities |-> entities, ids |-> EntityIdsForNames(entities, known), constraints |-> constraints,
         intent |-> class.intent, required |-> class.required, evidence |-> {}, depth |-> class.depth,
         cold |-> class.temporal]
BuildQueryPlan(q, known, now) == PlanWith(q, known, ExtractEntities(q, known), ParseTemporalConstraints(q, now))

Shape(plan) ==
    CASE plan.intent \in {"table", "comparison"} -> "table"
      [] plan.intent \in {"list", "count"} -> plan.intent
      [] OTHER -> "text"
RetrievalLimitHint(plan) == AtLeast([table |-> 8, list |-> 6, count |-> 10, text |-> 3][Shape(plan)], plan.required)
RequiresEntityCoverage(plan) ==
    plan.entities # {} /\ (plan.intent \in {"table", "list", "count", "comparison"} \/ Cardinality(plan.entities) > 1)
=============================================================================
