------------------------------ MODULE Calendar ------------------------------
(***************************************************************************)
(* What an expression of time means when it is said at a known moment.     *)
(*                                                                         *)
(*   contexta/core/temporal.py                                             *)
(*                                                                         *)
(* A date is its proleptic Gregorian ordinal, as in Python, and a moment   *)
(* is counted in hours of the zone it is read in: 24 * date + hour.  What  *)
(* the patterns of the source recognise is a record here, with the form of *)
(* the expression and its numbers.  A resolver yields a match, or NoMatch  *)
(* when it leaves the expression to the next one.                          *)
(***************************************************************************)
EXTENDS Integers, Sequences, FiniteSets

\* No time, no hour.
None == -1

-----------------------------------------------------------------------------
(* dates *)

Leap(y)           == y % 4 = 0 /\ (y % 100 # 0 \/ y % 400 = 0)
YearStart(y)      == 365 * (y - 1) + (y - 1) \div 4 - (y - 1) \div 100 + (y - 1) \div 400

\* Months are counted through: 12 * year + month - 1.  The day before the first of one:
MonthStart(i) ==
    LET common == <<0, 31, 59, 90, 120, 151, 181, 212, 243, 273, 304, 334>>
    IN  YearStart(i \div 12) + common[(i % 12) + 1] + (IF i % 12 > 1 /\ Leap(i \div 12) THEN 1 ELSE 0)

MonthIndex(y, m)   == 12 * y + m - 1
Date(y, m, d)      == MonthStart(MonthIndex(y, m)) + d
YearFrom(n, least) == CHOOSE y \in least .. least + 6 : YearStart(y) < n /\ n <= YearStart(y + 1)
Year(n)            == YearFrom(n, (n - 1) \div 366 + 1)
MonthIn(n, y)      == CHOOSE i \in 12 * y .. 12 * y + 11 : MonthStart(i) < n /\ n <= MonthStart(i + 1)
MonthOf(n)         == MonthIn(n, Year(n))
DayOfMonth(n)      == n - MonthStart(MonthOf(n))
FirstOfMonth(n)    == MonthStart(MonthOf(n)) + 1
Weekday(n)         == (n + 6) % 7          \* Monday is 0
Least(a, b)        == IF a < b THEN a ELSE b

\* A day of a month, or the last it has.  (Rolled: or a day of the next one.)
Rolled(d, i)  == MonthStart(i) + d
Clamped(d, i) == MonthStart(i) + Least(d, MonthStart(i + 1) - MonthStart(i))
AddMonthsFrom(n, k, i) == Clamped(n - MonthStart(i), i + k)
AddMonths(n, k) == AddMonthsFrom(n, k, MonthOf(n))

DateAt(n)      == 24 * n
DateOf(moment) == moment \div 24

Hours == [hour |-> 1, day |-> 24, week |-> 168]
Shift(moment, n, unit) ==
    IF unit \in DOMAIN Hours THEN moment + n * Hours[unit]
    ELSE DateAt(AddMonths(DateOf(moment), n * (CASE unit = "quarter" -> 3 [] unit = "year" -> 12
                                                  [] unit = "month" -> 1))) + (moment % 24)

\* Units of a day or more fall on midnight.
ExtendedDateAt(moment, n, unit) ==
    IF unit = "hour" THEN Shift(moment, n, unit) ELSE DateAt(DateOf(Shift(moment, n, unit)))

PartOfDay == [morning |-> 9, afternoon |-> 14, evening |-> 18, night |-> 21]

-----------------------------------------------------------------------------
(* matches *)

Match(start, end, precision, basis) ==
    [start |-> start, end |-> end, precision |-> precision, basis |-> basis]

NoMatch                 == Match(None, None, "none", "none")
Unresolved(basis)       == Match(None, None, "unknown", basis)
Resolved(m)             == m.start # None
On(n, precision)        == Match(DateAt(n), None, precision, "relative_expression")
At(moment, precision)   == Match(moment, None, precision, "relative_expression")
From(a, b, precision)   == Match(DateAt(a), DateAt(b), precision, "relative_expression")
Ends(m)                 == IF m.end = None THEN m.start ELSE m.end
Else(first, second)     == IF first = NoMatch THEN second ELSE first

Rank == [unknown |-> 0, hour |-> 1, exact |-> 2, day |-> 3, week |-> 4, month |-> 5, quarter |-> 6,
         year |-> 7]
IntervalPrecision(left, right) ==
    IF Rank[right.precision] > Rank[left.precision] THEN right.precision ELSE left.precision

\* The later of two ends decides how much is claimed, and nothing ends before it starts.
Between(left, right) ==
    IF ~Resolved(left) \/ ~Resolved(right) \/ Ends(right) < left.start THEN NoMatch
    ELSE Match(left.start, Ends(right), IntervalPrecision(left, right),
               IF "relative_expression" \in {left.basis, right.basis} THEN "relative_expression"
               ELSE "explicit_date")

-----------------------------------------------------------------------------
(* dates that are written out: [form, y, m, d, h, iso], with m or d 0 when it is left out *)

Sign(dir) == CASE dir \in {"last", "previous", "past"} -> -1 [] dir \in {"this", "none"} -> 0
               [] OTHER -> 1

ValidDate(e) == e.form = "date" /\ e.m > 0 /\ e.d > 0 /\ Date(e.y, e.m, e.d) <= MonthStart(MonthIndex(e.y, e.m + 1))

\* A date of the ISO form, or one with a time of day: it needs no reference.
ParseExactValue(e) ==
    IF ~ValidDate(e) \/ ~(e.iso \/ e.h # None) THEN NoMatch
    ELSE LET n == Date(e.y, e.m, e.d)
         IN  IF e.h = None THEN Match(DateAt(n), None, "day", "explicit_date")
             ELSE Match(DateAt(n) + e.h, None, "exact", "explicit_date")

ParseAbsolute(e) ==
    CASE e.form = "date" /\ e.m = 0 ->
            Match(DateAt(Date(e.y, 1, 1)), DateAt(Date(e.y, 12, 31)), "year", "explicit_date")
      [] e.form = "date" /\ e.m > 0 /\ e.d = 0 ->
            Match(DateAt(Date(e.y, e.m, 1)), DateAt(MonthStart(MonthIndex(e.y, e.m + 1))), "month", "explicit_date")
      [] ValidDate(e) -> Match(DateAt(Date(e.y, e.m, e.d)), None, "day", "explicit_date")
      [] OTHER -> NoMatch

QuarterOf(e) ==
    LET start == Date(e.y, 3 * e.q - 2, 1)
    IN  Match(DateAt(start), DateAt(AddMonths(start, 3) - 1), "quarter", "explicit_date")

\* "the week before" a day is the day a week before it.
WeekBefore(e) ==
    LET target == ParseAbsolute(e.of)
    IN  IF target = NoMatch \/ target.precision # "day" THEN NoMatch
        ELSE On(DateOf(target.start) - 7, "day")

-----------------------------------------------------------------------------
(* expressions that lean on the day they are said *)

WeekStart(n) == n - Weekday(n)

\* Of the week, month, quarter or year so many from this one.
Months(first, n) == <<first, AddMonths(first, n) - 1>>
\* (FromToday: a month is counted from the day it is spoken of.)
FromToday(today, unit, k) ==
    CASE unit = "week" -> <<today - Weekday(today) + 7 * k, today - Weekday(today) + 7 * k + 6>>
      [] unit = "year" -> Months(AddMonths(today, 12 * k), 12)
      [] unit \in {"month", "quarter"} -> Months(AddMonths(today, IF unit = "month" THEN k ELSE 3 * k),
                                                 IF unit = "month" THEN 1 ELSE 3)
ExtendedPeriodBounds(today, unit, k) ==
    CASE unit = "week" -> <<WeekStart(today) + 7 * k, WeekStart(today) + 7 * k + 6>>
      [] unit = "year" -> <<Date(Year(today) + k, 1, 1), Date(Year(today) + k, 12, 31)>>
      [] unit \in {"month", "quarter"} ->
            Months(AddMonths(FirstOfMonth(today), IF unit = "month" THEN k ELSE ((MonthOf(today) % 12) \div 3 + k) * 3),
                   IF unit = "month" THEN 1 ELSE 3)

Weekend(today, k) ==
    LET early == Weekday(today) < 5
        a == today - Weekday(today) - (IF early THEN 2 ELSE 0)
             + (IF k = -1 THEN -7 ELSE IF k = 1 /\ early THEN 7 ELSE 0)
    IN  <<a, a + 1>>

\* The weekday of this week, of the next, or the last one that has passed.
QualifiedWeekday(today, dir, day) ==
    CASE Sign(dir) = -1 ->
            LET since == (Weekday(today) - day) % 7 IN today - (IF since = 0 THEN 7 ELSE since)
      [] Sign(dir) = 0  -> WeekStart(today) + day
      [] Sign(dir) = 1  -> WeekStart(today) + 7 + day

UpcomingWeekday(today, day) == today + ((day - Weekday(today)) % 7)

\* _resolve_match: the first pattern of the source, with its own reading of a bare weekday.
ResolveMatch(e, now) ==
    LET today == DateOf(now)
    IN  CASE e.form = "weekbefore" -> Else(WeekBefore(e), Unresolved("unresolved_unknown_expression"))
          [] e.form = "dayword" -> On(today + e.n, "day")
          [] e.form = "period" /\ e.unit \in {"week", "month", "year"} ->
                LET b == ExtendedPeriodBounds(today, e.unit, Sign(e.dir)) IN From(b[1], b[2], e.unit)
          [] e.form = "weekday" ->
                On(IF e.dir = "none" THEN UpcomingWeekday(today, e.day)
                   ELSE QualifiedWeekday(today, e.dir, e.day), "day")
          [] e.form = "shift" /\ e.n < 0 /\ e.unit # "hour" /\ e.unit # "quarter" ->
                On(DateOf(Shift(DateAt(today), e.n, e.unit)), e.unit)
          [] e.form = "date" /\ e.h = None -> ParseAbsolute(e)
          [] OTHER -> NoMatch

\* "the past 3 days", "the next 2 weeks", "for 3 days"
ExtendedInterval(e, now) ==
    LET span(a, b) == Match(a, ExtendedDateAt(now, b, e.unit), e.unit, "relative_expression")
        first == CASE e.dir = "past" -> 1 - e.n
                   [] e.dir \in {"last", "previous"} -> - e.n
                   [] OTHER -> IF e.over THEN 0 ELSE 1
        last  == CASE e.dir = "past" -> 0 [] e.dir \in {"last", "previous"} -> -1 [] OTHER -> e.n
    IN  CASE e.form = "window"   -> span(ExtendedDateAt(now, first, e.unit), last)
          [] e.form = "duration" -> span(now, e.n)
          [] OTHER -> NoMatch

\* now, tonight, noon, tomorrow at nine
TimesOfDay(e, now) ==
    LET today == DateOf(now)
    IN  CASE e.form = "now" -> At(now, "exact")
          [] e.form = "tonight" -> At(DateAt(today) + PartOfDay["night"], "day")
          [] e.form = "clock" -> At(DateAt(today) + e.h, "exact")
          [] e.form = "timed" -> At(DateAt(today + e.n) + e.h, "exact")
          [] e.form = "daypart" -> At(DateAt(today + e.n) + PartOfDay[e.part], "day")
          [] e.form = "part" -> At(DateAt(today + Sign(e.dir)) + PartOfDay[e.part], "day")
          [] OTHER -> NoMatch

RelativeWeek(e, today) ==
    LET b == ExtendedPeriodBounds(today, e.unit, Sign(e.dir))
        a == IF e.before THEN b[1] - 7 ELSE b[2] + 1
    IN  From(a, a + 6, "week")

\* Periods and weekdays that are named by their place.
Periods(e, now) ==
    LET today == DateOf(now)
    IN  CASE e.form = "weekby" -> RelativeWeek(e, today)
          [] e.form = "dayphrase" -> On(today + e.n, "day")
          [] e.form = "period" /\ e.unit = "weekend" ->
                LET b == Weekend(today, Sign(e.dir)) IN From(b[1], b[2], "week")
          [] e.form = "period" ->
                LET b == ExtendedPeriodBounds(today, e.unit, Sign(e.dir)) IN From(b[1], b[2], e.unit)
          [] e.form = "weekday" -> On(QualifiedWeekday(today, e.dir, e.day), "day")
          [] e.form = "quarter" -> QuarterOf(e)
          [] OTHER -> NoMatch

\* "3 days ago", "in 2 months", "an hour before now"
RelativePoint(e, now) ==
    IF e.form = "shift" THEN At(ExtendedDateAt(now, e.n, e.unit), e.unit) ELSE NoMatch

Simple(e, now) == Else(TimesOfDay(e, now), Else(Periods(e, now), RelativePoint(e, now)))

\* An end of an interval: a date, or an expression of the first pattern before any other.
ExtendedEndpoint(e, now) ==
    Else(ParseExactValue(e), Else(ResolveMatch(e, now), Simple(e, now)))

Parts(e) == IF e.form = "interval" THEN <<e.left, e.right>> ELSE <<e.of, e.of>>
Composed(e) == e.form \in {"interval", "of", "until"}

\* "the week of" a date, "May 3 to 7, 2023", "from last Monday to today"
ResolveInterval(e, left, right) ==
    LET n == DateOf(left.start)
    IN  CASE e.form = "of" /\ e.of.form = "date" /\ left # NoMatch /\ e.unit = "week" ->
                Match(DateAt(WeekStart(n)), DateAt(WeekStart(n) + 6), "week", left.basis)
          [] e.form = "of" /\ e.of.form = "date" /\ left # NoMatch /\ e.unit = "month" ->
                Match(DateAt(FirstOfMonth(n)), DateAt(AddMonths(FirstOfMonth(n), 1) - 1), "month", left.basis)
          [] e.form = "interval" -> Between(left, right)
          [] OTHER -> NoMatch

\* A bare weekday that ends an interval comes after its start.
ResolveExtendedInterval(e, left, right) ==
    LET n     == DateOf(left.start)
        after == IF left.precision = "week" THEN n + e.right.day
                 ELSE n + ((e.right.day - Weekday(n)) % 7)
    IN  IF e.form # "interval" THEN NoMatch
        ELSE IF Resolved(left) /\ Resolved(right) /\ Ends(right) < left.start
                /\ e.right.form = "weekday" /\ e.right.dir = "none"
             THEN Between(left, [right EXCEPT !.start = DateAt(after)])
             ELSE Between(left, right)

\* "until Friday", "by next month": from today, or from now when the end is a time of day.
Until(e, now, target) ==
    LET start == IF target.precision \in {"day", "week", "month", "quarter", "year"}
                 THEN DateAt(DateOf(now)) ELSE now
    IN  IF e.form # "until" \/ ~Resolved(target) \/ Ends(target) < start THEN NoMatch
        ELSE Match(start, Ends(target), target.precision, "relative_expression")

\* "the quarter of May 2023", and "the week of" anything but a date.
PeriodOf(e, target) ==
    LET b == ExtendedPeriodBounds(DateOf(target.start), e.unit, 0)
    IN  IF e.form # "of" \/ ~Resolved(target) THEN NoMatch
        ELSE Match(DateAt(b[1]), DateAt(b[2]), e.unit, target.basis)

OfParts(e, now, left, right) ==
    Else(Until(e, now, left),
    Else(ResolveInterval(e, left, right), Else(ResolveExtendedInterval(e, left, right), PeriodOf(e, left))))

ResolveAdditional(e, now) ==
    IF Composed(e) THEN OfParts(e, now, ExtendedEndpoint(Parts(e)[1], now), ExtendedEndpoint(Parts(e)[2], now))
    ELSE Else(ExtendedInterval(e, now), Simple(e, now))

\* What can be said without knowing when it was said.
ResolveWithoutReference(e) ==
    Else(ParseExactValue(e),
    Else(IF Composed(e) THEN ResolveInterval(e, ParseExactValue(Parts(e)[1]), ParseExactValue(Parts(e)[2])) ELSE NoMatch,
         CASE e.form = "quarter" -> QuarterOf(e)
           [] e.form = "weekbefore" -> WeekBefore(e)
           [] e.form = "date" /\ e.h = None -> ParseAbsolute(e)
           [] OTHER -> NoMatch))

\* Of an expression at a moment, or at None: always a match, resolved or not.
Resolve(e, now) ==
    IF e.form = "vague" THEN Unresolved("unresolved_unknown_expression")
    ELSE IF now = None
         THEN Else(ResolveWithoutReference(e), Unresolved("unresolved_no_reference"))
         ELSE Else(ParseExactValue(e), Else(ResolveAdditional(e, now), Else(ResolveMatch(e, now),
                   Unresolved("unresolved_unknown_expression"))))
=============================================================================
