------------------------------ MODULE Context ------------------------------
(***************************************************************************)
(* What of a page of memories an agent is given to read.                   *)
(*                                                                         *)
(*   contexta/core/context/builder.py                                      *)
(*   contexta/core/context/planner.py                                      *)
(*   contexta/core/context/context_package.py                              *)
(*   contexta/services/kernel.py       (build_context)                     *)
(*   contexta/api/routes/memories.py   (get_context)                       *)
(*                                                                         *)
(* A memory is the record of what these steps read of it: the expressions  *)
(* of time its content (said) and its title, tags and data (noted) hold,   *)
(* the names in its text and those only in its tags, when it happened      *)
(* (at) and when its data say it did (told), and its length in words, that *)
(* of its title apart.  A request is for a package, with a plan, or for a  *)
(* prompt, without one: the route of get_context asks for the latter.      *)
(* Every page comes from the store: every memory has an identifier.        *)
(* Scores are whole numbers.  A budget of 0 is none.                       *)
(***************************************************************************)
EXTENDS QueryPlan

CONSTANTS Asks      \* what is asked of which page: [page, request]

VARIABLES stage,    \* the step that was taken last
          ask,
          values,   \* the memories that are left, in their order
          built,    \* the context, when it is assembled
          package,  \* what it is evidence of
          blocks    \* what is handed over

contextVars == <<stage, ask, values, built, package, blocks>>

r       == ask.request
Planned == r.kind = "package"

-----------------------------------------------------------------------------
(* which memories *)

RequiredIds == r.named \cup (IF Planned THEN r.plan.evidence ELSE {})
Constraints == IF Planned THEN Explicit(r.plan.constraints) ELSE <<>>
Searchable(m) == m.said \cup m.noted
Within(t, c)  == (c.start # None => t >= c.start) /\ (c.end # None => t < c.end)

MatchesTemporalConstraints(m) ==
    \A i \in DOMAIN Constraints :
        LET c == Constraints[i]
        IN  IF m.at # None THEN Within(m.at, c) ELSE c.expression \in Searchable(m)

\* (Unclosed: whatever is archived.)
Unclosed(m) == ~m.closed /\ MatchesTemporalConstraints(m)
Valid(m) == ~m.archived /\ ~m.closed /\ MatchesTemporalConstraints(m)
ByImportance(ms) ==
    LET Before(i, j) == \/ ms[i].importance > ms[j].importance
                        \/ ms[i].importance = ms[j].importance /\ i < j
        order == Sorted(DOMAIN ms, Before)
    IN  [i \in DOMAIN order |-> ms[order[i]]]

DeduplicateValues(ms) == Those(ms, {i \in DOMAIN ms : \A j \in 1 .. i - 1 : ms[j].id # ms[i].id})

\* Rows are needed of every memory that has some, when a table was asked for.
IsRequired(m) == m.id \in RequiredIds \/ (Planned /\ Shape(r.plan) = "table" /\ m.rows # <<>>)
CoverageLimit == IF Planned THEN AtLeast(r.limit, RetrievalLimitHint(r.plan)) ELSE r.limit
FirstOf(ms, n) == SubSeq(ms, 1, Least(n, Len(ms)))

\* (FirstOnly: the first so many, required or not.)
FirstOnly(ms) == FirstOf(ms, CoverageLimit)
LimitWithRequired(ms) ==
    LET optional == {i \in DOMAIN ms : ~IsRequired(ms[i])}
        room == CoverageLimit - Cardinality(DOMAIN ms \ optional)
    IN  Those(ms, {i \in DOMAIN ms : i \in optional => Cardinality({j \in optional : j <= i}) <= room})

-----------------------------------------------------------------------------
(* the planner *)

Categories == <<"projects", "goals", "facts", "episodic", "preferences", "relationships">>
Weights    == <<35, 20, 15, 15, 10, 5>>
CategoryFor(m) ==
    CASE m.type = "project" -> "projects"
      [] m.type = "goal" -> "goals"
      [] m.type = "preference" -> "preferences"
      [] m.type = "relationship" -> "relationships"
      [] m.type \in {"event", "episodic"} -> "episodic"
      [] OTHER -> "facts"

\* A share for each category, and one more for the first so many that the rounding leaves.
Allocate(total) ==
    LET share == [i \in 1 .. 6 |-> (total * Weights[i]) \div 100]
        left == total - FoldLeft(+, 0, share)
    IN  [c \in ToSet(Categories) |-> LET i == CHOOSE i \in 1 .. 6 : Categories[i] = c
                                     IN  share[i] + (IF i <= left THEN 1 ELSE 0)]

Words(ms) == FoldLeft(LAMBDA n, m : n + m.words, 0, ms)
OfCategory(ms, c) == SelectSeq(ms, LAMBDA m : CategoryFor(m) = c)

\* Those that are needed and the least evidence are taken whatever they cost.
Minimum(ms) ==
    LET needed == SelectSeq(ms, IsRequired)
        short == AtLeast(0, (IF Planned THEN r.plan.required ELSE 0) - Len(needed))
    IN  needed \o FirstOf(SelectSeq(ms, LAMBDA m : ~IsRequired(m)), short)

TakeWhatFits(ms, room) ==
    FoldLeft(LAMBDA a, m : IF m.words <= a.left THEN [took |-> Append(a.took, m), left |-> a.left - m.words] ELSE a,
             [took |-> <<>>, left |-> room], ms).took

\* (UnusedIsAll: what the categories took is not counted.)
UnusedIsAll(total, taken) == total
Unused(total, taken) == AtLeast(0, total - Words(taken))

FillBudget(ms) ==
    LET order == IF Planned THEN ms ELSE ByImportance(ms)
        forced == Minimum(order)
        rest == SelectSeq(order, LAMBDA m : m \notin ToSet(forced))
        Share(c) == Allocate(r.budget)[c] - Words(OfCategory(forced, c))
        shared == FlattenSeq([i \in 1 .. 6 |-> TakeWhatFits(OfCategory(rest, Categories[i]), Share(Categories[i]))])
        over == TakeWhatFits(SelectSeq(rest, LAMBDA m : m \notin ToSet(shared)), Unused(r.budget, forced \o shared))
    IN  ToSet(forced \o shared \o over)

\* (AsThePlannerOrders: those it took, the important ones first.)
AsThePlannerOrders(ms, chosen) == SelectSeq(ByImportance(ms), LAMBDA m : m \in chosen)
InOrder(ms, chosen) == Those(ms, {i \in DOMAIN ms : ms[i] \in chosen})

-----------------------------------------------------------------------------
(* the context *)

SortedEvents(ms) ==
    LET When(m) == IF m.at # None THEN m.at ELSE m.observed
        Before(i, j) == When(ms[i]) > When(ms[j]) \/ (When(ms[i]) = When(ms[j]) /\ i < j)
        order == Sorted(DOMAIN ms, Before)
    IN  IF Planned THEN ms ELSE [i \in DOMAIN ms |-> ms[order[i]]]

IsProfile(m) == m.type = "profile" \/ m.tags \cap {"profile", "identity", "onboarding"} # {}
IsData(m)    == m.facts # <<>>
\* What a later memory says of a key of the profile replaces what an earlier one said.
UserProfile(ms) ==
    FoldLeft(LAMBDA profile, m : IF IsProfile(m) /\ IsData(m) THEN m.facts[1] @@ profile ELSE profile, <<>>, ms)
Preferences(ms) ==
    FlattenSeq([i \in DOMAIN ms |-> (IF IsProfile(ms[i]) /\ ~IsData(ms[i]) THEN <<ms[i].id>> ELSE <<>>) \o
                                     (IF ms[i].type = "preference" THEN <<ms[i].id>> ELSE <<>>)])
Section(ms, types) == LET of == SelectSeq(ms, LAMBDA m : m.type \in types) IN [i \in DOMAIN of |-> of[i].id]
Listed == {"procedural", "rule", "project", "preference", "goal", "event", "episodic", "profile"}

\* Every row of the memories' tables, once.
Distinct(rows) == FoldLeft(LAMBDA seen, x : IF x \in ToSet(seen) THEN seen ELSE Append(seen, x), <<>>, rows)
StructuredTableRows(ms) == Distinct(FlattenSeq([i \in DOMAIN ms |-> ms[i].rows]))
SourceIds(ms) == Distinct(FlattenSeq([i \in DOMAIN ms |-> ms[i].sources]))
Ids(ms) == [i \in DOMAIN ms |-> ms[i].id]

\* The names are looked for only when the question has a constraint of time.
PlanConstraintsSatisfied(ms) ==
    \/ Constraints = <<>>
    \/ /\ \A i \in DOMAIN Constraints : \E m \in ToSet(ms) :
             \/ m.at # None /\ Within(m.at, Constraints[i])
             \/ Constraints[i].expression \in m.said
       /\ RequiresEntityCoverage(r.plan) =>
             \A e \in r.plan.entities : \E m \in ToSet(ms) : e \in m.names \cup m.tagged

Build(ms) ==
    [profile |-> UserProfile(ms), preferences |-> Preferences(ms), rules |-> Section(ms, {"procedural", "rule"}),
     projects |-> Section(ms, {"project"}), goals |-> Section(ms, {"goal"}),
     events |-> Section(SortedEvents(ms), {"event", "episodic"}),
     relevant |-> Section(ms, {m.type : m \in ToSet(ms)} \ Listed),
     rows |-> StructuredTableRows(ms), sources |-> SourceIds(ms),
     answerability |-> /\ Cardinality({m.id : m \in ToSet(ms)}) >= (IF Planned THEN r.plan.required ELSE 1)
                       /\ RequiredIds \subseteq {m.id : m \in ToSet(ms)}
                       /\ PlanConstraintsSatisfied(ms)]

-----------------------------------------------------------------------------
(* the package *)

\* A second reading of the same constraints: by the time the data tell, where there is no other.
TemporalValue(m) == IF m.at # None THEN m.at ELSE m.told
MatchesTemporalConstraint(m, c) ==
    \/ TemporalValue(m) # None /\ Within(TemporalValue(m), c)
    \/ TemporalValue(m) = None /\ ((c.start = None /\ c.end = None) \/ c.expression \in Searchable(m))
Evident(m) == \A i \in DOMAIN Constraints : MatchesTemporalConstraint(m, Constraints[i])

\* Evidence keeps no tags: a name that only they hold is not a mention of it.
Mentions(m, e) == e \in m.names
RequiredEntities == IF RequiresEntityCoverage(r.plan) THEN r.plan.entities ELSE {}
Eligible(m) == RequiredEntities = {} \/ \E e \in RequiredEntities : Mentions(m, e)

TableRows(ms) ==
    LET rows == FlattenSeq([i \in DOMAIN ms |-> ms[i].rows])
    IN  IF rows # <<>> THEN rows ELSE [i \in DOMAIN ms |-> <<"evidence", ms[i].id>>]
\* The rows of the context that its evidence did not bring.
AllRows(evidence, eligible) ==
    LET needed == SelectSeq(evidence, LAMBDA m : m.id \in RequiredIds /\ m \notin ToSet(eligible))
        rows == TableRows(IF eligible \o needed = <<>> THEN evidence ELSE eligible \o needed)
    IN  IF evidence = <<>> THEN rows ELSE rows \o SelectSeq(built.rows, LAMBDA x : x \notin ToSet(rows))

BuildPackage(ms) ==
    LET evidence == SelectSeq(ms, Evident)
        eligible == SelectSeq(evidence, Eligible)
        missing == RequiredIds \ ToSet(Ids(evidence))
        unnamed == {e \in RequiredEntities : \A m \in ToSet(evidence) : ~Mentions(m, e)}
    IN  [evidence |-> evidence, missing |-> missing, unnamed |-> unnamed, rows |-> AllRows(evidence, eligible),
         sources |-> SourceIds(evidence), value |-> IF Shape(r.plan) = "count" THEN Len(eligible) ELSE 0,
         answerable |-> /\ evidence # <<>>
                        /\ Len(eligible) >= r.plan.required
                        /\ Constraints # <<>> => eligible # <<>>
                        /\ missing = {} /\ unnamed = {}]

-----------------------------------------------------------------------------
(* what the kernel hands over *)

Kind(m) ==
    CASE m.type \in {"profile", "identity"} -> "identity"
      [] m.type = "procedural" -> "rule"
      [] m.type = "episodic"   -> "event"
      [] m.type \in {"preference", "rule", "project", "goal", "event"} -> m.type
      [] OTHER -> "fact"
Block(m) == [of |-> m.id, kind |-> Kind(m), words |-> m.heading + m.words]
Conversation == IF r.messages = 0 THEN <<>> ELSE <<[of |-> 0, kind |-> "conversation", words |-> r.messages]>>

\* In order, each as it fits; the first that does not is cut, and nothing is left after it.
Bounded(bs) ==
    FoldLeft(LAMBDA a, b : IF b.words <= a.left THEN [kept |-> Append(a.kept, b), left |-> a.left - b.words]
                           ELSE IF a.left = 0 THEN a
                           ELSE [kept |-> Append(a.kept, [b EXCEPT !.words = a.left]), left |-> 0],
             [kept |-> <<>>, left |-> r.budget], bs).kept

ContractContext(evidence) ==
    LET of == [i \in DOMAIN evidence |-> Block(evidence[i])]
        shown == IF r.userModel THEN of ELSE SelectSeq(of, LAMBDA b : b.kind \notin {"identity", "preference"})
        memories == IF r.limit < Len(shown \o Conversation) THEN FirstOf(shown, r.limit) ELSE shown
    IN  IF r.budget = 0 THEN memories \o Conversation ELSE Bounded(memories \o Conversation)

-----------------------------------------------------------------------------
Nothing == [evidence |-> <<>>, missing |-> {}, unnamed |-> {}, rows |-> <<>>, sources |-> <<>>, value |-> 0, answerable |-> FALSE]
ContextInit ==
    /\ ask \in Asks
    /\ stage = "asked" /\ values = ask.page /\ built = Build(<<>>) /\ package = Nothing /\ blocks = <<>>

\* Archived and closed memories and those of another time are left out; a prompt has the important first.
Keep ==
    /\ stage = "asked" /\ stage' = "kept"
    /\ values' = LET valid == Those(values, {i \in DOMAIN values : Valid(values[i])})
                 IN  IF Planned THEN valid ELSE ByImportance(valid)
    /\ UNCHANGED <<ask, built, package, blocks>>
LimitValues ==
    /\ stage = "kept" /\ stage' = "limited"
    /\ values' = LimitWithRequired(DeduplicateValues(values))
    /\ UNCHANGED <<ask, built, package, blocks>>
Fill ==
    /\ stage = "limited" /\ stage' = "filled"
    /\ values' = IF r.budget = 0 THEN values ELSE InOrder(values, FillBudget(values))
    /\ UNCHANGED <<ask, built, package, blocks>>
Assemble ==
    /\ stage = "filled" /\ stage' = IF Planned THEN "built" ELSE "handed"
    /\ built' = Build(values)
    /\ UNCHANGED <<ask, values, package, blocks>>
Pack ==
    /\ stage = "built" /\ stage' = "packed"
    /\ package' = BuildPackage(values)
    /\ UNCHANGED <<ask, values, built, blocks>>
Hand ==
    /\ stage = "packed" /\ stage' = "handed"
    /\ blocks' = ContractContext(package.evidence)
    /\ UNCHANGED <<ask, values, built, package>>

ContextNext == Keep \/ LimitValues \/ Fill \/ Assemble \/ Pack \/ Hand

-----------------------------------------------------------------------------
(***************************************************************************)
(* Properties.                                                             *)
(***************************************************************************)

\* Evidence that a request requires is in the package, if the page held it and it is valid and of
\* the time asked for, however low it stands there, whatever the limit and the budget are, and it
\* counts as missing otherwise: five steps may drop a memory and each must spare it.
RequiredKept ==
    stage = "packed" =>
        LET held == {m.id : m \in {m \in ToSet(ask.page) : m.id \in RequiredIds /\ Valid(m) /\ Evident(m)}}
        IN  held \subseteq ToSet(Ids(package.evidence)) /\ package.missing = RequiredIds \ held

\* What is handed over is no longer than the budget: a package because its blocks are cut to it, a
\* prompt, whose route cuts nothing, because the shares and what they leave add up to the budget.
WithinBudget ==
    stage = "handed" /\ r.budget > 0 =>
        IF Planned THEN FoldLeft(LAMBDA n, b : n + b.words, 0, blocks) <= r.budget ELSE Words(values) <= r.budget

\* The evidence of a package stands in the order of the page, each memory once: its metadata say
\* so ("retrieval_order_preserved"), and the blocks are cut in that order.
EvidenceInOrder ==
    stage = "packed" =>
        LET Place(i) == CHOOSE k \in DOMAIN ask.page : /\ ask.page[k].id = package.evidence[i].id
                                                       /\ \A j \in 1 .. k - 1 : ask.page[j].id # ask.page[k].id
        IN  \A i, j \in DOMAIN package.evidence : i < j => Place(i) < Place(j)

\* The four readings of one budget and one limit - the planner's, the package's, the builder's and the
\* route's - neither overrun nor change the order, nor does the package lose what is required.  The
\* kernel cuts the blocks once more (kernel.py:1004-1030), and there a required one may go.
PackageSound == RequiredKept /\ WithinBudget /\ EvidenceInOrder
=============================================================================
