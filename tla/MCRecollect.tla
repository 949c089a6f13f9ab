---------------------------- MODULE MCRecollect ----------------------------
\* Small stores of a user and a neighbour, each with the questions that make one channel or the
\* other decide; a world for each day of sixteen months in which a phrase of time is said; pages of
\* five memories under plans that need much and budgets that leave little; and relations of four
\* entities, of which some come while they are followed.
EXTENDS Recollect

Now == 24 * Date(2024, 2, 29) + 10
Recorded == [org |-> "o", user |-> "u", member |-> "m", agent |-> "a", project |-> "p", session |-> "s",
        type |-> "fact", tags |-> {}, from |-> Now - 2000, to |-> None, archived |-> FALSE, state |-> "active",
        created |-> Now - 2000, event |-> None, said |-> {}, dates |-> {}, words |-> {}, names |-> {}, meaning |-> 0,
        vectors |-> {"embedding_1024"}, label |-> "offline", context |-> <<>>, precision |-> "unknown",
        importance |-> 500, confidence |-> 500, utility |-> 0]
Speaks(words, names, meaning) == [Recorded EXCEPT !.words = words, !.names = names, !.meaning = meaning]

\* acme has two closed facts, two current ones, one that is archived and one of another agent; a
\* neighbour, v, knows an acme too, and another organisation has a fact of a user u.
Facts ==
    <<[Speaks({"office"}, {"acme"}, 4) EXCEPT !.to = Now - 900],
      Speaks({"office", "acme"}, {"acme"}, 1),
      Speaks({"owner"}, {"acme"}, 3),
      [Speaks({"office"}, {"acme"}, 2) EXCEPT !.archived = TRUE, !.created = Now - 1000],
      [Speaks({"office", "acme"}, {"acme", "bolt"}, 0) EXCEPT !.agent = "b"],
      Speaks({"owner", "bolt"}, {"bolt"}, 3),
      Speaks({"owner", "shed"}, {}, 1),
      Speaks({"owner", "shed"}, {}, 2),
      [Speaks({"office", "acme", "owner"}, {"acme", "bolt"}, 1) EXCEPT !.user = "v", !.importance = 900],
      [Speaks({"office", "acme", "owner"}, {"acme", "bolt"}, 1) EXCEPT !.org = "p", !.importance = 900]>>
Of(S) == [m \in S |-> Facts[m]]
Entity(id, name, user) == [id |-> id, name |-> name, aliases |-> {}, folded |-> name, parts |-> {name}, org |-> "o", user |-> user]
Entities == {Entity("e1", "acme", "u"), [Entity("e2", "bolt", "u") EXCEPT !.aliases = {"bolts"}],
             Entity("e3", "cog", "u"), Entity("e4", "acme", "v")}
Links == {<<"e1", 1>>, <<"e1", 2>>, <<"e1", 3>>, <<"e1", 4>>, <<"e1", 5>>, <<"e2", 5>>, <<"e2", 6>>, <<"e4", 9>>}
Edges == {{"e1", "e2"}, {"e2", "e3"}}

Caller == [f \in ScopeFields \cup {"org", "user"} |-> Unsaid]
Known  == [Caller EXCEPT !.org = "o", !.user = "u"]
Asked  == [org |-> "o", user |-> "u", member |-> Unsaid, agent |-> "a", project |-> Unsaid, session |-> Unsaid,
           limit |-> 1, depth |-> 0, cold |-> TRUE, archived |-> FALSE, types |-> {}, tags |-> {}, asOf |-> None]
Q(terms, names) == [ranges |-> <<>>, dates |-> <<>>, said |-> <<>>, marks |-> {}, capitals |-> {}, names |-> names,
                    terms |-> terms, variants |-> {}, meaning |-> 1]
Version2 == [Speaks({"office", "acme"}, {"acme"}, 1) EXCEPT !.from = Now, !.created = Now]
Changes == {[what |-> "supersede", of |-> 2, id |-> 11, row |-> Version2], [what |-> "archive", of |-> 3], [what |-> "cool", of |-> 3]}

Theirs == {9, 10}
World == [rows |-> Of((1 .. 6) \cup Theirs), changes |-> {}, links |-> Links, edges |-> Edges, entities |-> Entities, relations |-> {}, coming |-> {},
          known |-> [f \in DOMAIN Known \cup {"verified", "fallback"} |-> IF f \in DOMAIN Known THEN Known[f] ELSE f = "verified"],
          asked |-> Asked, kind |-> "retrieve", questions |-> <<Q({"office", "acme"}, {"acme"})>>,
          faults |-> 0, now |-> Now, profile |-> "offline", hops |-> 2, threshold |-> 700, offset |-> 0,
          wanted |-> <<>>, request |-> NoAsk.request]

Compared == [Q({"owner"}, {"acme", "bolt"}) EXCEPT !.marks = {"comparative", "comparison"}]
Routes == {World, [World EXCEPT !.faults = 2],
           [World EXCEPT !.questions = <<Compared, Q({"shed"}, {})>>, !.kind = "batch", !.changes = Changes],
           [World EXCEPT !.questions = <<[Compared EXCEPT !.marks = {"comparative"}]>>, !.changes = {[what |-> "archive", of |-> 2]}, !.faults = 1],
           [World EXCEPT !.rows = (Of({1, 3, 6} \cup Theirs) @@ (2 :> [Facts[2] EXCEPT !.vectors = {"embedding", "embedding_1024"}]))],
           [World EXCEPT !.kind = "investigate", !.questions = <<Q({"office"}, {})>>, !.faults = 1],
           [World EXCEPT !.kind = "investigate", !.rows = Of(Theirs)],
           [World EXCEPT !.asked.user = "v"],
           [World EXCEPT !.rows = Of({2, 6, 7, 8} \cup Theirs), !.links = {}, !.changes = {[what |-> "cool", of |-> 7]},
                         !.questions = <<[Compared EXCEPT !.names = {"bolt"}, !.terms = {"owner", "shed"}]>>]}
AsOf == {[World EXCEPT !.asked.asOf = Now - 3000, !.changes = Changes]}

\* Those who ask the engine from elsewhere, and those who ask the store.
Of3 == [Of({2, 3, 6} \cup Theirs) EXCEPT ![3].archived = TRUE, ![6].importance = 900]
Package == [NoAsk.request EXCEPT !.limit = 2, !.budget = 3, !.named = {3}]
Others == {[World EXCEPT !.kind = "recall", !.changes = Changes],
           [World EXCEPT !.kind = "tool", !.faults = 1, !.asked.agent = Unsaid],
           \* of a user without entities
           [World EXCEPT !.kind = "recall", !.entities = {Entity("e4", "acme", "v")}, !.links = {<<"e4", 9>>}, !.changes = Changes],
           [World EXCEPT !.kind = "tool", !.entities = {Entity("e4", "acme", "v")}, !.links = {<<"e4", 9>>}, !.asked.agent = Unsaid, !.questions = <<Compared>>],
           [World EXCEPT !.kind = "hybrid", !.asked.user = Unsaid], [World EXCEPT !.kind = "hybrid", !.asked.depth = 5],
           [World EXCEPT !.kind = "focus", !.changes = Changes, !.asked.limit = 2, !.request = Package],
           [World EXCEPT !.kind = "focus", !.faults = 1, !.request = Package, !.questions = <<Compared>>],
           [World EXCEPT !.kind = "truths", !.request = Package, !.asked.agent = Unsaid],
           [World EXCEPT !.kind = "truths", !.request = Package, !.rows = Of3],
           [World EXCEPT !.kind = "prompt", !.rows = Of3, !.request = [Package EXCEPT !.kind = "prompt"]],
           [World EXCEPT !.kind = "prompt", !.asked.org = "p"],
           [World EXCEPT !.kind = "list", !.offset = 1, !.asked.limit = 2], [World EXCEPT !.kind = "list", !.wanted = [archived |-> TRUE]],
           [World EXCEPT !.kind = "timeline"],
           [World EXCEPT !.kind = "search", !.asked.limit = 3, !.faults = 1], [World EXCEPT !.kind = "search", !.asked.user = Unsaid, !.asked.limit = 3]}

\* acme is related to bolt and by way of it to cog and rod; a relation of acme to cog comes later, and
\* one more of bolt, which then has more than are read.  hub is of another user.
Relation(i, f, t, type) == [id |-> i, from |-> f, to |-> t, type |-> type]
Relations == {Relation(1, "e1", "e2", "uses"), Relation(2, "e3", "e2", "uses"), Relation(3, "e3", "e5", "owns"), Relation(4, "e4", "e6", "uses")}
Coming == {Relation(5, "e1", "e3", "owns"), Relation(6, "e2", "e5", "uses")}
Somebody == Entities \cup {Entity("e5", "rod", "u"), Entity("e6", "hub", "v"), [Entity("e7", "Acme", "u") EXCEPT !.folded = "acme"]}
GraphAsk == [route |-> "traverse", org |-> "o", user |-> "u", member |-> Unsaid, agent |-> Unsaid, project |-> Unsaid, session |-> Unsaid,
             path |-> "u", source |-> "e1", ids |-> {"e1"}, names |-> {}, hops |-> 1, direction |-> "both", types |-> {}, limit |-> 9]
GraphWorld(asked) ==
    [World EXCEPT !.kind = "graph", !.asked = asked, !.relations = Relations, !.coming = Coming, !.entities = Somebody,
                  !.rows = (Of({1, 2, 3}) @@ (7 :> [Facts[7] EXCEPT !.user = "v"])),
                  !.links = {<<"e1", 1>>, <<"e2", 2>>, <<"e3", 3>>, <<"e6", 7>>}]
GraphAsks ==
    {[GraphAsk EXCEPT !.hops = h, !.types = t] : h \in {0, 2, 7}, t \in {{}, {"uses"}}} \cup
    {[GraphAsk EXCEPT !.source = s] : s \in {"acme", "bolt", "e6"}} \cup
    {[GraphAsk EXCEPT !.route = "overview", !.hops = h, !.path = p] : h \in {0, 2}, p \in {"u", "v"}} \cup
    {[GraphAsk EXCEPT !.route = "search", !.hops = h, !.direction = d, !.types = t] :
        h \in {1, 2}, d \in {"both", "outgoing", "incoming"}, t \in {{}, {"uses"}}} \cup
    {[GraphAsk EXCEPT !.route = "search", !.ids = {"e4"}, !.names = {"cog"}, !.limit = 2],
     [GraphAsk EXCEPT !.route = "memories"], [GraphAsk EXCEPT !.route = "memories", !.source = "e6"], [GraphAsk EXCEPT !.route = "memories", !.path = "v"],
     [GraphAsk EXCEPT !.route = "explore", !.source = "acme"], [GraphAsk EXCEPT !.route = "explore", !.source = "hub"],
     [GraphAsk EXCEPT !.route = "explore", !.source = "tin"]}
GraphWorlds == {GraphWorld(a) : a \in GraphAsks}

\* What the planner reads and what the extraction reads.
Phrase(word, unit) == [word |-> word, unit |-> unit, n |-> 0]
Period(d, u) == [form |-> "period", dir |-> d, unit |-> u]
Dayword(n)   == [form |-> "dayword", n |-> n, unit |-> "day", dir |-> "none"]
Phrases == {<<Phrase("yesterday", "day"), Dayword(-1)>>, <<Phrase("today", "day"), Dayword(0)>>} \cup
           {<<Phrase(d, u), Period(d, u)>> : d \in {"last", "this"}, u \in {"week", "month", "year"}}
SaidOn(day) == {[now |-> 24 * day + 22, said |-> p[2], question |-> [Q({}, {}) EXCEPT !.said = <<p[1]>>]] : p \in Phrases}
MCSayings == UNION {SaidOn(day) : day \in Date(2023, 11, 1) .. Date(2025, 3, 5)}

\* Five memories in several orders, some twice, closed or archived.
Week == Phrase("last", "week")
Memory == [id |-> 1, type |-> "fact", tags |-> {}, at |-> None, told |-> None, observed |-> Now, said |-> {}, noted |-> {},
           names |-> {}, tagged |-> {}, words |-> 3, heading |-> 1, importance |-> 5, archived |-> FALSE, closed |-> FALSE,
           rows |-> <<>>, facts |-> <<>>, sources |-> <<"s1">>]
Memories ==
    {[Memory EXCEPT !.id = 1, !.names = {"acme"}, !.rows = <<"x", "y">>, !.said = {Week}],
     [Memory EXCEPT !.id = 2, !.type = "event", !.at = Now - 24 * 8, !.names = {"bolt"}, !.words = 6, !.importance = 8],
     [Memory EXCEPT !.id = 3, !.type = "profile", !.facts = <<("name" :> 3)>>, !.noted = {Week}, !.tagged = {"bolt"}, !.importance = 2],
     [Memory EXCEPT !.id = 4, !.type = "preference", !.tags = {"identity"}, !.words = 2, !.rows = <<"y">>, !.told = Now],
     [Memory EXCEPT !.id = 5, !.type = "project", !.names = {"acme"}, !.at = Now - 24 * 40, !.sources = <<"s2">>, !.words = 1]}
Nth(p, i) == CHOOSE m \in Memories : m.id = p[i]
Few == {<<1, 2, 3, 4>>, <<4, 3, 2, 1>>, <<2, 2, 1, 3>>, <<5, 4, 1, 2>>, <<3, 5, 4, 1>>, <<5, 5, 2, 4>>, <<2, 4, 5, 3>>}
Pages == {[i \in 1 .. 4 |-> Nth(p, i)] : p \in Few} \cup
         {[i \in 1 .. 4 |-> IF i = 2 THEN [Nth(p, i) EXCEPT !.closed = p[1] < 3, !.archived = p[1] >= 3] ELSE Nth(p, i)] : p \in Few} \cup {<<>>}

Plain == Q({}, {})
Plans == {BuildQueryPlan(q, {}, Now) :
             q \in {Plain, [Plain EXCEPT !.marks = {"table"}], [Plain EXCEPT !.said = <<Week>>],
                    [Plain EXCEPT !.said = <<Week>>, !.capitals = {"acme", "bolt"}], [Plain EXCEPT !.marks = {"count"}, !.capitals = {"acme"}]}}
Asking == [kind |-> "package", plan |-> BuildQueryPlan(Plain, {}, Now), named |-> {}, limit |-> 2, budget |-> 0, userModel |-> TRUE, messages |-> 0]
\* A plan asks for three memories at least: the limit of two is raised to it.
Requests ==
    {[Asking EXCEPT !.plan = p, !.named = n, !.budget = b, !.userModel = (b # 4), !.messages = IF b = 9 THEN 2 ELSE 0] :
        p \in Plans, n \in {{}, {1}, {2, 3}, {4, 9}}, b \in {0, 4, 9, 20}} \cup
    {[Asking EXCEPT !.kind = "prompt", !.limit = l, !.budget = b] : l \in {2, 4}, b \in {0, 3, 9, 20}}
MCAsks == [page : Pages, request : Requests]

\* A world in which nothing is read but phrases of time.
Still     == [World EXCEPT !.kind = "reading", !.rows = <<>>, !.links = {}, !.edges = {}, !.entities = {}, !.questions = <<Q({}, {})>>]
MCWorlds  == Routes \cup Others \cup GraphWorlds \cup {Still, [World EXCEPT !.kind = "page"]}
=============================================================================
