---------------------------- MODULE MCModels ----------------------------
(* Small instances of Extraction and of ModelServer for TLC, which share no state: one run
   explores either, chosen by `part`, while the other stays as it began. *)
EXTENDS Extraction, ModelServer

CONSTANTS Sides,
          NoRun   \* the one that is left out of the runs that are alone
VARIABLE part

-----------------------------------------------------------------------------
(* Two runs whose memories share and misspell names; one run whose two messages are of different
   days; and a run for each day of sixteen months, one of them in a leap year. *)

MCNames   == {"acme", "acmee", "svc1", "svc2"}
MCSimilar == [n \in MCNames |-> CASE n = "acme" -> <<"acmee">> [] n = "acmee" -> <<"acme">>
                                   [] n = "svc1" -> <<"svc2">> [] n = "svc2" -> <<"svc1">>]
MCDigits  == [n \in MCNames |-> CASE n = "svc1" -> 1 [] n = "svc2" -> 2 [] OTHER -> 0]
MCKnown   == [n \in MCNames |-> CASE n = "acme" -> 1 [] n = "svc1" -> 3 [] OTHER -> 0]

Stamp(at, offset) == [at |-> at, offset |-> offset]
Message(id, source, occurred) == [id |-> id, source |-> source, occurred |-> occurred, observed |-> NoStamp, event |-> NoStamp,
                          zone |-> NoZone, said |-> <<>>]
Item(text, fact, names, verbs) ==
    [kind |-> "object", tier |-> "clean", text |-> text, fact |-> fact, names |-> names, verbs |-> verbs,
     message |-> "none", like |-> <<0, 0>>, said |-> <<>>, event |-> NoStamp, observed |-> NoStamp,
     zone |-> NoZone]
Payload(messages, replies) ==
    [talk |-> "plain", id |-> "p", source |-> "s", occurred |-> NoStamp, observed |-> NoStamp, event |-> NoStamp,
     zone |-> NoZone, messages |-> messages, replies |-> replies]
Says(items) == [status |-> "memories", items |-> items]

Verb(a, rel, b, apart) == [from |-> a, rel |-> rel, to |-> b, apart |-> apart]
First  == {Says(<<Item("a", "f", <<"acme", "svc2">>, <<Verb("acme", "uses", "svc2", 1)>>),
                  Item("b", "none", <<"acmee", "svc1">>, <<>>),
                  Item("a", "g", <<"svc1">>, <<>>)>>),
           [status |-> "no list", items |-> <<>>]}
Second == {Says(<<Item("c", "h", <<"svc2", "acme", "svc1">>, <<Verb("svc2", "uses", "acme", 20)>>),
                  Item("d", "h", <<"svc1">>, <<>>)>>),
           Says(<<[Item("e", "none", <<>>, <<>>) EXCEPT !.tier = "direct"],
                  [Item("e", "none", <<>>, <<>>) EXCEPT !.kind = "number"]>>)}

Now == 24 * Date(2024, 2, 29) + 10
Graphs == [r \in Runs |-> Payload(<<Message("m1", "none", Stamp(Now, 0))>>, IF r = NoRun THEN Second ELSE First)]

Solo(p)  == [r \in Runs |-> IF r = NoRun THEN Nothing ELSE p]
Ago(n)   == [form |-> "shift", n |-> n, unit |-> "month"]
Spoken(d, u) == [form |-> "period", dir |-> d, unit |-> u]
Dayword(n)   == [form |-> "dayword", n |-> n, unit |-> "day", dir |-> "none"]

\* A message of today and one of last year, in another zone, and memories about either or neither.
About(text, id, like, said) == [Item(text, "none", <<>>, <<>>) EXCEPT !.message = id, !.like = like, !.said = said]
Dated == [Payload(<<Message("m1", "none", Stamp(Now, 0)), Message("m2", "s2", Stamp(Now - 24 * 365 - 9, 10))>>,
                  {Says(<<About("a", "s2", <<3, 1>>, <<Dayword(-1), Spoken("last", "week")>>),
                          About("b", "none", <<1, 2>>, <<Spoken("next", "month")>>),
                          About("c", "none", <<1, 1>>, <<Dayword(1)>>),
                          [About("d", "m1", <<0, 0>>, <<>>) EXCEPT !.tier = "direct_in_fact"]>>)})
          EXCEPT !.observed = Stamp(Now + 72, 0)]
Empty == [Dated EXCEPT !.talk = "empty"]

Day(n) == Payload(<<Message("m1", "none", Stamp(24 * n + 22, 0))>>,
                  {Says(<<About("a", "m1", <<1>>,
                      <<Spoken("last", "week"), Spoken("this", "week"), Spoken("next", "week"),
                        Spoken("last", "month"), Spoken("this", "month"), Spoken("next", "month"),
                        Spoken("last", "year"), Spoken("this", "year"), Spoken("next", "year"),
                        Ago(-1), Ago(-2), Ago(-3), Ago(-12)>>)>>)})

MCJobs == {Graphs, Solo(Dated), Solo(Empty)}
          \union {Solo(Day(n)) : n \in Date(2023, 12, 1) .. Date(2025, 3, 31)}

-----------------------------------------------------------------------------
(* Two or three requests at a time, of one to three texts; a batch has two texts, the queue room
   for three, the reranker one slot and room for two.  "a " is "a" with a space after it. *)

MCBlank == ""

MCNormal == [t \in {"a", "a ", "b", " "} |-> CASE t = "a " -> "a" [] t = " " -> MCBlank [] OTHER -> t]
MCChars == [t \in {"a", "b", "c", "d", "l", "preference", "fact", "huge"} \cup DOMAIN MCNormal |-> IF t = "huge" THEN 9 ELSE 1]
MCConfigured ==
    [texts |-> 3, chars |-> 8, total |-> 8, classify |-> 2, labels |-> 2, labelChars |-> 1, labelTotal |-> 2,
     docs |-> 2, docChars |-> 1, docTotal |-> 2, query |-> 1, bytes |-> 8]
MCProfiles == [p \in {"local", "other"} |-> [model |-> IF p = "local" THEN "qwen" ELSE "openai", version |-> 1]]
MCLikeness == [t \in {"a", "b", "c", "d"} |-> [l \in {"preference", "fact"} |-> IF l = "fact" /\ t = "b" THEN 60 ELSE 30]]
MCWords == [t \in {"a", "b", "c", "d"} |-> IF t = "c" THEN {"fact"} ELSE {}]
MCRelevance == [t \in {"a", "b", "c", "d"} |-> IF t = "b" THEN 2 ELSE 1]

Embed(texts) == [kind |-> "embed", model |-> Unset, query |-> "l", texts |-> texts, labels |-> <<>>, top |-> 0, profile |-> Unset]
TextOf(p, t) == [Embed(<<t>>) EXCEPT !.kind = "text", !.profile = p, !.model = "qwen"]
Classify(texts) == [Embed(texts) EXCEPT !.kind = "classify", !.labels = <<"preference", "fact">>]
Rerank(docs) == [Embed(docs) EXCEPT !.kind = "rerank"]
IsReady == [Embed(<<>>) EXCEPT !.kind = "ready"]
Case(some, n, stops) == [asked |-> some, stops |-> stops, faults |-> n]
NoCase == Case(<<>>, 0, FALSE)
MCCases ==
    {NoCase} \cup {Case(<<Embed(<<"a", "b", "c">>), Embed(<<"d", "a">>)>>, n, st) : n \in {1}, st \in BOOLEAN}
    \cup {Case(<<Embed(<<"a", "b">>), Embed(<<"c", "d">>), Embed(<<"b">>)>>, 1, FALSE)}
    \cup {Case(<<Classify(<<"a", "b">>), Embed(<<"c">>), IsReady>>, 1, st) : st \in BOOLEAN}
    \cup {Case(<<TextOf("local", "a"), TextOf("local", "a "), TextOf("local", "b")>>, 1, FALSE)}
    \cup {Case(<<TextOf("local", "a"), TextOf(p, "a")>>, 0, FALSE) : p \in {"local", "other"}}
    \cup {Case(<<TextOf("local", " "), TextOf("local", " ")>>, 0, FALSE)}
    \cup {Case(<<Rerank(<<"a", "b">>), Rerank(<<"b", "c">>), [Rerank(<<"d">>) EXCEPT !.top = 1]>>, 2, st) : st \in BOOLEAN}
    \cup {Case(<<r, Embed(<<"a">>)>>, 0, FALSE) : r \in
            {Embed(<<>>), Embed(<<"huge">>), Embed(<<"a", "a", "a", "a">>), [Embed(<<"a">>) EXCEPT !.model = "openai"],
             Classify(<<>>), [Classify(<<"a">>) EXCEPT !.labels = <<>>], [Classify(<<"a">>) EXCEPT !.labels = <<"huge">>], Classify(<<"c">>),
             Rerank(<<>>), [Rerank(<<"a">>) EXCEPT !.query = "huge"], [Rerank(<<"a">>) EXCEPT !.top = -1], Rerank(<<"a", "b", "c">>)}}

-----------------------------------------------------------------------------
Init ==
    /\ part \in Sides
    /\ ExtractionInit /\ ServerInit
    /\ part = "server" => job = Solo(Empty)
    /\ part = "extraction" => case = NoCase
ExtractionStep == part = "extraction" /\ ExtractionNext /\ UNCHANGED <<part, serverVars>>
ServerStep     == part = "server" /\ ServerNext /\ UNCHANGED <<part, extractionVars>>
vars == <<part, extractionVars, serverVars>>

Rest == part = "server" /\ UNCHANGED vars   \* a server may stand idle, a pipeline may not get stuck
Spec == Init /\ [][ExtractionStep \/ ServerStep \/ Rest]_vars
Goes(served) == part = "server" /\ served /\ UNCHANGED <<part, extractionVars>>
FairSpec == Spec /\ WF_vars(Goes(Serve)) /\ WF_vars(Goes(Stop))
=============================================================================
