------------------------------ MODULE MCTasks ------------------------------
(* Small instances of Lifecycle and of Artifacts for TLC, which share no state: one run explores
   either, chosen by `part`, while the other stays as it began. *)
EXTENDS Lifecycle, Artifacts

CONSTANTS Sides, m1, m2, p1, p2, k1
VARIABLE part

-----------------------------------------------------------------------------
(* two memories and three jobs *)

R(kind, ids) ==
    [kind |-> kind, ids |-> ids, key |-> k1, tier |-> "low", confidence |-> 70, profile |-> p1,
     flag |-> FALSE]

Updates(m) ==
    {R(kind, {m}) : kind \in UserKinds \cup {"feedback"}}
        \cup {[R("feedback", {m}) EXCEPT !.flag = TRUE]}
Cycles == {R("decay", {}), R("reflect", {}), R("dream", {}), [R("dream", {}) EXCEPT !.flag = TRUE]}
Drafts == {R("propose", {m1}), [R("propose", {m1, m2}) EXCEPT !.confidence = 96],
           [R("propose", {m1, m2}) EXCEPT !.tier = "high", !.confidence = 96]}
Decisions == {R("validate", {}), R("approve", {}), R("reject", {}), R("apply", {}),
              [R("apply", {}) EXCEPT !.key = {m1}]}
Embeds == {R("embed", {m1}), R("embed", {m1, m2}), [R("embed", {m1}) EXCEPT !.profile = p2]}

GoalAndRule == (m1 :> "goal" @@ m2 :> "rule")

\* The same kinds of jobs meet: rows, vectors and dreams; proposals, dreams and reviews.
AllJobs ==
    <<Updates(m1) \cup {R("dream", {}), R("embed", {m1, m2})} \cup Drafts,
      Cycles \cup Embeds \cup Decisions,
      {R("validate", {}), R("approve", {}), R("apply", {}), R("reject", {})} \cup
        {R("archive", {m1}), R("delete", {m1}), R("dream", {})}>>
DecayJobs == <<Updates(m1) \cup Cycles, Cycles>>

-----------------------------------------------------------------------------
(* One or two uploads at a time of short documents: "x" to "z" are letters, a chunk has at most
   four characters, a document at most eleven. *)

MCExtension == [n \in {"artifact", "a.txt", "b.pdf", "c.docx", "d.html", "e.md", "f.png"} |->
    [artifact |-> "", a |-> ".txt", b |-> ".pdf", c |-> ".docx", d |-> ".html", e |-> ".md", f |-> ".png"]
        [CASE n = "artifact" -> "artifact" [] n = "a.txt" -> "a" [] n = "b.pdf" -> "b" [] n = "c.docx" -> "c"
           [] n = "d.html" -> "d" [] n = "e.md" -> "e" [] n = "f.png" -> "f"]]
MCGuess == [e \in {".txt", ".pdf", ".html", ".md"} |->
    CASE e = ".txt" -> "text/plain" [] e = ".pdf" -> "application/pdf" [] e = ".html" -> "text/html" [] e = ".md" -> "text/markdown"]

Doc(is, bytes) == [is |-> is, bytes |-> bytes]
X == "x"  Y == "y"  Z == "z"
Short == Doc("plain", <<X, NL>>)
XY    == Doc("plain", <<X, X, NL, NL, Y, Y>>)
YX    == Doc("plain", <<Y, Y, NL, NL, X, X>>)
Texts ==
    {Short, XY, Doc("plain", <<>>), Doc("plain", <<NL, NL, NL>>), Doc("plain", <<X, Y, Z, X, Y, Z, X, Y, Z>>),
     Doc("plain", <<X, Y, NL, NL, Z, X, Y, NL, NL, Z, X>>), Doc("plain", <<X, Y, Z, NL, NL, NL, NL, NL, NL, X, Y>>),
     Doc("plain", <<X, NL, NL, Y, Z, X, Y, NL, NL, Z, X>>), Doc("plain", <<X, Y, Z, X, Y, Z, X, Y, Z, X, Y, Z>>),
     Doc("plain", <<X, Y, Z, X, Y, Z, X, Y, Z, X, Y, Z, X>>)}
Page == Doc("html", <<"<p>", X, "</p>", "<p>", "<script>", Y, "</script>", Z, X, "</p>", NL>>)

Ok(data, name, mime) == [scheme |-> "https", credentials |-> FALSE, status |-> 200, data |-> data, name |-> name, mime |-> mime]
MCSites ==
    [u \in {"page", "ftp", "secret", "gone", "away", "big"} |->
        CASE u = "page" -> Ok(Page, "d.html", "text/html") [] u = "big" -> Ok(Doc("plain", [i \in 1..12 |-> X]), None, None)
          [] u = "ftp" -> [Ok(Page, None, None) EXCEPT !.scheme = "ftp"] [] u = "secret" -> [Ok(Page, None, None) EXCEPT !.credentials = TRUE]
          [] u = "gone" -> [Ok(Page, None, None) EXCEPT !.status = 404] [] u = "away" -> [Ok(Page, None, None) EXCEPT !.status = NoAnswer]]

File(data, name) ==
    [org |-> "o1", actor |-> "u1", form |-> "multipart", file |-> data, url |-> None, name |-> name, mime |-> None,
     asksOrg |-> None, asksUser |-> None, metadata |-> "ok"]
At_(url) == [File(NoFile, None) EXCEPT !.form = "json", !.url = url]
Plain == File(Short, "a.txt")
Raw(data) == [File(data, None) EXCEPT !.form = "raw", !.mime = "text/plain"]
Case(some, backend, n) == [uploads |-> some, backend |-> backend, faults |-> n]
Sendings ==
    {File(t, "a.txt") : t \in Texts} \cup {Raw(t) : t \in Texts} \cup {At_(u) : u \in DOMAIN MCSites}
    \cup {File(Page, n) : n \in DOMAIN MCExtension} \cup {File(Doc(is, <<X, NL>>), n) : is \in {"pdf", "docx", "binary"}, n \in {"b.pdf", "c.docx", "a.txt", None}}
    \cup {[Plain EXCEPT !.org = None], [Plain EXCEPT !.form = "text as file"], [Plain EXCEPT !.url = "page"], File(NoFile, None),
          [Plain EXCEPT !.asksOrg = "o2"], [Plain EXCEPT !.asksOrg = "malformed"], [Plain EXCEPT !.asksUser = "u2"], [Plain EXCEPT !.asksUser = "u1", !.actor = None],
          [Plain EXCEPT !.actor = None], [Plain EXCEPT !.metadata = "no object"], [Plain EXCEPT !.metadata = "too large"],
          [At_(None) EXCEPT !.mime = "text/plain"], [At_("page") EXCEPT !.mime = "text/plain", !.name = "a.txt"], [At_("page") EXCEPT !.metadata = "no object"]}
MCCases ==
    {Case(<<>>, "s3", 0)} \cup
    {Case(<<c>>, "s3", 0) : c \in Sendings} \cup {Case(<<File(XY, "a.txt")>>, b, 3) : b \in {"local", "s3"}}
    \cup {Case(<<File(XY, "a.txt"), [File(d, "e.md") EXCEPT !.actor = u]>>, b, 1) : d \in {XY, YX}, u \in {"u1", "u2"}, b \in {"local", "s3"}}

-----------------------------------------------------------------------------
Init ==
    /\ part \in Sides
    /\ LifecycleInit /\ ArtifactsInit
    /\ part = "lifecycle" => case = Case(<<>>, "s3", 0)
LifecycleStep == part = "lifecycle" /\ LifecycleNext /\ UNCHANGED <<part, artifactVars>>
ArtifactsStep == part = "artifacts" /\ ArtifactsNext /\ UNCHANGED <<part, lifecycleVars>>
vars == <<part, lifecycleVars, artifactVars>>

Spec     == Init /\ [][LifecycleStep \/ ArtifactsStep]_vars
FairSpec == Spec /\ WF_vars(Working /\ UNCHANGED <<part, lifecycleVars>>)
=============================================================================
