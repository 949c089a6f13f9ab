----------------------------- MODULE Artifacts -----------------------------
(***************************************************************************)
(* Documents: how one is taken in, kept, and made into memories.           *)
(*                                                                         *)
(*   contexta/api/routes/artifacts.py, services/artifacts.py,              *)
(*   repositories/artifact_repo.py, models/artifact.py,                    *)
(*   services/artifact_memory.py, workers/artifact_tasks.py                *)
(*                                                                         *)
(* An upload goes through three systems that share no transaction: the     *)
(* original into the object store, its row into the database, a task into  *)
(* the broker.  The task cuts the text into chunks, puts each through the  *)
(* memory pipeline in one transaction and asks for vectors after it.  A    *)
(* chunk makes one memory, whose fact slot only one current row may hold.  *)
(*                                                                         *)
(* A document is a sequence of characters, among them line ends and tags.  *)
(***************************************************************************)
EXTENDS Integers, Sequences, FiniteSets, FiniteSetsExt, SequencesExt, Functions

CONSTANTS
    Cases,        \* [uploads: sequence of requests, backend: "local" or "s3", faults]
    MaxSize,      \* CONTEXTA_MAX_ARTIFACT_SIZE_BYTES
    ChunkSize,    \* characters of a chunk
    MaxRetries,   \* of the task
    Packages,     \* which of "pdf" and "docx" can be read
    Extension,    \* file name -> its extension
    Guess,        \* extension -> the type it suggests
    Sites         \* url -> what is there

\* What is sent is a sequence of bytes; a JSON body names a page and brings no file.
IsDocument(d) == d = [is |-> d.is, bytes |-> d.bytes] /\ d.bytes \in Seq(Range(d.bytes))
ASSUME MaxSizeAssumption == MaxSize \in Nat
ASSUME CasesAssumption   ==
    \A k \in Cases : \A i \in DOMAIN k.uploads :
        /\ IsDocument(k.uploads[i].file)
        /\ k.uploads[i].form = "json" => k.uploads[i].file = [is |-> "none", bytes |-> <<>>]

VARIABLES
    case, faults,
    up,          \* upload -> where its request is
    objects,     \* key -> the original in the store
    leftovers,   \* keys of temporary files that nobody removed
    rows,        \* upload -> its row, once that is committed
    running,     \* upload -> its task
    memories,    \* the slots that have a memory
    vectors      \* the slots whose vector was asked for

stores == <<objects, leftovers>>
work   == <<running, memories, vectors>>
artifactVars   == <<case, faults, up, stores, rows, work>>

None    == "none"
NoBytes == <<"none">>
NoFile  == [is |-> None, bytes |-> <<>>]
NoAnswer == -1
NL      == "\n"
Fail    == faults > 0 /\ faults' = faults - 1
NoFail  == UNCHANGED faults
With(f, k, v) == [l \in DOMAIN f \cup {k} |-> IF l = k THEN v ELSE f[l]]
Uploads == DOMAIN case.uploads

-----------------------------------------------------------------------------
(* reading a document *)

Strip(t) ==
    LET kept == {i \in DOMAIN t : t[i] # NL}
    IN  IF kept = {} THEN <<>> ELSE SubSeq(t, Min(kept), Max(kept))

Skipped == {"script"}
Blocks  == {"p"}
Tag(c)  == c \in {"<script>", "</script>", "<p>", "</p>"}
Name(c) == IF c \in {"<script>", "</script>"} THEN "script" ELSE "p"
Opens(c) == c \in {"<script>", "<p>"}
\* What is within a skipped element is left out; a block begins and ends a line.
HtmlText(data) ==
    LET step(s, c) ==
            IF ~Tag(c) THEN IF s.depth = 0 THEN [s EXCEPT !.text = Append(@, c)] ELSE s
            ELSE IF Name(c) \in Skipped /\ Opens(c) THEN [s EXCEPT !.depth = @ + 1]
            ELSE IF Name(c) \in Skipped /\ s.depth > 0 THEN [s EXCEPT !.depth = @ - 1]
            ELSE IF s.depth = 0 /\ Name(c) \in Blocks THEN [s EXCEPT !.text = Append(@, NL)]
            ELSE s
    IN  FoldLeft(step, [text |-> <<>>, depth |-> 0], data).text

\* The first format that the type or the extension fits is the one that is tried.
Formats ==
    <<[name |-> "pdf", mimes |-> {"application/pdf"}, exts |-> {".pdf"}],
      [name |-> "docx", mimes |-> {"application/docx"}, exts |-> {".docx"}],
      [name |-> "html", mimes |-> {"text/html"}, exts |-> {".html", ".htm"}],
      [name |-> "plain", mimes |-> {"text/plain", "text/markdown", "application/json"}, exts |-> {".txt", ".md", ".json"}]>>
Format(mime, ext) ==
    LET fit == {k \in DOMAIN Formats : mime \in Formats[k].mimes \/ ext \in Formats[k].exts}
    IN  IF fit = {} THEN None ELSE Formats[Min(fit)].name

Pdf(data)  == IF data.is = "pdf" THEN Strip(data.bytes) ELSE NoBytes
Docx(data) == IF data.is = "docx" THEN Strip(data.bytes) ELSE NoBytes
Decoded(data) == IF data.is \in {"plain", "html"} THEN data.bytes ELSE NoBytes
TextIn(format, data) ==
    CASE format = "pdf"  -> Pdf(data)
      [] format = "docx" -> Docx(data)
      [] OTHER -> LET t == Decoded(data)
                  IN  IF t = NoBytes THEN t ELSE Strip(IF format = "html" THEN HtmlText(t) ELSE t)

\* What cannot be read is kept all the same; the status says why it has no text.
Extract(data, mime, ext) ==
    LET format == Format(mime, ext)
        text == TextIn(format, data)
        unread(status) == [text |-> <<>>, status |-> status]
    IN  IF format = None THEN unread("unsupported")
        ELSE IF format \in {"pdf", "docx"} /\ format \notin Packages THEN unread("capability_unavailable")
        ELSE IF text = NoBytes THEN unread("failed")
        ELSE [text |-> text, status |-> "completed"]

Octets == "application/octet-stream"
ExtensionOf(name) == Extension[name]
SafeName(name) == IF name \in {None, "", ".."} THEN "artifact" ELSE name
GuessOf(ext) == IF ext \in DOMAIN Guess THEN Guess[ext] ELSE Octets
BaseMime(mime) == IF mime = None THEN Octets ELSE mime
ResolveMime(ext, mime) ==
    IF GuessOf(ext) = "text/markdown" THEN "text/markdown"
    ELSE IF BaseMime(mime) = Octets THEN GuessOf(ext) ELSE BaseMime(mime)

-----------------------------------------------------------------------------
(* the request *)

Refuse(status) == [status |-> status]
Read(data, name, mime) == [status |-> 200, data |-> data, name |-> name, mime |-> mime]
Cut(data, n) == [data EXCEPT !.bytes = SubSeq(@, 1, Min({n, Len(@)}))]
Size(data)   == Len(data.bytes)

\* One byte more than may be is read, so that what is too long is seen to be.  (ReadAtMost: it is not.)
ReadAtMost(data) == Cut(data, MaxSize)
ReadUpload(data) == Cut(data, MaxSize + 1)

BadIds(c)  == "malformed" \in {c.asksOrg, c.asksUser}
ParseMultipart(c) ==
    IF c.form = "text as file" THEN Refuse(422)
    ELSE IF c.file # NoFile /\ c.url # None THEN Refuse(400)
    ELSE IF BadIds(c) \/ c.metadata = "no object" THEN Refuse(422)
    ELSE Read(IF c.file = NoFile THEN NoFile ELSE ReadUpload(c.file), c.name, c.mime)
ParseJson(c) ==
    IF c.url = None \/ BadIds(c) \/ c.metadata = "no object" THEN Refuse(422) ELSE Read(NoFile, c.name, c.mime)
ParseRaw(c) ==
    IF Size(c.file) > MaxSize THEN Refuse(413)
    ELSE IF BadIds(c) THEN Refuse(422)
    ELSE Read(c.file, c.name, c.mime)
ParseUpload(c) ==
    LET parsed == CASE c.form = "json" -> ParseJson(c)
                    [] c.form = "raw"  -> ParseRaw(c)
                    [] OTHER           -> ParseMultipart(c)
    IN  IF parsed.status = 200 /\ parsed.data = NoFile /\ c.url = None THEN Refuse(422) ELSE parsed

\* The caller may name only itself and its own tenant.
AssertOrganization(org, asked) == IF asked \in {None, org} THEN 200 ELSE 403
EffectiveUser(c) ==
    IF c.asksUser # None /\ c.actor # None /\ c.asksUser # c.actor THEN Refuse(403)
    ELSE IF c.asksUser = None /\ c.actor = None THEN Refuse(422)
    ELSE [status |-> 200, user |-> IF c.asksUser # None THEN c.asksUser ELSE c.actor]

\* A site's own name and type of a document hold where the caller gave none.
Download(site) ==
    IF site.status # 200 THEN Refuse(502)
    ELSE IF Size(site.data) > MaxSize THEN Refuse(413)
    ELSE Read(site.data, site.name, site.mime)
FetchUrl(url) ==
    IF Sites[url].scheme \notin {"http", "https"} \/ Sites[url].credentials THEN Refuse(422)
    ELSE IF Sites[url].status = NoAnswer THEN Refuse(500)
    ELSE Download(Sites[url])
FromUrl(c, parsed) ==
    LET got == FetchUrl(c.url) IN
    IF got.status # 200 THEN got
    ELSE Read(got.data, IF c.name = None THEN got.name ELSE c.name, IF c.mime = None THEN got.mime ELSE c.mime)

\* The artifact as it will be kept.
Prepared(i, c, user, got) ==
    LET name == SafeName(got.name)
        ext  == ExtensionOf(name)
        mime == ResolveMime(ext, got.mime)
        said == IF BaseMime(got.mime) = Octets THEN mime ELSE BaseMime(got.mime)
    IN  IF Size(got.data) > MaxSize THEN Refuse(413)
        ELSE IF c.metadata = "too large" THEN Refuse(422)
        ELSE [status |-> 200, key |-> <<i, ext>>, data |-> got.data, org |-> c.org, user |-> user,
              read |-> Extract(got.data, said, ext)]

Upload(i, c) ==
    LET parsed == ParseUpload(c)
        user   == EffectiveUser(c)
        got    == IF parsed.data # NoFile THEN parsed ELSE FromUrl(c, parsed)
    IN  IF c.org = None THEN Refuse(401)
        ELSE IF parsed.status # 200 THEN parsed
        ELSE IF AssertOrganization(c.org, c.asksOrg) # 200 THEN Refuse(403)
        ELSE IF user.status # 200 THEN user
        ELSE IF got.status # 200 THEN got
        ELSE Prepared(i, c, user.user, got)

-----------------------------------------------------------------------------
(* keeping it *)

Stands(i, pc)    == up[i].pc = pc
Go(i, pc)    == up' = [up EXCEPT ![i].pc = pc]
Answer(i, s) == up' = [up EXCEPT ![i].pc = "answered", ![i].status = s]

Arrive(i) ==
    /\ Stands(i, "sent") /\ NoFail /\ UNCHANGED <<case, stores, rows, work>>
    /\ \E a \in {Upload(i, case.uploads[i])} :
            IF a.status # 200 THEN Answer(i, a.status) ELSE up' = [up EXCEPT ![i].pc = "put", ![i].art = a]

\* A file is written beside its place and moved there; a bucket takes the object at once, but
\* its answer may be lost.
WriteLocal(i) ==
    /\ Stands(i, "put") /\ case.backend = "local" /\ UNCHANGED <<case, objects, rows, work>>
    /\ \/ Go(i, "place") /\ leftovers' = leftovers \cup {up[i].art.key} /\ NoFail
       \/ Answer(i, 503) /\ Fail /\ UNCHANGED leftovers
Kept(i) == objects' = With(objects, up[i].art.key, up[i].art.data)
PlaceLocal(i) ==
    /\ Stands(i, "place") /\ leftovers' = leftovers \ {up[i].art.key} /\ UNCHANGED <<case, rows, work>>
    /\ \/ Go(i, "row") /\ Kept(i) /\ NoFail
       \/ Answer(i, 503) /\ UNCHANGED objects /\ Fail
PutObject(i) ==
    /\ Stands(i, "put") /\ case.backend = "s3" /\ UNCHANGED <<case, leftovers, rows, work>>
    /\ \/ Go(i, "row") /\ Kept(i) /\ NoFail
       \/ Answer(i, 503) /\ (Kept(i) \/ UNCHANGED objects) /\ Fail

Row(i) == [key |-> up[i].art.key, org |-> up[i].art.org, user |-> up[i].art.user, read |-> up[i].art.read, queued |-> FALSE]
\* The row is inserted and committed; whatever fails, the original stays in the store.
InsertRow(i) ==
    /\ Stands(i, "row") /\ UNCHANGED <<case, stores, rows, work>>
    /\ \/ Go(i, "commit") /\ NoFail
       \/ Answer(i, 500) /\ Fail
CommitRow(i) ==
    /\ Stands(i, "commit") /\ UNCHANGED <<case, stores, work>>
    /\ \/ Go(i, "delay") /\ rows' = With(rows, i, Row(i)) /\ NoFail
       \/ Answer(i, 500) /\ (UNCHANGED rows \/ rows' = With(rows, i, Row(i))) /\ Fail

\* The task is sent once the row is there.  A failure is logged and rolled back; that expires the
\* row in the session, and the answer that reads it fails as well.
Queued == [pc |-> "queued", tries |-> 0, chunks |-> <<>>, left |-> {}, k |-> 0, held |-> {}]
Delay(i) ==
    /\ Stands(i, "delay") /\ UNCHANGED <<case, stores, rows, memories, vectors>>
    /\ \/ Go(i, "mark") /\ running' = With(running, i, Queued) /\ NoFail
       \/ Answer(i, 500) /\ UNCHANGED running /\ Fail
MarkQueued(i) ==
    /\ Stands(i, "mark") /\ UNCHANGED <<case, stores, work>>
    /\ \/ Answer(i, 201) /\ rows' = [rows EXCEPT ![i].queued = TRUE] /\ NoFail
       \/ Answer(i, 500) /\ (UNCHANGED rows \/ rows' = [rows EXCEPT ![i].queued = TRUE]) /\ Fail

ApiDies(i) ==
    /\ up[i].pc \in {"put", "place", "row", "commit", "delay", "mark"} /\ Answer(i, NoAnswer) /\ Fail
    /\ UNCHANGED <<case, stores, rows, work>>

\* A row is shown to its own tenant, and listed to it newest first, one user's if that is asked.
Visible(org)    == {i \in DOMAIN rows : rows[i].org = org}
GetArtifact(c, i) ==
    IF c.org = None THEN 401
    ELSE IF AssertOrganization(c.org, c.asksOrg) # 200 THEN 403
    ELSE IF i \in Visible(c.org) THEN 200 ELSE 404
ListArtifacts(c) == {i \in Visible(c.org) : c.asksUser \in {None, rows[i].user}}
\* Whoever got 201 looks: for the artifact itself, or through the list of its user.
LookBack(i) ==
    /\ Stands(i, "answered") /\ up[i].status = 201 /\ up[i].back = 0
    /\ up' = [up EXCEPT ![i].back = IF i \in ListArtifacts(case.uploads[i]) THEN GetArtifact(case.uploads[i], i) ELSE 404]
    /\ NoFail /\ UNCHANGED <<case, stores, rows, work>>

-----------------------------------------------------------------------------
(* the task *)

\* The end of the chunk that begins after start: a blank line in its second half, else its full size.
\* (SkipLine: the next one begins after the blank line, whether or not it ended at one.)
ChunkEnd(t, start) ==
    LET end == Min({Len(t), start + ChunkSize})
        gaps == {b \in (start + ChunkSize \div 2)..(end - 2) : b > start /\ t[b + 1] = NL /\ t[b + 2] = NL}
    IN  IF end < Len(t) /\ gaps # {} THEN Max(gaps) ELSE end
SkipLine(t, end) == end + 2
NextStart(t, end) == end
Chunks(t) ==
    LET from[start \in 0..(Len(t) + 2)] ==
            IF start >= Len(t) THEN <<>>
            ELSE LET end == ChunkEnd(t, start)
                     chunk == Strip(SubSeq(t, start + 1, end))
                 IN  (IF chunk = <<>> THEN <<>> ELSE <<chunk>>) \o from[NextStart(t, end)]
    IN  IF Len(t) <= ChunkSize THEN <<t>> ELSE from[0]

Worth(row)  == row.read.text # <<>> /\ row.read.status = "completed"
ChunksOf(i) == running[i].chunks
Slot(i, k)  == <<rows[i].user, ChunksOf(i)[k]>>
Slots(i)    == {Slot(i, k) : k \in DOMAIN ChunksOf(i)}
Step(i, pc) == running' = [running EXCEPT ![i].pc = pc]
Active(i)   == running[i].pc \in {"look", "insert", "commit", "ask"}

\* A task that fails is sent again, three times; a worker that dies had not acknowledged it.
\* (Acknowledged: it had.)
GivenUp(j)      == [j EXCEPT !.pc = "failed", !.held = {}]
Again(j)        == IF j.tries < MaxRetries THEN [Queued EXCEPT !.tries = j.tries + 1, !.chunks = j.chunks] ELSE GivenUp(j)
Acknowledged(j) == GivenUp(j)
Unacked(j)      == [Queued EXCEPT !.tries = j.tries, !.chunks = j.chunks]
Retry(i)       == running' = [running EXCEPT ![i] = Again(@)]
NotUpload      == UNCHANGED <<case, up, stores, rows>>

HeldByOther(i, s) == \E o \in DOMAIN running \ {i} : s \in running[o].held
\* A retry is three minutes away: whoever waited for what it held has gone on by then.
Due(i) ==
    running[i].tries > 0 => \A o \in DOMAIN running \ {i} : running[o].pc = "insert" => HeldByOther(o, Slot(o, running[o].k))
Begin(i) ==
    /\ running[i].pc = "queued" /\ Due(i) /\ NoFail /\ NotUpload /\ UNCHANGED <<memories, vectors>>
    /\ IF i \notin DOMAIN rows THEN Step(i, "done")
       ELSE \E cut \in {IF Worth(rows[i]) THEN Chunks(rows[i].read.text) ELSE <<>>} :
                running' = [running EXCEPT ![i].pc = "look", ![i].chunks = cut, ![i].left = DOMAIN cut]
\* The chunks are taken in order; one whose memory is there already is discarded.
Look(i) ==
    /\ running[i].pc = "look" /\ NoFail /\ NotUpload /\ UNCHANGED <<memories, vectors>>
    /\ LET j == running[i] IN
       IF j.left = {} THEN Step(i, "commit")
       ELSE \E k \in j.left :
                /\ \A o \in j.left : k <= o
                /\ running' = IF Slot(i, k) \in memories \cup j.held THEN [running EXCEPT ![i].left = @ \ {k}]
                              ELSE [running EXCEPT ![i].pc = "insert", ![i].k = k]
\* The slot's index lets one insert in: another waits for its end, and fails if it has committed.
\* (CommitEach: the task commits after each chunk.)
CommitEach(i) ==
    /\ running[i].pc = "insert" /\ NoFail /\ NotUpload /\ UNCHANGED vectors
    /\ LET s == Slot(i, running[i].k) IN
       IF s \in memories THEN Retry(i) /\ UNCHANGED memories
       ELSE /\ ~HeldByOther(i, s) /\ memories' = memories \cup {s}
            /\ running' = [running EXCEPT ![i].pc = "look", ![i].left = @ \ {running[i].k}]
Insert(i) ==
    /\ running[i].pc = "insert" /\ NoFail /\ NotUpload /\ UNCHANGED <<memories, vectors>>
    /\ LET s == Slot(i, running[i].k) IN
       IF s \in memories THEN Retry(i)
       ELSE /\ ~HeldByOther(i, s)
            /\ running' = [running EXCEPT ![i].pc = "look", ![i].left = @ \ {running[i].k}, ![i].held = @ \cup {s}]
\* Two that wait for each other: the database ends one of them.
Waits(i, o) == running[i].pc = "insert" /\ Slot(i, running[i].k) \in running[o].held
Deadlock(i) ==
    /\ \E o \in DOMAIN running \ {i} : Waits(i, o) /\ Waits(o, i)
    /\ Retry(i) /\ NoFail /\ NotUpload /\ UNCHANGED <<memories, vectors>>
\* All chunks are committed at once.
Commit(i) ==
    /\ running[i].pc = "commit" /\ NotUpload /\ UNCHANGED vectors /\ NoFail
    /\ memories' = memories \cup running[i].held
    /\ Step(i, IF running[i].held = {} THEN "done" ELSE "ask")
\* What is discarded on a second run is not asked for again.
AskVectors(i) ==
    /\ running[i].pc = "ask" /\ NotUpload /\ UNCHANGED memories /\ NoFail
    /\ vectors' = vectors \cup running[i].held /\ running' = [running EXCEPT ![i].pc = "done", ![i].held = {}]

TaskFails(i) == Active(i) /\ Retry(i) /\ Fail /\ NotUpload /\ UNCHANGED <<memories, vectors>>
WorkerDies(i) ==
    /\ Active(i) /\ running' = [running EXCEPT ![i] = Unacked(@)] /\ Fail /\ NotUpload /\ UNCHANGED <<memories, vectors>>

-----------------------------------------------------------------------------
Idle == [pc |-> "sent", status |-> 0, art |-> [status |-> 0], back |-> 0]
ArtifactsInit ==
    /\ case \in Cases /\ faults = case.faults
    /\ up = [i \in Uploads |-> Idle]
    /\ objects = <<>> /\ leftovers = {} /\ rows = <<>>
    /\ running = <<>> /\ memories = {} /\ vectors = {}

Task(i) == Begin(i) \/ Look(i) \/ Insert(i) \/ Deadlock(i) \/ Commit(i) \/ AskVectors(i)
Working == \E i \in DOMAIN running : Task(i)
ArtifactsNext ==
    \/ \E i \in Uploads :
        \/ Arrive(i) \/ WriteLocal(i) \/ PlaceLocal(i) \/ PutObject(i) \/ InsertRow(i) \/ CommitRow(i)
        \/ Delay(i) \/ MarkQueued(i) \/ ApiDies(i) \/ LookBack(i)
    \/ Working \/ \E i \in DOMAIN running : TaskFails(i) \/ WorkerDies(i)

\* A worker is always there, and the broker gives it what nobody has acknowledged.
ArtifactsSpec     == ArtifactsInit /\ [][ArtifactsNext]_artifactVars
ArtifactsFairSpec == ArtifactsSpec /\ WF_artifactVars(Working)

-----------------------------------------------------------------------------
(* what is promised *)

\* A row's original is in the store, whole: every byte of what was sent or found, whichever form
\* it came in and whatever failed on the way (services/artifacts.py:746, routes/artifacts.py:187).
Source(c) == IF c.file # NoFile THEN c.file ELSE Sites[c.url].data
OriginalKept == \A i \in DOMAIN rows : rows[i].key \in DOMAIN objects /\ objects[rows[i].key] = Source(case.uploads[i])

\* The chunks are the document: nothing between them is lost but line ends, nothing comes twice or
\* out of order, and none is longer than it may be (artifact_memory.py:97).
Letters(t) == SelectSeq(t, LAMBDA c : c # NL)
ChunksWhole ==
    \A i \in DOMAIN running :
        LET cut == ChunksOf(i) IN
        Worth(rows[i]) /\ running[i].pc = "look" => /\ Letters(FlattenSeq(cut)) = Letters(rows[i].read.text)
                                                /\ \A k \in DOMAIN cut : Len(cut[k]) <= ChunkSize

\* A document's memories are committed all together or not at all, whatever another task with the
\* same text does meanwhile: whatever has been committed, some document's chunks are all there
\* (artifact_tasks.py:31).
NeverPart == \A s \in memories : \E i \in DOMAIN running : s \in Slots(i) /\ Slots(i) \subseteq memories

\* What was answered 201 is remembered in the end, through every failure the retries allow for
\* (routes/artifacts.py:385, artifact_tasks.py:49).
Remembered(i) == i \in DOMAIN running /\ running[i].pc = "done" /\ Slots(i) \subseteq memories
AcceptedRemembered == \A i \in 1..2 : (i \in Uploads /\ up[i].status = 201) ~> (i \in Uploads /\ Remembered(i))
=============================================================================
