---------------------------- MODULE ModelServer ----------------------------
(***************************************************************************)
(* The server of the local models, and how the program asks it.            *)
(*                                                                         *)
(*   contexta/workers/model_server.py, contexta/services/embedding.py      *)
(*                                                                         *)
(* One event loop.  Texts of all requests go through one bounded queue to  *)
(* one worker, which takes them in batches while there are any and ends    *)
(* when there are none; the next request starts it again.  Each text has a *)
(* future, and a request waits for those of one batch's worth of its texts *)
(* at a time.  Reranking has its own bound and its own slots.  A step is   *)
(* what runs between two awaits.                                           *)
(*                                                                         *)
(* The vector of a text is the text itself, with the model that made it.   *)
(***************************************************************************)
EXTENDS Subsequences, FiniteSetsExt, SequencesExt, Functions

CONSTANTS
    Cases,      \* [asked: sequence of requests, stops: whether the server is shut down meanwhile, faults]
    Chars,      \* text -> its length
    Configured, \* what the environment says of the limits of requests, by name
    MaxBatch, MaxQueue, MaxRerank, RerankSlots,
    Model,      \* the model that is loaded
    Profiles,   \* profile -> [model, version]
    Normal,     \* text -> it with single spaces between its words, Blank when it has none
    Blank,
    Likeness,   \* text -> label -> how close their vectors are, in percent
    Words,      \* text -> the labels whose words it has
    Relevance,  \* document -> its score
    Reranker    \* whether that model could be loaded

\* A question of the callers is of one text, under a profile.
RequestFields == {"kind", "model", "query", "texts", "labels", "top", "profile"}
ASSUME LimitsAssumption == {MaxBatch, MaxQueue, MaxRerank, RerankSlots} \subseteq Nat \ {0}
ASSUME AskedAssumption ==
    \A c \in Cases :
        /\ IsSeq(c.asked) /\ c.faults \in Nat
        /\ \A i \in DOMAIN c.asked :
            LET r == c.asked[i] IN
            /\ DOMAIN r = RequestFields /\ IsSeq(r.texts) /\ IsSeq(r.labels)
            /\ r.kind = "text" => Len(r.texts) = 1 /\ r.texts[1] \in DOMAIN Normal

VARIABLES
    case, faults,
    engine,     \* [state, closed, accepting, stop: how far a shutdown is]
    batcher,    \* [state, running, stale: whether the worker waits at a queue that was replaced]
    queue,      \* the texts that wait, as <<request, number>>
    worker,     \* [pc, items: its batch, texts: what it computes]
    dying,      \* a worker was cancelled and has not ended
    rerank,     \* [pending, active, free]
    req,        \* request -> where it is
    cache       \* what the callers keep in Redis

batching == <<batcher, queue, worker, dying>>
serverVars     == <<case, faults, engine, batching, rerank, req, cache>>

Unset     == "none"
Requests == DOMAIN case.asked
R(i)     == case.asked[i]
Fail     == faults > 0 /\ faults' = faults - 1
NoFail   == UNCHANGED faults
Vector(model, text) == <<model, text>>

-----------------------------------------------------------------------------
(* what a request may ask *)

\* No limit is below one.
Limits == [name \in DOMAIN Configured |-> Max({1, Configured[name]})]

TotalChars(texts) == FoldLeft(LAMBDA n, t : n + Chars[t], 0, texts)
TextsFit(texts, count, chars, total) ==
    /\ Len(texts) <= count
    /\ \A k \in DOMAIN texts : Chars[texts[k]] <= chars
    /\ TotalChars(texts) <= total
PayloadFits(r) == TotalChars(r.texts) + TotalChars(r.labels) + Chars[r.query] <= Limits.bytes

EmbedStatus(r) ==
    IF r.model \notin {Unset, Model} \/ r.texts = <<>> THEN 400
    ELSE IF TextsFit(r.texts, Limits.texts, Limits.chars, Limits.total) /\ PayloadFits(r) THEN 200 ELSE 413
ClassifyStatus(r) ==
    IF r.texts = <<>> \/ r.labels = <<>> THEN 400
    ELSE IF /\ TextsFit(r.texts, Limits.classify, Limits.chars, Limits.total)
            /\ TextsFit(r.labels, Limits.labels, Limits.labelChars, Limits.labelTotal) /\ PayloadFits(r) THEN 200 ELSE 413
RerankStatus(r) ==
    IF Chars[r.query] > Limits.query THEN 413
    ELSE IF r.top < 0 THEN 400
    ELSE IF TextsFit(r.texts, Limits.docs, Limits.docChars, Limits.docTotal) /\ PayloadFits(r) THEN 200 ELSE 413
Validated(r) ==
    CASE r.kind \in {"embed", "text"} -> EmbedStatus(r)
      [] r.kind = "classify" -> ClassifyStatus(r)
      [] r.kind = "rerank" -> RerankStatus(r)
      [] OTHER -> 200

\* A label is chosen by the vectors and, less, by words; the first of equals.
WordScore(text, label) ==
    IF label \in Words[text] THEN CASE label = "preference" -> 88 [] label = "fact" -> 82 [] label = "goal" -> 85 [] OTHER -> 80
    ELSE 20
WordTotal(text, labels) == FoldLeft(LAMBDA n, l : n + WordScore(text, l), 0, labels)
Blend(text, label, labels) ==
    7 * Likeness[text][label] * WordTotal(text, labels) + 3 * 100 * WordScore(text, label)
Label(text, labels) ==
    labels[CHOOSE k \in DOMAIN labels : \A n \in DOMAIN labels :
        \/ Blend(text, labels[k], labels) > Blend(text, labels[n], labels)
        \/ Blend(text, labels[k], labels) = Blend(text, labels[n], labels) /\ k <= n]

\* Best first, in the order given where scores are equal; not more than were asked for.
Ranked(docs, top) ==
    LET order == SetToSortSeq(DOMAIN docs, LAMBDA a, b : \/ Relevance[docs[a]] > Relevance[docs[b]]
                                                         \/ Relevance[docs[a]] = Relevance[docs[b]] /\ a < b)
    IN  IF top > 0 THEN SubSeq(order, 1, Min({top, Len(order)})) ELSE order

-----------------------------------------------------------------------------
(* answers *)

Stands(i, pc)        == req[i].pc = pc
Go(i, pc)        == req' = [req EXCEPT ![i].pc = pc]
Answered(status, got) == [status |-> status, got |-> got]
Give(r, status, got)  == [r EXCEPT !.pc = "answered", !.answer = Answered(status, got)]
Answer(i, status, got) == req' = [req EXCEPT ![i] = Give(@, status, got)]
\* A caller has an error of its own for any status but 200.
Error(i, status) == IF R(i).kind = "text" THEN Answer(i, 500, <<>>) ELSE Answer(i, status, <<>>)

\* What the callers keep is kept by profile and normalised text, so that texts which differ in white
\* space alone share an entry; a text without words is not kept.  Reading and writing may fail
\* without harm.
CacheKey(r) == <<r.profile, Profiles[r.profile].version, Normal[r.texts[1]]>>
HasKey(r)   == Normal[r.texts[1]] # Blank
NoServer    == UNCHANGED <<case, engine, batching, rerank>>
CacheGet(i) ==
    /\ Stands(i, "new") /\ NoServer /\ UNCHANGED cache
    /\ \/ /\ CacheKey(R(i)) \in DOMAIN cache /\ Answer(i, 200, <<cache[CacheKey(R(i))]>>) /\ NoFail
       \/ CacheKey(R(i)) \notin DOMAIN cache /\ Go(i, "post") /\ NoFail
       \/ CacheKey(R(i)) \in DOMAIN cache /\ Go(i, "post") /\ Fail
\* A vector of another model than the profile's has another length, and is refused.
ProfileOf(i) == Profiles[R(i).profile]
ValidEmbedding(profile, vector) == vector[1] = profile.model
CacheSet(i) ==
    /\ Stands(i, "keep") /\ NoServer
    /\ IF ~ValidEmbedding(ProfileOf(i), req[i].got[1]) THEN Error(i, 500) /\ NoFail /\ UNCHANGED cache
       ELSE /\ Answer(i, 200, req[i].got)
            /\ \/ HasKey(R(i)) /\ cache' = [k \in DOMAIN cache \cup {CacheKey(R(i))} |-> IF k = CacheKey(R(i)) THEN req[i].got[1] ELSE cache[k]] /\ NoFail
               \/ HasKey(R(i)) /\ UNCHANGED cache /\ Fail
               \/ ~HasKey(R(i)) /\ UNCHANGED cache /\ NoFail

-----------------------------------------------------------------------------
(* the batcher *)

Waiting == [pc |-> "waiting", items |-> <<>>, texts |-> <<>>]
Ended   == [pc |-> "none", items |-> <<>>, texts |-> <<>>]
Pending(f)   == req[f[1]].futs[f[2]] = "pending"
Start        == IF batcher.running THEN batcher ELSE [state |-> "running", running |-> TRUE, stale |-> FALSE]
StartedWorker == IF batcher.running THEN worker ELSE Waiting

\* Every future that is pending fails.  (FailWaiting: those that are in the queue.)
FailWaiting(r) == [i \in Requests |-> [r[i] EXCEPT !.futs =
    [k \in DOMAIN @ |-> IF @[k] = "pending" /\ <<i, k>> \in ToSet(queue) THEN "failed" ELSE @[k]]]]
FailPending(r) == [i \in Requests |-> [r[i] EXCEPT !.futs = [k \in DOMAIN @ |-> IF @[k] = "pending" THEN "failed" ELSE @[k]]]]
FailAll == req' = FailPending(req) /\ queue' = <<>>

\* The prototypes of the labels are embedded with the texts that are to be classified.
TextsOf(r) == IF r.kind = "classify" THEN r.texts \o r.labels ELSE r.texts
ChunkOf(i) == {k \in DOMAIN TextsOf(R(i)) : k > Len(req[i].got) /\ k <= Len(req[i].got) + MaxBatch}

\* One batch's worth of a request's texts: each finds room in the queue or is refused.
Submit(i) ==
    LET ks   == ChunkOf(i)
        low  == Len(req[i].got)
        room == MaxQueue - Len(queue)
        in_  == {k \in ks : k - low <= room}
    IN  /\ Stands(i, "submit") /\ NoFail /\ UNCHANGED <<case, engine, dying, rerank, cache>>
        /\ batcher' = Start /\ worker' = StartedWorker
        /\ queue' = queue \o [n \in 1..Cardinality(in_) |-> <<i, low + n>>]
        /\ req' = [req EXCEPT ![i].pc = "gather",
                              ![i].futs = [k \in DOMAIN @ |-> IF k \in in_ THEN "pending" ELSE IF k \in ks THEN "refused" ELSE @[k]]]

Vectors(i) == [k \in 1..(Len(req[i].got) + Cardinality(ChunkOf(i))) |->
    IF k <= Len(req[i].got) THEN req[i].got[k] ELSE req[i].vectors[k]]
Classes(i, got) == [k \in DOMAIN R(i).texts |-> Label(got[k][2], R(i).labels)]
Settled(i) == \A k \in ChunkOf(i) : req[i].futs[k] # "pending"
\* All of them are waited for; one failure, the first, fails the request.
Gathered(i) ==
    LET bad  == {k \in ChunkOf(i) : req[i].futs[k] \in {"failed", "refused"}}
        more == Len(Vectors(i)) < Len(TextsOf(R(i))) IN
    /\ Stands(i, "gather") /\ Settled(i) /\ NoFail /\ NoServer /\ UNCHANGED cache
    /\ IF bad # {} THEN Error(i, IF req[i].futs[Min(bad)] = "refused" THEN 429 ELSE 503)
       ELSE IF more THEN req' = [req EXCEPT ![i].pc = "submit", ![i].got = Vectors(i)]
       ELSE IF R(i).kind = "text" THEN req' = [req EXCEPT ![i].pc = "keep", ![i].got = Vectors(i)]
       ELSE Answer(i, 200, IF R(i).kind = "classify" THEN Classes(i, Vectors(i)) ELSE Vectors(i))

NotAsked == UNCHANGED <<case, engine, rerank, cache>>
Take ==
    /\ worker.pc = "waiting" /\ ~batcher.stale /\ queue # <<>> /\ NoFail /\ NotAsked /\ UNCHANGED <<batcher, dying, req>>
    /\ worker' = [worker EXCEPT !.pc = "collecting", !.items = <<Head(queue)>>] /\ queue' = Tail(queue)
Collect ==
    /\ worker.pc = "collecting" /\ Len(worker.items) < MaxBatch /\ queue # <<>> /\ NoFail /\ NotAsked
    /\ worker' = [worker EXCEPT !.items = Append(@, Head(queue))] /\ queue' = Tail(queue)
    /\ UNCHANGED <<batcher, dying, req>>
\* The window is over, or the batch full: those whose request is still there are computed.
\* (AllTexts: the texts of the others as well.)
Text(f)         == TextsOf(R(f[1]))[f[2]]
AllTexts(items, live)   == [n \in DOMAIN items |-> Text(items[n])]
BatchTexts(items, live) == [n \in DOMAIN live |-> Text(live[n])]
Form ==
    LET there == {n \in DOMAIN worker.items : Pending(worker.items[n])} IN
    /\ worker.pc = "collecting" /\ NoFail /\ NotAsked /\ UNCHANGED <<batcher, queue, dying, req>>
    /\ \E live \in Picked(worker.items, there) :
        worker' = IF there = {} THEN Waiting
                  ELSE [pc |-> "computing", items |-> live, texts |-> BatchTexts(worker.items, live)]

\* Each future that still waits gets the vector at its place.
Computed(items, texts) ==
    LET hit(i, k) == {n \in DOMAIN items : items[n] = <<i, k>> /\ Pending(items[n])}
    IN  [i \in Requests |-> [req[i] EXCEPT
            !.futs    = [k \in DOMAIN @ |-> IF hit(i, k) # {} THEN "ok" ELSE @[k]],
            !.vectors = [k \in DOMAIN @ |-> IF hit(i, k) # {} THEN Vector(Model, texts[Min(hit(i, k))]) ELSE @[k]]]]
\* With nothing left to do the worker ends; whatever is pending then, nobody would answer.
Compute ==
    LET idle == queue = <<>> IN
    /\ worker.pc = "computing" /\ NotAsked /\ NoFail /\ UNCHANGED <<queue, dying>>
    /\ req' = IF idle THEN FailPending(Computed(worker.items, worker.texts)) ELSE Computed(worker.items, worker.texts)
    /\ batcher' = IF idle THEN [batcher EXCEPT !.state = "idle", !.running = FALSE] ELSE batcher
    /\ worker' = IF idle THEN Ended ELSE Waiting
ComputeFails ==
    /\ worker.pc = "computing" /\ NotAsked /\ Fail /\ UNCHANGED dying
    /\ FailAll /\ worker' = Ended /\ batcher' = [batcher EXCEPT !.state = "failed", !.running = FALSE]

-----------------------------------------------------------------------------
(* the engine *)

Ready == engine.state = "ready" /\ batcher.state \in {"running", "idle"} /\ ~engine.closed
Stopping == engine.state \in {"stopping", "stopped"}
\* What /models/status and /ready tell of the engine, of the two models, and of what waits for them.
StatusPayload ==
    [state     |-> IF engine.state = "ready" /\ batcher.state \in {"failed", "stopped"} THEN batcher.state ELSE engine.state,
     healthy   |-> Ready /\ Reranker,
     embedding |-> IF Stopping THEN "stopped" ELSE IF batcher.state = "failed" THEN "failed"
                   ELSE IF batcher.state \notin {"running", "idle"} THEN "loaded" ELSE "ready",
     reranker  |-> IF Stopping THEN "stopped" ELSE IF Reranker THEN "ready" ELSE "unavailable",
     depth     |-> Len(queue),
     rerank    |-> [pending |-> rerank.pending, active |-> rerank.active]]

\* A request that the server may take starts the worker where that has ended or failed.
Available == ~engine.closed /\ engine.state \notin {"warming", "stopping", "stopped", "dead"}

\* The server does not start without its model.
WarmUp ==
    /\ engine.state = "warming" /\ UNCHANGED <<case, queue, worker, dying, rerank, req, cache>>
    /\ \/ engine' = [engine EXCEPT !.state = "ready"] /\ batcher' = [batcher EXCEPT !.state = "idle"] /\ NoFail
       \/ engine' = [engine EXCEPT !.state = "dead"] /\ batcher' = [batcher EXCEPT !.state = "stopped"] /\ Fail

ReserveRerank(i) ==
    IF rerank.pending >= MaxRerank THEN Error(i, 429) /\ UNCHANGED rerank
    ELSE Go(i, "slot") /\ rerank' = [rerank EXCEPT !.pending = @ + 1]
Arrive(i) ==
    /\ Stands(i, "post") /\ engine.state \notin {"warming", "dead"} /\ NoFail
    /\ UNCHANGED <<case, engine, queue, dying, cache>>
    /\ LET r == R(i)
           status == Validated(r)
           refuse(s) == Error(i, s) /\ UNCHANGED <<batcher, worker, rerank>>
       IN  IF r.kind = "ready" THEN Answer(i, IF Ready THEN 200 ELSE 503, StatusPayload) /\ UNCHANGED <<batcher, worker, rerank>>
           ELSE IF status # 200 THEN refuse(status)
           ELSE IF r.kind = "rerank" /\ r.texts = <<>> THEN Answer(i, 200, <<>>) /\ UNCHANGED <<batcher, worker, rerank>>
           ELSE IF ~Available THEN refuse(503)
           ELSE /\ batcher' = Start /\ worker' = StartedWorker
                /\ IF r.kind = "rerank" THEN ReserveRerank(i) ELSE Go(i, "submit") /\ UNCHANGED rerank

Release(acquired) == [rerank EXCEPT !.pending = @ - 1, !.active = @ - acquired, !.free = @ + acquired]
NotBatching == UNCHANGED <<case, engine, batching, cache>>
Acquire(i) ==
    /\ Stands(i, "slot") /\ rerank.free > 0 /\ NoFail /\ NotBatching
    /\ IF engine.closed \/ ~Reranker THEN Error(i, 503) /\ rerank' = [rerank EXCEPT !.pending = @ - 1]
       ELSE Go(i, "scoring") /\ rerank' = [rerank EXCEPT !.active = @ + 1, !.free = @ - 1]
Score(i) ==
    /\ Stands(i, "scoring") /\ NotBatching /\ rerank' = Release(1)
    /\ \/ Answer(i, 200, Ranked(R(i).texts, R(i).top)) /\ NoFail
       \/ Error(i, 503) /\ Fail

\* A request is cancelled where it waits: what it waits for is given up, what it holds released.
\* (Leaves: it keeps what it holds.)
Leaves(i) == rerank
HeldBy(i) == IF Stands(i, "scoring") THEN Release(1) ELSE IF Stands(i, "slot") THEN Release(0) ELSE rerank
Cancelled(i) ==
    /\ req[i].pc \in {"gather", "slot", "scoring"} /\ Fail /\ NotBatching /\ rerank' = HeldBy(i)
    /\ req' = [req EXCEPT ![i].pc = "gone", ![i].futs = [k \in DOMAIN @ |-> IF @[k] = "pending" THEN "cancelled" ELSE @[k]]]

-----------------------------------------------------------------------------
(* shutting down *)

BeginStop ==
    /\ case.stops /\ engine.stop = "no" /\ engine.state # "warming" /\ engine.state # "dead"
    /\ engine' = [engine EXCEPT !.state = "stopping", !.closed = TRUE, !.accepting = FALSE, !.stop = "cancelled"]
    /\ batcher' = [batcher EXCEPT !.state = "stopped", !.running = FALSE]
    /\ dying' = (worker.pc # "none") /\ worker' = Ended
    /\ NoFail /\ UNCHANGED <<case, queue, rerank, req, cache>>
\* The cancelled worker ends; what it fails is failed unless another has been started meanwhile.
Dies ==
    /\ dying /\ dying' = FALSE /\ NoFail /\ NotAsked /\ UNCHANGED <<batcher, worker>>
    /\ IF batcher.running THEN UNCHANGED <<req, queue>> ELSE FailAll
StopFails ==
    /\ engine.stop = "cancelled" /\ ~dying /\ FailAll /\ engine' = [engine EXCEPT !.stop = "failed"]
    /\ NoFail /\ UNCHANGED <<case, batcher, worker, dying, rerank, cache>>
\* The executor is joined in a thread; whatever was ready to run in the loop has run by then.
Prompt ==
    \/ worker.pc = "waiting" /\ queue # <<>>
    \/ worker.pc = "collecting" /\ (queue # <<>> \/ Len(worker.items) = MaxBatch)
    \/ \E i \in Requests : Stands(i, "submit") \/ (Stands(i, "gather") /\ Settled(i))
StopQueue ==
    /\ engine.stop = "failed" /\ ~Prompt
    /\ engine' = [engine EXCEPT !.stop = "queue"]
    /\ queue' = <<>> /\ batcher' = [batcher EXCEPT !.stale = worker.pc = "waiting"]
    /\ NoFail /\ UNCHANGED <<case, worker, dying, rerank, req, cache>>
StopRerank ==
    /\ engine.stop = "queue" /\ ~\E i \in Requests : Stands(i, "scoring")
    /\ engine' = [engine EXCEPT !.state = "stopped", !.stop = "done"]
    /\ NoFail /\ UNCHANGED <<case, batching, rerank, req, cache>>

-----------------------------------------------------------------------------
Asking(r) ==
    [pc |-> IF r.kind = "text" THEN "new" ELSE "post", got |-> <<>>, answer |-> Answered(0, <<>>),
     futs |-> [k \in DOMAIN TextsOf(r) |-> Unset], vectors |-> [k \in DOMAIN TextsOf(r) |-> <<>>]]
NewEngine  == [state |-> "warming", closed |-> FALSE, accepting |-> TRUE, stop |-> "no"]
NewBatcher == [state |-> "loaded", running |-> FALSE, stale |-> FALSE]
ServerInit ==
    /\ case \in Cases /\ faults = case.faults
    /\ engine = NewEngine /\ batcher = NewBatcher
    /\ queue = <<>> /\ worker = Ended /\ dying = FALSE
    /\ rerank = [pending |-> 0, active |-> 0, free |-> RerankSlots]
    /\ req = [i \in Requests |-> Asking(R(i))]
    /\ cache = <<>>

EmbedText(i) == CacheGet(i) \/ CacheSet(i)
Handle(i) == EmbedText(i) \/ Arrive(i) \/ Submit(i) \/ Gathered(i) \/ Acquire(i) \/ Score(i)
Serve   == WarmUp \/ Take \/ Collect \/ Form \/ Compute \/ Dies \/ \E i \in Requests : Handle(i)
Stop    == StopFails \/ StopQueue \/ StopRerank
ServerNext ==
    \/ Serve
    \/ ComputeFails \/ BeginStop \/ Stop
    \/ \E i \in Requests : Cancelled(i)

\* The loop runs what is ready, and a computation ends.
ServerSpec     == ServerInit /\ [][ServerNext]_serverVars
ServerFairSpec == ServerSpec /\ WF_serverVars(Serve) /\ WF_serverVars(Stop)

-----------------------------------------------------------------------------
(* what is promised *)

\* The texts whose vector a caller may be given for its own: those that differ from it in white
\* space alone.  One without words shares with none.
Alike(t) == IF Normal[t] = Blank THEN {t} ELSE {u \in DOMAIN Normal : Normal[u] = Normal[t]}

\* Whoever asks the server and is answered 200 has the vectors of its own texts, one for each and in
\* their order, however its texts were batched with others' and whatever was cancelled between
\* (model_server.py:583).  Whoever asks through the cache has one vector of its profile's model, for
\* a text that differs from its own in white space at most, whichever profiles are used side by side
\* (embedding.py:114).  embedding.py:99 says "the exact text", which the key does not keep apart.
OwnVectors ==
    \A i \in Requests : Stands(i, "answered") /\ req[i].answer.status = 200 =>
        LET r == R(i) got == req[i].answer.got IN
        CASE r.kind = "embed" -> got = [k \in DOMAIN r.texts |-> Vector(Model, r.texts[k])]
          [] r.kind = "text" -> \E u \in Alike(r.texts[1]) : got = <<Vector(Profiles[r.profile].model, u)>>
          [] r.kind = "classify" -> got = [k \in DOMAIN r.texts |-> Label(r.texts[k], r.labels)]
          [] OTHER -> TRUE

\* No slot of the reranker is lost or given twice, through failures, cancellations and the shutdown:
\* what is counted is who is there, and neither bound is exceeded (model_server.py:957).
SlotsCounted ==
    /\ rerank.active = Cardinality({i \in Requests : Stands(i, "scoring")})
    /\ rerank.pending = rerank.active + Cardinality({i \in Requests : Stands(i, "slot")})
    /\ rerank.free + rerank.active = RerankSlots
    /\ rerank.active <= RerankSlots /\ rerank.pending <= MaxRerank

\* Batches and slots are given back as they were taken.
ServedRight == OwnVectors /\ SlotsCounted

\* Every request is answered or given up, whatever fails, and whether or not the server is shut
\* down over it (model_server.py:463; tests/test_model_server_backpressure.py:10, :31).
Over(i) == req[i].pc \in {"answered", "gone"} \/ engine.state = "dead"
AllAnswered == <>(\A i \in Requests : Over(i))
=============================================================================
