# A TLA+ verification of Contexta

Contexta is a long-term memory engine: agents send observations, workers extract
memories from them, and queries retrieve what is true now or was true then. This
directory holds TLA+ models of its write path, its read path and its edges, the TLC
configurations that check them, and proofs that TLAPS checks. `PROJECT.json` maps every
definition to the source lines it models and lists runs, mutants, hazards, findings and
theorems.

Contents: [inventory](#inventory), [modules](#modules-and-code), [runs](#runs),
[bounds](#bounds), [fairness](#fairness), [proofs](#proofs),
[findings](#where-documentation-and-code-disagree),
[other observations](#seen-while-modelling),
[what is not modelled](#what-is-not-modelled), [what could follow](#what-could-follow).

To run: `tlc -config IngestionSafety.cfg MCIngestion`, and likewise for the other
configurations of the table under [runs](#runs); `tlapm IngestionProofs.tla`.

## Inventory

### The write path

| part | state it keeps | operations | module |
| --- | --- | --- | --- |
| python and TypeScript clients (`clients/`) | a buffer that outlives the process (a file; local storage or a file in TypeScript), dead letters | send, retry, buffer, rotate, flush | `ClientWrites` |
| observation intake (`api/routes/observations.py`, `ingestion_repo.insert_*`) | observation, source-turn and outbox rows; one transaction per request, a savepoint per item | accept one, accept a batch, replay, conflict | `Intake`, `IdempotentStore` |
| durable ingestion (`ingestion_repo.py`, `outbox_tasks.py`, `extraction_tasks.py`) | observation status, attempts, lease; event status and lease; dead letters; the Celery queue | lease and publish events, claim, run, complete, fail, retry, release, dead-letter | `Ingestion` |
| extraction pipeline (`core/pipeline.py`, `core/extraction`, `core/cortex`, `core/entities`) | none of its own; one transaction over memories, entities, links and edges | decide, extract, ground, deduplicate, plan, resolve, insert | `Extraction`, `Grounding`, `Calendar` |
| truth maintenance (`core/truth`, `memory_repo.py`, `deduplication.py`) | `memory_record` with a validity window and a fact key, a partial unique index; `memory_version` | plan, close, insert, record; forget, delete, merge, reflect | `TruthSlots` |
| memory kernel (`services/kernel.py`, `block_repo.py`) | tables of results in the process; blocks and revisions | observe, recall, append under an expected version, explain | `Kernel` |
| life cycle (`decay_tasks`, `reflection_tasks`, `dream_tasks`, `core/consolidation`, `embedding_tasks`) | memory state, pins, archive flag, utility, proposals, vectors | decay, reflect, dream, propose, validate, approve, reject, apply, embed, pin, archive, feedback | `Lifecycle` |
| artifacts (`services/artifacts.py`, `artifact_tasks.py`) | objects in storage, artifact rows, tasks | read an upload, store, enqueue, extract, chunk, remember | `Artifacts` |

### The read path and the edges

| part | state it keeps | operations | module |
| --- | --- | --- | --- |
| retrieval (`core/retrieval`, `core/scoring`, `routes/retrieval.py`) | none; the rows a session holds | plan a question, search, fuse, promote, investigate | `QueryPlan`, `MemoryReads`, `Ranking`, `Retrieval` |
| context (`core/context`) | none | limit, budget, package, cut | `Context` |
| graph walks (`routes/graph.py`, `kernel.search_graph`, `mcp explore_graph`) | none | follow relations | `GraphSearch` |
| everybody who reads (`routes/memories.py`, `kernel.recall`, MCP) | none | list, search, recall, build a context | `Recollect` |
| the two doors (`api/middleware`, `api_key_repo`; `services/gateway`) | keys in the database, Redis and the gateway; buckets; kept answers; requests in flight | verify, meter, share, keep; create and revoke a key | `Serving` |
| model server (`workers/model_server.py`, `services/embedding.py`) | a queue, a worker, slots, kept vectors | embed, classify, rerank, cancel, shut down | `ModelServer` |

### How the parts interact

A client sends an observation under an idempotency key and repeats it when the answer
is lost. The request passes one of the two doors (`Serving`). The route writes the
observation and its outbox event in one transaction and answers 202 after the commit. A
dispatcher (Celery beat) leases due events and publishes them to the broker; a consumer
claims the observation in a transaction, runs the pipeline and settles the attempt in a
second one, enqueues embedding tasks and retires the event in a third. The pipeline's
transaction grounds what it has extracted in its message, deduplicates it against the
current rows, closes those a new claim contradicts, resolves entities and inserts its
own; the API and the MCP server close, delete and merge the same rows while it runs,
and the periodic cycles work on them later. A question is planned, answered from
several reads of the same rows, ranked, and made into a context. Everything is shared
through PostgreSQL rows under READ COMMITTED; the only ordering between workers is row
locks, unique indexes, lease tokens and `SKIP LOCKED`.

### What is hard, and what makes each part correct

* **Clients**: a request that is served and its answer lost, a batch of which one entry
  fails, several threads and processes on one file. Correct: what is observed is stored
  once, and what was put aside stays somewhere until it has been answered.
* **Intake**: concurrent requests with one key, batches that lock the same keys in
  opposite order, one item of a batch failing half-way. Correct: one content per key for
  ever, every answer true of the store, a request commits exactly what it reports,
  everyone is answered.
* **Ingestion**: leases that expire while the work goes on, redelivered messages, three
  transactions per attempt any of which can fail, killed consumers. Correct: no
  observation is retired before an attempt has committed, no attempt is run by two
  consumers, everything settles. (A live lease can be taken away, by the failure of a stale
  attempt: see [below](#where-documentation-and-code-disagree).)
* **Extraction**: two runs that write the same names, a memory that is dropped after
  others were planned, messages of different days read twice by two passes. Correct:
  every item is accounted for, nothing is left of what was dropped, a memory happened
  when its own message says, and the calendar has neither gaps nor overlaps.
* **Truth**: runs that read the same incumbent, observations that arrive out of order,
  a close without its insert, routes that write rows by id. Correct: one current row
  per slot, one successor per row, a lineage that goes forward, no emptied slot.
* **Kernel**: tables that are read before an await and written after it, two writers of
  a block, a restart. Correct: what is answered is true, one chain of revisions.
* **Life cycle**: a dream over rows that users change, a proposal whose state five calls
  overwrite, a batch of vectors of which one row vanishes. Correct: what is recorded as
  dormant is, nothing risky is applied unseen, no vector is reported that is not there.
* **Artifacts**: three stores without a common transaction. Correct: a row's original is
  in the store, a document is remembered whole or not at all, and in the end it is.
* **Reads**: each channel reads at its own moment. Correct: nothing is shown that was
  neither current nor the caller's when the request began or since; a page and a context
  keep what was asked for, within the limits, in order.
* **Doors and model server**: read-modify-write over two round trips, single flights,
  batches that mix requests, cancellation, shutdown. Correct: no answer of another
  tenant, actor or age, none of another text but for its white space; nobody is kept out who
  has tokens of the tier he is served by; no slot is lost; everybody is answered.

`PROJECT.json` lists each hazard at its line with the properties that cover it.

## Modules and code

The modules, in the order they build on each other. `MC*` instantiate them for TLC; a
module `XProofs` holds theorems about `X`. `ServiceProofs`, `TaskProofs` and `ModelProofs` hold
those of two modules each that share no state, and `RecollectProofs` those of a composition.

| module | models | run | proofs |
| --- | --- | --- | --- |
| `Ingestion` | outbox, dispatcher, consumers | `ingestion_*`, `durable` | `IngestionProofs` |
| `TruthSlots` | a fact slot and everybody who writes its rows | `memory` | `TruthProofs` |
| `Intake`, `IdempotentStore` | the observation routes; abstract: what they promise | `durable`, `identical_replay` | `IntakeProofs` |
| `ClientWrites` | both SDKs' writes, buffers and replays | `services`, `client_replays` | `ServiceProofs` |
| `Kernel` | the kernel's calls, tables, blocks | `services` | `ServiceProofs` |
| `Serving` | authentication, limits, caches, flights, gateway | `services` | `ServingProofs` |
| `Calendar`, `Grounding`, `Extraction` | time expressions; when a memory happened; the pipeline | `models` | `ModelProofs` |
| `ModelServer` | the server of the local models | `models` | `ModelProofs` |
| `Lifecycle` | users' updates, cycles, proposals, vectors | `tasks`, `lifecycle_decay` | `TaskProofs` |
| `Artifacts` | documents | `tasks` | `TaskProofs` |
| `Subsequences` | what is left of a list that has been gone through (used by the extraction and the model server) | `models` | |
| `QueryPlan`, `MemoryReads`, `Ranking`, `Retrieval` | a question's plan, the statements, the order, the request | `memory`, `retrieval_as_of` | `RecollectProofs` |
| `Context`, `GraphSearch`, `Recollect` | contexts, walks, and who reads what | `memory` | `RecollectProofs` |

**Ingestion.** An action is one committed transaction, one broker call, a failure of
either, the death of a consumer or a tick. `obs`, `attempts`, `event` and `deadLetters`
are the tables; `claimed` holds the messages between the dispatcher's commit and its
publication, `queue` the broker's; `worker` the program counter, the message and the
tokens a consumer holds. A lease is the ticks it has left. `Claim` follows
`_claim_durable_observation` with its early returns (`ClaimSkipped`), the attempt number
is `MAX + 1` of the rows, `CompleteAttempt` commits the memories and the attempt,
`FailAttempt` and `FailEvent` are the two transactions of the failure path, `DbError` and
`Release` the path of an exception outside an attempt, `Crash` a killed consumer whose
message the broker redelivers (`task_acks_late`). `Faults` says which failures an
instance has.

**TruthSlots.** Slots share no rows, so one is modelled. A run carries a claim (type,
value, model-given status, own time or none) and goes through the statements of its
transaction; what it has written is visible to it alone until `CommitRun`. A statement that
needs a locked row or an index entry in progress is not enabled. Which values contradict
each other, restate each other or may not close each other is read from `service.py`,
over a kind of value and a value of that kind. `OpRead` and then `OpClose`, `OpMerge` or
`OpDelete` are the requests of the routes: a read, and later a write by id. `free` in the
state of a run is history, for a property only.

**Intake.** A request handles its items in order, in savepoints of its transaction:
`InsertRow` is the `INSERT ... ON CONFLICT DO NOTHING`, which waits for the uncommitted
row of another request, `FinishItem` the turns and the event, `Replay` and `Conflict` the
two outcomes of a key that is stored, `ItemError` the savepoint rolled back. `Commit` is
the exit of `get_db_session`, which with the pinned FastAPI runs before the response is
sent; `AnswerLost`, `CommitFails` and `ServerDies` are its failures. A hash is the content,
and for a content without a session also the request, because
`_apply_authenticated_context` draws a new session. PostgreSQL's waiting and its deadlock
detector are external and modelled from how the code relies on them.

**IdempotentStore.** `stored` and `answers`: rows only grow, a key has one row, and an
answer given as accepted or conflict is true of the rows when it is given.

**ClientWrites.** A task is a thread or coroutine of a client, and its `pc` the await it
is at: an attempt of a request (`sending`), the two steps of `enqueue` (`rotate`,
`append`), the two of `dequeue_all` (`dequeue`, `unlink`), the batches of a flush
(`replay`), and TypeScript's `drain`. `Busy`, `Breaks` and `RefusedWrite` are the three
ways an attempt of the python client fails, `RefusedTs` and `BreaksTs` those of the
TypeScript one, whose attempts share one deadline. `Push`, `Overflow` and `Bury` are the
TypeScript queue, which keeps its dead letters only where it has a disk; `Rename` is the
rotation of the python file, over the older one; `Crash` loses what a process held, and
`Interrupt` (a cancellation or a keyboard interrupt, which `except Exception` lets through)
what a flush had taken out, though the process lives on. The service is one memory, and
observations under the idempotency key, as `IdempotentStore` promises.

**Kernel.** The adapter keeps the last result of each operation id and the result of each
key in the process; every await between the read and the write of a table is a step
(`ObserveStart`, `Orchestrate`, `CommitObserve`, `ObserveAnswered`, and the block's
`LockBlock`, `AppendRevision`, `CommitAppend`; `ReadMaximum` and `CommitRevision` are the
writer without the lock). A result is abstracted to its code and what it names. `Restart` loses
the tables and the calls, not the database.

**Lifecycle.** A job is a request or a task: its reads are one step, its commit another,
with row locks in between where the code takes them (`FOR UPDATE`, an `UPDATE` not yet
committed). A row has the flags and states the cycles decide on, a text that merges
change, and a vector per profile. A proposal is its state, its risk and its confidence.

**Calendar.** Pure operators: a date is its proleptic Gregorian ordinal, a moment hours of
the zone it is read in. A resolver yields the interval of an expression of a form
(period, shift, weekday, part of the day, interval between, since, until) or `NoMatch`.
The operators were evaluated by TLC beside the functions of `core/temporal.py` on 3,978
pairs of an expression and a reference date; they agree on all of them.

**Grounding.** Which message a memory is about (named by its id or that of its source, else
the one that is dated, else the likest), the stamp and zone of that message, and
the two passes (`extraction/worker.py`, `pipeline.py`) that read its expressions.

**Extraction.** The stages of the pipeline for concurrent runs: the decision (remote,
fallback or heuristic), the model's reply with its malformed items, folding within the
batch, deduplication and planning (verdicts are choices; `TruthSlots` says which),
resolution of names with the unique index and the lock of an uncommitted entity, links,
edges and the adjacency cache.

**Artifacts.** `ReadUpload` takes the four forms of a request; then the object, the row,
the task and the answer are steps that fail by themselves. A document is a sequence of
characters with line ends and tags; `NextStart` and `ChunkEnd` are the windows of the
chunker. The task processes a document in one transaction whose slots another document
may hold.

**QueryPlan, MemoryReads, Ranking.** Pure operators: the plan of a question (constraints,
windows, hints, decomposition), what each statement of the repositories returns from a
store of rows, and the order of candidates (fusion of ranks, scores in thousandths,
windows, promotion, the gate).

**Retrieval.** One request of `retrieve`, `batch` or `investigate`, a step per await. A
statement sees what is committed when it runs; rows of the session keep the attributes
they were first read with (`copies`); a user without entities of his own has the question
planned over those of the whole tenant (`KnownEntities`, `engine.py:341-345`); after a
database error every later statement of the session fails. `changes` are the supersessions,
archivings and coolings that other transactions may commit between two steps.

**Context.** The planner's shares, the limit with what is required, the builder's profile,
tables and missing evidence, the package, and the kernel's second cut, as the stages of
one variable `stage`.

**GraphSearch.** `traverse`, `overview` and `search`, one relation read at a time, while
relations are committed.

**Recollect.** Who asks the engine or the store: the recall of the kernel and of the MCP
tool, the context of a focus, lists and searches. It composes `Retrieval`, `Context` and
`GraphSearch` over one store.

**Serving.** A call goes through the middlewares in the order `app.py` installs them;
`Arrive`, the two round trips of the bucket (`Meter`, `Charge`), the cache and its
flights (`Lookup`, `Join`, `Ask`, `Store`, `Land`, `Follow`) are steps. The gateway's path
is verification (Redis, then kept for ever), the script (one step), its own cache and
flights, and a call to the API. `stored`, `published` and
`known` follow a key through the database, Redis and the gateway. An answer has an owner, a
tenant and an actor, and is there to the end of the tick in which its time ends, or gone
somewhere in it (`Lapse`). The gateway sends the headers it sets itself, not the aliases a
caller may have sent (`Sent`), and serves every key by the tier `hobby`, because the tier
that is published, `standard`, is not one of its own (`Published`, `GateTier`).

**ModelServer.** A step is what runs between two awaits of one event loop. `queue` and
`worker` are the batcher, `rerank` the bound and the slots of the reranker, `engine` the
states of start-up and shutdown, `cache` what the program keeps of the vectors. `CacheKey`
is the text with its white space normalised (`Normal`), as `embedding.py:114-119` has it.

### Independent parts in one run

`MCDurable`, `MCMemory`, `MCServices`, `MCTasks` and `MCModels` each hold two or three parts
that share no state. The variable `part`, chosen at the start, says which of them moves, so
that a run is the union of their state spaces and not the product. `Recollect`, in contrast,
is a composition: its parts work on one store.

### Composed properties

Where one question has several aspects a property is their conjunction: `RecordsAgree`
(counters and rows, lease and newest attempt, dead letters, embeddings), `LineageSound`
(one successor of a row, which starts no earlier), `AnsweredTruly`
(results true of the store, a settled key never written under again), `CacheTrue` (own
tenant and actor, age, dead keys), `RatesKept` (nobody kept out by either door who has
tokens of the tier he is served by; the gateway's bound),
`ServedRight` (own vectors, slots), `AnsweredFairly`, `PackageSound`, `WalkTrue`,
`CalendarHolds`. Each has one mutant in `PROJECT.json`; the modules keep,
beside the originals, further variants that break the other conjuncts when they take the
original's place: `SpentLate`, `SpentEarly`, `EnqueueBeforeCommit`, `NotRolledBack`,
`Rolled`, `Leaves`, `EveryLink`,
`RollingWeek`, `UnusedIsAll`, `AsThePlannerOrders`, `AnyNode`.

## Runs

| run | result | states | what it shows |
| --- | --- | --- | --- |
| `ingestion_safety` | pass | 1,016,391 | every interleaving of two consumers, the dispatcher and the clock on one observation, under all six kinds of fault: records agree, attempts are exclusive, no retirement without a commit, commits kept |
| `durable` | pass | 83,100 | three requests that share keys: the routes implement `IdempotentStore`, commit what they report, accept replays, and answer everyone; two observations settle and their events retire while the pipeline, the embedding broker and the publication fail |
| `memory` | pass | 220,474 | two runs with claims of every kind, what a third has left, and a request of any route: one truth, a lineage that is a chain and leads forward, history kept, no emptied slot, every run ends; requests for memories, contexts and walks while rows change and statements fail: only what was admitted and the caller's, fairly ordered, within limits, and whatever a walk should reach |
| `services` | pass | 1,831,778 | two clients over a failing network (stored once, kept until answered); three calls to the kernel (true answers, one chain of revisions); two tenants at two doors (caches, rates) |
| `tasks` | pass | 384,796 | three jobs on two memories (dormant batches, proposals on merit, vectors as reported); one or two documents through three stores (originals kept, documents whole, and remembered in the end) |
| `models` | pass | 123,675 | two extraction runs on shared names and a run for each day of sixteen months (items accounted for, no orphans, grounded in their message, a calendar without gaps); requests at the model server (own vectors, slots, everybody answered) |
| `ingestion_double` | violation | | a slow attempt commits a second time |
| `ingestion_stale` | violation | | the failure of a stale attempt takes the lease of a newer one |
| `identical_replay` | violation | | an identical observation without a session is refused when it is sent again |
| `lifecycle_decay` | violation | | a decay cycle that meets an unpinned memory changes nothing |
| `client_replays` | violation | | a pin that succeeded is replayed after a later unpin |
| `retrieval_as_of` | violation | | a question about the past is answered with what came later |

Every property of a passing run has a mutant in `PROJECT.json`: a definition that models
code, changed as a plausible bug would change it, under which TLC finds the property
violated. The mutated forms stand in the modules beside the originals and are named in
the comment above them.

What some of the properties do not say is as telling. `HistoryKept` is about supersession: a
route that closes a row leaves no lineage by design (`forget` rewrites the end of a window,
`mcp/service.py:612`; `reflect` closes without a version, `memories.py:646`).
`ReplayAccepted` is about observations that name a session; for the others it is false,
which `identical_replay` shows. `EventuallySettled` has one exception: an event that is
given up because dispatches whose message the broker refused have used up its counter
(`ingestion_repo.py:1031`), while its observation waits for a retry. `OutboxDrains` says
that an event is retired in the end, not that it is published: when the last attempt commits
and its embedding tasks cannot be enqueued, the event of a completed observation is
dead-lettered. `KeptUntilSent` names every way in which a client does lose a write: a
process that dies; a flush that is interrupted; a line appended between the read and the
unlink of `dequeue_all`; a second rotation, over the older file; and what a queue without a
disk gives up, dead letters and overflow. It supposes that the disk takes what is written to
it. `RatesKept` bounds what both buckets refuse, by the tier that a key is served by, and
what the gateway's admits; a race over the two round trips of the API's admits more than the
tier says. `CacheTrue` allows the gateway to keep an answer that the API had kept already,
for both ages together. `EmbeddedAsReported` asks that a reported memory has a label and a
vector under the name of that label; a task of another profile that raced it may leave a
second vector, which the label does not name. `AdmittedOnPage` compares tenant, user and
scope of each row on a page, whichever route asked; it does not speak of the names of
entities by which a question is planned, which can be another user's (see
[below](#where-documentation-and-code-disagree)). `RunsEnd` is about one slot: that two
observations wait for each other over two slots is left to the database, which aborts one.
`PackageSound` keeps required evidence in the core package; the second cut, which the kernel
makes of the finished blocks (`kernel.py:1004-1030`), may still drop its block. `NoOrphans`
says nothing of how often a mention has been counted. `AnsweredTruly` holds within one life
of the process: a restart forgets keys.

## Bounds

Every bound is a constant of a module or a guard that names one.

* `NumTokens`, `MaxInFlight` (Ingestion): lease tokens that can be told apart and
  messages on their way. A token may be used again only when nothing remembers it, so
  six are enough for two messages, two consumers and the row to hold different ones.
  Two messages are what it takes for a redelivery to race the first delivery.
* `MaxAttempts` 2 or 3, `MaxRetries` 1 (Ingestion): a first, a middle and a last attempt.
  Safety is explored on one observation under every kind of fault; liveness on two, under
  those that reach the dead letters (`Faults`: the pipeline, the enqueue of the embeddings,
  the publication).
* `Lease` and `RetryDelay` of one or two ticks: a lease can expire before, during and
  after each step of its holder.
* `MaxTime` 2, `MaxTries` 2, `MaxOps` 1 (TruthSlots): a claim can be earlier than, equal
  to or later than an incumbent; a retry after a rejection; a route that reads before and
  writes after another has. Two runs race; a third, `settled`, has left nothing or a
  later row, so that one run can replace what another is closing.
* Three requests (Intake), so that two can block each other while a third commits; two
  keys for a deadlock, two contents for a conflict, of which one names no session
  (`Sessionless`).
* ClientWrites: two tasks of one client or of two, in the pairs of languages that share a
  buffer, and in TypeScript with a queue that has no disk; observations only (`WriteKinds`:
  what the two properties tell apart is an entry and its key); `MaxCalls` 2, `MaxRetries` 2
  (a first, a middle and a last attempt), `MaxEntries` 1 (so that buffers overflow and
  rotate), `Batch` 2, `MaxReplays` 2, one crash or interruption.
* Kernel: three calls of which the later ones can be any kind of request, one key, one
  operation id, two users, one restart.
* Serving: eighteen cases of two to four calls, each chosen for what it makes two callers
  share - a cache entry, a flight, a bucket, a key about to be revoked, a tenant of two
  actors -, up to three ticks, at most one fault. The `TTL` is one tick: what is kept in one
  tick is answered from in the next, and may be gone or still there when that one ends.
* Lifecycle: two memories (a goal and a rule), three jobs, of which the first two meet in
  every pair of kinds that share a row or a proposal.
* Artifacts: documents of at most 11 characters in chunks of 4, so that a text is cut
  mid-line, at a line end, within a run of line ends and at its end; two uploads whose
  chunks are the same in the opposite order, which is what a deadlock takes; up to three
  faults.
* Extraction: two runs on four names, two of which are similar and two of which differ in a
  digit; two messages a year and ten hours apart, named by their ids or by their source; and
  a run for each day from December 2023 to March 2025, a leap day and two turns of the year
  among them.
* ModelServer: two or three requests, batches of two texts (of which two differ in their
  white space only), a queue of three, one slot and room for two at the reranker, one or two
  faults, with and without a shutdown.
* Recollect: up to eight rows of a user, and beside them, in every world, rows of another
  user and of another organisation that answer the question as well; users with entities and
  without. One row is superseded, archived or cooled during the request, one statement
  fails; pages and lists of two or three rows (`TruthsRead`, `NeighbourLimit`, `LinkLimit`,
  `ExploreEdges`, `ExploreLinks`), so that each is cut; contexts over pages of five
  memories.
* Symmetry is used for consumers in the run without liveness properties.

Deadlock is checked where a state without a step would be an error: in `models` (a server
may stand idle, a pipeline may not get stuck) and in the reading part of `memory`. Elsewhere
a system in which everything is settled has nothing left to do, and waiting for ever is what
`EventuallySettled`, `RunsEnd`, `AllAnswered` and `AcceptedRemembered` exclude.

## Fairness

* Ingestion: weak fairness of the dispatcher (Celery beat runs it every few seconds), of
  each consumer (a process that holds a message goes on with it) and of the clock. Strong
  fairness of the publication of an observation's messages: each dispatch may find the broker
  down, but a broker that is up again and again takes one of them in the end. None for
  acceptance, crashes or faults.
* TruthSlots: weak fairness of each run, whose steps include its failure, and of a
  request a route has begun.
* Intake: weak fairness of the steps a request takes by itself, PostgreSQL's ending of a
  deadlock among them. Errors, lost answers and crashes are not required to happen.
* Artifacts: weak fairness of the tasks (`Working`): the broker delivers what it holds,
  and redelivers what a dead worker did not acknowledge. None for faults, of which there
  are no more than the retries allow for.
* ModelServer: weak fairness of `Serve`, the event loop running what is ready, and of
  `Stop`, the shutdown once it has begun. None for requests' arrival, cancellations or
  failures.

Elsewhere weak fairness is enough, because a waiting statement is woken by the commit or
rollback it waits for, and no lock is taken and released for ever. The other modules
state no liveness.

## Proofs

The theorems hold for every value of the constants under the `ASSUME`s of the modules,
which TLC evaluates for its instances.

**IngestionProofs** (`TypeCorrect`, `BudgetKept`, `LeaseNewest`, `AttemptsExclusive`,
`NoSilentLoss`, `SideRecordsTrue`, `RecordsAlwaysAgree`, `CommitsKept`). The invariants the
run checks are not inductive. `IInv` adds that a busy consumer holds a message
(`BusyHasMsg`), that the attempt a consumer works on is one of the rows (`AttemptsOwned`),
and that a consumer about to enqueue embeddings or to publish has a committed attempt behind
it (`StageCommitted`). The argument for `AttemptExclusive` is that attempt numbers are
handed out by appending to the rows, so that a number that is in use is never handed out
again. The action properties follow from `IInv`.

**TruthProofs** (`TruthTypes`, `OneTruth`, `LineageIsSound`, `SlotNeverEmptied`,
`HistoryComplete`). `Inv` adds four facts about transactions in progress: a run stores its
row with its last step (`RowsOfDone`); row locks are exclusive and a row closed in a
transaction is current for everyone else (`LocksHeld`); one run at a time has an
uncommitted row in the index, and has closed whatever was current (`RecordAlone`); a run
closes only rows that start no later than its own (`ClosingOlder`). All steps but the
commit write no row and are covered by one lemma (`MovesInv`); the routes' writes by
another (`WritesInv`). `SlotNeverEmptied` is an action property and follows from `Inv`
step by step. `HistoryComplete` needs `HistInv`, which speaks of the time before the first
write of a route: until then every row that has ended has its version (`Recorded`), and what
a run has closed began no later than the time the run writes (`ClosedInOrder`).

**IntakeProofs** (`IntakeTypes`, `IntakeIsIdempotent`, `BatchAccounted`, `ReplaysAccepted`).
`IntakeIsIdempotent` is the refinement `IntakeSpec => StoreSpec`. `Inv`: among the rows a
request sees a key has one row (`OwnKey`); uncommitted rows of different requests have
different keys (`KeysApart`), which is what the unique index and the wait give; the codes
collected so far are true of the rows the request sees (`CodesTrue`); and no earlier item
relies on the row of the item in progress (`OpenAlone`), which is why rolling back a
savepoint falsifies no code. `ReplaysAccepted` is about the contents that name a session, in
whatever company: for the others `identical_replay` shows a replay that is refused. Its
invariant `AnswersHold` says that every answer ever given is still true of the rows, and
`Named` that the hash of a content with a session is the content.

**ServiceProofs**, the kernel (`KernelTypes`, `OneChain`, `TrulyAnswered`), for any number of
calls and restarts. `CallsInv` says what is known of a call at each of its points and that its
life is the process's while it runs. `ChainInv` (for `OneChain`): a writer that holds the
lock has read the version that is current (`Holds`), appended revisions are numbered
below the block's version, and the current one is superseded by none (`Greatest`); the
writer without the lock disturbs none of it, because its revisions are not of the chain.
`ResultsInv` (for `TrulyAnswered`): whatever a table or an answer holds is true of the
store (`Sound`), which the store, only growing, keeps so; a key that has been answered for
is in the table of this life (`KeyTaken`), and a call that found it free began before any
answer (`FoundFree`).

**TaskProofs** (`LifecycleTypes`, `DormantTillCommitted`, `OnMeritOnly`, `EmbeddedTruly`;
`OriginalsKept`, `DocumentsWhole`), for any number of memories, jobs, uploads and tasks.
`LifecycleInv` says what a job holds at each of its points: a dream has the locks of its
batch and the batch is dormant (`HoldsBatch`); what is ready to be applied is so on its
merits or by approval, also in the copy a job has read while others decide (`FoundReady`);
a row with a vector has a label whose vector it has (`Labelled`); and what a task has
reported keeps its vector, because no later step empties one (`Reported`). For documents
`Filed` follows an upload from its source to its row - a key is of one upload, and what is
stored under it is what that upload sent (`StoredTruly`) - and `Whole` a task: each chunk it
has gone through is remembered or held (`Through`), so that the commit completes the
document, and a task that is sent again holds nothing.

**ServingProofs** (`CachesTruthful`, `RatesTrue`), for any keys, tenants, calls and ticks.
`ServingInv`: an entry is of the tenant and the actor in its key and no older than what is
written beside it (`CachedTrue`, `EdgeTrue`); a question in flight is led by a call that
asks the same (`TasksTrue`, `FlightsTrue`); a call that waits is linked to such a leader,
and takes what that one has just been given (`Linked`); what the gateway knows of a key is
what was published, or nothing (`KnownTrue`). `RateInv` is about counting; at either door
who is refused had no token left of the tier he is served by. For the gateway: from any tick
to the last that was metered, the calls let in and the tokens left are no more than the
burst and what the time earns (`GateTrue`). For the API, whose reads and writes cross: what
a bucket lacks at any later tick is owed to calls that were let in and are not yet earned
back (`Owed`), of the bucket in Redis and of every copy a call has read; a stale copy only
forgets debts, which is why it admits too much and turns nobody away.

**ModelProofs** (`RightlyServed`; `NothingOrphaned`, `CountsAddUp`, `EachInItsMessage`), for
any requests, runs and replies of the model.

* Model server: `VectorsInv` says of each request that a future that is done holds the
  vector of the text at its place or of one that is like it but for white space (`Alike`,
  `KeptFor`), that what has been gathered is the vectors of the first texts in their order
  (`Prefix`), and that the worker's texts are those of its items, whichever requests share
  the batch (`Batching`). `SlotsInv` counts the reranker's slots by the requests that stand
  at them.
* Graph: `GraphInv` says of each run that what was extracted is still to be folded, kept,
  merged or discarded (`Account`), that no text is kept twice (`Distinct`), and that each
  mention of a kept memory is to be resolved or has its link (`Linked`); and of the database
  that each link is of a stored memory and every new entity or edge has one (`Anchored`),
  which a run that fails leaves as it was: what it wrote was its own until its commit.
* Reading: `ReadInv` says what a memory's readings are after each pass. The first pass reads
  in the message's context; the second, which has the common context of all messages, keeps
  what is resolved and reads the rest again, either with the message's own reference or, where
  the messages differ, with none. What resolves without a reference resolves the same with
  one (`Timeless`, by the cases of `Calendar`), so that the second pass finds nothing new.
* `LeastOf` (a set of numbers has a least) comes from the library's theorem on
  well-founded orders, whose parameter is a set; by it the sums over a list of replies are
  counted element by element (`Counting`, `FlattenedIs`).

**ServiceProofs**, the clients (`ObservedOnce`, `KeptTillAnswered`), for any number of clients,
tasks, calls and crashes. The first rests on what is stored bearing the key of its call. The
second is an action property; its invariant `ClientInv` says what each task may hold at each
of its points (`Fits`: a replay stands at an entry of its batch, and what stands before
it has been sent), and that the TypeScript copy on the disk only holds what is elsewhere
too (`DiskBacked`). A step then keeps every place it may take from (`Keeping`), but for the
steps the property names (a crash, `Interrupt`, a second `Rename`, a late `unlink`, `Bury` and
overflow without a disk); the actions fall into those that leave the buffers alone
(`QuietDone`), those of the file, and those of a queue (`QueueDone`).

**RecollectProofs** (`RecollectInvariant`, `AdmittedAlways`, `GivenAlways`,
`WalksTrue`), for any store, question, scope, changes and failures, and for the
composition of retrieval, contexts and walks. What the runs check is about rows that are
shown; the invariant is about rows on their way there, and has four parts.

* `StoreInv`: a row keeps what decides who sees it, and is closed or archived for good
  (`Since`). A supersession ends a row and adds one; nothing else adds any.
* `RequestInv`: whatever the request holds - what a channel has brought, what has been
  scored, what is on the page or was on an earlier one - is admissible (`Admissible`: the
  caller's, in scope, current and not archived when the request began), and what it holds
  of a row was true of the row at some time since (`copies`). A candidate gets in only past
  `IncludeMemory`, which looks at the copy; `Since` carries the verdict back to the
  beginning. Fusion, scores, windows, promotion and the investigating loop only take from
  what is held.
* `ContextInv`: each card of a context is of such a row, and says of itself no less than
  was true when the context was asked for, so that `Valid` may decide by the card.
* `WalkInv`: walks begin at entities of the caller, but for a search, which may begin
  anywhere and may pass through anything: what it shows is looked up for the caller.

`WalksTrue` needs a second invariant, `ReachInv`, about where a walk is between two reads.
`Reach` counts hops over a fixed set of relations; the walk reads one entity at a time
while relations are committed. `NoFarther` holds it from above: what it has visited before
round k lies within k - 1 hops over the relations that are committed *by now*, which only
grow. `NoneMissed` holds it from below: where no entity has more relations than are read
of one, everything within k - 1 hops over the relations that were there *at first* has
been visited. Between the two a walk may or may not see what is committed meanwhile, as in
the code. `AtItsEnd` says why it stopped: it has gone its rounds, or a round found nothing
new, and then what it has found is closed under the relations of the beginning
(`ReachClosed`). That a list which is not cut short holds every relation of an entity is
`RankedAll` (a rank by the number of those before is one of 1 .. n for each, by counting),
and what `Reach` computes is unfolded once per round by `ReachIs` (from `IterationExists`:
a function on numbers that is defined by its predecessor, by induction over sets of
numbers, `Counted`).

A page is what stands at some places of a list (`ThoseAre`), a set in an order (`RankedAre`)
or a fold over a finite set (`FoldedIn`, from `FoldExists`, which is the library's induction
on finite sets put as a set of the states a fold can be in).

Only model-checked:

* liveness (`EventuallySettled`, `OutboxDrains`, `RunsEnd`, `AllAnswered`,
  `AcceptedRemembered`): fairness and `ENABLED` are out of the prover's reach;
* what a recursive function computes: the library's induction theorems take an operator as a
  parameter, which no prover here can instantiate. Induction over sets of numbers goes
  without them and is used above; `ChunksWhole` (the windows of a chunker over every text) and
  `CalendarHolds` (every day of every month) would need more than that;
* of the read path what is about order and amount: `AnsweredFairly` (the score of a row is a
  fold of thousandths with divisions, whose order no prover here decides) and
  `PackageSound` (sums of costs against a budget, over recursive tables);
* the violations, each of which is a counterexample.

### What the proofs changed in the models

An invariant that would not become inductive was several times a sign that the model said
less, or something else, than the code. TLC's instances had been too small to show it.

* `Serving`: a follower of a flight is woken by its leader in the same turn of the loop, so
  that no tick lies between the two; the age bound needs it. Two published keys may belong
  to one actor, who then shares an entry of the gateway's cache: `KeysDie` speaks of the
  keys that share, not of the caller's. The gateway's bound holds for each window of
  ticks, with its exact ends.
* `Artifacts`: a task's progress is the set of chunks that are left (`left`), not the number
  of the last one. `NeverPart`, an invariant, stands apart from `ChunksWhole`.
* `Extraction`, `ModelServer`: what is left of a list is given by the places that are left
  (`Subsequences`), about which one can reason, instead of `SelectSeq`.
* `QueryPlan`, `Ranking`, `Context`: orders and selections are functions on the places of a list
  (`InRank`, `Those`) and the recursive operators are folds or closed forms. A choice of the
  next in an order has a value also where two rows tie, which TLC's instances never let happen.
* `GraphSearch`: `Reach` is a function on all numbers of hops, of the question and the relations
  it is given, where it had read the question from the state: the same definition speaks of
  the relations of the beginning and of those by now. What a search follows are the places of
  the relations it read, instead of `SelectSeq`.
* `ModelServer`: `SlotsCounted` says exactly who accounts for each slot and each pending
  request, where it had said only that there are not too many.
* `GroundedInItsMessage` finds the message by one of its ids or by its number, as `IdsOf` does, and
  speaks of what is resolved: under an ambiguous common context, the basis that is noted for
  an expression nobody could resolve may differ between the passes.
* The assumptions on constants (`JobsAssumption`, `KeysAssumption`, `CasesAssumption`,
  `AskedAssumption`, `RequestsAssumption`, `WorldsAssumption`) say what the routes' validation,
  or a type of the language, gives: fields of a record, lists that are lists, positive sizes,
  rows that have their columns. `LinksAssumption` says that an entity is linked to memories of
  its own user, which is not a constraint of the tables but of who writes the links: the
  resolver looks entities up for the user whose memories it links (`core/entities/resolver.py`),
  and so does the MCP server (`mcp/service.py:1060-1085`). The reads that follow links rely on
  it: they check the entity, not the memory. `RelationsAssumption` says that
  relations are finitely many rows with distinct ids and that hops are numbers, at least one
  for a search: the primary key that `get_neighbors` orders by, and the bounds of the contract
  (`contracts/runtime.py`).

## Where documentation and code disagree

Each of these is a run that TLC ends with a counterexample, and an entry of `findings`.

1. `ingestion_double`: the README says "concurrent workers never double-process".
   `complete_attempt` compares the lease token with the attempt's own row, so an attempt
   that outlived its lease still commits (`ingestion_repo.py:335`).
2. `lifecycle_decay`: "The decay worker transitions unpinned memories according to
   configured day thresholds." An aware clock is subtracted from naive columns: the first
   memory whose age is asked for ends the cycle (`core/decay/engine.py:18`).
3. `client_replays`: "Every write carries an `Idempotency-Key`", but a failed attempt
   buffers the write and the loop goes on; the copy is replayed after newer writes, to
   routes that ask for no key (`_http.py:231`).
4. `retrieval_as_of`: "memories valid at that instant, not the ones that are current
   now" (`retrieval.mdx:134`): the fall-backs take no `as_of` (`memory_repo.py:198`).
5. `ingestion_stale`: completion and failure updates are said to verify worker and lease token,
   "preventing a stale worker from overwriting a newer attempt"; `fail_attempt` looks at the
   attempt's own row only, and takes the newer attempt's lease away (`ingestion_repo.py:423`).
6. `identical_replay`: "Replaying identical content returns the existing observation
   (accepted)", but for a content that names no session one is drawn and hashed with it, so
   that the caller's own retry conflicts with what he has stored (`observations.py:235`).

Others of the same kind were met and have no run of their own:

* `_release_claim_after_failure` says "dead-letter once attempts run out" and dead-letters
  any observation that is neither processing nor retrying (`extraction_tasks.py:478`).
* "a crashed claim is retried rather than dropped", except in the last attempt, which
  nothing settles (`ingestion_repo.py:256`).
* The event counts dispatches, the observation attempts; the event can be given up while
  the observation is due for a retry (`ingestion_repo.py:1031`).
* "a claim the model marked superseded never becomes the current truth of a slot" does not
  hold for an empty slot (`core/truth/service.py:630`).
* Candidates are looked up per memory type, the unique index is not: `plan_all` does not
  name a row whose insert will be rejected (`core/truth/service.py:736`).
* `search_graph`, `explore_graph` and the memories of an entity show superseded memories
  (`kernel.py:1376`); `memory_repo.py:682-685` says every other path filters them.
* "waiters and the leader observe identical bytes" (`response_cache.py:136`): an answer
  that is not 2xx is one stream, which the first of them consumes.
* "one entry per entity (not one per mention) is what keeps concurrent ingestion from
  losing increments" (`bulk_resolver.py:133-136`): two runs that read an entity and write
  its count back lose one of the counts all the same.
* The order of references is told differently in
  `docs/Featuers/temporal-grounding-and-durable-ingestion.md:21-26` and followed in
  `temporal.py:1952-1957`.
* The cache of the model server is said to be of "the exact text" (`embedding.py:96-99`); its
  key is the text with its white space normalised (`embedding.py:114-119`), so that a caller
  may get the vector of a text that differs in its white space.
* "nothing is silently lost" (`buffer.ts:110-113`); without a disk a dead letter is
  (`persistDeadLetter`, `buffer.ts:178-195`).
* The route of an investigation "returns the `investigation_trace` step by step"
  (`retrieval.mdx:140`), but as soon as something is found it answers 500: it reads
  `item.created_at`, which `RetrievalResult` lacks (`routes/retrieval.py:1213`).
* The question of a user without entities is planned over `get_all(limit=500)`, which is of
  the whole tenant where the repository is not wrapped (`engine.py:341-345`): the names of
  other users' entities decide then which channels are asked, though no row of theirs is shown.
* A key of tier "standard" is published as such (`api_key_repo.py:59`), which the gateway does
  not know (`bucket.go:21-26`) and serves as "hobby", the least of its tiers.
* The python README says the context manager flushes and closes; `__exit__` only closes.

## Seen while modelling

Behaviours that no document contradicts, and that a reader of the models will meet.

**Ingestion and truth.** When the broker refuses a message the event stays leased until the
lease expires. Reflection's close can write `valid_to` before `valid_from`; a row dated in
the future makes its corrections raise (`memory_repo.py:1591`); `apply_feedback` loses one
of two concurrent signals (`memory_repo.py:1687`).

**Extraction and time.** The concurrent insert of an entity's name aborts the whole
observation. The graph cache is updated before the commit; its readers, `traverse` and
`get_neighbors`, have no caller. "next quarter" counts from the reference's own month
(`temporal.py:1063`); "this weekend" on a Saturday or Sunday starts on the Monday before;
"this quarter" is not found in a text; a bare weekday means this week's day in a text and
the coming one in `_resolve_match`; a memory without an expression gets the time its
message speaks of.

**Clients.** A buffered DELETE is replayed as a POST, refused and dead-lettered; feedback
is counted twice. A line appended while the file is dequeued is lost, as is a file that is
rotated twice.

**Life cycle and kernel.** Proposals are listed by `risk_tier` as a string, descending; one
can be applied twice after being validated or approved again. A merged memory's vector is
not computed again. During a change of profile both vector columns can be filled. The
kernel's `_persist_embeddings` suppresses errors and enqueues nothing.

**Artifacts.** A row's id is not the one in its storage key. A failed enqueue, or a failed
second commit, answers 500 for what is stored, so that a retry makes a second artifact; a
task that was never enqueued never is. A retry after a commit whose vectors were not asked
for finds only duplicates and asks for none. Objects are left when the row fails; a local
crash leaves a temporary file. `reextract_text` and `read_original` have no caller.

**Model server.** A request with more texts than a batch can start the worker again during
a shutdown, and that worker may stay at the queue that was replaced, so that a restart in
the same process would hang. After a failed batch `/ready` is 503 until some request starts
the worker.

**Doors.** The API's bucket overspends under races. The gateway may keep an answer the API
kept already, and hands out gzipped bytes whatever is accepted. A key is published to Redis
before its commit; a key that is read while it is being removed is kept as empty for ever;
an unknown tier is hobby at the gateway. A
leader that panics leaves its flight behind, and who follows it waits for the timeout. A
write is hidden from its author for the TTL.

**Retrieval and context.** `_promote_entity_coverage` may evict the only row of another
entity. `_try_candidate_call`
returns a list without `.ranks`, so that `_lexical_ranks` is always `None`. The gate for
sufficiency runs before the temporal filter. `get_current_truths` has no order. A profile
key takes the value of the last memory that has it (`builder.py:187`). Builder and package
judge answerability by different rules, and the kernel cuts after it has been judged. The
planner may overshoot its budget for what is required. `build_package` drops
`token_budget`.

**Walks and tools.** `traverse` ignores `direction` and lists an edge once from each end; a
search from another user's entity returns edges without their nodes; `explore` falls back
to the whole tenant; two entities of one user that differ in case make a lookup raise. The
MCP batch import commits per chunk but updates its caches before: after a chunk that was
rolled back, later chunks link to entities that do not exist.

## What is not modelled

`PROJECT.json` gives the status of each component and the reason. Left out for good:

* what a language model extracts or answers, embeddings as vectors, similarity thresholds,
  the reranker's scores (inputs of the models); recognising words of time, PII and secret
  filters, prompts, rendering (text without state);
* cryptography, passwords and tokens, sign-up; the inference server, which wraps a model in
  one lock; sessions and audit, rows without a protocol; the dashboard; schema migrations,
  from which only the indexes are taken;
* within modelled parts: request validation, observations without a key, SQLite and mock
  sessions (`Intake`); several slots and the `MemoryFact` rows (`TruthSlots`); the splitting
  of long texts and tables (`Extraction`); public paths and the fallbacks of the tests
  (`Serving`); the keyword-only classification, which is unreachable while serving, a
  change of event loop, and the client's own timeout (`ModelServer`); the MCP batch import;
  export and the read of one memory.

## What could follow

In the order of what they would add: the order of `AnsweredFairly`, with scores as an abstract
order; `CalendarHolds` for every date; the composition of `ClientWrites` with
`IdempotentStore` and `Ingestion`, so that an observed message ends as a memory, folded or
dead-lettered; the MCP batch import; the routes of blocks' metadata.
