# qdrant_rag: TLA+ models and proofs

The program is a multi-tenant document service for retrieval-augmented
generation: clients upload documents over HTTP, the service chunks and embeds
them (BGE-M3), stores the chunks in one Qdrant collection per (tenant, bot) and
the document rows in Postgres, and answers searches over gRPC and HTTP.

The two stores have no common transaction, requests are served by several
processes that exclude each other only by Postgres advisory locks, and every
call to either store can fail. The models are about what that does to the
promises of the README and of the phase specifications in `build_prompts/`.

| Module | About |
|---|---|
| `DocumentPipeline` | upload and delete over Postgres and Qdrant, with the advisory lock and every failure around them |
| `DocumentStore` | what the pipelines promise of a document; `DocumentPipeline` implements it |
| `DisturbedPipeline` | `DocumentPipeline` with Qdrant calls that are applied late, and restores of backups |
| `DocumentPipelineProofs` | the theorems about `DocumentPipeline` |
| `QdrantCollection` | the operations of `qdrant_core/collection.py` under `with_retry`, call by call |
| `Readiness` | one server process: model warm-up, model cache, `/healthz` and its pool of ping threads |
| `Chunker` | how chunks are cut, truncated, merged and numbered |
| `SearchService` | the gRPC process: its pool, a search call by call, statuses, metrics, shutdown |
| `Registry` | tenants, bots and collection names, registered by uploads and changed by an operator |
| `HttpApi` | a request in an HTTP worker: middlewares, log context, views, and `Registry` under an upload |
| `DisturbedPipelineProofs` | the theorems about `DisturbedPipeline` |
| `QdrantCollectionProofs`, `ReadinessProofs`, `SearchServiceProofs`, `HttpApiProofs` | the theorems about those modules |
| `ChunkerProofs`, `ChunkerCoverProofs` | the theorems about `Chunker`: limits and ids; what is kept, and that it ends |
| `MC...` | the small instances TLC checks |

## 1. Inventory

**Document pipelines** (`ingestion/pipeline.py`, `ingestion/locks.py`,
`documents/models.py`, `documents/admin.py`). State: `Document`, `Bot` and
`Tenant` rows, session-level advisory locks, points in Qdrant. Operations: upload
(register the bot, read the row, short-circuit on an equal hash of this or another
document, ensure the collection, chunk and embed, delete old chunks, upsert, save
the row) and delete (find, delete chunks, mark the row). Hard: two writes to two
stores without a transaction; a lock of which the 5-second waiter, a dying worker
or a cut session must leave nothing behind; rows read seconds before they are
used; retries of a request that was half done. Correct when: an answer is true
when it is given, rows and points agree whenever nobody works on a document,
search sees one body or none, and a row is written only under its lock.

**Qdrant layer** (`qdrant_core/collection.py`, `client.py`, `exceptions.py`).
State: a collection, its schema and payload indexes, points. Operations:
`get_or_create_collection`, `create_collection_for_bot`, `delete_by_doc_id`,
`drop_collection`. Hard: two processes create one collection; nested retry loops
start over after calls that were applied but not answered; errors of two
transports. Correct when: success means what it says, nothing is lost by a retry,
and a lost race is no failure.

**Readiness and warm-up** (`core/views.py`, `ingestion/_warmup.py`, `apps.py`,
`embedder.py`). State: the cached model, the warm-up flag, a two-thread pool with
its queue and per-thread database connections. Hard: pings that time out and go on
running; thread-local connections that outlive their server; a model cache that
does not lock. Correct when: ready means warm, a probe always ends and is about
the present, and health comes back with the stores.

**HTTP API** (`documents/views.py`, `serializers.py`). Three views: they normalise
and check slugs, check the body, call a pipeline or the search, and map what comes
back, exceptions included, to a status. Correct when: every request is answered,
and refused before anything was changed.

**Tenants, bots, naming** (`tenants/`, `qdrant_core/naming.py`). State: `Tenant` and
`Bot` rows with their unique and foreign keys; the collection name and the lock key
are derived from slugs. Operations: `get_or_create` by uploads, everything else by
an operator in the Django admin. Hard: two uploads insert one row; two pairs of
slugs derive one name, because a slug may contain the separator; rows that are
renamed or dropped under a running upload. Correct when: no two bots share a
collection, and an upload goes on with the row of its own bot.

**Search** (`qdrant_core/search.py`). No state; a search asks whether the collection
exists, embeds, and queries with retries. **Search service** (`grpc_service/`). State:
a pool of ten threads with an unbounded queue, counters. Hard: the collection or
Qdrant goes between two calls; statuses decided by the kind of exception; a shutdown
while calls wait and retry. Correct when: a status has its cause, every call is
answered and counted once, and the process drains and ends.

**Chunker and payload** (`ingestion/chunker.py`, `payload.py`). Sequential: split by
characters, truncate to a token limit in a loop, merge what is too short into the
chunk before, number per item. Correct when: nothing is lost, every chunk can be
embedded, no two have one id, and the loops end.

**Request context, access log, metrics** (`core/`). Context variables of a thread that
outlive the request unless they are reset; an access line and counters written in a
`finally`. Correct when: no line carries the ids of another request, and every
request has one.

**Celery worker.** Deployed, but the repository defines no task.

**Scripts.** Backups of Postgres and snapshots of Qdrant are taken one after the other;
a restore brings back two moments.

**Settings, compose, nginx, migrations, protobuf.** Configuration, tools, generated
code. The constants the models need (two gunicorn workers, the
timeouts, `CONN_MAX_AGE`) come from here.

How they interact: a request thread of a gunicorn worker runs a view, which calls
a pipeline, which calls the lock, the ORM, the embedder and the Qdrant layer, one
after the other and blocking. Processes meet only in Postgres and Qdrant. Inside a
process the request thread, the warm-up thread and the two pool threads share the
model cache, the flag and the pool's queue.

## 2. DocumentPipeline

| Variable | In the program |
|---|---|
| `rows`, `bots` | the tables `Document`; `Tenant` and `Bot` |
| `lock`, `session` | `pg_try_advisory_lock`, and whether the worker's connection lives |
| `points`, `colls` | the points of each document in Qdrant; the collections that exist |
| `pc`, `req` | where the request of a worker is, and what it asks for |
| `existing`, `hit` | the row the request read; the document a short-circuit names |
| `reply` | the answer decided on, sent after the lock is released |
| `torn` | history: the targets that a request began to write and left before its last write |

One action is one call to a store: between two calls any other worker may run.
`Register` to `Save` are `UploadPipeline.execute`, `Find` to `Mark` are
`DeletePipeline.execute`, `Acquire`, `LockTimeout` and `Unlock` are `upload_lock`.
`raw_payload`, `content_hash` and `item_count` are written by one statement and
are one value, `body`; `refreshed` stands for `last_refreshed_at`, which `Touch` writes
to a duplicate's row without that document's lock. A chunk is identified by its number
and its body; points of two bodies overlap where their chunk numbers do, for the point
id is derived from document and chunk number only.

**Named and drawn ids.** An upload addresses an id the client supplied (`named`) or one
the view draws (`uuid4`). The supplied one stays in the body as a `uuid.UUID`
(`serializers.py:29`), so that the save of a named upload always raises, after both
Qdrant writes (`pipeline.py:305`); and since only a named upload can address a document
that exists, **a replace never completes** in this code, unless it ends in `no_change`
before it writes. `Save` is modelled so. A drawn id is new: `Begin` takes one that has
left no trace and that no client can name yet, so that two document ids stand for any number of draws.

**Errors.** A `QdrantError` of a delete or of the creation of a collection is answered
`qdrant_write_failed`; any other exception of these calls, such as an `RpcError` that
`with_retry` raises again, reaches the view as `internal_error`. The upsert catches every
exception. The tokenizer, which `chunk_item` loads, is outside the embedder's clause and
ends in `internal_error`, too. A call that failed may have been applied.

The constant `Faults` chooses what may go wrong: `collection`, `purge`, `upsert` (the
call fails, and was applied or never will be), `embed` (tokenizer or embedder), `save`
(Postgres refuses the last statement of an upload or delete), `crash` (gunicorn kills a
worker after 90 s), `session` (the Postgres connection is cut, the worker goes on),
`admin` (an operator deletes a row).

**What is promised of half-written documents.** A request that ends between its first
write and its last, by a failed call, a crash or the save of a named upload, leaves its
document in `torn`, until a later request writes it in full; `Settled(t)` is: in sync, or
torn. The properties say exactly what the exception costs. `QuiescentInSync` speaks
of settled documents. `NoMixture` covers the torn ones that have a row.
`NoChangeHonest` is about the row of any document and about the chunks of those that are
not torn. In `DocumentStore` a document may be `broken` (mapped to `torn`): then `Clear`
need not find catalogue and index equal, `Overlay` writes over chunks the catalogue never
heard of, `Commit` needs an empty index, and `Abandon` is the step that breaks one.

| Run | Instance | Shows |
|---|---|---|
| `pipeline_stores` | 2 workers, 2 documents, 4 bodies; failed purges, upserts and saves | `QuiescentInSync`, `NoMixture`, `NoChangeHonest`, `RowsFenced`, refinement of `DocumentStore` |
| `pipeline_all` | 2 workers, 2 bots that address 1 document, 1 body, every fault | `Exclusive`, `RowsAnchored`, `RowsFenced`, `OwnerKept`, `EveryRequestEnds` |

The bounds: two workers make every pair of requests interleave, and no property
relates more than two; two documents are needed for the duplicate query and for an id
drawn beside one in use; the bodies are a long one, one that shares its first chunk (so
that an upsert overwrites a part), one over the limit and one without chunks; the
properties of `pipeline_all` do not tell bodies apart. A crash leaves in the stores what a
failed call at the same place leaves, and a free lock: crashes are in `pipeline_all`, in
`pipeline_faults` and in the proofs. `pipeline_stores` has symmetry in the workers, as it
checks safety only. Nothing is counted, so the state space is finite without further bounds and runs of any length are
explored: any number of uploads, failures and retries in sequence.

`OwnerKept` holds though the row is read long before the save and the lock of one bot
does not exclude another: the two uploads would both have to name the id, and neither gets
past its save. With an encoder for UUIDs in `models.py:39` it fails (that is the mutant).

`DisturbedPipeline` (run `pipeline_faults`) adds what reaches the stores from
elsewhere. `GiveUp`: the client's time-out strikes, or the worker is killed, while a
Qdrant call is on its way; `RetryDelete`: a retried delete succeeds while an earlier
attempt is still on its way; `Land` applies such a call at any later moment, under
whoever's lock. `RestoreRows` and `RestorePoints` put back a dump and a snapshot of
any two moments, snapshots with leftovers of an earlier upload included (`Snapshots`): the
runbook stops the service for the first, not for the second. An id that is yet to be
drawn has no call on its way and is in no snapshot (`BeginAnew`).
Then rows and points may differ for good, and what is left to promise is that an
answer is true when it is given: `StoredUnlessDisturbed`, `DeletedUnlessDisturbed`,
with the history variable `disturbed`: did others change the document while the
worker held its lock? So a delete that is answered `deleted` repairs whatever happened
before. One call on its way at a time (`MaxLate`), one document, two bodies.

Fairness is weak fairness of each worker's own steps: every call a worker makes
has a timeout (lock 5 s, Qdrant 10 s, gunicorn 90 s), so a worker that has a
request takes its next step, or dies. No fairness is assumed of arrivals or faults.

### Proofs

`DocumentPipelineProofs` proves, for any workers, documents, bodies, hashes and
lock keys (colliding ones too), any two bots naming one document, and uploads with and
without a supplied id:

| Theorem | Assumes | Says |
|---|---|---|
| `TypeCorrect` | - | `TypeOK` always |
| `LockTableCorrect` | - | `Exclusive` always, whatever fails |
| `RowWritesFenced` | - | `RowsFenced`, whatever fails |
| `RowsHaveAnchors` | - | `RowsAnchored` always, whatever fails |
| `OwnersKeepRows` | - | `OwnerKept`, whatever fails |
| `StoresAgree` | `Calm` | `QuiescentInSync` always |
| `SearchSeesOneBody` | `Calm` | `NoMixture` always |
| `NoChangeIsTrue` | `Calm` | `NoChangeHonest` always |
| `PipelineImplementsStore` | `Calm` | the refinement |
| `InternalErrorsExplained` | no fault of `Raising` | only named uploads end in `internal_error` |

`Calm` is `Faults \cap {"session", "admin"} = {}`: no session is cut and no operator
deletes rows. Calls to Qdrant, the embedder and Postgres may fail and workers may be
killed at any step. It is needed: a worker that lost its lock goes on writing points beside
the next one, and a row taken away leaves its chunks.

`QuiescentInSync` is not inductive: a free lock says nothing of the steps that led
there. The invariant is `TypeOK /\ Exclusive /\ Ownership /\ Progress`, for the
refinement with `Chunked`. `Exclusive` gives that the worker inside a pipeline is alone for
its key. `Ownership` says that an id just drawn is nobody else's and has no row or points
before its own upload writes them, and that a worker past the owner check works on a row
of its own. It needs no assumption, and `OwnersKeepRows` follows from it: a save that
completes is that of a drawn id. `Progress` says how far the stores are at each step of
a worker (`Stage`) and that targets nobody works on are settled. `Chunked` (no stored
body is without chunks) makes "no points" and "all points of a body" different states,
which the refinement needs to tell a cleared document from a filled one. Each action
preserves each part: the actions of the worker inside move it to the next `Stage` or
leave its document torn, those of others touch neither its row's contents nor its points.
The refinement maps the catalogue to active rows, the index to points and `broken` to
`torn`: `Replace` and `DeleteChunks` are `Clear`, `Upsert` is `Fill` or `Overlay`, `Save`
and `Mark` are `Commit`, every way a request ends half-way is `Abandon`, all else stutters.

`NoChangeIsTrue` adds `Compared`: a worker about to answer `no_change` for its own
document has compared the row, whose contents nobody else wrote since, and a deleted row
counts no chunks, so that the row it compared is active. `RowsHaveAnchors` needs none of
this: bots and collections only grow, and a worker past the step that makes one has it.

`InternalErrorsExplained` is the other side of the run `pipeline_named` of section 8: it
says that what that run shows is the only way, as long as collections are made, the
tokenizer loads, deletes and last statements are not refused and no operator deletes rows
(`Raising`); upserts may fail, sessions be cut and workers die. It needs that a worker
about to touch or mark a row has found it, and that no pipeline takes rows away
(`Certain`). A cut session is answered by `DbFails`, of which it does not speak.

`DisturbedPipelineProofs` proves `TypeOK`, `Exclusive` and, by `StoredIsTrue` and
`DeletedIsTrue`, the two properties of the run, for any number of late calls, workers,
documents and keys and with two owners of a document too. The inductive invariant is
`Assurance`: a worker that was not disturbed is assured, at each step, of what it wrote so
far: the points are gone after its purge, its own after its upsert, the row is its own
after the save. Every step of another worker, every call that lands and every restore
either leaves its row and points alone or is recorded in `disturbed`. That alone would be
worth little if `disturbed` could be anybody's doing: `OnlyOutsiders` proves that a worker
whose session lives is disturbed only by a late call, a restore, an operator or a worker
that lost its own session, and never by one that holds a lock, whatever ids the clients of
two bots choose. For that it uses `Ownership`, and that late calls are none about an id
being drawn (`LateApart`, `Grounded`).

`Ownership`, `Progress` and `Chunked` are checked by the proofs only; they are what the
proofs of the properties above them use. Only model-checked: `EveryRequestEnds`, which is
liveness and outside the prover.

## 3. QdrantCollection

`coll` and `points` are one bot's collection; `pc`, `op`, `outer`, `inner` are
where a caller is and the attempts of its two retry loops, for
`create_collection_for_bot` retries inside `get_or_create_collection`, which
retries. Every call may fail for good, fail transiently before it was applied, or
be applied and its answer lost, to a transient error that is retried or to one that is
not. A collection somebody else made may have another schema, or unnamed vectors, whose
comparison ends in an `AttributeError` (`Compare`). `grpc` is `QDRANT_PREFER_GRPC`. `tally` is the
number of indexes made by the attempt, or the count `delete_by_doc_id` returns.
`Store` is an upsert by somebody who holds the lock of the document. A dropped
collection may come back and a caller may find it gone at any call.

| Run | Shows |
|---|---|
| `collection_calls` | what the operations return is true (`EnsureHonest`, `PurgeHonest`), `PointsSafe`: no retry costs data, `IndexesComplete` without failures, `RaceToleratedOverREST`, and `CallsReturn` |

Bounds: two callers, two documents of at most one point (`MaxPoints`), two payload
indexes instead of eight (`NumIndexes`: first and last differ), two attempts
instead of three (`Attempts`: one retry and exhaustion both happen). Fairness: the
client's timeout of 10 s ends every call.

`disturbed` and `atStart` are history variables: they let properties speak of runs
without failures, and of the points there were when a purge began.

`QdrantCollectionProofs` proves every safety property of the run for any callers,
documents, indexes and attempts. None is inductive. `Shape` says which operation can be
where; `Calm`, while nothing was disturbed, that a collection once seen is there and
only its creator makes indexes, in order (`IndexesComplete`, `RaceToleratedOverREST`);
`Knows` that the points of a document under purge are those of its beginning or none,
which a second purge of the document would break (the lock excludes it), so the count
is that of the beginning (`PurgeHonest`). `CallsReturn` is liveness and only
model-checked; what it rests on is proved, `CallsBounded`: each call a caller makes brings
it to a later attempt of the outer loop, or in the same attempt to a later part, or in the
creation to a later attempt of the inner loop or a later index, and nobody else takes it
back. A creation after a conflict starts its inner loop anew, but only with an attempt of
the outer one.

## 4. Readiness

One process. `warmup` is the warm-up thread, `main` the request thread, `queue`,
`busy`, `conn` the pool: waiting jobs, the job of each thread, and its Django
connection, which nobody checks or closes. `future` is what the request thread
waits for. A time-out forgets the job, which stays in the queue or on its thread.
Postgres is up, down or hung; Qdrant, whose client gives up after 2 s, up or down.

| Run | Shows |
|---|---|
| `readiness_probe` | `ReadyMeansWarm`; `PingsFresh`: ok only of a store that was up during this probe; `ProbeEnds`; `Recovers`: with both stores back and no dead connection in the pool, probes succeed again |

Bounds: two pool threads as in the code, a queue of at most three jobs
(`MaxQueue`), so that both threads can be hung with a Qdrant ping behind them.
Fairness: threads are scheduled (weak); a probe is asked for again and again, its
connection waiting in the listen queue until the request thread is free (strong,
`Probe`); and the two seconds of a ping pass even if the store flickers (strong,
`TimeOut`). The outages have no fairness: a store may stay away for ever.

`ReadinessProofs` proves the safety properties for any pool and queue. `Warm`: a model
is loaded for good before the flag is set, and no request loads it after the flag.
`Owned`: of all the jobs in the queue and on the threads, those of abandoned pings
included, at most one is awaited, and it is the ping `main` is in; without it a late
answer could fill the future of a later ping. `Fresh`: what is up was up during the
probe, and no thread has an open connection to a Postgres that is down. Liveness
(`ProbeEnds`, `Recovers`) is only model-checked.

## 5. Chunker

A text is a sequence of places, so that properties can say where a chunk comes from:
`cut` is the piece the splitter cut last, `text` the piece in hand, `chunks` those of
the item, `flat` the pipeline's list. The splitter is a library: `Split` takes any
next piece within its size that goes on where the last one ended or overlaps it.
`Truncate` and `Shrink` are `_truncate_to_max_tokens`, `Place` the merge or append,
`EndItem` the pipeline's loop. The tokenizer is a parameter `Tokens`; assumed of it is
only that a character costs no more than the whole limit.

Run `chunker_items`: `NothingLost` (every visible character is in a chunk, unless it
was in a piece over the limit, which itself leaves a chunk; so the fallback of
`chunk_item` for no chunks is never needed), `Fits` (every chunk is non-blank and
within the limit, merged ones too), `IdsDistinct`, `ShortOnlyIfForced`, and `Ends`.
Bounds: all items of up to five characters over a one-token, a two-token and a blank
character, longer ones and pairs; limit two tokens, minimum four characters, so that
truncation, the 5 % loop down to one character, merges and refused merges all happen.
Chunking stops when it is done, so deadlock is not checked. Fairness: it runs on.

`ChunkerProofs` proves `IdsDistinct` and `Fits` for any documents, limits and cuts and
any tokenizer within `TokenAssumption`. `Ranked` and `Collected`: a chunk's index is its
rank in its item, which a merge keeps, and items are collected in order. `Fitting`: the
piece in hand is empty or a stretch of its item with ink in it (`Held`), so that the count the truncation compares is that of a stretch, a share of its
length is within it (`Share`), and what is merged was counted as merged.

`ChunkerCoverProofs` proves the others. `NothingIsLost`: by the invariant `Covered` all ink
up to the cut is in a chunk, in the piece in hand or in a piece that was over the limit,
and a piece starts with ink and keeps its first character whatever is cut off its end, so
that an item with ink leaves a chunk. `ShortChunksAreForced`: by `Forced` a short chunk is
the first of its item or did not fit with the one before it, and goes on not to fit when
that one grows by merges. This needs a tokenizer for which joining something with a blank
makes a text no cheaper (`BlankSplits`; pieces of the model's SentencePiece vocabulary do
not cross blanks, and the run's tokenizer is checked to be like that): with a stranger one
a merge could make room that the code, which looks at each piece once, does not use.
`ChunkingEnds`: every step cuts further, goes to a later part, or makes the piece shorter
(95 % of a length, rounded down, is less); `Ends` itself is liveness and only model-checked.

## 6. SearchService

`pc`, `kind`, `tries` and `status` are a call's handler; `client` is what its client
has got, `counted` and `observed` what the counters were incremented for; `server` is
how far a shutdown is. `Accept` appends to the pool's queue, `Start` gives the first
call to a thread; `Check`, `Exists`, `Embed`, `Query` (with its retries) and `Return`
are the handler, `Sigterm`, `GraceOver`, `Stopped`, `Exit`, `Kill` the end of the
process. `QdrantFlips` and `CollectionFlips` are the world. `seen` is a history of what
was the case at some moment of the call.

Run `search_calls`: `StatusJustified` (an error names a cause that was there during the
call, and OK was possible), `CountedOnce`, `Drained`, `CallsEnd`, `ShutsDown`. Bounds: two
calls and one thread, so that one waits while the other retries or is cancelled; two
attempts. The server may exit, so deadlock is not checked. Fairness: threads are
scheduled and every client call has a timeout (weak, each call's handler and `Start`);
the grace period passes (weak, `Shutdown`); nobody has to send a signal.

`SearchServiceProofs` proves the safety properties for any calls, threads and attempts.
`Informed` keeps, for each step of a handler, what its history must hold for the status
it may decide on; `Counted` what was recorded for a call before and after its answer;
`Waiting` that no call is in the queue twice, and so on no two threads; `Served` whom
each stage of the shutdown leaves without an answer. `CallsEnd` and `ShutsDown` are
liveness and only model-checked; of what `CallsEnd` rests on, two things are proved.
`CallsHeld`: a call whose client waits has one place in the queue or is in its handler
(`Placed`, with `Waiting`). `CallsGoOn`: the queue moves up whenever a thread takes a call
and only then, every step of a handler is towards its answer, and nothing sets it back
short of the end of the process.

## 7. Registry and HttpApi

A slug is the sequence of words that `__b_` separates in it: then the collection name
is the words of both slugs in a row, and two pairs of slugs collide exactly when the
code's strings do. `Get`, `Add`, `Find`, `Last` are Django's `get_or_create` and the
pipeline's own `get` after an `IntegrityError`, for the tenant and then the bot;
`DropTenant` (with its cascade), `DropBot`, `AddTenant`, `AddBot`, `RenameBot` are the admin.

`HttpApi` puts a registration into a request: `RequestIdIn` and `Exit`, `AccessLogIn` and
`Leave` are the two middlewares of `core` from outside to inside and back. Of Django's own
between them, `Refuse` stands for one that answers in the place of a view (a wrong host),
and `Common` for the way back through `CommonMiddleware`, which turns the 404 of a path
without its last slash into a redirection (`APPEND_SLASH`): the line is written before, and
`answer` may change after it. A view refuses (`RejectSlug`, `RejectBody`), fails to get its
lock (`NoLock`), or calls (`CallPipeline`) and answers by the outcome (`Work`, any of the
statuses that `DocumentPipeline` and `SearchService` derive); a path without a route is
`Unresolved`. `ctx` are the context variables, `before` the reset tokens, `phases` whose
timings the dictionary holds. `Abort` is gunicorn's.

Run `http_requests`: `LinesAreOwn`, `BotsApart`, `RaceHarmless`, `GoesOnRegistered`.
Bounds: two workers, two slugs of which two pairs have one name, eleven requests that
reach every branch. Safety only; that requests end is `EveryRequestEnds` of section 2.

`HttpApiProofs` proves the four for any workers, slugs and requests. `Trace` says what
the context, the reset tokens and the phases are at each place of a request,
so that the way back out restores what the next request of the worker starts from;
`Reasons` why a registration is where it is: its tenant and bot are there, or an
operator meddled, or another bot has the collection name. What an operator meddled with
is outside `GoesOnRegistered`: such a registration may go on without its row.

## 8. Where the code does not do what is written

These are runs whose counterexample TLC finds:

- `pipeline_named`: a client-supplied `doc_id` reaches the JSON column as a
  `uuid.UUID`; the save raises after both Qdrant writes. 500 without any failure, though
  the README keeps `internal_error` for those of Qdrant and the embedder.
- `pipeline_torn`: after such an upload of other content the row still has the old hash.
  The old content, sent again, is answered `no_change`, and the index has none of it.
- `collection_race`: over gRPC, the default, the loser of the creation race gets an
  `RpcError`; the handler is for the REST client's exception.
- `readiness_stale`: after a restart of Postgres a pool thread keeps its dead
  connection, and `/healthz` answers 503 until the process is restarted.

Seen with the same models, without a run of their own:

- A `no_change` may name another document that is being deleted: `ContentExists` fails with
  two workers without any half-written document.
- Two uploads of one content under different `doc_id`s at once do not see each other,
  and both are stored, though the README says the second is a no-op.
- A named first upload, or a crash between upsert and save, leaves chunks without a row: a
  delete answers `document_not_found`, searches find them, and an upload of a shorter body
  overwrites only those it shares, so that search sees a mixture (what `NoMixture` excepts).
- A replace whose upsert fails leaves an active row with a count and no chunks
  (phase 5b means `chunk_count = 0` to mark such a row).
- A worker that lost its session still changes points: rows are fenced, chunks not.
- The row of a bot and document is checked for its owner long before the save: with named
  uploads that succeed, two bots would take over each other's rows (section 2).
- A creation that fails between the payload indexes leaves them out for good, for the
  schema check looks at vectors only.
- `collection_exists` in `search` is not retried and not translated: an outage there is
  INTERNAL, where phase 7 has UNAVAILABLE (`Exists`); and every refusal is counted as
  INTERNAL whatever its status is, for `context.abort` raises a plain exception (`Recorded`),
  where phase 8b has the status as the label.
- The uploads of a bot whose name is another bot's answer 500 for ever; its searches are
  not checked against the table and read the other bot's collection.
- A body that is not JSON is answered 500, for the framework's exception ends in the
  view's clause for unforeseen ones. A request that a middleware around the access log
  refuses leaves no line and is not counted (`Refuse`), and one for `/admin` is logged as 404
  and answered 301 (`Common`), though `middleware.py:7` has exactly one line per request.
- A bot that an operator renames leaves its documents and points under the old name, and
  a tenant that is dropped its points.

## 9. What is left out

- Not modelled: which bodies the serializers refuse (an input, good or bad), the Celery
  worker (no task is defined), generated protobuf code, migrations, and the scripts that
  install, check and measure. Embeddings and scores are arithmetic of libraries.
- The duplicate query takes the most recent match; the model takes any.
- Postgres commits each statement at once, or refuses it; `update_or_create` is one
  transaction, and its internal race on insertion is Postgres's.
- Both gunicorn workers have a flag and a model of their own; `Readiness` is about
  one. That `/healthz` may ask one while the other is cold is a hazard without a run.
- Lock polling every 50 ms is one attempt that succeeds when it can; giving up
  follows a failed attempt.
- A Qdrant call that is applied long after it failed is in `DisturbedPipeline`, as the
  pipelines see it, not call by call in `QdrantCollection`.
- The health check's own call to Qdrant (`grpc_service/handler.py:166`) is one step with
  the look at the model; no property tells its moments apart.
- A client of the search service does not cancel its calls; only the shutdown does.
- The fallback of `chunk_item`, which `NothingLost` shows to be unreachable.

## 10. Plan

1. Proofs: the steps that bring `ProbeEnds` of `Readiness` about, as `CallsGoOn` does for
   `CallsEnd`; that a registration of `Registry` ends however uploads race in it.
2. `SearchService` over `DocumentStore`, so that what a search finds is stated of it.
3. When the body of a named upload can be saved (`pipeline.py:305`), replaces complete:
   `Save` changes, `torn` shrinks to failures, and the owner check has to move to the save.
