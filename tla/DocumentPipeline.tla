-------------------------- MODULE DocumentPipeline --------------------------
(***************************************************************************)
(* The upload and delete pipelines of the ingestion service                *)
(* (apps/ingestion/pipeline.py) as HTTP worker processes run them, over the *)
(* two stores they keep in step without a common transaction: the document  *)
(* rows in Postgres and the chunk points in Qdrant.                         *)
(*                                                                         *)
(* Every request holds a Postgres session advisory lock on its (tenant,     *)
(* bot, document) while it works.  One action is one call to a store, so    *)
(* that the steps of different workers interleave wherever the code gives   *)
(* up control.  Which failures may strike is the constant Faults.           *)
(***************************************************************************)
EXTENDS Naturals, FiniteSets

CONSTANTS
    Workers,      \* gunicorn worker processes: one request, one PG session each
    Scopes,       \* (tenant, bot) pairs; each has a Qdrant collection of its own
    Docs,         \* document ids
    Targets,      \* the <<scope, document>> pairs that requests address
    Keys,         \* advisory lock keys
    KeyOf,        \* the key of a target; collisions are possible
    Bodies,       \* upload bodies
    HashOf,       \* content hash of a body, given by the client or computed
    ChunkIds,     \* chunk numbers <<item index, chunk index>>, as opaque values
    ChunksOf,     \* the chunks the chunker makes of a body
    MaxChunks,    \* MAX_CHUNKS_PER_DOC
    Faults,       \* the kinds of failure that may strike
    NoRow, NoDoc, NoRequest, Nobody

(* collection, purge, upsert: Qdrant fails the call, which was applied or    *)
(* never will be.  embed: the tokenizer or the embedder fails.  save:       *)
(* Postgres refuses the final statement.  crash: the worker dies, as after  *)
(* gunicorn's --timeout.  session: its PG session is cut.  admin: an        *)
(* operator deletes a row in the Django admin.                              *)
FaultKinds ==
    {"collection", "embed", "purge", "upsert", "save", "crash", "session", "admin"}

ASSUME TargetsAssumption == Targets \subseteq Scopes \X Docs
ASSUME KeyAssumption == KeyOf \in [Targets -> Keys]
ASSUME ChunkAssumption ==
    /\ IsFiniteSet(ChunkIds)
    /\ ChunksOf \in [Bodies -> SUBSET ChunkIds]
    /\ MaxChunks \in Nat
ASSUME HashAssumption == DOMAIN HashOf = Bodies
ASSUME FaultAssumption == Faults \subseteq FaultKinds

VARIABLES
    rows,       \* Postgres: the Document row of each document id
    bots,       \* Postgres: the scopes that have a Tenant and a Bot row
    lock,       \* Postgres: the worker whose session holds each advisory lock
    session,    \* is the worker's PG session alive?
    points,     \* Qdrant: the chunks stored for each target
    colls,      \* Qdrant: the scopes whose collection exists
    pc,         \* the call the worker makes next
    req,        \* the request the worker serves
    existing,   \* the row that request read, possibly stale by now
    hit,        \* the document a no_change answer names
    reply,      \* the answer the worker has decided on
    torn        \* history: targets a request has begun to write and left before
                \* its last write, and no request has written in full since

tables  == <<rows, bots>>
vectors == <<points, colls>>
locals  == <<pc, req, existing, hit, reply>>
vars    == <<tables, lock, session, vectors, locals, torn>>

-----------------------------------------------------------------------------

\* An upload is named when the client gave its doc_id: the body then holds it as
\* a uuid.UUID.  Otherwise the view draws a new one.
Requests ==
    [op : {"upload"}, at : Targets, body : Bodies, named : BOOLEAN]
        \cup [op : {"delete"}, at : Targets]

\* raw_payload, content_hash and item_count are written together: all three
\* are "body" here.  refreshed: was last_refreshed_at moved since the insert?
Rows == [scope : Scopes, body : Bodies, chunks : Nat, status : {"active", "deleted"},
         refreshed : BOOLEAN]

ASSUME NullAssumption ==
    /\ NoRow \notin Rows /\ NoRow \notin Bodies
    /\ NoDoc \notin Docs
    /\ Nobody \notin Workers

Point == [chunk : ChunkIds, body : Bodies]

UploadSteps == {"register", "read", "match", "touch", "collection", "embed",
                "replace", "upsert", "save"}

Steps == UploadSteps \cup {"idle", "lock", "find", "purge", "mark", "unlock"}

Replies == {"none", "created", "replaced", "no_change", "deleted",
            "document_not_found", "no_embeddable_content", "too_many_chunks",
            "qdrant_write_failed", "embedder_failed", "internal_error"}

ScopeOf(w) == req[w].at[1]
DocOf(w)   == req[w].at[2]
KeyFor(w)  == KeyOf[req[w].at]

\* Does a target have a row, as its owner sees it?
HasRow(t) == rows[t[2]] # NoRow /\ rows[t[2]].scope = t[1]

Mine(w) == HasRow(req[w].at)

\* What a row says, its last_refreshed_at apart.
Entry(row) == IF row = NoRow THEN NoRow ELSE [row EXCEPT !.refreshed = FALSE]

SameContent(row, body) == HashOf[row.body] = HashOf[body]

\* The points an upload of a body writes.
Stored(body) == [chunk : ChunksOf[body], body : {body}]

Upserted(old, body) == {p \in old : p.chunk \notin ChunksOf[body]} \cup Stored(body)

\* The row an upload saves.
NewRow(w) == [scope     |-> ScopeOf(w),
              body      |-> req[w].body,
              chunks    |-> Cardinality(ChunksOf[req[w].body]),
              status    |-> "active",
              refreshed |-> FALSE]

\* A worker inside the pipeline has the request its step is about.
TypeOK ==
    /\ rows \in [Docs -> Rows \cup {NoRow}]
    /\ bots \in SUBSET Scopes
    /\ lock \in [Keys -> Workers \cup {Nobody}]
    /\ session \in [Workers -> BOOLEAN]
    /\ points \in [Targets -> SUBSET Point]
    /\ colls \in SUBSET Scopes
    /\ pc \in [Workers -> Steps]
    /\ req \in [Workers -> Requests \cup {NoRequest}]
    /\ existing \in [Workers -> Rows \cup {NoRow}]
    /\ hit \in [Workers -> Docs \cup {NoDoc}]
    /\ reply \in [Workers -> Replies]
    /\ torn \subseteq Targets
    /\ \A w \in Workers :
         /\ pc[w] # "idle" => req[w] \in Requests
         /\ pc[w] \in UploadSteps => req[w].op = "upload"
         /\ pc[w] = "touch" => hit[w] \in Docs

Init ==
    /\ rows = [d \in Docs |-> NoRow]
    /\ bots = {}
    /\ lock = [k \in Keys |-> Nobody]
    /\ session = [w \in Workers |-> TRUE]
    /\ points = [t \in Targets |-> {}]
    /\ colls = {}
    /\ pc = [w \in Workers |-> "idle"]
    /\ req = [w \in Workers |-> NoRequest]
    /\ existing = [w \in Workers |-> NoRow]
    /\ hit = [w \in Workers |-> NoDoc]
    /\ reply = [w \in Workers |-> "none"]
    /\ torn = {}

-----------------------------------------------------------------------------
\* How a request moves on and ends.

Goto(w, step) ==
    /\ pc' = [pc EXCEPT ![w] = step]
    /\ UNCHANGED <<req, existing, hit, reply>>

\* The finally clause of upload_lock runs whatever the outcome.
Answer(w, outcome) ==
    /\ pc' = [pc EXCEPT ![w] = "unlock"]
    /\ reply' = [reply EXCEPT ![w] = outcome]
    /\ UNCHANGED <<req, existing, hit>>

\* A QdrantError is caught and answered; any other exception of a Qdrant call,
\* like an RpcError that with_retry does not retry, reaches the view.
QdrantFailures == {"qdrant_write_failed", "internal_error"}

\* The request ends with an error and may have written a part.
Tear(w, outcomes) ==
    /\ torn' = torn \cup {req[w].at}
    /\ \E outcome \in outcomes : Answer(w, outcome)

Finish(w) ==
    /\ pc' = [pc EXCEPT ![w] = "idle"]
    /\ req' = [req EXCEPT ![w] = NoRequest]
    /\ existing' = [existing EXCEPT ![w] = NoRow]
    /\ hit' = [hit EXCEPT ![w] = NoDoc]
    /\ reply' = [reply EXCEPT ![w] = "none"]

\* The worker has written to Qdrant and its row is still to follow.
Midway(w) == pc[w] \in {"save", "mark"} \/ (pc[w] = "upsert" /\ existing[w] # NoRow)

\* The request ends where it is, without an answer of the pipeline.
Drop(w) ==
    /\ torn' = IF Midway(w) THEN torn \cup {req[w].at} ELSE torn
    /\ Finish(w)

\* Postgres frees what a session holds when the session ends.
ReleaseAll(w) ==
    lock' = [k \in Keys |-> IF lock[k] = w THEN Nobody ELSE lock[k]]

-----------------------------------------------------------------------------
\* Mistakes the code could have made: each is a variant of the definition named
\* before the underscore, and some property below excludes it.

Acquire_Unguarded(w) ==
    /\ pc[w] = "lock" /\ session[w]
    /\ lock' = [lock EXCEPT ![KeyFor(w)] = w]
    /\ Goto(w, IF req[w].op = "upload" THEN "register" ELSE "find")
    /\ UNCHANGED <<tables, session, vectors, torn>>

LockTimeout_Never(w) == FALSE

\* The finally clause releases the lock only after some outcomes.
Unlock_Leaks(w) ==
    /\ pc[w] = "unlock" /\ session[w]
    /\ lock' = IF reply[w] = "no_change" THEN lock
                                         ELSE [lock EXCEPT ![KeyFor(w)] = Nobody]
    /\ Finish(w)
    /\ UNCHANGED <<tables, session, vectors, torn>>

UpToDate_NoCount(w) == Mine(w) /\ SameContent(rows[DocOf(w)], req[w].body)

\* save() without update_fields: all of the row as the query found it.
Touch_SavesAll(w) ==
    /\ pc[w] = "touch" /\ session[w]
    /\ rows[hit[w]] # NoRow
    /\ rows' = [rows EXCEPT ![hit[w]].status = "active",
                            ![hit[w]].chunks = Cardinality(ChunksOf[req[w].body])]
    /\ Answer(w, "no_change")
    /\ UNCHANGED <<bots, lock, session, vectors, torn>>

EnsureCollection_Swallows(w) ==
    /\ pc[w] = "collection"
    /\ colls' = colls \cup {ScopeOf(w)} \/ UNCHANGED colls
    /\ Goto(w, "embed")
    /\ UNCHANGED <<tables, lock, session, points, torn>>

Purge_Swallows(w, next) ==
    /\ points' = [points EXCEPT ![req[w].at] = {}] \/ UNCHANGED points
    /\ Goto(w, next)
    /\ UNCHANGED <<tables, lock, session, colls, torn>>

\* update_or_create with an encoder that knows UUIDs: named uploads succeed, and
\* the row that was read long before is overwritten whosever it is by now.
Save_Encodes(w) ==
    /\ pc[w] = "save" /\ session[w]
    /\ rows' = [rows EXCEPT ![DocOf(w)] = NewRow(w)]
    /\ torn' = torn \ {req[w].at}
    /\ Answer(w, IF existing[w] # NoRow THEN "replaced" ELSE "created")
    /\ UNCHANGED <<bots, lock, session, vectors>>

\* Django opens a new session for the last statement, without the lock.
Save_Reconnects(w) ==
    /\ pc[w] = "save" /\ ~req[w].named
    /\ rows' = [rows EXCEPT ![DocOf(w)] = NewRow(w)]
    /\ Answer(w, "created")
    /\ UNCHANGED <<bots, lock, session, vectors, torn>>

Find_MarksFirst(w) ==
    /\ pc[w] = "find" /\ session[w]
    /\ IF Mine(w) THEN Goto(w, "mark") ELSE Answer(w, "document_not_found")
    /\ UNCHANGED <<tables, lock, session, vectors, torn>>

Mark_Subtracts(w) ==
    /\ pc[w] = "mark" /\ session[w]
    /\ rows' = [rows EXCEPT
                  ![DocOf(w)].status = "deleted",
                  ![DocOf(w)].chunks = @ - Cardinality(ChunksOf[existing[w].body])]
    /\ Answer(w, "deleted")
    /\ UNCHANGED <<bots, lock, session, vectors, torn>>

\* update_fields without "status".
Mark_KeepsStatus(w) ==
    /\ pc[w] = "mark" /\ session[w]
    /\ rows[DocOf(w)] # NoRow
    /\ rows' = [rows EXCEPT ![DocOf(w)].chunks = 0]
    /\ torn' = torn \ {req[w].at}
    /\ Answer(w, "deleted")
    /\ UNCHANGED <<bots, lock, session, vectors>>

-----------------------------------------------------------------------------
\* Requests.

Fresh(r) == r.op = "upload" /\ ~r.named

\* The worker serves an upload under an id that nobody else knows yet.
Creating(w) == pc[w] # "idle" /\ Fresh(req[w])

\* An id that has left no trace stands for one never drawn before.
Unused(d) ==
    /\ rows[d] = NoRow
    /\ \A t \in Targets : t[2] = d => points[t] = {} /\ t \notin torn
    /\ \A w \in Workers : pc[w] # "idle" => DocOf(w) # d

\* A drawn id (uuid4) is new, and no client can name it before it is answered.
Begin(w, r) ==
    /\ pc[w] = "idle"
    /\ Fresh(r) => Unused(r.at[2])
    /\ \A v \in Workers : Creating(v) => DocOf(v) # r.at[2]
    /\ pc' = [pc EXCEPT ![w] = "lock"]
    /\ req' = [req EXCEPT ![w] = r]
    /\ UNCHANGED <<tables, lock, session, vectors, existing, hit, reply, torn>>

-----------------------------------------------------------------------------
\* upload_lock.  Polling is one attempt that succeeds when it can; giving up
\* after the deadline follows a failed attempt, hence a lock held elsewhere.

Acquire(w) ==
    /\ pc[w] = "lock" /\ session[w]
    /\ lock[KeyFor(w)] = Nobody
    /\ lock' = [lock EXCEPT ![KeyFor(w)] = w]
    /\ Goto(w, IF req[w].op = "upload" THEN "register" ELSE "find")
    /\ UNCHANGED <<tables, session, vectors, torn>>

\* 409 with Retry-After.
LockTimeout(w) ==
    /\ pc[w] = "lock" /\ session[w]
    /\ lock[KeyFor(w)] # Nobody
    /\ Finish(w)
    /\ UNCHANGED <<tables, lock, session, vectors, torn>>

Unlock(w) ==
    /\ pc[w] = "unlock" /\ session[w]
    /\ lock' = [lock EXCEPT ![KeyFor(w)] = Nobody]
    /\ Finish(w)
    /\ UNCHANGED <<tables, session, vectors, torn>>

-----------------------------------------------------------------------------
\* UploadPipeline.execute.

Register(w) ==
    /\ pc[w] = "register" /\ session[w]
    /\ bots' = bots \cup {ScopeOf(w)}
    /\ Goto(w, "read")
    /\ UNCHANGED <<rows, lock, session, vectors, torn>>

UpToDate(w) ==
    /\ Mine(w)
    /\ rows[DocOf(w)].chunks > 0
    /\ SameContent(rows[DocOf(w)], req[w].body)

\* Reads the row, refuses a document of another tenant or bot, and compares
\* content hashes.
Read(w) ==
    /\ pc[w] = "read" /\ session[w]
    /\ existing' = [existing EXCEPT ![w] = rows[DocOf(w)]]
    /\ \/ /\ rows[DocOf(w)] # NoRow /\ ~Mine(w)
          /\ pc' = [pc EXCEPT ![w] = "unlock"]
          /\ reply' = [reply EXCEPT ![w] = "qdrant_write_failed"]
          /\ UNCHANGED hit
       \/ /\ UpToDate(w)
          /\ pc' = [pc EXCEPT ![w] = "touch"]
          /\ hit' = [hit EXCEPT ![w] = DocOf(w)]
          /\ UNCHANGED reply
       \/ /\ rows[DocOf(w)] # NoRow => Mine(w)
          /\ ~UpToDate(w)
          /\ pc' = [pc EXCEPT ![w] = "match"]
          /\ UNCHANGED <<hit, reply>>
    /\ UNCHANGED <<tables, lock, session, vectors, req, torn>>

Duplicates(w) ==
    {d \in Docs \ {DocOf(w)} :
        /\ rows[d] # NoRow
        /\ rows[d].scope = ScopeOf(w)
        /\ SameContent(rows[d], req[w].body)
        /\ rows[d].status = "active" /\ rows[d].chunks > 0}

\* The query for another document with the same content; the code takes the
\* most recent one, the model any.
Match(w) ==
    /\ pc[w] = "match" /\ session[w]
    /\ \/ \E d \in Duplicates(w) :
            /\ hit' = [hit EXCEPT ![w] = d]
            /\ pc' = [pc EXCEPT ![w] = "touch"]
       \/ /\ Duplicates(w) = {}
          /\ pc' = [pc EXCEPT ![w] = "collection"]
          /\ UNCHANGED hit
    /\ UNCHANGED <<tables, lock, session, vectors, req, existing, reply, torn>>

\* save(update_fields=["last_refreshed_at"]) of the worker's own row or, without
\* its lock, of another document's; it raises when the row is gone.
Touch(w) ==
    /\ pc[w] = "touch" /\ session[w]
    /\ \/ /\ rows[hit[w]] # NoRow
          /\ rows' = [rows EXCEPT ![hit[w]].refreshed = TRUE]
          /\ Answer(w, "no_change")
       \/ /\ rows[hit[w]] = NoRow
          /\ UNCHANGED rows
          /\ Answer(w, "internal_error")
    /\ UNCHANGED <<bots, lock, session, vectors, torn>>

EnsureCollection(w) ==
    /\ pc[w] = "collection"
    /\ \/ /\ colls' = colls \cup {ScopeOf(w)}
          /\ Goto(w, "embed")
       \/ /\ "collection" \in Faults
          /\ colls' = colls \cup {ScopeOf(w)} \/ UNCHANGED colls
          /\ \E outcome \in QdrantFailures : Answer(w, outcome)
    /\ UNCHANGED <<tables, lock, session, points, torn>>

Fits(body) == ChunksOf[body] # {} /\ Cardinality(ChunksOf[body]) <= MaxChunks

\* Chunking, which may fail to load the tokenizer, the two 422 checks,
\* embedding, and building the points.
Embed(w) ==
    /\ pc[w] = "embed"
    /\ \/ ChunksOf[req[w].body] = {} /\ Answer(w, "no_embeddable_content")
       \/ Cardinality(ChunksOf[req[w].body]) > MaxChunks /\ Answer(w, "too_many_chunks")
       \/ Fits(req[w].body) /\ Goto(w, IF existing[w] # NoRow THEN "replace" ELSE "upsert")
       \/ "embed" \in Faults /\ Fits(req[w].body) /\ Answer(w, "embedder_failed")
       \/ "embed" \in Faults /\ Answer(w, "internal_error")
    /\ UNCHANGED <<tables, lock, session, vectors, torn>>

\* delete_by_doc_id of the worker's document, as seen from the pipeline.
Purge(w, next) ==
    /\ \/ /\ points' = [points EXCEPT ![req[w].at] = {}]
          /\ Goto(w, next)
          /\ UNCHANGED torn
       \/ /\ "purge" \in Faults
          /\ points' = [points EXCEPT ![req[w].at] = {}] \/ UNCHANGED points
          /\ Tear(w, QdrantFailures)
    /\ UNCHANGED <<tables, lock, session, colls>>

Replace(w) == pc[w] = "replace" /\ Purge(w, "upsert")

\* Any exception of the upsert is caught.
Upsert(w) ==
    /\ pc[w] = "upsert"
    /\ LET written == [points EXCEPT ![req[w].at] = Upserted(@, req[w].body)] IN
         \/ points' = written /\ Goto(w, "save") /\ UNCHANGED torn
         \/ /\ "upsert" \in Faults
            /\ points' = written \/ UNCHANGED points
            /\ Tear(w, {"qdrant_write_failed"})
    /\ UNCHANGED <<tables, lock, session, colls>>

\* update_or_create in one transaction.  raw_payload is a JSONField without an
\* encoder: a body that still holds the doc_id as a uuid.UUID raises TypeError.
Save(w) ==
    /\ pc[w] = "save" /\ session[w]
    /\ \/ /\ ~req[w].named
          /\ rows' = [rows EXCEPT ![DocOf(w)] = NewRow(w)]
          /\ torn' = torn \ {req[w].at}
          /\ Answer(w, IF existing[w] # NoRow THEN "replaced" ELSE "created")
       \/ /\ req[w].named \/ "save" \in Faults
          /\ UNCHANGED rows
          /\ Tear(w, {"internal_error"})
    /\ UNCHANGED <<bots, lock, session, vectors>>

-----------------------------------------------------------------------------
\* DeletePipeline.execute.

Find(w) ==
    /\ pc[w] = "find" /\ session[w]
    /\ \/ /\ ~Mine(w)
          /\ Answer(w, "document_not_found")
       \/ /\ Mine(w)
          /\ pc' = [pc EXCEPT ![w] = "purge"]
          /\ existing' = [existing EXCEPT ![w] = rows[DocOf(w)]]
          /\ UNCHANGED <<req, hit, reply>>
    /\ UNCHANGED <<tables, lock, session, vectors, torn>>

DeleteChunks(w) == pc[w] = "purge" /\ Purge(w, "mark")

\* save(update_fields=[...]) updates whatever row has the id by now and raises
\* when there is none.
Mark(w) ==
    /\ pc[w] = "mark" /\ session[w]
    /\ \/ /\ rows[DocOf(w)] # NoRow
          /\ rows' = [rows EXCEPT ![DocOf(w)].status = "deleted",
                                  ![DocOf(w)].chunks = 0,
                                  ![DocOf(w)].refreshed = TRUE]
          /\ torn' = torn \ {req[w].at}
          /\ Answer(w, "deleted")
       \/ /\ rows[DocOf(w)] = NoRow \/ "save" \in Faults
          /\ UNCHANGED rows
          /\ Tear(w, {"internal_error"})
    /\ UNCHANGED <<bots, lock, session, vectors>>

-----------------------------------------------------------------------------
\* Failures around the pipelines.

\* A statement on a session that was cut raises, and so does the unlock that
\* follows; the request answers 500 and the next one opens a new session.
DbFails(w) ==
    /\ ~session[w]
    /\ pc[w] \in {"lock", "register", "read", "match", "touch", "save",
                  "find", "mark", "unlock"}
    /\ session' = [session EXCEPT ![w] = TRUE]
    /\ Drop(w)
    /\ UNCHANGED <<tables, lock, vectors>>

SessionLost(w) ==
    /\ "session" \in Faults
    /\ session[w]
    /\ session' = [session EXCEPT ![w] = FALSE]
    /\ ReleaseAll(w)
    /\ UNCHANGED <<tables, vectors, locals, torn>>

Crash(w) ==
    /\ "crash" \in Faults
    /\ pc[w] # "idle"
    /\ session' = [session EXCEPT ![w] = TRUE]
    /\ ReleaseAll(w)
    /\ Drop(w)
    /\ UNCHANGED <<tables, vectors>>

AdminDelete(d) ==
    /\ "admin" \in Faults
    /\ rows[d] # NoRow
    /\ rows' = [rows EXCEPT ![d] = NoRow]
    /\ UNCHANGED <<bots, lock, session, vectors, locals, torn>>

-----------------------------------------------------------------------------

UploadStep(w) ==
    \/ Register(w) \/ Read(w) \/ Match(w) \/ Touch(w) \/ EnsureCollection(w)
    \/ Embed(w) \/ Replace(w) \/ Upsert(w) \/ Save(w)

DeleteStep(w) == Find(w) \/ DeleteChunks(w) \/ Mark(w)

LockStep(w) == Acquire(w) \/ LockTimeout(w) \/ Unlock(w)

\* What a worker that has a request does of its own accord.
Step(w) == LockStep(w) \/ UploadStep(w) \/ DeleteStep(w) \/ DbFails(w)

Disturbance ==
    \/ \E w \in Workers : SessionLost(w) \/ Crash(w)
    \/ \E d \in Docs : AdminDelete(d)

Next ==
    \/ \E w \in Workers, r \in Requests : Begin(w, r)
    \/ \E w \in Workers : Step(w)
    \/ Disturbance

Spec == Init /\ [][Next]_vars

\* A worker does not stop half-way: every call it makes has a timeout.
FairSpec == Spec /\ \A w \in Workers : WF_vars(Step(w))

-----------------------------------------------------------------------------
\* Properties.

Working(w) == pc[w] \notin {"idle", "lock"}

\* upload_lock does its work: a worker's session holds an advisory key exactly
\* while the session lives and the worker is inside the pipeline for that key.
\* So two live workers are never both inside for one key, and none leaks it.
Exclusive ==
    \A w \in Workers, k \in Keys :
        lock[k] = w <=> session[w] /\ Working(w) /\ KeyFor(w) = k

\* Is a row, as the owner of a target sees it, an indexed document?
Indexed(t) == HasRow(t) /\ rows[t[2]].status = "active"

\* The two stores tell the same story about a target.
InSync(t) ==
    IF Indexed(t)
    THEN /\ points[t] = Stored(rows[t[2]].body)
         /\ rows[t[2]].chunks = Cardinality(ChunksOf[rows[t[2]].body])
    ELSE points[t] = {}

Settled(t) == t \in torn \/ InSync(t)

\* Whenever nobody holds a document's lock, its row and its points agree: an
\* active row has exactly the chunks of its body, any other none.  What is
\* excepted is a document that a request left half-written, as every upload
\* that names its doc_id does, until a delete gets through (pipeline.py:271-329).
QuiescentInSync == \A t \in Targets : lock[KeyOf[t]] = Nobody => Settled(t)

Whole(t) == points[t] = {} \/ \E b \in Bodies : points[t] = Stored(b)

\* What search can find of a document is all of one body or nothing, never
\* chunks of two versions and never a part of one: for each document that has a
\* row, half-written or not, and for each that was not left half-written.  Only
\* uploads over the orphans of an upload without a row make a mixture.
NoMixture == \A t \in Targets : (t \notin torn \/ HasRow(t)) => Whole(t)

\* A "created" answer (the code's "replaced" is under the same conditions) is
\* only given when the row records the body and the points are its chunks.
StoredHonestly(w) ==
    (pc[w] = "unlock" /\ reply[w] \in {"created", "replaced"}) =>
        /\ Indexed(req[w].at) /\ rows[DocOf(w)].body = req[w].body
        /\ points[req[w].at] = Stored(req[w].body)

\* A "deleted" answer is only given when no chunk of the document is left
\* and its row says so.
DeletedHonestly(w) ==
    (pc[w] = "unlock" /\ reply[w] = "deleted") =>
        /\ points[req[w].at] = {}
        /\ HasRow(req[w].at) /\ rows[DocOf(w)].status = "deleted"

Unchanged(w) == pc[w] = "unlock" /\ reply[w] = "no_change"

\* A "no_change" that names the uploaded document itself is true of its row: the
\* content with that hash is recorded as indexed.  And its chunks are all there,
\* unless a request left the document half-written.
NoChangeHonest ==
    \A w \in Workers : (Unchanged(w) /\ hit[w] = DocOf(w)) =>
        /\ Indexed(req[w].at) /\ SameContent(rows[DocOf(w)], req[w].body)
        /\ Settled(req[w].at)

\* A row always has its bot row (the foreign key), and an active row always
\* has its collection, whatever failed before: search on it never answers
\* collection_not_initialized.
RowsAnchored ==
    \A d \in Docs : rows[d] # NoRow =>
        /\ rows[d].scope \in bots
        /\ rows[d].status = "active" => rows[d].scope \in colls

\* What a row says, its last_refreshed_at apart, the pipelines write only under
\* the lock of its document.  A worker that lost its session lost its lock with
\* it, and cannot write rows any more; a duplicate that is touched without its
\* lock (pipeline.py:164) keeps its contents, whoever deletes it meanwhile.
RowsFenced ==
    [][\A d \in Docs : (rows'[d] # NoRow /\ Entry(rows'[d]) # Entry(rows[d])) =>
          \E w \in Workers : /\ session[w] /\ Working(w)
                             /\ DocOf(w) = d /\ lock[KeyFor(w)] = w]_vars

\* "refuse to overwrite" (pipeline.py:117): a row never passes from one tenant
\* or bot to another, though the check reads the row long before the save and
\* the lock does not exclude another bot.
OwnerKept ==
    [][\A d \in Docs : (rows[d] # NoRow /\ rows'[d] # NoRow)
          => rows'[d].scope = rows[d].scope]_vars

\* Every request gets an answer, whoever else holds its lock.
EveryRequestEnds == \A w \in Workers : (pc[w] # "idle") ~> (pc[w] = "idle")

-----------------------------------------------------------------------------
\* Why these hold.

\* A row stays its owner's while a request works on it: nobody else knows the id
\* of an upload that draws it, and no request finds another's row past its check.
Kept(w) ==
    /\ Creating(w) =>
         /\ \A v \in Workers \ {w} : pc[v] # "idle" => DocOf(v) # DocOf(w)
         /\ pc[w] # "unlock" => rows[DocOf(w)] = NoRow /\ req[w].at \notin torn
         /\ pc[w] \notin {"save", "unlock"} => points[req[w].at] = {}
    /\ pc[w] \in {"match", "collection", "embed", "replace", "upsert", "save"} =>
         (rows[DocOf(w)] # NoRow => Mine(w) /\ existing[w] # NoRow)
    /\ pc[w] \in {"purge", "mark"} => (rows[DocOf(w)] # NoRow => Mine(w))

Ownership == \A w \in Workers : Kept(w)

\* How far the worker inside has got with its target; a target no worker is
\* inside for is settled.
Stage(w) ==
    LET t == req[w].at IN
      /\ pc[w] \in {"register", "read", "match", "touch", "collection", "embed",
                    "replace", "find", "purge", "unlock"} => Settled(t)
      /\ pc[w] = "upsert" => points[t] = {} \/ (t \in torn /\ existing[w] = NoRow)
      /\ pc[w] = "save" =>
            points[t] = Stored(req[w].body) \/ (t \in torn /\ existing[w] = NoRow)
      /\ pc[w] \in {"purge", "mark"} => HasRow(t)
      /\ pc[w] = "mark" => points[t] = {}

Progress ==
    /\ \A w \in Workers : session[w] /\ (Working(w) => Stage(w))
    /\ \A t \in Targets : (\A w \in Workers : Working(w) => req[w].at # t) => Settled(t)

\* Only bodies with chunks get as far as the stores.
Chunked ==
    /\ \A d \in Docs : rows[d] # NoRow => ChunksOf[rows[d].body] # {}
    /\ \A w \in Workers :
          pc[w] \in {"replace", "upsert", "save"} => ChunksOf[req[w].body] # {}

-----------------------------------------------------------------------------
\* The pipelines implement the document store: the catalogue is the active rows,
\* the index the points.
Mixture == "mixture"

ASSUME MixtureAssumption == Mixture \notin Bodies \cup {NoRow}

Recorded(t) == IF Indexed(t) THEN rows[t[2]].body ELSE NoRow

BodyOf(ps) == CHOOSE b \in Bodies : ps = Stored(b)

Found(t) == CASE points[t] = {} -> NoRow
              [] points[t] # {} /\ Whole(t) -> BodyOf(points[t])
              [] ~Whole(t) -> Mixture

Catalogue == [t \in Targets |-> Recorded(t)]
Index     == [t \in Targets |-> Found(t)]

Store == INSTANCE DocumentStore WITH
             Documents <- Targets, Absent <- NoRow, Mixed <- Mixture,
             catalogue <- Catalogue, index <- Index, broken <- torn

ImplementsStore == Store!Spec

-----------------------------------------------------------------------------
\* What the repository's documents say and the code does not do.

\* README: a 500 internal_error is an embedder or Qdrant failure.
NoInternalError == \A w \in Workers : reply[w] # "internal_error"

\* README: no_change is "Same content already exists", in the document that the
\* answer names: what is indexed of that document is that content.
ContentExists ==
    \A w \in Workers : Unchanged(w) =>
        \E b \in Bodies : /\ HashOf[b] = HashOf[req[w].body]
                          /\ points[<<ScopeOf(w), hit[w]>>] = Stored(b)

=============================================================================
