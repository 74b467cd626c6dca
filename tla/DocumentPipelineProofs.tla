----------------------- MODULE DocumentPipelineProofs -----------------------
(* Theorems about DocumentPipeline for any workers, documents, bodies,      *)
(* lock keys (colliding or not) and hashes.                                 *)
EXTENDS DocumentPipeline, FiniteSetTheorems, TLAPS

\* The chunks of a body can be counted.
LEMMA ChunkCount ==
    ASSUME NEW body \in Bodies
    PROVE  Cardinality(ChunksOf[body]) \in Nat
  <1>1. ChunksOf[body] \subseteq ChunkIds
    BY ChunkAssumption
  <1>2. IsFiniteSet(ChunksOf[body])
    BY <1>1, FS_Subset, ChunkAssumption
  <1> QED BY <1>2, FS_CardinalityType

\* What an upload writes are points.
LEMMA StoredType ==
    ASSUME NEW body \in Bodies
    PROVE  Stored(body) \in SUBSET Point
  BY ChunkAssumption DEF Stored, Point

LEMMA UpsertedType ==
    ASSUME NEW body \in Bodies, NEW old \in SUBSET Point
    PROVE  Upserted(old, body) \in SUBSET Point
  BY StoredType DEF Upserted

\* A worker with a request has a target, of a scope and a document.
LEMMA TargetType ==
    ASSUME TypeOK, NEW w \in Workers, pc[w] # "idle"
    PROVE  /\ req[w] \in Requests
           /\ req[w].at \in Targets
           /\ ScopeOf(w) \in Scopes
           /\ DocOf(w) \in Docs
           /\ KeyFor(w) \in Keys
           /\ pc[w] \in UploadSteps => req[w].body \in Bodies
  <1>1. req[w] \in Requests
    BY DEF TypeOK
  <1>2. req[w].at \in Targets
    BY <1>1 DEF Requests
  <1>3. req[w].at \in Scopes \X Docs
    BY <1>2, TargetsAssumption
  <1>4. pc[w] \in UploadSteps => req[w].body \in Bodies
    BY <1>1 DEF TypeOK, Requests
  <1> QED BY <1>1, <1>2, <1>3, <1>4, KeyAssumption DEF ScopeOf, DocOf, KeyFor

\* The row an upload saves is one.
LEMMA NewRowType ==
    ASSUME TypeOK, NEW w \in Workers, pc[w] \in UploadSteps
    PROVE  NewRow(w) \in Rows
  <1>1. /\ ScopeOf(w) \in Scopes
        /\ req[w].body \in Bodies
    BY TargetType DEF UploadSteps
  <1>2. Cardinality(ChunksOf[req[w].body]) \in Nat
    BY <1>1, ChunkCount
  <1> QED BY <1>1, <1>2 DEF NewRow, Rows

-----------------------------------------------------------------------------

\* Initially the types hold.
LEMMA TypeInit == Init => TypeOK
  BY DEF Init, TypeOK, Steps, UploadSteps, Replies

\* Ending a request keeps the worker's locals in their types.
LEMMA FinishType ==
    ASSUME TypeOK, NEW w \in Workers, Finish(w),
           rows' \in [Docs -> Rows \cup {NoRow}], bots' \in SUBSET Scopes,
           lock' \in [Keys -> Workers \cup {Nobody}],
           session' \in [Workers -> BOOLEAN],
           points' \in [Targets -> SUBSET Point], colls' \in SUBSET Scopes,
           torn' \subseteq Targets
    PROVE  TypeOK'
  BY DEF TypeOK, Finish, Steps, UploadSteps, Replies

\* So does a step that only moves the program counter within one pipeline.
LEMMA GotoType ==
    ASSUME TypeOK, NEW w \in Workers, NEW step \in Steps \ {"idle", "touch"},
           pc[w] # "idle", step \in UploadSteps => req[w].op = "upload",
           Goto(w, step),
           rows' \in [Docs -> Rows \cup {NoRow}], bots' \in SUBSET Scopes,
           lock' \in [Keys -> Workers \cup {Nobody}],
           session' \in [Workers -> BOOLEAN],
           points' \in [Targets -> SUBSET Point], colls' \in SUBSET Scopes,
           torn' \subseteq Targets
    PROVE  TypeOK'
  BY DEF TypeOK, Goto

\* So does deciding on an answer.
LEMMA AnswerType ==
    ASSUME TypeOK, NEW w \in Workers, NEW outcome \in Replies,
           pc[w] # "idle", Answer(w, outcome),
           rows' \in [Docs -> Rows \cup {NoRow}], bots' \in SUBSET Scopes,
           lock' \in [Keys -> Workers \cup {Nobody}],
           session' \in [Workers -> BOOLEAN],
           points' \in [Targets -> SUBSET Point], colls' \in SUBSET Scopes,
           torn' \subseteq Targets
    PROVE  TypeOK'
  BY DEF TypeOK, Answer, Steps, UploadSteps

\* So does ending with an error, or with the worker.
LEMMA TearType ==
    ASSUME TypeOK, NEW w \in Workers, NEW outcomes \in SUBSET Replies,
           pc[w] # "idle", Tear(w, outcomes),
           rows' \in [Docs -> Rows \cup {NoRow}], bots' \in SUBSET Scopes,
           lock' \in [Keys -> Workers \cup {Nobody}],
           session' \in [Workers -> BOOLEAN],
           points' \in [Targets -> SUBSET Point], colls' \in SUBSET Scopes
    PROVE  TypeOK'
  <1>1. PICK outcome \in Replies : Answer(w, outcome)
    BY DEF Tear
  <1>2. torn' \subseteq Targets
    BY TargetType DEF Tear, TypeOK
  <1> QED BY <1>1, <1>2, AnswerType

LEMMA DropType ==
    ASSUME TypeOK, NEW w \in Workers, pc[w] # "idle", Drop(w),
           rows' \in [Docs -> Rows \cup {NoRow}], bots' \in SUBSET Scopes,
           lock' \in [Keys -> Workers \cup {Nobody}],
           session' \in [Workers -> BOOLEAN],
           points' \in [Targets -> SUBSET Point], colls' \in SUBSET Scopes
    PROVE  TypeOK'
  <1>1. torn' \subseteq Targets
    BY TargetType DEF Drop, TypeOK
  <1> QED BY <1>1, FinishType DEF Drop

\* delete_by_doc_id keeps the types.
LEMMA PurgeType ==
    ASSUME TypeOK, NEW w \in Workers, NEW step \in Steps \ {"idle", "touch"},
           pc[w] # "idle", step \in UploadSteps => req[w].op = "upload",
           Purge(w, step)
    PROVE  TypeOK'
  <1>1. points' \in [Targets -> SUBSET Point]
    BY DEF TypeOK, Purge
  <1>2. CASE Goto(w, step)
    <2>1. torn' \subseteq Targets
      BY TargetType DEF TypeOK, Purge, Tear
    <2>2. UNCHANGED <<rows, bots, lock, session, colls>>
      BY DEF Purge, tables
    <2> QED BY <1>1, <1>2, <2>1, <2>2, GotoType DEF TypeOK
  <1>3. CASE Tear(w, QdrantFailures)
    <2>1. QdrantFailures \in SUBSET Replies
      BY DEF QdrantFailures, Replies
    <2> QED BY <1>1, <1>3, <2>1, TearType DEF TypeOK, Purge, tables
  <1> QED BY <1>2, <1>3 DEF Purge

\* Every action keeps the types.
LEMMA TypeStep == TypeOK /\ [Next]_vars => TypeOK'
  <1> SUFFICES ASSUME TypeOK, [Next]_vars
               PROVE  TypeOK'
    OBVIOUS
  <1> USE DEF tables, vectors
  <1>1. ASSUME NEW w \in Workers, NEW r \in Requests, Begin(w, r)
        PROVE  TypeOK'
    BY <1>1 DEF TypeOK, Begin, Steps, UploadSteps
  <1>2. ASSUME NEW w \in Workers, Acquire(w)
        PROVE  TypeOK'
    <2> DEFINE step == IF req[w].op = "upload" THEN "register" ELSE "find"
    <2>1. lock' \in [Keys -> Workers \cup {Nobody}]
      BY <1>2 DEF Acquire, TypeOK
    <2>2. /\ pc[w] # "idle"
          /\ step \in Steps \ {"idle", "touch"}
          /\ step \in UploadSteps => req[w].op = "upload"
      BY <1>2 DEF Acquire, Steps, UploadSteps
    <2>3. Goto(w, step)
      BY <1>2 DEF Acquire
    <2> HIDE DEF step
    <2> QED BY <1>2, <2>1, <2>2, <2>3, GotoType DEF Acquire, TypeOK
  <1>3. ASSUME NEW w \in Workers, LockTimeout(w)
        PROVE  TypeOK'
    BY <1>3, FinishType DEF LockTimeout, TypeOK
  <1>4. ASSUME NEW w \in Workers, Unlock(w)
        PROVE  TypeOK'
    <2>1. lock' \in [Keys -> Workers \cup {Nobody}]
      BY <1>4 DEF Unlock, TypeOK
    <2> QED BY <1>4, <2>1, FinishType DEF Unlock, TypeOK
  <1>5. ASSUME NEW w \in Workers, Register(w)
        PROVE  TypeOK'
    <2>1. pc[w] # "idle" /\ req[w].op = "upload"
      BY <1>5 DEF Register, TypeOK, UploadSteps
    <2>2. bots' \in SUBSET Scopes
      BY <1>5, <2>1, TargetType DEF Register, TypeOK
    <2> QED BY <1>5, <2>1, <2>2, GotoType DEF Register, TypeOK, Steps, UploadSteps
  <1>6. ASSUME NEW w \in Workers, Read(w)
        PROVE  TypeOK'
    <2>1. pc[w] # "idle" /\ req[w].op = "upload"
      BY <1>6 DEF Read, TypeOK, UploadSteps
    <2>2. DocOf(w) \in Docs
      BY <2>1, TargetType
    <2> QED BY <1>6, <2>1, <2>2 DEF Read, TypeOK, Steps, UploadSteps, Replies
  <1>7. ASSUME NEW w \in Workers, Match(w)
        PROVE  TypeOK'
    <2>1. pc[w] # "idle" /\ req[w].op = "upload"
      BY <1>7 DEF Match, TypeOK, UploadSteps
    <2> QED BY <1>7, <2>1 DEF Match, Duplicates, TypeOK, Steps, UploadSteps
  <1>8. ASSUME NEW w \in Workers, Touch(w)
        PROVE  TypeOK'
    <2>1. pc[w] # "idle" /\ hit[w] \in Docs
      BY <1>8 DEF Touch, TypeOK
    <2>2. rows' \in [Docs -> Rows \cup {NoRow}]
      <3>1. CASE UNCHANGED rows
        BY <3>1 DEF TypeOK
      <3>2. CASE rows[hit[w]] # NoRow /\ rows' = [rows EXCEPT ![hit[w]].refreshed = TRUE]
        <4>1. rows[hit[w]] \in Rows
          BY <2>1, <3>2 DEF TypeOK
        <4>2. [rows[hit[w]] EXCEPT !.refreshed = TRUE] \in Rows
          BY <4>1 DEF Rows
        <4> QED BY <2>1, <3>2, <4>2 DEF TypeOK
      <3> QED BY <1>8, <3>1, <3>2 DEF Touch
    <2>3. \E outcome \in Replies : Answer(w, outcome)
      BY <1>8 DEF Touch, Replies
    <2> QED BY <1>8, <2>1, <2>2, <2>3, AnswerType DEF Touch, TypeOK
  <1>9. ASSUME NEW w \in Workers, EnsureCollection(w)
        PROVE  TypeOK'
    <2>1. pc[w] # "idle" /\ req[w].op = "upload"
      BY <1>9 DEF EnsureCollection, TypeOK, UploadSteps
    <2>2. colls' \in SUBSET Scopes
      BY <1>9, <2>1, TargetType DEF EnsureCollection, TypeOK
    <2>3. CASE Goto(w, "embed")
      BY <1>9, <2>1, <2>2, <2>3, GotoType DEF EnsureCollection, TypeOK, Steps, UploadSteps
    <2>4. ASSUME NEW outcome \in Replies, Answer(w, outcome)
          PROVE  TypeOK'
      BY <1>9, <2>1, <2>2, <2>4, AnswerType DEF EnsureCollection, TypeOK
    <2> QED BY <1>9, <2>3, <2>4 DEF EnsureCollection, QdrantFailures, Replies
  <1>10. ASSUME NEW w \in Workers, Embed(w)
         PROVE  TypeOK'
    <2>1. pc[w] # "idle" /\ req[w].op = "upload"
      BY <1>10 DEF Embed, TypeOK, UploadSteps
    <2>2. ASSUME NEW outcome \in Replies, Answer(w, outcome)
          PROVE  TypeOK'
      BY <1>10, <2>1, <2>2, AnswerType DEF Embed, TypeOK
    <2>3. ASSUME NEW step \in {"replace", "upsert"}, Goto(w, step)
          PROVE  TypeOK'
      BY <1>10, <2>1, <2>3, GotoType DEF Embed, TypeOK, Steps, UploadSteps
    <2> QED BY <1>10, <2>2, <2>3 DEF Embed, Replies
  <1>11. ASSUME NEW w \in Workers, Replace(w)
         PROVE  TypeOK'
    BY <1>11, PurgeType DEF Replace, TypeOK, Steps, UploadSteps
  <1>12. ASSUME NEW w \in Workers, Upsert(w)
         PROVE  TypeOK'
    <2>1. pc[w] # "idle" /\ req[w].op = "upload"
      BY <1>12 DEF Upsert, TypeOK, UploadSteps
    <2>2. req[w].at \in Targets /\ req[w].body \in Bodies
      BY <1>12, <2>1, TargetType DEF Upsert, UploadSteps
    <2>3. Upserted(points[req[w].at], req[w].body) \in SUBSET Point
      BY <2>2, UpsertedType DEF TypeOK
    <2>4. points' \in [Targets -> SUBSET Point]
      BY <1>12, <2>3 DEF Upsert, TypeOK
    <2>5. CASE Goto(w, "save")
      <3>1. torn' \subseteq Targets
        BY <1>12, <2>2 DEF Upsert, Tear, TypeOK
      <3> QED BY <1>12, <2>1, <2>4, <2>5, <3>1, GotoType DEF Upsert, TypeOK, Steps, UploadSteps
    <2>6. CASE Tear(w, {"qdrant_write_failed"})
      BY <1>12, <2>1, <2>4, <2>6, TearType DEF Upsert, TypeOK, Replies
    <2> QED BY <1>12, <2>5, <2>6 DEF Upsert
  <1>13. ASSUME NEW w \in Workers, Save(w)
         PROVE  TypeOK'
    <2>1. pc[w] # "idle" /\ pc[w] \in UploadSteps
      BY <1>13 DEF Save, UploadSteps
    <2>2. rows' \in [Docs -> Rows \cup {NoRow}]
      <3>1. rows' = rows \/ rows' = [rows EXCEPT ![DocOf(w)] = NewRow(w)]
        BY <1>13 DEF Save
      <3>2. NewRow(w) \in Rows /\ DocOf(w) \in Docs
        BY <2>1, NewRowType, TargetType
      <3> QED BY <3>1, <3>2 DEF TypeOK
    <2>3. \E outcome \in Replies : Answer(w, outcome)
      BY <1>13 DEF Save, Tear, Replies
    <2>4. torn' \subseteq Targets
      BY <1>13, <2>1, TargetType DEF Save, Tear, TypeOK
    <2> QED BY <1>13, <2>1, <2>2, <2>3, <2>4, AnswerType DEF Save, TypeOK
  <1>14. ASSUME NEW w \in Workers, Find(w)
         PROVE  TypeOK'
    <2>1. pc[w] # "idle" /\ DocOf(w) \in Docs
      BY <1>14, TargetType DEF Find
    <2> QED BY <1>14, <2>1 DEF Find, Answer, TypeOK, Steps, UploadSteps, Replies
  <1>15. ASSUME NEW w \in Workers, DeleteChunks(w)
         PROVE  TypeOK'
    BY <1>15, PurgeType DEF DeleteChunks, Steps, UploadSteps
  <1>16. ASSUME NEW w \in Workers, Mark(w)
         PROVE  TypeOK'
    <2>1. pc[w] # "idle" /\ DocOf(w) \in Docs
      BY <1>16, TargetType DEF Mark
    <2>2. rows' \in [Docs -> Rows \cup {NoRow}]
      BY <1>16, <2>1 DEF Mark, TypeOK, Rows
    <2>3. \E outcome \in Replies : Answer(w, outcome)
      BY <1>16 DEF Mark, Tear, Replies
    <2>4. torn' \subseteq Targets
      BY <1>16, <2>1, TargetType DEF Mark, Tear, TypeOK
    <2> QED BY <1>16, <2>1, <2>2, <2>3, <2>4, AnswerType DEF Mark, TypeOK
  <1>17. ASSUME NEW w \in Workers, DbFails(w)
         PROVE  TypeOK'
    BY <1>17, DropType DEF DbFails, TypeOK
  <1>18. ASSUME NEW w \in Workers, SessionLost(w)
         PROVE  TypeOK'
    BY <1>18 DEF SessionLost, ReleaseAll, TypeOK, locals
  <1>19. ASSUME NEW w \in Workers, Crash(w)
         PROVE  TypeOK'
    <2>1. lock' \in [Keys -> Workers \cup {Nobody}]
      BY <1>19 DEF Crash, ReleaseAll, TypeOK
    <2> QED BY <1>19, <2>1, DropType DEF Crash, TypeOK
  <1>20. ASSUME NEW d \in Docs, AdminDelete(d)
         PROVE  TypeOK'
    BY <1>20 DEF AdminDelete, TypeOK, locals
  <1>21. CASE UNCHANGED vars
    BY <1>21 DEF vars, locals, TypeOK
  <1> QED
    BY <1>1, <1>2, <1>3, <1>4, <1>5, <1>6, <1>7, <1>8, <1>9, <1>10, <1>11, <1>12,
       <1>13, <1>14, <1>15, <1>16, <1>17, <1>18, <1>19, <1>20, <1>21
       DEF Next, Step, LockStep, UploadStep, DeleteStep, Disturbance

\* Type correctness, whatever fails.
THEOREM TypeCorrect == Spec => []TypeOK
  BY TypeInit, TypeStep, PTL DEF Spec

-----------------------------------------------------------------------------

\* A step inside a pipeline changes neither locks nor sessions nor requests,
\* and leaves its worker inside.
LEMMA PipelineStep ==
    ASSUME TypeOK, NEW w \in Workers, UploadStep(w) \/ DeleteStep(w)
    PROVE  /\ UNCHANGED <<lock, session, req>>
           /\ Working(w) /\ pc[w] # "unlock"
           /\ \E step \in Steps \ {"idle", "lock"} : pc' = [pc EXCEPT ![w] = step]
  <1> USE DEF Working, Steps, UploadSteps, Goto, Answer, Tear, TypeOK
  <1>1. CASE Register(w) \/ Read(w) \/ Match(w)
    BY <1>1 DEF Register, Read, Match
  <1>2. CASE Touch(w) \/ EnsureCollection(w)
    BY <1>2 DEF Touch, EnsureCollection
  <1>3. CASE Embed(w)
    BY <1>3 DEF Embed
  <1>4. CASE Replace(w) \/ DeleteChunks(w)
    BY <1>4 DEF Replace, DeleteChunks, Purge
  <1>5. CASE Upsert(w) \/ Save(w)
    BY <1>5 DEF Upsert, Save
  <1>6. CASE Find(w) \/ Mark(w)
    BY <1>6 DEF Find, Mark
  <1> QED BY <1>1, <1>2, <1>3, <1>4, <1>5, <1>6 DEF UploadStep, DeleteStep

LEMMA ExclusiveInit == Init => Exclusive
  BY NullAssumption DEF Init, Exclusive, Working

\* Only the step that enters a pipeline takes a lock, and whatever ends the
\* session or leaves the pipeline frees it.
LEMMA ExclusiveStep == TypeOK /\ Exclusive /\ [Next]_vars => Exclusive'
  <1> SUFFICES ASSUME TypeOK, Exclusive, [Next]_vars
               PROVE  Exclusive'
    OBVIOUS
  <1> USE DEF Exclusive, Working, KeyFor
  <1>1. ASSUME NEW w \in Workers, NEW r \in Requests, Begin(w, r)
        PROVE  Exclusive'
    BY <1>1 DEF Begin, TypeOK
  <1>2. ASSUME NEW w \in Workers, Acquire(w)
        PROVE  Exclusive'
    <2>1. KeyFor(w) \in Keys
      BY <1>2, TargetType DEF Acquire
    <2> QED BY <1>2, <2>1, NullAssumption DEF Acquire, Goto, TypeOK
  <1>3. ASSUME NEW w \in Workers, LockTimeout(w)
        PROVE  Exclusive'
    BY <1>3 DEF LockTimeout, Finish, TypeOK
  <1>4. ASSUME NEW w \in Workers, Unlock(w)
        PROVE  Exclusive'
    <2>1. KeyFor(w) \in Keys
      BY <1>4, TargetType DEF Unlock
    <2>2. lock[KeyFor(w)] = w
      BY <1>4, <2>1 DEF Unlock
    <2> QED BY <1>4, <2>1, <2>2, NullAssumption DEF Unlock, Finish, TypeOK
  <1>5. ASSUME NEW w \in Workers, UploadStep(w) \/ DeleteStep(w)
        PROVE  Exclusive'
    BY <1>5, PipelineStep DEF TypeOK
  <1>6. ASSUME NEW w \in Workers, DbFails(w)
        PROVE  Exclusive'
    BY <1>6 DEF DbFails, Drop, Finish, TypeOK
  <1>7. ASSUME NEW w \in Workers, SessionLost(w)
        PROVE  Exclusive'
    BY <1>7, NullAssumption DEF SessionLost, ReleaseAll, locals, TypeOK
  <1>8. ASSUME NEW w \in Workers, Crash(w)
        PROVE  Exclusive'
    BY <1>8, NullAssumption DEF Crash, ReleaseAll, Drop, Finish, TypeOK
  <1>9. ASSUME NEW d \in Docs, AdminDelete(d)
        PROVE  Exclusive'
    BY <1>9 DEF AdminDelete, locals
  <1>10. CASE UNCHANGED vars
    BY <1>10 DEF vars, locals
  <1> QED
    BY <1>1, <1>2, <1>3, <1>4, <1>5, <1>6, <1>7, <1>8, <1>9, <1>10
       DEF Next, Step, LockStep, Disturbance

\* The advisory lock table is exactly the set of live workers inside a
\* pipeline, whatever fails.
THEOREM LockTableCorrect == Spec => []Exclusive
  BY TypeInit, TypeStep, ExclusiveInit, ExclusiveStep, PTL DEF Spec

-----------------------------------------------------------------------------
\* What a step does to the rows.

\* The two steps that change what a row says.
Saves(w, d) ==
    /\ Save(w) /\ ~req[w].named
    /\ d = DocOf(w) /\ rows'[d] = NewRow(w)

Marks(w, d) ==
    /\ Mark(w)
    /\ d = DocOf(w) /\ rows[d] # NoRow /\ rows'[d] \in Rows
    /\ rows'[d].scope = rows[d].scope /\ rows'[d].body = rows[d].body
    /\ rows'[d].status = "deleted" /\ rows'[d].chunks = 0

\* A row says the same, its last_refreshed_at apart.
Alike(d) ==
    /\ rows'[d] = NoRow <=> rows[d] = NoRow
    /\ rows[d] # NoRow =>
         /\ rows'[d].scope = rows[d].scope /\ rows'[d].body = rows[d].body
         /\ rows'[d].status = rows[d].status /\ rows'[d].chunks = rows[d].chunks

LEMMA SavesRow ==
    ASSUME TypeOK, NEW w \in Workers, Save(w), ~req[w].named
    PROVE  /\ rows' = [rows EXCEPT ![DocOf(w)] = NewRow(w)] => Saves(w, DocOf(w))
           /\ NewRow(w) \in Rows
  <1>1. DocOf(w) \in Docs /\ NewRow(w) \in Rows
    BY TargetType, NewRowType DEF Save, UploadSteps
  <1> QED BY <1>1 DEF Saves, TypeOK

LEMMA MarksRow ==
    ASSUME TypeOK, NEW w \in Workers, Mark(w), rows[DocOf(w)] # NoRow,
           rows' = [rows EXCEPT ![DocOf(w)].status = "deleted",
                                ![DocOf(w)].chunks = 0,
                                ![DocOf(w)].refreshed = TRUE]
    PROVE  Marks(w, DocOf(w))
  <1>1. DocOf(w) \in Docs
    BY TargetType DEF Mark
  <1>2. rows[DocOf(w)] \in Rows
    BY <1>1 DEF TypeOK
  <1>3. rows'[DocOf(w)] = [scope     |-> rows[DocOf(w)].scope,
                           body      |-> rows[DocOf(w)].body,
                           chunks    |-> 0,
                           status    |-> "deleted",
                           refreshed |-> TRUE]
    BY <1>1, <1>2 DEF TypeOK, Rows
  <1>4. rows'[DocOf(w)] \in Rows
    <2>1. rows[DocOf(w)].scope \in Scopes /\ rows[DocOf(w)].body \in Bodies
      BY <1>2 DEF Rows
    <2>2. \A s \in Scopes, b \in Bodies :
             [scope |-> s, body |-> b, chunks |-> 0, status |-> "deleted", refreshed |-> TRUE] \in Rows
      BY DEF Rows
    <2> QED BY <1>3, <2>1, <2>2
  <1>5. /\ rows'[DocOf(w)].scope = rows[DocOf(w)].scope
        /\ rows'[DocOf(w)].body = rows[DocOf(w)].body
        /\ rows'[DocOf(w)].status = "deleted" /\ rows'[DocOf(w)].chunks = 0
    BY <1>3
  <1> QED BY <1>4, <1>5 DEF Marks

LEMMA TouchAlike ==
    ASSUME TypeOK, NEW w \in Workers, Touch(w), NEW d \in Docs
    PROVE  Alike(d) /\ Entry(rows'[d]) = Entry(rows[d])
  <1>1. CASE rows'[d] = rows[d]
    BY <1>1 DEF Alike
  <1>2. CASE rows'[d] # rows[d]
    <2>1. hit[w] = d /\ rows[d] \in Rows /\ rows'[d] = [rows[d] EXCEPT !.refreshed = TRUE]
      BY <1>2 DEF Touch, TypeOK
    <2>2. rows'[d] \in Rows
      BY <2>1 DEF Rows
    <2>3. rows[d] # NoRow /\ rows'[d] # NoRow
      BY <2>1, <2>2, NullAssumption
    <2>4. Entry(rows'[d]) = Entry(rows[d])
      BY <2>1, <2>3 DEF Entry, Rows
    <2>5. /\ rows'[d].scope = rows[d].scope /\ rows'[d].body = rows[d].body
          /\ rows'[d].status = rows[d].status /\ rows'[d].chunks = rows[d].chunks
      BY <2>1 DEF Rows
    <2> QED BY <2>3, <2>4, <2>5 DEF Alike
  <1> QED BY <1>1, <1>2

\* Save and Mark apart, the pipelines change no row but for last_refreshed_at.
LEMMA PipelineRows ==
    ASSUME TypeOK, NEW w \in Workers, UploadStep(w) \/ DeleteStep(w), NEW d \in Docs
    PROVE  Alike(d) \/ Saves(w, d) \/ Marks(w, d)
  <1> USE DEF tables
  <1>1. CASE rows'[d] = rows[d]
    BY <1>1 DEF Alike
  <1>2. CASE rows'[d] # rows[d]
    <2>1. rows' # rows
      BY <1>2
    <2>2. ~(Register(w) \/ Read(w) \/ Match(w) \/ EnsureCollection(w) \/ Embed(w) \/ Find(w))
      BY <2>1 DEF Register, Read, Match, EnsureCollection, Embed, Find
    <2>3. ~(Replace(w) \/ Upsert(w) \/ DeleteChunks(w))
      BY <2>1 DEF Replace, Upsert, DeleteChunks, Purge
    <2>4. CASE Save(w)
      <3>1. ~req[w].named /\ rows' = [rows EXCEPT ![DocOf(w)] = NewRow(w)]
        BY <2>1, <2>4 DEF Save
      <3>2. d = DocOf(w)
        BY <1>2, <3>1 DEF TypeOK
      <3> QED BY <2>4, <3>1, <3>2, SavesRow
    <2>5. CASE Mark(w)
      <3>1. /\ rows[DocOf(w)] # NoRow
            /\ rows' = [rows EXCEPT ![DocOf(w)].status = "deleted",
                                    ![DocOf(w)].chunks = 0,
                                    ![DocOf(w)].refreshed = TRUE]
        BY <2>1, <2>5 DEF Mark
      <3>2. d = DocOf(w)
        BY <1>2, <3>1 DEF TypeOK
      <3> QED BY <2>5, <3>1, <3>2, MarksRow
    <2> QED BY <2>2, <2>3, <2>4, <2>5, TouchAlike DEF UploadStep, DeleteStep
  <1> QED BY <1>1, <1>2

LEMMA RowsChange ==
    ASSUME TypeOK, [Next]_vars, NEW d \in Docs
    PROVE  \/ Alike(d)
           \/ rows'[d] = NoRow /\ "admin" \in Faults
           \/ \E w \in Workers : Saves(w, d) \/ Marks(w, d)
  <1> USE DEF tables
  <1>1. CASE UNCHANGED rows
    BY <1>1 DEF Alike
  <1>2. ASSUME NEW w \in Workers, LockStep(w) \/ DbFails(w) \/ SessionLost(w) \/ Crash(w)
        PROVE  UNCHANGED rows
    BY <1>2 DEF LockStep, Acquire, LockTimeout, Unlock, DbFails, SessionLost, Crash
  <1>3. ASSUME NEW w \in Workers, NEW r \in Requests, Begin(w, r)
        PROVE  UNCHANGED rows
    BY <1>3 DEF Begin
  <1>4. ASSUME NEW e \in Docs, AdminDelete(e)
        PROVE  Alike(d) \/ (rows'[d] = NoRow /\ "admin" \in Faults)
    BY <1>4 DEF AdminDelete, TypeOK, Alike
  <1>5. CASE UNCHANGED vars
    BY <1>1, <1>5 DEF vars
  <1> QED BY <1>1, <1>2, <1>3, <1>4, <1>5, PipelineRows DEF Next, Step, Disturbance

\* Contents of rows are only written by a live worker that holds the lock of the
\* document, even when sessions are cut, workers killed and rows deleted by an
\* operator; a touch without the lock writes last_refreshed_at and nothing else.
THEOREM RowWritesFenced == Spec => RowsFenced
  <1> DEFINE Fenced(d) ==
        \E w \in Workers : /\ session[w] /\ Working(w)
                           /\ DocOf(w) = d /\ lock[KeyFor(w)] = w
             Written(d) == rows'[d] # NoRow /\ Entry(rows'[d]) # Entry(rows[d])
  <1>1. ASSUME TypeOK, Exclusive, Next, NEW d \in Docs, Written(d)
        PROVE  Fenced(d)
    <2>1. PICK w \in Workers : (Save(w) \/ Mark(w)) /\ rows' # rows
      <3> USE DEF tables
      <3>1. rows' # rows
        BY <1>1
      <3>2. ASSUME NEW w \in Workers, LockStep(w) \/ DbFails(w) \/ SessionLost(w) \/ Crash(w)
            PROVE  UNCHANGED rows
        BY <3>2 DEF LockStep, Acquire, LockTimeout, Unlock, DbFails, SessionLost, Crash
      <3>3. ASSUME NEW w \in Workers, NEW r \in Requests, Begin(w, r)
            PROVE  UNCHANGED rows
        BY <3>3 DEF Begin
      <3>4. ASSUME NEW w \in Workers,
                   Register(w) \/ Read(w) \/ Match(w) \/ EnsureCollection(w) \/ Embed(w) \/ Find(w)
            PROVE  UNCHANGED rows
        BY <3>4 DEF Register, Read, Match, EnsureCollection, Embed, Find
      <3>5. ASSUME NEW w \in Workers, Replace(w) \/ Upsert(w) \/ DeleteChunks(w)
            PROVE  UNCHANGED rows
        BY <3>5 DEF Replace, Upsert, DeleteChunks, Purge
      <3>6. \A w \in Workers : ~Touch(w)
        BY <1>1, TouchAlike
      <3>7. ASSUME NEW e \in Docs, AdminDelete(e)
            PROVE  rows'[d] = rows[d] \/ rows'[d] = NoRow
        BY <3>7 DEF AdminDelete, TypeOK
      <3> QED BY <1>1, <3>1, <3>2, <3>3, <3>4, <3>5, <3>6, <3>7
              DEF Next, Step, UploadStep, DeleteStep, Disturbance
    <2>2. /\ pc[w] \in {"save", "mark"} /\ session[w]
          /\ \E row : rows' = [rows EXCEPT ![DocOf(w)] = row]
      BY <2>1 DEF Save, Mark
    <2>3. DocOf(w) = d
      BY <1>1, <2>2 DEF TypeOK
    <2>4. Working(w) /\ KeyFor(w) \in Keys
      BY <1>1, <2>2, TargetType DEF Working
    <2> QED BY <1>1, <2>2, <2>3, <2>4 DEF Exclusive
  <1>2. TypeOK /\ Exclusive /\ [Next]_vars => [\A d \in Docs : Written(d) => Fenced(d)]_vars
    BY <1>1
  <1> QED
    BY <1>2, TypeInit, TypeStep, ExclusiveInit, ExclusiveStep, PTL DEF Spec, RowsFenced

-----------------------------------------------------------------------------
\* A row stays its owner's.

\* A step inside a pipeline changes nothing of other workers, nor of other targets
\* but for what a touch refreshes.
LEMMA StepLocal ==
    ASSUME TypeOK, NEW w \in Workers, UploadStep(w) \/ DeleteStep(w)
    PROVE  /\ \A v \in Workers \ {w} : UNCHANGED <<pc[v], existing[v], hit[v], reply[v]>>
           /\ \A t \in Targets \ {req[w].at} : /\ points'[t] = points[t]
                                               /\ t \in torn' <=> t \in torn
  <1> USE DEF Goto, Answer, Tear, vectors, TypeOK
  <1>1. CASE Register(w) \/ Read(w) \/ Match(w)
    BY <1>1 DEF Register, Read, Match
  <1>2. CASE Touch(w) \/ EnsureCollection(w)
    BY <1>2 DEF Touch, EnsureCollection
  <1>3. CASE Embed(w)
    BY <1>3 DEF Embed
  <1>4. CASE Replace(w) \/ DeleteChunks(w)
    BY <1>4 DEF Replace, DeleteChunks, Purge
  <1>5. CASE Upsert(w)
    BY <1>5 DEF Upsert
  <1>6. CASE Save(w)
    BY <1>6 DEF Save
  <1>7. CASE Find(w)
    BY <1>7 DEF Find
  <1>8. CASE Mark(w)
    BY <1>8 DEF Mark
  <1> QED BY <1>1, <1>2, <1>3, <1>4, <1>5, <1>6, <1>7, <1>8 DEF UploadStep, DeleteStep

LEMMA DropLocal ==
    ASSUME TypeOK, NEW w \in Workers, Drop(w)
    PROVE  /\ pc'[w] = "idle"
           /\ \A v \in Workers \ {w} : UNCHANGED <<pc[v], req[v], existing[v], hit[v], reply[v]>>
           /\ torn' = torn \/ (Midway(w) /\ torn' = torn \cup {req[w].at})
  BY DEF Drop, Finish, TypeOK

LEMMA OwnershipInit == Init => Ownership
  BY DEF Init, Ownership, Kept, Creating

\* No row appears or changes hands, but under the id a worker has just drawn.
Stays(d) == rows'[d] # NoRow => rows[d] # NoRow /\ rows'[d].scope = rows[d].scope

RowStays(d) == Stays(d) \/ \E w \in Workers : Saves(w, d) /\ Creating(w)

LEMMA RowsStay ==
    ASSUME TypeOK, [Next]_vars, NEW d \in Docs
    PROVE  RowStays(d)
  <1>1. ASSUME NEW w \in Workers, Saves(w, d)
        PROVE  Creating(w)
    BY <1>1 DEF Saves, Save, Creating, Fresh, TypeOK, UploadSteps
  <1> QED BY <1>1, RowsChange DEF Alike, Marks, Stays, RowStays

\* What a worker relies on outlasts the steps of others.
LEMMA KeptFrame ==
    ASSUME TypeOK, Ownership, \A d \in Docs : RowStays(d),
           NEW w \in Workers, NEW v \in Workers \ {w}, pc[v] # "idle",
           UNCHANGED <<pc[v], req[v], existing[v]>>,
           \A u \in Workers \ {w} : UNCHANGED <<pc[u], req[u]>>,
           UNCHANGED req[w] \/ pc'[w] = "idle",
           pc[w] = "idle" => pc'[w] = "idle",
           \A t \in Targets \ {req[w].at} : points'[t] = points[t] /\ (t \in torn' <=> t \in torn),
           pc[w] = "idle" => UNCHANGED <<points, torn>>
    PROVE  Kept(v)'
  <1>1. /\ Kept(v) /\ DocOf(v) \in Docs /\ req[v].at \in Targets
        /\ DocOf(v)' = DocOf(v) /\ Creating(v)' = Creating(v)
    BY TargetType DEF Ownership, DocOf, Creating
  <1>2. ASSUME NEW u \in Workers, Creating(u), u # v
        PROVE  DocOf(v) # DocOf(u)
    BY <1>2 DEF Ownership, Kept
  <1>3. Stays(DocOf(v)) \/ (Creating(v) /\ Saves(v, DocOf(v)))
    BY <1>1, <1>2 DEF Saves, RowStays
  <1>4. ~Saves(v, DocOf(v))
    BY DEF Saves, Save, Answer, Tear, TypeOK
  <1>5. ASSUME Creating(v)
        PROVE  /\ \A u \in Workers \ {v} : pc'[u] # "idle" => DocOf(u)' # DocOf(v)
               /\ pc[v] # "unlock" => rows'[DocOf(v)] = NoRow /\ req[v].at \notin torn'
               /\ pc[v] \notin {"save", "unlock"} => points'[req[v].at] = {}
    <2>1. \A u \in Workers \ {v} : pc'[u] # "idle" => DocOf(u)' # DocOf(v)
      BY <1>1, <1>5 DEF Kept, DocOf
    <2>2. pc[w] # "idle" => req[v].at # req[w].at
      BY <1>1, <1>5 DEF Kept, DocOf
    <2>3. /\ points'[req[v].at] = points[req[v].at]
          /\ req[v].at \in torn' <=> req[v].at \in torn
      BY <1>1, <2>2
    <2> QED BY <1>1, <1>3, <1>4, <1>5, <2>1, <2>3 DEF Kept, Stays
  <1>6. rows'[DocOf(v)] # NoRow => rows[DocOf(v)] # NoRow /\ (Mine(v) => Mine(v)')
    BY <1>1, <1>3, <1>4 DEF Stays, Mine, HasRow, DocOf
  <1> QED BY <1>1, <1>5, <1>6 DEF Kept

\* And its own step leaves it with what its next step relies on.
LEMMA KeptStep ==
    ASSUME TypeOK, Ownership, NEW w \in Workers, UploadStep(w) \/ DeleteStep(w)
    PROVE  Kept(w)'
  <1>1. /\ UNCHANGED req /\ pc[w] # "idle" /\ Kept(w)
        /\ req[w].at \in Targets /\ DocOf(w) \in Docs
        /\ DocOf(w)' = DocOf(w) /\ (Creating(w)' => Creating(w))
        /\ \A v \in Workers \ {w} : pc'[v] = pc[v] /\ DocOf(v)' = DocOf(v)
    BY PipelineStep, StepLocal, TargetType DEF Working, Ownership, DocOf, Creating
  <1>2. Creating(w)' => \A v \in Workers \ {w} : pc'[v] # "idle" => DocOf(v)' # DocOf(w)'
    BY <1>1 DEF Kept
  \* It answers: nothing else is left to rely on.
  <1>3. ASSUME pc'[w] = "unlock"
        PROVE  Kept(w)'
    BY <1>2, <1>3 DEF Kept
  \* It leaves row and points alone, and reads nothing.
  <1>4. ASSUME UNCHANGED <<rows, torn>>,
               points'[req[w].at] = points[req[w].at] \/ points'[req[w].at] = {} \/ pc'[w] = "save",
               pc[w] = "save" => pc'[w] \in {"save", "unlock"},
               pc[w] # "unlock",
               pc'[w] \in {"match", "collection", "embed", "replace", "upsert", "save"} =>
                   (rows[DocOf(w)] # NoRow => Mine(w) /\ existing'[w] # NoRow),
               pc'[w] \in {"purge", "mark"} => (rows[DocOf(w)] # NoRow => Mine(w))
        PROVE  Kept(w)'
    <2>1. Mine(w)' <=> Mine(w)
      BY <1>1, <1>4 DEF Mine, HasRow
    <2>2. Creating(w)' =>
            /\ rows'[DocOf(w)] = NoRow /\ req[w].at \notin torn'
            /\ pc'[w] \notin {"save", "unlock"} => points'[req[w].at] = {}
      BY <1>1, <1>4 DEF Kept
    <2> QED BY <1>1, <1>2, <1>4, <2>1, <2>2 DEF Kept
  <1> USE DEF tables, vectors, Goto, Answer, TypeOK
  <1>5. CASE Register(w)
    BY <1>4, <1>5 DEF Register
  <1>6. CASE Read(w)
    <2>1. CASE pc'[w] = "unlock"
      BY <1>3, <2>1
    <2>2. CASE pc'[w] # "unlock"
      BY <1>4, <1>6, <2>2 DEF Read
    <2> QED BY <2>1, <2>2
  <1>7. CASE Match(w)
    <2>1. /\ UNCHANGED <<rows, torn, points, existing>> /\ pc[w] = "match"
          /\ pc'[w] \in {"touch", "collection"}
      BY <1>7 DEF Match
    <2>2. rows[DocOf(w)] # NoRow => Mine(w) /\ existing'[w] # NoRow
      BY <1>1, <2>1 DEF Kept
    <2> HIDE DEF TypeOK
    <2> QED BY <1>4, <2>1, <2>2
  <1>8. CASE Touch(w)
    BY <1>3, <1>8 DEF Touch
  <1>9. CASE EnsureCollection(w)
    <2>1. UNCHANGED <<rows, torn, points, existing>> /\ pc[w] = "collection"
      BY <1>9 DEF EnsureCollection
    <2>2. rows[DocOf(w)] # NoRow => Mine(w) /\ existing'[w] # NoRow
      BY <1>1, <2>1 DEF Kept
    <2>3. pc'[w] \in {"embed", "unlock"}
      BY <1>9 DEF EnsureCollection
    <2> HIDE DEF TypeOK
    <2>4. CASE pc'[w] = "embed"
      BY <1>4, <2>1, <2>2, <2>4
    <2> QED BY <1>3, <2>3, <2>4
  <1>10. CASE Embed(w)
    <2>1. UNCHANGED <<rows, torn, points, existing>> /\ pc[w] = "embed"
      BY <1>10 DEF Embed
    <2>2. rows[DocOf(w)] # NoRow => Mine(w) /\ existing'[w] # NoRow
      BY <1>1, <2>1 DEF Kept
    <2>3. pc'[w] \in {"replace", "upsert", "unlock"}
      BY <1>10 DEF Embed
    <2> HIDE DEF TypeOK
    <2>4. CASE pc'[w] \in {"replace", "upsert"}
      BY <1>4, <2>1, <2>2, <2>4
    <2> QED BY <1>3, <2>3, <2>4
  <1>11. CASE Replace(w)
    <2>1. CASE Goto(w, "upsert") /\ UNCHANGED torn
      <3>1. UNCHANGED <<rows, torn, existing>> /\ pc[w] = "replace" /\ pc'[w] = "upsert"
        BY <1>11, <2>1 DEF Replace, Purge
      <3>2. points'[req[w].at] = points[req[w].at] \/ points'[req[w].at] = {}
        BY <1>1, <1>11 DEF Replace, Purge
      <3>3. rows[DocOf(w)] # NoRow => Mine(w) /\ existing'[w] # NoRow
        BY <1>1, <3>1 DEF Kept
      <3> QED BY <1>4, <3>1, <3>2, <3>3
    <2>2. CASE pc'[w] = "unlock"
      BY <1>3, <2>2
    <2> QED BY <1>11, <2>1, <2>2 DEF Replace, Purge, Tear
  <1>12. CASE Upsert(w)
    <2>1. CASE Goto(w, "save") /\ UNCHANGED torn
      <3>1. UNCHANGED <<rows, torn, existing>> /\ pc[w] = "upsert" /\ pc'[w] = "save"
        BY <1>12, <2>1 DEF Upsert
      <3>2. rows[DocOf(w)] # NoRow => Mine(w) /\ existing'[w] # NoRow
        BY <1>1, <3>1 DEF Kept
      <3> QED BY <1>4, <3>1, <3>2
    <2>2. CASE pc'[w] = "unlock"
      BY <1>3, <2>2
    <2> QED BY <1>12, <2>1, <2>2 DEF Upsert, Tear
  <1>13. CASE Save(w)
    BY <1>3, <1>13 DEF Save, Tear
  <1>14. CASE Find(w)
    <2>1. CASE pc'[w] = "unlock"
      BY <1>3, <2>1
    <2>2. CASE pc'[w] # "unlock"
      BY <1>4, <1>14, <2>2 DEF Find
    <2> QED BY <2>1, <2>2
  <1>15. CASE DeleteChunks(w)
    <2>1. CASE Goto(w, "mark") /\ UNCHANGED torn
      <3>1. UNCHANGED <<rows, torn, existing>> /\ pc[w] = "purge" /\ pc'[w] = "mark"
        BY <1>15, <2>1 DEF DeleteChunks, Purge
      <3>2. points'[req[w].at] = points[req[w].at] \/ points'[req[w].at] = {}
        BY <1>1, <1>15 DEF DeleteChunks, Purge
      <3>3. rows[DocOf(w)] # NoRow => Mine(w)
        BY <1>1, <3>1 DEF Kept
      <3> QED BY <1>4, <3>1, <3>2, <3>3
    <2>2. CASE pc'[w] = "unlock"
      BY <1>3, <2>2
    <2> QED BY <1>15, <2>1, <2>2 DEF DeleteChunks, Purge, Tear
  <1>16. CASE Mark(w)
    BY <1>3, <1>16 DEF Mark, Tear
  <1> QED BY <1>5, <1>6, <1>7, <1>8, <1>9, <1>10, <1>11, <1>12, <1>13, <1>14, <1>15, <1>16
          DEF UploadStep, DeleteStep

LEMMA OwnershipStep == TypeOK /\ Ownership /\ [Next]_vars => Ownership'
  <1> SUFFICES ASSUME TypeOK, Ownership, [Next]_vars
               PROVE  Ownership'
    OBVIOUS
  <1> USE DEF tables, vectors
  \* A worker without a request relies on nothing.
  <1>1. ASSUME NEW v \in Workers, pc'[v] = "idle"
        PROVE  Kept(v)'
    BY <1>1 DEF Kept, Creating
  \* A step of one worker, or of none.
  <1>2. ASSUME NEW w \in Workers, Kept(w)', pc[w] # "idle",
               \A u \in Workers \ {w} : UNCHANGED <<pc[u], req[u], existing[u]>>,
               UNCHANGED req[w] \/ pc'[w] = "idle",
               \A t \in Targets \ {req[w].at} :
                   points'[t] = points[t] /\ (t \in torn' <=> t \in torn)
        PROVE  Ownership'
    <2>1. ASSUME NEW v \in Workers, v # w
          PROVE  Kept(v)'
      <3>1. CASE pc'[v] = "idle"
        BY <1>1, <3>1
      <3>2. CASE pc'[v] # "idle"
        BY <1>2, <2>1, <3>2, KeptFrame, RowsStay
      <3> QED BY <3>1, <3>2
    <2> QED BY <1>2, <2>1 DEF Ownership
  <1>3. ASSUME UNCHANGED <<pc, req, existing, points, torn>>,
               \A d \in Docs : rows'[d] = rows[d] \/ rows'[d] = NoRow
        PROVE  Ownership'
    <2> SUFFICES ASSUME NEW v \in Workers, pc[v] # "idle"
                 PROVE  Kept(v)'
      BY <1>1, <1>3 DEF Ownership
    <2>1. Kept(v) /\ DocOf(v) \in Docs
      BY TargetType DEF Ownership
    <2> QED BY <1>3, <2>1 DEF Kept, Creating, DocOf, Mine, HasRow
  \* The id of a new request: a drawn one is new, a named one is known.
  <1>4. ASSUME NEW w \in Workers, NEW r \in Requests, Begin(w, r)
        PROVE  Ownership'
    <2>1. /\ pc[w] = "idle" /\ pc'[w] = "lock" /\ req'[w] = r /\ r.at \in Targets
          /\ \A v \in Workers \ {w} : UNCHANGED <<pc[v], req[v], existing[v]>>
          /\ UNCHANGED <<rows, points, torn>>
          /\ \A v \in Workers : Creating(v) => DocOf(v) # r.at[2]
          /\ Fresh(r) => Unused(r.at[2])
      BY <1>4 DEF Begin, TypeOK, Requests
    <2>2. Kept(w)'
      <3>1. Creating(w)' => Unused(r.at[2])
        BY <2>1 DEF Creating
      <3>2. DocOf(w)' = r.at[2] /\ \A v \in Workers \ {w} : DocOf(v)' = DocOf(v)
        BY <2>1 DEF DocOf
      <3> QED BY <2>1, <3>1, <3>2 DEF Kept, Unused
    <2>3. ASSUME NEW v \in Workers, v # w, pc[v] # "idle"
          PROVE  Kept(v)'
      <3>1. Kept(v) /\ Creating(v)' = Creating(v) /\ DocOf(v)' = DocOf(v) /\ Mine(v)' = Mine(v)
        BY <2>1, <2>3 DEF Ownership, Creating, DocOf, Mine, HasRow
      <3>2. Creating(v) => \A u \in Workers \ {v} : pc'[u] # "idle" => DocOf(u)' # DocOf(v)
        BY <2>1, <2>3, <3>1 DEF Kept, DocOf
      <3> QED BY <2>1, <2>3, <3>1, <3>2 DEF Kept
    <2> QED BY <1>1, <2>1, <2>2, <2>3 DEF Ownership
  <1>5. ASSUME NEW w \in Workers, Acquire(w)
        PROVE  Ownership'
    <2>1. /\ pc[w] = "lock" /\ pc'[w] \in {"register", "find"}
          /\ UNCHANGED <<req, existing, rows, points, torn>>
          /\ \A v \in Workers \ {w} : UNCHANGED pc[v]
      BY <1>5 DEF Acquire, Goto, TypeOK
    <2>2. Kept(w)'
      BY <2>1 DEF Ownership, Kept, Creating, DocOf
    <2> QED BY <1>2, <2>1, <2>2
  <1>6. ASSUME NEW w \in Workers, LockTimeout(w) \/ Unlock(w)
        PROVE  Ownership'
    <2>1. /\ pc[w] # "idle" /\ pc'[w] = "idle" /\ UNCHANGED <<points, torn>>
          /\ \A v \in Workers \ {w} : UNCHANGED <<pc[v], req[v], existing[v]>>
      BY <1>6 DEF LockTimeout, Unlock, Finish, TypeOK
    <2> QED BY <1>1, <1>2, <2>1
  <1>7. ASSUME NEW w \in Workers, UploadStep(w) \/ DeleteStep(w)
        PROVE  Ownership'
    <2>1. pc[w] # "idle" /\ UNCHANGED req
      BY <1>7, PipelineStep DEF Working
    <2> QED BY <1>2, <1>7, <2>1, StepLocal, KeptStep
  <1>8. ASSUME NEW w \in Workers, DbFails(w) \/ Crash(w)
        PROVE  Ownership'
    <2>1. pc[w] # "idle" /\ Drop(w) /\ UNCHANGED points
      BY <1>8 DEF DbFails, Crash
    <2> QED BY <1>1, <1>2, <2>1, DropLocal
  <1>9. ASSUME NEW w \in Workers, SessionLost(w)
        PROVE  Ownership'
    BY <1>3, <1>9 DEF SessionLost, locals
  <1>10. ASSUME NEW d \in Docs, AdminDelete(d)
         PROVE  Ownership'
    BY <1>3, <1>10 DEF AdminDelete, locals, TypeOK
  <1>11. CASE UNCHANGED vars
    BY <1>3, <1>11 DEF vars, locals
  <1> QED
    BY <1>4, <1>5, <1>6, <1>7, <1>8, <1>9, <1>10, <1>11 DEF Next, Step, LockStep, Disturbance

\* No row ever passes from one tenant or bot to another, whatever fails, though two
\* of them name one document id at once: the bodies that name an id never get
\* past their save, and an id that is drawn is nobody else's.
THEOREM OwnersKeepRows == Spec => OwnerKept
  <1>1. ASSUME TypeOK, Ownership, [Next]_vars, NEW d \in Docs, rows[d] # NoRow, rows'[d] # NoRow
        PROVE  rows'[d].scope = rows[d].scope
    <2>1. ASSUME NEW w \in Workers, Saves(w, d), Creating(w)
          PROVE  FALSE
      BY <1>1, <2>1 DEF Saves, Save, Ownership, Kept
    <2> QED BY <1>1, <2>1, RowsStay DEF Stays, RowStays
  <1>2. TypeOK /\ Ownership /\ [Next]_vars =>
          [\A d \in Docs : (rows[d] # NoRow /\ rows'[d] # NoRow)
              => rows'[d].scope = rows[d].scope]_vars
    BY <1>1
  <1> QED
    BY <1>2, TypeInit, TypeStep, OwnershipInit, OwnershipStep, PTL DEF Spec, OwnerKept

\* What its owner sees of a target: its row, its points, whether it is torn.
SameView(t) ==
    /\ HasRow(t)' <=> HasRow(t)
    /\ HasRow(t) => /\ rows'[t[2]].body = rows[t[2]].body
                    /\ rows'[t[2]].status = rows[t[2]].status
                    /\ rows'[t[2]].chunks = rows[t[2]].chunks

LEMMA AlikeView ==
    ASSUME NEW t, Alike(t[2])
    PROVE  SameView(t)
  BY DEF Alike, SameView, HasRow

\* A worker inside a pipeline changes what the owner of its own target sees, and
\* of no other: not even of one with the same document id.
LEMMA OtherViews ==
    ASSUME TypeOK, Ownership, NEW w \in Workers, UploadStep(w) \/ DeleteStep(w),
           NEW t \in Targets, t # req[w].at
    PROVE  SameView(t)
  <1>1. t[2] \in Docs /\ t = <<t[1], t[2]>>
    BY TargetsAssumption
  <1>2. req[w].at \in Targets /\ req[w].at = <<ScopeOf(w), DocOf(w)>>
    BY PipelineStep, TargetType, TargetsAssumption DEF Working, ScopeOf, DocOf
  <1>3. CASE Saves(w, t[2])
    <2>1. pc[w] = "save" /\ Creating(w) /\ rows[t[2]] = NoRow
      BY <1>3 DEF Saves, Save, Creating, Fresh, TypeOK, UploadSteps, Ownership, Kept
    <2>2. rows'[t[2]].scope = ScopeOf(w) /\ ScopeOf(w) # t[1]
      BY <1>1, <1>2, <1>3 DEF Saves, NewRow
    <2> QED BY <2>1, <2>2 DEF SameView, HasRow
  <1>4. CASE Marks(w, t[2])
    <2>1. rows[t[2]].scope = ScopeOf(w) /\ ScopeOf(w) # t[1]
      BY <1>1, <1>2, <1>4 DEF Marks, Mark, Ownership, Kept, Mine, HasRow
    <2> QED BY <1>4, <2>1 DEF Marks, SameView, HasRow
  <1> QED BY <1>1, <1>3, <1>4, PipelineRows, AlikeView

-----------------------------------------------------------------------------
\* The two stores agree whenever a document is not being worked on, provided that
\* no session is cut and no operator deletes rows meanwhile.

Calm == Faults \cap {"session", "admin"} = {}

LEMMA ProgressInit == Init => Progress
  BY TargetsAssumption DEF Init, Progress, Working, Settled, InSync, Indexed, HasRow

\* Agreement on a target depends on its own row and points alone.
LEMMA InSyncFrame ==
    ASSUME NEW t, SameView(t), points'[t] = points[t]
    PROVE  InSync(t)' <=> InSync(t)
  BY DEF InSync, Indexed, SameView

LEMMA SettledFrame ==
    ASSUME NEW t, SameView(t), points'[t] = points[t], t \in torn => t \in torn'
    PROVE  Settled(t) => Settled(t)'
  BY InSyncFrame DEF Settled

LEMMA SameRows ==
    ASSUME UNCHANGED rows, NEW t
    PROVE  SameView(t)
  BY DEF SameView, HasRow

\* What the other workers have got done stays done.
LEMMA StageFrame ==
    ASSUME NEW v \in Workers, Stage(v), pc[v] # "idle",
           UNCHANGED <<pc[v], req[v], existing[v]>>,
           SameView(req[v].at), points'[req[v].at] = points[req[v].at],
           req[v].at \in torn => req[v].at \in torn'
    PROVE  Stage(v)'
  BY SettledFrame DEF Stage, SameView

\* Two workers inside have two targets.
LEMMA OneInside ==
    ASSUME TypeOK, Exclusive, Progress,
           NEW v \in Workers, NEW w \in Workers, v # w, Working(v), Working(w)
    PROVE  req[v].at # req[w].at
  <1>1. KeyFor(v) \in Keys /\ KeyFor(w) \in Keys
    BY TargetType DEF Working
  <1> QED BY <1>1 DEF Exclusive, Progress, KeyFor

\* A worker that has got as far with its own target as its new step says disturbs
\* nobody else.
LEMMA ProgressFrame ==
    ASSUME TypeOK, Exclusive, Ownership, Progress,
           NEW w \in Workers, UploadStep(w) \/ DeleteStep(w), Stage(w)'
    PROVE  Progress'
  <1>1. /\ UNCHANGED <<session, req>> /\ Working(w) /\ Working(w)' /\ req[w].at \in Targets
        /\ \A v \in Workers \ {w} : UNCHANGED <<pc[v], existing[v]>>
    BY PipelineStep, StepLocal, TargetType DEF Working, TypeOK
  <1>2. ASSUME NEW t \in Targets, t # req[w].at
        PROVE  /\ SameView(t) /\ points'[t] = points[t] /\ (t \in torn => t \in torn')
    BY <1>2, StepLocal, OtherViews
  <1>3. ASSUME NEW v \in Workers, v # w, Working(v)
        PROVE  Stage(v)'
    <2>1. req[v].at \in Targets /\ req[v].at # req[w].at
      BY <1>1, <1>3, TargetType, OneInside DEF Working
    <2>2. Stage(v)
      BY <1>3 DEF Progress
    <2>3. UNCHANGED <<pc[v], req[v], existing[v]>>
      BY <1>1, <1>3
    <2> QED BY <1>2, <1>3, <2>1, <2>2, <2>3, StageFrame DEF Working
  <1>4. \A v \in Workers \ {w} : Working(v)' <=> Working(v)
    BY <1>1 DEF Working
  <1>5. ASSUME NEW t \in Targets, \A v \in Workers : Working(v)' => req'[v].at # t
        PROVE  Settled(t)'
    <2>1. t # req[w].at /\ \A v \in Workers : Working(v) => req[v].at # t
      BY <1>1, <1>4, <1>5
    <2>2. Settled(t)
      BY <2>1 DEF Progress
    <2> QED BY <1>2, <2>1, <2>2, SettledFrame
  <1> QED BY <1>1, <1>3, <1>4, <1>5 DEF Progress

\* The row an upload saves is in step with the points it wrote.
LEMMA SavedInSync ==
    ASSUME TypeOK, Ownership, NEW w \in Workers, Stage(w), Saves(w, DocOf(w))
    PROVE  InSync(req[w].at)' /\ points[req[w].at] = Stored(req[w].body)
  <1>1. /\ Creating(w) /\ pc[w] = "save" /\ pc[w] \in UploadSteps
        /\ UNCHANGED <<req, points>>
    BY DEF Saves, Save, Answer, Tear, Creating, Fresh, TypeOK, UploadSteps, vectors
  <1>2. points[req[w].at] = Stored(req[w].body)
    BY <1>1 DEF Ownership, Kept, Stage
  <1>3. rows'[DocOf(w)] \in Rows /\ rows'[DocOf(w)] = NewRow(w)
    BY <1>1, NewRowType DEF Saves
  <1>4. rows'[DocOf(w)] # NoRow
    BY <1>3, NullAssumption
  <1>5. /\ rows'[DocOf(w)].scope = ScopeOf(w) /\ rows'[DocOf(w)].body = req[w].body
        /\ rows'[DocOf(w)].status = "active"
        /\ rows'[DocOf(w)].chunks = Cardinality(ChunksOf[req[w].body])
    BY <1>3 DEF NewRow
  <1>6. Indexed(req[w].at)'
    BY <1>1, <1>4, <1>5 DEF Indexed, HasRow, DocOf, ScopeOf
  <1> QED BY <1>1, <1>2, <1>5, <1>6 DEF InSync, DocOf

\* So is the row that a delete marks.
LEMMA MarkedInSync ==
    ASSUME NEW w \in Workers, Stage(w), Marks(w, DocOf(w))
    PROVE  InSync(req[w].at)' /\ points[req[w].at] = {}
  <1>1. points[req[w].at] = {} /\ UNCHANGED <<req, points>>
    BY DEF Marks, Mark, Stage, Answer, Tear, vectors
  <1> QED BY <1>1 DEF Marks, InSync, Indexed, DocOf

\* A worker that read no row and may yet write has no row to replace.
LEMMA NothingToReplace ==
    ASSUME NEW w \in Workers, Kept(w), existing[w] = NoRow,
           pc[w] \in {"match", "collection", "embed", "replace", "upsert", "save"}
    PROVE  rows[DocOf(w)] = NoRow /\ ~HasRow(req[w].at)
  BY DEF Kept, HasRow, DocOf

\* A pipeline step gets its target as far as its next step relies on.
LEMMA StageStep ==
    ASSUME TypeOK, Exclusive, Ownership, Progress,
           NEW w \in Workers, UploadStep(w) \/ DeleteStep(w)
    PROVE  Stage(w)'
  <1> DEFINE t == req[w].at
  <1>1. /\ UNCHANGED req /\ Working(w) /\ t \in Targets /\ DocOf(w) \in Docs /\ t[2] = DocOf(w)
        /\ Stage(w) /\ Kept(w)
    BY PipelineStep, TargetType DEF Working, Progress, Ownership, DocOf
  \* Steps that leave points and torn alone, and what the row says.
  <1>2. ASSUME \A d \in Docs : Alike(d), UNCHANGED <<points, torn>>
        PROVE  /\ SameView(t) /\ (Settled(t) => Settled(t)')
    <2>1. SameView(t)
      BY <1>1, <1>2, AlikeView
    <2> QED BY <1>1, <1>2, <2>1, SettledFrame
  <1>3. UNCHANGED rows => \A d \in Docs : Alike(d)
    BY DEF Alike
  <1>4. ASSUME Settled(t)', pc'[w] \in {"read", "unlock", "touch", "match", "collection", "embed",
                                        "replace"}
        PROVE  Stage(w)'
    BY <1>1, <1>4 DEF Stage
  <1>5. ASSUME Tear(w, QdrantFailures) \/ Tear(w, {"qdrant_write_failed"})
                 \/ Tear(w, {"internal_error"})
        PROVE  Stage(w)'
    <2>1. t \in torn' /\ pc'[w] = "unlock"
      BY <1>5 DEF Tear, Answer, TypeOK
    <2> QED BY <1>1, <1>4, <2>1 DEF Settled
  <1> USE DEF tables, vectors
  <1>6. CASE Register(w) \/ Read(w) \/ Match(w)
    <2>1. /\ UNCHANGED <<rows, points, torn>> /\ Settled(t)
          /\ pc'[w] \in {"read", "unlock", "touch", "match", "collection"}
      BY <1>1, <1>6 DEF Register, Read, Match, Goto, Stage, TypeOK
    <2> QED BY <1>2, <1>3, <1>4, <2>1
  <1>7. CASE Touch(w)
    <2>1. UNCHANGED <<points, torn>> /\ pc'[w] = "unlock" /\ Settled(t)
      BY <1>1, <1>7 DEF Touch, Answer, Stage, TypeOK
    <2>2. \A d \in Docs : Alike(d)
      BY <1>7, TouchAlike
    <2> QED BY <1>2, <1>4, <2>1, <2>2
  <1>8. CASE EnsureCollection(w)
    <2>1. UNCHANGED <<rows, points, torn>> /\ pc'[w] \in {"embed", "unlock"} /\ Settled(t)
      BY <1>1, <1>8 DEF EnsureCollection, Goto, Answer, Stage, TypeOK
    <2> QED BY <1>2, <1>3, <1>4, <2>1
  <1>9. CASE Embed(w)
    <2>1. /\ UNCHANGED <<rows, points, torn, existing>> /\ pc[w] = "embed" /\ Settled(t)
          /\ pc'[w] \in {"replace", "unlock"} \/ (pc'[w] = "upsert" /\ existing[w] = NoRow)
      BY <1>1, <1>9 DEF Embed, Goto, Answer, Stage, TypeOK
    <2>2. ASSUME pc'[w] = "upsert"
          PROVE  Stage(w)'
      <3>1. ~Indexed(t)
        BY <1>1, <2>1, <2>2, NothingToReplace DEF Indexed
      <3>2. t \in torn \/ points[t] = {}
        BY <2>1, <3>1 DEF Settled, InSync
      <3> QED BY <1>1, <2>1, <2>2, <3>2 DEF Stage
    <2> QED BY <1>2, <1>3, <1>4, <2>1, <2>2
  <1>10. CASE Replace(w)
    <2>1. CASE Goto(w, "upsert") /\ points' = [points EXCEPT ![t] = {}]
      <3>1. pc'[w] = "upsert" /\ points'[t] = {}
        BY <1>1, <2>1 DEF Goto, TypeOK
      <3> QED BY <1>1, <3>1 DEF Stage
    <2> QED BY <1>5, <1>10, <2>1 DEF Replace, Purge
  <1>11. CASE Upsert(w)
    <2>1. CASE /\ Goto(w, "save") /\ UNCHANGED torn
               /\ points' = [points EXCEPT ![t] = Upserted(@, req[w].body)]
      <3>1. pc'[w] = "save" /\ UNCHANGED existing /\ points'[t] = Upserted(points[t], req[w].body)
        BY <1>1, <2>1 DEF Goto, TypeOK
      <3>2. points[t] = {} => Upserted(points[t], req[w].body) = Stored(req[w].body)
        BY DEF Upserted
      <3>3. points[t] = {} \/ (t \in torn /\ existing[w] = NoRow)
        BY <1>1, <1>11 DEF Upsert, Stage
      <3> QED BY <1>1, <2>1, <3>1, <3>2, <3>3 DEF Stage
    <2> QED BY <1>5, <1>11, <2>1 DEF Upsert
  <1>12. CASE Save(w)
    <2>1. CASE ~req[w].named /\ rows' = [rows EXCEPT ![DocOf(w)] = NewRow(w)]
      <3>1. Saves(w, DocOf(w)) /\ pc'[w] = "unlock"
        BY <1>12, <2>1, SavesRow DEF Save, Answer, Tear, TypeOK
      <3> QED BY <1>1, <1>4, <3>1, SavedInSync DEF Settled
    <2> QED BY <1>5, <1>12, <2>1 DEF Save
  <1>13. CASE Find(w)
    <2>1. /\ UNCHANGED <<rows, points, torn>> /\ Settled(t)
          /\ pc'[w] = "unlock" \/ (pc'[w] = "purge" /\ Mine(w))
      BY <1>1, <1>13 DEF Find, Answer, Stage, TypeOK
    <2>2. Settled(t)' /\ (HasRow(t) => HasRow(t)')
      BY <1>2, <1>3, <2>1 DEF SameView
    <2> QED BY <1>1, <2>1, <2>2 DEF Stage, Mine
  <1>14. CASE DeleteChunks(w)
    <2>1. CASE Goto(w, "mark") /\ points' = [points EXCEPT ![t] = {}]
      <3>1. pc'[w] = "mark" /\ points'[t] = {} /\ UNCHANGED rows
        BY <1>1, <1>14, <2>1 DEF Goto, DeleteChunks, Purge, TypeOK
      <3>2. HasRow(t)'
        BY <1>1, <1>14, <3>1 DEF DeleteChunks, Stage, HasRow
      <3> QED BY <1>1, <3>1, <3>2 DEF Stage
    <2> QED BY <1>5, <1>14, <2>1 DEF DeleteChunks, Purge
  <1>15. CASE Mark(w)
    <2>1. CASE /\ rows[DocOf(w)] # NoRow
               /\ rows' = [rows EXCEPT ![DocOf(w)].status = "deleted",
                                       ![DocOf(w)].chunks = 0,
                                       ![DocOf(w)].refreshed = TRUE]
      <3>1. Marks(w, DocOf(w)) /\ pc'[w] = "unlock"
        BY <1>15, <2>1, MarksRow DEF Mark, Answer, Tear, TypeOK
      <3> QED BY <1>1, <1>4, <3>1, MarkedInSync DEF Settled
    <2> QED BY <1>5, <1>15, <2>1 DEF Mark
  <1> QED BY <1>6, <1>7, <1>8, <1>9, <1>10, <1>11, <1>12, <1>13, <1>14, <1>15
          DEF UploadStep, DeleteStep

LEMMA ProgressStep ==
    Calm /\ TypeOK /\ Exclusive /\ Ownership /\ Progress /\ [Next]_vars => Progress'
  <1> SUFFICES ASSUME Calm, TypeOK, Exclusive, Ownership, Progress, [Next]_vars
               PROVE  Progress'
    OBVIOUS
  <1> USE DEF tables, vectors
  \* Steps that leave the stores alone and every worker where it was, inside or not.
  <1>1. ASSUME UNCHANGED <<rows, points, session, torn>>,
               \A w \in Workers : /\ Working(w)' <=> Working(w)
                                  /\ Working(w) => UNCHANGED <<pc[w], req[w], existing[w]>>
        PROVE  Progress'
    <2>1. \A t : Settled(t) => Settled(t)'
      BY <1>1, SameRows, SettledFrame
    <2>2. ASSUME NEW w \in Workers, Working(w)
          PROVE  Stage(w)'
      BY <1>1, <2>2, SameRows, StageFrame DEF Progress, Working
    <2> QED BY <1>1, <2>1, <2>2 DEF Progress
  <1>2. ASSUME NEW w \in Workers, NEW r \in Requests, Begin(w, r)
        PROVE  Progress'
    BY <1>1, <1>2 DEF Begin, TypeOK, Working
  <1>3. ASSUME NEW w \in Workers, LockTimeout(w)
        PROVE  Progress'
    BY <1>1, <1>3 DEF LockTimeout, Finish, TypeOK, Working
  \* Nobody was inside for the target of the lock that is taken.
  <1>4. ASSUME NEW w \in Workers, Acquire(w)
        PROVE  Progress'
    <2>1. /\ req[w].at \in Targets /\ KeyFor(w) \in Keys /\ ~Working(w)
          /\ lock[KeyFor(w)] = Nobody
          /\ UNCHANGED <<rows, points, session, torn, req, existing>>
          /\ pc'[w] \in {"register", "find"}
          /\ \A v \in Workers \ {w} : pc'[v] = pc[v]
      BY <1>4, TargetType DEF Acquire, Goto, Working, TypeOK
    <2>2. \A v \in Workers : Working(v) => req[v].at # req[w].at
      BY <2>1, NullAssumption DEF Exclusive, Progress, KeyFor
    <2>3. \A t : Settled(t) => Settled(t)'
      BY <2>1, SameRows, SettledFrame
    <2>4. Stage(w)'
      BY <2>1, <2>2, <2>3 DEF Progress, Stage
    <2>5. Working(w)' /\ \A v \in Workers \ {w} : Working(v)' <=> Working(v)
      BY <2>1 DEF Working
    <2>6. ASSUME NEW v \in Workers, v # w, Working(v)
          PROVE  Stage(v)'
      BY <2>1, <2>6, SameRows, StageFrame DEF Progress, Working
    <2>7. ASSUME NEW t \in Targets, \A v \in Workers : Working(v)' => req'[v].at # t
          PROVE  Settled(t)'
      <3>1. \A v \in Workers : Working(v) => req[v].at # t
        BY <2>1, <2>5, <2>7
      <3> QED BY <2>3, <3>1 DEF Progress
    <2> QED BY <2>1, <2>4, <2>5, <2>6, <2>7 DEF Progress
  \* The target it worked on is settled when a worker leaves, or is killed.
  <1>5. ASSUME NEW w \in Workers, Working(w), pc'[w] = "idle",
               NEW t \in Targets, t = req[w].at, Settled(t)',
               UNCHANGED <<rows, points, session>>, torn \subseteq torn',
               \A v \in Workers \ {w} : UNCHANGED <<pc[v], req[v], existing[v]>>
        PROVE  Progress'
    <2>1. ~Working(w)' /\ \A v \in Workers \ {w} : Working(v)' <=> Working(v)
      BY <1>5 DEF Working
    <2>2. ASSUME NEW v \in Workers, v # w, Working(v)
          PROVE  Stage(v)'
      BY <1>5, <2>2, SameRows, StageFrame DEF Progress, Working
    <2>3. ASSUME NEW u \in Targets, \A v \in Workers : Working(v)' => req'[v].at # u, u # t
          PROVE  Settled(u)'
      <3>1. \A v \in Workers : Working(v) => req[v].at # u
        BY <1>5, <2>1, <2>3
      <3> QED BY <1>5, <3>1, SameRows, SettledFrame DEF Progress
    <2> QED BY <1>5, <2>1, <2>2, <2>3 DEF Progress
  <1>6. ASSUME NEW w \in Workers, Unlock(w)
        PROVE  Progress'
    <2>1. /\ Working(w) /\ pc'[w] = "idle" /\ UNCHANGED <<rows, points, session, torn>>
          /\ \A v \in Workers \ {w} : UNCHANGED <<pc[v], req[v], existing[v]>>
      BY <1>6 DEF Unlock, Finish, Working, TypeOK
    <2>2. PICK t \in Targets : t = req[w].at
      BY <2>1, TargetType DEF Working
    <2>3. Settled(t)
      BY <1>6, <2>1, <2>2 DEF Unlock, Progress, Stage
    <2>4. Settled(t)'
      BY <2>1, <2>3, SameRows, SettledFrame
    <2> QED BY <1>5, <2>1, <2>2, <2>4
  <1>7. ASSUME NEW w \in Workers, UploadStep(w) \/ DeleteStep(w)
        PROVE  Progress'
    BY <1>7, StageStep, ProgressFrame
  <1>8. ASSUME NEW w \in Workers, Crash(w)
        PROVE  Progress'
    <2>1. /\ pc'[w] = "idle" /\ UNCHANGED <<rows, points>> /\ torn \subseteq torn'
          /\ \A v \in Workers \ {w} : UNCHANGED <<pc[v], req[v], existing[v]>>
          /\ pc[w] # "idle" /\ UNCHANGED session
      BY <1>8, DropLocal DEF Crash, Progress, TypeOK
    <2>2. CASE ~Working(w)
      <3>1. pc[w] = "lock" /\ UNCHANGED torn
        BY <1>8, <2>1, <2>2 DEF Crash, Drop, Midway, Working
      <3> QED BY <1>1, <2>1, <2>2, <3>1 DEF Working
    <2>3. CASE Working(w)
      <3>1. Stage(w) /\ Kept(w) /\ pc[w] \in Steps
        BY <2>3 DEF Progress, Ownership, TypeOK
      <3>2. PICK t \in Targets : t = req[w].at
        BY <2>3, TargetType DEF Working
      <3>3. CASE Midway(w)
        <4>1. Settled(t)'
          BY <1>8, <3>2, <3>3 DEF Crash, Drop, Settled
        <4> QED BY <1>5, <2>1, <2>3, <3>2, <4>1
      <3>4. CASE ~Midway(w)
        <4>1. ASSUME pc[w] = "upsert"
              PROVE  Settled(t)
          <5>1. existing[w] = NoRow
            BY <3>4, <4>1 DEF Midway
          <5>2. ~Indexed(t)
            BY <3>1, <3>2, <4>1, <5>1, NothingToReplace DEF Indexed
          <5>3. points[req[w].at] = {} \/ req[w].at \in torn
            BY <3>1, <4>1 DEF Stage
          <5> QED BY <3>2, <5>2, <5>3 DEF Settled, InSync, Indexed, HasRow
        <4>2. Settled(t)
          <5>1. pc[w] \in {"register", "read", "match", "touch", "collection", "embed",
                           "replace", "find", "purge", "unlock"} \/ pc[w] = "upsert"
            BY <2>3, <3>1, <3>4 DEF Midway, Working, Steps, UploadSteps
          <5>2. pc[w] # "upsert" => Settled(req[w].at)
            BY <3>1, <5>1 DEF Stage
          <5> QED BY <3>2, <4>1, <5>2 DEF Settled, InSync, Indexed, HasRow
        <4>3. Settled(t)'
          BY <2>1, <4>2, SameRows, SettledFrame
        <4> QED BY <1>5, <2>1, <2>3, <3>2, <4>3
      <3> QED BY <3>3, <3>4
    <2> QED BY <2>2, <2>3
  <1>9. ASSUME NEW w \in Workers, DbFails(w) \/ SessionLost(w)
        PROVE  FALSE
    BY <1>9 DEF DbFails, SessionLost, Calm, Progress
  <1>10. ASSUME NEW d \in Docs, AdminDelete(d)
         PROVE  FALSE
    BY <1>10 DEF AdminDelete, Calm
  <1>11. CASE UNCHANGED vars
    BY <1>1, <1>11 DEF vars, locals, Working
  <1> QED
    BY <1>2, <1>3, <1>4, <1>6, <1>7, <1>8, <1>9, <1>10, <1>11
       DEF Next, Step, LockStep, Disturbance

\* An unlocked target has nobody inside for it.
LEMMA ProgressQuiescent == Exclusive /\ Progress => QuiescentInSync
  <1> SUFFICES ASSUME Exclusive, Progress, NEW t \in Targets, lock[KeyOf[t]] = Nobody
               PROVE  Settled(t)
    BY DEF QuiescentInSync
  <1>1. KeyOf[t] \in Keys
    BY KeyAssumption
  <1>2. \A w \in Workers : Working(w) => req[w].at # t
    BY <1>1, NullAssumption DEF Exclusive, Progress, KeyFor
  <1> QED BY <1>2 DEF Progress

\* All that holds in every state of a calm run.
Held == TypeOK /\ Exclusive /\ Ownership /\ Progress

LEMMA HeldAlways ==
    ASSUME Calm
    PROVE  Spec => []Held
  <1>1. Init => Held
    BY TypeInit, ExclusiveInit, OwnershipInit, ProgressInit DEF Held
  <1>2. Held /\ [Next]_vars => Held'
    BY TypeStep, ExclusiveStep, OwnershipStep, ProgressStep DEF Held
  <1> QED BY <1>1, <1>2, PTL DEF Spec

\* Whatever the interleaving of uploads and deletes, and wherever Qdrant, the
\* embedder or Postgres fails and workers are killed: a document that nobody
\* holds has exactly the chunks its row says, or a request has left it half-written.
THEOREM StoresAgree ==
    ASSUME Calm
    PROVE  Spec => []QuiescentInSync
  <1>1. Held => QuiescentInSync
    BY ProgressQuiescent DEF Held
  <1> QED BY <1>1, HeldAlways, PTL

-----------------------------------------------------------------------------
\* What search finds.

LEMMA InSyncWhole ==
    ASSUME TypeOK, NEW t \in Targets, InSync(t)
    PROVE  Whole(t)
  <1>1. CASE Indexed(t)
    <2>1. rows[t[2]] \in Rows
      BY <1>1, TargetsAssumption DEF Indexed, HasRow, TypeOK
    <2> QED BY <1>1, <2>1 DEF InSync, Whole, Rows
  <1> QED BY <1>1 DEF InSync, Whole

\* A target that was not left half-written is whole, whatever its worker is at.
LEMMA UntornWhole ==
    ASSUME Held, NEW t \in Targets, t \notin torn
    PROVE  Whole(t)
  <1>1. CASE Settled(t)
    BY <1>1, InSyncWhole DEF Settled, Held
  <1>2. CASE \A w \in Workers : Working(w) => req[w].at # t
    BY <1>1, <1>2 DEF Progress, Held
  <1>3. ASSUME NEW w \in Workers, Working(w), req[w].at = t
        PROVE  Whole(t)
    <2>1. Stage(w) /\ pc[w] \in Steps
      BY <1>3 DEF Progress, Held, TypeOK
    <2>2. pc[w] = "save" => req[w].body \in Bodies
      BY <1>3, TargetType DEF UploadSteps, Held
    <2>3. pc[w] = "upsert" \/ pc[w] = "mark" => points[t] = {}
      BY <1>3, <2>1 DEF Stage
    <2>4. pc[w] = "save" => points[t] = Stored(req[w].body)
      BY <1>3, <2>1 DEF Stage
    <2>5. pc[w] \notin {"upsert", "mark", "save"} => t \in torn \/ InSync(t)
      BY <1>3, <2>1 DEF Stage, Settled, Working, Steps, UploadSteps
    <2>6. CASE pc[w] \notin {"upsert", "mark", "save"}
      BY <2>5, <2>6, InSyncWhole DEF Held
    <2> QED BY <2>2, <2>3, <2>4, <2>6 DEF Whole
  <1> QED BY <1>2, <1>3

LEMMA UntornAll == Held => \A t \in Targets : t \notin torn => Whole(t)
  BY UntornWhole

\* The chunks of one document change hands in whole bodies, once it has a row.
LEMMA WholePoints ==
    ASSUME Held, NEW w \in Workers, UploadStep(w) \/ DeleteStep(w),
           HasRow(req[w].at), Whole(req[w].at), NEW t \in Targets, t = req[w].at
    PROVE  Whole(t)'
  <1>1. TypeOK /\ Kept(w) /\ Stage(w) /\ pc[w] # "idle"
    BY PipelineStep DEF Held, Ownership, Progress, Working
  <1>2. CASE points'[t] = points[t] \/ points'[t] = {}
    BY <1>2 DEF Whole
  <1> USE DEF vectors
  <1>3. ASSUME Register(w) \/ Read(w) \/ Match(w) \/ Touch(w) \/ EnsureCollection(w) \/ Embed(w)
                 \/ Save(w) \/ Find(w) \/ Mark(w)
        PROVE  Whole(t)'
    BY <1>2, <1>3 DEF Register, Read, Match, Touch, EnsureCollection, Embed, Save, Find, Mark
  <1>4. ASSUME Replace(w) \/ DeleteChunks(w)
        PROVE  Whole(t)'
    BY <1>1, <1>2, <1>4 DEF Replace, DeleteChunks, Purge, TypeOK
  <1>5. ASSUME Upsert(w)
        PROVE  Whole(t)'
    <2>1. existing[w] # NoRow
      BY <1>1, <1>5, NothingToReplace DEF Upsert
    <2>2. points[t] = {} /\ req[w].body \in Bodies
      BY <1>1, <1>5, <2>1, TargetType DEF Upsert, Stage, UploadSteps
    <2>3. points'[t] = points[t] \/ points'[t] = Stored(req[w].body)
      BY <1>1, <1>5, <2>2 DEF Upsert, Upserted, TypeOK
    <2> QED BY <1>2, <2>2, <2>3 DEF Whole
  <1> QED BY <1>3, <1>4, <1>5 DEF UploadStep, DeleteStep

LEMMA MixtureStep == Calm /\ Held /\ Held' /\ NoMixture /\ [Next]_vars => NoMixture'
  <1>0. Held' => (\A t \in Targets : t \notin torn => Whole(t))'
    BY UntornAll, PTL
  <1> SUFFICES ASSUME Calm, Held, NoMixture, [Next]_vars, NEW t \in Targets,
                      t \in torn', HasRow(t)'
               PROVE  Whole(t)'
    BY <1>0 DEF NoMixture
  <1> USE DEF tables, vectors
  <1>1. ASSUME UNCHANGED <<rows, points>>
        PROVE  Whole(t)'
    BY <1>1 DEF NoMixture, HasRow, Whole
  <1>2. ASSUME NEW w \in Workers, NEW r \in Requests, Begin(w, r)
        PROVE  UNCHANGED <<rows, points>>
    BY <1>2 DEF Begin
  <1>3. ASSUME NEW w \in Workers, LockStep(w) \/ DbFails(w) \/ SessionLost(w) \/ Crash(w)
        PROVE  UNCHANGED <<rows, points>>
    BY <1>3 DEF LockStep, Acquire, LockTimeout, Unlock, DbFails, SessionLost, Crash
  <1>4. ASSUME NEW d \in Docs, AdminDelete(d)
        PROVE  FALSE
    BY <1>4 DEF AdminDelete, Calm
  <1>5. ASSUME NEW w \in Workers, UploadStep(w) \/ DeleteStep(w)
        PROVE  Whole(t)'
    <2>1. CASE t # req[w].at
      BY <1>5, <2>1, OtherViews, StepLocal DEF Held, NoMixture, Whole, SameView
    <2>2. CASE t = req[w].at /\ HasRow(t)
      BY <1>5, <2>2, WholePoints DEF NoMixture
    \* Only a first save gives a target its row, and leaves it whole.
    <2>3. CASE t = req[w].at /\ ~HasRow(t)
      <3>2. Saves(w, t[2])
        <4>1. t[2] \in Docs
          BY TargetsAssumption
        <4>2. ~SameView(t)
          BY <2>3 DEF SameView
        <4>3. ~Marks(w, t[2])
          BY <2>3 DEF Marks, HasRow
        <4> QED BY <1>5, <4>1, <4>2, <4>3, PipelineRows, AlikeView DEF Held
      <3>3. req[w].at \notin torn
        BY <3>2 DEF Held, Ownership, Kept, Creating, Saves, Save, Fresh, TypeOK, UploadSteps
      <3>4. Whole(t) /\ UNCHANGED points
        BY <2>3, <3>2, <3>3, UntornWhole DEF Saves, Save
      <3> QED BY <3>4 DEF Whole
    <2> QED BY <2>1, <2>2, <2>3
  <1>6. CASE UNCHANGED vars
    BY <1>1, <1>6 DEF vars
  <1> QED BY <1>1, <1>2, <1>3, <1>4, <1>5, <1>6 DEF Next, Step, Disturbance

\* And search never finds a mixture of two versions of such a document, or a part of one.
THEOREM SearchSeesOneBody ==
    ASSUME Calm
    PROVE  Spec => []NoMixture
  <1>1. Init => NoMixture
    BY DEF Init, NoMixture, Whole
  <1>2. Held /\ Held' /\ NoMixture /\ [Next]_vars => NoMixture'
    BY MixtureStep
  <1> QED BY <1>1, <1>2, HeldAlways, PTL DEF Spec

-----------------------------------------------------------------------------
\* The pipelines implement DocumentStore.

LEMMA ChunkedInit == Init => Chunked
  BY DEF Init, Chunked

LEMMA ChunkedStep == TypeOK /\ Chunked /\ [Next]_vars => Chunked'
  <1> SUFFICES ASSUME TypeOK, Chunked, [Next]_vars
               PROVE  Chunked'
    OBVIOUS
  <1> DEFINE Writing(w) == pc[w] \in {"replace", "upsert", "save"}
  \* Bodies of rows are those of uploads.
  <1>1. ASSUME NEW d \in Docs, rows'[d] # NoRow
        PROVE  ChunksOf[rows'[d].body] # {}
    <2>1. ASSUME NEW w \in Workers, Saves(w, d)
          PROVE  rows'[d].body = req[w].body /\ ChunksOf[req[w].body] # {}
      BY <2>1 DEF Saves, Save, NewRow, Chunked
    <2> QED BY <1>1, <2>1, RowsChange DEF Alike, Marks, Chunked
  \* Steps that let no worker start writing.
  <1>2. ASSUME \A w \in Workers : Writing(w)' => Writing(w) /\ UNCHANGED req[w]
        PROVE  Chunked'
    BY <1>1, <1>2 DEF Chunked
  <1>3. ASSUME NEW w \in Workers, NEW r \in Requests, Begin(w, r)
        PROVE  Chunked'
    BY <1>2, <1>3 DEF Begin, TypeOK
  <1>4. ASSUME NEW w \in Workers, LockStep(w)
        PROVE  Chunked'
    BY <1>2, <1>4 DEF LockStep, Acquire, LockTimeout, Unlock, Goto, Finish, TypeOK
  <1>5. ASSUME NEW w \in Workers, UploadStep(w) \/ DeleteStep(w)
        PROVE  Chunked'
    <2>1. UNCHANGED req /\ \A v \in Workers \ {w} : pc'[v] = pc[v]
      BY <1>5, PipelineStep, StepLocal
    <2>2. Writing(w)' => Writing(w) \/ ChunksOf[req[w].body] # {}
      <3> USE DEF Goto, Answer, Tear, TypeOK
      <3>1. ASSUME Register(w) \/ Read(w) \/ Match(w) \/ Touch(w) \/ EnsureCollection(w)
                     \/ Save(w) \/ Find(w) \/ Mark(w)
            PROVE  ~Writing(w)'
        BY <3>1 DEF Register, Read, Match, Touch, EnsureCollection, Save, Find, Mark
      <3>2. ASSUME Embed(w)
            PROVE  Writing(w)' => ChunksOf[req[w].body] # {}
        BY <3>2 DEF Embed, Fits
      <3>3. ASSUME DeleteChunks(w)
            PROVE  ~Writing(w)'
        BY <3>3 DEF DeleteChunks, Purge
      <3>4. ASSUME Replace(w) \/ Upsert(w)
            PROVE  Writing(w)
        BY <3>4 DEF Replace, Upsert
      <3> QED BY <1>5, <3>1, <3>2, <3>3, <3>4 DEF UploadStep, DeleteStep
    <2>3. \A v \in Workers : Writing(v)' => ChunksOf[req'[v].body] # {}
      BY <2>1, <2>2 DEF Chunked
    <2> QED BY <1>1, <2>3 DEF Chunked
  <1>6. ASSUME NEW w \in Workers, DbFails(w) \/ Crash(w)
        PROVE  Chunked'
    BY <1>2, <1>6, DropLocal DEF DbFails, Crash
  <1>7. ASSUME UNCHANGED locals
        PROVE  Chunked'
    BY <1>2, <1>7 DEF locals
  <1> QED
    BY <1>3, <1>4, <1>5, <1>6, <1>7 DEF Next, Step, Disturbance, SessionLost, AdminDelete, vars

\* The points of two bodies differ, if they have any.
LEMMA BodyOfStored ==
    ASSUME NEW body \in Bodies, ChunksOf[body] # {}
    PROVE  Stored(body) # {} /\ BodyOf(Stored(body)) = body
  <1>1. PICK c \in ChunksOf[body] : TRUE
    OBVIOUS
  <1>2. [chunk |-> c, body |-> body] \in Stored(body)
    BY <1>1 DEF Stored
  <1>3. ASSUME NEW b \in Bodies, Stored(body) = Stored(b)
        PROVE  b = body
    <2>1. [chunk |-> c, body |-> body] \in [chunk : ChunksOf[b], body : {b}]
      BY <1>2, <1>3 DEF Stored
    <2>2. [chunk |-> c, body |-> body].body \in {b}
      BY <2>1
    <2> QED BY <2>2
  <1> HIDE DEF Stored
  <1> QED BY <1>2, <1>3 DEF BodyOf

LEMMA IndexOfStored ==
    ASSUME NEW t \in Targets, NEW body \in Bodies, ChunksOf[body] # {},
           points[t] = Stored(body)
    PROVE  Found(t) = body
  BY BodyOfStored DEF Found, Whole

LEMMA IndexOfNone ==
    ASSUME NEW t \in Targets, points[t] = {}
    PROVE  Found(t) = NoRow
  BY DEF Found, Whole

\* Whatever points there are, the index has a body, a mixture or nothing.
LEMMA IndexType ==
    ASSUME NEW t \in Targets
    PROVE  Found(t) \in Bodies \cup {Mixture, NoRow}
  <1>1. ASSUME NEW b \in Bodies, points[t] = Stored(b)
        PROVE  BodyOf(points[t]) \in Bodies
    BY <1>1 DEF BodyOf
  <1> QED BY <1>1 DEF Found, Whole

\* A target in sync has the same body in both views.
LEMMA InSyncViews ==
    ASSUME TypeOK, Chunked, NEW t \in Targets, InSync(t)
    PROVE  Recorded(t) = Found(t)
  <1>1. CASE Indexed(t)
    <2>1. rows[t[2]] \in Rows /\ ChunksOf[rows[t[2]].body] # {}
      BY <1>1, TargetsAssumption DEF Indexed, HasRow, TypeOK, Chunked
    <2> QED BY <1>1, <2>1, IndexOfStored DEF InSync, Recorded, Rows
  <1>2. CASE ~Indexed(t)
    BY <1>2, IndexOfNone DEF InSync, Recorded
  <1> QED BY <1>1, <1>2

LEMMA StoreInit == Init => Store!Init
  <1> SUFFICES ASSUME Init
               PROVE  Store!Init
    OBVIOUS
  <1>1. ASSUME NEW t \in Targets
        PROVE  Recorded(t) = NoRow /\ Found(t) = NoRow
    BY <1>1, TargetsAssumption DEF Init, Recorded, Found, Whole, Indexed, HasRow
  <1> QED BY <1>1 DEF Store!Init, Catalogue, Index, Init

\* A view of a target depends on its own row or its own points.
LEMMA ViewFrame ==
    ASSUME NEW t
    PROVE  /\ SameView(t) => Recorded(t)' = Recorded(t)
           /\ points'[t] = points[t] => Found(t)' = Found(t)
  BY DEF Recorded, Found, Indexed, Whole, SameView

LEMMA ViewsFrame ==
    /\ (\A t \in Targets : SameView(t)) => UNCHANGED Catalogue
    /\ UNCHANGED points => UNCHANGED Index
  BY ViewFrame DEF Catalogue, Index

\* A step on one target changes each function of targets at that target.
LEMMA ViewUpdate ==
    ASSUME NEW t \in Targets
    PROVE  /\ (\A u \in Targets \ {t} : Recorded(u)' = Recorded(u))
                => Catalogue' = [Catalogue EXCEPT ![t] = Recorded(t)']
           /\ (\A u \in Targets \ {t} : Found(u)' = Found(u))
                => Index' = [Index EXCEPT ![t] = Found(t)']
           /\ Catalogue[t] = Recorded(t) /\ Index[t] = Found(t)
  BY DEF Catalogue, Index

\* What the store is relied on for: its guards, in terms of the pipelines.
LEMMA StoreClear ==
    ASSUME Held, Chunked, NEW w \in Workers, pc[w] \in {"replace", "purge"},
           NEW t \in Targets, t = req[w].at
    PROVE  Recorded(t) = Found(t) \/ t \in torn
  <1>1. t \in torn \/ InSync(t)
    BY DEF Held, Progress, Stage, Working, Settled
  <1> QED BY <1>1, InSyncViews DEF Held

\* A pipeline step on the points is a step of the store.
LEMMA StoreWrites ==
    ASSUME Held, Chunked, NEW w \in Workers, UploadStep(w) \/ DeleteStep(w),
           Replace(w) \/ DeleteChunks(w) \/ Upsert(w)
    PROVE  [Store!Next]_<<Catalogue, Index, torn>>
  <1>1. /\ TypeOK /\ Kept(w) /\ Stage(w) /\ pc[w] # "idle" /\ req[w].at \in Targets
    BY PipelineStep, TargetType DEF Held, Ownership, Progress, Working
  <1>2. PICK t \in Targets : t = req[w].at
    BY <1>1
  <1>3. UNCHANGED rows /\ \A u \in Targets \ {t} : points'[u] = points[u]
    BY <1>2, StepLocal DEF Held, Replace, DeleteChunks, Purge, Upsert, tables
  <1>4. UNCHANGED Catalogue
    BY <1>3, SameRows, ViewsFrame
  <1>5. Index' = [Index EXCEPT ![t] = Found(t)'] /\ Index[t] = Found(t) /\ Catalogue[t] = Recorded(t)
    BY <1>3, ViewFrame, ViewUpdate
  \* The step writes or fails after all or nothing of it.
  <1>6. UNCHANGED torn \/ torn' = torn \cup {t}
    BY <1>2 DEF Replace, DeleteChunks, Purge, Upsert, Tear
  <1>7. ASSUME UNCHANGED points
        PROVE  UNCHANGED Index
    BY <1>7, ViewsFrame
  <1>8. ASSUME Store!Write(t) \/ UNCHANGED points, UNCHANGED points => torn' = torn \cup {t}
        PROVE  [Store!Next]_<<Catalogue, Index, torn>>
    <2>1. CASE UNCHANGED torn /\ Store!Write(t)
      BY <1>4, <2>1 DEF Store!Next
    <2>2. CASE torn' = torn \cup {t}
      BY <1>4, <1>7, <1>8, <2>2 DEF Store!Next, Store!Abandon
    <2> QED BY <1>6, <1>8, <2>1, <2>2
  <1>9. CASE Replace(w) \/ DeleteChunks(w)
    <2>1. CASE UNCHANGED points /\ torn' = torn \cup {t}
      BY <1>8, <2>1
    <2>2. CASE points' = [points EXCEPT ![req[w].at] = {}]
      <3>1. Found(t)' = NoRow
        <4>1. points'[t] = {}
          BY <1>1, <1>2, <2>2 DEF TypeOK
        <4> QED BY <4>1 DEF Found, Whole
      <3>2. Store!Clear(t)
        BY <1>1, <1>2, <1>5, <1>9, <3>1, StoreClear DEF Store!Clear, Replace, DeleteChunks
      <3> QED BY <1>4, <1>6, <1>8, <3>2 DEF Store!Write, Store!Next, Store!Abandon
    <2> QED BY <1>2, <1>9, <2>1, <2>2 DEF Replace, DeleteChunks, Purge, Tear
  <1>10. CASE Upsert(w)
    <2>1. req[w].body \in Bodies /\ ChunksOf[req[w].body] # {}
      BY <1>1, <1>10, TargetType DEF Upsert, UploadSteps, Chunked
    <2>2. CASE UNCHANGED points /\ torn' = torn \cup {t}
      BY <1>8, <2>2
    <2>3. CASE points' = [points EXCEPT ![t] = Upserted(@, req[w].body)]
      <3>1. points'[t] = Upserted(points[t], req[w].body)
        BY <1>1, <2>3 DEF TypeOK
      <3>2. CASE points[t] = {}
        <4>1. points'[t] = Stored(req[w].body)
          BY <3>1, <3>2 DEF Upserted
        <4>2. Found(t)' = req[w].body
          BY <2>1, <4>1, BodyOfStored DEF Found, Whole
        <4>3. Found(t) = NoRow
          BY <3>2, IndexOfNone
        <4>4. Store!Fill(t, req[w].body)
          BY <1>5, <4>2, <4>3 DEF Store!Fill
        <4> QED BY <1>4, <1>6, <2>1, <4>4 DEF Store!Write, Store!Next, Store!Abandon
      <3>3. CASE points[t] # {}
        <4>1. t \in torn /\ existing[w] = NoRow
          BY <1>1, <1>2, <1>10, <3>3 DEF Upsert, Stage
        <4>2. Recorded(t) = NoRow
          BY <1>1, <1>2, <1>10, <4>1, NothingToReplace DEF Upsert, Recorded, Indexed
        <4>3. Found(t)' \in Bodies \cup {Mixture}
          <5>1. points'[t] # {}
            BY <2>1, <3>1, BodyOfStored DEF Upserted
          <5>2. ASSUME NEW b \in Bodies, points'[t] = Stored(b)
                PROVE  BodyOf(points'[t]) \in Bodies
            BY <5>2 DEF BodyOf
          <5> QED BY <5>1, <5>2 DEF Found, Whole
        <4>4. Store!Overlay(t)
          BY <1>5, <4>1, <4>2, <4>3 DEF Store!Overlay
        <4> QED BY <1>4, <1>6, <4>4 DEF Store!Write, Store!Next, Store!Abandon
      <3> QED BY <3>2, <3>3
    <2> QED BY <1>2, <1>10, <2>2, <2>3 DEF Upsert, Tear
  <1> QED BY <1>9, <1>10

\* A pipeline step on the row is one.
LEMMA StoreCommits ==
    ASSUME Held, Chunked, NEW w \in Workers, UploadStep(w) \/ DeleteStep(w),
           Save(w) \/ Mark(w)
    PROVE  [Store!Next]_<<Catalogue, Index, torn>>
  <1>1. /\ TypeOK /\ Kept(w) /\ Stage(w) /\ pc[w] # "idle" /\ req[w].at \in Targets /\ UNCHANGED req
    BY PipelineStep, TargetType DEF Held, Ownership, Progress, Working
  <1>2. PICK t \in Targets : t = req[w].at
    BY <1>1
  <1>3. UNCHANGED points /\ UNCHANGED Index /\ t[2] = DocOf(w)
    BY <1>2, ViewsFrame DEF Save, Mark, vectors, DocOf
  <1>4. \A u \in Targets \ {t} : SameView(u)
    BY <1>2, OtherViews DEF Held
  <1>5. Catalogue' = [Catalogue EXCEPT ![t] = Recorded(t)'] /\ Index[t] = Found(t)
    BY <1>4, ViewFrame, ViewUpdate
  <1>6. ASSUME UNCHANGED rows, torn' = torn \cup {t}
        PROVE  [Store!Next]_<<Catalogue, Index, torn>>
    <2>1. UNCHANGED Catalogue
      BY <1>6, SameRows, ViewsFrame
    <2> QED BY <1>3, <1>6, <2>1 DEF Store!Next, Store!Abandon
  <1>7. ASSUME Recorded(t)' = Found(t), t \notin torn \/ points[t] = {}, torn' = torn \ {t}
        PROVE  [Store!Next]_<<Catalogue, Index, torn>>
    <2>1. t \in torn => Index[t] = NoRow
      BY <1>5, <1>7, IndexOfNone
    <2>2. Store!Commit(t)
      BY <1>3, <1>5, <1>7, <2>1 DEF Store!Commit
    <2> QED BY <2>2 DEF Store!Next
  <1>8. CASE Save(w)
    <2>1. CASE UNCHANGED rows /\ torn' = torn \cup {t}
      BY <1>6, <2>1
    <2>2. CASE ~req[w].named /\ rows' = [rows EXCEPT ![DocOf(w)] = NewRow(w)] /\ torn' = torn \ {t}
      <3>1. Saves(w, DocOf(w)) /\ NewRow(w) \in Rows
        BY <1>1, <1>8, <2>2, SavesRow
      <3>2. t \notin torn
        BY <1>1, <1>2, <1>8, <2>2 DEF Kept, Creating, Save, Fresh, TypeOK, UploadSteps
      <3>3. points[t] = Stored(req[w].body)
        BY <1>1, <1>2, <3>1, SavedInSync DEF Held
      <3>4. req[w].body \in Bodies /\ ChunksOf[req[w].body] # {}
        BY <1>1, <1>8, TargetType DEF Save, UploadSteps, Chunked
      <3>5. /\ rows'[t[2]] # NoRow /\ rows'[t[2]].scope = t[1]
            /\ rows'[t[2]].status = "active" /\ rows'[t[2]].body = req[w].body
        <4>1. rows'[t[2]] = NewRow(w)
          BY <1>3, <3>1 DEF Saves
        <4>2. NewRow(w).scope = t[1] /\ NewRow(w).status = "active" /\ NewRow(w).body = req[w].body
          BY <1>2 DEF NewRow, ScopeOf
        <4> QED BY <3>1, <4>1, <4>2, NullAssumption
      <3>6. Recorded(t)' = req[w].body
        BY <3>5 DEF Recorded, Indexed, HasRow
      <3>7. Found(t) = req[w].body
        BY <3>3, <3>4, IndexOfStored
      <3> QED BY <1>7, <2>2, <3>2, <3>6, <3>7
    <2> QED BY <1>2, <1>8, <2>1, <2>2 DEF Save, Tear
  <1>9. CASE Mark(w)
    <2>1. CASE UNCHANGED rows /\ torn' = torn \cup {t}
      BY <1>6, <2>1
    <2>2. CASE /\ rows[DocOf(w)] # NoRow /\ torn' = torn \ {t}
               /\ rows' = [rows EXCEPT ![DocOf(w)].status = "deleted",
                                       ![DocOf(w)].chunks = 0,
                                       ![DocOf(w)].refreshed = TRUE]
      <3>1. Marks(w, t[2])
        BY <1>1, <1>3, <1>9, <2>2, MarksRow
      <3>2. points[t] = {}
        BY <1>1, <1>2, <1>9 DEF Mark, Stage
      <3>3. Recorded(t)' = NoRow
        BY <3>1 DEF Marks, Recorded, Indexed
      <3> QED BY <1>7, <2>2, <3>2, <3>3, IndexOfNone
    <2> QED BY <1>2, <1>9, <2>1, <2>2 DEF Mark, Tear
  <1> QED BY <1>8, <1>9

LEMMA StoreStep ==
    Calm /\ Held /\ Chunked /\ [Next]_vars => [Store!Next]_<<Catalogue, Index, torn>>
  <1> SUFFICES ASSUME Calm, Held, Chunked, [Next]_vars
               PROVE  [Store!Next]_<<Catalogue, Index, torn>>
    OBVIOUS
  <1> USE DEF tables, vectors
  <1>1. ASSUME UNCHANGED <<rows, points>>
        PROVE  UNCHANGED <<Catalogue, Index>>
    BY <1>1, SameRows, ViewsFrame
  <1>2. ASSUME UNCHANGED <<rows, points, torn>>
        PROVE  [Store!Next]_<<Catalogue, Index, torn>>
    BY <1>1, <1>2
  <1>3. ASSUME NEW w \in Workers, NEW r \in Requests, Begin(w, r)
        PROVE  UNCHANGED <<rows, points, torn>>
    BY <1>3 DEF Begin
  <1>4. ASSUME NEW w \in Workers, LockStep(w) \/ SessionLost(w)
        PROVE  UNCHANGED <<rows, points, torn>>
    BY <1>4 DEF LockStep, Acquire, LockTimeout, Unlock, SessionLost
  <1>5. ASSUME NEW w \in Workers, DbFails(w) \/ Crash(w)
        PROVE  [Store!Next]_<<Catalogue, Index, torn>>
    <2>1. UNCHANGED <<rows, points>> /\ pc[w] # "idle" /\ Drop(w)
      BY <1>5 DEF DbFails, Crash
    <2>2. PICK t \in Targets : t = req[w].at
      BY <2>1, TargetType DEF Held
    <2>3. CASE torn' = torn \cup {t}
      BY <1>1, <2>1, <2>3 DEF Store!Next, Store!Abandon
    <2> QED BY <1>2, <2>1, <2>2, <2>3, DropLocal DEF Held
  <1>6. ASSUME NEW w \in Workers, Register(w) \/ Read(w) \/ Match(w) \/ EnsureCollection(w)
                                    \/ Embed(w) \/ Find(w)
        PROVE  UNCHANGED <<rows, points, torn>>
    BY <1>6 DEF Register, Read, Match, EnsureCollection, Embed, Find, Goto, Answer
  <1>7. ASSUME NEW w \in Workers, Touch(w)
        PROVE  UNCHANGED <<Catalogue, Index, torn>>
    <2>1. \A t \in Targets : SameView(t)
      BY <1>7, TouchAlike, AlikeView, TargetsAssumption DEF Held
    <2> QED BY <1>7, <2>1, ViewsFrame DEF Touch
  <1>8. ASSUME NEW d \in Docs, AdminDelete(d)
        PROVE  FALSE
    BY <1>8 DEF AdminDelete, Calm
  <1>9. CASE UNCHANGED vars
    BY <1>2, <1>9 DEF vars
  <1> QED
    BY <1>2, <1>3, <1>4, <1>5, <1>6, <1>7, <1>8, <1>9, StoreWrites, StoreCommits
       DEF Next, Step, UploadStep, DeleteStep, Disturbance

\* The two stores together, as requests and searches see them, are a store that
\* changes one whole body at a time, and says which documents are broken.
THEOREM PipelineImplementsStore ==
    ASSUME Calm
    PROVE  Spec => ImplementsStore
  <1> QED
    BY HeldAlways, ChunkedInit, ChunkedStep, StoreInit, StoreStep, PTL
       DEF Spec, ImplementsStore, Store!Spec, Held

-----------------------------------------------------------------------------
\* What a row leans on, and what a no_change answer leans on.

\* A worker past the step that makes it has the bot row, or the collection.
Anchored ==
    /\ RowsAnchored
    /\ \A w \in Workers :
         /\ pc[w] \in UploadSteps \ {"register"} => ScopeOf(w) \in bots
         /\ pc[w] \in {"embed", "replace", "upsert", "save"} => ScopeOf(w) \in colls

LEMMA AnchoredInit == Init => Anchored
  BY DEF Init, Anchored, RowsAnchored, UploadSteps

LEMMA AnchoredStep == TypeOK /\ Anchored /\ [Next]_vars => Anchored'
  <1> SUFFICES ASSUME TypeOK, Anchored, [Next]_vars
               PROVE  Anchored'
    OBVIOUS
  <1> DEFINE Past(v) == pc[v] \in UploadSteps \ {"register"}
             Ensured(v) == pc[v] \in {"embed", "replace", "upsert", "save"}
  <1> USE DEF tables, vectors
  \* Rows are saved by workers past both steps, and marking one asks for less.
  <1>1. ASSUME bots \subseteq bots', colls \subseteq colls'
        PROVE  RowsAnchored'
    <2>1. ASSUME NEW d \in Docs, NEW w \in Workers, Saves(w, d)
          PROVE  rows'[d].scope \in bots /\ rows'[d].scope \in colls
      BY <2>1 DEF Saves, Save, NewRow, Anchored, UploadSteps
    <2>2. ASSUME NEW d \in Docs, NEW w \in Workers, Marks(w, d)
          PROVE  rows'[d].scope \in bots /\ rows'[d].status # "active"
      BY <2>2 DEF Marks, Anchored, RowsAnchored
    <2>3. ASSUME NEW d \in Docs, Alike(d), rows'[d] # NoRow
          PROVE  /\ rows'[d].scope \in bots
                 /\ rows'[d].status = "active" => rows'[d].scope \in colls
      BY <2>3 DEF Alike, Anchored, RowsAnchored
    <2> QED BY <1>1, <2>1, <2>2, <2>3, RowsChange DEF RowsAnchored
  \* Bots and collections stay, so a step matters that brings a worker past one of the two.
  <1>2. ASSUME bots \subseteq bots', colls \subseteq colls',
               \A v \in Workers : /\ Past(v)' => Past(v) /\ UNCHANGED req[v]
                                  /\ Ensured(v)' => Ensured(v) /\ UNCHANGED req[v]
        PROVE  Anchored'
    BY <1>1, <1>2 DEF Anchored, ScopeOf
  <1>3. ASSUME NEW w \in Workers, NEW r \in Requests, Begin(w, r)
        PROVE  Anchored'
    BY <1>2, <1>3 DEF Begin, TypeOK, UploadSteps
  <1>4. ASSUME NEW w \in Workers, LockStep(w)
        PROVE  Anchored'
    BY <1>2, <1>4 DEF LockStep, Acquire, LockTimeout, Unlock, Goto, Finish, TypeOK, UploadSteps
  <1>5. ASSUME NEW w \in Workers, DbFails(w) \/ Crash(w)
        PROVE  Anchored'
    BY <1>2, <1>5, DropLocal DEF DbFails, Crash, UploadSteps
  <1>6. ASSUME NEW w \in Workers, Register(w)
        PROVE  Anchored'
    <2>1. /\ UNCHANGED <<req, colls>> /\ bots' = bots \cup {ScopeOf(w)}
          /\ \A v \in Workers \ {w} : pc'[v] = pc[v]
          /\ pc'[w] = "read"
      BY <1>6 DEF Register, Goto, TypeOK
    <2> QED BY <1>1, <2>1 DEF Anchored, ScopeOf
  <1>7. ASSUME NEW w \in Workers, Read(w) \/ Match(w) \/ Touch(w) \/ Find(w)
        PROVE  Anchored'
    BY <1>2, <1>7 DEF Read, Match, Touch, Find, Goto, Answer, TypeOK, UploadSteps
  <1>8. ASSUME NEW w \in Workers, EnsureCollection(w)
        PROVE  Anchored'
    <2>1. /\ UNCHANGED <<req, bots>> /\ colls \subseteq colls'
          /\ \A v \in Workers \ {w} : pc'[v] = pc[v]
          /\ pc[w] = "collection"
          /\ pc'[w] = "unlock" \/ (pc'[w] = "embed" /\ ScopeOf(w) \in colls')
      BY <1>8 DEF EnsureCollection, Goto, Answer, TypeOK
    <2> QED BY <1>1, <2>1 DEF Anchored, ScopeOf, UploadSteps
  <1>9. ASSUME NEW w \in Workers, Embed(w) \/ Replace(w) \/ Upsert(w) \/ DeleteChunks(w)
        PROVE  Anchored'
    BY <1>2, <1>9 DEF Embed, Replace, Upsert, DeleteChunks, Purge, Goto, Answer, Tear, TypeOK,
       UploadSteps
  <1>10. ASSUME NEW w \in Workers, Save(w) \/ Mark(w)
         PROVE  Anchored'
    BY <1>2, <1>10 DEF Save, Mark, Answer, Tear, TypeOK, UploadSteps
  <1>11. CASE UNCHANGED <<bots, colls, locals>>
    BY <1>2, <1>11 DEF locals
  <1> QED
    BY <1>3, <1>4, <1>5, <1>6, <1>7, <1>8, <1>9, <1>10, <1>11
       DEF Next, Step, UploadStep, DeleteStep, Disturbance, SessionLost, AdminDelete, vars

\* Whatever fails, a row has its bot, and an active row its collection.
THEOREM RowsHaveAnchors == Spec => []RowsAnchored
  <1>1. Anchored => RowsAnchored
    BY DEF Anchored
  <1> QED
    BY <1>1, TypeInit, TypeStep, AnchoredInit, AnchoredStep, PTL DEF Spec

\* A worker on its way to a no_change for its own document has compared it, and
\* nobody else wrote the row since; a deleted row counts no chunks.
Claims(w) ==
    /\ pc[w] = "touch" \/ Unchanged(w)
    /\ hit[w] = DocOf(w)

Compared ==
    /\ \A d \in Docs : (rows[d] # NoRow /\ rows[d].status = "deleted") => rows[d].chunks = 0
    /\ \A w \in Workers : Claims(w) => UpToDate(w)

LEMMA ComparedInit == Init => Compared
  BY DEF Init, Compared, Claims, Unchanged

\* The comparison depends on what the owner of the target sees.
LEMMA UpToDateFrame ==
    ASSUME NEW v \in Workers, SameView(req[v].at), UNCHANGED req[v]
    PROVE  UpToDate(v) => UpToDate(v)'
  BY DEF SameView, UpToDate, Mine, HasRow, SameContent, DocOf

LEMMA ComparedStep ==
    Calm /\ Held /\ Compared /\ [Next]_vars => Compared'
  <1> SUFFICES ASSUME Calm, Held, Compared, [Next]_vars
               PROVE  Compared'
    OBVIOUS
  <1> USE DEF tables, vectors
  <1>1. ASSUME NEW d \in Docs, rows'[d] # NoRow, rows'[d].status = "deleted"
        PROVE  rows'[d].chunks = 0
    <2>1. ASSUME NEW w \in Workers, Saves(w, d)
          PROVE  FALSE
      BY <1>1, <2>1 DEF Saves, NewRow
    <2> QED BY <1>1, <2>1, RowsChange DEF Held, Alike, Marks, Compared
  <1>2. ASSUME UNCHANGED rows, \A v \in Workers : Claims(v)' => Claims(v) /\ UNCHANGED req[v]
        PROVE  Compared'
    BY <1>1, <1>2, SameRows, UpToDateFrame DEF Compared
  <1>3. ASSUME NEW w \in Workers, NEW r \in Requests, Begin(w, r)
        PROVE  Compared'
    BY <1>2, <1>3 DEF Begin, Claims, Unchanged, DocOf, Held, TypeOK
  <1>4. ASSUME NEW w \in Workers, LockStep(w)
        PROVE  Compared'
    BY <1>2, <1>4 DEF LockStep, Acquire, LockTimeout, Unlock, Goto, Finish, Claims, Unchanged, DocOf,
       Held, TypeOK
  <1>5. ASSUME NEW w \in Workers, Crash(w)
        PROVE  Compared'
    BY <1>2, <1>5, DropLocal DEF Crash, Claims, Unchanged, DocOf, Held
  <1>6. ASSUME NEW w \in Workers, UploadStep(w) \/ DeleteStep(w)
        PROVE  Compared'
    <2>1. /\ UNCHANGED req /\ req[w].at \in Targets /\ Working(w) /\ TypeOK
          /\ \A v \in Workers \ {w} : UNCHANGED <<pc[v], existing[v], hit[v], reply[v]>>
      BY <1>6, PipelineStep, StepLocal, TargetType DEF Held, Working
    \* Other workers inside have other targets.
    <2>2. ASSUME NEW v \in Workers, v # w, Claims(v)'
          PROVE  UpToDate(v)'
      <3>1. Claims(v) /\ Working(v)
        BY <2>1, <2>2 DEF Claims, Unchanged, DocOf, Working
      <3>2. req[v].at \in Targets /\ req[v].at # req[w].at
        BY <2>1, <2>2, <3>1, OneInside, TargetType DEF Held, Working
      <3>3. SameView(req[v].at)
        BY <1>6, <3>2, OtherViews DEF Held
      <3>4. UNCHANGED req[v] /\ UpToDate(v)
        BY <2>1, <3>1 DEF Compared
      <3> QED BY <3>3, <3>4, UpToDateFrame
    \* The worker itself: what it finds, and what it touches.
    <2>3. ASSUME Claims(w)'
          PROVE  UpToDate(w) /\ (Read(w) \/ Touch(w))
      <3> USE DEF Claims, Unchanged, DocOf, TypeOK, Goto, Answer, Tear
      <3>1. CASE Read(w)
        BY <2>1, <2>3, <3>1 DEF Read
      <3>2. CASE Match(w)
        BY <2>1, <2>3, <3>2 DEF Match, Duplicates
      <3>3. CASE Touch(w)
        BY <2>1, <2>3, <3>3 DEF Touch, Compared
      <3>4. CASE Register(w) \/ EnsureCollection(w) \/ Embed(w)
        BY <2>1, <2>3, <3>4 DEF Register, EnsureCollection, Embed, QdrantFailures
      <3>5. CASE Replace(w) \/ DeleteChunks(w) \/ Upsert(w)
        BY <2>1, <2>3, <3>5 DEF Replace, DeleteChunks, Upsert, Purge, QdrantFailures
      <3>6. CASE Save(w) \/ Find(w) \/ Mark(w)
        BY <2>1, <2>3, <3>6 DEF Save, Find, Mark
      <3> QED BY <1>6, <3>1, <3>2, <3>3, <3>4, <3>5, <3>6 DEF UploadStep, DeleteStep
    <2>4. ASSUME Claims(w)'
          PROVE  UpToDate(w)'
      <3>1. SameView(req[w].at)
        <4>1. CASE Read(w)
          BY <4>1, SameRows DEF Read
        <4>2. CASE Touch(w)
          BY <2>1, <4>2, TouchAlike, AlikeView, TargetsAssumption
        <4> QED BY <2>3, <2>4, <4>1, <4>2
      <3> QED BY <2>1, <2>3, <2>4, <3>1, UpToDateFrame
    <2> QED BY <1>1, <2>2, <2>4 DEF Compared
  <1>7. ASSUME NEW w \in Workers, DbFails(w) \/ SessionLost(w)
        PROVE  FALSE
    BY <1>7 DEF DbFails, SessionLost, Calm, Held, Progress
  <1>8. ASSUME NEW d \in Docs, AdminDelete(d)
        PROVE  FALSE
    BY <1>8 DEF AdminDelete, Calm
  <1>9. CASE UNCHANGED vars
    BY <1>2, <1>9 DEF vars, locals, Claims, Unchanged, DocOf
  <1> QED
    BY <1>3, <1>4, <1>5, <1>6, <1>7, <1>8, <1>9 DEF Next, Step, Disturbance

\* A client told no_change about its own document finds it recorded with that content,
\* and all of it indexed unless the document was left half-written, whatever other
\* uploads and deletes run.
THEOREM NoChangeIsTrue ==
    ASSUME Calm
    PROVE  Spec => []NoChangeHonest
  <1>1. Held /\ Compared => NoChangeHonest
    <2> SUFFICES ASSUME Held, Compared, NEW w \in Workers, Unchanged(w), hit[w] = DocOf(w)
                 PROVE  /\ Indexed(req[w].at) /\ SameContent(rows[DocOf(w)], req[w].body)
                        /\ Settled(req[w].at)
      BY DEF NoChangeHonest
    <2>1. UpToDate(w) /\ Settled(req[w].at) /\ DocOf(w) \in Docs
      BY TargetType DEF Compared, Claims, Unchanged, Held, Progress, Stage, Working
    <2>2. rows[DocOf(w)] \in Rows /\ rows[DocOf(w)].status # "deleted"
      BY <2>1 DEF Compared, UpToDate, Mine, HasRow, Held, TypeOK, DocOf
    <2> QED BY <2>1, <2>2 DEF UpToDate, Mine, HasRow, Indexed, Rows, DocOf
  <1> QED BY <1>1, HeldAlways, ComparedInit, ComparedStep, PTL DEF Spec

-----------------------------------------------------------------------------
\* When an upload or a delete ends in an internal error.

\* The faults that are answered as one, or take rows away.
Raising == {"collection", "embed", "purge", "save", "admin"}

NamedUpload(w) == req[w] \in Requests /\ req[w].op = "upload" /\ req[w].named

OnlyNamedUploadsFail ==
    \A w \in Workers : (pc[w] = "unlock" /\ reply[w] = "internal_error") => NamedUpload(w)

\* A worker about to touch or to mark a row has found it, and nobody takes rows away.
Certain ==
    /\ OnlyNamedUploadsFail
    /\ \A w \in Workers : /\ pc[w] = "touch" => rows[hit[w]] # NoRow
                          /\ pc[w] \in {"purge", "mark"} => rows[DocOf(w)] # NoRow

LEMMA CertainStep ==
    ASSUME Faults \cap Raising = {}, TypeOK, Certain, [Next]_vars
    PROVE  Certain'
  <1> DEFINE Sure(v) == /\ (pc[v] = "unlock" /\ reply[v] = "internal_error") => NamedUpload(v)
                        /\ pc[v] = "touch" => rows[hit[v]] # NoRow
                        /\ pc[v] \in {"purge", "mark"} => rows[DocOf(v)] # NoRow
  <1>1. \A v \in Workers : Sure(v)
    BY DEF Certain, OnlyNamedUploadsFail
  <1>2. (\A v \in Workers : Sure(v)') => Certain'
    BY DEF Certain, OnlyNamedUploadsFail
  \* Rows stay.
  <1>3. ASSUME NEW d \in Docs, rows[d] # NoRow
        PROVE  rows'[d] # NoRow
    <2>1. ASSUME NEW w \in Workers, Saves(w, d)
          PROVE  rows'[d] # NoRow
      BY <2>1, SavesRow, NullAssumption DEF Saves
    <2> QED BY <1>3, <2>1, RowsChange, NullAssumption DEF Alike, Marks, Raising
  \* So the workers that do nothing are as sure as before.
  <1>4. ASSUME NEW v \in Workers, UNCHANGED <<pc[v], req[v], hit[v], reply[v]>>
        PROVE  Sure(v)'
    <2>1. /\ pc[v] = "touch" => hit[v] \in Docs
          /\ pc[v] \in {"purge", "mark"} => DocOf(v) \in Docs
      BY TargetType DEF TypeOK
    <2> QED BY <1>1, <1>3, <1>4, <2>1 DEF DocOf, NamedUpload
  <1>5. ASSUME NEW w \in Workers, Sure(w)',
               \A v \in Workers \ {w} : UNCHANGED <<pc[v], req[v], hit[v], reply[v]>>
        PROVE  Certain'
    BY <1>2, <1>4, <1>5
  <1>6. ASSUME NEW w \in Workers, pc'[w] \notin {"touch", "purge", "mark", "unlock"}
        PROVE  Sure(w)'
    BY <1>6
  <1>7. ASSUME NEW w \in Workers, pc'[w] = "unlock", reply'[w] # "internal_error"
        PROVE  Sure(w)'
    BY <1>7
  <1>8. ASSUME NEW w \in Workers, NEW r \in Requests, Begin(w, r)
        PROVE  Certain'
    BY <1>5, <1>6, <1>8 DEF Begin, TypeOK
  <1>9. ASSUME NEW w \in Workers, LockStep(w)
        PROVE  Certain'
    BY <1>5, <1>6, <1>9 DEF LockStep, Acquire, LockTimeout, Unlock, Goto, Finish, TypeOK
  <1>10. ASSUME NEW w \in Workers, DbFails(w) \/ Crash(w)
         PROVE  Certain'
    BY <1>5, <1>6, <1>10, DropLocal DEF DbFails, Crash
  <1>11. ASSUME NEW w \in Workers, UploadStep(w) \/ DeleteStep(w)
         PROVE  Certain'
    <2>1. /\ UNCHANGED req /\ pc[w] # "idle"
          /\ \A v \in Workers \ {w} : UNCHANGED <<pc[v], req[v], hit[v], reply[v]>>
      BY <1>11, PipelineStep, StepLocal DEF Working
    <2> SUFFICES Sure(w)'
      BY <1>5, <2>1
    <2> USE DEF Goto, Answer, Tear, TypeOK, Raising
    <2>2. CASE Register(w) \/ EnsureCollection(w) \/ Embed(w)
      <3>1. \/ pc'[w] \in {"read", "embed", "replace", "upsert"}
            \/ pc'[w] = "unlock" /\ reply'[w] # "internal_error"
        BY <2>2 DEF Register, EnsureCollection, Embed
      <3> QED BY <1>6, <1>7, <3>1
    <2>3. CASE Replace(w) \/ Upsert(w)
      <3>1. \/ pc'[w] \in {"upsert", "save"}
            \/ pc'[w] = "unlock" /\ reply'[w] # "internal_error"
        BY <2>3 DEF Replace, Purge, Upsert
      <3> QED BY <1>6, <1>7, <3>1
    <2>4. CASE Read(w)
      <3>1. \/ pc'[w] = "match"
            \/ pc'[w] = "unlock" /\ reply'[w] # "internal_error"
            \/ pc'[w] = "touch" /\ hit'[w] = DocOf(w) /\ Mine(w) /\ UNCHANGED rows
        BY <2>4 DEF Read, UpToDate, tables
      <3>2. Mine(w) => rows[DocOf(w)] # NoRow
        BY DEF Mine, HasRow, DocOf
      <3> QED BY <1>6, <1>7, <3>1, <3>2
    <2>5. CASE Match(w)
      <3>1. \/ pc'[w] = "collection"
            \/ pc'[w] = "touch" /\ rows'[hit'[w]] # NoRow
        BY <2>5 DEF Match, Duplicates, tables
      <3> QED BY <1>6, <3>1
    <2>6. CASE Touch(w)
      <3>1. pc'[w] = "unlock" /\ reply'[w] = "no_change"
        BY <1>1, <2>6 DEF Touch
      <3> QED BY <1>7, <3>1
    <2>7. CASE Save(w)
      <3>1. CASE req[w].named
        <4>1. NamedUpload(w) /\ pc'[w] = "unlock"
          BY <2>7, <3>1 DEF Save, NamedUpload, UploadSteps
        <4> QED BY <2>1, <4>1 DEF NamedUpload
      <3>2. CASE ~req[w].named
        BY <1>7, <2>7, <3>2 DEF Save
      <3> QED BY <3>1, <3>2
    <2>8. CASE Find(w)
      <3>1. \/ pc'[w] = "unlock" /\ reply'[w] # "internal_error"
            \/ pc'[w] = "purge" /\ Mine(w) /\ UNCHANGED rows
        BY <2>8 DEF Find, tables
      <3>2. Mine(w) => rows[DocOf(w)] # NoRow
        BY DEF Mine, HasRow, DocOf
      <3>3. DocOf(w)' = DocOf(w)
        BY <2>1 DEF DocOf
      <3> QED BY <1>7, <3>1, <3>2, <3>3
    <2>9. CASE DeleteChunks(w)
      <3>1. pc'[w] = "mark" /\ UNCHANGED rows /\ pc[w] = "purge"
        BY <2>9 DEF DeleteChunks, Purge, tables
      <3>2. DocOf(w)' = DocOf(w)
        BY <2>1 DEF DocOf
      <3> QED BY <1>1, <3>1, <3>2
    <2>10. CASE Mark(w)
      <3>1. pc'[w] = "unlock" /\ reply'[w] = "deleted"
        BY <1>1, <2>10 DEF Mark
      <3> QED BY <1>7, <3>1
    <2> QED BY <1>11, <2>2, <2>3, <2>4, <2>5, <2>6, <2>7, <2>8, <2>9, <2>10
            DEF UploadStep, DeleteStep
  <1>12. ASSUME UNCHANGED locals
         PROVE  Certain'
    BY <1>2, <1>4, <1>12 DEF locals
  <1> QED
    BY <1>8, <1>9, <1>10, <1>11, <1>12
       DEF Next, Step, Disturbance, SessionLost, AdminDelete, vars

\* While collections are made, the tokenizer loads, Qdrant takes deletes, Postgres
\* takes the last statement and no operator deletes rows, the only pipelines that
\* end in an internal error are the uploads that name their document: Qdrant may
\* refuse upserts, sessions be cut and workers killed.
THEOREM InternalErrorsExplained ==
    ASSUME Faults \cap Raising = {}
    PROVE  Spec => []OnlyNamedUploadsFail
  <1>1. Init => Certain
    BY DEF Init, Certain, OnlyNamedUploadsFail
  <1>2. TypeOK /\ Certain /\ [Next]_vars => Certain'
    BY CertainStep
  <1>3. Certain => OnlyNamedUploadsFail
    BY DEF Certain
  <1> QED BY <1>1, <1>2, <1>3, TypeInit, TypeStep, PTL DEF Spec

=============================================================================
