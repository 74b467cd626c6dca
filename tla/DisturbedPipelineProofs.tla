----------------------- MODULE DisturbedPipelineProofs -----------------------
(***************************************************************************)
(* Theorems about DisturbedPipeline, for any faults and any number of calls   *)
(* on their way: what the answer of a request still means when the stores     *)
(* change under it, and who can change them.  The lemmas about the pipelines  *)
(* themselves are those of DocumentPipelineProofs.                           *)
(***************************************************************************)
EXTENDS DisturbedPipeline, DocumentPipelineProofs

Calls == [call : {"delete"}, at : Targets]
            \cup [call : {"upsert"}, at : Targets, body : Bodies]

DisturbedTypes == TypeOK /\ late \subseteq Calls

\* What happens is a step of the pipelines, a call that goes astray, or a change
\* of the stores from elsewhere.
LEMMA DisturbedSteps ==
    ASSUME [DisturbedNext]_allVars
    PROVE  \/ [Next]_vars
           \/ \E w \in Workers : GiveUp(w) \/ RetryDelete(w)
           \/ \E c \in late : Land(c)
           \/ RestoreRows
           \/ \E s \in Scopes : RestorePoints(s)
  <1>1. CASE UNCHANGED allVars
    BY <1>1 DEF allVars
  <1>2. ASSUME NEW w \in Workers, NEW r \in Requests, BeginAnew(w, r)
        PROVE  Next
    BY <1>2 DEF BeginAnew, Next
  <1>3. CASE (\E w \in Workers : Step(w)) \/ Disturbance
    BY <1>3 DEF Next
  <1> QED BY <1>1, <1>2, <1>3 DEF DisturbedNext

-----------------------------------------------------------------------------
\* Types.

LEMMA SentType ==
    ASSUME TypeOK, NEW w \in Workers, pc[w] \in {"replace", "purge", "upsert"}
    PROVE  Sent(w) \in Calls /\ DeleteCall(w) \in Calls
  <1>1. req[w].at \in Targets /\ (pc[w] = "upsert" => req[w].body \in Bodies)
    BY TargetType DEF UploadSteps
  <1> QED BY <1>1 DEF Sent, UpsertCall, DeleteCall, Calls

\* A dump has rows, a snapshot points.
LEMMA RestoredType ==
    ASSUME TypeOK
    PROVE  /\ \A d \in Docs : DumpedRows(d) \subseteq Rows \cup {NoRow}
           /\ \A s \in Snapshots : s \in SUBSET Point
  <1>1. ASSUME NEW d \in Docs, NEW r \in DumpedRows(d), r # NoRow
        PROVE  r \in Rows
    <2>1. PICK t \in {u \in Targets : u[2] = d /\ u[1] \in bots \cap colls},
               b \in Bodies, st \in {"active", "deleted"}, touched \in BOOLEAN :
            r = [scope |-> t[1], body |-> b, status |-> st,
                 chunks |-> IF st = "active" THEN Cardinality(ChunksOf[b]) ELSE 0,
                 refreshed |-> touched]
      BY <1>1 DEF DumpedRows
    <2>2. t[1] \in Scopes
      BY TargetsAssumption
    <2>3. (IF st = "active" THEN Cardinality(ChunksOf[b]) ELSE 0) \in Nat
      BY ChunkCount
    <2> QED BY <2>1, <2>2, <2>3 DEF Rows
  <1>2. \A a, b \in Bodies : Upserted(Stored(a), b) \in SUBSET Point
    BY StoredType, UpsertedType
  <1> QED BY <1>1, <1>2 DEF Snapshots

LEMMA GiveUpType ==
    ASSUME TypeOK, NEW w \in Workers, GiveUp(w)
    PROVE  TypeOK'
  <1> USE DEF tables, vectors
  <1>1. /\ pc[w] \in {"replace", "purge", "upsert"} /\ pc[w] # "idle"
        /\ UNCHANGED <<rows, bots, points, colls>> /\ torn' = torn \cup {req[w].at}
    BY DEF GiveUp
  <1>2. torn' \subseteq Targets
    BY <1>1, TargetType DEF TypeOK
  <1>3. ASSUME NEW outcome \in Replies, Answer(w, outcome), UNCHANGED <<lock, session>>
        PROVE  TypeOK'
    BY <1>1, <1>2, <1>3, AnswerType DEF TypeOK
  <1>4. CASE ReleaseAll(w) /\ Finish(w) /\ session' = [session EXCEPT ![w] = TRUE]
    <2>1. lock' \in [Keys -> Workers \cup {Nobody}] /\ session' \in [Workers -> BOOLEAN]
      BY <1>4 DEF ReleaseAll, TypeOK
    <2> QED BY <1>1, <1>2, <1>4, <2>1, FinishType DEF TypeOK
  <1> QED BY <1>3, <1>4 DEF GiveUp, QdrantFailures, Replies

LEMMA RetryDeleteType ==
    ASSUME TypeOK, NEW w \in Workers, RetryDelete(w)
    PROVE  TypeOK'
  <1> DEFINE step == IF pc[w] = "replace" THEN "upsert" ELSE "mark"
  <1>1. /\ pc[w] \in {"replace", "purge"} /\ Goto(w, step)
        /\ UNCHANGED <<rows, bots, lock, session, colls, torn>>
    BY DEF RetryDelete, tables
  <1>2. points' \in [Targets -> SUBSET Point]
    BY DEF RetryDelete, TypeOK
  <1>3. /\ step \in Steps \ {"idle", "touch"} /\ pc[w] # "idle"
        /\ step \in UploadSteps => req[w].op = "upload"
    BY <1>1 DEF Steps, UploadSteps, TypeOK
  <1> HIDE DEF step
  <1> QED BY <1>1, <1>2, <1>3, GotoType DEF TypeOK

LEMMA LandType ==
    ASSUME TypeOK, late \subseteq Calls, NEW c \in late, Land(c)
    PROVE  TypeOK'
  <1>1. c.at \in Targets /\ (c.call # "delete" => c.body \in Bodies)
    BY DEF Calls
  <1>2. points[c.at] \in SUBSET Point
    BY <1>1 DEF TypeOK
  <1>3. points' \in [Targets -> SUBSET Point]
    BY <1>1, <1>2, UpsertedType DEF Land, TypeOK
  <1> QED BY <1>3 DEF Land, TypeOK, locals, tables

LEMMA RestoreType ==
    ASSUME TypeOK, RestoreRows \/ \E s \in Scopes : RestorePoints(s)
    PROVE  TypeOK'
  <1>1. CASE RestoreRows
    <2>1. rows' \in [Docs -> Rows \cup {NoRow}]
      BY <1>1, RestoredType DEF RestoreRows
    <2> QED BY <1>1, <2>1 DEF RestoreRows, TypeOK, locals, vectors
  <1>2. ASSUME NEW s \in Scopes, RestorePoints(s)
        PROVE  TypeOK'
    <2>1. PICK old \in [Targets -> Snapshots] :
            points' = [t \in Targets |-> IF t[1] = s THEN old[t] ELSE points[t]]
      BY <1>2 DEF RestorePoints
    <2>2. \A t \in Targets : old[t] \in SUBSET Point
      BY RestoredType
    <2>3. points' \in [Targets -> SUBSET Point]
      BY <2>1, <2>2 DEF TypeOK
    <2> QED BY <1>2, <2>3 DEF RestorePoints, TypeOK, locals, tables
  <1> QED BY <1>1, <1>2

LEMMA DisturbedTypesStep == DisturbedTypes /\ [DisturbedNext]_allVars => DisturbedTypes'
  <1> SUFFICES ASSUME TypeOK, late \subseteq Calls, [DisturbedNext]_allVars
               PROVE  TypeOK' /\ late' \subseteq Calls
    BY DEF DisturbedTypes
  <1>1. TypeOK'
    BY DisturbedSteps, TypeStep, GiveUpType, RetryDeleteType, LandType, RestoreType
  <1>2. ASSUME NEW w \in Workers, GiveUp(w) \/ RetryDelete(w)
        PROVE  late' \subseteq Calls
    BY <1>2, SentType DEF GiveUp, RetryDelete
  <1>3. ASSUME NEW w \in Workers, NEW r \in Requests, BeginAnew(w, r)
        PROVE  UNCHANGED late
    BY <1>3 DEF BeginAnew
  <1> QED BY <1>1, <1>2, <1>3 DEF DisturbedNext, Land, RestoreRows, RestorePoints, allVars

\* Neither calls that arrive late nor restores leave anything in the stores that
\* is not a row or a point.
THEOREM DisturbedTypeCorrect == DisturbedSpec => []TypeOK
  <1>1. DisturbedInit => DisturbedTypes
    BY TypeInit DEF DisturbedInit, DisturbedTypes
  <1>2. DisturbedTypes => TypeOK
    BY DEF DisturbedTypes
  <1> QED BY <1>1, <1>2, DisturbedTypesStep, PTL DEF DisturbedSpec

-----------------------------------------------------------------------------
\* The lock.

LEMMA DisturbedExclusiveStep ==
    TypeOK /\ Exclusive /\ [DisturbedNext]_allVars => Exclusive'
  <1> SUFFICES ASSUME TypeOK, Exclusive, [DisturbedNext]_allVars
               PROVE  Exclusive'
    OBVIOUS
  <1>1. ASSUME UNCHANGED <<lock, session, req>>,
               \A w \in Workers : Working(w)' <=> Working(w)
        PROVE  Exclusive'
    BY <1>1 DEF Exclusive, KeyFor
  <1>2. ASSUME NEW w \in Workers, GiveUp(w)
        PROVE  Exclusive'
    <2>1. ASSUME NEW outcome, Answer(w, outcome), UNCHANGED <<lock, session>>
          PROVE  Exclusive'
      BY <1>1, <1>2, <2>1 DEF GiveUp, Answer, Working, TypeOK
    <2>2. CASE ReleaseAll(w) /\ Finish(w) /\ session' = [session EXCEPT ![w] = TRUE]
      BY <2>2, NullAssumption DEF ReleaseAll, Finish, TypeOK, Exclusive, Working, KeyFor
    <2> QED BY <1>2, <2>1, <2>2 DEF GiveUp
  <1>3. ASSUME NEW w \in Workers, RetryDelete(w)
        PROVE  Exclusive'
    BY <1>1, <1>3 DEF RetryDelete, Goto, Working, TypeOK
  <1>4. ASSUME UNCHANGED <<lock, session, locals>>
        PROVE  Exclusive'
    BY <1>1, <1>4 DEF locals, Working
  <1> QED
    BY <1>2, <1>3, <1>4, DisturbedSteps, ExclusiveStep DEF Land, RestoreRows, RestorePoints

\* upload_lock keeps its promise whatever reaches the stores from elsewhere.
THEOREM DisturbedLockTableCorrect == DisturbedSpec => []Exclusive
  <1>1. DisturbedInit => DisturbedTypes /\ Exclusive
    BY TypeInit, ExclusiveInit DEF DisturbedInit, DisturbedTypes
  <1>2. DisturbedTypes => TypeOK
    BY DEF DisturbedTypes
  <1> QED
    BY <1>1, <1>2, DisturbedTypesStep, DisturbedExclusiveStep, PTL DEF DisturbedSpec

-----------------------------------------------------------------------------
\* Whose step it is.

Still(w) == UNCHANGED <<pc[w], req[w], existing[w], reply[w]>>

OwnStep(w) ==
    Acquire(w) \/ UploadStep(w) \/ DeleteStep(w) \/ GiveUp(w) \/ RetryDelete(w)

\* Whatever step is taken, a worker that is inside a pipeline afterwards took it
\* itself, from the lock on, or is where it was.
LEMMA StillOrOwn ==
    ASSUME TypeOK, [DisturbedNext]_allVars, NEW w \in Workers, Working(w)'
    PROVE  Still(w) \/ OwnStep(w)
  <1> USE DEF Working, TypeOK
  <1>1. ASSUME NEW v \in Workers, NEW r \in Requests, Begin(v, r)
        PROVE  Still(w)
    BY <1>1 DEF Begin, Still
  <1>2. ASSUME NEW v \in Workers, Acquire(v), v # w
        PROVE  Still(w)
    BY <1>2 DEF Acquire, Goto, Still
  <1>3. ASSUME NEW v \in Workers, Finish(v)
        PROVE  Still(w)
    BY <1>3 DEF Finish, Still
  <1>4. ASSUME NEW v \in Workers, LockTimeout(v) \/ Unlock(v) \/ DbFails(v) \/ Crash(v)
        PROVE  Still(w)
    BY <1>3, <1>4 DEF LockTimeout, Unlock, DbFails, Crash, Drop
  <1>5. ASSUME NEW v \in Workers, UploadStep(v) \/ DeleteStep(v), v # w
        PROVE  Still(w)
    BY <1>5, PipelineStep, StepLocal DEF Still
  <1>6. ASSUME NEW v \in Workers, GiveUp(v), v # w
        PROVE  Still(w)
    BY <1>3, <1>6 DEF GiveUp, Answer, Still
  <1>7. ASSUME NEW v \in Workers, RetryDelete(v), v # w
        PROVE  Still(w)
    BY <1>7 DEF RetryDelete, Goto, Still
  <1>8. ASSUME UNCHANGED locals
        PROVE  Still(w)
    BY <1>8 DEF locals, Still
  <1>9. CASE [Next]_vars
    BY <1>1, <1>2, <1>4, <1>5, <1>8, <1>9
       DEF Next, Step, LockStep, Disturbance, SessionLost, AdminDelete, OwnStep, vars
  <1> QED
    BY <1>6, <1>7, <1>8, <1>9, DisturbedSteps
       DEF Land, RestoreRows, RestorePoints, OwnStep

\* A worker's own step moves it on with the request it has.
LEMMA OwnStepMoves ==
    ASSUME TypeOK, NEW w \in Workers, OwnStep(w)
    PROVE  /\ pc[w] \notin {"idle", "unlock"} /\ pc'[w] # pc[w]
           /\ pc'[w] # "idle" => req'[w] = req[w]
  <1> USE DEF Goto, Answer, Tear, Finish, TypeOK
  <1>1. CASE Acquire(w) \/ Register(w) \/ Read(w) \/ Match(w)
    BY <1>1 DEF Acquire, Register, Read, Match
  <1>2. CASE Touch(w) \/ EnsureCollection(w)
    BY <1>2 DEF Touch, EnsureCollection
  <1>3. CASE Embed(w)
    BY <1>3 DEF Embed
  <1>4. CASE Replace(w) \/ DeleteChunks(w)
    BY <1>4 DEF Replace, DeleteChunks, Purge
  <1>5. CASE Upsert(w) \/ Save(w)
    BY <1>5 DEF Upsert, Save
  <1>6. CASE Find(w) \/ Mark(w)
    BY <1>6 DEF Find, Mark
  <1>7. CASE GiveUp(w)
    BY <1>7 DEF GiveUp
  <1>8. CASE RetryDelete(w)
    BY <1>8 DEF RetryDelete
  <1> QED
    BY <1>1, <1>2, <1>3, <1>4, <1>5, <1>6, <1>7, <1>8 DEF OwnStep, UploadStep, DeleteStep

-----------------------------------------------------------------------------
\* Rows stay their owners', whatever reaches the stores from elsewhere.

\* No write is on its way to an id that a worker has drawn and not yet answered.
Apart(w) ==
    (Creating(w) /\ pc[w] # "unlock") =>
        \A c \in late : c.at[2] = DocOf(w) => c.call = "delete"

LateApart == \A w \in Workers : Apart(w)

\* Calls that go astray are of the worker's own document.
LEMMA AstrayLocal ==
    ASSUME TypeOK, NEW w \in Workers, GiveUp(w) \/ RetryDelete(w)
    PROVE  /\ pc[w] # "idle" /\ UNCHANGED rows
           /\ \A v \in Workers \ {w} : UNCHANGED <<pc[v], req[v], existing[v]>>
           /\ UNCHANGED req[w] \/ pc'[w] = "idle"
           /\ \A t \in Targets \ {req[w].at} : /\ points'[t] = points[t]
                                               /\ t \in torn' <=> t \in torn
  <1> USE DEF Goto, Answer, Finish, tables, vectors, TypeOK
  <1>1. CASE GiveUp(w)
    BY <1>1 DEF GiveUp
  <1>2. CASE RetryDelete(w)
    BY <1>2 DEF RetryDelete
  <1> QED BY <1>1, <1>2

LEMMA AstrayOwnership ==
    ASSUME TypeOK, Ownership, NEW w \in Workers, GiveUp(w) \/ RetryDelete(w)
    PROVE  Ownership'
  <1>1. pc[w] # "idle" /\ UNCHANGED rows /\ Kept(w) /\ req[w].at \in Targets
    BY AstrayLocal, TargetType DEF Ownership
  <1>2. \A d \in Docs : RowStays(d)
    BY <1>1 DEF RowStays, Stays
  <1>3. ASSUME NEW v \in Workers, v # w
        PROVE  Kept(v)'
    <2>1. CASE pc[v] = "idle"
      BY <1>3, <2>1, AstrayLocal DEF Kept, Creating
    <2>2. CASE pc[v] # "idle"
      BY <1>1, <1>2, <1>3, <2>2, AstrayLocal, KeptFrame
    <2> QED BY <2>1, <2>2
  <1>4. CASE GiveUp(w)
    <2>1. \/ Finish(w)
          \/ \E outcome : Answer(w, outcome)
      BY <1>4 DEF GiveUp
    <2>2. ASSUME Finish(w)
          PROVE  Kept(w)'
      BY <2>2 DEF Finish, TypeOK, Kept, Creating
    <2>3. ASSUME NEW outcome, Answer(w, outcome)
          PROVE  Kept(w)'
      <3>0. pc'[w] = "unlock" /\ UNCHANGED req
        BY <2>3 DEF Answer, TypeOK
      <3>1. Creating(w)' => \A v \in Workers \ {w} : pc'[v] # "idle" => DocOf(v)' # DocOf(w)'
        BY <1>1, <3>0, AstrayLocal DEF Kept, Creating, DocOf
      <3> QED BY <3>0, <3>1 DEF Kept
    <2>4. Kept(w)'
      BY <2>1, <2>2, <2>3
    <2> QED BY <1>3, <2>4 DEF Ownership
  <1>5. CASE RetryDelete(w)
    <2>1. /\ pc[w] \in {"replace", "purge"} /\ UNCHANGED <<req, existing, torn>>
          /\ pc'[w] = IF pc[w] = "replace" THEN "upsert" ELSE "mark"
          /\ points'[req[w].at] = {}
      BY <1>1, <1>5 DEF RetryDelete, Goto, TypeOK
    <2>2. /\ DocOf(w)' = DocOf(w) /\ Creating(w)' = Creating(w) /\ Mine(w)' = Mine(w)
          /\ \A v \in Workers : DocOf(v)' = DocOf(v)
      BY <1>1, <2>1 DEF DocOf, Creating, Mine, HasRow
    <2>3. Creating(w) => \A v \in Workers \ {w} : pc'[v] # "idle" => DocOf(v)' # DocOf(w)'
      BY <1>1, <2>1, <2>2, AstrayLocal DEF Kept
    <2>4. Kept(w)'
      BY <1>1, <2>1, <2>2, <2>3 DEF Kept
    <2> QED BY <1>3, <2>4 DEF Ownership
  <1> QED BY <1>4, <1>5

\* A change from elsewhere leaves an id alone that is just being drawn.
LEMMA OutsideOwnership ==
    ASSUME TypeOK, Ownership, UNCHANGED <<rows, pc, req, existing, torn>>,
           \A w \in Workers : (Creating(w) /\ pc[w] # "unlock" /\ points[req[w].at] = {})
                                  => points'[req[w].at] = {}
    PROVE  Ownership'
  <1> SUFFICES ASSUME NEW w \in Workers
               PROVE  Kept(w)'
    BY DEF Ownership
  <1>1. /\ Kept(w) /\ Creating(w)' = Creating(w) /\ Mine(w)' = Mine(w)
        /\ \A v \in Workers : DocOf(v)' = DocOf(v)
    BY DEF Ownership, Creating, Mine, HasRow, DocOf
  <1> QED BY <1>1 DEF Kept

LEMMA DisturbedOwnershipStep ==
    DisturbedTypes /\ Ownership /\ LateApart /\ [DisturbedNext]_allVars => Ownership'
  <1> SUFFICES ASSUME TypeOK, late \subseteq Calls, Ownership, LateApart, [DisturbedNext]_allVars
               PROVE  Ownership'
    BY DEF DisturbedTypes
  <1>1. ASSUME NEW c \in late, Land(c)
        PROVE  Ownership'
    <2>1. c.at \in Targets /\ c.call \in {"delete", "upsert"}
      BY DEF Calls
    <2>2. ASSUME NEW w \in Workers, Creating(w), pc[w] # "unlock", points[req[w].at] = {}
          PROVE  points'[req[w].at] = {}
      <3>1. c.at = req[w].at => c.call = "delete"
        BY <2>2 DEF LateApart, Apart, DocOf
      <3>2. req[w].at \in Targets
        BY <2>2, TargetType DEF Creating
      <3> QED BY <1>1, <2>1, <2>2, <3>1, <3>2 DEF Land, TypeOK
    <2> QED BY <1>1, <2>2, OutsideOwnership DEF Land, tables, locals
  <1>2. ASSUME NEW s \in Scopes, RestorePoints(s)
        PROVE  Ownership'
    <2>1. ASSUME NEW w \in Workers, Creating(w), pc[w] # "unlock", points[req[w].at] = {}
          PROVE  points'[req[w].at] = {}
      <3>1. req[w].at \in Targets
        BY <2>1, TargetType DEF Creating
      <3> QED BY <1>2, <2>1, <3>1 DEF RestorePoints
    <2> QED BY <1>2, <2>1, OutsideOwnership DEF RestorePoints, tables, locals
  <1>3. CASE RestoreRows
    BY <1>3 DEF RestoreRows, locals, Ownership, Kept, Creating
  <1> QED BY <1>1, <1>2, <1>3, DisturbedSteps, OwnershipStep, AstrayOwnership

\* A call goes astray for the id its worker has drawn only with the answer.
LEMMA LateApartStep ==
    TypeOK /\ Ownership /\ LateApart /\ [DisturbedNext]_allVars => LateApart'
  <1> SUFFICES ASSUME TypeOK, Ownership, LateApart, [DisturbedNext]_allVars,
                      NEW w \in Workers
               PROVE  Apart(w)'
    BY DEF LateApart
  <1>1. ASSUME late' \subseteq late, UNCHANGED req[w],
               pc[w] \notin {"idle", "unlock"} \/ UNCHANGED pc[w]
        PROVE  Apart(w)'
    BY <1>1 DEF LateApart, Apart, Creating, DocOf
  <1>2. ASSUME pc'[w] \in {"idle", "unlock"}
        PROVE  Apart(w)'
    BY <1>2 DEF Apart, Creating
  <1>3. ASSUME NEW v \in Workers, NEW r \in Requests, BeginAnew(v, r)
        PROVE  Apart(w)'
    <2>1. CASE v = w
      <3>1. UNCHANGED late /\ req'[w] = r /\ (Fresh(r) => \A c \in late : c.at[2] # r.at[2])
        BY <1>3, <2>1 DEF BeginAnew, Begin, TypeOK
      <3> QED BY <3>1 DEF Apart, Creating, DocOf
    <2>2. CASE v # w
      BY <1>1, <1>3, <2>2 DEF BeginAnew, Begin, TypeOK
    <2> QED BY <2>1, <2>2
  <1>4. ASSUME NEW v \in Workers, GiveUp(v) \/ RetryDelete(v)
        PROVE  Apart(w)'
    <2>1. /\ late' \in {late \cup {Sent(v)}, late \cup {DeleteCall(v)}}
          /\ pc[v] # "idle"
      BY <1>4 DEF GiveUp, RetryDelete
    <2>2. Sent(v).at = req[v].at /\ DeleteCall(v).at = req[v].at /\ DeleteCall(v).call = "delete"
      BY DEF Sent, UpsertCall, DeleteCall
    <2>3. CASE v = w
      <3>1. CASE GiveUp(w)
        BY <1>2, <3>1 DEF GiveUp, Answer, Finish, TypeOK
      <3>2. CASE RetryDelete(w)
        <4>1. late' = late \cup {DeleteCall(w)} /\ pc[w] \in {"replace", "purge"} /\ UNCHANGED req
          BY <3>2 DEF RetryDelete, Goto
        <4> QED BY <2>2, <2>3, <4>1 DEF LateApart, Apart, Creating, DocOf
      <3> QED BY <1>4, <2>3, <3>1, <3>2
    <2>4. CASE v # w
      <3>1. UNCHANGED <<pc[w], req[w]>>
        BY <1>4, <2>4, AstrayLocal
      <3>2. Creating(w) => DocOf(v) # DocOf(w)
        BY <2>1, <2>4 DEF Ownership, Kept
      <3> QED BY <2>1, <2>2, <3>1, <3>2 DEF LateApart, Apart, Creating, DocOf
    <2> QED BY <2>3, <2>4
  <1>5. ASSUME UNCHANGED locals, late' \subseteq late
        PROVE  Apart(w)'
    BY <1>1, <1>5 DEF locals
  <1>6. CASE ((\E v \in Workers : Step(v)) \/ Disturbance) /\ UNCHANGED late
    <2>1. CASE Working(w)'
      <3>1. Still(w) \/ OwnStep(w)
        BY <2>1, StillOrOwn
      <3> QED BY <1>1, <1>6, <2>1, <3>1, OwnStepMoves DEF Still, Working
    <2>2. CASE pc'[w] = "lock"
      <3>1. pc[w] = "lock" /\ UNCHANGED req[w]
        <4> USE DEF TypeOK
        <4>1. ASSUME NEW v \in Workers, LockStep(v)
              PROVE  pc[w] = "lock" /\ UNCHANGED req[w]
          BY <2>2, <4>1 DEF LockStep, Acquire, LockTimeout, Unlock, Goto, Finish
        <4>2. ASSUME NEW v \in Workers, DbFails(v) \/ Crash(v)
              PROVE  pc[w] = "lock" /\ UNCHANGED req[w]
          BY <2>2, <4>2 DEF DbFails, Crash, Drop, Finish
        <4>3. ASSUME NEW v \in Workers, UploadStep(v) \/ DeleteStep(v)
              PROVE  pc[w] = "lock" /\ UNCHANGED req[w]
          BY <2>2, <4>3, PipelineStep
        <4>4. ASSUME UNCHANGED locals
              PROVE  pc[w] = "lock" /\ UNCHANGED req[w]
          BY <2>2, <4>4 DEF locals
        <4> QED BY <1>6, <4>1, <4>2, <4>3, <4>4 DEF Step, Disturbance, SessionLost, AdminDelete
      <3> QED BY <1>1, <1>6, <3>1
    <2> QED BY <1>2, <2>1, <2>2 DEF Working
  <1>7. CASE UNCHANGED allVars
    BY <1>5, <1>7 DEF allVars, vars
  <1> QED
    BY <1>3, <1>4, <1>5, <1>6, <1>7 DEF DisturbedNext, Land, RestoreRows, RestorePoints

\* What holds of rows, ids and calls on their way.
Grounded == DisturbedTypes /\ Ownership /\ LateApart

LEMMA GroundedInvariant == DisturbedSpec => []Grounded
  <1>1. DisturbedInit => Grounded
    BY TypeInit, OwnershipInit DEF DisturbedInit, DisturbedTypes, Grounded, LateApart, Apart
  <1>2. Grounded /\ [DisturbedNext]_allVars => Grounded'
    BY DisturbedTypesStep, DisturbedOwnershipStep, LateApartStep DEF Grounded, DisturbedTypes
  <1> QED BY <1>1, <1>2, PTL DEF DisturbedSpec

-----------------------------------------------------------------------------
\* What an answer means.

\* What a worker that nobody disturbed has made of its document at each step.  An
\* id that was drawn had nothing stored, so what is stored is the body alone.
Assured(w) ==
    /\ (pc[w] = "save" /\ Creating(w)) => points[req[w].at] = Stored(req[w].body)
    /\ pc[w] = "mark" => points[req[w].at] = {}
    /\ StoredHonestly(w) /\ DeletedHonestly(w)

Assurance == \A w \in Workers : disturbed[w] \/ Assured(w)

\* What a row says to its owner is what Watch looks at.
LEMMA SeenView ==
    ASSUME TypeOK, TypeOK', NEW t \in Targets
    PROVE  Seen'[t] = Seen[t] <=> SameView(t)
  <1>1. t[2] \in Docs
    BY TargetsAssumption
  <1> DEFINE row == rows[t[2]]
             new == rows'[t[2]]
  <1>2. /\ HasRow(t) => row \in Rows /\ row # NoRow /\ Entry(row) \in Rows
        /\ HasRow(t)' => new \in Rows /\ new # NoRow /\ Entry(new) \in Rows
    <2>1. \A r \in Rows : r # NoRow /\ Entry(r) \in Rows
      BY NullAssumption DEF Entry, Rows
    <2> QED BY <1>1, <2>1 DEF HasRow, TypeOK
  <1>3. /\ Seen[t] = (IF HasRow(t) THEN Entry(row) ELSE NoRow)
        /\ Seen'[t] = (IF HasRow(t)' THEN Entry(new) ELSE NoRow)
    BY DEF Seen
  <1>4. CASE HasRow(t) /\ HasRow(t)'
    <2>1. row.scope = t[1] /\ new.scope = t[1]
      BY <1>4 DEF HasRow
    <2>2. Entry(new) = Entry(row) <=>
            /\ new.body = row.body /\ new.status = row.status /\ new.chunks = row.chunks
      <3>1. \A r \in Rows : Entry(r) = [scope |-> r.scope, body |-> r.body, chunks |-> r.chunks,
                                        status |-> r.status, refreshed |-> FALSE]
        BY NullAssumption DEF Entry, Rows
      <3>2. ASSUME NEW r \in Rows, NEW q \in Rows, q.scope = r.scope
            PROVE  Entry(q) = Entry(r) <=>
                     q.body = r.body /\ q.status = r.status /\ q.chunks = r.chunks
        <4>1. Entry(q).body = q.body /\ Entry(q).status = q.status /\ Entry(q).chunks = q.chunks
          BY <3>1
        <4>2. Entry(r).body = r.body /\ Entry(r).status = r.status /\ Entry(r).chunks = r.chunks
          BY <3>1
        <4> QED BY <3>1, <3>2, <4>1, <4>2
      <3> QED BY <1>2, <1>4, <2>1, <3>2
    <2> QED BY <1>3, <1>4, <2>2 DEF SameView
  <1>5. CASE ~(HasRow(t) /\ HasRow(t)')
    BY <1>2, <1>3, <1>5, NullAssumption DEF SameView
  <1> QED BY <1>4, <1>5

\* Where a worker is, and nobody changed its document, nothing changes.
LEMMA AssuredStill ==
    ASSUME NEW w \in Workers, Still(w), Assured(w), SameView(req[w].at),
           points'[req[w].at] = points[req[w].at]
    PROVE  Assured(w)'
  <1>1. /\ UNCHANGED <<pc[w], req[w], reply[w]>> /\ Creating(w)' = Creating(w)
        /\ Stored(req[w].body)' = Stored(req[w].body)
    BY DEF Still, Creating, Stored
  <1> QED BY <1>1 DEF Assured, StoredHonestly, DeletedHonestly, Indexed, SameView, DocOf

\* Between the steps of a pipeline that write, nothing is claimed.
LEMMA AssuredMoved ==
    ASSUME NEW w \in Workers,
           pc'[w] \notin {"save", "mark"},
           pc'[w] = "unlock" => reply'[w] \notin {"created", "replaced", "deleted"}
    PROVE  Assured(w)'
  BY DEF Assured, StoredHonestly, DeletedHonestly

\* The ways a step inside a pipeline moves its worker on.
LEMMA Moves ==
    ASSUME TypeOK, NEW w \in Workers
    PROVE  /\ \A step : Goto(w, step) => pc'[w] = step /\ UNCHANGED req[w]
           /\ \A outcome : Answer(w, outcome) =>
                 pc'[w] = "unlock" /\ reply'[w] = outcome /\ UNCHANGED req[w]
           /\ \A outcomes : Tear(w, outcomes) =>
                 pc'[w] = "unlock" /\ reply'[w] \in outcomes /\ UNCHANGED req[w]
  BY DEF TypeOK, Goto, Answer, Tear

LEMMA PurgeAssured ==
    ASSUME TypeOK, NEW w \in Workers, pc[w] # "idle", NEW step \in {"upsert", "mark"},
           Purge(w, step)
    PROVE  Assured(w)'
  <1>1. req[w].at \in Targets
    BY TargetType
  <1>2. CASE Tear(w, QdrantFailures)
    BY <1>2, Moves, AssuredMoved DEF QdrantFailures
  <1>3. CASE points' = [points EXCEPT ![req[w].at] = {}] /\ Goto(w, step)
    <2>1. pc'[w] = step /\ UNCHANGED req[w]
      BY <1>3, Moves
    <2>2. points'[req'[w].at] = {}
      BY <1>1, <1>3, <2>1 DEF TypeOK
    <2> QED BY <2>1, <2>2 DEF Assured, StoredHonestly, DeletedHonestly
  <1> QED BY <1>2, <1>3 DEF Purge

LEMMA UpsertAssured ==
    ASSUME TypeOK, Ownership, NEW w \in Workers, Upsert(w)
    PROVE  Assured(w)'
  <1>1. req[w].at \in Targets /\ pc[w] = "upsert"
    BY TargetType DEF Upsert
  <1>2. CASE Tear(w, {"qdrant_write_failed"})
    BY <1>2, Moves, AssuredMoved
  <1>3. CASE /\ points' = [points EXCEPT ![req[w].at] = Upserted(@, req[w].body)]
             /\ Goto(w, "save")
    <2>1. pc'[w] = "save" /\ UNCHANGED req[w]
      BY <1>3, Moves
    <2>2. points'[req[w].at] = Upserted(points[req[w].at], req[w].body)
      BY <1>1, <1>3 DEF TypeOK
    <2>3. Creating(w)' => points[req[w].at] = {}
      BY <1>1, <2>1 DEF Ownership, Kept, Creating
    <2>4. Upserted({}, req[w].body) = Stored(req[w].body)
      BY DEF Upserted
    <2>5. Stored(req[w].body)' = Stored(req[w].body)
      BY <2>1 DEF Stored
    <2> QED BY <2>1, <2>2, <2>3, <2>4, <2>5 DEF Assured, StoredHonestly, DeletedHonestly
  <1> QED BY <1>2, <1>3 DEF Upsert

LEMMA SaveAssured ==
    ASSUME TypeOK, NEW w \in Workers, Assured(w), Save(w)
    PROVE  Assured(w)'
  <1>1. pc[w] = "save" /\ pc[w] \in UploadSteps /\ DocOf(w) \in Docs
    BY TargetType DEF Save, UploadSteps
  <1>2. CASE Tear(w, {"internal_error"})
    BY <1>2, Moves, AssuredMoved
  <1>3. CASE /\ rows' = [rows EXCEPT ![DocOf(w)] = NewRow(w)] /\ ~req[w].named
             /\ Answer(w, IF existing[w] # NoRow THEN "replaced" ELSE "created")
    <2>1. /\ pc'[w] = "unlock" /\ reply'[w] \in {"created", "replaced"}
          /\ UNCHANGED <<req[w], points>>
      BY <1>3, Moves DEF Save, vectors
    <2>2. rows'[DocOf(w)] = NewRow(w)
      BY <1>1, <1>3 DEF TypeOK
    <2>3. NewRow(w) # NoRow
      BY <1>1, NewRowType, NullAssumption
    <2>4. Indexed(req[w].at)' /\ rows'[DocOf(w)].body = req[w].body
      BY <2>1, <2>2, <2>3 DEF Indexed, HasRow, NewRow, DocOf, ScopeOf
    <2>5. points[req[w].at] = Stored(req[w].body)
      BY <1>1, <1>3 DEF Assured, Creating, Fresh, TypeOK
    <2>6. Stored(req[w].body)' = Stored(req[w].body)
      BY <2>1 DEF Stored
    <2> QED BY <2>1, <2>4, <2>5, <2>6 DEF Assured, StoredHonestly, DeletedHonestly, DocOf
  <1> QED BY <1>2, <1>3 DEF Save

LEMMA MarkAssured ==
    ASSUME TypeOK, Ownership, NEW w \in Workers, Assured(w), Mark(w)
    PROVE  Assured(w)'
  <1>1. pc[w] = "mark"
    BY DEF Mark
  <1>2. CASE Tear(w, {"internal_error"})
    BY <1>2, Moves, AssuredMoved
  <1>3. CASE /\ rows[DocOf(w)] # NoRow
             /\ rows' = [rows EXCEPT ![DocOf(w)].status = "deleted",
                                     ![DocOf(w)].chunks = 0,
                                     ![DocOf(w)].refreshed = TRUE]
             /\ Answer(w, "deleted")
    <2>1. pc'[w] = "unlock" /\ reply'[w] = "deleted" /\ UNCHANGED <<req[w], points>>
      BY <1>3, Moves DEF Mark, vectors
    <2>2. Marks(w, DocOf(w))
      BY <1>3, MarksRow
    <2>3. Mine(w)
      BY <1>1, <1>3 DEF Ownership, Kept
    <2>4. rows'[DocOf(w)] # NoRow
      BY <2>2, NullAssumption DEF Marks
    <2>5. HasRow(req[w].at)' /\ rows'[DocOf(w)].status = "deleted"
      BY <2>1, <2>2, <2>3, <2>4 DEF Marks, Mine, HasRow, DocOf
    <2>6. points[req[w].at] = {}
      BY <1>1 DEF Assured
    <2> QED BY <2>1, <2>5, <2>6 DEF Assured, StoredHonestly, DeletedHonestly, DocOf
  <1> QED BY <1>2, <1>3 DEF Mark

LEMMA OwnStepAssured ==
    ASSUME TypeOK, Ownership, NEW w \in Workers, Assured(w), OwnStep(w)
    PROVE  Assured(w)'
  <1>1. CASE Acquire(w) \/ Register(w) \/ EnsureCollection(w) \/ Touch(w)
    BY <1>1, Moves, AssuredMoved
       DEF Acquire, Register, EnsureCollection, QdrantFailures, Touch
  <1>2. CASE Read(w) \/ Match(w) \/ Find(w)
    BY <1>2, Moves, AssuredMoved DEF Read, Match, Find, TypeOK
  <1>3. CASE Embed(w)
    BY <1>3, Moves, AssuredMoved DEF Embed
  <1>4. CASE Replace(w) \/ DeleteChunks(w)
    BY <1>4, PurgeAssured DEF Replace, DeleteChunks
  <1>5. CASE Upsert(w)
    BY <1>5, UpsertAssured
  <1>6. CASE Save(w)
    BY <1>6, SaveAssured
  <1>7. CASE Mark(w)
    BY <1>7, MarkAssured
  <1>8. CASE GiveUp(w)
    <2>1. ASSUME NEW outcome \in {"qdrant_write_failed", "internal_error"}, Answer(w, outcome)
          PROVE  Assured(w)'
      BY <2>1, Moves, AssuredMoved
    <2>2. CASE Finish(w)
      BY <2>2, AssuredMoved DEF Finish, TypeOK
    <2> QED BY <1>8, <2>1, <2>2 DEF GiveUp, QdrantFailures
  <1>9. CASE RetryDelete(w)
    <2> DEFINE step == IF pc[w] = "replace" THEN "upsert" ELSE "mark"
    <2>1. /\ Goto(w, step) /\ pc[w] # "idle"
          /\ points' = [points EXCEPT ![req[w].at] = {}]
      BY <1>9 DEF RetryDelete
    <2>2. pc'[w] = step /\ UNCHANGED req[w]
      BY <2>1, Moves
    <2>3. points'[req'[w].at] = {}
      BY <2>1, <2>2, TargetType DEF TypeOK
    <2> QED BY <2>2, <2>3 DEF Assured, StoredHonestly, DeletedHonestly
  <1> QED
    BY <1>1, <1>2, <1>3, <1>4, <1>5, <1>6, <1>7, <1>8, <1>9 DEF OwnStep, UploadStep, DeleteStep

LEMMA AssuranceStep ==
    Grounded /\ Assurance /\ [DisturbedNext]_allVars => Assurance'
  <1>0. Grounded /\ [DisturbedNext]_allVars => TypeOK /\ TypeOK' /\ Ownership
    BY DisturbedTypesStep DEF Grounded, DisturbedTypes
  <1> SUFFICES ASSUME TypeOK, TypeOK', Ownership, Assurance, [DisturbedNext]_allVars,
                      NEW w \in Workers, ~disturbed'[w]
               PROVE  Assured(w)'
    BY <1>0 DEF Assurance
  <1>1. CASE ~Working(w)'
    BY <1>1, AssuredMoved DEF Working
  <1>2. CASE Working(w)' /\ DisturbedNext
    <2>1. Watch
      BY <1>2, Zenon DEF DisturbedNext
    <2>2. ~ \/ disturbed[w]
            \/ /\ pc'[w] = pc[w]
               /\ points'[req[w].at] # points[req[w].at] \/ Seen'[req[w].at] # Seen[req[w].at]
      BY <1>2, <2>1, Zenon DEF Watch
    <2>3. Assured(w)
      BY <2>2, Zenon DEF Assurance
    <2>4. CASE Still(w)
      <3>1. pc[w] # "idle" /\ pc'[w] = pc[w]
        BY <1>2, <2>4 DEF Working, Still
      <3>2. points'[req[w].at] = points[req[w].at] /\ Seen'[req[w].at] = Seen[req[w].at]
        BY <2>2, <3>1
      <3>3. SameView(req[w].at)
        BY <3>1, <3>2, TargetType, SeenView
      <3> QED BY <2>3, <2>4, <3>2, <3>3, AssuredStill
    <2>5. CASE OwnStep(w)
      BY <2>3, <2>5, OwnStepAssured
    <2> QED BY <1>2, <2>4, <2>5, StillOrOwn
  <1>3. CASE UNCHANGED allVars
    <2>1. UNCHANGED <<rows, points, pc, req, existing, reply, disturbed>>
      BY <1>3 DEF allVars, vars, tables, vectors, locals
    <2>2. Assured(w)
      BY <2>1, Zenon DEF Assurance
    <2>3. Still(w) /\ UNCHANGED rows /\ points'[req[w].at] = points[req[w].at]
      BY <2>1 DEF Still
    <2> QED BY <2>2, <2>3, SameRows, AssuredStill
  <1> QED BY <1>1, <1>2, <1>3

LEMMA AssuranceInvariant == DisturbedSpec => []Assurance
  <1>1. DisturbedInit => Assurance
    BY DEF DisturbedInit, Init, Assurance, Assured, StoredHonestly, DeletedHonestly
  <1> QED BY <1>1, GroundedInvariant, AssuranceStep, PTL DEF DisturbedSpec

\* A "created" answer (a "replaced" would be, too) is true when it is given, after
\* any crash, late call, restore or lost session before, unless others changed the
\* row or the points while the upload held the lock.
THEOREM StoredIsTrue == DisturbedSpec => []StoredUnlessDisturbed
  <1>1. Assurance => StoredUnlessDisturbed
    BY DEF Assurance, Assured, StoredUnlessDisturbed
  <1> QED BY <1>1, AssuranceInvariant, PTL

\* So is a "deleted" answer.
THEOREM DeletedIsTrue == DisturbedSpec => []DeletedUnlessDisturbed
  <1>1. Assurance => DeletedUnlessDisturbed
    BY DEF Assurance, Assured, DeletedUnlessDisturbed
  <1> QED BY <1>1, AssuranceInvariant, PTL

-----------------------------------------------------------------------------
\* Who disturbs.

Outside ==
    \/ \E c \in late : Land(c)
    \/ RestoreRows
    \/ \E s \in Scopes : RestorePoints(s)
    \/ \E d \in Docs : AdminDelete(d)
    \/ \E v \in Workers : ~session[v] /\ (UploadStep(v) \/ DeleteStep(v) \/ RetryDelete(v))

\* What changes the row or the points of a worker that holds its lock is a late
\* call, a restore, an operator, or a worker that lost its session: never
\* another worker that holds a lock, not even one with a document of that id.
OnlyOutsidersDisturb ==
    [][\A w \in Workers : (session[w] /\ ~disturbed[w] /\ disturbed'[w]) => Outside]_allVars

LEMMA OutsideStep ==
    ASSUME TypeOK, TypeOK', Ownership, Exclusive, DisturbedNext,
           NEW w \in Workers, session[w], ~disturbed[w], disturbed'[w]
    PROVE  Outside
  <1> DEFINE t == req[w].at
  <1>0. Watch
    BY Zenon DEF DisturbedNext
  <1>1. /\ Working(w)' /\ pc'[w] = pc[w]
        /\ points'[t] # points[t] \/ Seen'[t] # Seen[t]
    BY <1>0, Zenon DEF Watch
  <1>2. Working(w) /\ t \in Targets /\ KeyFor(w) \in Keys
    BY <1>1, TargetType DEF Working
  <1>3. ASSUME SameView(t), points'[t] = points[t]
        PROVE  FALSE
    BY <1>1, <1>2, <1>3, SeenView
  <1>4. ASSUME UNCHANGED <<rows, points>>
        PROVE  FALSE
    BY <1>3, <1>4, SameRows
  \* Two workers that hold their locks are inside for different targets.
  <1>5. ASSUME NEW v \in Workers, session[v], UploadStep(v) \/ DeleteStep(v) \/ RetryDelete(v)
        PROVE  FALSE
    <2>1. v # w /\ Working(v)
      BY <1>1, <1>5, OwnStepMoves, PipelineStep DEF OwnStep, RetryDelete, Working
    <2>2. KeyFor(v) \in Keys
      BY <2>1, TargetType DEF Working
    <2>3. lock[KeyFor(v)] = v /\ lock[KeyFor(w)] = w
      BY <1>2, <1>5, <2>1, <2>2 DEF Exclusive
    <2>4. t # req[v].at
      BY <2>1, <2>3 DEF KeyFor
    <2>5. CASE UploadStep(v) \/ DeleteStep(v)
      BY <1>2, <1>3, <2>4, <2>5, StepLocal, OtherViews
    <2>6. CASE RetryDelete(v)
      BY <1>2, <1>3, <2>4, <2>6, AstrayLocal, SameRows
    <2> QED BY <1>5, <2>5, <2>6
  <1>6. ASSUME NEW v \in Workers, LockStep(v) \/ DbFails(v) \/ SessionLost(v) \/ Crash(v) \/ GiveUp(v)
        PROVE  FALSE
    BY <1>4, <1>6
       DEF LockStep, Acquire, LockTimeout, Unlock, DbFails, SessionLost, Crash, GiveUp, tables, vectors
  <1>7. ASSUME NEW v \in Workers, NEW r \in Requests, BeginAnew(v, r)
        PROVE  FALSE
    BY <1>4, <1>7 DEF BeginAnew, Begin, tables, vectors
  <1> QED BY <1>5, <1>6, <1>7 DEF DisturbedNext, Step, Disturbance, Outside

\* The advisory lock shuts everybody else out who still holds one, whatever ids the
\* clients of two bots choose, so that a success is only ever untrue through what
\* never asks for the lock.
THEOREM OnlyOutsiders == DisturbedSpec => OnlyOutsidersDisturb
  <1>1. DisturbedInit => Exclusive
    BY ExclusiveInit DEF DisturbedInit
  <1>2. Grounded /\ Exclusive /\ [DisturbedNext]_allVars => Exclusive'
    BY DisturbedExclusiveStep DEF Grounded, DisturbedTypes
  <1>3. Grounded /\ [DisturbedNext]_allVars => TypeOK /\ TypeOK' /\ Ownership
    BY DisturbedTypesStep DEF Grounded, DisturbedTypes
  <1>4. Grounded /\ Exclusive /\ [DisturbedNext]_allVars =>
          [\A w \in Workers : (session[w] /\ ~disturbed[w] /\ disturbed'[w]) => Outside]_allVars
    BY <1>3, OutsideStep
  <1> QED
    BY <1>1, <1>2, <1>4, GroundedInvariant, PTL DEF DisturbedSpec, OnlyOutsidersDisturb

=============================================================================
