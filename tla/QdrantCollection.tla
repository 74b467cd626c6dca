-------------------------- MODULE QdrantCollection --------------------------
(***************************************************************************)
(* The Qdrant layer (apps/qdrant_core: collection.py, client.py): one bot's *)
(* collection as the processes that create it, purge documents from it or   *)
(* drop it see it.  Each call to Qdrant is one action; it may fail for good,*)
(* or fail transiently before or after it was applied.  with_retry wraps    *)
(* every operation, and twice the creation: create_collection_for_bot has a *)
(* retry loop of its own inside get_or_create_collection's.                 *)
(***************************************************************************)
EXTENDS Naturals

CONSTANTS
    Callers,      \* processes of the web and grpc containers
    Docs,         \* document ids in this collection
    MaxPoints,    \* bound on the points of a document
    NumIndexes,   \* how many PAYLOAD_INDEXES there are
    Attempts,     \* with_retry(attempts)
    Ops,          \* the operations in use
    Transports,   \* settings.QDRANT["PREFER_GRPC"]: {TRUE}, {FALSE} or both
    NoCollection

ASSUME SizeAssumption ==
    /\ MaxPoints \in Nat /\ NumIndexes \in Nat \ {0} /\ Attempts \in Nat \ {0}
ASSUME OpsAssumption ==
    /\ Ops \subseteq {"ensure", "purge", "drop"}
    /\ Transports \subseteq BOOLEAN

VARIABLES
    coll,       \* Qdrant: the collection's schema and payload indexes
    points,     \* Qdrant: how many points each document has
    grpc,       \* does the client speak gRPC?
    pc,         \* the call a caller makes next
    op, doc,    \* what it was asked to do
    outer,      \* attempt of the operation's retry loop
    inner,      \* attempt of the retry loop of create_collection_for_bot
    tally,      \* payload indexes this attempt has made, or points it counted
    result,     \* how the caller's last operation ended
    atStart,    \* history: the document's points when the operation began
    disturbed   \* history: has a call failed, or the collection been dropped?

qdrant == <<coll, points, grpc>>
call   == <<op, doc, atStart>>
vars   == <<qdrant, call, pc, outer, inner, tally, result, disturbed>>

Fields == 1..NumIndexes

\* "unnamed" is a foreign schema too, with one vector that has no name.
Collections == [schema : {"expected", "foreign", "unnamed"}, indexes : SUBSET Fields]

ASSUME NullAssumption == NoCollection \notin Collections

\* QdrantConnectionError, QdrantOperationError, CollectionSchemaMismatchError,
\* an exception of the Qdrant client itself, or the AttributeError of a
\* comparison with unnamed vectors.
Errors == {"unreachable", "refused", "mismatch", "client_error", "attribute_error"}

TypeOK ==
    /\ coll \in Collections \cup {NoCollection}
    /\ points \in [Docs -> 0..MaxPoints]
    /\ grpc \in BOOLEAN
    /\ pc \in [Callers -> {"idle", "exists", "compare", "create", "index",
                           "count", "delete", "drop"}]
    /\ op \in [Callers -> {"ensure", "purge", "drop"}]
    /\ doc \in [Callers -> Docs]
    /\ outer \in [Callers -> 1..Attempts]
    /\ inner \in [Callers -> 1..Attempts]
    /\ tally \in [Callers -> Nat]
    /\ result \in [Callers -> {"none", "ok"} \cup Errors]
    /\ atStart \in [Callers -> 0..MaxPoints]
    /\ disturbed \in BOOLEAN
    /\ coll = NoCollection => \A d \in Docs : points[d] = 0
    /\ \A c \in Callers : pc[c] = "index" => tally[c] < NumIndexes

\* A bot starts without a collection, with one of its own, or with one that
\* somebody made with another schema.
Init ==
    /\ coll \in {NoCollection, [schema |-> "expected", indexes |-> Fields],
                 [schema |-> "foreign", indexes |-> {}], [schema |-> "unnamed", indexes |-> {}]}
    /\ points = [d \in Docs |-> 0]
    /\ grpc \in Transports
    /\ pc = [c \in Callers |-> "idle"]
    /\ op \in [Callers -> Ops] /\ doc \in [Callers -> Docs]
    /\ outer = [c \in Callers |-> 1] /\ inner = [c \in Callers |-> 1]
    /\ tally = [c \in Callers |-> 0]
    /\ result = [c \in Callers |-> "none"] /\ atStart = [c \in Callers |-> 0]
    /\ disturbed = FALSE

-----------------------------------------------------------------------------
\* How an operation moves on, returns, and fails.

Advance(c, step, n) ==
    /\ pc' = [pc EXCEPT ![c] = step]
    /\ tally' = [tally EXCEPT ![c] = n]
    /\ UNCHANGED <<outer, inner, result>>

Goto(c, step) == Advance(c, step, 0)

Return(c, outcome) ==
    /\ pc' = [pc EXCEPT ![c] = "idle"]
    /\ result' = [result EXCEPT ![c] = outcome]
    /\ tally' = [tally EXCEPT ![c] = 0]
    /\ outer' = [outer EXCEPT ![c] = 1]
    /\ inner' = [inner EXCEPT ![c] = 1]

\* Is the caller inside create_collection_for_bot?
Creating(c) == pc[c] \in {"create", "index"}

Restart(c, step) ==
    /\ pc' = [pc EXCEPT ![c] = step]
    /\ tally' = [tally EXCEPT ![c] = 0]
    /\ UNCHANGED result

\* Mistakes the code could have made in the loop (more follow below).

Retry_Forever(c) ==
    /\ Restart(c, IF Creating(c) THEN "create" ELSE "exists")
    /\ UNCHANGED <<outer, inner>>

Retry_Swallows(c) ==
    \/ /\ ~Creating(c) /\ outer[c] < Attempts
       /\ Restart(c, "exists")
       /\ outer' = [outer EXCEPT ![c] = @ + 1]
       /\ UNCHANGED inner
    \/ /\ Creating(c) \/ outer[c] = Attempts
       /\ Return(c, "ok")

\* with_retry on a transient error: the innermost loop starts its function again,
\* or raises QdrantConnectionError, which no outer loop takes for transient.
Retry(c) ==
    \/ /\ Creating(c) /\ inner[c] < Attempts
       /\ Restart(c, "create")
       /\ inner' = [inner EXCEPT ![c] = @ + 1]
       /\ UNCHANGED outer
    \/ /\ ~Creating(c) /\ outer[c] < Attempts
       /\ Restart(c, "exists")
       /\ outer' = [outer EXCEPT ![c] = @ + 1]
       /\ UNCHANGED inner
    \/ /\ IF Creating(c) THEN inner[c] = Attempts ELSE outer[c] = Attempts
       /\ Return(c, "unreachable")

\* Any other error leaves at once.  Only REST errors of the creation are
\* wrapped: over gRPC they are no UnexpectedResponse.
Refuse(c) ==
    Return(c, IF Creating(c) /\ ~grpc THEN "refused" ELSE "client_error")

\* A call that fails and was not applied.
Fails(c) ==
    /\ Retry(c) \/ Refuse(c)
    /\ disturbed' = TRUE
    /\ UNCHANGED <<qdrant, call>>

\* A call that was applied, and its answer.
Answered(c) == UNCHANGED disturbed
LostAnswer(c) == (Retry(c) \/ Refuse(c)) /\ disturbed' = TRUE

-----------------------------------------------------------------------------
\* Other mistakes the code could have made.

Exists_Trusts(c) ==
    /\ pc[c] = "exists"
    /\ CASE coll # NoCollection /\ op[c] = "ensure" -> Return(c, "ok")
         [] coll # NoCollection /\ op[c] = "purge"  -> Goto(c, "count")
         [] coll # NoCollection /\ op[c] = "drop"   -> Goto(c, "drop")
         [] coll = NoCollection /\ op[c] = "ensure" -> Goto(c, "create")
         [] OTHER -> Return(c, "ok")
    /\ UNCHANGED <<qdrant, call, disturbed>>

Conflict_Raises(c) ==
    /\ Refuse(c)
    /\ UNCHANGED <<qdrant, call, disturbed>>

Create_Recreates(c) ==
    /\ pc[c] = "create"
    /\ coll' = [schema |-> "expected", indexes |-> {}]
    /\ points' = [d \in Docs |-> 0]
    /\ Goto(c, "index")
    /\ UNCHANGED <<call, grpc, disturbed>>

\* range(len(PAYLOAD_INDEXES) - 1)
IndexMade_StopsShort(c, last) ==
    IF tally[c] + 2 >= last THEN Return(c, "ok") ELSE Advance(c, "index", tally[c] + 1)

\* One iteration too many.
IndexMade_RunsOver(c, last) ==
    IF tally[c] = last THEN Return(c, "ok") ELSE Advance(c, "index", tally[c] + 1)

-----------------------------------------------------------------------------
\* The caller's side: the ingestion pipeline calls get_or_create_collection and
\* delete_by_doc_id, the latter under the upload lock of the document.

Purging(d) == \E c \in Callers : pc[c] # "idle" /\ op[c] = "purge" /\ doc[c] = d

\* Only a purge has a document.
Begin(c, o, d) ==
    /\ pc[c] = "idle"
    /\ IF o = "purge" THEN ~Purging(d) ELSE d = doc[c]
    /\ pc' = [pc EXCEPT ![c] = "exists"]
    /\ op' = [op EXCEPT ![c] = o] /\ doc' = [doc EXCEPT ![c] = d]
    /\ result' = [result EXCEPT ![c] = "none"]
    /\ atStart' = [atStart EXCEPT ![c] = IF o = "purge" THEN points[d] ELSE 0]
    /\ UNCHANGED <<qdrant, outer, inner, tally, disturbed>>

\* Somebody who holds the document's lock upserts a point.
Store(d) ==
    /\ coll # NoCollection /\ points[d] < MaxPoints
    /\ ~Purging(d)
    /\ points' = [points EXCEPT ![d] = @ + 1]
    /\ UNCHANGED <<coll, grpc, call, pc, outer, inner, tally, result, disturbed>>

-----------------------------------------------------------------------------
\* client.collection_exists, the first call of all three operations.
Exists(c) ==
    /\ pc[c] = "exists"
    /\ CASE coll # NoCollection /\ op[c] = "ensure" -> Goto(c, "compare")
         [] coll # NoCollection /\ op[c] = "purge"  -> Goto(c, "count")
         [] coll # NoCollection /\ op[c] = "drop"   -> Goto(c, "drop")
         [] coll = NoCollection /\ op[c] = "ensure" -> Goto(c, "create")
         [] OTHER -> Return(c, "ok")
    /\ UNCHANGED <<qdrant, call, disturbed>>

\* _compare_schema looks at the vectors, by name, not at the payload indexes.
Compare(c) ==
    /\ pc[c] = "compare" /\ coll # NoCollection
    /\ \/ coll.schema = "expected" /\ Return(c, "ok")
       \/ coll.schema = "foreign" /\ Return(c, "mismatch")
       \/ coll.schema = "unnamed" /\ Return(c, "attribute_error")
    /\ UNCHANGED <<qdrant, call, disturbed>>

Create(c) ==
    /\ pc[c] = "create" /\ coll = NoCollection
    /\ coll' = [schema |-> "expected", indexes |-> {}]
    /\ (Goto(c, "index") /\ Answered(c)) \/ LostAnswer(c)
    /\ UNCHANGED <<call, points, grpc>>

\* Another caller, or an earlier attempt, made the collection.  The handler for
\* status 409, outside the inner loop, is for REST: over gRPC the error is an
\* RpcError.
Conflict(c) ==
    /\ pc[c] = "create" /\ coll # NoCollection
    /\ \/ grpc /\ Refuse(c)
       \/ /\ ~grpc /\ Restart(c, "compare")
          /\ inner' = [inner EXCEPT ![c] = 1]
          /\ UNCHANGED outer
    /\ UNCHANGED <<qdrant, call, disturbed>>

IndexMade(c, last) ==
    IF tally[c] + 1 = last THEN Return(c, "ok") ELSE Advance(c, "index", tally[c] + 1)

Index(c) ==
    /\ pc[c] = "index" /\ coll # NoCollection
    /\ coll' = [coll EXCEPT !.indexes = @ \cup {tally[c] + 1}]
    /\ (IndexMade(c, NumIndexes) /\ Answered(c)) \/ LostAnswer(c)
    /\ UNCHANGED <<call, points, grpc>>

Count(c) ==
    /\ pc[c] = "count" /\ coll # NoCollection
    /\ Advance(c, "delete", points[doc[c]])
    /\ UNCHANGED <<qdrant, call, disturbed>>

Delete(c) ==
    /\ pc[c] = "delete" /\ coll # NoCollection
    /\ points' = [points EXCEPT ![doc[c]] = 0]
    /\ (Return(c, "ok") /\ Answered(c)) \/ LostAnswer(c)
    /\ UNCHANGED <<call, coll, grpc>>

Drop(c) ==
    /\ pc[c] = "drop"
    /\ coll' = NoCollection
    /\ points' = [d \in Docs |-> 0]
    /\ Return(c, "ok") \/ LostAnswer(c)
    /\ disturbed' = TRUE
    /\ UNCHANGED <<call, grpc>>

\* The collection was dropped since the caller last looked.
Vanished(c) ==
    /\ pc[c] \in {"compare", "index", "count", "delete"} /\ coll = NoCollection
    /\ Refuse(c)
    /\ UNCHANGED <<qdrant, call, disturbed>>

-----------------------------------------------------------------------------

Ensure(c) == Compare(c) \/ Create(c) \/ Conflict(c) \/ Index(c)

Step(c) ==
    \/ Exists(c) \/ Ensure(c) \/ Count(c) \/ Delete(c) \/ Drop(c) \/ Vanished(c)
    \/ pc[c] # "idle" /\ Fails(c)

Next ==
    \/ \E c \in Callers, o \in Ops, d \in Docs : Begin(c, o, d)
    \/ \E c \in Callers : Step(c)
    \/ \E d \in Docs : Store(d)

Spec == Init /\ [][Next]_vars

\* The client's timeout of 10 s ends every call.
FairSpec == Spec /\ \A c \in Callers : WF_vars(Step(c))

-----------------------------------------------------------------------------
\* Properties.

Returns(c, o) == op[c] = o /\ result[c] = "none" /\ result'[c] = "ok"

\* When get_or_create_collection returns, the collection is there with the
\* locked schema, and a mismatch is only reported of a foreign one.
EnsureHonest ==
    [][\A c \in Callers :
         /\ Returns(c, "ensure") => coll' # NoCollection /\ coll'.schema = "expected"
         /\ result[c] # "mismatch" /\ result'[c] = "mismatch"
              => coll # NoCollection /\ coll.schema = "foreign"]_vars

\* Unless a call failed or the collection was dropped, every payload index the
\* schema asks for exists, or the caller that created it is making it.
IndexesComplete ==
    (~disturbed /\ coll # NoCollection /\ coll.schema = "expected") =>
        \/ coll.indexes = Fields
        \/ \E c \in Callers : pc[c] = "index" /\ coll.indexes = 1..tally[c]

\* Points go away only with a purge of their own document or a drop: creating a
\* collection never costs data, whatever was lost or retried.
PointsSafe ==
    [][\A d \in Docs : points'[d] < points[d] =>
         \E c \in Callers : pc[c] = "drop" \/ (pc[c] = "delete" /\ doc[c] = d)]_vars

\* When delete_by_doc_id returns no point of the document is left, and its count
\* is what was there, or zero when an earlier attempt had already deleted.
PurgeHonest ==
    [][\A c \in Callers : Returns(c, "purge") =>
         /\ points'[doc[c]] = 0
         /\ tally[c] \in {0, atStart[c]}
         /\ ~disturbed => tally[c] = atStart[c]]_vars

\* Callers that race to create the collection all succeed, as long as Qdrant
\* answers; over gRPC they do not.
RaceTolerated ==
    ~disturbed => \A c \in Callers :
        op[c] = "ensure" => result[c] \notin {"unreachable", "refused", "client_error"}

RaceToleratedOverREST == ~grpc => RaceTolerated

\* Every operation ends, however often Qdrant fails.
CallsReturn == \A c \in Callers : pc[c] # "idle" ~> pc[c] = "idle"

=============================================================================
