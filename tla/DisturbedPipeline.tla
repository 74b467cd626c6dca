-------------------------- MODULE DisturbedPipeline --------------------------
(***************************************************************************)
(* DocumentPipeline with what reaches the stores from elsewhere: a Qdrant     *)
(* call that timed out and is applied later, when the lock has passed on; a  *)
(* call of a worker that lost its session, or was killed; an operator in the *)
(* admin; a restore of a Postgres dump and Qdrant snapshots that were taken  *)
(* at different moments (scripts/backup_postgres.sh, snapshot_qdrant.sh).    *)
(***************************************************************************)
EXTENDS DocumentPipeline

CONSTANT MaxLate   \* bound: calls that are still on their way

ASSUME LateAssumption == MaxLate \in Nat

VARIABLES
    late,        \* calls that were given up and may yet be applied
    disturbed    \* history: were the row or the points of a worker's document
                 \* changed by others since it took the lock?

allVars == <<vars, late, disturbed>>

\* What a call on its way does when it arrives.
DeleteCall(w) == [call |-> "delete", at |-> req[w].at]
UpsertCall(w) == [call |-> "upsert", at |-> req[w].at, body |-> req[w].body]

Sent(w) == IF pc[w] = "upsert" THEN UpsertCall(w) ELSE DeleteCall(w)

DisturbedInit ==
    /\ Init
    /\ late = {}
    /\ disturbed = [w \in Workers |-> FALSE]

\* What the row of each target says to its owner.
Seen == [t \in Targets |-> IF HasRow(t) THEN Entry(rows[t[2]]) ELSE NoRow]

\* What a worker does itself moves its pc.
Watch ==
    disturbed' = [w \in Workers |->
        /\ Working(w)'
        /\ \/ disturbed[w]
           \/ /\ pc'[w] = pc[w]
              /\ points'[req[w].at] # points[req[w].at] \/ Seen'[req[w].at] # Seen[req[w].at]]

-----------------------------------------------------------------------------
\* Mistakes the code could have made.

\* A call that timed out counts as done.
GiveUp_Optimistic(w) ==
    /\ pc[w] \in {"replace", "purge", "upsert"}
    /\ Cardinality(late) < MaxLate
    /\ late' = late \cup {Sent(w)}
    /\ Goto(w, CASE pc[w] = "replace" -> "upsert"
                 [] pc[w] = "purge"   -> "mark"
                 [] pc[w] = "upsert"  -> "save")
    /\ UNCHANGED <<tables, lock, session, vectors, torn>>

-----------------------------------------------------------------------------
\* Calls that arrive late.

\* The client's time-out strikes, or the worker is killed, while the call is on
\* its way.
GiveUp(w) ==
    /\ pc[w] \in {"replace", "purge", "upsert"}
    /\ Cardinality(late) < MaxLate
    /\ late' = late \cup {Sent(w)}
    /\ torn' = torn \cup {req[w].at}
    /\ \/ /\ \E outcome \in IF pc[w] = "upsert" THEN {"qdrant_write_failed"} ELSE QdrantFailures :
                Answer(w, outcome)
          /\ UNCHANGED <<lock, session>>
       \/ /\ ReleaseAll(w) /\ Finish(w)
          /\ session' = [session EXCEPT ![w] = TRUE]
    /\ UNCHANGED <<tables, vectors>>

\* delete_by_doc_id is retried: a later attempt succeeds, an earlier one is
\* still on its way.
RetryDelete(w) ==
    /\ pc[w] \in {"replace", "purge"}
    /\ Cardinality(late) < MaxLate
    /\ late' = late \cup {DeleteCall(w)}
    /\ points' = [points EXCEPT ![req[w].at] = {}]
    /\ Goto(w, IF pc[w] = "replace" THEN "upsert" ELSE "mark")
    /\ UNCHANGED <<tables, lock, session, colls, torn>>

Land(c) ==
    /\ c \in late
    /\ late' = late \ {c}
    /\ points' = [points EXCEPT ![c.at] = IF c.call = "delete" THEN {} ELSE Upserted(@, c.body)]
    /\ UNCHANGED <<tables, lock, session, colls, locals, torn>>

-----------------------------------------------------------------------------
\* Restores.  A dump has what an upload saved or a delete marked, a snapshot
\* the points of one upload or those one left of another.

DumpedRows(d) ==
    {NoRow} \cup
    {[scope |-> t[1], body |-> b, status |-> st,
      chunks |-> IF st = "active" THEN Cardinality(ChunksOf[b]) ELSE 0,
      refreshed |-> touched] :
        t \in {u \in Targets : u[2] = d /\ u[1] \in bots \cap colls},
        b \in Bodies, st \in {"active", "deleted"}, touched \in BOOLEAN}

\* The web container is stopped.
RestoreRows ==
    /\ \A w \in Workers : pc[w] = "idle"
    /\ rows' \in [Docs -> UNION {DumpedRows(d) : d \in Docs}]
    /\ \A d \in Docs : rows'[d] \in DumpedRows(d)
    /\ UNCHANGED <<bots, lock, session, vectors, locals, torn, late>>

Snapshots == {{}} \cup {Upserted(Stored(a), b) : a, b \in Bodies}

\* One collection, while the service runs.  A snapshot is older than an id that
\* is just being drawn.
RestorePoints(s) ==
    /\ s \in colls
    /\ \E old \in [Targets -> Snapshots] :
         /\ \A w \in Workers : Creating(w) => old[req[w].at] = {}
         /\ points' = [t \in Targets |-> IF t[1] = s THEN old[t] ELSE points[t]]
    /\ UNCHANGED <<tables, lock, session, colls, locals, torn, late>>

-----------------------------------------------------------------------------

\* Nor does a call on its way address an id that is yet to be drawn.
BeginAnew(w, r) ==
    /\ Begin(w, r)
    /\ Fresh(r) => \A c \in late : c.at[2] # r.at[2]
    /\ UNCHANGED late

DisturbedNext ==
    /\ \/ \E w \in Workers, r \in Requests : BeginAnew(w, r)
       \/ (\/ \E w \in Workers : Step(w)
           \/ Disturbance) /\ UNCHANGED late
       \/ \E w \in Workers : GiveUp(w) \/ RetryDelete(w)
       \/ \E c \in late : Land(c)
       \/ RestoreRows
       \/ \E s \in Scopes : RestorePoints(s)
    /\ Watch

DisturbedSpec == DisturbedInit /\ [][DisturbedNext]_allVars

-----------------------------------------------------------------------------
\* Properties.

\* Whatever happened before, to the document or to the worker's other requests,
\* a success is true when it is given unless others changed the row or the
\* points while the worker held the lock.
StoredUnlessDisturbed == \A w \in Workers : disturbed[w] \/ StoredHonestly(w)

\* The same of deletes: so a delete repairs what a crash, a refused save, a late
\* call or a restore left behind.
DeletedUnlessDisturbed == \A w \in Workers : disturbed[w] \/ DeletedHonestly(w)

=============================================================================
