---------------------------- MODULE SearchService ----------------------------
(***************************************************************************)
(* The gRPC process: apps/grpc_service/server.py and handler.py with the      *)
(* search of apps/qdrant_core/search.py.  Calls wait for one of the threads  *)
(* of a pool; a search asks whether the collection exists, embeds the query  *)
(* and queries the collection with retries, while Qdrant comes and goes and  *)
(* the collection is made and dropped by others.  SIGTERM stops the server:  *)
(* no new calls, a grace period for those accepted, then cancellation.      *)
(***************************************************************************)
EXTENDS Naturals, Sequences, FiniteSets

CONSTANTS
    Calls,      \* calls under way at a time
    Threads,    \* GRPC_MAX_WORKERS
    Attempts    \* attempts of with_retry

ASSUME BoundAssumption == Threads \in Nat \ {0} /\ Attempts \in Nat \ {0}

VARIABLES
    qdrant,     \* does Qdrant answer?
    coll,       \* does the bot's collection exist?
    server,     \* how far the process is with its shutdown
    queue,      \* accepted calls that wait for a thread
    kind,       \* what a call asks for
    pc,         \* what the handler of a call does next
    tries,      \* failed attempts of its query
    status,     \* the status its handler decided on
    client,     \* the status its client has got
    counted,    \* the statuses grpc_requests_total was incremented for
    observed,   \* observations in search_results_count made for it
    seen        \* history: what was the case at some moment of the call

world    == <<qdrant, coll>>
handling == <<pc, tries, status>>
metrics  == <<counted, observed>>
vars == <<world, server, queue, kind, handling, client, metrics, seen>>

\* "bad" stands for every request that fails one of the four checks.
KindsOfCall == {"search", "bad", "health"}

Statuses == {"OK", "INVALID_ARGUMENT", "NOT_FOUND", "UNAVAILABLE", "INTERNAL"}

Running == {c \in Calls : pc[c] \notin {"idle", "queued"}}

Open == {c \in Calls : client[c] = "pending"}

State(up, exists) == {IF up THEN "up" ELSE "down", IF exists THEN "present" ELSE "absent"}

TypeOK ==
    /\ qdrant \in BOOLEAN /\ coll \in BOOLEAN
    /\ server \in {"serving", "grace", "cancelled", "joining", "exited"}
    /\ queue \in Seq({c \in Calls : pc[c] = "queued"})
    /\ kind \in [Calls -> KindsOfCall]
    /\ pc \in [Calls -> {"idle", "queued", "check", "exists", "embed", "query", "return"}]
    /\ tries \in [Calls -> 0..(Attempts - 1)]
    /\ status \in [Calls -> Statuses]
    /\ client \in [Calls -> Statuses \cup {"none", "pending", "CANCELLED"}]
    /\ Cardinality(Running) <= Threads

Init ==
    /\ qdrant \in BOOLEAN /\ coll \in BOOLEAN
    /\ server = "serving"
    /\ queue = <<>>
    /\ kind = [c \in Calls |-> "search"]
    /\ pc = [c \in Calls |-> "idle"]
    /\ tries = [c \in Calls |-> 0]
    /\ status = [c \in Calls |-> "OK"]
    /\ client = [c \in Calls |-> "none"]
    /\ counted = [c \in Calls |-> <<>>]
    /\ observed = [c \in Calls |-> 0]
    /\ seen = [c \in Calls |-> {}]

-----------------------------------------------------------------------------
\* Mistakes the code could have made.

\* Every attempt is counted as a search.
Query_ObservesTries(c) ==
    /\ pc[c] = "query"
    /\ observed' = [observed EXCEPT ![c] = @ + 1]
    /\ \/ qdrant /\ pc' = [pc EXCEPT ![c] = "return"]
          /\ status' = [status EXCEPT ![c] = IF coll THEN "OK" ELSE "INTERNAL"]
          /\ UNCHANGED tries
       \/ ~qdrant /\ tries[c] + 1 < Attempts
          /\ tries' = [tries EXCEPT ![c] = @ + 1] /\ UNCHANGED <<pc, status>>
       \/ ~qdrant /\ tries[c] + 1 = Attempts
          /\ pc' = [pc EXCEPT ![c] = "return"]
          /\ status' = [status EXCEPT ![c] = "UNAVAILABLE"] /\ UNCHANGED tries
    /\ UNCHANGED <<world, server, queue, kind, client, counted, seen>>

\* Any failure to find the collection is "not found".
Exists_Guesses(c) ==
    /\ pc[c] = "exists"
    /\ IF qdrant /\ coll
       THEN pc' = [pc EXCEPT ![c] = "embed"] /\ UNCHANGED status
       ELSE /\ pc' = [pc EXCEPT ![c] = "return"]
            /\ status' = [status EXCEPT ![c] = "NOT_FOUND"]
    /\ UNCHANGED <<world, server, queue, kind, tries, client, metrics, seen>>

\* server.stop() without waiting for its event.
Stopped_AtOnce ==
    /\ server \in {"grace", "cancelled"}
    /\ server' = "joining"
    /\ UNCHANGED <<world, queue, kind, handling, client, metrics, seen>>

\* A call of the client library without a timeout.
Exists_Hangs(c) ==
    /\ pc[c] = "exists" /\ qdrant
    /\ pc' = [pc EXCEPT ![c] = IF coll THEN "embed" ELSE "return"]
    /\ status' = [status EXCEPT ![c] = IF coll THEN "OK" ELSE "NOT_FOUND"]
    /\ UNCHANGED <<world, server, queue, kind, tries, client, metrics, seen>>

\* The thread of a cancelled call is not given back.
Return_OnlyIfOpen(c) ==
    /\ pc[c] = "return" /\ client[c] = "pending"
    /\ pc' = [pc EXCEPT ![c] = "idle"]
    /\ client' = [client EXCEPT ![c] = status[c]]
    /\ counted' = [counted EXCEPT ![c] = Append(@, status[c])]
    /\ UNCHANGED <<world, server, queue, kind, tries, status, observed, seen>>

-----------------------------------------------------------------------------
\* Accepting and starting calls: the pool's queue has no limit.

Accept(c, k) ==
    /\ server = "serving"
    /\ pc[c] = "idle" /\ c \notin Open
    /\ pc' = [pc EXCEPT ![c] = "queued"]
    /\ queue' = Append(queue, c)
    /\ kind' = [kind EXCEPT ![c] = k]
    /\ client' = [client EXCEPT ![c] = "pending"]
    /\ counted' = [counted EXCEPT ![c] = <<>>]
    /\ observed' = [observed EXCEPT ![c] = 0]
    /\ seen' = [seen EXCEPT ![c] = IF k = "search" THEN State(qdrant, coll) ELSE {}]
    /\ UNCHANGED <<world, server, tries, status>>

\* A call that was cancelled in the queue has no request left to handle.
Start ==
    /\ server # "exited"
    /\ queue # <<>> /\ Cardinality(Running) < Threads
    /\ queue' = Tail(queue)
    /\ LET c == Head(queue) IN
         pc' = [pc EXCEPT ![c] = IF c \in Open THEN "check" ELSE "idle"]
    /\ UNCHANGED <<world, server, kind, tries, status, client, metrics, seen>>

-----------------------------------------------------------------------------
\* The handler.

Goto(c, step) == pc' = [pc EXCEPT ![c] = step] /\ UNCHANGED <<tries, status>>

Decide(c, s) ==
    /\ pc' = [pc EXCEPT ![c] = "return"]
    /\ status' = [status EXCEPT ![c] = s]
    /\ UNCHANGED tries

\* HealthCheck answers whatever it finds.
Check(c) ==
    /\ pc[c] = "check"
    /\ \/ kind[c] = "bad"    /\ Decide(c, "INVALID_ARGUMENT")
       \/ kind[c] = "search" /\ Goto(c, "exists")
       \/ kind[c] = "health" /\ Decide(c, "OK")
    /\ UNCHANGED <<world, server, queue, kind, client, metrics, seen>>

\* collection_exists is called without with_retry: the client's own exception
\* reaches the handler's last except clause.
Exists(c) ==
    /\ pc[c] = "exists"
    /\ \/ ~qdrant /\ Decide(c, "INTERNAL")
       \/ qdrant /\ ~coll /\ Decide(c, "NOT_FOUND")
       \/ qdrant /\ coll /\ Goto(c, "embed")
    /\ UNCHANGED <<world, server, queue, kind, client, metrics, seen>>

Embed(c) ==
    /\ pc[c] = "embed"
    /\ \/ Goto(c, "query") /\ UNCHANGED seen
       \/ Decide(c, "INTERNAL") /\ seen' = [seen EXCEPT ![c] = @ \cup {"embedder"}]
    /\ UNCHANGED <<world, server, queue, kind, client, metrics>>

Retry(c) == tries[c] + 1 < Attempts

\* _execute_query under with_retry: only an outage is tried again; a collection
\* that is gone by now is an error of the client library.
Query(c) ==
    /\ pc[c] = "query"
    /\ \/ /\ qdrant /\ coll
          /\ observed' = [observed EXCEPT ![c] = @ + 1]
          /\ Decide(c, "OK")
       \/ /\ ~(qdrant /\ coll)
          /\ UNCHANGED observed
          /\ \/ qdrant /\ Decide(c, "INTERNAL")
             \/ ~qdrant /\ ~Retry(c) /\ Decide(c, "UNAVAILABLE")
             \/ /\ ~qdrant /\ Retry(c)
                /\ tries' = [tries EXCEPT ![c] = @ + 1]
                /\ UNCHANGED <<pc, status>>
    /\ UNCHANGED <<world, server, queue, kind, client, counted, seen>>

\* What _record_metrics counts: abort raises a plain Exception, which it takes
\* for an unforeseen one.
Recorded(s) == IF s = "OK" THEN "OK" ELSE "INTERNAL"

\* The wrapper's finally clause, then the answer goes out, unless the call was
\* cancelled meanwhile.
Return(c) ==
    /\ pc[c] = "return"
    /\ pc' = [pc EXCEPT ![c] = "idle"]
    /\ counted' = [counted EXCEPT ![c] = Append(@, Recorded(status[c]))]
    /\ client' = [client EXCEPT ![c] = IF c \in Open THEN status[c] ELSE @]
    /\ tries' = [tries EXCEPT ![c] = 0]
    /\ status' = [status EXCEPT ![c] = "OK"]
    /\ UNCHANGED <<world, server, queue, kind, observed, seen>>

-----------------------------------------------------------------------------
\* Shutdown: _shutdown calls server.stop(grace), waits for its event and exits;
\* the interpreter joins the pool's threads before the process is gone.

Sigterm ==
    /\ server = "serving" /\ server' = "grace"
    /\ UNCHANGED <<world, queue, kind, handling, client, metrics, seen>>

GraceOver ==
    /\ server = "grace" /\ server' = "cancelled"
    /\ client' = [c \in Calls |-> IF c \in Open THEN "CANCELLED" ELSE client[c]]
    /\ UNCHANGED <<world, queue, kind, handling, metrics, seen>>

Stopped ==
    /\ server \in {"grace", "cancelled"} /\ Open = {}
    /\ server' = "joining"
    /\ UNCHANGED <<world, queue, kind, handling, client, metrics, seen>>

Exit ==
    /\ server = "joining" /\ Running = {} /\ queue = <<>>
    /\ server' = "exited"
    /\ UNCHANGED <<world, queue, kind, handling, client, metrics, seen>>

\* stop_grace_period: 30 s after SIGTERM, 20 s after the grace period, the
\* container runtime kills the process, handlers that still retry with it.
Kill ==
    /\ server \in {"cancelled", "joining"}
    /\ server' = "exited"
    /\ queue' = <<>>
    /\ pc' = [c \in Calls |-> "idle"]
    /\ UNCHANGED <<world, kind, tries, status, client, metrics, seen>>

-----------------------------------------------------------------------------
\* The world around: an outage begins or ends; an upload makes the collection,
\* an operator drops it.

Observe(up, exists) ==
    seen' = [c \in Calls |-> IF c \in Open /\ kind[c] = "search"
                             THEN seen[c] \cup State(up, exists) ELSE seen[c]]

QdrantFlips ==
    /\ qdrant' = ~qdrant
    /\ Observe(qdrant', coll)
    /\ UNCHANGED <<coll, server, queue, kind, handling, client, metrics>>

CollectionFlips ==
    /\ qdrant
    /\ coll' = ~coll
    /\ Observe(qdrant, coll')
    /\ UNCHANGED <<qdrant, server, queue, kind, handling, client, metrics>>

-----------------------------------------------------------------------------

Handle(c) == Check(c) \/ Exists(c) \/ Embed(c) \/ Query(c) \/ Return(c)

Shutdown == GraceOver \/ Stopped \/ Exit

Next ==
    \/ \E c \in Calls, k \in KindsOfCall : Accept(c, k)
    \/ Start
    \/ \E c \in Calls : Handle(c)
    \/ Sigterm \/ Shutdown \/ Kill
    \/ QdrantFlips \/ CollectionFlips

Spec == Init /\ [][Next]_vars

\* Threads are scheduled, every call of the client library has a timeout, and
\* the grace period passes.  Nobody has to send SIGTERM, or SIGKILL.
FairSpec ==
    /\ Spec
    /\ WF_vars(Start) /\ WF_vars(Shutdown)
    /\ \A c \in Calls : WF_vars(Handle(c))

-----------------------------------------------------------------------------
\* Properties.

Answered(c) == client[c] \in Statuses

\* Every error a client gets has its cause during the call, and a search that
\* meets no trouble at any moment is answered.
StatusJustified ==
    \A c \in Calls : Answered(c) =>
        /\ client[c] = "INVALID_ARGUMENT" <=> kind[c] = "bad"
        /\ client[c] = "NOT_FOUND" => "absent" \in seen[c] /\ "up" \in seen[c]
        /\ client[c] = "UNAVAILABLE" => "down" \in seen[c] /\ "present" \in seen[c]
        /\ client[c] = "INTERNAL" =>
              "embedder" \in seen[c] \/ "down" \in seen[c] \/ {"present", "absent"} \subseteq seen[c]
        /\ (client[c] = "OK" /\ kind[c] = "search") => {"up", "present"} \subseteq seen[c]

\* Whatever way a handler ends, the call is counted once, as OK exactly when it
\* was answered so, and a search's results are observed once however often the
\* query was tried.
CountedOnce ==
    \A c \in Calls : Answered(c) =>
        /\ Len(counted[c]) = 1
        /\ counted[c][1] = "OK" <=> client[c] = "OK"
        /\ observed[c] = IF client[c] = "OK" /\ kind[c] = "search" THEN 1 ELSE 0

\* The process does not go before every accepted call has its answer or was
\* cancelled, and none is cancelled within the grace period.
Drained ==
    /\ server \in {"joining", "exited"} => Open = {}
    /\ server = "grace" => \A c \in Calls : client[c] # "CANCELLED"

\* Every accepted call gets an answer, however long the queue and whatever
\* Qdrant does.
CallsEnd == \A c \in Calls : (c \in Open) ~> (c \notin Open)

\* SIGTERM ends the process.
ShutsDown == (server = "grace") ~> (server = "exited")

=============================================================================
