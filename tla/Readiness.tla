------------------------------ MODULE Readiness ------------------------------
(***************************************************************************)
(* One server process of the web container: the thread that warms the BGE-M3*)
(* model up (apps/ingestion/_warmup.py, embedder.py), the thread that serves*)
(* requests one at a time, and /healthz with its pool of two ping threads    *)
(* (apps/core/views.py).  A ping that times out is abandoned, not cancelled: *)
(* its job stays in the pool's queue or on its thread.                       *)
(*                                                                         *)
(* Each pool thread has a Django connection of its own.  Django replaces     *)
(* broken connections at the boundaries of requests, and no request ever     *)
(* starts on a pool thread.                                                  *)
(***************************************************************************)
EXTENDS Naturals, Sequences

CONSTANTS
    PoolThreads,  \* ThreadPoolExecutor(max_workers)
    MaxQueue,     \* bound on the jobs that wait for a pool thread
    NoJob

ASSUME PoolAssumption == PoolThreads # {} /\ MaxQueue \in Nat \ {0}

VARIABLES
    postgres,   \* "up", "down" (refuses connections) or "hung" (never answers)
    qdrant,     \* "up" or "down"
    warmup,     \* what the warm-up thread does
    model,      \* has _get_model cached the model?
    loaded,     \* _EMBEDDER_LOADED
    main,       \* what the request thread does
    pings,      \* what the probe has found out about each store
    reported,   \* history: has this process answered 200?
    seen,       \* history: the stores that were up at some time of this probe
    queue,      \* the pool's jobs that no thread has taken
    busy,       \* the job of each pool thread
    conn,       \* the Postgres connection of each pool thread
    future      \* the job the request thread waits for: "none", "pending" or result

stores   == <<postgres, qdrant>>
embedder == <<warmup, model, loaded>>
probe    == <<main, pings, reported, future>>
pool     == <<queue, busy, conn>>
vars     == <<stores, embedder, probe, seen, pool>>

Stores == {"postgres", "qdrant"}

\* awaited: does the request thread still wait for this job?
Jobs == [of : Stores, awaited : BOOLEAN]

ASSUME NullAssumption == NoJob \notin Jobs

Steps == {"idle", "load", "encode", "postgres", "qdrant", "answer"}

TypeOK ==
    /\ postgres \in {"up", "down", "hung"} /\ qdrant \in {"up", "down"}
    /\ warmup \in {"begin", "load", "encode", "done", "failed"}
    /\ model \in BOOLEAN /\ loaded \in BOOLEAN /\ reported \in BOOLEAN
    /\ main \in Steps
    /\ pings \in [Stores -> {"none", "ok", "error", "timeout"}]
    /\ seen \in SUBSET Stores
    /\ queue \in Seq(Jobs)
    /\ busy \in [PoolThreads -> Jobs \cup {NoJob}]
    /\ conn \in [PoolThreads -> {"none", "open", "broken"}]
    /\ future \in {"none", "pending", "ok", "error"}
    /\ main \in Stores <=> future # "none"

\* IngestionConfig.ready has started the warm-up thread before the first request.
Init ==
    /\ postgres = "up" /\ qdrant = "up"
    /\ warmup = "begin" /\ model = FALSE /\ loaded = FALSE
    /\ main = "idle" /\ pings = [s \in Stores |-> "none"]
    /\ reported = FALSE /\ seen = {}
    /\ queue = <<>>
    /\ busy = [t \in PoolThreads |-> NoJob]
    /\ conn = [t \in PoolThreads |-> "none"]
    /\ future = "none"

Up == {s \in Stores : IF s = "postgres" THEN postgres = "up" ELSE qdrant = "up"}

\* Postgres would not answer this thread, nor fail.
Blocked(t) ==
    /\ busy[t] # NoJob /\ busy[t].of = "postgres"
    /\ conn[t] = "open" /\ postgres = "hung"

Awaited == {t \in PoolThreads : busy[t] # NoJob /\ busy[t].awaited}

-----------------------------------------------------------------------------
\* Mistakes the code could have made.

\* The flag is set when the warm-up starts.
WarmupBegin_Eager ==
    /\ warmup = "begin"
    /\ warmup' = IF model THEN "encode" ELSE "load"
    /\ loaded' = TRUE
    /\ UNCHANGED <<stores, model, probe, seen, pool>>

TimeOut_Never == FALSE

Conclude_KeepsFuture(verdict) ==
    /\ pings' = [pings EXCEPT ![main] = verdict]
    /\ main' = "answer" /\ UNCHANGED future

-----------------------------------------------------------------------------
\* The embedder.  lru_cache does not lock: two threads that miss both load.

WarmupBegin ==
    /\ warmup = "begin"
    /\ warmup' = IF model THEN "encode" ELSE "load"
    /\ UNCHANGED <<stores, model, loaded, probe, seen, pool>>

WarmupLoad ==
    /\ warmup = "load"
    /\ \/ warmup' = "encode" /\ model' = TRUE
       \/ warmup' = "failed" /\ UNCHANGED model
    /\ UNCHANGED <<stores, loaded, probe, seen, pool>>

\* A failure is logged and swallowed.
WarmupEncode ==
    /\ warmup = "encode"
    /\ \/ warmup' = "done" /\ loaded' = TRUE
       \/ warmup' = "failed" /\ UNCHANGED loaded
    /\ UNCHANGED <<stores, model, probe, seen, pool>>

\* An upload or a search, as far as it concerns the embedder.
Request ==
    /\ main = "idle"
    /\ main' = IF model THEN "encode" ELSE "load"
    /\ UNCHANGED <<stores, embedder, pings, reported, future, seen, pool>>

RequestLoad ==
    /\ main = "load"
    /\ \/ main' = "encode" /\ model' = TRUE
       \/ main' = "idle" /\ UNCHANGED model
    /\ UNCHANGED <<stores, warmup, loaded, pings, reported, future, seen, pool>>

RequestEncode ==
    /\ main = "encode"
    /\ main' = "idle"
    /\ UNCHANGED <<stores, embedder, pings, reported, future, seen, pool>>

-----------------------------------------------------------------------------
\* The request thread inside healthz.

Submit(s) ==
    /\ main' = s
    /\ future' = "pending"
    /\ queue' = Append(queue, [of |-> s, awaited |-> TRUE])

Probe ==
    /\ main = "idle" /\ Len(queue) + 2 <= MaxQueue
    /\ Submit("postgres")
    /\ pings' = [s \in Stores |-> "none"]
    /\ seen' = Up
    /\ UNCHANGED <<stores, embedder, reported, busy, conn>>

\* future.result has returned, raised or timed out.
Conclude(verdict) ==
    /\ pings' = [pings EXCEPT ![main] = verdict]
    /\ main' = "answer" /\ future' = "none"

PingDone ==
    /\ main \in Stores /\ future \in {"ok", "error"}
    /\ Conclude(future)
    /\ UNCHANGED <<stores, embedder, reported, seen, pool>>

\* A store that is up answers within the two seconds, so a ping only times out
\* when its store is not, or when no thread was free to ask.
Slow(s) ==
    \/ s \notin Up
    \/ Awaited = {} /\ \A t \in PoolThreads : Blocked(t)

Forget(job) == [job EXCEPT !.awaited = FALSE]

Abandon ==
    /\ queue' = [i \in DOMAIN queue |-> Forget(queue[i])]
    /\ busy' = [t \in PoolThreads |-> IF busy[t] = NoJob THEN NoJob ELSE Forget(busy[t])]

\* Mistakes: a later probe takes the result that is there, whosever it is; and a
\* timeout shorter than an answer takes.
TimeOut_Keeps ==
    /\ main \in Stores /\ future = "pending" /\ Slow(main)
    /\ Conclude("timeout")
    /\ UNCHANGED <<stores, embedder, reported, seen, pool>>

TimeOut_Hasty ==
    /\ main \in Stores /\ future = "pending"
    /\ Conclude("timeout")
    /\ Abandon
    /\ UNCHANGED <<stores, embedder, reported, seen, conn>>

TimeOut ==
    /\ main \in Stores /\ future = "pending" /\ Slow(main)
    /\ Conclude("timeout")
    /\ Abandon
    /\ UNCHANGED <<stores, embedder, reported, seen, conn>>

\* After the first ping the second, after the second the response.
PingNext ==
    /\ main = "answer" /\ pings["qdrant"] = "none"
    /\ Submit("qdrant")
    /\ UNCHANGED <<stores, embedder, pings, reported, seen, busy, conn>>

Healthy == loaded /\ \A s \in Stores : pings[s] = "ok"

Respond ==
    /\ main = "answer" /\ pings["qdrant"] # "none"
    /\ main' = "idle"
    /\ reported' = (reported \/ Healthy)
    /\ UNCHANGED <<stores, embedder, pings, future, seen, pool>>

-----------------------------------------------------------------------------
\* The pool.  A thread that was not started yet counts as idle: submit starts one
\* when the first has not announced that it is free.

Take(t) ==
    /\ busy[t] = NoJob /\ queue # <<>>
    /\ busy' = [busy EXCEPT ![t] = Head(queue)]
    /\ queue' = Tail(queue)
    /\ UNCHANGED <<stores, embedder, probe, seen, conn>>

Deliver(t, result) ==
    /\ busy' = [busy EXCEPT ![t] = NoJob]
    /\ future' = IF busy[t].awaited THEN result ELSE future

\* connect_timeout is 2 s: a new connection is made or refused, it never hangs.
Connect(t) ==
    /\ busy[t] # NoJob /\ busy[t].of = "postgres" /\ conn[t] = "none"
    /\ IF postgres = "up"
       THEN Deliver(t, "ok") /\ conn' = [conn EXCEPT ![t] = "open"]
       ELSE Deliver(t, "error") /\ UNCHANGED conn
    /\ UNCHANGED <<stores, embedder, main, pings, reported, seen, queue>>

\* SELECT 1 on the connection the thread has, in whatever state that is.
Query(t) ==
    /\ busy[t] # NoJob /\ busy[t].of = "postgres" /\ conn[t] # "none"
    /\ ~Blocked(t)
    /\ Deliver(t, IF conn[t] = "open" THEN "ok" ELSE "error")
    /\ UNCHANGED <<stores, embedder, main, pings, reported, seen, queue, conn>>

\* get_collections, by a client that gives up after 2 s.
AskQdrant(t) ==
    /\ busy[t] # NoJob /\ busy[t].of = "qdrant"
    /\ Deliver(t, IF qdrant = "up" THEN "ok" ELSE "error")
    /\ UNCHANGED <<stores, embedder, main, pings, reported, seen, queue, conn>>

PoolStep(t) == Take(t) \/ Connect(t) \/ Query(t) \/ AskQdrant(t)

-----------------------------------------------------------------------------
\* The stores.

\* Connections do not survive the server, nor a network that stays dead for long.
Break(ts) == conn' = [t \in PoolThreads |->
                        IF t \in ts /\ conn[t] = "open" THEN "broken" ELSE conn[t]]

PostgresTo(state) ==
    /\ postgres' = state
    /\ seen' = seen \cup (IF state = "up" THEN {"postgres"} ELSE {})
    /\ UNCHANGED <<qdrant, embedder, probe, queue, busy>>

PostgresStops  == postgres = "up" /\ PostgresTo("down") /\ Break(PoolThreads)
PostgresStarts == postgres = "down" /\ PostgresTo("up") /\ UNCHANGED conn
PostgresHangs  == postgres = "up" /\ PostgresTo("hung") /\ UNCHANGED conn
PostgresWakes  ==
    /\ postgres = "hung" /\ PostgresTo("up")
    /\ \E ts \in SUBSET PoolThreads : Break(ts)

QdrantFlips ==
    /\ qdrant' = IF qdrant = "up" THEN "down" ELSE "up"
    /\ seen' = seen \cup (IF qdrant = "down" THEN {"qdrant"} ELSE {})
    /\ UNCHANGED <<postgres, embedder, probe, pool>>

-----------------------------------------------------------------------------

WarmupStep == WarmupBegin \/ WarmupLoad \/ WarmupEncode

MainStep ==
    \/ RequestLoad \/ RequestEncode
    \/ PingDone \/ TimeOut \/ PingNext \/ Respond

StoreStep ==
    PostgresStops \/ PostgresStarts \/ PostgresHangs \/ PostgresWakes \/ QdrantFlips

Next ==
    \/ WarmupStep \/ MainStep \/ Request \/ Probe
    \/ \E t \in PoolThreads : PoolStep(t)
    \/ StoreStep

Spec == Init /\ [][Next]_vars

\* Threads are scheduled, and the container's health check never stops asking:
\* its connection waits in the listen queue until the request thread is free.
\* The two seconds of a ping pass even if its store comes and goes meanwhile.
FairSpec ==
    /\ Spec
    /\ WF_vars(WarmupStep) /\ WF_vars(MainStep) /\ SF_vars(TimeOut) /\ SF_vars(Probe)
    /\ \A t \in PoolThreads : WF_vars(PoolStep(t))

-----------------------------------------------------------------------------
\* Properties.

\* The readiness gate: a process that has once answered 200 never makes a request
\* wait for the model to load.
ReadyMeansWarm == reported => main # "load" /\ warmup # "load"

\* A ping says ok only of a store that was up during this probe: an answer that
\* comes after the timeout is never taken for an answer to a later probe.
PingsFresh ==
    \A s \in Stores : (pings[s] = "ok" \/ (main = s /\ future = "ok")) => s \in seen

\* /healthz never hangs the load balancer, though Postgres may.
ProbeEnds == main \in Stores ~> main = "idle"

Unbroken == \A t \in PoolThreads : conn[t] # "broken"

\* When both stores are there for good and no pool thread holds a dead connection,
\* probes find them ok again and again, whatever was hung or abandoned before.
Recovers ==
    <>[](Up = Stores /\ Unbroken) => []<>(\A s \in Stores : pings[s] = "ok")

\* README: /healthz returns 200 when both stores are reachable.
RecoversAlways ==
    <>[](Up = Stores) => []<>(\A s \in Stores : pings[s] = "ok")

=============================================================================
