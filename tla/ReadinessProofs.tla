--------------------------- MODULE ReadinessProofs ---------------------------
(***************************************************************************)
(* Theorems about Readiness, for any number of pool threads and of waiting    *)
(* jobs.  Warm says why a ready process never loads the model again; Owned    *)
(* that only the ping of this probe that the request thread waits for is       *)
(* still awaited, whatever is left in the pool from earlier ones; Fresh what   *)
(* an ok rests on.                                                           *)
(***************************************************************************)
EXTENDS Readiness, TLAPS

Warm ==
    /\ loaded => warmup = "done"
    /\ warmup \in {"encode", "done"} => model
    /\ reported => loaded /\ main # "load"

Mine(job) == job.awaited => main = job.of /\ future = "pending"

Owned ==
    /\ \A i \in 1..Len(queue) : Mine(queue[i])
    /\ \A t \in PoolThreads : busy[t] # NoJob => Mine(busy[t])
    /\ \A i, j \in 1..Len(queue) : queue[i].awaited /\ queue[j].awaited => i = j
    /\ \A t, u \in PoolThreads :
          busy[t] # NoJob /\ busy[t].awaited /\ busy[u] # NoJob /\ busy[u].awaited => t = u
    /\ \A i \in 1..Len(queue), t \in PoolThreads :
          ~(queue[i].awaited /\ busy[t] # NoJob /\ busy[t].awaited)

Probing == main \in Stores \cup {"answer"}

Fresh ==
    /\ Probing => /\ postgres = "up" => "postgres" \in seen
                  /\ qdrant = "up" => "qdrant" \in seen
    /\ postgres = "down" => \A t \in PoolThreads : conn[t] # "open"
    /\ PingsFresh

-----------------------------------------------------------------------------
\* Types.

LEMMA TypesStep == TypeOK /\ Owned /\ [Next]_vars => TypeOK'
<1> SUFFICES ASSUME TypeOK, Owned, [Next]_vars PROVE TypeOK'
  OBVIOUS
<1> USE DEF TypeOK, stores, embedder, probe, pool
<1>1. CASE WarmupStep
  <2>1. CASE WarmupBegin
    BY <2>1 DEF WarmupBegin
  <2>2. CASE WarmupLoad
    BY <2>2 DEF WarmupLoad
  <2>3. CASE WarmupEncode
    BY <2>3 DEF WarmupEncode
  <2> QED
    BY <1>1, <2>1, <2>2, <2>3 DEF WarmupStep
<1>2. CASE Request \/ RequestLoad \/ RequestEncode
  <2>1. /\ main' \in {"idle", "load", "encode"} /\ main \in {"idle", "load", "encode"}
        /\ model' \in BOOLEAN
        /\ UNCHANGED <<stores, warmup, loaded, pings, reported, future, seen, pool>>
    BY <1>2 DEF Request, RequestLoad, RequestEncode
  <2>2. main' \in Steps /\ main' \notin Stores /\ main \notin Stores
    BY <2>1 DEF Steps, Stores
  <2> QED
    BY <2>1, <2>2
<1>3. ASSUME NEW s \in Stores, Submit(s)
      PROVE  queue' \in Seq(Jobs) /\ main' \in Steps /\ main' \in Stores /\ future' = "pending"
  <2>1. [of |-> s, awaited |-> TRUE] \in Jobs
    BY DEF Jobs
  <2> QED
    BY <1>3, <2>1 DEF Submit, Steps, Stores
<1>4. CASE Probe
  BY <1>3, <1>4 DEF Probe, Stores, Up
<1>5. CASE PingNext
  BY <1>3, <1>5 DEF PingNext, Stores
<1>6. CASE PingDone
  BY <1>6 DEF PingDone, Conclude, Steps, Stores
<1>7. CASE TimeOut
  <2>1. \A job \in Jobs : Forget(job) \in Jobs
    BY DEF Jobs, Forget
  <2>2. \A i \in 1..Len(queue) : queue[i] \in Jobs
    OBVIOUS
  <2>3. queue' = [i \in 1..Len(queue) |-> Forget(queue[i])] /\ Len(queue) \in Nat
    BY <1>7 DEF TimeOut, Abandon
  <2>4. queue' \in Seq(Jobs)
    BY <2>1, <2>2, <2>3
  <2>5. busy' \in [PoolThreads -> Jobs \cup {NoJob}]
    BY <1>7, <2>1 DEF TimeOut, Abandon
  <2> QED
    BY <1>7, <2>4, <2>5 DEF TimeOut, Conclude, Steps, Stores
<1>8. CASE Respond
  <2>1. reported' \in BOOLEAN
    BY <1>8 DEF Respond, Healthy
  <2> QED
    BY <1>8, <2>1 DEF Respond, Steps, Stores
<1>9. ASSUME NEW t \in PoolThreads, PoolStep(t) PROVE TypeOK'
  <2>1. CASE Take(t)
    <3>1. Head(queue) \in Jobs /\ Tail(queue) \in Seq(Jobs)
      BY <2>1 DEF Take
    <3> QED
      BY <2>1, <3>1 DEF Take
  <2>2. ASSUME NEW result \in {"ok", "error"}, Deliver(t, result), busy[t] # NoJob
        PROVE  /\ busy' \in [PoolThreads -> Jobs \cup {NoJob}]
               /\ future' \in {"none", "pending", "ok", "error"}
               /\ future' # "none" <=> future # "none"
    <3>1. busy[t].awaited => future = "pending"
      BY <2>2 DEF Owned, Mine
    <3> QED
      BY <2>2, <3>1 DEF Deliver
  <2>3. CASE Connect(t)
    BY <2>2, <2>3 DEF Connect
  <2>4. CASE Query(t) \/ AskQdrant(t)
    BY <2>2, <2>4 DEF Query, AskQdrant
  <2> QED
    BY <1>9, <2>1, <2>3, <2>4 DEF PoolStep
<1>10. CASE StoreStep
  <2>1. ASSUME NEW ts \in SUBSET PoolThreads, Break(ts)
        PROVE  conn' \in [PoolThreads -> {"none", "open", "broken"}]
    BY <2>1 DEF Break
  <2>2. ASSUME NEW state \in {"up", "down", "hung"}, PostgresTo(state),
               conn' \in [PoolThreads -> {"none", "open", "broken"}]
        PROVE  TypeOK'
    <3>1. seen' \in SUBSET Stores
      BY <2>2 DEF PostgresTo, Stores
    <3>2. /\ postgres' \in {"up", "down", "hung"}
          /\ UNCHANGED <<qdrant, embedder, probe, queue, busy>>
      BY <2>2 DEF PostgresTo
    <3> QED
      BY <2>2, <3>1, <3>2
  <2>3. CASE PostgresStops
    BY <2>1, <2>2, <2>3 DEF PostgresStops
  <2>4. CASE PostgresStarts \/ PostgresHangs
    BY <2>2, <2>4 DEF PostgresStarts, PostgresHangs
  <2>5. CASE PostgresWakes
    BY <2>1, <2>2, <2>5 DEF PostgresWakes
  <2>6. CASE QdrantFlips
    <3>1. seen' \in SUBSET Stores /\ qdrant' \in {"up", "down"}
      BY <2>6 DEF QdrantFlips, Stores
    <3> QED
      BY <2>6, <3>1 DEF QdrantFlips
  <2> QED
    BY <1>10, <2>3, <2>4, <2>5, <2>6 DEF StoreStep
<1>11. CASE UNCHANGED vars
  BY <1>11 DEF vars
<1> QED
  BY <1>1, <1>2, <1>4, <1>5, <1>6, <1>7, <1>8, <1>9, <1>10, <1>11 DEF Next, MainStep

LEMMA TypesInit == Init => TypeOK
<1> SUFFICES ASSUME Init PROVE TypeOK
  OBVIOUS
<1>1. model \in BOOLEAN /\ loaded \in BOOLEAN /\ reported \in BOOLEAN
  BY DEF Init
<1>2. queue \in Seq(Jobs) /\ seen \in SUBSET Stores
  BY DEF Init
<1>3. pings \in [Stores -> {"none", "ok", "error", "timeout"}]
  BY DEF Init
<1>4. main \in Steps /\ (main \in Stores <=> future # "none")
  BY DEF Init, Steps, Stores
<1> QED
  BY <1>1, <1>2, <1>3, <1>4 DEF Init, TypeOK

-----------------------------------------------------------------------------
\* The model.

LEMMA WarmStep == TypeOK /\ Warm /\ [Next]_vars => Warm'
<1> SUFFICES ASSUME TypeOK, Warm, [Next]_vars PROVE Warm'
  OBVIOUS
<1> USE DEF TypeOK, Warm, stores, embedder, probe, pool
<1>1. CASE WarmupStep
  BY <1>1 DEF WarmupStep, WarmupBegin, WarmupLoad, WarmupEncode
<1>2. CASE Request \/ RequestLoad \/ RequestEncode
  BY <1>2 DEF Request, RequestLoad, RequestEncode
<1>3. CASE Probe \/ PingNext
  BY <1>3 DEF Probe, PingNext, Submit
<1>4. CASE PingDone \/ TimeOut
  BY <1>4 DEF PingDone, TimeOut, Conclude
<1>5. CASE Respond
  BY <1>5 DEF Respond, Healthy
<1>6. ASSUME NEW t \in PoolThreads, PoolStep(t) PROVE Warm'
  BY <1>6 DEF PoolStep, Take, Connect, Query, AskQdrant
<1>7. CASE StoreStep \/ UNCHANGED vars
  BY <1>7 DEF StoreStep, PostgresStops, PostgresStarts, PostgresHangs, PostgresWakes, PostgresTo,
              QdrantFlips, vars
<1> QED
  BY <1>1, <1>2, <1>3, <1>4, <1>5, <1>6, <1>7 DEF Next, MainStep

-----------------------------------------------------------------------------
\* Jobs.

\* What keeps Owned when no job is added or taken.
LEMMA OwnedFrame ==
    ASSUME TypeOK, Owned,
           Len(queue') = Len(queue),
           \A i \in 1..Len(queue) : queue'[i].of = queue[i].of
                                    /\ (queue'[i].awaited => queue[i].awaited /\ UNCHANGED <<main, future>>),
           \A t \in PoolThreads : busy'[t] # NoJob =>
                 /\ busy[t] # NoJob /\ busy'[t].of = busy[t].of
                 /\ busy'[t].awaited => busy[t].awaited /\ UNCHANGED <<main, future>>
    PROVE  Owned'
BY DEF Owned, Mine

LEMMA OwnedStep == TypeOK /\ Owned /\ [Next]_vars => Owned'
<1> SUFFICES ASSUME TypeOK, Owned, [Next]_vars PROVE Owned'
  OBVIOUS
<1> USE DEF TypeOK, stores, embedder, probe, pool
<1>0. Len(queue) \in Nat /\ \A i \in 1..Len(queue) : queue[i] \in Jobs
  OBVIOUS
<1>1. CASE WarmupStep \/ StoreStep \/ UNCHANGED vars
  BY <1>1 DEF WarmupStep, WarmupBegin, WarmupLoad, WarmupEncode, StoreStep, PostgresStops,
              PostgresStarts, PostgresHangs, PostgresWakes, PostgresTo, QdrantFlips, vars,
              Owned, Mine
\* Nothing is awaited outside a ping.
<1>2. ASSUME future # "pending"
      PROVE  /\ \A i \in 1..Len(queue) : ~queue[i].awaited
             /\ \A t \in PoolThreads : busy[t] # NoJob => ~busy[t].awaited
  BY <1>2 DEF Owned, Mine
<1>3. CASE Request \/ RequestLoad \/ RequestEncode \/ PingDone \/ Respond
  <2>1. future # "pending" /\ UNCHANGED <<queue, busy>>
    BY <1>3 DEF Request, RequestLoad, RequestEncode, PingDone, Respond, Stores
  <2> QED
    BY <1>2, <2>1, OwnedFrame
<1>4. ASSUME NEW s \in Stores, Submit(s), UNCHANGED busy, main \notin Stores PROVE Owned'
  <2>1. /\ queue' = Append(queue, [of |-> s, awaited |-> TRUE])
        /\ main' = s /\ future' = "pending"
    BY <1>4 DEF Submit
  <2>2. /\ Len(queue') = Len(queue) + 1
        /\ \A i \in 1..Len(queue) : queue'[i] = queue[i]
        /\ queue'[Len(queue) + 1] = [of |-> s, awaited |-> TRUE]
    BY <2>1
  <2>3. \A i \in 1..Len(queue') : queue'[i].awaited => i = Len(queue) + 1
    BY <1>0, <1>2, <1>4, <2>2
  <2> QED
    BY <1>0, <1>2, <1>4, <2>1, <2>2, <2>3 DEF Owned, Mine
<1>5. CASE Probe \/ PingNext
  BY <1>4, <1>5 DEF Probe, PingNext, Stores
<1>6. CASE TimeOut
  <2>1. Len(queue') = Len(queue) /\ \A i \in 1..Len(queue) : queue'[i] = Forget(queue[i])
    BY <1>0, <1>6 DEF TimeOut, Abandon
  <2>2. \A t \in PoolThreads : busy'[t] = IF busy[t] = NoJob THEN NoJob ELSE Forget(busy[t])
    BY <1>6 DEF TimeOut, Abandon
  <2>3. \A job \in Jobs : ~Forget(job).awaited /\ Forget(job).of = job.of
    BY DEF Forget, Jobs
  <2> QED
    BY <1>0, <2>1, <2>2, <2>3, OwnedFrame
<1>7. ASSUME NEW t \in PoolThreads, Take(t) PROVE Owned'
  <2>1. /\ Len(queue') = Len(queue) - 1 /\ Len(queue) > 0
        /\ \A i \in 1..Len(queue') : queue'[i] = queue[i + 1] /\ i + 1 \in 1..Len(queue)
    BY <1>0, <1>7 DEF Take
  <2>2. /\ busy[t] = NoJob /\ busy'[t] = queue[1] /\ 1 \in 1..Len(queue)
        /\ \A u \in PoolThreads : u # t => busy'[u] = busy[u]
        /\ UNCHANGED <<main, future>>
    BY <1>0, <1>7, <2>1 DEF Take
  <2>3. \A i \in 1..Len(queue') : Mine(queue[i])' /\ (queue'[i].awaited => ~queue[1].awaited)
    <3> SUFFICES ASSUME NEW i \in 1..Len(queue')
                 PROVE  Mine(queue[i])' /\ (queue'[i].awaited => ~queue[1].awaited)
      OBVIOUS
    <3>1. queue'[i] = queue[i + 1] /\ i + 1 \in 1..Len(queue) /\ i + 1 # 1
      BY <1>0, <2>1
    <3> QED
      BY <2>2, <3>1 DEF Owned, Mine
  <2>4. \A i, j \in 1..Len(queue') : queue'[i].awaited /\ queue'[j].awaited => i = j
    <3> SUFFICES ASSUME NEW i \in 1..Len(queue'), NEW j \in 1..Len(queue'),
                        queue'[i].awaited, queue'[j].awaited
                 PROVE  i = j
      OBVIOUS
    <3>1. i + 1 = j + 1
      BY <2>1 DEF Owned
    <3> QED
      BY <1>0, <2>1, <3>1
  <2>5. \A i \in 1..Len(queue'), u \in PoolThreads :
            ~(queue'[i].awaited /\ busy'[u] # NoJob /\ busy'[u].awaited)
    BY <2>1, <2>2, <2>3 DEF Owned
  <2>6. \A u \in PoolThreads : busy'[u] # NoJob => Mine(busy[u])'
    BY <2>2 DEF Owned, Mine
  <2>7. \A u, v \in PoolThreads :
          busy'[u] # NoJob /\ busy'[u].awaited /\ busy'[v] # NoJob /\ busy'[v].awaited => u = v
    BY <2>2 DEF Owned
  <2> QED
    BY <2>3, <2>4, <2>5, <2>6, <2>7 DEF Owned
<1>8. ASSUME NEW t \in PoolThreads, NEW result, Deliver(t, result), UNCHANGED <<main, queue>>,
             busy[t] # NoJob
      PROVE  Owned'
  <2>1. /\ busy'[t] = NoJob
        /\ \A u \in PoolThreads : u # t => busy'[u] = busy[u]
        /\ future' = IF busy[t].awaited THEN result ELSE future
    BY <1>8 DEF Deliver
  <2>2. CASE busy[t].awaited
    BY <1>8, <2>1, <2>2 DEF Owned, Mine
  <2>3. CASE ~busy[t].awaited
    BY <1>8, <2>1, <2>3 DEF Owned, Mine
  <2> QED
    BY <2>2, <2>3
<1>9. ASSUME NEW t \in PoolThreads, Connect(t) \/ Query(t) \/ AskQdrant(t) PROVE Owned'
  BY <1>8, <1>9 DEF Connect, Query, AskQdrant
<1> QED
  BY <1>1, <1>3, <1>5, <1>6, <1>7, <1>9 DEF Next, MainStep, PoolStep

-----------------------------------------------------------------------------
\* Answers.

LEMMA FreshStep == TypeOK /\ Owned /\ Fresh /\ [Next]_vars => Fresh'
<1> SUFFICES ASSUME TypeOK, Owned, Fresh, [Next]_vars PROVE Fresh'
  OBVIOUS
<1> USE DEF TypeOK, Fresh, PingsFresh, Probing, stores, embedder, probe, pool
<1>1. CASE WarmupStep \/ UNCHANGED vars
  BY <1>1 DEF WarmupStep, WarmupBegin, WarmupLoad, WarmupEncode, vars
<1>2. CASE Request \/ RequestLoad \/ RequestEncode
  BY <1>2 DEF Request, RequestLoad, RequestEncode, Stores
<1>3. CASE Probe
  <2>1. /\ seen' = Up /\ main' = "postgres" /\ future' = "pending"
        /\ \A s \in Stores : pings'[s] = "none"
        /\ UNCHANGED <<postgres, qdrant, conn>>
    BY <1>3 DEF Probe, Submit
  <2>2. /\ postgres = "up" => "postgres" \in Up
        /\ qdrant = "up" => "qdrant" \in Up
    BY DEF Up, Stores
  <2> QED
    BY <2>1, <2>2
<1>4. CASE PingNext
  BY <1>4 DEF PingNext, Submit
<1>5. CASE PingDone
  <2>1. /\ main \in Stores /\ future \in {"ok", "error"} /\ main' = "answer"
        /\ pings'[main] = future /\ \A s \in Stores : s # main => pings'[s] = pings[s]
        /\ UNCHANGED <<postgres, qdrant, seen, conn>>
    BY <1>5 DEF PingDone, Conclude
  <2> QED
    BY <2>1 DEF Stores
<1>6. CASE TimeOut
  <2>1. /\ main \in Stores /\ main' = "answer"
        /\ pings'[main] = "timeout" /\ \A s \in Stores : s # main => pings'[s] = pings[s]
        /\ UNCHANGED <<postgres, qdrant, seen, conn>>
    BY <1>6 DEF TimeOut, Conclude
  <2> QED
    BY <2>1 DEF Stores
<1>7. CASE Respond
  BY <1>7 DEF Respond, Stores
<1>8. ASSUME NEW t \in PoolThreads, Take(t) PROVE Fresh'
  BY <1>8 DEF Take
<1>9. ASSUME NEW t \in PoolThreads, NEW result \in {"ok", "error"}, Deliver(t, result),
             busy[t] # NoJob, UNCHANGED <<stores, main, pings, seen>>,
             result = "ok" => (IF busy[t].of = "postgres" THEN postgres = "up" ELSE qdrant = "up"),
             postgres = "down" => \A u \in PoolThreads : conn'[u] # "open"
      PROVE  Fresh'
  <2>1. busy[t].awaited => main = busy[t].of /\ main \in Stores
    <3>1. busy[t] \in Jobs
      BY <1>9
    <3> QED
      BY <1>9, <3>1 DEF Owned, Mine, Jobs
  <2>2. \A s \in Stores : main = s /\ future' = "ok" => s \in seen
    BY <1>9, <2>1 DEF Deliver, Stores
  <2> QED
    BY <1>9, <2>2
<1>10. ASSUME NEW t \in PoolThreads, Connect(t) PROVE Fresh'
  BY <1>9, <1>10 DEF Connect
<1>11. ASSUME NEW t \in PoolThreads, Query(t) PROVE Fresh'
  <2>1. conn[t] = "open" => postgres = "up"
    BY <1>11 DEF Query, Blocked
  <2> QED
    BY <1>9, <1>11, <2>1 DEF Query
<1>12. ASSUME NEW t \in PoolThreads, AskQdrant(t) PROVE Fresh'
  BY <1>9, <1>12 DEF AskQdrant
<1>13. CASE StoreStep
  <2>1. ASSUME NEW ts \in SUBSET PoolThreads, Break(ts)
        PROVE  \A t \in PoolThreads : conn'[t] = "open" => conn[t] = "open" /\ t \notin ts
    BY <2>1 DEF Break
  <2>2. CASE PostgresStops
    <3>1. \A t \in PoolThreads : conn'[t] # "open"
      BY <2>1, <2>2 DEF PostgresStops
    <3> QED
      BY <2>2, <3>1 DEF PostgresStops, PostgresTo
  <2>3. CASE PostgresStarts \/ PostgresHangs
    BY <2>3 DEF PostgresStarts, PostgresHangs, PostgresTo
  <2>4. CASE PostgresWakes
    BY <2>4 DEF PostgresWakes, PostgresTo
  <2>5. CASE QdrantFlips
    BY <2>5 DEF QdrantFlips
  <2> QED
    BY <1>13, <2>2, <2>3, <2>4, <2>5 DEF StoreStep
<1> QED
  BY <1>1, <1>2, <1>3, <1>4, <1>5, <1>6, <1>7, <1>8, <1>10, <1>11, <1>12, <1>13
     DEF Next, MainStep, PoolStep

-----------------------------------------------------------------------------
\* Theorems.

Inv == TypeOK /\ Warm /\ Owned /\ Fresh

LEMMA Invariant == Spec => []Inv
<1>1. Init => Inv
  <2>1. Init => Warm /\ Owned
    BY DEF Init, Warm, Owned
  <2>2. Init => Fresh
    BY DEF Init, Fresh, Probing, PingsFresh, Stores
  <2> QED
    BY <2>1, <2>2, TypesInit DEF Inv
<1>2. Inv /\ [Next]_vars => Inv'
  BY TypesStep, WarmStep, OwnedStep, FreshStep DEF Inv
<1> QED
  BY <1>1, <1>2, PTL DEF Spec

\* Every variable keeps to its values, and a future is there exactly in a ping.
THEOREM TypeCorrect == Spec => []TypeOK
<1>1. Inv => TypeOK
  BY DEF Inv
<1> QED
  BY <1>1, Invariant, PTL

\* Once /healthz has answered 200 no request and no warm-up loads the model.
THEOREM ReadyIsWarm == Spec => []ReadyMeansWarm
<1>1. Inv => ReadyMeansWarm
  BY DEF Inv, Warm, ReadyMeansWarm
<1> QED
  BY <1>1, Invariant, PTL

\* The answer of a ping that was abandoned is never taken for that of a later
\* one, however many jobs and threads are left over.
THEOREM OkIsFresh == Spec => []PingsFresh
<1>1. Inv => PingsFresh
  BY DEF Inv, Fresh
<1> QED
  BY <1>1, Invariant, PTL

=============================================================================
