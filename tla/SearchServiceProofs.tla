------------------------- MODULE SearchServiceProofs -------------------------
(***************************************************************************)
(* Theorems about SearchService, for any calls, threads and attempts.  The    *)
(* invariant says what the history of a call holds at each step of its        *)
(* handler (Informed), what was recorded for it (Counted), that a thread      *)
(* takes no call twice (Waiting), and whom the shutdown may still leave        *)
(* without an answer (Served).                                               *)
(***************************************************************************)
EXTENDS SearchService, FiniteSetTheorems, TLAPS

Steps == {"idle", "queued", "check", "exists", "embed", "query", "return"}

Answers == Statuses \cup {"none", "pending", "CANCELLED"}

Types ==
    /\ qdrant \in BOOLEAN /\ coll \in BOOLEAN
    /\ server \in {"serving", "grace", "cancelled", "joining", "exited"}
    /\ queue \in Seq(Calls)
    /\ kind \in [Calls -> KindsOfCall]
    /\ pc \in [Calls -> Steps]
    /\ tries \in [Calls -> 0..(Attempts - 1)]
    /\ status \in [Calls -> Statuses]
    /\ client \in [Calls -> Answers]
    /\ DOMAIN counted = Calls /\ DOMAIN observed = Calls /\ DOMAIN seen = Calls

Waiting ==
    /\ \A i \in 1..Len(queue) : pc[queue[i]] = "queued"
    /\ \A i, j \in 1..Len(queue) : queue[i] = queue[j] => i = j

\* StatusJustified, of a status that may not have been sent.
Cause(c, s) ==
    /\ s = "INVALID_ARGUMENT" <=> kind[c] = "bad"
    /\ s = "NOT_FOUND" => "absent" \in seen[c] /\ "up" \in seen[c]
    /\ s = "UNAVAILABLE" => "down" \in seen[c] /\ "present" \in seen[c]
    /\ s = "INTERNAL" =>
          "embedder" \in seen[c] \/ "down" \in seen[c] \/ {"present", "absent"} \subseteq seen[c]
    /\ (s = "OK" /\ kind[c] = "search") => {"up", "present"} \subseteq seen[c]

Informed(c) ==
    /\ (client[c] = "pending" /\ kind[c] = "search") =>
          /\ IF qdrant THEN "up" \in seen[c] ELSE "down" \in seen[c]
          /\ IF coll THEN "present" \in seen[c] ELSE "absent" \in seen[c]
    /\ pc[c] \in {"exists", "embed", "query"} => kind[c] = "search"
    /\ (pc[c] \in {"embed", "query"} /\ client[c] = "pending") =>
          "up" \in seen[c] /\ "present" \in seen[c]
    /\ (pc[c] = "return" /\ client[c] = "pending") => Cause(c, status[c])
    /\ Answered(c) => pc[c] = "idle" /\ Cause(c, client[c])

Counted(c) ==
    /\ client[c] = "pending" =>
          /\ counted[c] = <<>>
          /\ observed[c] = IF pc[c] = "return" /\ status[c] = "OK" /\ kind[c] = "search"
                           THEN 1 ELSE 0
          /\ pc[c] # "idle"
    /\ Answered(c) =>
          /\ Len(counted[c]) = 1
          /\ counted[c][1] = "OK" <=> client[c] = "OK"
          /\ observed[c] = IF client[c] = "OK" /\ kind[c] = "search" THEN 1 ELSE 0

AllInformed == \A c \in Calls : Informed(c)
AllCounted  == \A c \in Calls : Counted(c)

Served ==
    /\ server \in {"cancelled", "joining", "exited"} => \A c \in Calls : client[c] # "pending"
    /\ server \in {"serving", "grace"} => \A c \in Calls : client[c] # "CANCELLED"

-----------------------------------------------------------------------------
\* Types and the queue.

LEMMA TypesStep == Types /\ [Next]_vars => Types'
<1> SUFFICES ASSUME Types, [Next]_vars PROVE Types'
  OBVIOUS
<1> USE DEF Types, handling, world, metrics
<1>1. ASSUME NEW c \in Calls, NEW k \in KindsOfCall, Accept(c, k) PROVE Types'
  BY <1>1 DEF Accept, Steps, Answers
<1>2. CASE Start
  <2>1. Tail(queue) \in Seq(Calls)
    BY <1>2 DEF Start
  <2> QED
    BY <1>2, <2>1 DEF Start, Steps
<1>0. ASSUME NEW c \in Calls,
             (\E step \in Steps : Goto(c, step)) \/ (\E s \in Statuses : Decide(c, s)),
             UNCHANGED <<world, server, queue, kind, client, metrics>>,
             DOMAIN seen' = Calls
      PROVE  Types'
  <2>1. CASE \E step \in Steps : Goto(c, step)
    BY <1>0, <2>1 DEF Goto
  <2>2. CASE \E s \in Statuses : Decide(c, s)
    <3>1. "return" \in Steps
      BY DEF Steps
    <3> QED
      BY <1>0, <2>2, <3>1 DEF Decide
  <2> QED
    BY <1>0, <2>1, <2>2
<1>3. ASSUME NEW c \in Calls, Check(c) PROVE Types'
  <2>1. /\ (\E step \in Steps : Goto(c, step)) \/ (\E s \in Statuses : Decide(c, s))
        /\ UNCHANGED <<world, server, queue, kind, client, metrics, seen>>
    BY <1>3 DEF Check, Steps, Statuses
  <2> QED
    BY <1>0, <2>1
<1>4. ASSUME NEW c \in Calls, Exists(c) PROVE Types'
  <2>1. /\ (\E step \in Steps : Goto(c, step)) \/ (\E s \in Statuses : Decide(c, s))
        /\ UNCHANGED <<world, server, queue, kind, client, metrics, seen>>
    BY <1>4 DEF Exists, Steps, Statuses
  <2> QED
    BY <1>0, <2>1
<1>5. ASSUME NEW c \in Calls, Embed(c) PROVE Types'
  <2>1. /\ (\E step \in Steps : Goto(c, step)) \/ (\E s \in Statuses : Decide(c, s))
        /\ UNCHANGED <<world, server, queue, kind, client, metrics>>
        /\ DOMAIN seen' = Calls
    BY <1>5 DEF Embed, Steps, Statuses
  <2> QED
    BY <1>0, <2>1
<1>6. ASSUME NEW c \in Calls, Query(c) PROVE Types'
  <2>1. tries' \in [Calls -> 0..(Attempts - 1)]
    <3>1. CASE UNCHANGED tries
      BY <3>1
    <3>2. CASE Retry(c) /\ tries' = [tries EXCEPT ![c] = @ + 1]
      <4>1. tries[c] \in Nat /\ tries[c] + 1 \in 0..(Attempts - 1)
        BY <3>2, BoundAssumption DEF Retry
      <4> QED
        BY <3>2, <4>1
    <3> QED
      BY <1>6, <3>1, <3>2 DEF Query, Decide
  <2> QED
    BY <1>6, <2>1 DEF Query, Decide, Steps, Statuses
<1>7. ASSUME NEW c \in Calls, Return(c) PROVE Types'
  <2>2. tries' \in [Calls -> 0..(Attempts - 1)]
    <3>1. 0 \in 0..(Attempts - 1)
      BY BoundAssumption
    <3> QED
      BY <1>7, <3>1 DEF Return
  <2> QED
    BY <1>7, <2>2 DEF Return, Steps, Statuses, Answers
<1>8. CASE Sigterm \/ Stopped \/ Exit
  BY <1>8 DEF Sigterm, Stopped, Exit
<1>9. CASE GraceOver
  BY <1>9 DEF GraceOver, Answers
<1>10. CASE Kill
  BY <1>10 DEF Kill, Steps
<1>11. CASE QdrantFlips
  BY <1>11 DEF QdrantFlips, Observe
<1>12. CASE CollectionFlips
  BY <1>12 DEF CollectionFlips, Observe
<1>13. CASE UNCHANGED vars
  BY <1>13 DEF vars
<1> QED
  BY <1>1, <1>2, <1>3, <1>4, <1>5, <1>6, <1>7, <1>8, <1>9, <1>10, <1>11, <1>12, <1>13
     DEF Next, Handle, Shutdown

LEMMA TypesInit == Init => Types
BY BoundAssumption DEF Init, Types, Steps, Answers, Statuses, KindsOfCall

\* A handler runs on, or returns its thread.
LEMMA Handled ==
    ASSUME Types, NEW c \in Calls, Handle(c)
    PROVE  /\ pc[c] \in {"check", "exists", "embed", "query", "return"}
           /\ UNCHANGED <<world, server, queue, kind>>
           /\ \A e \in Calls \ {c} :
                 /\ pc'[e] = pc[e] /\ status'[e] = status[e] /\ client'[e] = client[e]
                 /\ counted'[e] = counted[e] /\ observed'[e] = observed[e] /\ seen'[e] = seen[e]
           /\ pc'[c] \in {"exists", "embed", "query", "return", "idle"}
<1>1. CASE Check(c) \/ Exists(c) \/ Embed(c)
  BY <1>1 DEF Check, Exists, Embed, Decide, Goto, Types, metrics
<1>2. CASE Query(c)
  BY <1>2 DEF Query, Decide, Types, metrics
<1>3. CASE Return(c)
  BY <1>3 DEF Return, Types
<1> QED
  BY <1>1, <1>2, <1>3 DEF Handle

LEMMA WaitingStep == Types /\ Waiting /\ [Next]_vars => Waiting'
<1> SUFFICES ASSUME Types, Waiting, [Next]_vars PROVE Waiting'
  OBVIOUS
<1> USE DEF Types, Waiting
<1>1. ASSUME NEW c \in Calls, NEW k \in KindsOfCall, Accept(c, k) PROVE Waiting'
  <2>1. /\ queue' = Append(queue, c) /\ pc[c] = "idle" /\ pc' = [pc EXCEPT ![c] = "queued"]
        /\ Len(queue') = Len(queue) + 1 /\ Len(queue) \in Nat
    BY <1>1 DEF Accept
  <2>2. \A i \in 1..Len(queue) : queue'[i] = queue[i] /\ queue[i] \in Calls /\ queue[i] # c
    BY <2>1
  <2>3. queue'[Len(queue) + 1] = c
    BY <2>1
  <2> QED
    BY <2>1, <2>2, <2>3
<1>2. CASE Start
  <2>1. /\ queue # <<>> /\ Len(queue') = Len(queue) - 1
        /\ Len(queue) \in Nat /\ Len(queue) > 0
        /\ \A i \in 1..Len(queue') : queue'[i] = queue[i + 1]
    BY <1>2 DEF Start
  <2>2. Head(queue) = queue[1] /\ \A i \in 1..Len(queue) : queue[i] \in Calls
    BY <2>1
  <2>3. \A e \in Calls : e # Head(queue) => pc'[e] = pc[e]
    BY <1>2 DEF Start
  <2>4. \A i \in 1..Len(queue') : i + 1 \in 1..Len(queue) /\ queue[i + 1] # Head(queue)
    BY <2>1, <2>2
  <2>5. ASSUME NEW i \in 1..Len(queue') PROVE pc'[queue'[i]] = "queued"
    <3>1. /\ queue'[i] = queue[i + 1] /\ i + 1 \in 1..Len(queue)
          /\ queue[i + 1] \in Calls /\ queue[i + 1] # Head(queue)
      BY <2>1, <2>2, <2>4, <2>5
    <3> QED
      BY <2>3, <3>1
  <2>6. ASSUME NEW i \in 1..Len(queue'), NEW j \in 1..Len(queue'), queue'[i] = queue'[j]
        PROVE  i = j
    <3>1. /\ queue[i + 1] = queue[j + 1]
          /\ i + 1 \in 1..Len(queue) /\ j + 1 \in 1..Len(queue)
      BY <2>1, <2>4, <2>6
    <3>2. i + 1 = j + 1
      BY <3>1
    <3> QED
      BY <2>1, <3>2
  <2> QED
    BY <2>5, <2>6
<1>3. ASSUME NEW c \in Calls, Handle(c) PROVE Waiting'
  <2>1. \A i \in 1..Len(queue) : queue[i] \in Calls
    OBVIOUS
  <2>2. UNCHANGED queue /\ \A e \in Calls : pc[e] = "queued" => pc'[e] = "queued"
    BY <1>3, Handled
  <2> QED
    BY <2>1, <2>2
<1>4. CASE Sigterm \/ GraceOver \/ Stopped \/ Exit
  BY <1>4 DEF Sigterm, GraceOver, Stopped, Exit, handling
<1>5. CASE Kill
  BY <1>5 DEF Kill
<1>6. CASE QdrantFlips \/ CollectionFlips \/ UNCHANGED vars
  BY <1>6 DEF QdrantFlips, CollectionFlips, vars, handling
<1> QED
  BY <1>1, <1>2, <1>3, <1>4, <1>5, <1>6 DEF Next, Shutdown

LEMMA Starting ==
    ASSUME Types, Waiting, Start
    PROVE  \E c \in Calls :
             /\ pc[c] = "queued"
             /\ pc'[c] = IF client[c] = "pending" THEN "check" ELSE "idle"
             /\ \A e \in Calls \ {c} : pc'[e] = pc[e]
             /\ UNCHANGED <<world, server, kind, status, client, metrics, seen>>
<1>1. Head(queue) = queue[1] /\ queue[1] \in Calls /\ 1 \in 1..Len(queue)
  BY DEF Types, Start
<1>2. Head(queue) \in Open <=> client[Head(queue)] = "pending"
  BY <1>1 DEF Open
<1> QED
  BY <1>1, <1>2 DEF Waiting, Types, Start

-----------------------------------------------------------------------------
\* What calls know, and what is recorded of them.

\* Steps of the shutdown and of the world outside change no call, except that
\* its client may be told that it was cancelled.
Apart ==
    /\ UNCHANGED <<kind, status, counted, observed>>
    /\ \A c \in Calls :
          /\ client'[c] = client[c] \/ client'[c] = "CANCELLED"
          /\ client[c] # "pending" => client'[c] = client[c] /\ seen'[c] = seen[c]
          /\ pc'[c] = pc[c] \/ (pc'[c] = "idle" /\ client[c] # "pending")

LEMMA ShutdownApart ==
    ASSUME Types, Served, Sigterm \/ Shutdown \/ Kill
    PROVE  Apart /\ UNCHANGED <<qdrant, coll, seen>>
<1>1. CASE Sigterm \/ Stopped \/ Exit
  BY <1>1 DEF Sigterm, Stopped, Exit, Apart, handling, metrics, world
<1>2. CASE GraceOver
  BY <1>2 DEF GraceOver, Apart, handling, metrics, world, Open, Types
<1>3. CASE Kill
  BY <1>3 DEF Kill, Served, Apart, handling, metrics, world
<1> QED
  BY <1>1, <1>2, <1>3 DEF Shutdown

LEMMA WorldApart ==
    ASSUME Types, QdrantFlips \/ CollectionFlips
    PROVE  /\ Apart
           /\ UNCHANGED <<pc, client>>
           /\ \A c \in Calls :
                 /\ seen[c] \subseteq seen'[c]
                 /\ (client[c] = "pending" /\ kind[c] = "search") =>
                       /\ IF qdrant' THEN "up" \in seen'[c] ELSE "down" \in seen'[c]
                       /\ IF coll' THEN "present" \in seen'[c] ELSE "absent" \in seen'[c]
<1>1. ASSUME NEW up \in BOOLEAN, NEW exists \in BOOLEAN, Observe(up, exists), NEW c \in Calls
      PROVE  /\ seen[c] \subseteq seen'[c]
             /\ client[c] # "pending" => seen'[c] = seen[c]
             /\ (client[c] = "pending" /\ kind[c] = "search") =>
                       /\ IF up THEN "up" \in seen'[c] ELSE "down" \in seen'[c]
                       /\ IF exists THEN "present" \in seen'[c] ELSE "absent" \in seen'[c]
  BY <1>1 DEF Observe, State, Open
<1>2. CASE QdrantFlips
  <2>1. Observe(qdrant', coll) /\ coll' = coll
    BY <1>2 DEF QdrantFlips
  <2>2. qdrant' \in BOOLEAN /\ coll \in BOOLEAN
    BY <1>2, TypesStep DEF Next, Types
  <2> QED
    BY <1>1, <1>2, <2>1, <2>2 DEF QdrantFlips, Apart, handling, metrics
<1>3. CASE CollectionFlips
  <2>1. Observe(qdrant, coll') /\ qdrant' = qdrant
    BY <1>3 DEF CollectionFlips
  <2>2. coll' \in BOOLEAN /\ qdrant \in BOOLEAN
    BY <1>3, TypesStep DEF Next, Types
  <2> QED
    BY <1>1, <1>3, <2>1, <2>2 DEF CollectionFlips, Apart, handling, metrics
<1> QED
  BY <1>2, <1>3

\* A step that changes nothing of a call but what happens to others.
Same(e) ==
    /\ pc'[e] = pc[e] /\ status'[e] = status[e] /\ client'[e] = client[e]
    /\ counted'[e] = counted[e] /\ observed'[e] = observed[e]
    /\ seen'[e] = seen[e] /\ kind'[e] = kind[e]

LEMMA SameInformed ==
    ASSUME NEW e \in Calls, Informed(e), Same(e), UNCHANGED world
    PROVE  Informed(e)'
BY DEF Informed, Same, world, Cause, Answered

LEMMA SameCounted ==
    ASSUME NEW e \in Calls, Counted(e), Same(e)
    PROVE  Counted(e)'
BY DEF Counted, Same, Answered

LEMMA ApartSteps ==
    ASSUME Types, Served, NEW e \in Calls, Informed(e), Counted(e),
           Sigterm \/ Shutdown \/ Kill \/ QdrantFlips \/ CollectionFlips
    PROVE  Informed(e)' /\ Counted(e)'
<1>1. CASE Sigterm \/ Shutdown \/ Kill
  <2>1. Apart /\ UNCHANGED <<qdrant, coll, seen>>
    BY <1>1, ShutdownApart
  <2> QED
    BY <2>1 DEF Apart, Informed, Counted, Cause, Answered, Statuses
<1>2. CASE QdrantFlips \/ CollectionFlips
  BY <1>2, WorldApart DEF Apart, Informed, Counted, Cause, Answered
<1> QED
  BY <1>1, <1>2

LEMMA HandlerSteps ==
    ASSUME Types, NEW c \in Calls, Informed(c), Counted(c), Handle(c)
    PROVE  Informed(c)' /\ Counted(c)'
<1> USE DEF Types
<1>0. kind[c] \in KindsOfCall /\ ~Answered(c) /\ UNCHANGED <<world, kind>>
  BY Handled DEF Informed
<1>1. CASE Check(c)
  BY <1>0, <1>1 DEF Check, Decide, Goto, Informed, Counted, Cause, Answered, KindsOfCall,
                    metrics, world
<1>2. CASE Exists(c)
  BY <1>0, <1>2 DEF Exists, Decide, Goto, Informed, Counted, Cause, Answered, metrics, world
<1>3. CASE Embed(c)
  BY <1>0, <1>3 DEF Embed, Decide, Goto, Informed, Counted, Cause, Answered, metrics, world
<1>4. CASE Query(c)
  BY <1>0, <1>4 DEF Query, Decide, Informed, Counted, Cause, Answered, world
<1>5. CASE Return(c)
  <2>1. client[c] = "pending" => counted'[c] = <<Recorded(status[c])>>
    BY <1>5 DEF Return, Counted
  <2>2. /\ client'[c] = (IF client[c] = "pending" THEN status[c] ELSE client[c])
        /\ pc'[c] = "idle" /\ UNCHANGED <<observed, seen>>
        /\ pc[c] = "return"
    BY <1>5 DEF Return, Open
  <2>3. Informed(c)'
    BY <1>0, <2>2 DEF Informed, Cause, Answered, Statuses, world
  <2>4. Counted(c)'
    <3>1. client'[c] # "pending"
      BY <2>2 DEF Statuses
    <3>2. Answered(c)' => client[c] = "pending" /\ client'[c] = status[c]
      BY <1>0, <2>2 DEF Answered
    <3>3. client[c] = "pending" =>
              observed'[c] = IF status[c] = "OK" /\ kind[c] = "search" THEN 1 ELSE 0
      BY <2>2 DEF Counted
    <3>4. client[c] = "pending" =>
              Len(counted'[c]) = 1 /\ (counted'[c][1] = "OK" <=> status[c] = "OK")
      <4>1. Recorded(status[c]) = "OK" <=> status[c] = "OK"
        BY DEF Recorded
      <4>2. \A r : Len(<<r>>) = 1 /\ <<r>>[1] = r
        OBVIOUS
      <4>3. client[c] = "pending" =>
                Len(counted'[c]) = 1 /\ counted'[c][1] = Recorded(status[c])
        BY <2>1, <4>2
      <4> QED
        BY <4>1, <4>3
    <3>5. Answered(c)' =>
              /\ Len(counted'[c]) = 1
              /\ counted'[c][1] = "OK" <=> client'[c] = "OK"
              /\ observed'[c] = IF client'[c] = "OK" /\ kind'[c] = "search" THEN 1 ELSE 0
      <4> SUFFICES ASSUME Answered(c)'
                   PROVE  /\ Len(counted'[c]) = 1
                          /\ counted'[c][1] = "OK" <=> client'[c] = "OK"
                          /\ observed'[c] = IF client'[c] = "OK" /\ kind'[c] = "search"
                                            THEN 1 ELSE 0
        OBVIOUS
      <4>1. client[c] = "pending" /\ client'[c] = status[c] /\ kind'[c] = kind[c]
        BY <1>0, <3>2
      <4> QED
        BY <3>3, <3>4, <4>1
    <3> QED
      BY <3>1, <3>5 DEF Counted
  <2> QED
    BY <2>3, <2>4
<1> QED
  BY <1>1, <1>2, <1>3, <1>4, <1>5 DEF Handle

LEMMA CallsStep ==
    Types /\ Waiting /\ Served /\ AllInformed /\ AllCounted /\ [Next]_vars
        => AllInformed' /\ AllCounted'
<1> SUFFICES ASSUME Types, Waiting, Served, AllInformed, AllCounted, [Next]_vars, NEW e \in Calls
             PROVE  Informed(e)' /\ Counted(e)'
  BY DEF AllInformed, AllCounted
<1>0. Informed(e) /\ Counted(e)
  BY DEF AllInformed, AllCounted
<1>1. ASSUME NEW c \in Calls, NEW k \in KindsOfCall, Accept(c, k)
      PROVE  Informed(e)' /\ Counted(e)'
  <2>1. CASE e = c
    <3>1. /\ pc'[e] = "queued" /\ client'[e] = "pending" /\ kind'[e] = k
          /\ counted'[e] = <<>> /\ observed'[e] = 0 /\ UNCHANGED world
          /\ k = "search" => seen'[e] = State(qdrant, coll)
      BY <1>1, <2>1 DEF Accept, Types
    <3> QED
      BY <3>1 DEF Informed, Counted, Answered, Statuses, State, world
  <2>2. CASE e # c
    <3>1. Same(e) /\ UNCHANGED world
      BY <1>1, <2>2 DEF Accept, Same, Types
    <3> QED
      BY <1>0, <3>1, SameInformed, SameCounted
  <2> QED
    BY <2>1, <2>2
<1>2. CASE Start
  <2>1. PICK c \in Calls :
          /\ pc[c] = "queued"
          /\ pc'[c] = IF client[c] = "pending" THEN "check" ELSE "idle"
          /\ \A f \in Calls \ {c} : pc'[f] = pc[f]
          /\ UNCHANGED <<world, server, kind, status, client, metrics, seen>>
    BY <1>2, Starting
  <2>2. CASE e = c
    BY <1>0, <2>1, <2>2 DEF Informed, Counted, Answered, Cause, world, metrics
  <2>3. CASE e # c
    BY <1>0, <2>1, <2>3, SameInformed, SameCounted DEF Same, metrics
  <2> QED
    BY <2>2, <2>3
<1>3. ASSUME NEW c \in Calls, Handle(c) PROVE Informed(e)' /\ Counted(e)'
  <2>1. CASE e = c
    BY <1>0, <1>3, <2>1, HandlerSteps
  <2>2. CASE e # c
    <3>1. Same(e) /\ UNCHANGED world
      BY <1>3, <2>2, Handled DEF Same
    <3> QED
      BY <1>0, <3>1, SameInformed, SameCounted
  <2> QED
    BY <2>1, <2>2
<1>4. CASE Sigterm \/ Shutdown \/ Kill \/ QdrantFlips \/ CollectionFlips
  BY <1>0, <1>4, ApartSteps
<1>5. CASE UNCHANGED vars
  BY <1>0, <1>5, SameInformed, SameCounted DEF vars, Same, handling, metrics
<1> QED
  BY <1>1, <1>2, <1>3, <1>4, <1>5 DEF Next

-----------------------------------------------------------------------------
\* The shutdown.

LEMMA ServedStep == Types /\ Served /\ [Next]_vars => Served'
<1> SUFFICES ASSUME Types, Served, [Next]_vars PROVE Served'
  OBVIOUS
<1> USE DEF Types, Served
<1>1. ASSUME NEW c \in Calls, NEW k \in KindsOfCall, Accept(c, k) PROVE Served'
  BY <1>1 DEF Accept
<1>2. CASE Start
  BY <1>2 DEF Start
<1>3. ASSUME NEW c \in Calls, Handle(c) PROVE Served'
  <2>1. \A e \in Calls : client'[e] = client[e] \/ client'[e] \in Statuses
    BY <1>3 DEF Handle, Check, Exists, Embed, Query, Return
  <2>2. UNCHANGED server
    BY <1>3, Handled
  <2> QED
    BY <2>1, <2>2 DEF Statuses
<1>4. CASE Sigterm \/ Exit
  BY <1>4 DEF Sigterm, Exit
<1>5. CASE Stopped
  BY <1>5 DEF Stopped, Open
<1>6. CASE GraceOver
  BY <1>6 DEF GraceOver, Open
<1>7. CASE Kill
  BY <1>7 DEF Kill
<1>8. CASE QdrantFlips \/ CollectionFlips \/ UNCHANGED vars
  BY <1>8 DEF QdrantFlips, CollectionFlips, vars
<1> QED
  BY <1>1, <1>2, <1>3, <1>4, <1>5, <1>6, <1>7, <1>8 DEF Next, Shutdown

-----------------------------------------------------------------------------
\* The pool.

Bounded == IsFiniteSet(Running) /\ Cardinality(Running) <= Threads

LEMMA Shrinking ==
    ASSUME Bounded, Running' \subseteq Running
    PROVE  Bounded'
<1>1. IsFiniteSet(Running') /\ Cardinality(Running') <= Cardinality(Running)
  BY FS_Subset DEF Bounded
<1>2. Cardinality(Running) \in Nat /\ Cardinality(Running') \in Nat
  BY <1>1, FS_CardinalityType DEF Bounded
<1> QED
  BY <1>1, <1>2, BoundAssumption DEF Bounded

LEMMA BoundedStep == Types /\ Waiting /\ Bounded /\ [Next]_vars => Bounded'
<1> SUFFICES ASSUME Types, Waiting, Bounded, [Next]_vars PROVE Bounded'
  OBVIOUS
<1>1. ASSUME NEW c \in Calls, NEW k \in KindsOfCall, Accept(c, k) PROVE Bounded'
  BY <1>1, Shrinking DEF Accept, Running, Types
<1>2. CASE Start
  <2>1. PICK c \in Calls :
          /\ pc[c] = "queued"
          /\ \A f \in Calls \ {c} : pc'[f] = pc[f]
    BY <1>2, Starting
  <2>2. Running' \subseteq Running \cup {c}
    BY <2>1 DEF Running
  <2>3. Cardinality(Running) < Threads /\ IsFiniteSet(Running)
    BY <1>2 DEF Start, Bounded
  <2>4. /\ IsFiniteSet(Running \cup {c})
        /\ Cardinality(Running \cup {c}) = Cardinality(Running) + 1
    BY <2>1, <2>3, FS_AddElement DEF Running
  <2>5. IsFiniteSet(Running') /\ Cardinality(Running') <= Cardinality(Running) + 1
    BY <2>2, <2>4, FS_Subset
  <2>6. Cardinality(Running) \in Nat /\ Cardinality(Running') \in Nat
    BY <2>3, <2>5, FS_CardinalityType
  <2> QED
    BY <2>3, <2>5, <2>6, BoundAssumption DEF Bounded
<1>3. ASSUME NEW c \in Calls, Handle(c) PROVE Bounded'
  <2>1. Running' \subseteq Running
    BY <1>3, Handled DEF Running
  <2> QED
    BY <2>1, Shrinking
<1>4. CASE Sigterm \/ Shutdown
  BY <1>4, Shrinking DEF Sigterm, Shutdown, GraceOver, Stopped, Exit, handling, Running
<1>5. CASE Kill
  BY <1>5, Shrinking DEF Kill, Running
<1>6. CASE QdrantFlips \/ CollectionFlips \/ UNCHANGED vars
  BY <1>6, Shrinking DEF QdrantFlips, CollectionFlips, vars, handling, Running
<1> QED
  BY <1>1, <1>2, <1>3, <1>4, <1>5, <1>6 DEF Next

-----------------------------------------------------------------------------
\* Theorems.

Inv == Types /\ Waiting /\ Bounded /\ Served /\ AllInformed /\ AllCounted

LEMMA Invariant == Spec => []Inv
<1>1. Init => Inv
  <2>1. Init => Waiting /\ Served
    BY DEF Init, Waiting, Served
  <2>2. Init => AllInformed /\ AllCounted
    BY DEF Init, AllInformed, Informed, AllCounted, Counted, Answered, Statuses
  <2>3. Init => Bounded
    <3>1. Init => Running = {}
      BY DEF Init, Running
    <3> QED
      BY <3>1, FS_EmptySet, BoundAssumption DEF Bounded
  <2> QED
    BY <2>1, <2>2, <2>3, TypesInit DEF Inv
<1>2. Inv /\ [Next]_vars => Inv'
  BY TypesStep, WaitingStep, BoundedStep, ServedStep, CallsStep DEF Inv
<1> QED
  BY <1>1, <1>2, PTL DEF Spec

\* Every variable keeps to its values; in particular no more handlers run than
\* the pool has threads, and only calls that no thread has taken wait.
THEOREM TypeCorrect == Spec => []TypeOK
<1>1. Types /\ Waiting => queue \in Seq({c \in Calls : pc[c] = "queued"})
  <2> SUFFICES ASSUME Types, Waiting PROVE queue \in Seq({c \in Calls : pc[c] = "queued"})
    OBVIOUS
  <2>1. \A i \in 1..Len(queue) : queue[i] \in {c \in Calls : pc[c] = "queued"}
    BY DEF Types, Waiting
  <2> QED
    BY <2>1 DEF Types
<1>2. Inv => TypeOK
  BY <1>1 DEF Inv, Types, Bounded, TypeOK, Steps, Answers
<1> QED
  BY <1>2, Invariant, PTL

\* Every status SearchServicer answers with has its cause during the call.
THEOREM ErrorsJustified == Spec => []StatusJustified
<1>1. Inv => StatusJustified
  BY DEF Inv, AllInformed, Informed, Cause, StatusJustified, Answered
<1> QED
  BY <1>1, Invariant, PTL

\* _record_metrics counts every answered call once, and search() observes its
\* results once however often the query was retried.
THEOREM MetricsOnce == Spec => []CountedOnce
<1>1. Inv => CountedOnce
  BY DEF Inv, AllCounted, Counted, CountedOnce, Answered
<1> QED
  BY <1>1, Invariant, PTL

\* After SIGTERM the process stays until every accepted call has its answer, or
\* was cancelled after the grace period and not before.
THEOREM ShutdownDrains == Spec => []Drained
<1>1. Inv => Drained
  BY DEF Inv, Served, Drained, Open
<1> QED
  BY <1>1, Invariant, PTL

-----------------------------------------------------------------------------
\* What CallsEnd rests on: no call is lost, and none is set back.

Handlers == {"check", "exists", "embed", "query", "return"}

\* A call that waits is in the queue.
Placed == \A c \in Calls : pc[c] = "queued" => \E i \in 1..Len(queue) : queue[i] = c

LEMMA PlacedStep == Types /\ Waiting /\ Placed /\ [Next]_vars => Placed'
<1> SUFFICES ASSUME Types, Waiting, Placed, [Next]_vars PROVE Placed'
  OBVIOUS
<1>1. ASSUME UNCHANGED queue, \A e \in Calls : pc'[e] = "queued" => pc[e] = "queued"
      PROVE  Placed'
  BY <1>1 DEF Placed
<1>2. ASSUME NEW c \in Calls, NEW k \in KindsOfCall, Accept(c, k) PROVE Placed'
  <2>1. /\ queue' = Append(queue, c) /\ queue \in Seq(Calls) /\ Len(queue) \in Nat
        /\ \A e \in Calls \ {c} : pc'[e] = pc[e]
    BY <1>2 DEF Accept, Types
  <2>2. /\ Len(queue') = Len(queue) + 1 /\ queue'[Len(queue) + 1] = c
        /\ \A i \in 1..Len(queue) : queue'[i] = queue[i]
    BY <2>1
  <2>3. Len(queue) + 1 \in 1..Len(queue') /\ 1..Len(queue) \subseteq 1..Len(queue')
    BY <2>1, <2>2
  <2>4. ASSUME NEW e \in Calls, pc'[e] = "queued"
        PROVE  \E i \in 1..Len(queue') : queue'[i] = e
    <3>1. CASE e = c
      BY <2>2, <2>3, <3>1
    <3>2. CASE e # c
      <4>1. PICK i \in 1..Len(queue) : queue[i] = e
        BY <2>1, <2>4, <3>2 DEF Placed
      <4> QED
        BY <2>2, <2>3, <4>1
    <3> QED
      BY <3>1, <3>2
  <2> QED
    BY <2>4 DEF Placed
<1>3. CASE Start
  <2>1. /\ queue \in Seq(Calls) /\ queue # <<>> /\ queue' = Tail(queue) /\ Len(queue) \in Nat
        /\ pc' = [pc EXCEPT ![Head(queue)] = IF Head(queue) \in Open THEN "check" ELSE "idle"]
    BY <1>3 DEF Start, Types
  <2>2. /\ Head(queue) = queue[1] /\ queue[1] \in Calls
        /\ Len(queue') = Len(queue) - 1
        /\ \A i \in 1..Len(queue') : queue'[i] = queue[i + 1]
    BY <2>1
  <2>3. ASSUME NEW e \in Calls, pc'[e] = "queued"
        PROVE  \E i \in 1..Len(queue') : queue'[i] = e
    <3>1. e # queue[1] /\ pc[e] = "queued"
      BY <2>1, <2>2, <2>3 DEF Types
    <3>2. PICK i \in 1..Len(queue) : queue[i] = e
      BY <3>1 DEF Placed
    <3>3. i - 1 \in 1..Len(queue') /\ i - 1 + 1 = i
      BY <2>1, <2>2, <3>1, <3>2
    <3> QED
      BY <2>2, <3>2, <3>3
  <2> QED
    BY <2>3 DEF Placed
<1>4. ASSUME NEW c \in Calls, Handle(c) PROVE Placed'
  BY <1>1, <1>4, Handled
<1>5. CASE Sigterm \/ Shutdown
  BY <1>1, <1>5 DEF Sigterm, Shutdown, GraceOver, Stopped, Exit, handling
<1>6. CASE Kill
  BY <1>6 DEF Kill, Placed
<1>7. CASE QdrantFlips \/ CollectionFlips \/ UNCHANGED vars
  BY <1>1, <1>7 DEF QdrantFlips, CollectionFlips, vars, handling
<1> QED
  BY <1>2, <1>3, <1>4, <1>5, <1>6, <1>7 DEF Next

\* No call whose client still waits is lost: it has one place in the queue of the pool,
\* or a thread is in its handler.  A shutdown and an outage lose none either.
NoCallLost ==
    \A c \in Open :
        \/ pc[c] \in Handlers
        \/ /\ \E i \in 1..Len(queue) : queue[i] = c
           /\ \A i, j \in 1..Len(queue) : queue[i] = c /\ queue[j] = c => i = j

THEOREM CallsHeld == Spec => []NoCallLost
<1>1. Init => Placed
  BY DEF Init, Placed
<1>2. Inv /\ Placed /\ [Next]_vars => Placed'
  BY PlacedStep DEF Inv
<1>3. Inv /\ Placed => NoCallLost
  <2> SUFFICES ASSUME Inv, Placed, NEW c \in Open, pc[c] \notin Handlers
               PROVE  /\ \E i \in 1..Len(queue) : queue[i] = c
                      /\ \A i, j \in 1..Len(queue) : queue[i] = c /\ queue[j] = c => i = j
    BY DEF NoCallLost
  <2>1. c \in Calls /\ client[c] = "pending"
    BY DEF Open
  <2>2. pc[c] \in Steps /\ pc[c] # "idle"
    BY <2>1 DEF Inv, Types, AllCounted, Counted
  <2>3. pc[c] = "queued"
    BY <2>2 DEF Steps, Handlers
  <2>4. \E i \in 1..Len(queue) : queue[i] = c
    BY <2>1, <2>3 DEF Placed
  <2>5. \A i, j \in 1..Len(queue) : queue[i] = queue[j] => i = j
    BY DEF Inv, Waiting
  <2> QED
    BY <2>4, <2>5
<1> QED
  BY <1>1, <1>2, <1>3, Invariant, PTL DEF Spec

\* How many parts of its handler a call has before it.
Rank(step) ==
    CASE step = "check" -> 4 [] step = "exists" -> 3 [] step = "embed" -> 2
      [] step = "query" -> 1 [] OTHER -> 0

\* A handler runs on: it is done, or in a later part, or in a later attempt.
Onward(c) ==
    \/ pc'[c] = "idle"
    \/ Rank(pc'[c]) < Rank(pc[c])
    \/ pc[c] = "query" /\ pc'[c] = "query" /\ tries'[c] > tries[c]

\* What others do leaves a handler where it is, or the process is gone with it.
Undisturbed(c) == server' = "exited" \/ (pc'[c] = pc[c] /\ tries'[c] = tries[c])

\* A call in the queue moves up when a thread takes the first one, and no other step
\* moves it: nothing that arrives later gets before it.
QueueMoves ==
    \A i \in 1..Len(queue) :
        IF Start THEN i = 1 \/ queue'[i - 1] = queue[i]
                 ELSE server' = "exited" \/ queue'[i] = queue[i]

CallsAdvance ==
    [][/\ \A c \in Calls : pc[c] \in Handlers =>
              IF Handle(c) THEN Onward(c) ELSE Undisturbed(c)
       /\ QueueMoves]_vars

LEMMA HandlerOnward ==
    ASSUME Types, NEW c \in Calls, Handle(c)
    PROVE  Onward(c)
<1>1. tries[c] \in Nat
  BY BoundAssumption DEF Types
<1>2. CASE Check(c) \/ Exists(c) \/ Embed(c)
  BY <1>2 DEF Check, Exists, Embed, Decide, Goto, Types, Onward, Rank
<1>3. CASE Query(c)
  <2>1. pc[c] = "query"
    BY <1>3 DEF Query
  <2>2. CASE \E s : Decide(c, s)
    <3>1. pc'[c] = "return"
      BY <2>2 DEF Decide, Types
    <3> QED
      BY <2>1, <3>1 DEF Onward, Rank
  <2>3. CASE tries' = [tries EXCEPT ![c] = @ + 1] /\ UNCHANGED pc
    <3>1. tries'[c] = tries[c] + 1 /\ pc'[c] = "query"
      BY <2>1, <2>3 DEF Types
    <3> QED
      BY <1>1, <2>1, <3>1 DEF Onward
  <2> QED
    BY <1>3, <2>2, <2>3 DEF Query
<1>4. CASE Return(c)
  BY <1>4 DEF Return, Types, Onward
<1> QED
  BY <1>2, <1>3, <1>4 DEF Handle

LEMMA OthersUndisturb ==
    ASSUME Types, Waiting, [Next]_vars, NEW c \in Calls, pc[c] \in Handlers, ~Handle(c)
    PROVE  Undisturbed(c)
<1> USE DEF Undisturbed, Handlers
<1>1. ASSUME NEW e \in Calls, NEW k \in KindsOfCall, Accept(e, k)
      PROVE  Undisturbed(c)
  BY <1>1 DEF Accept, Types
<1>2. CASE Start
  <2>1. UNCHANGED tries
    BY <1>2 DEF Start
  <2> QED
    BY <1>2, <2>1, Starting
<1>3. ASSUME NEW e \in Calls, Handle(e)
      PROVE  Undisturbed(c)
  <2>1. e # c
    BY <1>3
  <2>2. tries'[c] = tries[c]
    BY <1>3, <2>1 DEF Handle, Check, Exists, Embed, Query, Return, Decide, Goto, Types
  <2> QED
    BY <1>3, <2>1, <2>2, Handled
<1>4. CASE Sigterm \/ Shutdown \/ Kill
  BY <1>4 DEF Sigterm, Shutdown, GraceOver, Stopped, Exit, Kill, handling
<1>5. CASE QdrantFlips \/ CollectionFlips \/ UNCHANGED vars
  BY <1>5 DEF QdrantFlips, CollectionFlips, vars, handling
<1> QED
  BY <1>1, <1>2, <1>3, <1>4, <1>5 DEF Next

LEMMA QueueInOrder == Types /\ [Next]_vars => QueueMoves
<1> SUFFICES ASSUME Types, [Next]_vars, NEW i \in 1..Len(queue)
             PROVE  IF Start THEN i = 1 \/ queue'[i - 1] = queue[i]
                             ELSE server' = "exited" \/ queue'[i] = queue[i]
  BY DEF QueueMoves
<1>1. queue \in Seq(Calls) /\ Len(queue) \in Nat
  BY DEF Types
<1>2. CASE Start
  <2>1. queue' = Tail(queue) /\ queue # <<>>
    BY <1>2 DEF Start
  <2>2. Len(queue') = Len(queue) - 1 /\ \A j \in 1..Len(queue') : queue'[j] = queue[j + 1]
    BY <1>1, <2>1
  <2>3. ASSUME i # 1 PROVE queue'[i - 1] = queue[i]
    <3>1. i - 1 \in 1..Len(queue') /\ i - 1 + 1 = i
      BY <1>1, <2>2, <2>3
    <3> QED
      BY <2>2, <3>1
  <2> QED
    BY <1>2, <2>3
<1>3. ASSUME UNCHANGED queue PROVE queue'[i] = queue[i]
  BY <1>3
<1>4. ASSUME NEW c \in Calls, NEW k \in KindsOfCall, Accept(c, k) PROVE queue'[i] = queue[i]
  BY <1>1, <1>4 DEF Accept
<1>5. ASSUME NEW c \in Calls, Handle(c) PROVE UNCHANGED queue
  BY <1>5, Handled
<1>6. CASE Sigterm \/ Shutdown \/ QdrantFlips \/ CollectionFlips \/ UNCHANGED vars
  BY <1>3, <1>6, <1>2 DEF Sigterm, Shutdown, GraceOver, Stopped, Exit, QdrantFlips,
     CollectionFlips, vars
<1>7. CASE Kill
  BY <1>2, <1>7 DEF Kill
<1> QED
  BY <1>2, <1>3, <1>4, <1>5, <1>6, <1>7 DEF Next

\* Every step of a handler brings it nearer to its answer, for its retries are bounded,
\* calls are started in the order they came in, and nothing sets a call back.
THEOREM CallsGoOn == Spec => CallsAdvance
<1>1. Inv /\ [Next]_vars =>
        [/\ \A c \in Calls : pc[c] \in Handlers =>
                IF Handle(c) THEN Onward(c) ELSE Undisturbed(c)
         /\ QueueMoves]_vars
  BY HandlerOnward, OthersUndisturb, QueueInOrder DEF Inv
<1> QED
  BY <1>1, Invariant, PTL DEF Spec, CallsAdvance

=============================================================================
