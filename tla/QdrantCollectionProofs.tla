------------------------ MODULE QdrantCollectionProofs ------------------------
(***************************************************************************)
(* Theorems about QdrantCollection, for any callers, documents, indexes and   *)
(* attempts.  The invariant says where a caller can be with which operation   *)
(* (Shape), what it may rely on while nothing is disturbed (Calm), and what a *)
(* purge knows of the points of its document (Purges).                       *)
(***************************************************************************)
EXTENDS QdrantCollection, TLAPS

Shape(c) ==
    /\ Creating(c) \/ pc[c] = "compare" => op[c] = "ensure"
    /\ pc[c] \in {"count", "delete"} => op[c] = "purge"
    /\ pc[c] = "drop" => op[c] = "drop"
    /\ pc[c] \notin {"index", "delete"} => tally[c] = 0
    /\ (pc[c] = "index" /\ coll # NoCollection) => coll.schema = "expected"

Shapes == \A c \in Callers : Shape(c)

\* While nothing is disturbed a collection that was seen is still there, only
\* one caller makes indexes, and over REST no creation fails.
Calm(c) ==
    /\ pc[c] \in {"compare", "index", "count", "delete"} => coll # NoCollection
    /\ pc[c] = "index" =>
          /\ coll.indexes = 1..tally[c]
          /\ \A e \in Callers : pc[e] = "index" => e = c
    /\ (op[c] = "ensure" /\ ~grpc) => result[c] \notin {"unreachable", "refused", "client_error"}

AllCalm == ~disturbed => \A c \in Callers : Calm(c)

Purge(c) == pc[c] # "idle" /\ op[c] = "purge"

Knows(c) ==
    LET n == points[doc[c]] IN
      /\ n \in {0, atStart[c]}
      /\ ~disturbed => n = atStart[c]
      /\ pc[c] = "delete" => tally[c] \in {0, atStart[c]} /\ (~disturbed => tally[c] = atStart[c])
      /\ \A e \in Callers : (Purge(e) /\ doc[e] = doc[c]) => e = c

Purges == \A c \in Callers : Purge(c) => Knows(c)

-----------------------------------------------------------------------------
\* How operations move on.

\* Nothing of another caller changes.
Kept(e) == pc'[e] = pc[e] /\ tally'[e] = tally[e] /\ result'[e] = result[e]

Typed ==
    /\ pc' \in [Callers -> {"idle", "exists", "compare", "create", "index",
                            "count", "delete", "drop"}]
    /\ outer' \in [Callers -> 1..Attempts]
    /\ inner' \in [Callers -> 1..Attempts]
    /\ tally' \in [Callers -> Nat]
    /\ result' \in [Callers -> {"none", "ok"} \cup Errors]

LEMMA Returning ==
    ASSUME TypeOK, NEW c \in Callers, NEW outcome \in {"none", "ok"} \cup Errors,
           Return(c, outcome)
    PROVE  /\ Typed
           /\ pc'[c] = "idle" /\ tally'[c] = 0 /\ result'[c] = outcome
           /\ \A e \in Callers \ {c} : Kept(e)
BY SizeAssumption DEF TypeOK, Return, Typed, Kept

LEMMA Advancing ==
    ASSUME TypeOK, NEW c \in Callers, NEW n \in Nat,
           NEW next \in {"idle", "exists", "compare", "create", "index", "count", "delete", "drop"},
           Advance(c, next, n)
    PROVE  /\ Typed
           /\ pc'[c] = next /\ tally'[c] = n /\ result'[c] = result[c]
           /\ \A e \in Callers \ {c} : Kept(e)
BY DEF TypeOK, Advance, Typed, Kept

LEMMA Comparing ==
    ASSUME TypeOK, NEW c \in Callers, Restart(c, "compare"),
           inner' = [inner EXCEPT ![c] = 1], UNCHANGED outer
    PROVE  /\ Typed
           /\ pc'[c] = "compare" /\ tally'[c] = 0 /\ result'[c] = result[c]
           /\ \A e \in Callers \ {c} : Kept(e)
BY SizeAssumption DEF TypeOK, Restart, Typed, Kept

LEMMA Failing ==
    ASSUME TypeOK, NEW c \in Callers, Retry(c) \/ Refuse(c)
    PROVE  /\ Typed
           /\ pc'[c] \in {"idle", "exists", "create"}
           /\ pc'[c] = "create" => Creating(c)
           /\ tally'[c] = 0
           /\ result'[c] \in {result[c]} \cup (Errors \ {"mismatch"})
           /\ pc'[c] # "idle" => result'[c] = result[c]
           /\ \A e \in Callers \ {c} : Kept(e)
<1>1. CASE Refuse(c) \/ Return(c, "unreachable")
  BY <1>1, Returning DEF Refuse, Errors
<1>2. CASE Creating(c) /\ inner[c] < Attempts /\ Restart(c, "create")
           /\ inner' = [inner EXCEPT ![c] = @ + 1] /\ UNCHANGED outer
  BY <1>2, SizeAssumption DEF TypeOK, Restart, Typed, Kept
<1>3. CASE ~Creating(c) /\ outer[c] < Attempts /\ Restart(c, "exists")
           /\ outer' = [outer EXCEPT ![c] = @ + 1] /\ UNCHANGED inner
  BY <1>3, SizeAssumption DEF TypeOK, Restart, Typed, Kept
<1> QED
  BY <1>1, <1>2, <1>3 DEF Retry

\* What a call does to the one who makes it: it goes on, returns, or fails.
Moves(c, to, n) == pc'[c] = to /\ tally'[c] = n /\ result'[c] = result[c]

Ends(c, outcome) == pc'[c] = "idle" /\ tally'[c] = 0 /\ result'[c] = outcome

Falls(c) ==
    /\ pc'[c] \in {"idle", "exists", "create"}
    /\ pc'[c] = "create" => Creating(c)
    /\ tally'[c] = 0
    /\ result'[c] \in {result[c]} \cup (Errors \ {"mismatch"})
    /\ pc'[c] # "idle" => result'[c] = result[c]

Quiet == UNCHANGED <<coll, points, disturbed>>

LEMMA StepTyped ==
    ASSUME TypeOK, NEW c \in Callers, Step(c)
    PROVE  Typed /\ \A e \in Callers \ {c} : Kept(e)
<1> USE DEF Goto
<1>1. CASE Exists(c)
  BY <1>1, Returning, Advancing DEF Exists, Errors
<1>2. CASE Compare(c)
  BY <1>2, Returning DEF Compare, Errors
<1>3. CASE Create(c)
  BY <1>3, Advancing, Failing DEF Create, LostAnswer
<1>4. CASE Conflict(c)
  BY <1>4, Comparing, Failing DEF Conflict
<1>5. CASE Index(c)
  <2>1. tally[c] + 1 \in Nat
    BY DEF TypeOK
  <2> QED
    BY <1>5, <2>1, Returning, Advancing, Failing DEF Index, IndexMade, LostAnswer
<1>6. CASE Count(c)
  <2>1. points[doc[c]] \in Nat
    BY SizeAssumption DEF TypeOK
  <2> QED
    BY <1>6, <2>1, Advancing DEF Count
<1>7. CASE Delete(c)
  BY <1>7, Returning, Failing DEF Delete, LostAnswer
<1>8. CASE Drop(c)
  BY <1>8, Returning, Failing DEF Drop, LostAnswer
<1>9. CASE Vanished(c)
  BY <1>9, Failing DEF Vanished
<1>10. CASE Fails(c)
  BY <1>10, Failing DEF Fails
<1> QED
  BY <1>1, <1>2, <1>3, <1>4, <1>5, <1>6, <1>7, <1>8, <1>9, <1>10 DEF Step, Ensure

\* A call, seen from its caller.
Looks(c) ==
    /\ Quiet
    /\ \/ /\ pc[c] = "exists" /\ coll # NoCollection
          /\ \/ op[c] = "ensure" /\ Moves(c, "compare", 0)
             \/ op[c] = "purge"  /\ Moves(c, "count", 0)
             \/ op[c] = "drop"   /\ Moves(c, "drop", 0)
       \/ pc[c] = "exists" /\ coll = NoCollection /\ op[c] = "ensure" /\ Moves(c, "create", 0)
       \/ pc[c] = "exists" /\ coll = NoCollection /\ op[c] # "ensure" /\ Ends(c, "ok")
       \/ /\ pc[c] = "compare" /\ coll # NoCollection
          /\ \/ coll.schema = "expected" /\ Ends(c, "ok")
             \/ coll.schema = "foreign" /\ Ends(c, "mismatch")
             \/ coll.schema = "unnamed" /\ Ends(c, "attribute_error")
       \/ /\ pc[c] = "create" /\ coll # NoCollection
          /\ (grpc /\ Falls(c)) \/ (~grpc /\ Moves(c, "compare", 0))
       \/ pc[c] = "count" /\ coll # NoCollection /\ Moves(c, "delete", points[doc[c]])
       \/ /\ pc[c] \in {"compare", "index", "count", "delete"} /\ coll = NoCollection
          /\ Falls(c)

Writes(c) ==
    \/ /\ pc[c] = "create" /\ coll = NoCollection /\ UNCHANGED points
       /\ coll' = [schema |-> "expected", indexes |-> {}]
       /\ (Moves(c, "index", 0) /\ UNCHANGED disturbed) \/ (Falls(c) /\ disturbed' = TRUE)
    \/ /\ pc[c] = "index" /\ coll # NoCollection /\ UNCHANGED points
       /\ coll' = [coll EXCEPT !.indexes = @ \cup {tally[c] + 1}]
       /\ \/ tally[c] + 1 = NumIndexes /\ Ends(c, "ok") /\ UNCHANGED disturbed
          \/ tally[c] + 1 # NumIndexes /\ Moves(c, "index", tally[c] + 1) /\ UNCHANGED disturbed
          \/ Falls(c) /\ disturbed' = TRUE
    \/ /\ pc[c] = "delete" /\ coll # NoCollection /\ UNCHANGED coll
       /\ points' = [points EXCEPT ![doc[c]] = 0]
       /\ (Ends(c, "ok") /\ UNCHANGED disturbed) \/ (Falls(c) /\ disturbed' = TRUE)
    \/ /\ pc[c] = "drop" /\ coll' = NoCollection /\ points' = [d \in Docs |-> 0]
       /\ Ends(c, "ok") \/ Falls(c)
       /\ disturbed' = TRUE
    \/ /\ pc[c] # "idle" /\ UNCHANGED <<coll, points>>
       /\ Falls(c) /\ disturbed' = TRUE

LEMMA Effects ==
    ASSUME TypeOK, NEW c \in Callers, Step(c)
    PROVE  (Looks(c) \/ Writes(c)) /\ UNCHANGED <<op, doc, atStart, grpc>>
<1> USE DEF Quiet, qdrant, call
<1>0. op[c] \in {"ensure", "purge", "drop"} /\ tally[c] + 1 \in Nat /\ points[doc[c]] \in Nat
  BY SizeAssumption DEF TypeOK
<1>f. Retry(c) \/ Refuse(c) => Falls(c)
  BY Failing DEF Falls
<1>g. ASSUME NEW to \in {"idle", "exists", "compare", "create", "index", "count", "delete", "drop"},
             NEW n \in Nat, Advance(c, to, n)
      PROVE  Moves(c, to, n)
  BY <1>g, Advancing DEF Moves
<1>r. ASSUME NEW outcome \in {"ok", "mismatch", "attribute_error"}, Return(c, outcome)
      PROVE  Ends(c, outcome)
  BY <1>r, Returning DEF Ends, Errors
<1>1. CASE Exists(c)
  BY <1>0, <1>1, <1>g, <1>r DEF Exists, Goto, Looks
<1>2. CASE Compare(c)
  BY <1>2, <1>r DEF Compare, Looks
<1>3. CASE Create(c)
  BY <1>3, <1>f, <1>g DEF Create, Goto, Answered, LostAnswer, Writes
<1>4. CASE Conflict(c)
  <2>1. CASE grpc /\ Refuse(c)
    BY <1>4, <2>1, <1>f DEF Conflict, Looks
  <2>2. CASE ~grpc /\ ~(grpc /\ Refuse(c))
    <3>1. Restart(c, "compare") /\ inner' = [inner EXCEPT ![c] = 1] /\ UNCHANGED outer
      BY <1>4, <2>2 DEF Conflict
    <3>2. Moves(c, "compare", 0)
      BY <3>1, Comparing DEF Moves
    <3> QED
      BY <1>4, <2>2, <3>2 DEF Conflict, Looks
  <2> QED
    BY <1>4, <2>1, <2>2 DEF Conflict
<1>5. CASE Index(c)
  <2>1. CASE IndexMade(c, NumIndexes) /\ Answered(c)
    BY <1>0, <1>5, <2>1, <1>g, <1>r DEF Index, IndexMade, Answered, Writes
  <2>2. CASE LostAnswer(c)
    BY <1>5, <2>2, <1>f DEF Index, LostAnswer, Writes
  <2> QED
    BY <1>5, <2>1, <2>2 DEF Index
<1>6. CASE Count(c)
  BY <1>0, <1>6, <1>g DEF Count, Looks
<1>7. CASE Delete(c)
  BY <1>7, <1>f, <1>r DEF Delete, Answered, LostAnswer, Writes
<1>8. CASE Drop(c)
  BY <1>8, <1>f, <1>r DEF Drop, LostAnswer, Writes
<1>9. CASE Vanished(c)
  BY <1>9, <1>f DEF Vanished, Looks
<1>10. CASE pc[c] # "idle" /\ Fails(c)
  BY <1>10, <1>f DEF Fails, Writes
<1> QED
  BY <1>1, <1>2, <1>3, <1>4, <1>5, <1>6, <1>7, <1>8, <1>9, <1>10 DEF Step, Ensure

-----------------------------------------------------------------------------
\* Types.

LEMMA TypesStep == TypeOK /\ [Next]_vars => TypeOK'
<1> SUFFICES ASSUME TypeOK, [Next]_vars PROVE TypeOK'
  OBVIOUS
<1>1. ASSUME NEW c \in Callers, NEW o \in Ops, NEW d \in Docs, Begin(c, o, d) PROVE TypeOK'
  <2>1. o \in {"ensure", "purge", "drop"} /\ points[d] \in 0..MaxPoints /\ 0 \in 0..MaxPoints
    BY OpsAssumption, SizeAssumption DEF TypeOK
  <2> QED
    BY <1>1, <2>1 DEF TypeOK, Begin, qdrant
<1>2. ASSUME NEW c \in Callers, Step(c) PROVE TypeOK'
  <2>1. Typed /\ \A e \in Callers \ {c} : Kept(e)
    BY <1>2, StepTyped
  <2>2. (Looks(c) \/ Writes(c)) /\ UNCHANGED <<op, doc, atStart, grpc>>
    BY <1>2, Effects
  <2>0. pc[c] = "index" => tally[c] + 1 \in Fields
    BY SizeAssumption DEF TypeOK, Fields
  <2>3. /\ coll' \in Collections \cup {NoCollection}
        /\ coll' = NoCollection => coll = NoCollection \/ points' = [d \in Docs |-> 0]
    <3>1. CASE coll # NoCollection /\ pc[c] = "index"
               /\ coll' = [coll EXCEPT !.indexes = @ \cup {tally[c] + 1}]
      BY <2>0, <3>1, NullAssumption DEF TypeOK, Collections
    <3>2. CASE coll' = [schema |-> "expected", indexes |-> {}]
      BY <3>2, NullAssumption DEF Collections
    <3>3. CASE UNCHANGED coll \/ (coll' = NoCollection /\ points' = [d \in Docs |-> 0])
      BY <3>3 DEF TypeOK
    <3> QED
      BY <2>2, <3>1, <3>2, <3>3 DEF Looks, Writes, Quiet
  <2>7. points' \in [Docs -> 0..MaxPoints] /\ disturbed' \in BOOLEAN
    <3>1. 0 \in 0..MaxPoints
      BY SizeAssumption
    <3>2. UNCHANGED points \/ points' = [d \in Docs |-> 0]
          \/ (points' = [points EXCEPT ![doc[c]] = 0])
      BY <2>2 DEF Looks, Writes, Quiet
    <3>3. UNCHANGED disturbed \/ disturbed' = TRUE
      BY <2>2 DEF Looks, Writes, Quiet
    <3>4. points' \in [Docs -> 0..MaxPoints]
      BY <3>1, <3>2 DEF TypeOK
    <3>5. disturbed' \in BOOLEAN
      BY <3>3 DEF TypeOK
    <3> QED
      BY <3>4, <3>5
  <2>4. coll' = NoCollection => \A d \in Docs : points'[d] = 0
    <3>1. coll = NoCollection /\ coll' = NoCollection =>
              UNCHANGED points \/ points' = [d \in Docs |-> 0]
      BY <2>2 DEF Looks, Writes, Quiet
    <3> QED
      BY <2>3, <3>1 DEF TypeOK
  <2>5. pc'[c] = "index" => tally'[c] < NumIndexes
    BY <2>2, SizeAssumption DEF Looks, Writes, Moves, Ends, Falls, TypeOK
  <2>6. \A e \in Callers : pc'[e] = "index" => tally'[e] < NumIndexes
    BY <2>1, <2>5 DEF Kept, TypeOK
  <2> QED
    BY <2>1, <2>2, <2>3, <2>4, <2>6, <2>7 DEF TypeOK, Typed
<1>3. ASSUME NEW d \in Docs, Store(d) PROVE TypeOK'
  BY <1>3, SizeAssumption DEF TypeOK, Store, call
<1>4. CASE UNCHANGED vars
  BY <1>4 DEF TypeOK, vars, qdrant, call
<1> QED
  BY <1>1, <1>2, <1>3, <1>4 DEF Next

LEMMA TypesInit == Init => TypeOK
<1> SUFFICES ASSUME Init PROVE TypeOK
  OBVIOUS
<1>1. coll \in Collections \cup {NoCollection}
  <2>1. [schema |-> "expected", indexes |-> Fields] \in Collections
    BY DEF Collections
  <2>2. /\ [schema |-> "foreign", indexes |-> {}] \in Collections
        /\ [schema |-> "unnamed", indexes |-> {}] \in Collections
    BY DEF Collections
  <2> QED
    BY <2>1, <2>2 DEF Init
<1>6. grpc \in BOOLEAN
  BY OpsAssumption DEF Init
<1>2. 1 \in 1..Attempts /\ 0 \in 0..MaxPoints /\ Ops \subseteq {"ensure", "purge", "drop"}
  BY SizeAssumption, OpsAssumption
<1>3. op \in [Callers -> {"ensure", "purge", "drop"}] /\ doc \in [Callers -> Docs]
  BY <1>2 DEF Init
<1>4. disturbed \in BOOLEAN
  BY DEF Init
<1>5. /\ outer \in [Callers -> 1..Attempts] /\ inner \in [Callers -> 1..Attempts]
      /\ atStart \in [Callers -> 0..MaxPoints] /\ points \in [Docs -> 0..MaxPoints]
      /\ tally \in [Callers -> Nat]
  BY <1>2 DEF Init
<1> QED
  BY <1>1, <1>3, <1>4, <1>5, <1>6 DEF Init, TypeOK

-----------------------------------------------------------------------------
\* Where callers are.

\* What Begin and Store leave alone.
LEMMA Beginning ==
    ASSUME TypeOK, NEW c \in Callers, NEW o \in Ops, NEW d \in Docs, Begin(c, o, d)
    PROVE  /\ pc[c] = "idle" /\ pc'[c] = "exists" /\ op'[c] = o /\ doc'[c] = d
           /\ result'[c] = "none" /\ UNCHANGED <<tally, coll, points, grpc, disturbed>>
           /\ \A e \in Callers \ {c} : /\ pc'[e] = pc[e] /\ op'[e] = op[e] /\ doc'[e] = doc[e]
                                       /\ atStart'[e] = atStart[e] /\ result'[e] = result[e]
           /\ o = "purge" => atStart'[c] = points[d] /\ ~Purging(d)
BY DEF Begin, qdrant, TypeOK

LEMMA ShapesStep == TypeOK /\ Shapes /\ [Next]_vars => Shapes'
<1> SUFFICES ASSUME TypeOK, Shapes, [Next]_vars, NEW e \in Callers PROVE Shape(e)'
  BY DEF Shapes
<1>0. Shape(e)
  BY DEF Shapes
<1>1. ASSUME NEW c \in Callers, NEW o \in Ops, NEW d \in Docs, Begin(c, o, d) PROVE Shape(e)'
  BY <1>0, <1>1, Beginning DEF Shape, Creating
<1>2. ASSUME NEW c \in Callers, Step(c) PROVE Shape(e)'
  <2>1. /\ Looks(c) \/ Writes(c)
        /\ UNCHANGED <<op, doc, atStart, grpc>>
        /\ \A f \in Callers \ {c} : Kept(f)
    BY <1>2, Effects, StepTyped
  <2>2. CASE e # c
    <3>1. coll' # NoCollection =>
            coll'.schema = "expected" \/ (coll # NoCollection /\ coll'.schema = coll.schema)
      BY <2>1 DEF Looks, Writes, Quiet, TypeOK, Collections
    <3> QED
      BY <1>0, <2>1, <2>2, <3>1 DEF Shape, Creating, Kept
  <2>3. CASE e = c /\ Looks(c)
    BY <1>0, <2>1, <2>3 DEF Looks, Quiet, Moves, Ends, Falls, Shape, Creating
  <2>4. CASE e = c /\ Writes(c)
    <3>1. coll \in Collections \cup {NoCollection}
      BY DEF TypeOK
    <3> QED
      BY <1>0, <2>1, <2>4, <3>1 DEF Writes, Moves, Ends, Falls, Shape, Creating, Collections
  <2> QED
    BY <2>1, <2>2, <2>3, <2>4
<1>3. ASSUME NEW d \in Docs, Store(d) PROVE Shape(e)'
  BY <1>0, <1>3 DEF Store, call, Shape, Creating
<1>4. CASE UNCHANGED vars
  BY <1>0, <1>4 DEF vars, qdrant, call, Shape, Creating
<1> QED
  BY <1>1, <1>2, <1>3, <1>4 DEF Next

-----------------------------------------------------------------------------
\* While nothing is disturbed.

LEMMA CalmStep == TypeOK /\ Shapes /\ AllCalm /\ [Next]_vars => AllCalm'
<1> SUFFICES ASSUME TypeOK, Shapes, AllCalm, [Next]_vars, ~disturbed', NEW e \in Callers
             PROVE  Calm(e)'
  BY DEF AllCalm
<1>1. ASSUME NEW c \in Callers, NEW o \in Ops, NEW d \in Docs, Begin(c, o, d) PROVE Calm(e)'
  <2>1. Calm(e) /\ Calm(c)
    BY <1>1, Beginning DEF AllCalm
  <2> QED
    BY <1>1, <2>1, Beginning DEF Calm
<1>2. ASSUME NEW c \in Callers, Step(c) PROVE Calm(e)'
  <2>1. /\ Looks(c) \/ Writes(c)
        /\ UNCHANGED <<op, doc, atStart, grpc>>
        /\ \A f \in Callers \ {c} : Kept(f)
    BY <1>2, Effects, StepTyped
  <2>2. ~disturbed
    BY <2>1 DEF Looks, Writes, Quiet
  <2>3. Calm(e) /\ Calm(c) /\ Shape(e) /\ Shape(c)
    BY <2>2 DEF AllCalm, Shapes
  <2>4. CASE Looks(c)
    <3>1. pc'[c] = "index" => pc[c] = "index"
      BY <2>4 DEF Looks, Moves, Ends, Falls
    <3>2. pc'[c] # "index"
      BY <2>3, <2>4 DEF Looks, Moves, Ends, Falls, Calm
    <3>3. pc'[c] \in {"compare", "index", "count", "delete"} => coll # NoCollection
      BY <2>4 DEF Looks, Moves, Ends, Falls
    <3>4. op[c] = "ensure" /\ ~grpc =>
              result'[c] \notin {"unreachable", "refused", "client_error"}
      BY <2>3, <2>4 DEF Looks, Moves, Ends, Falls, Calm, Shape
    <3> QED
      BY <2>1, <2>3, <2>4, <3>2, <3>3, <3>4 DEF Looks, Quiet, Calm, Kept
  <2>5. CASE Writes(c)
    <3>1. \A f \in Callers : pc'[f] = "index" => pc[f] = "index" \/ f = c
      BY <2>1 DEF Kept
    <3>2. CASE pc[c] = "create"
      <4>1. /\ coll = NoCollection /\ coll' = [schema |-> "expected", indexes |-> {}]
            /\ Moves(c, "index", 0)
        BY <2>5, <3>2 DEF Writes
      <4>2. coll' # NoCollection
        BY <4>1, NullAssumption DEF Collections
      <4>3. \A f \in Callers : pc[f] # "index"
        BY <2>2, <4>1 DEF AllCalm, Calm
      <4>4. coll'.indexes = {} /\ 1..0 = {}
        BY <4>1
      <4> QED
        BY <2>1, <2>3, <3>1, <4>1, <4>2, <4>3, <4>4 DEF Calm, Kept, Moves
    <3>3. CASE pc[c] = "index"
      <4>1. /\ coll # NoCollection /\ coll' = [coll EXCEPT !.indexes = @ \cup {tally[c] + 1}]
            /\ Ends(c, "ok") \/ Moves(c, "index", tally[c] + 1)
        BY <2>5, <3>3 DEF Writes
      <4>0. tally[c] + 1 \in Fields /\ coll \in Collections
        BY <3>3, <4>1, SizeAssumption DEF TypeOK, Fields
      <4>2. coll' # NoCollection /\ coll'.indexes = coll.indexes \cup {tally[c] + 1}
        BY <4>0, <4>1, NullAssumption DEF Collections
      <4>3. coll.indexes = 1..tally[c] /\ tally[c] \in Nat
        BY <2>3, <3>3 DEF Calm, TypeOK
      <4>4. coll'.indexes = 1..(tally[c] + 1)
        BY <4>2, <4>3
      <4> QED
        BY <2>1, <2>3, <3>1, <3>3, <4>1, <4>2, <4>4 DEF Calm, Kept, Moves, Ends
    <3>4. CASE pc[c] = "delete"
      BY <2>1, <2>3, <2>5, <3>1, <3>4 DEF Writes, Ends, Calm, Kept
    <3> QED
      BY <2>5, <3>2, <3>3, <3>4 DEF Writes
  <2> QED
    BY <2>1, <2>4, <2>5
<1>3. ASSUME NEW d \in Docs, Store(d) PROVE Calm(e)'
  BY <1>3 DEF Store, call, AllCalm, Calm
<1>4. CASE UNCHANGED vars
  BY <1>4 DEF vars, qdrant, call, AllCalm, Calm
<1> QED
  BY <1>1, <1>2, <1>3, <1>4 DEF Next

LEMMA IndexesStep ==
    TypeOK /\ Shapes /\ AllCalm /\ IndexesComplete /\ [Next]_vars => IndexesComplete'
<1> SUFFICES ASSUME TypeOK, Shapes, AllCalm, IndexesComplete, [Next]_vars,
                    ~disturbed', (coll # NoCollection /\ coll.schema = "expected")'
             PROVE  \/ coll'.indexes = Fields
                    \/ \E c \in Callers : pc'[c] = "index" /\ coll'.indexes = 1..tally'[c]
  BY DEF IndexesComplete, Fields
<1> DEFINE Complete == \/ coll'.indexes = Fields
                       \/ \E c \in Callers : pc'[c] = "index" /\ coll'.indexes = 1..tally'[c]
<1>1. ASSUME NEW c \in Callers, NEW o \in Ops, NEW d \in Docs, Begin(c, o, d) PROVE Complete
  <2>1. UNCHANGED <<coll, tally, disturbed>> /\ pc[c] = "idle"
        /\ \A e \in Callers \ {c} : pc'[e] = pc[e]
    BY <1>1, Beginning
  <2> QED
    BY <2>1 DEF IndexesComplete
<1>2. ASSUME NEW c \in Callers, Step(c) PROVE Complete
  <2>1. /\ Looks(c) \/ Writes(c)
        /\ \A f \in Callers \ {c} : Kept(f)
    BY <1>2, Effects, StepTyped
  <2>2. ~disturbed
    BY <2>1 DEF Looks, Writes, Quiet
  <2>3. Calm(c)
    BY <2>2 DEF AllCalm
  <2>4. CASE pc[c] = "index"
    <3>0. coll # NoCollection /\ coll.indexes = 1..tally[c] /\ tally[c] \in Nat
      BY <2>3, <2>4 DEF Calm, TypeOK
    <3>1. /\ coll' = [coll EXCEPT !.indexes = @ \cup {tally[c] + 1}]
          /\ \/ tally[c] + 1 = NumIndexes
             \/ Moves(c, "index", tally[c] + 1)
      BY <2>1, <2>4, <3>0 DEF Looks, Writes
    <3>2. coll'.indexes = 1..(tally[c] + 1)
      BY <3>0, <3>1 DEF Collections, TypeOK
    <3> QED
      BY <3>1, <3>2 DEF Moves, Fields
  <2>5. CASE pc[c] = "create" /\ coll = NoCollection
    <3>1. coll'.indexes = {} /\ Moves(c, "index", 0)
      BY <2>1, <2>5 DEF Looks, Writes
    <3>2. {} = 1..0
      OBVIOUS
    <3> QED
      BY <3>1, <3>2 DEF Moves
  <2>6. CASE pc[c] # "index" /\ ~(pc[c] = "create" /\ coll = NoCollection)
    <3>1. UNCHANGED coll
      BY <2>1, <2>6 DEF Looks, Writes, Quiet
    <3> QED
      BY <2>1, <2>2, <2>6, <3>1 DEF IndexesComplete, Kept
  <2> QED
    BY <2>4, <2>5, <2>6
<1>3. ASSUME NEW d \in Docs, Store(d) PROVE Complete
  BY <1>3 DEF Store, IndexesComplete
<1>4. CASE UNCHANGED vars
  BY <1>4 DEF vars, qdrant, IndexesComplete
<1> QED
  BY <1>1, <1>2, <1>3, <1>4 DEF Next

-----------------------------------------------------------------------------
\* Purges.

LEMMA PurgesStep == TypeOK /\ Shapes /\ AllCalm /\ Purges /\ [Next]_vars => Purges'
<1> SUFFICES ASSUME TypeOK, Shapes, AllCalm, Purges, [Next]_vars,
                    NEW e \in Callers, Purge(e)'
             PROVE  Knows(e)'
  BY DEF Purges
<1>1. ASSUME NEW c \in Callers, NEW o \in Ops, NEW d \in Docs, Begin(c, o, d) PROVE Knows(e)'
  <2>1. CASE e = c
    <3>1. o = "purge"
      BY <1>1, <2>1, Beginning DEF Purge
    <3>2. \A f \in Callers \ {c} : ~(Purge(f) /\ doc[f] = d)
      BY <1>1, <3>1, Beginning DEF Purging, Purge
    <3> QED
      BY <1>1, <2>1, <3>1, <3>2, Beginning DEF Knows, Purge
  <2>2. CASE e # c
    <3>1. Purge(e) /\ doc'[e] = doc[e] /\ Knows(e)
      BY <1>1, <2>2, Beginning DEF Purge, Purges
    <3>2. o = "purge" => doc[e] # d
      BY <1>1, <3>1, Beginning DEF Purging, Purge
    <3> QED
      BY <1>1, <2>2, <3>1, <3>2, Beginning DEF Knows, Purge
  <2> QED
    BY <2>1, <2>2
<1>2. ASSUME NEW c \in Callers, Step(c) PROVE Knows(e)'
  <2>1. /\ Looks(c) \/ Writes(c)
        /\ UNCHANGED <<op, doc, atStart, grpc>>
        /\ \A f \in Callers \ {c} : Kept(f)
    BY <1>2, Effects, StepTyped
  <2>2. \A f \in Callers : Purge(f)' => Purge(f)
    BY <2>1 DEF Purge, Kept, Looks, Writes
  <2>3. Knows(e) /\ Shape(c) /\ Shape(e)
    BY <2>2 DEF Purges, Shapes
  <2>4. points'[doc[e]] \in {points[doc[e]], 0} /\ doc[e] \in Docs
    BY <2>1 DEF Looks, Writes, Quiet, TypeOK
  <2>5. ~disturbed' => ~disturbed /\ points'[doc[e]] = points[doc[e]]
    <3>1. CASE pc[c] = "delete" /\ points' = [points EXCEPT ![doc[c]] = 0] /\ UNCHANGED disturbed
               /\ Ends(c, "ok")
      <4>1. c # e /\ Purge(c)
        BY <2>3, <3>1 DEF Purge, Ends, Shape
      <4>2. doc[c] # doc[e]
        BY <2>2, <2>3, <4>1 DEF Knows
      <4> QED
        BY <2>4, <3>1, <4>2 DEF TypeOK
    <3> QED
      BY <2>1, <3>1 DEF Looks, Writes, Quiet
  <2>6. pc'[e] = "delete" => tally'[e] \in {0, atStart[e]} /\ (~disturbed' => tally'[e] = atStart[e])
    <3>1. CASE e # c
      BY <2>1, <2>3, <2>5, <3>1 DEF Kept, Knows
    <3>2. CASE e = c /\ pc'[c] = "delete"
      <4>1. tally'[c] = points[doc[c]]
        BY <2>1, <3>2 DEF Looks, Writes, Moves, Ends, Falls
      <4> QED
        BY <2>3, <2>5, <3>2, <4>1 DEF Knows
    <3> QED
      BY <3>1, <3>2
  <2> QED
    BY <2>1, <2>2, <2>3, <2>4, <2>5, <2>6 DEF Knows
<1>3. ASSUME NEW d \in Docs, Store(d) PROVE Knows(e)'
  <2>1. Purge(e) /\ UNCHANGED <<call, pc, tally, disturbed>>
        /\ points' = [points EXCEPT ![d] = @ + 1]
    BY <1>3 DEF Store, Purge, call
  <2>2. doc[e] # d
    BY <1>3, <2>1 DEF Store, Purging, Purge
  <2> QED
    BY <2>1, <2>2 DEF call, Knows, Purges, Purge, TypeOK
<1>4. CASE UNCHANGED vars
  BY <1>4 DEF vars, qdrant, call, Knows, Purges, Purge
<1> QED
  BY <1>1, <1>2, <1>3, <1>4 DEF Next

-----------------------------------------------------------------------------
\* Theorems.

Inv == TypeOK /\ Shapes /\ AllCalm /\ Purges

LEMMA Invariant == Spec => []Inv
<1>1. Init => Inv
  <2>1. Init => Shapes /\ AllCalm /\ Purges
    BY DEF Init, Shapes, Shape, Creating, AllCalm, Calm, Purges, Purge
  <2> QED
    BY <2>1, TypesInit DEF Inv
<1>2. Inv /\ [Next]_vars => Inv'
  BY TypesStep, ShapesStep, CalmStep, PurgesStep DEF Inv
<1> QED
  BY <1>1, <1>2, PTL DEF Spec

\* Every variable keeps to its values, whatever Qdrant answers.
THEOREM TypeCorrect == Spec => []TypeOK
<1>1. Inv => TypeOK
  BY DEF Inv
<1> QED
  BY <1>1, Invariant, PTL

\* create_collection_for_bot leaves no payload index out, unless a call failed
\* under it or the collection was dropped.
THEOREM AllIndexes == Spec => []IndexesComplete
<1>1. Init => IndexesComplete
  BY DEF Init, IndexesComplete
<1>2. Inv /\ IndexesComplete /\ [Next]_vars => IndexesComplete'
  BY IndexesStep DEF Inv
<1> QED
  BY <1>1, <1>2, Invariant, PTL DEF Spec

\* Over REST the conflict handler makes every caller that races to create the
\* collection succeed.
THEOREM RaceOverREST == Spec => []RaceToleratedOverREST
<1>1. Inv => RaceToleratedOverREST
  BY DEF Inv, AllCalm, Calm, RaceToleratedOverREST, RaceTolerated
<1> QED
  BY <1>1, Invariant, PTL

\* get_or_create_collection returns only with a collection of the locked schema,
\* and reports a mismatch only of a foreign one.
THEOREM EnsureCorrect == Spec => EnsureHonest
<1> DEFINE Honest(c) ==
       /\ Returns(c, "ensure") => coll' # NoCollection /\ coll'.schema = "expected"
       /\ result[c] # "mismatch" /\ result'[c] = "mismatch"
            => coll # NoCollection /\ coll.schema = "foreign"
<1>1. ASSUME Inv, Next, NEW c \in Callers PROVE Honest(c)
  <2> USE <1>1 DEF Inv
  <2>1. ASSUME NEW e \in Callers, NEW o \in Ops, NEW d \in Docs, Begin(e, o, d) PROVE Honest(c)
    BY <2>1, Beginning DEF Returns
  <2>2. ASSUME NEW e \in Callers, Step(e) PROVE Honest(c)
    <3>1. (Looks(e) \/ Writes(e)) /\ (c # e => Kept(c)) /\ Shape(e)
      BY <2>2, Effects, StepTyped DEF Shapes
    <3>2. CASE c # e
      BY <3>1, <3>2 DEF Kept, Returns
    <3>3. CASE c = e /\ Looks(e)
      BY <3>1, <3>3 DEF Looks, Quiet, Moves, Ends, Falls, Returns, Shape, TypeOK, Collections, Errors
    <3>4. CASE c = e /\ Writes(e)
      <4>1. result'[c] \in {result[c], "ok"} \cup (Errors \ {"mismatch"})
        BY <3>4 DEF Writes, Moves, Ends, Falls
      <4>2. ASSUME Returns(c, "ensure") PROVE coll' # NoCollection /\ coll'.schema = "expected"
        <5>1. Ends(c, "ok")
          BY <3>4, <4>2 DEF Writes, Moves, Ends, Falls, Returns, Errors
        <5>2. pc[c] = "index" /\ coll # NoCollection
              /\ coll' = [coll EXCEPT !.indexes = @ \cup {tally[c] + 1}]
          BY <3>1, <3>4, <4>2 DEF Writes, Moves, Ends, Falls, Returns, Shape, Errors
        <5>3. tally[c] + 1 \in Fields /\ coll \in Collections /\ coll.schema = "expected"
          BY <3>1, <3>4, <5>2, SizeAssumption DEF TypeOK, Fields, Shape
        <5> QED
          BY <5>2, <5>3, NullAssumption DEF Collections
      <4> QED
        BY <4>1, <4>2 DEF Errors
    <3> QED
      BY <3>1, <3>2, <3>3, <3>4
  <2>3. ASSUME NEW d \in Docs, Store(d) PROVE Honest(c)
    BY <2>3 DEF Store, Returns
  <2> QED
    BY <2>1, <2>2, <2>3 DEF Next
<1>2. Inv /\ [Next]_vars => [\A c \in Callers : Honest(c)]_vars
  BY <1>1
<1> QED
  BY <1>2, Invariant, PTL DEF Spec, EnsureHonest

\* Only a purge of their document or a drop takes points away: the retried and
\* lost creations do not.
THEOREM PointsKept == Spec => PointsSafe
<1> DEFINE Safe(d) == points'[d] < points[d] =>
                        \E c \in Callers : pc[c] = "drop" \/ (pc[c] = "delete" /\ doc[c] = d)
<1>1. ASSUME Inv, Next, NEW d \in Docs PROVE Safe(d)
  <2> USE <1>1 DEF Inv
  <2>0. points[d] \in Nat
    BY SizeAssumption DEF TypeOK
  <2>1. CASE UNCHANGED points
    BY <2>0, <2>1
  <2>2. ASSUME NEW c \in Callers, Step(c) PROVE Safe(d)
    <3>1. Looks(c) \/ Writes(c)
      BY <2>2, Effects
    <3>2. CASE pc[c] = "delete" /\ points' = [points EXCEPT ![doc[c]] = 0]
      BY <2>0, <3>2 DEF TypeOK
    <3> QED
      BY <2>1, <3>1, <3>2 DEF Looks, Writes, Quiet
  <2>3. ASSUME NEW e \in Docs, Store(e) PROVE Safe(d)
    BY <2>0, <2>3 DEF Store, TypeOK
  <2> QED
    BY <2>1, <2>2, <2>3 DEF Next, Begin, qdrant
<1>2. Inv /\ [Next]_vars => [\A d \in Docs : Safe(d)]_vars
  BY <1>1
<1> QED
  BY <1>2, Invariant, PTL DEF Spec, PointsSafe

\* delete_by_doc_id returns with no point of the document left, and with a count
\* of those that were there when it began.
THEOREM PurgeCorrect == Spec => PurgeHonest
<1> DEFINE Honest(c) ==
       Returns(c, "purge") =>
         /\ points'[doc[c]] = 0
         /\ tally[c] \in {0, atStart[c]}
         /\ ~disturbed => tally[c] = atStart[c]
<1>1. ASSUME Inv, Next, NEW c \in Callers PROVE Honest(c)
  <2> USE <1>1 DEF Inv
  <2>1. ASSUME NEW e \in Callers, NEW o \in Ops, NEW d \in Docs, Begin(e, o, d) PROVE Honest(c)
    BY <2>1, Beginning DEF Returns
  <2>2. ASSUME NEW e \in Callers, Step(e), Returns(c, "purge") PROVE Honest(c)
    <3>1. (Looks(e) \/ Writes(e)) /\ (c # e => Kept(c)) /\ Shape(e)
      BY <2>2, Effects, StepTyped DEF Shapes
    <3>2. c = e
      BY <2>2, <3>1 DEF Kept, Returns
    <3>3. Purge(c) /\ Knows(c)
      BY <2>2, <3>1, <3>2 DEF Looks, Writes, Purge, Purges, Returns
    <3>4. CASE pc[c] = "exists" /\ coll = NoCollection /\ Quiet
      BY <3>1, <3>2, <3>3, <3>4 DEF Knows, Shape, Quiet, TypeOK
    <3>5. CASE pc[c] = "delete" /\ points' = [points EXCEPT ![doc[c]] = 0]
      BY <3>3, <3>5 DEF Knows, TypeOK
    <3>6. \/ pc[c] = "exists" /\ coll = NoCollection /\ Quiet
          \/ pc[c] = "delete" /\ points' = [points EXCEPT ![doc[c]] = 0]
      BY <2>2, <3>1, <3>2 DEF Looks, Writes, Moves, Ends, Falls, Returns, Shape, Creating, Errors
    <3> QED
      BY <3>4, <3>5, <3>6
  <2>3. ASSUME NEW d \in Docs, Store(d) PROVE Honest(c)
    BY <2>3 DEF Store, Returns
  <2> QED
    BY <2>1, <2>2, <2>3 DEF Next
<1>2. Inv /\ [Next]_vars => [\A c \in Callers : Honest(c)]_vars
  BY <1>1
<1> QED
  BY <1>2, Invariant, PTL DEF Spec, PurgeHonest

-----------------------------------------------------------------------------
\* The retry loops end.

Phase(p) ==
    CASE p = "exists" -> 3
      [] p \in {"create", "index", "count"} -> 2
      [] p \in {"compare", "delete", "drop"} -> 1
      [] p = "idle" -> 0

\* A caller gets nearer to its end: it is there, or in a later attempt, or in a
\* later part of this one, or in a later attempt of the creation, or in a later
\* step of that.
Nearer(c) ==
    \/ pc'[c] = "idle"
    \/ outer'[c] > outer[c]
    \/ outer'[c] = outer[c] /\ Phase(pc'[c]) < Phase(pc[c])
    \/ /\ Creating(c) /\ outer'[c] = outer[c]
       /\ \/ pc'[c] = "create" /\ inner'[c] > inner[c]
          \/ /\ pc'[c] = "index" /\ inner'[c] = inner[c]
             /\ pc[c] = "index" => tally'[c] > tally[c]

Rests(c) ==
    pc'[c] = pc[c] /\ outer'[c] = outer[c] /\ inner'[c] = inner[c] /\ tally'[c] = tally[c]

CallsAdvance ==
    [][\A c \in Callers : pc[c] # "idle" => IF Step(c) THEN Nearer(c) ELSE Rests(c)]_vars

\* What the ways to move on do to the caller and to the others.
LEMMA Moving ==
    ASSUME TypeOK, NEW c \in Callers
    PROVE  /\ \A outcome : Return(c, outcome) => pc'[c] = "idle"
           /\ \A next, n : Advance(c, next, n) =>
                /\ pc'[c] = next /\ tally'[c] = n
                /\ outer'[c] = outer[c] /\ inner'[c] = inner[c]
           /\ \A next : Restart(c, next) => pc'[c] = next
BY DEF TypeOK, Return, Advance, Restart

LEMMA RetryNearer ==
    ASSUME TypeOK, NEW c \in Callers, Retry(c) \/ Refuse(c)
    PROVE  Nearer(c)
<1>1. outer[c] \in Nat /\ inner[c] \in Nat
  BY SizeAssumption DEF TypeOK
<1>2. CASE Refuse(c) \/ Return(c, "unreachable")
  BY <1>2, Moving DEF Refuse, Nearer
<1>3. CASE Creating(c) /\ Restart(c, "create")
           /\ inner' = [inner EXCEPT ![c] = @ + 1] /\ UNCHANGED outer
  <2>1. pc'[c] = "create" /\ outer'[c] = outer[c]
    BY <1>3, Moving
  <2>2. inner'[c] = inner[c] + 1
    BY <1>3 DEF TypeOK
  <2> QED
    BY <1>1, <1>3, <2>1, <2>2 DEF Nearer
<1>4. CASE outer' = [outer EXCEPT ![c] = @ + 1]
  <2>1. outer'[c] = outer[c] + 1
    BY <1>4 DEF TypeOK
  <2> QED
    BY <1>1, <2>1 DEF Nearer
<1> QED
  BY <1>2, <1>3, <1>4 DEF Retry

LEMMA StepNearer ==
    ASSUME TypeOK, NEW c \in Callers, Step(c)
    PROVE  Nearer(c)
<1> USE DEF Goto
<1>1. CASE \E outcome : Return(c, outcome)
  BY <1>1, Moving DEF Nearer
<1>2. CASE Retry(c) \/ Refuse(c)
  BY <1>2, RetryNearer
<1>3. ASSUME NEW next \in {"compare", "create", "count", "drop", "delete"}, NEW n,
             Advance(c, next, n), Phase(next) < Phase(pc[c])
      PROVE  Nearer(c)
  BY <1>3, Moving DEF Nearer
<1>4. CASE Exists(c)
  <2>1. /\ pc[c] = "exists"
        /\ \/ \E next \in {"compare", "count", "drop", "create"} : Advance(c, next, 0)
           \/ \E outcome : Return(c, outcome)
    BY <1>4 DEF Exists
  <2>2. \A next \in {"compare", "count", "drop", "create"} : Phase(next) < Phase("exists")
    BY DEF Phase
  <2> QED
    BY <1>1, <1>3, <2>1, <2>2
<1>5. CASE Compare(c)
  BY <1>1, <1>5 DEF Compare
<1>6. CASE Create(c)
  <2>1. pc[c] = "create" /\ (Advance(c, "index", 0) \/ Retry(c) \/ Refuse(c))
    BY <1>6 DEF Create, LostAnswer
  <2>2. CASE Advance(c, "index", 0)
    BY <2>1, <2>2, Moving DEF Nearer, Creating
  <2> QED
    BY <1>2, <2>1, <2>2
<1>7. CASE Conflict(c)
  <2>1. CASE Restart(c, "compare") /\ UNCHANGED outer
    <3>1. pc[c] = "create" /\ pc'[c] = "compare" /\ outer'[c] = outer[c]
      BY <1>7, <2>1, Moving DEF Conflict
    <3>2. Phase("compare") < Phase("create")
      BY DEF Phase
    <3> QED
      BY <3>1, <3>2 DEF Nearer
  <2> QED
    BY <1>2, <1>7, <2>1 DEF Conflict
<1>8. CASE Index(c)
  <2>1. /\ pc[c] = "index"
        /\ \/ \E outcome : Return(c, outcome)
           \/ Advance(c, "index", tally[c] + 1)
           \/ Retry(c) \/ Refuse(c)
    BY <1>8 DEF Index, IndexMade, LostAnswer
  <2>2. CASE Advance(c, "index", tally[c] + 1)
    <3>1. tally[c] \in Nat
      BY DEF TypeOK
    <3>2. /\ pc'[c] = "index" /\ tally'[c] = tally[c] + 1
          /\ outer'[c] = outer[c] /\ inner'[c] = inner[c]
      BY <2>2, Moving
    <3> QED
      BY <2>1, <3>1, <3>2 DEF Nearer, Creating
  <2> QED
    BY <1>1, <1>2, <2>1, <2>2
<1>9. CASE Count(c)
  <2>1. pc[c] = "count" /\ \E n : Advance(c, "delete", n)
    BY <1>9 DEF Count
  <2>2. Phase("delete") < Phase("count")
    BY DEF Phase
  <2> QED
    BY <1>3, <2>1, <2>2
<1>10. CASE Delete(c) \/ Drop(c)
  BY <1>1, <1>2, <1>10 DEF Delete, Drop, LostAnswer
<1>11. CASE Vanished(c) \/ Fails(c)
  BY <1>2, <1>11 DEF Vanished, Fails
<1> QED
  BY <1>4, <1>5, <1>6, <1>7, <1>8, <1>9, <1>10, <1>11 DEF Step, Ensure

\* What any other step leaves of a caller.
LEMMA OthersRest ==
    ASSUME TypeOK, NEW c \in Callers, pc[c] # "idle", [Next]_vars, ~Step(c)
    PROVE  Rests(c)
<1>1. ASSUME NEW e \in Callers, NEW o \in Ops, NEW d \in Docs, Begin(e, o, d)
      PROVE  Rests(c)
  BY <1>1 DEF Begin, Rests, TypeOK
<1>2. ASSUME NEW e \in Callers, Step(e)
      PROVE  Rests(c)
  <2>1. c # e
    BY <1>2
  <2>2. pc'[c] = pc[c] /\ tally'[c] = tally[c]
    BY <1>2, <2>1, StepTyped DEF Kept
  <2>3. ASSUME \/ \E outcome : Return(e, outcome) \/ \E next, n : Advance(e, next, n)
               \/ Retry(e) \/ Refuse(e)
               \/ UNCHANGED outer /\ inner' = [inner EXCEPT ![e] = 1]
        PROVE  outer'[c] = outer[c] /\ inner'[c] = inner[c]
    BY <2>1, <2>3 DEF Return, Advance, Retry, Refuse, TypeOK
  <2>4. \/ \E outcome : Return(e, outcome) \/ \E next, n : Advance(e, next, n)
        \/ Retry(e) \/ Refuse(e)
        \/ UNCHANGED outer /\ inner' = [inner EXCEPT ![e] = 1]
    <3> USE DEF Goto, LostAnswer
    <3>1. CASE Exists(e)
      BY <3>1 DEF Exists
    <3>2. CASE Ensure(e)
      BY <3>2 DEF Ensure, Compare, Create, Conflict, Index, IndexMade
    <3>3. CASE Count(e) \/ Delete(e) \/ Drop(e) \/ Vanished(e) \/ Fails(e)
      BY <3>3 DEF Count, Delete, Drop, Vanished, Fails
    <3> QED
      BY <1>2, <3>1, <3>2, <3>3 DEF Step
  <2> QED
    BY <2>2, <2>3, <2>4 DEF Rests
<1>3. ASSUME NEW d \in Docs, Store(d)
      PROVE  Rests(c)
  BY <1>3 DEF Store, Rests
<1>4. CASE UNCHANGED vars
  BY <1>4 DEF vars, Rests
<1> QED
  BY <1>1, <1>2, <1>3, <1>4 DEF Next

\* Every call a caller makes, answered or not, brings its operation nearer to its
\* end, and nothing that others do takes it back: attempts are bounded, and the
\* creation's loop starts anew only with an attempt of the operation's.  So the
\* nested loops make a bounded number of calls, however often Qdrant fails.
THEOREM CallsBounded == Spec => CallsAdvance
<1>1. TypeOK /\ [Next]_vars =>
        [\A c \in Callers : pc[c] # "idle" => IF Step(c) THEN Nearer(c) ELSE Rests(c)]_vars
  BY StepNearer, OthersRest
<1> QED
  BY <1>1, TypesInit, TypesStep, PTL DEF Spec, CallsAdvance

=============================================================================
