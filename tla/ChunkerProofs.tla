---------------------------- MODULE ChunkerProofs ----------------------------
(***************************************************************************)
(* Theorems about Chunker, for any documents, limits, tokenizer and cuts of   *)
(* the splitter: a chunk's index is its rank in its item (Ranked), and the    *)
(* list that was collected names each item's chunks apart (Collected); the   *)
(* piece in hand is a stretch of its item with ink in it (Held), so that the  *)
(* tokenizer's count of it is a number, and what is placed fits (Fitting).    *)
(***************************************************************************)
EXTENDS Chunker, SequenceTheorems, WellFoundedInduction, TLAPS

Ranked ==
    /\ \E S : chunks \in Seq(S)
    /\ \A i \in 1..Len(chunks) : chunks[i].index = i - 1

Collected ==
    /\ \E S : flat \in Seq(S)
    /\ \A i \in 1..Len(flat) : flat[i].item \in 1..(item - 1)
    /\ IdsDistinct

Inv == TypeOK /\ Ranked /\ Collected

\* A merge keeps the index of the chunk it extends.
LEMMA PlaceRanked ==
    ASSUME Ranked, Place
    PROVE  Ranked'
<1>1. PICK S : chunks \in Seq(S)
  BY DEF Ranked
<1>2. Len(chunks) \in Nat /\ DOMAIN chunks = 1..Len(chunks)
  BY <1>1
<1>3. \A t, n : Chunk(t, n).index = n
  BY DEF Chunk
<1>4. CASE UNCHANGED chunks
  BY <1>4 DEF Ranked
<1>5. CASE chunks # <<>>
           /\ chunks' = [chunks EXCEPT ![Len(chunks)] = Chunk(Merged, @.index)]
  <2> DEFINE last == Len(chunks)
             c    == Chunk(Merged, chunks[last].index)
  <2>1. last \in 1..Len(chunks) /\ chunks' = [chunks EXCEPT ![last] = c]
    BY <1>1, <1>2, <1>5
  <2>2. c.index = chunks[last].index
    BY <1>3
  <2> HIDE DEF c
  <2>3. chunks' \in Seq(S \cup {c})
    <3>1. chunks \in Seq(S \cup {c}) /\ c \in S \cup {c}
      BY <1>1, SeqMonotonic
    <3> QED
      BY <2>1, <3>1, ExceptSeq
  <2>4. Len(chunks') = Len(chunks)
    BY <1>2, <2>1, <2>3
  <2>5. \A i \in 1..Len(chunks) : chunks'[i].index = chunks[i].index
    BY <1>2, <2>1, <2>2
  <2> QED
    BY <2>3, <2>4, <2>5 DEF Ranked
<1>6. CASE chunks' = Append(chunks, Chunk(text, Len(chunks)))
  <2> DEFINE c == Chunk(text, Len(chunks))
  <2>1. c.index = Len(chunks)
    BY <1>3
  <2> HIDE DEF c
  <2>2. chunks \in Seq(S \cup {c})
    BY <1>1, SeqMonotonic
  <2>3. /\ Append(chunks, c) \in Seq(S \cup {c})
        /\ Len(Append(chunks, c)) = Len(chunks) + 1
        /\ \A i \in 1..Len(chunks) : Append(chunks, c)[i] = chunks[i]
        /\ Append(chunks, c)[Len(chunks) + 1] = c
    BY <2>2, AppendProperties
  <2>4. chunks' = Append(chunks, c)
    BY <1>6 DEF c
  <2> QED
    BY <1>2, <2>1, <2>3, <2>4 DEF Ranked
<1> QED
  BY <1>4, <1>5, <1>6 DEF Place, Mergeable

\* The chunks of a finished item go behind those of the items before it.
LEMMA EndFlat ==
    ASSUME Ranked, Collected, EndItem
    PROVE  /\ \E S : flat' \in Seq(S)
           /\ Len(flat) \in Nat /\ Len(chunks) \in Nat
           /\ DOMAIN flat = 1..Len(flat) /\ DOMAIN flat' = 1..Len(flat')
           /\ DOMAIN chunks = 1..Len(chunks)
           /\ Len(flat') = Len(flat) + Len(chunks)
           /\ \A i \in 1..Len(flat) : flat'[i] = flat[i]
           /\ \A i \in 1..Len(chunks) :
                flat'[Len(flat) + i] = [item |-> item, chunk |-> chunks[i]]
           /\ item' = item + 1 /\ chunks' = <<>>
<1>1. PICK S : chunks \in Seq(S)
  BY DEF Ranked
<1>2. PICK T : flat \in Seq(T)
  BY DEF Collected
<1> DEFINE more == [i \in 1..Len(chunks) |-> [item |-> item, chunk |-> chunks[i]]]
           U    == T \cup {[item |-> item, chunk |-> c] : c \in S}
<1>3. /\ DOMAIN chunks = 1..Len(chunks) /\ Len(chunks) \in Nat /\ Len(flat) \in Nat
      /\ \A i \in 1..Len(chunks) : chunks[i] \in S
  BY <1>1, <1>2
<1>4. more \in Seq(U) /\ Len(more) = Len(chunks)
  <2>1. \A i \in 1..Len(chunks) : more[i] \in U
    BY <1>3
  <2> QED
    BY <1>3, <2>1
<1>5. flat \in Seq(U)
  BY <1>2, SeqMonotonic
<1>6. \A i \in 1..Len(chunks) : more[i] = [item |-> item, chunk |-> chunks[i]]
  OBVIOUS
<1>7. flat' = flat \o more /\ item' = item + 1 /\ chunks' = <<>>
  <2>1. flat' = flat \o [i \in DOMAIN chunks |-> [item |-> item, chunk |-> chunks[i]]]
    BY DEF EndItem
  <2> QED
    BY <1>3, <2>1 DEF EndItem
<1> HIDE DEF more, U
<1>8. /\ flat' \in Seq(U) /\ Len(flat') = Len(flat) + Len(chunks)
      /\ \A i \in 1..(Len(flat) + Len(chunks)) :
            flat'[i] = IF i <= Len(flat) THEN flat[i] ELSE more[i - Len(flat)]
  <2>1. /\ flat \o more \in Seq(U) /\ Len(flat \o more) = Len(flat) + Len(more)
        /\ \A i \in 1..(Len(flat) + Len(more)) :
              (flat \o more)[i] = IF i <= Len(flat) THEN flat[i] ELSE more[i - Len(flat)]
    BY <1>4, <1>5, ConcatProperties, Zenon
  <2> QED
    BY <1>4, <1>7, <2>1
<1>9. DOMAIN flat = 1..Len(flat) /\ DOMAIN flat' = 1..Len(flat')
  BY <1>2, <1>8
<1>10. \A i \in 1..Len(flat) : flat'[i] = flat[i]
  BY <1>3, <1>8
<1>11. \A i \in 1..Len(chunks) : flat'[Len(flat) + i] = more[i]
  BY <1>3, <1>8
<1> QED
  BY <1>3, <1>6, <1>7, <1>8, <1>9, <1>10, <1>11

LEMMA EndCollected ==
    ASSUME TypeOK, Ranked, Collected, EndItem
    PROVE  Ranked' /\ Collected'
<1>3. /\ Len(flat) \in Nat /\ Len(chunks) \in Nat
      /\ DOMAIN flat = 1..Len(flat) /\ DOMAIN flat' = 1..Len(flat')
      /\ Len(flat') = Len(flat) + Len(chunks)
      /\ \E S : flat' \in Seq(S)
      /\ chunks' = <<>>
  BY EndFlat
<1>8. /\ \A i \in 1..Len(flat) : flat'[i] = flat[i]
      /\ \A i \in 1..Len(chunks) :
            /\ flat'[Len(flat) + i].item = item
            /\ flat'[Len(flat) + i].chunk.index = i - 1
  <2>1. /\ \A i \in 1..Len(flat) : flat'[i] = flat[i]
        /\ \A i \in 1..Len(chunks) :
              flat'[Len(flat) + i] = [item |-> item, chunk |-> chunks[i]]
    BY EndFlat
  <2>2. \A i \in 1..Len(chunks) : chunks[i].index = i - 1
    BY DEF Ranked
  <2>3. ASSUME NEW i \in 1..Len(chunks)
        PROVE  /\ flat'[Len(flat) + i].item = item
               /\ flat'[Len(flat) + i].chunk.index = i - 1
    <3>1. flat'[Len(flat) + i] = [item |-> item, chunk |-> chunks[i]]
      BY <2>1
    <3>2. flat'[Len(flat) + i].item = item /\ flat'[Len(flat) + i].chunk = chunks[i]
      BY <3>1
    <3>3. chunks[i].index = i - 1
      BY <2>2
    <3> QED
      BY <3>2, <3>3
  <2> QED
    BY <2>1, <2>3
<1>9. item \in Nat \ {0}
  BY DEF TypeOK
\* Of a chunk: old ones belong to earlier items, new ones to this.
<1>10. ASSUME NEW i \in 1..Len(flat')
       PROVE  \/ /\ i \in 1..Len(flat) /\ flat'[i] = flat[i]
                 /\ flat[i].item \in 1..(item - 1)
              \/ /\ i - Len(flat) \in 1..Len(chunks)
                 /\ flat'[i].item = item
                 /\ flat'[i].chunk.index = i - Len(flat) - 1
  <2>1. CASE i <= Len(flat)
    BY <1>3, <1>8, <2>1 DEF Collected
  <2>2. CASE i > Len(flat)
    <3>1. i - Len(flat) \in 1..Len(chunks) /\ i = Len(flat) + (i - Len(flat))
      BY <1>3, <2>2
    <3> QED
      BY <1>8, <3>1
  <2> QED
    BY <1>3, <2>1, <2>2
<1>11. IdsDistinct'
  <2> SUFFICES ASSUME NEW i \in 1..Len(flat'), NEW j \in 1..Len(flat'), i # j,
                      flat'[i].item = flat'[j].item,
                      flat'[i].chunk.index = flat'[j].chunk.index
               PROVE  FALSE
    BY <1>3 DEF IdsDistinct
  <2> DEFINE Old(k) == k \in 1..Len(flat) /\ flat'[k] = flat[k] /\ flat[k].item \in 1..(item - 1)
             New(k) == /\ flat'[k].item = item
                       /\ flat'[k].chunk.index = k - Len(flat) - 1
  <2>1. (Old(i) \/ New(i)) /\ (Old(j) \/ New(j))
    BY <1>10
  <2>2. \A k : Old(k) => flat'[k].item # item
    BY <1>9
  <2>3. CASE Old(i) /\ Old(j)
    BY <1>3, <2>3 DEF Collected, IdsDistinct
  <2>4. CASE New(i) /\ New(j)
    <3>1. i - Len(flat) - 1 = j - Len(flat) - 1
      BY <2>4, Zenon
    <3>2. i \in Int /\ j \in Int
      BY <1>3
    <3> QED
      BY <1>3, <3>1, <3>2
  <2> QED
    BY <2>1, <2>2, <2>3, <2>4
<1>12. \A i \in 1..Len(flat') : flat'[i].item \in 1..(item' - 1)
  BY <1>9, <1>10, EndFlat
<1>13. Ranked'
  BY <1>3, EmptySeq DEF Ranked
<1> QED
  BY <1>3, <1>11, <1>12, <1>13 DEF Collected

LEMMA InvStep == Inv /\ [Next]_vars => Inv'
<1> SUFFICES ASSUME Inv, [Next]_vars PROVE Inv'
  OBVIOUS
<1> USE DEF Inv
<1>1. TypeOK'
  <2>1. Len(doc) \in Nat
    BY ContentAssumption DEF TypeOK
  <2>2. CASE Split \/ Truncate \/ Shrink \/ UNCHANGED vars
    BY <2>2 DEF TypeOK, Split, Truncate, Shrink, vars
  <2>3. CASE Place
    <3>0. Ranked'
      BY <2>3, PlaceRanked
    <3>1. PICK S : chunks' \in Seq(S)
      BY <3>0 DEF Ranked
    <3>2. \A i \in DOMAIN chunks' : chunks'[i].index \in Nat
      <4>1. DOMAIN chunks' = 1..Len(chunks')
        BY <3>1
      <4>2. ASSUME NEW i \in 1..Len(chunks')
            PROVE  chunks'[i].index \in Nat
        <5>1. chunks'[i].index = i - 1
          BY <3>0 DEF Ranked
        <5> QED
          BY <3>1, <5>1
      <4> QED
        BY <4>1, <4>2
    <3> QED
      BY <2>3, <3>2 DEF TypeOK, Place
  <2>4. CASE EndItem
    BY <2>1, <2>4 DEF TypeOK, EndItem
  <2> QED
    BY <2>2, <2>3, <2>4 DEF Next
<1>2. CASE Split \/ Truncate \/ Shrink \/ UNCHANGED vars
  BY <1>1, <1>2 DEF Split, Truncate, Shrink, vars, Ranked, Collected, IdsDistinct
<1>3. CASE Place
  <2>1. Ranked'
    BY <1>3, PlaceRanked
  <2>2. UNCHANGED <<flat, item>>
    BY <1>3 DEF Place
  <2>3. Collected'
    BY <2>2 DEF Collected, IdsDistinct
  <2> QED
    BY <1>1, <2>1, <2>3
<1>4. CASE EndItem
  BY <1>1, <1>4, EndCollected
<1> QED
  BY <1>2, <1>3, <1>4 DEF Next

LEMMA InvInit == Init => Inv
<1> SUFFICES ASSUME Init PROVE Inv
  OBVIOUS
<1>1. Len(doc) \in Nat
  BY ContentAssumption DEF Init
<1> QED
  BY <1>1, EmptySeq DEF Init, Inv, TypeOK, Ranked, Collected, IdsDistinct

\* No two chunks of a document get one chunk id (item and index), and so one
\* point in Qdrant, whatever the splitter cuts and however pieces are merged.
THEOREM ChunkIdsDistinct == Spec => []IdsDistinct
<1>1. Inv => IdsDistinct
  BY DEF Inv, Collected
<1> QED
  BY <1>1, InvInit, InvStep, PTL DEF Spec

\* The chunker works through the items in order, one piece at a time.
THEOREM TypeCorrect == Spec => []TypeOK
<1>1. Inv => TypeOK
  BY DEF Inv
<1> QED
  BY <1>1, InvInit, InvStep, PTL DEF Spec

-----------------------------------------------------------------------------
\* Every chunk can be embedded.

\* A set of positions has a first and a last one.
LEMMA FirstAndLast ==
    ASSUME NEW n \in Nat, NEW S \in SUBSET (1..n), S # {}
    PROVE  /\ \E j \in S : \A i \in S : j <= i
           /\ \E j \in S : \A i \in S : i <= j
<1>1. ASSUME NEW T, T \subseteq Nat, T # {}
      PROVE  \E j \in T : \A i \in T : j <= i
  <2>1. PICK j \in T : \A i \in T : <<i, j>> \notin OpToRel(<, Nat)
    BY <1>1, NatLessThanWellFounded, WFMin, Zenon
  <2>2. \A i \in T : ~(i < j)
    BY <1>1, <2>1, Zenon DEF OpToRel
  <2>3. \A i \in T : j <= i
    BY <1>1, <2>2
  <2> QED
    BY <2>3
<1>2. \E j \in S : \A i \in S : j <= i
  <2>1. S \subseteq Nat
    OBVIOUS
  <2> QED
    BY <1>1, <2>1
<1>3. \E j \in S : \A i \in S : i <= j
  <2> DEFINE T == {n - i : i \in S}
  <2>1. T \subseteq Nat /\ T # {}
    <3>1. \A i \in S : n - i \in Nat
      OBVIOUS
    <3> QED
      BY <3>1
  <2>2. PICK k \in T : \A i \in T : k <= i
    BY <1>1, <2>1
  <2>3. PICK j \in S : k = n - j
    OBVIOUS
  <2>4. ASSUME NEW i \in S
        PROVE  i <= j
    <3>1. n - j <= n - i
      BY <2>2, <2>3
    <3> QED
      BY <3>1
  <2> QED
    BY <2>4
<1> QED
  BY <1>2, <1>3

Seat == Nat \X Nat

\* A stretch of the item in hand that has ink in it, or no text.
Piece(t) ==
    \E a, b \in 1..Len(doc[item]) : a <= b /\ t = Slice(a, b) /\ Inked(t) # {}

Held(t) == t = <<>> \/ Piece(t)

LEMMA SliceType ==
    ASSUME item \in Nat, NEW a \in Nat \ {0}, NEW b \in Nat, a <= b + 1
    PROVE  /\ Slice(a, b) \in Seq(Seat) /\ Len(Slice(a, b)) = b + 1 - a
           /\ \A i \in 1..(b + 1 - a) : Slice(a, b)[i] = <<item, a + i - 1>>
<1>1. b + 1 - a \in Nat
  OBVIOUS
<1>2. \A i \in 1..(b + 1 - a) : <<item, a + i - 1>> \in Seat
  BY DEF Seat
<1>3. Slice(a, b) \in [1..(b + 1 - a) -> Seat]
  BY <1>2 DEF Slice
<1>4. Slice(a, b) \in Seq(Seat) /\ Len(Slice(a, b)) = b + 1 - a
  BY <1>1, <1>3
<1> QED
  BY <1>4 DEF Slice

\* A stretch of a stretch is a stretch.
LEMMA SliceOfSlice ==
    ASSUME item \in Nat, NEW a \in Nat \ {0}, NEW b \in Nat, a <= b + 1,
           NEW m \in Nat \ {0}, NEW n \in 0..(b + 1 - a), m <= n + 1
    PROVE  SubSeq(Slice(a, b), m, n) = Slice(a + m - 1, a + n - 1)
<1> DEFINE t == Slice(a, b)
           u == Slice(a + m - 1, a + n - 1)
           s == SubSeq(t, m, n)
<1>1. /\ t \in Seq(Seat) /\ Len(t) = b + 1 - a
      /\ \A i \in 1..(b + 1 - a) : t[i] = <<item, a + i - 1>>
  BY SliceType
<1>2. a + m - 1 \in Nat \ {0} /\ a + n - 1 \in Nat /\ a + m - 1 <= a + n - 1 + 1
  OBVIOUS
<1>3. /\ u \in Seq(Seat) /\ Len(u) = a + n - 1 + 1 - (a + m - 1)
      /\ \A i \in 1..(a + n - 1 + 1 - (a + m - 1)) : u[i] = <<item, a + m - 1 + i - 1>>
  BY <1>2, SliceType
<1> HIDE DEF t, u
<1>4. \A i \in m..n : t[i] \in Seat
  BY <1>1
<1>5. /\ s \in Seq(Seat) /\ Len(s) = IF m <= n THEN n - m + 1 ELSE 0
      /\ \A i \in 1..(n - m + 1) : s[i] = t[m + i - 1]
  <2>1. m \in Int /\ n \in Int
    OBVIOUS
  <2> HIDE DEF s
  <2>2. /\ SubSeq(t, m, n) \in Seq(Seat)
        /\ Len(SubSeq(t, m, n)) = IF m <= n THEN n - m + 1 ELSE 0
        /\ \A i \in 1..n - m + 1 : SubSeq(t, m, n)[i] = t[m + i - 1]
    BY <1>4, <2>1, SubSeqProperties
  <2> QED
    BY <2>2 DEF s
<1> HIDE DEF s
<1>6. Len(s) = n - m + 1 /\ Len(u) = n - m + 1
  BY <1>3, <1>5
<1>7. ASSUME NEW i \in 1..Len(s)
      PROVE  s[i] = u[i]
  <2>1. s[i] = t[m + i - 1] /\ m + i - 1 \in 1..(b + 1 - a)
    BY <1>5, <1>6
  <2>2. t[m + i - 1] = <<item, a + (m + i - 1) - 1>>
    BY <1>1, <2>1
  <2>3. u[i] = <<item, a + m - 1 + i - 1>>
    BY <1>3, <1>6
  <2>4. a + (m + i - 1) - 1 = a + m - 1 + i - 1
    OBVIOUS
  <2> QED
    BY <2>1, <2>2, <2>3, <2>4
<1>8. s = u
  BY <1>3, <1>5, <1>6, <1>7, SeqEqual
<1> QED
  BY <1>8 DEF s, t, u

\* str.rstrip leaves a stretch that ends in ink, or nothing.
LEMMA RStripSlice ==
    ASSUME item \in Nat, Len(doc[item]) \in Nat,
           NEW a \in Nat \ {0}, NEW b \in Nat, a <= b + 1, b <= Len(doc[item])
    PROVE  Held(RStrip(Slice(a, b)))
<1> DEFINE t == Slice(a, b)
<1>0. b + 1 - a \in Nat
  OBVIOUS
<1>1. /\ t \in Seq(Seat) /\ Len(t) = b + 1 - a /\ b + 1 - a \in Nat
      /\ \A i \in 1..(b + 1 - a) : t[i] = <<item, a + i - 1>>
  BY <1>0, SliceType
<1> HIDE DEF t
<1>2. CASE Inked(t) = {}
  <2>1. RStrip(t) = SubSeq(t, 1, 0)
    BY <1>2 DEF RStrip
  <2>2. SubSeq(t, 1, 0) = <<>>
    BY SubSeqEmpty
  <2> QED
    BY <2>1, <2>2 DEF Held, t
<1>3. CASE Inked(t) # {}
  <2> DEFINE k == CHOOSE j \in Inked(t) : \A i \in Inked(t) : i <= j
  <2>1. Inked(t) \in SUBSET (1..(b + 1 - a))
    BY <1>1 DEF Inked
  <2>2. \E j \in Inked(t) : \A i \in Inked(t) : i <= j
    BY <1>1, <1>3, <2>1, FirstAndLast
  <2>3. k \in Inked(t)
    BY <2>2
  <2>4. RStrip(t) = SubSeq(t, 1, k)
    BY <1>3 DEF RStrip
  <2> HIDE DEF k
  <2>5. k \in 1..(b + 1 - a) /\ Kind(t[k]) # Blank
    BY <2>1, <2>3 DEF Inked
  <2> DEFINE e == a + k - 1
             u == Slice(a, e)
  <2>6. e \in Nat /\ a <= e /\ e <= b
    BY <2>5
  <2>7. SubSeq(t, 1, k) = u
    <3>1. SubSeq(Slice(a, b), 1, k) = Slice(a + 1 - 1, a + k - 1)
      <4>1. 1 \in Nat \ {0} /\ k \in 0..(b + 1 - a) /\ 1 <= k + 1
        BY <2>5
      <4> QED
        BY <4>1, SliceOfSlice
    <3>2. a + 1 - 1 = a
      OBVIOUS
    <3> QED
      BY <3>1, <3>2 DEF t
  <2>8. k \in Inked(u)
    <3>1. /\ u \in Seq(Seat) /\ Len(u) = e + 1 - a
          /\ \A i \in 1..(e + 1 - a) : u[i] = <<item, a + i - 1>>
      <4>1. e \in Nat /\ a <= e + 1
        BY <2>6
      <4> HIDE DEF e
      <4> QED
        BY <4>1, SliceType
    <3> HIDE DEF u
    <3>2. k \in DOMAIN u /\ u[k] = <<item, a + k - 1>>
      BY <2>5, <3>1
    <3>3. u[k] = t[k]
      BY <1>1, <2>5, <3>2
    <3> QED
      BY <2>5, <3>2, <3>3 DEF Inked
  <2>9. a \in 1..Len(doc[item]) /\ e \in 1..Len(doc[item])
    BY <2>6
  <2> HIDE DEF e
  <2>10. Piece(u)
    BY <2>6, <2>8, <2>9 DEF Piece
  <2> QED
    BY <2>4, <2>7, <2>10 DEF Held, t
<1> QED
  BY <1>2, <1>3

\* So do str.strip of a stretch and a prefix of the piece in hand.
LEMMA StripSlice ==
    ASSUME item \in Nat, Len(doc[item]) \in Nat,
           NEW a \in Nat \ {0}, NEW b \in Nat, a <= b + 1, b <= Len(doc[item])
    PROVE  Held(Strip(Slice(a, b)))
<1> DEFINE t == Slice(a, b)
<1>0. b + 1 - a \in Nat
  OBVIOUS
<1>1. /\ t \in Seq(Seat) /\ Len(t) = b + 1 - a /\ b + 1 - a \in Nat
  BY <1>0, SliceType
<1> HIDE DEF t
<1>2. CASE Inked(t) = {}
  BY <1>2 DEF Held, Strip, t
<1>3. CASE Inked(t) # {}
  <2> DEFINE k == CHOOSE j \in Inked(t) : \A i \in Inked(t) : j <= i
  <2>1. Inked(t) \in SUBSET (1..(b + 1 - a))
    BY <1>1 DEF Inked
  <2>2. \E j \in Inked(t) : \A i \in Inked(t) : j <= i
    BY <1>1, <1>3, <2>1, FirstAndLast
  <2>3. k \in Inked(t)
    BY <2>2
  <2>4. Strip(t) = RStrip(SubSeq(t, k, Len(t)))
    BY <1>3 DEF Strip
  <2> HIDE DEF k
  <2>5. k \in 1..(b + 1 - a)
    BY <2>1, <2>3
  <2>6. SubSeq(t, k, Len(t)) = Slice(a + k - 1, b)
    <3>1. SubSeq(Slice(a, b), k, b + 1 - a) = Slice(a + k - 1, a + (b + 1 - a) - 1)
      <4>1. k \in Nat \ {0} /\ b + 1 - a \in 0..(b + 1 - a) /\ k <= (b + 1 - a) + 1
        BY <1>0, <2>5
      <4> QED
        BY <4>1, SliceOfSlice
    <3>2. a + (b + 1 - a) - 1 = b
      OBVIOUS
    <3> QED
      BY <1>1, <3>1, <3>2 DEF t
  <2>7. a + k - 1 \in Nat \ {0} /\ a + k - 1 <= b + 1
    BY <2>5
  <2>8. Held(RStrip(Slice(a + k - 1, b)))
    BY <2>7, RStripSlice
  <2> QED
    BY <2>4, <2>6, <2>8 DEF t
<1> QED
  BY <1>2, <1>3

LEMMA PrefixHeld ==
    ASSUME item \in Nat, Len(doc[item]) \in Nat, NEW t, Held(t), NEW n \in 0..Len(t)
    PROVE  Held(Prefix(t, n))
<1>1. CASE t = <<>>
  <2>1. SubSeq(t, 1, n) = <<>> /\ Inked(<<>>) = {}
    BY <1>1, SubSeqEmpty, EmptySeq DEF Inked
  <2>2. RStrip(<<>>) = SubSeq(<<>>, 1, 0)
    BY <2>1 DEF RStrip
  <2>3. SubSeq(<<>>, 1, 0) = <<>>
    BY SubSeqEmpty
  <2> QED
    BY <2>1, <2>2, <2>3 DEF Prefix, Held
<1>2. CASE Piece(t)
  <2>1. PICK a \in 1..Len(doc[item]), b \in 1..Len(doc[item]) : a <= b /\ t = Slice(a, b)
    BY <1>2 DEF Piece
  <2>2. a \in Nat \ {0} /\ b \in Nat /\ a <= b + 1
    BY <2>1
  <2>3. Len(t) = b + 1 - a
    BY <2>1, <2>2, SliceType
  <2>4. SubSeq(t, 1, n) = Slice(a + 1 - 1, a + n - 1)
    <3>1. 1 \in Nat \ {0} /\ n \in 0..(b + 1 - a) /\ 1 <= n + 1
      BY <2>2, <2>3
    <3> QED
      BY <2>1, <2>2, <3>1, SliceOfSlice
  <2>5. a + n - 1 \in Nat /\ a + 1 - 1 = a /\ a <= (a + n - 1) + 1 /\ a + n - 1 <= Len(doc[item])
    BY <2>1, <2>2, <2>3
  <2>6. Held(RStrip(Slice(a, a + n - 1)))
    BY <2>2, <2>5, RStripSlice
  <2> QED
    BY <2>4, <2>5, <2>6 DEF Prefix
<1> QED
  BY <1>1, <1>2 DEF Held

\* The tokenizer's count of a piece is a number, of no more than MaxTokens for
\* each character.
LEMMA PieceCount ==
    ASSUME doc \in Documents, item \in 1..Len(doc), NEW t, Piece(t)
    PROVE  /\ CountTokens(t) \in Nat /\ CountTokens(t) <= MaxTokens * Len(t)
           /\ t \in Seq(Seat) /\ Len(t) \in Nat \ {0}
<1>1. doc \in Seq(Seq(Kinds)) /\ item \in DOMAIN doc /\ item \in Nat \ {0}
  BY ContentAssumption
<1>2. doc[item] \in Seq(Kinds)
  BY <1>1
<1>3. PICK a \in 1..Len(doc[item]), b \in 1..Len(doc[item]) : a <= b /\ t = Slice(a, b)
  BY DEF Piece
<1>4. a \in Nat \ {0} /\ b \in Nat /\ a <= b + 1 /\ a <= b /\ b <= Len(doc[item])
      /\ a \in DOMAIN doc[item] /\ b \in DOMAIN doc[item]
  BY <1>2, <1>3
<1>5. /\ t \in Seq(Seat) /\ Len(t) = b + 1 - a
      /\ \A i \in 1..(b + 1 - a) : t[i] = <<item, a + i - 1>>
  BY <1>1, <1>3, <1>4, SliceType
<1> DEFINE s == SubSeq(doc[item], a, b)
           u == Spelled(t)
<1>6. \A i \in a..b : doc[item][i] \in Kinds
  BY <1>2, <1>4
<1>7. /\ s \in Seq(Kinds) /\ Len(s) = IF a <= b THEN b - a + 1 ELSE 0
      /\ \A i \in 1..(b - a + 1) : s[i] = doc[item][a + i - 1]
  <2>1. a \in Int /\ b \in Int
    BY <1>4
  <2> HIDE DEF s
  <2>2. /\ SubSeq(doc[item], a, b) \in Seq(Kinds)
        /\ Len(SubSeq(doc[item], a, b)) = IF a <= b THEN b - a + 1 ELSE 0
        /\ \A i \in 1..b - a + 1 : SubSeq(doc[item], a, b)[i] = doc[item][a + i - 1]
    BY <1>6, <2>1, SubSeqProperties
  <2> QED
    BY <2>2 DEF s
<1>8. /\ DOMAIN u = 1..(b + 1 - a)
      /\ \A i \in 1..(b + 1 - a) : u[i] = doc[item][a + i - 1]
  <2>1. DOMAIN t = 1..(b + 1 - a)
    BY <1>4, <1>5
  <2>2. ASSUME NEW i \in 1..(b + 1 - a)
        PROVE  Kind(t[i]) = doc[item][a + i - 1]
    <3>1. t[i] = <<item, a + i - 1>> /\ item # 0
      BY <1>1, <1>5
    <3>2. t[i] # Space
      BY <3>1 DEF Space
    <3> QED
      BY <3>1, <3>2 DEF Kind
  <2> QED
    BY <2>1, <2>2 DEF Spelled
<1>9. u = s
  <2>1. u \in [1..(b + 1 - a) -> Kinds]
    <3>1. \A i \in 1..(b + 1 - a) : doc[item][a + i - 1] \in Kinds
      <4>1. ASSUME NEW i \in 1..(b + 1 - a)
            PROVE  a + i - 1 \in a..b
        BY <1>4
      <4> QED
        BY <1>6, <4>1
    <3>2. u = [i \in DOMAIN t |-> Kind(t[i])]
      BY DEF Spelled
    <3> HIDE DEF u
    <3> QED
      BY <1>8, <3>1, <3>2
  <2> HIDE DEF u, s
  <2>2. u \in Seq(Kinds) /\ Len(u) = b + 1 - a
    <3>1. b + 1 - a \in Nat
      BY <1>4
    <3> QED
      BY <2>1, <3>1
  <2>3. Len(s) = Len(u)
    BY <1>4, <1>7, <2>2
  <2>4. \A i \in 1..Len(u) : u[i] = s[i]
    BY <1>4, <1>7, <1>8, <2>2
  <2> QED
    BY <1>7, <2>2, <2>3, <2>4, SeqEqual
<1>10. Tokens(s) \in 0..MaxTokens * Len(s)
  BY <1>1, <1>4, TokenAssumption
<1>11. Len(s) = Len(t)
  BY <1>4, <1>5, <1>7
<1>12. MaxTokens * Len(t) \in Nat
  BY <1>4, <1>5, LimitAssumption
<1> HIDE DEF s, u
<1>13. Tokens(s) \in Nat /\ Tokens(s) <= MaxTokens * Len(t)
  BY <1>10, <1>11, <1>12
<1>14. CountTokens(t) = Tokens(s)
  BY <1>9 DEF CountTokens, u
<1> QED
  BY <1>4, <1>5, <1>13, <1>14

\* What a chunk has to be.
Good(c) ==
    /\ c.text \in Seq(Seat) /\ Inked(c.text) # {}
    /\ c.tokens = CountTokens(c.text) /\ c.tokens <= MaxTokens

Fitting ==
    /\ cut \in Nat \X Nat
    /\ pc # "split" => Held(text)
    /\ pc = "truncate" => text # <<>>
    /\ (pc = "place" /\ text # <<>>) => CountTokens(text) <= MaxTokens
    /\ \A i \in 1..Len(chunks) : Good(chunks[i])
    /\ \A i \in 1..Len(flat) : Good(flat[i].chunk)

\* The item in hand.
LEMMA ItemType ==
    ASSUME TypeOK
    PROVE  /\ item \in Nat \ {0} /\ Len(doc) \in Nat
           /\ item <= Len(doc) => item \in 1..Len(doc) /\ Len(doc[item]) \in Nat
<1>1. doc \in Seq(Seq(Kinds)) /\ item \in Nat \ {0} /\ Len(doc) \in Nat
  BY ContentAssumption DEF TypeOK
<1>2. ASSUME item <= Len(doc)
      PROVE  item \in 1..Len(doc) /\ Len(doc[item]) \in Nat
  BY <1>1, <1>2
<1> QED
  BY <1>1, <1>2

\* What is read of a text depends on the document alone.
LEMMA FittingFrame ==
    ASSUME UNCHANGED doc, cut' \in Nat \X Nat,
           pc' # "split" => UNCHANGED item /\ Held(text'),
           pc' = "truncate" => text' # <<>>,
           (pc' = "place" /\ text' # <<>>) => CountTokens(text') <= MaxTokens,
           \A i \in 1..Len(chunks') : Good(chunks'[i]),
           \A i \in 1..Len(flat') : Good(flat'[i].chunk)
    PROVE  Fitting'
<1>1. \A t : Kind(t)' = Kind(t)
  BY DEF Kind
<1>2. \A t : Inked(t)' = Inked(t) /\ CountTokens(t)' = CountTokens(t)
  BY <1>1 DEF Inked, CountTokens, Spelled
<1>3. UNCHANGED item => \A t : Held(t)' <=> Held(t)
  BY <1>2 DEF Held, Piece, Slice
<1>4. \A c : Good(c)' <=> Good(c)
  BY <1>2 DEF Good
<1> HIDE DEF Kind, Inked, CountTokens, Held, Good
<1>5. (pc # "split" => Held(text))'
  BY <1>3
<1>6. ((pc = "place" /\ text # <<>>) => CountTokens(text) <= MaxTokens)'
  BY <1>2
<1>7. (\A i \in 1..Len(chunks) : Good(chunks[i]))'
  BY <1>4
<1>8. (\A i \in 1..Len(flat) : Good(flat[i].chunk))'
  BY <1>4
<1> QED
  BY <1>5, <1>6, <1>7, <1>8 DEF Fitting

LEMMA SplitFits ==
    ASSUME TypeOK, Fitting, Split
    PROVE  Fitting'
<1>1. PICK first \in 1..(cut[2] + 1), last \in (cut[2] + 1)..Len(doc[item]) :
         cut' = <<first, last>> /\ text' = Strip(Slice(first, last))
  BY DEF Split
<1>2. /\ item <= Len(doc) /\ UNCHANGED <<doc, item, chunks, flat>>
      /\ pc' \in {"split", "truncate"}
  BY DEF Split
<1>3. item \in Nat /\ Len(doc[item]) \in Nat /\ cut[2] \in Nat
  BY <1>2, ItemType DEF Fitting
<1>4. /\ first \in Nat \ {0} /\ last \in Nat /\ first <= last + 1
      /\ last <= Len(doc[item])
  BY <1>1, <1>3
<1>5. Held(text')
  BY <1>1, <1>3, <1>4, StripSlice
<1>6. pc' = "truncate" => text' # <<>>
  BY DEF Split
<1>7. /\ \A i \in 1..Len(chunks') : Good(chunks'[i])
      /\ \A i \in 1..Len(flat') : Good(flat'[i].chunk)
  BY <1>2 DEF Fitting
<1>8. cut' \in Nat \X Nat
  BY <1>1, <1>4
<1> QED
  BY <1>2, <1>5, <1>6, <1>7, <1>8, FittingFrame

\* Taking a smaller share of a length keeps within it.
LEMMA Share ==
    ASSUME NEW length \in Nat, NEW limit \in Nat, NEW n \in Nat, n > limit
    PROVE  (length * limit) \div n \in 0..length
<1> DEFINE q == (length * limit) \div n
<1>1. length * limit \in Nat /\ n \in Nat \ {0}
  OBVIOUS
<1>2. q \in Int /\ n * q <= length * limit /\ length * limit < n * q + n
  BY <1>1
<1> HIDE DEF q
<1>3. CASE q > length
  <2>1. n * q >= n * (length + 1)
    BY <1>2, <1>3
  <2>2. n * (length + 1) = n * length + n
    OBVIOUS
  <2>3. n * length >= limit * length
    OBVIOUS
  <2> QED
    BY <1>1, <1>2, <2>1, <2>2, <2>3
<1>4. CASE q < 0
  <2>1. n * q <= n * (-1)
    BY <1>1, <1>2, <1>4
  <2> QED
    BY <1>1, <1>2, <2>1
<1> QED
  BY <1>2, <1>3, <1>4 DEF q

LEMMA TruncateFits ==
    ASSUME TypeOK, Fitting, Truncate \/ Shrink
    PROVE  Fitting'
<1>1. pc # "split" /\ UNCHANGED <<doc, item, cut, chunks, flat>>
  BY DEF Truncate, Shrink
<1>2. /\ item \in 1..Len(doc) /\ item \in Nat /\ Len(doc[item]) \in Nat /\ doc \in Documents
      /\ Held(text)
  BY <1>1, ItemType DEF TypeOK, Fitting
<1>3. text # <<>> => CountTokens(text) \in Nat /\ Len(text) \in Nat
  BY <1>2, PieceCount DEF Held
<1>4. Len(<<>>) = 0
  BY EmptySeq
<1>5. MaxTokens \in Nat
  BY LimitAssumption
<1>6. ASSUME Held(text'), pc' # "truncate",
             (pc' = "place" /\ text' # <<>>) => CountTokens(text') <= MaxTokens
      PROVE  Fitting'
  <2>1. /\ cut' \in Nat \X Nat
        /\ \A i \in 1..Len(chunks') : Good(chunks'[i])
        /\ \A i \in 1..Len(flat') : Good(flat'[i].chunk)
    BY <1>1 DEF Fitting
  <2> QED
    BY <1>1, <1>6, <2>1, FittingFrame
<1>7. CASE Truncate
  <2>1. CASE CountTokens(text) <= MaxTokens /\ UNCHANGED text /\ pc' = "place"
    BY <1>2, <1>6, <2>1
  <2>2. CASE /\ CountTokens(text) > MaxTokens /\ pc' = "shrink"
             /\ text' = Prefix(text, (Len(text) * MaxTokens) \div CountTokens(text))
    <3>1. text # <<>>
      BY <1>7 DEF Truncate, Fitting
    <3>2. (Len(text) * MaxTokens) \div CountTokens(text) \in 0..Len(text)
      BY <1>3, <1>5, <2>2, <3>1, Share
    <3>3. Held(text')
      BY <1>2, <2>2, <3>2, PrefixHeld
    <3> QED
      BY <1>6, <2>2, <3>3
  <2> QED
    BY <1>7, <2>1, <2>2 DEF Truncate
<1>8. CASE Shrink
  <2>1. CASE CountTokens(text) > MaxTokens /\ text # <<>>
    <3>1. text' = Prefix(text, (Len(text) * 19) \div 20) /\ pc' = "shrink"
      BY <1>8, <2>1 DEF Shrink
    <3>2. (Len(text) * 19) \div 20 \in 0..Len(text)
      BY <1>3, <2>1
    <3>3. Held(text')
      BY <1>2, <3>1, <3>2, PrefixHeld
    <3> QED
      BY <1>6, <3>1, <3>3
  <2>2. CASE ~(CountTokens(text) > MaxTokens /\ text # <<>>)
    <3>1. UNCHANGED text /\ pc' = "place"
      BY <1>8, <2>2 DEF Shrink
    <3>2. text # <<>> => CountTokens(text) <= MaxTokens
      BY <1>3, <1>5, <2>2
    <3> QED
      BY <1>2, <1>6, <3>1, <3>2
  <2> QED
    BY <2>1, <2>2
<1> QED
  BY <1>7, <1>8

LEMMA PlaceFits ==
    ASSUME TypeOK, Ranked, Fitting, Place
    PROVE  Fitting'
<1>1. pc = "place" /\ pc' = "split" /\ UNCHANGED <<doc, item, cut, text, flat>>
  BY DEF Place
<1>2. PICK S : chunks \in Seq(S)
  BY DEF Ranked
<1>3. Len(chunks) \in Nat /\ DOMAIN chunks = 1..Len(chunks)
  BY <1>2
<1>4. ASSUME \A i \in 1..Len(chunks') : Good(chunks'[i])
      PROVE  Fitting'
  <2>1. cut' \in Nat \X Nat /\ \A i \in 1..Len(flat') : Good(flat'[i].chunk)
    BY <1>1 DEF Fitting
  <2> QED
    BY <1>1, <1>4, <2>1, FittingFrame
<1>5. CASE text = <<>>
  <2>1. chunks' = chunks
    BY <1>5 DEF Place
  <2> QED
    BY <1>4, <2>1 DEF Fitting
<1>6. CASE text # <<>>
  <2>1. Piece(text) /\ CountTokens(text) <= MaxTokens /\ Inked(text) # {}
    BY <1>1, <1>6 DEF Fitting, Held, Piece
  <2>2. text \in Seq(Seat) /\ Len(text) \in Nat
    <3>1. doc \in Documents /\ item \in 1..Len(doc)
      BY <1>1, ItemType DEF TypeOK
    <3> QED
      BY <2>1, <3>1, PieceCount
  <2>3. CASE Mergeable
    <3> DEFINE last == Len(chunks)
               old  == chunks[last].text
               c    == Chunk(Merged, chunks[last].index)
    <3>1. last \in 1..Len(chunks) /\ CountTokens(Merged) <= MaxTokens
      BY <1>2, <1>3, <2>3 DEF Mergeable
    <3>2. old \in Seq(Seat)
      BY <3>1 DEF Fitting, Good
    <3>3. Merged = old \o <<Space>> \o text
      BY DEF Merged
    <3> HIDE DEF old
    <3>4. <<Space>> \in Seq(Seat) /\ Len(<<Space>>) = 1
      BY DEF Space, Seat
    <3>5. /\ old \o <<Space>> \in Seq(Seat) /\ Len(old \o <<Space>>) = Len(old) + 1
          /\ Len(old) \in Nat
      BY <3>2, <3>4, ConcatProperties
    <3> DEFINE front == old \o <<Space>>
    <3> HIDE DEF front
    <3>6. /\ front \o text \in Seq(Seat)
          /\ Len(front \o text) = Len(front) + Len(text)
          /\ \A i \in 1..(Len(front) + Len(text)) :
               (front \o text)[i] = IF i <= Len(front) THEN front[i] ELSE text[i - Len(front)]
      BY <2>2, <3>5, ConcatProperties, Zenon DEF front
    <3>7. Len(front) \in Nat
      BY <3>5 DEF front
    <3>8. Merged = front \o text
      BY <3>3 DEF front
    <3>9. Inked(Merged) # {}
      <4>1. PICK k \in Inked(text) : TRUE
        BY <2>1
      <4>2. k \in 1..Len(text) /\ Kind(text[k]) # Blank
        BY <2>2, <4>1 DEF Inked
      <4>3. Len(front) + k \in 1..(Len(front) + Len(text)) /\ ~(Len(front) + k <= Len(front))
            /\ Len(front) + k - Len(front) = k
        BY <2>2, <3>7, <4>2
      <4>4. (front \o text)[Len(front) + k] = text[k]
        <5>1. \A i \in 1..(Len(front) + Len(text)) :
                ~(i <= Len(front)) => (front \o text)[i] = text[i - Len(front)]
          BY <3>6
        <5> DEFINE j == Len(front) + k
        <5>2. j \in 1..(Len(front) + Len(text)) /\ ~(j <= Len(front)) /\ j - Len(front) = k
          BY <2>2, <3>7, <4>2
        <5> HIDE DEF j
        <5>3. (front \o text)[j] = text[k]
          BY <5>1, <5>2
        <5> QED
          BY <5>3 DEF j
      <4>5. Len(front) + k \in DOMAIN (front \o text)
        BY <3>6, <4>3
      <4> QED
        BY <3>8, <4>2, <4>4, <4>5 DEF Inked
    <3>10. Good(c)
      BY <3>1, <3>6, <3>8, <3>9 DEF Good, Chunk
    <3>11. chunks' = [chunks EXCEPT ![last] = c]
      BY <1>6, <2>3 DEF Place
    <3> HIDE DEF c
    <3>12. chunks \in Seq(S \cup {c}) /\ c \in S \cup {c}
      BY <1>2, SeqMonotonic
    <3>13. chunks' \in Seq(S \cup {c}) /\ Len(chunks') = Len(chunks)
      BY <3>1, <3>11, <3>12, ExceptSeq
    <3>14. \A i \in 1..Len(chunks) : chunks'[i] = c \/ chunks'[i] = chunks[i]
      BY <1>3, <3>11
    <3> QED
      BY <1>4, <3>10, <3>13, <3>14 DEF Fitting
  <2>4. CASE ~Mergeable
    <3> DEFINE c == Chunk(text, Len(chunks))
    <3>1. Good(c)
      BY <2>1, <2>2 DEF Good, Chunk
    <3>2. chunks' = Append(chunks, c)
      BY <1>6, <2>4 DEF Place
    <3> HIDE DEF c
    <3>3. chunks \in Seq(S \cup {c}) /\ c \in S \cup {c}
      BY <1>2, SeqMonotonic
    <3>4. /\ Len(chunks') = Len(chunks) + 1
          /\ \A i \in 1..Len(chunks) : chunks'[i] = chunks[i]
          /\ chunks'[Len(chunks) + 1] = c
      BY <3>2, <3>3, AppendProperties
    <3> QED
      BY <1>3, <1>4, <3>1, <3>4 DEF Fitting
  <2> QED
    BY <2>3, <2>4
<1> QED
  BY <1>5, <1>6

LEMMA EndFits ==
    ASSUME TypeOK, Ranked, Collected, Fitting, EndItem
    PROVE  Fitting'
<1>1. /\ pc' = "split" /\ cut' = <<0, 0>> /\ UNCHANGED doc /\ chunks' = <<>>
  BY DEF EndItem
<1>2. /\ Len(flat) \in Nat /\ Len(chunks) \in Nat
      /\ Len(flat') = Len(flat) + Len(chunks)
      /\ \A i \in 1..Len(flat) : flat'[i] = flat[i]
      /\ \A i \in 1..Len(chunks) : flat'[Len(flat) + i] = [item |-> item, chunk |-> chunks[i]]
  BY EndFlat
<1>3. ASSUME NEW i \in 1..Len(flat')
      PROVE  Good(flat'[i].chunk)
  <2>1. CASE i <= Len(flat)
    BY <1>2, <2>1 DEF Fitting
  <2>2. CASE i > Len(flat)
    <3>1. i - Len(flat) \in 1..Len(chunks) /\ i = Len(flat) + (i - Len(flat))
      BY <1>2, <2>2
    <3>2. flat'[i] = [item |-> item, chunk |-> chunks[i - Len(flat)]]
      BY <1>2, <3>1
    <3>3. flat'[i].chunk = chunks[i - Len(flat)]
      BY <3>2
    <3> QED
      BY <3>1, <3>3 DEF Fitting
  <2> QED
    BY <1>2, <2>1, <2>2
<1>5. Len(chunks') = 0
  BY <1>1, EmptySeq
<1>6. cut' \in Nat \X Nat
  BY <1>1
<1> QED
  BY <1>1, <1>3, <1>5, <1>6, FittingFrame

LEMMA FittingStep == Inv /\ Fitting /\ [Next]_vars => Fitting'
<1> SUFFICES ASSUME Inv, Fitting, [Next]_vars
             PROVE  Fitting'
  OBVIOUS
<1>1. TypeOK /\ Ranked /\ Collected
  BY DEF Inv
<1>2. CASE UNCHANGED vars
  <2>1. UNCHANGED <<doc, item, cut, text, chunks, flat, pc>>
    BY <1>2 DEF vars
  <2>2. /\ cut' \in Nat \X Nat
        /\ pc' # "split" => Held(text')
        /\ pc' = "truncate" => text' # <<>>
        /\ (pc' = "place" /\ text' # <<>>) => CountTokens(text') <= MaxTokens
        /\ \A i \in 1..Len(chunks') : Good(chunks'[i])
        /\ \A i \in 1..Len(flat') : Good(flat'[i].chunk)
    BY <2>1 DEF Fitting
  <2> QED
    BY <2>1, <2>2, FittingFrame
<1> QED
  BY <1>1, <1>2, SplitFits, TruncateFits, PlaceFits, EndFits DEF Next

LEMMA FittingInit == Init => Fitting
<1>1. Len(<<>>) = 0
  BY EmptySeq
<1> QED
  BY <1>1 DEF Init, Fitting

\* Every chunk is visible text within the limit of the model, and its recorded
\* count is its own, whatever the tokenizer counts and however texts are merged.
THEOREM ChunksFit == Spec => []Fits
<1>1. Inv /\ Fitting => Fits
  <2> SUFFICES ASSUME Collected, Fitting, NEW i \in DOMAIN flat
               PROVE  /\ Inked(flat[i].chunk.text) # {}
                      /\ flat[i].chunk.tokens = CountTokens(flat[i].chunk.text)
                      /\ flat[i].chunk.tokens <= MaxTokens
    BY DEF Inv, Fits
  <2>1. i \in 1..Len(flat)
    BY DEF Collected
  <2> QED
    BY <2>1 DEF Fitting, Good
<1> QED
  BY <1>1, InvInit, InvStep, FittingInit, FittingStep, PTL DEF Spec

=============================================================================
