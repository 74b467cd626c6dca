-------------------------- MODULE ChunkerCoverProofs --------------------------
(***************************************************************************)
(* What the chunks of a document hold between them, for any documents, limits *)
(* and cuts of the splitter.  Covered says where the ink of the item in hand   *)
(* is, up to the last cut: in a chunk, in the piece in hand, or in a piece     *)
(* that was over the limit; and that such a piece starts with ink and keeps    *)
(* its first character, however often it is shortened.                        *)
(***************************************************************************)
EXTENDS ChunkerProofs

\* A stretch of the item in hand that starts with ink.
Leads(t) ==
    \E a, b \in 1..Len(doc[item]) : a <= b /\ t = Slice(a, b) /\ doc[item][a] # Blank

Within(p, t)     == \E k \in 1..Len(t) : t[k] = p
Among(p, cs)     == \E j \in 1..Len(cs) : Within(p, cs[j].text)
AmongFlat(p, fs) == \E j \in 1..Len(fs) : Within(p, fs[j].chunk.text)

InkAt(i) == {c \in 1..Len(doc[i]) : doc[i][c] # Blank}

Past(i) ==
    \A c \in InkAt(i) :
        /\ AmongFlat(<<i, c>>, flat) \/ <<i, c>> \in capped
        /\ \E e \in InkAt(i) : AmongFlat(<<i, e>>, flat)

Current ==
    \A c \in InkAt(item) : c <= cut[2] =>
        /\ \/ Among(<<item, c>>, chunks) \/ <<item, c>> \in capped
           \/ pc \in {"truncate", "place"} /\ Within(<<item, c>>, text)
        /\ pc # "split" \/ \E e \in InkAt(item) : Among(<<item, e>>, chunks)

Covered ==
    /\ pc # "split" => Leads(text)
    /\ \A i \in 1..Len(doc) : i < item => Past(i)
    /\ item <= Len(doc) => Current

-----------------------------------------------------------------------------
\* What stripping a stretch leaves.

\* The places of a stretch, and their kinds.
LEMMA SliceKinds ==
    ASSUME item \in Nat \ {0}, NEW a \in Nat \ {0}, NEW b \in Nat, a <= b + 1
    PROVE  /\ Slice(a, b) \in Seq(Seat) /\ Len(Slice(a, b)) = b + 1 - a
           /\ \A i \in 1..(b + 1 - a) :
                 /\ Slice(a, b)[i] = <<item, a + i - 1>>
                 /\ Kind(Slice(a, b)[i]) = doc[item][a + i - 1]
           /\ Inked(Slice(a, b)) = {i \in 1..(b + 1 - a) : doc[item][a + i - 1] # Blank}
<1> DEFINE t == Slice(a, b)
<1>1. /\ t \in Seq(Seat) /\ Len(t) = b + 1 - a
      /\ \A i \in 1..(b + 1 - a) : t[i] = <<item, a + i - 1>>
  BY SliceType
<1> HIDE DEF t
<1>2. ASSUME NEW i \in 1..(b + 1 - a)
      PROVE  Kind(t[i]) = doc[item][a + i - 1]
  <2>1. t[i] = <<item, a + i - 1>> /\ item # 0
    BY <1>1
  <2>2. t[i] # Space
    BY <2>1 DEF Space
  <2> QED
    BY <2>1, <2>2 DEF Kind
<1>3. DOMAIN t = 1..(b + 1 - a)
  BY <1>1
<1>4. Inked(t) = {i \in 1..(b + 1 - a) : doc[item][a + i - 1] # Blank}
  BY <1>2, <1>3 DEF Inked
<1> QED
  BY <1>1, <1>2, <1>4 DEF t

\* A place of a stretch is one of its characters.
LEMMA SliceWithin ==
    ASSUME item \in Nat \ {0}, NEW a \in Nat \ {0}, NEW b \in Nat, NEW c \in a..b
    PROVE  Within(<<item, c>>, Slice(a, b))
<1>1. c + 1 - a \in 1..(b + 1 - a) /\ a + (c + 1 - a) - 1 = c /\ a <= b + 1
  OBVIOUS
<1> DEFINE k == c + 1 - a
<1>2. k \in 1..(b + 1 - a) /\ a + k - 1 = c
  BY <1>1
<1> HIDE DEF k
<1>3. Len(Slice(a, b)) = b + 1 - a /\ Slice(a, b)[k] = <<item, a + k - 1>>
  BY <1>1, <1>2, SliceType
<1> QED
  BY <1>2, <1>3 DEF Within

\* The first places of a stretch are a stretch.
LEMMA SliceHead ==
    ASSUME item \in Nat \ {0}, NEW a \in Nat \ {0}, NEW b \in Nat,
           NEW k \in 1..(b + 1 - a)
    PROVE  SubSeq(Slice(a, b), 1, k) = Slice(a, a + k - 1)
<1>1. item \in Nat
  OBVIOUS
<1>2. a <= b + 1
  OBVIOUS
<1>3. 1 \in Nat \ {0}
  OBVIOUS
<1>4. k \in 0..(b + 1 - a)
  OBVIOUS
<1>5. 1 <= k + 1
  OBVIOUS
<1>6. SubSeq(Slice(a, b), 1, k) = Slice(a + 1 - 1, a + k - 1)
  BY <1>1, <1>2, <1>3, <1>4, <1>5, SliceOfSlice, Zenon
<1>7. a + 1 - 1 = a
  OBVIOUS
<1> QED
  BY <1>6, <1>7

\* str.rstrip of a stretch with ink ends at its last ink.
LEMMA RStripInk ==
    ASSUME item \in Nat \ {0}, NEW a \in Nat \ {0}, NEW b \in Nat,
           NEW c \in a..b, doc[item][c] # Blank
    PROVE  \E e \in c..b : /\ RStrip(Slice(a, b)) = Slice(a, e)
                           /\ \A d \in a..b : doc[item][d] # Blank => d <= e
<1> DEFINE t == Slice(a, b)
           n == b + 1 - a
<1>1. a <= b + 1 /\ n \in Nat
  OBVIOUS
<1>2. Inked(t) = {i \in 1..n : doc[item][a + i - 1] # Blank}
  BY <1>1, SliceKinds
<1> HIDE DEF t
<1>3. ASSUME NEW d \in a..b, doc[item][d] # Blank
      PROVE  d + 1 - a \in Inked(t)
  <2>1. d + 1 - a \in 1..n /\ a + (d + 1 - a) - 1 = d
    OBVIOUS
  <2> QED
    BY <1>2, <1>3, <2>1
<1>4. Inked(t) # {} /\ Inked(t) \in SUBSET (1..n)
  BY <1>2, <1>3
<1> DEFINE k == CHOOSE j \in Inked(t) : \A i \in Inked(t) : i <= j
<1> HIDE DEF n
<1>5. \E j \in Inked(t) : \A i \in Inked(t) : i <= j
  BY <1>1, <1>4, FirstAndLast
<1>6. k \in Inked(t) /\ \A i \in Inked(t) : i <= k
  BY <1>5
<1>7. RStrip(t) = SubSeq(t, 1, k)
  BY <1>4 DEF RStrip
<1> HIDE DEF k
<1> USE DEF n
<1>8. k \in 1..n
  BY <1>4, <1>6
<1>9. SubSeq(t, 1, k) = Slice(a, a + k - 1)
  <2>1. k \in 1..(b + 1 - a)
    BY <1>8
  <2> QED
    BY <2>1, SliceHead DEF t
<1>10. ASSUME NEW d \in a..b, doc[item][d] # Blank
       PROVE  d <= a + k - 1
  <2>1. d + 1 - a <= k
    BY <1>3, <1>6, <1>10
  <2> QED
    BY <1>8, <2>1
<1>11. a + k - 1 \in c..b
  BY <1>8, <1>10
<1> QED
  BY <1>7, <1>9, <1>10, <1>11 DEF t

\* str.strip of a stretch keeps all of its ink and starts with it.
LEMMA StripInk ==
    ASSUME item \in Nat \ {0}, NEW a \in Nat \ {0}, NEW b \in Nat,
           NEW c \in a..b, doc[item][c] # Blank
    PROVE  \E f, e \in a..b :
              /\ f <= e /\ doc[item][f] # Blank
              /\ Strip(Slice(a, b)) = Slice(f, e)
              /\ \A d \in a..b : doc[item][d] # Blank => d \in f..e
<1> DEFINE t == Slice(a, b)
           n == b + 1 - a
<1>1. a <= b + 1 /\ n \in Nat
  OBVIOUS
<1>2. /\ Inked(t) = {i \in 1..n : doc[item][a + i - 1] # Blank}
      /\ Len(t) = n
  BY <1>1, SliceKinds
<1> HIDE DEF t
<1>3. ASSUME NEW d \in a..b, doc[item][d] # Blank
      PROVE  d + 1 - a \in Inked(t)
  <2>1. d + 1 - a \in 1..n /\ a + (d + 1 - a) - 1 = d
    OBVIOUS
  <2> QED
    BY <1>2, <1>3, <2>1
<1>4. Inked(t) # {} /\ Inked(t) \in SUBSET (1..n)
  BY <1>2, <1>3
<1> DEFINE k == CHOOSE j \in Inked(t) : \A i \in Inked(t) : j <= i
<1> HIDE DEF n
<1>5. \E j \in Inked(t) : \A i \in Inked(t) : j <= i
  BY <1>1, <1>4, FirstAndLast
<1>6. k \in Inked(t) /\ \A i \in Inked(t) : k <= i
  BY <1>5
<1>7. Strip(t) = RStrip(SubSeq(t, k, Len(t)))
  BY <1>4 DEF Strip
<1> HIDE DEF k
<1> USE DEF n
<1>8. k \in 1..n /\ doc[item][a + k - 1] # Blank
  BY <1>2, <1>4, <1>6
<1> DEFINE f == a + k - 1
<1>9. f \in a..b /\ f \in Nat \ {0} /\ doc[item][f] # Blank /\ f \in f..b
  BY <1>8
<1>10. SubSeq(t, k, Len(t)) = Slice(f, b)
  <2>1. k \in Nat \ {0} /\ n \in 0..(b + 1 - a) /\ k <= n + 1 /\ n \in Nat
    BY <1>1, <1>8
  <2>2. SubSeq(t, k, n) = Slice(a + k - 1, a + n - 1)
    <3> HIDE DEF n
    <3>1. \A i \in 0..(b + 1 - a) :
            k <= i + 1 => SubSeq(Slice(a, b), k, i) = Slice(a + k - 1, a + i - 1)
      BY <1>1, <2>1, SliceOfSlice
    <3> QED
      BY <2>1, <3>1 DEF t
  <2>3. a + n - 1 = b
    OBVIOUS
  <2> QED
    BY <1>2, <2>2, <2>3
<1>11. ASSUME NEW d \in a..b, doc[item][d] # Blank
       PROVE  f <= d
  <2>1. k <= d + 1 - a
    BY <1>3, <1>6, <1>11
  <2> QED
    BY <1>8, <2>1
<1> HIDE DEF f
<1>12. PICK e \in f..b : /\ RStrip(Slice(f, b)) = Slice(f, e)
                         /\ \A d \in f..b : doc[item][d] # Blank => d <= e
  BY <1>9, RStripInk
<1>13. e \in a..b /\ f <= e
  BY <1>9, <1>12
<1>14. ASSUME NEW d \in a..b, doc[item][d] # Blank
       PROVE  d \in f..e
  <2>1. f <= d /\ d \in f..b
    BY <1>9, <1>11, <1>14
  <2>2. d <= e
    BY <1>12, <1>14, <2>1
  <2> QED
    BY <1>9, <1>13, <2>1, <2>2
<1> QED
  BY <1>7, <1>9, <1>10, <1>12, <1>13, <1>14 DEF t

\* str.strip of a stretch of blanks is the empty text.
LEMMA StripNone ==
    ASSUME item \in Nat \ {0}, NEW a \in Nat \ {0}, NEW b \in Nat, a <= b + 1,
           \A c \in a..b : doc[item][c] = Blank
    PROVE  Strip(Slice(a, b)) = <<>>
<1>1. Inked(Slice(a, b)) = {i \in 1..(b + 1 - a) : doc[item][a + i - 1] # Blank}
  BY SliceKinds
<1>2. ASSUME NEW i \in 1..(b + 1 - a)
      PROVE  doc[item][a + i - 1] = Blank
  <2>1. a + i - 1 \in a..b
    OBVIOUS
  <2> QED
    BY <2>1
<1>3. Inked(Slice(a, b)) = {}
  BY <1>1, <1>2
<1> QED
  BY <1>3 DEF Strip

LEMMA LeadsPiece ==
    ASSUME item \in Nat \ {0}, Len(doc[item]) \in Nat, NEW t, Leads(t)
    PROVE  Piece(t)
<1>1. PICK a \in 1..Len(doc[item]), b \in 1..Len(doc[item]) :
         a <= b /\ t = Slice(a, b) /\ doc[item][a] # Blank
  BY DEF Leads
<1>2. a \in Nat \ {0} /\ b \in Nat /\ a <= b + 1 /\ 1 \in 1..(b + 1 - a) /\ a + 1 - 1 = a
  BY <1>1
<1>3. Inked(t) = {i \in 1..(b + 1 - a) : doc[item][a + i - 1] # Blank}
  BY <1>1, <1>2, SliceKinds
<1>4. 1 \in Inked(t)
  BY <1>1, <1>2, <1>3
<1> QED
  BY <1>1, <1>4 DEF Piece

\* A piece that is shortened, but not to nothing, still starts with its ink.
LEMMA PrefixLeads ==
    ASSUME item \in Nat \ {0}, Len(doc[item]) \in Nat,
           NEW t, Leads(t), NEW n \in 1..Len(t)
    PROVE  Leads(Prefix(t, n))
<1>1. PICK a \in 1..Len(doc[item]), b \in 1..Len(doc[item]) :
         a <= b /\ t = Slice(a, b) /\ doc[item][a] # Blank
  BY DEF Leads
<1>2. a \in Nat \ {0} /\ b \in Nat /\ a <= b + 1 /\ b <= Len(doc[item])
  BY <1>1
<1>3. Len(t) = b + 1 - a
  BY <1>1, <1>2, SliceType
<1>4. 1 \in Nat \ {0} /\ n \in 0..(b + 1 - a) /\ 1 <= n + 1 /\ n \in 1..(b + 1 - a)
  BY <1>2, <1>3
<1> DEFINE e == a + n - 1
<1>5. SubSeq(t, 1, n) = Slice(a, e)
  <2>1. SubSeq(Slice(a, b), 1, n) = Slice(a + 1 - 1, a + n - 1)
    BY <1>2, <1>4, SliceOfSlice
  <2>2. a + 1 - 1 = a
    BY <1>2
  <2> QED
    BY <1>1, <2>1, <2>2
<1>6. e \in Nat /\ e <= b /\ a \in a..e
  BY <1>2, <1>4
<1> HIDE DEF e
<1>7. PICK l \in a..e : RStrip(Slice(a, e)) = Slice(a, l)
  BY <1>1, <1>2, <1>6, RStripInk
<1>8. l \in 1..Len(doc[item]) /\ a <= l
  BY <1>2, <1>6, <1>7
<1>9. Prefix(t, n) = Slice(a, l)
  BY <1>5, <1>7 DEF Prefix
<1> QED
  BY <1>1, <1>8, <1>9 DEF Leads

\* Neither the estimate nor a turn of the loop leaves no character.
LEMMA ShareLeft ==
    ASSUME NEW length \in Nat, NEW limit \in Nat, NEW n \in Nat,
           n > limit, n <= limit * length
    PROVE  (length * limit) \div n \in 1..length
<1> DEFINE q == (length * limit) \div n
<1>1. q \in 0..length
  BY Share
<1>2. n > 0 /\ length * limit = limit * length
  OBVIOUS
<1>3. length * limit < n * q + n
  BY <1>2
<1> HIDE DEF q
<1>4. q # 0
  BY <1>2, <1>3
<1> QED
  BY <1>1, <1>4 DEF q

LEMMA TurnLeft ==
    ASSUME NEW length \in Nat, NEW limit \in Nat, NEW n \in Nat,
           n > limit, n <= limit * length
    PROVE  (length * 19) \div 20 \in 1..length
<1>1. length # 0 /\ length # 1
  OBVIOUS
<1> QED
  BY <1>1

-----------------------------------------------------------------------------
\* Each action keeps what is covered.

\* For an action that stays with its item, what is left to show.
LEMMA SameItem ==
    ASSUME Covered, UNCHANGED <<doc, item, flat>>, capped \subseteq capped',
           pc' # "split" => Leads(text'),
           item <= Len(doc) =>
             \A c \in InkAt(item) : c <= cut'[2] =>
               /\ \/ Among(<<item, c>>, chunks') \/ <<item, c>> \in capped'
                  \/ pc' \in {"truncate", "place"} /\ Within(<<item, c>>, text')
               /\ pc' # "split" \/ \E e \in InkAt(item) : Among(<<item, e>>, chunks')
    PROVE  Covered'
<1>1. \A t : Leads(t)' <=> Leads(t)
  BY DEF Leads, Slice
<1>2. \A i : InkAt(i)' = InkAt(i)
  BY DEF InkAt
<1> HIDE DEF Leads, InkAt
<1>3. (pc # "split" => Leads(text))'
  BY <1>1
<1>4. ASSUME NEW i \in 1..Len(doc), i < item
      PROVE  Past(i)'
  <2>1. Past(i)
    BY <1>4 DEF Covered
  <2> QED
    BY <1>2, <2>1 DEF Past
<1>5. (item <= Len(doc) => Current)'
  BY <1>2 DEF Current
<1> QED
  BY <1>3, <1>4, <1>5 DEF Covered

\* What the splitter cuts is in hand: nothing between two cuts is left out.
LEMMA SplitCovers ==
    ASSUME TypeOK, Fitting, Covered, Split
    PROVE  Covered'
<1>1. PICK first \in 1..(cut[2] + 1), last \in (cut[2] + 1)..Len(doc[item]) :
         cut' = <<first, last>> /\ text' = Strip(Slice(first, last))
  BY DEF Split
<1>2. /\ item <= Len(doc) /\ UNCHANGED <<doc, item, chunks, flat, capped>>
      /\ pc = "split" /\ pc' = IF text' = <<>> THEN "split" ELSE "truncate"
  BY DEF Split
<1>3. item \in Nat \ {0} /\ Len(doc[item]) \in Nat /\ cut[2] \in Nat
  BY <1>2, ItemType DEF Fitting
<1>4. /\ first \in Nat \ {0} /\ last \in Nat /\ first <= last + 1
      /\ last <= Len(doc[item]) /\ cut'[2] = last
  BY <1>1, <1>3
\* What was covered stays so.
<1>5. ASSUME NEW c \in InkAt(item), c <= cut[2]
      PROVE  /\ Among(<<item, c>>, chunks) \/ <<item, c>> \in capped
             /\ \E e \in InkAt(item) : Among(<<item, e>>, chunks)
  BY <1>2, <1>5 DEF Covered, Current
<1>6. ASSUME NEW c \in InkAt(item), ~(c <= cut[2]), c <= last
      PROVE  c \in first..last /\ doc[item][c] # Blank
  <2>1. c \in 1..Len(doc[item]) /\ doc[item][c] # Blank
    BY DEF InkAt
  <2> QED
    BY <1>1, <1>3, <1>4, <1>6, <2>1
<1>7. CASE \E c \in first..last : doc[item][c] # Blank
  <2>1. PICK c \in first..last : doc[item][c] # Blank
    BY <1>7
  <2>2. PICK f, e \in first..last :
           /\ f <= e /\ doc[item][f] # Blank
           /\ Strip(Slice(first, last)) = Slice(f, e)
           /\ \A d \in first..last : doc[item][d] # Blank => d \in f..e
    <3>1. first \in Nat \ {0} /\ last \in Nat /\ c \in first..last
      BY <1>4
    <3> QED
      BY <1>3, <2>1, <3>1, StripInk, Zenon
  <2>3. /\ f \in Nat \ {0} /\ e \in Nat /\ f <= e + 1
        /\ f \in 1..Len(doc[item]) /\ e \in 1..Len(doc[item])
    BY <1>4, <2>2
  <2>4. text' = Slice(f, e)
    BY <1>1, <2>2
  <2>5. Leads(text')
    BY <2>2, <2>3, <2>4 DEF Leads
  <2>6. text' # <<>>
    <3>1. Len(Slice(f, e)) = e + 1 - f
      BY <1>3, <2>3, SliceType
    <3>2. Len(<<>>) = 0
      BY EmptySeq
    <3> QED
      BY <2>2, <2>3, <2>4, <3>1, <3>2
  <2>7. pc' = "truncate"
    BY <1>2, <2>6
  <2>8. ASSUME NEW d \in InkAt(item), d <= last
        PROVE  Among(<<item, d>>, chunks') \/ <<item, d>> \in capped'
               \/ Within(<<item, d>>, text')
    <3>1. CASE d <= cut[2]
      BY <1>2, <1>5, <3>1
    <3>2. CASE ~(d <= cut[2])
      <4>1. d \in f..e
        BY <1>6, <2>2, <2>8, <3>2
      <4> QED
        BY <1>3, <2>3, <2>4, <4>1, SliceWithin
    <3> QED
      BY <3>1, <3>2
  <2> QED
    BY <1>2, <1>4, <2>5, <2>7, <2>8, SameItem
<1>8. CASE \A c \in first..last : doc[item][c] = Blank
  <2>1. text' = <<>> /\ pc' = "split"
    BY <1>1, <1>2, <1>3, <1>4, <1>8, StripNone
  <2>2. ASSUME NEW c \in InkAt(item), c <= last
        PROVE  c <= cut[2]
    BY <1>6, <1>8, <2>2
  <2>3. ASSUME NEW c \in InkAt(item), c <= cut'[2]
        PROVE  /\ Among(<<item, c>>, chunks') \/ <<item, c>> \in capped'
               /\ \E e \in InkAt(item) : Among(<<item, e>>, chunks')
    BY <1>2, <1>4, <1>5, <2>2, <2>3
  <2> QED
    BY <1>2, <2>1, <2>3, SameItem
<1> QED
  BY <1>7, <1>8

\* A piece over the limit is noted before it is shortened, and never vanishes.
LEMMA TruncateCovers ==
    ASSUME TypeOK, Fitting, Covered, Truncate \/ Shrink
    PROVE  Covered'
<1>1. /\ pc \in {"truncate", "shrink"} /\ UNCHANGED <<doc, item, cut, chunks, flat>>
      /\ pc' \in {"shrink", "place"}
  BY DEF Truncate, Shrink
<1>2. /\ item \in 1..Len(doc) /\ item \in Nat \ {0} /\ Len(doc[item]) \in Nat
      /\ doc \in Documents /\ Leads(text) /\ item <= Len(doc)
  BY <1>1, ItemType DEF TypeOK, Covered
<1>3. /\ CountTokens(text) \in Nat /\ CountTokens(text) <= MaxTokens * Len(text)
      /\ text \in Seq(Seat) /\ Len(text) \in Nat \ {0}
  BY <1>2, LeadsPiece, PieceCount
<1>4. MaxTokens \in Nat
  BY LimitAssumption
<1>5. text # <<>>
  BY <1>3, EmptySeq
<1>6. ASSUME NEW c \in InkAt(item), c <= cut[2]
      PROVE  \/ Among(<<item, c>>, chunks) \/ <<item, c>> \in capped
             \/ pc = "truncate" /\ Within(<<item, c>>, text)
  BY <1>1, <1>2, <1>6 DEF Covered, Current
<1>7. CASE Truncate /\ CountTokens(text) <= MaxTokens
  <2>1. UNCHANGED <<text, capped>> /\ pc' = "place"
    BY <1>3, <1>4, <1>7 DEF Truncate
  <2>2. ASSUME NEW c \in InkAt(item), c <= cut'[2]
        PROVE  \/ Among(<<item, c>>, chunks') \/ <<item, c>> \in capped'
               \/ Within(<<item, c>>, text')
    BY <1>1, <1>6, <2>1, <2>2
  <2> QED
    BY <1>1, <1>2, <2>1, <2>2, SameItem
<1>8. CASE Truncate /\ CountTokens(text) > MaxTokens
  <2> DEFINE n == (Len(text) * MaxTokens) \div CountTokens(text)
  <2>1. text' = Prefix(text, n) /\ capped' = capped \cup Places(text) /\ pc' = "shrink"
    BY <1>3, <1>4, <1>8 DEF Truncate
  <2>2. n \in 1..Len(text)
    BY <1>3, <1>4, <1>8, ShareLeft
  <2> HIDE DEF n
  <2>3. Leads(text')
    BY <1>2, <2>1, <2>2, PrefixLeads
  <2>4. ASSUME NEW p, Within(p, text)
        PROVE  p \in Places(text)
    <3>1. DOMAIN text = 1..Len(text)
      BY <1>3
    <3> QED
      BY <2>4, <3>1 DEF Within, Places
  <2>5. ASSUME NEW c \in InkAt(item), c <= cut'[2]
        PROVE  Among(<<item, c>>, chunks') \/ <<item, c>> \in capped'
    BY <1>1, <1>6, <2>1, <2>4, <2>5
  <2> QED
    BY <1>1, <1>2, <2>1, <2>3, <2>5, SameItem
<1>9. CASE Shrink
  <2>1. UNCHANGED capped /\ pc = "shrink"
    BY <1>9 DEF Shrink
  <2>2. Leads(text')
    <3>1. CASE CountTokens(text) > MaxTokens
      <4>1. text' = Prefix(text, (Len(text) * 19) \div 20)
        BY <1>5, <1>9, <3>1 DEF Shrink
      <4>2. (Len(text) * 19) \div 20 \in 1..Len(text)
        BY <1>3, <1>4, <3>1, TurnLeft
      <4> QED
        BY <1>2, <4>1, <4>2, PrefixLeads
    <3>2. CASE ~(CountTokens(text) > MaxTokens)
      BY <1>2, <1>9, <3>2 DEF Shrink
    <3> QED
      BY <3>1, <3>2
  <2>3. ASSUME NEW c \in InkAt(item), c <= cut'[2]
        PROVE  Among(<<item, c>>, chunks') \/ <<item, c>> \in capped'
    BY <1>1, <1>6, <2>1, <2>3
  <2> QED
    BY <1>1, <2>1, <2>2, <2>3, SameItem
<1> QED
  BY <1>3, <1>4, <1>7, <1>8, <1>9

LEMMA WithinConcat ==
    ASSUME NEW S, NEW s \in Seq(S), NEW t \in Seq(S),
           NEW p, Within(p, s) \/ Within(p, t)
    PROVE  Within(p, s \o t)
<1>1. /\ Len(s \o t) = Len(s) + Len(t) /\ Len(s) \in Nat /\ Len(t) \in Nat
      /\ \A i \in 1..Len(s) + Len(t) :
           (s \o t)[i] = IF i <= Len(s) THEN s[i] ELSE t[i - Len(s)]
  BY ConcatProperties
<1> DEFINE st == s \o t
<1> HIDE DEF st
<1>2. /\ Len(st) = Len(s) + Len(t)
      /\ \A i \in 1..Len(s) + Len(t) : st[i] = IF i <= Len(s) THEN s[i] ELSE t[i - Len(s)]
  BY <1>1 DEF st
<1>3. CASE Within(p, s)
  <2>1. PICK k \in 1..Len(s) : s[k] = p
    BY <1>3 DEF Within
  <2>2. k \in 1..Len(s) + Len(t) /\ k <= Len(s)
    BY <1>1, <2>1
  <2>3. k \in 1..Len(st) /\ st[k] = p
    BY <1>2, <2>1, <2>2
  <2> QED
    BY <2>3 DEF Within, st
<1>4. CASE Within(p, t)
  <2>1. PICK k \in 1..Len(t) : t[k] = p
    BY <1>4 DEF Within
  <2> DEFINE j == Len(s) + k
  <2>2. j \in 1..Len(s) + Len(t) /\ ~(j <= Len(s)) /\ j - Len(s) = k
    BY <1>1, <2>1
  <2> HIDE DEF j
  <2>3. j \in 1..Len(st) /\ st[j] = p
    BY <1>2, <2>1, <2>2
  <2> QED
    BY <2>3 DEF Within, st
<1> QED
  BY <1>3, <1>4

\* What is placed is in a chunk, and so is what was in one: a merge drops nothing.
LEMMA PlaceKeeps ==
    ASSUME Ranked, Fitting, text \in Seq(Seat), text # <<>>, Place,
           NEW p, Among(p, chunks) \/ Within(p, text)
    PROVE  Among(p, chunks')
<1>1. PICK S : chunks \in Seq(S)
  BY DEF Ranked
<1>2. Len(chunks) \in Nat /\ DOMAIN chunks = 1..Len(chunks)
  BY <1>1
<1>3. CASE Mergeable
  <2> DEFINE last == Len(chunks)
             c    == Chunk(Merged, chunks[last].index)
  <2>1. last \in 1..Len(chunks)
    BY <1>1, <1>2, <1>3 DEF Mergeable
  <2>2. chunks[last].text \in Seq(Seat)
    BY <2>1 DEF Fitting, Good
  <2>3. <<Space>> \in Seq(Seat)
    BY DEF Space, Seat
  <2> DEFINE old   == chunks[last].text
             front == old \o <<Space>>
  <2> HIDE DEF old
  <2>4. front \in Seq(Seat)
    BY <2>2, <2>3, ConcatProperties DEF old
  <2>5. Within(p, old) => Within(p, front)
    BY <2>2, <2>3, WithinConcat DEF old
  <2> HIDE DEF front
  <2>6. Within(p, old) \/ Within(p, text) => Within(p, front \o text)
    BY <2>4, <2>5, WithinConcat
  <2>7. Merged = front \o text
    BY DEF Merged, front, old
  <2>8. c.text = Merged
    BY DEF Chunk
  <2>9. chunks' = [chunks EXCEPT ![last] = c]
    BY <1>3 DEF Place
  <2> HIDE DEF c
  <2>10. chunks \in Seq(S \cup {c}) /\ c \in S \cup {c}
    BY <1>1, SeqMonotonic
  <2>11. /\ Len(chunks') = Len(chunks)
         /\ \A j \in 1..Len(chunks) : chunks'[j] = IF j = last THEN c ELSE chunks[j]
    BY <2>1, <2>9, <2>10, ExceptSeq
  <2>12. Within(p, text) \/ Within(p, old) => Among(p, chunks')
    <3>1. chunks'[last] = c /\ last \in 1..Len(chunks')
      BY <2>1, <2>11
    <3>2. chunks'[last].text = front \o text
      BY <2>7, <2>8, <3>1
    <3> HIDE DEF last
    <3> QED
      BY <2>6, <3>1, <3>2 DEF Among
  <2>13. CASE Among(p, chunks)
    <3>1. PICK j \in 1..Len(chunks) : Within(p, chunks[j].text)
      BY <2>13 DEF Among
    <3>2. CASE j = last
      BY <2>12, <3>1, <3>2 DEF old
    <3>3. CASE j # last
      BY <2>11, <3>1, <3>3 DEF Among
    <3> QED
      BY <3>2, <3>3
  <2> QED
    BY <2>12, <2>13
<1>4. CASE ~Mergeable
  <2> DEFINE c == Chunk(text, Len(chunks))
  <2>1. chunks' = Append(chunks, c)
    BY <1>4 DEF Place
  <2>2. c.text = text
    BY DEF Chunk
  <2> HIDE DEF c
  <2>3. chunks \in Seq(S \cup {c}) /\ c \in S \cup {c}
    BY <1>1, SeqMonotonic
  <2>4. /\ Len(chunks') = Len(chunks) + 1
        /\ \A j \in 1..Len(chunks) : chunks'[j] = chunks[j]
        /\ chunks'[Len(chunks) + 1] = c
    BY <2>1, <2>3, AppendProperties
  <2>5. CASE Among(p, chunks)
    <3>1. PICK j \in 1..Len(chunks) : Within(p, chunks[j].text)
      BY <2>5 DEF Among
    <3>2. j \in 1..Len(chunks') /\ chunks'[j].text = chunks[j].text
      BY <1>2, <2>4
    <3> QED
      BY <3>1, <3>2 DEF Among
  <2>6. CASE Within(p, text)
    <3> DEFINE k == Len(chunks) + 1
    <3>1. k \in 1..Len(chunks') /\ chunks'[k].text = text
      BY <1>2, <2>2, <2>4
    <3> HIDE DEF k
    <3> QED
      BY <2>6, <3>1 DEF Among
  <2> QED
    BY <2>5, <2>6
<1> QED
  BY <1>3, <1>4

LEMMA PlaceCovers ==
    ASSUME TypeOK, Ranked, Fitting, Covered, Place
    PROVE  Covered'
<1>1. /\ pc = "place" /\ pc' = "split" /\ UNCHANGED <<doc, item, cut, text, flat, capped>>
  BY DEF Place
<1>2. /\ item \in 1..Len(doc) /\ item \in Nat \ {0} /\ Len(doc[item]) \in Nat
      /\ doc \in Documents /\ Leads(text) /\ item <= Len(doc)
  BY <1>1, ItemType DEF TypeOK, Covered
<1>3. text \in Seq(Seat) /\ Len(text) \in Nat \ {0}
  BY <1>2, LeadsPiece, PieceCount
<1>4. text # <<>>
  BY <1>3, EmptySeq
<1>5. \A p : Among(p, chunks) \/ Within(p, text) => Among(p, chunks')
  BY <1>3, <1>4, PlaceKeeps
<1>6. \E e \in InkAt(item) : Among(<<item, e>>, chunks')
  <2>1. PICK a \in 1..Len(doc[item]), b \in 1..Len(doc[item]) :
           a <= b /\ text = Slice(a, b) /\ doc[item][a] # Blank
    BY <1>2 DEF Leads
  <2>2. a \in Nat \ {0} /\ b \in Nat /\ a \in a..b
    BY <1>2, <2>1
  <2>3. Within(<<item, a>>, text)
    BY <1>2, <2>1, <2>2, SliceWithin
  <2>4. a \in InkAt(item)
    BY <2>1 DEF InkAt
  <2> QED
    BY <1>5, <2>3, <2>4
<1>7. ASSUME NEW c \in InkAt(item), c <= cut'[2]
      PROVE  Among(<<item, c>>, chunks') \/ <<item, c>> \in capped'
  <2>1. Among(<<item, c>>, chunks) \/ <<item, c>> \in capped \/ Within(<<item, c>>, text)
    BY <1>1, <1>2, <1>7 DEF Covered, Current
  <2> QED
    BY <1>1, <1>5, <2>1
<1> QED
  BY <1>1, <1>6, <1>7, SameItem

\* The last cut of an item is at its end, so that all of its ink is covered.
LEMMA EndCovers ==
    ASSUME TypeOK, Ranked, Collected, Covered, EndItem
    PROVE  Covered'
<1>1. /\ pc = "split" /\ pc' = "split" /\ item <= Len(doc) /\ UNCHANGED <<doc, capped>>
      /\ cut[2] = Len(doc[item]) /\ item' = item + 1 /\ cut' = <<0, 0>>
  BY DEF EndItem
<1>2. item \in Nat \ {0} /\ Len(doc) \in Nat /\ item \in 1..Len(doc) /\ Len(doc[item]) \in Nat
  BY <1>1, ItemType
<1>3. /\ Len(flat) \in Nat /\ Len(chunks) \in Nat
      /\ Len(flat') = Len(flat) + Len(chunks)
      /\ \A i \in 1..Len(flat) : flat'[i] = flat[i]
      /\ \A i \in 1..Len(chunks) : flat'[Len(flat) + i] = [item |-> item, chunk |-> chunks[i]]
  BY EndFlat
<1>4. ASSUME NEW p, AmongFlat(p, flat)
      PROVE  AmongFlat(p, flat')
  <2>1. PICK j \in 1..Len(flat) : Within(p, flat[j].chunk.text)
    BY <1>4 DEF AmongFlat
  <2>2. j \in 1..Len(flat') /\ flat'[j] = flat[j]
    BY <1>3
  <2> QED
    BY <2>1, <2>2 DEF AmongFlat
<1>5. ASSUME NEW p, Among(p, chunks)
      PROVE  AmongFlat(p, flat')
  <2>1. PICK j \in 1..Len(chunks) : Within(p, chunks[j].text)
    BY <1>5 DEF Among
  <2> DEFINE k == Len(flat) + j
  <2>2. k \in 1..Len(flat')
    BY <1>3
  <2>3. flat'[k] = [item |-> item, chunk |-> chunks[j]]
    BY <1>3
  <2> HIDE DEF k
  <2>4. flat'[k].chunk = chunks[j]
    BY <2>3
  <2> QED
    BY <2>1, <2>2, <2>4 DEF AmongFlat
<1>6. \A i : InkAt(i)' = InkAt(i)
  BY <1>1 DEF InkAt
<1>7. ASSUME NEW i \in 1..Len(doc), i < item + 1, NEW c \in InkAt(i)
      PROVE  /\ AmongFlat(<<i, c>>, flat') \/ <<i, c>> \in capped'
             /\ \E e \in InkAt(i) : AmongFlat(<<i, e>>, flat')
  <2>1. CASE i < item
    <3>1. Past(i)
      BY <2>1 DEF Covered
    <3>2. /\ AmongFlat(<<i, c>>, flat) \/ <<i, c>> \in capped
          /\ \E e \in InkAt(i) : AmongFlat(<<i, e>>, flat)
      BY <1>7, <3>1 DEF Past
    <3> QED
      BY <1>1, <1>4, <3>2
  <2>2. CASE i = item
    <3>1. c <= cut[2] /\ c \in InkAt(item)
      BY <1>1, <1>2, <1>7, <2>2 DEF InkAt
    <3>2. /\ Among(<<item, c>>, chunks) \/ <<item, c>> \in capped
          /\ \E e \in InkAt(item) : Among(<<item, e>>, chunks)
      BY <1>1, <3>1 DEF Covered, Current
    <3> QED
      BY <1>1, <1>5, <2>2, <3>2
  <2>3. i < item \/ i = item
    <3>1. i \in Nat
      BY <1>2
    <3> QED
      BY <1>2, <1>7, <3>1
  <2> QED
    BY <2>1, <2>2, <2>3
<1>8. ASSUME NEW i \in 1..Len(doc), i < item + 1
      PROVE  Past(i)'
  BY <1>6, <1>7, <1>8 DEF Past
<1>9. Current'
  <2>1. cut'[2] = 0
    BY <1>1
  <2>2. \A c \in InkAt(item)' : ~(c <= cut'[2])
    BY <2>1 DEF InkAt
  <2> QED
    BY <2>2 DEF Current
<1> QED
  BY <1>1, <1>8, <1>9 DEF Covered

LEMMA CoveredStep == Inv /\ Fitting /\ Covered /\ [Next]_vars => Covered'
<1> SUFFICES ASSUME Inv, Fitting, Covered, [Next]_vars
             PROVE  Covered'
  OBVIOUS
<1>1. TypeOK /\ Ranked /\ Collected
  BY DEF Inv
<1>2. CASE UNCHANGED vars
  <2>1. UNCHANGED <<doc, item, cut, text, chunks, flat, capped, pc>>
    BY <1>2 DEF vars
  <2>2. pc' # "split" => Leads(text')
    BY <2>1 DEF Covered
  <2>3. ASSUME item <= Len(doc), NEW c \in InkAt(item), c <= cut'[2]
        PROVE  /\ \/ Among(<<item, c>>, chunks') \/ <<item, c>> \in capped'
                  \/ pc' \in {"truncate", "place"} /\ Within(<<item, c>>, text')
               /\ pc' # "split" \/ \E e \in InkAt(item) : Among(<<item, e>>, chunks')
    BY <2>1, <2>3 DEF Covered, Current
  <2> QED
    BY <2>1, <2>2, <2>3, SameItem
<1> QED
  BY <1>1, <1>2, SplitCovers, TruncateCovers, PlaceCovers, EndCovers DEF Next

LEMMA CoveredInit == Init => Covered
<1> SUFFICES ASSUME Init PROVE Covered
  OBVIOUS
<1>1. pc = "split" /\ item = 1 /\ cut[2] = 0
  BY DEF Init
<1>2. ASSUME NEW i \in 1..Len(doc)
      PROVE  ~(i < item)
  <2>1. Len(doc) \in Nat
    BY ContentAssumption DEF Init
  <2> QED
    BY <1>1, <2>1
<1>3. Current
  <2>1. \A c \in InkAt(item) : ~(c <= cut[2])
    BY <1>1 DEF InkAt
  <2> QED
    BY <2>1 DEF Current
<1> QED
  BY <1>1, <1>2, <1>3 DEF Covered

\* No visible character of a document is left out of its chunks except in a piece
\* over the limit of tokens, and an item with visible text always leaves a chunk
\* with some of it, whatever the splitter cuts and however pieces are shortened.
THEOREM NothingIsLost == Spec => []NothingLost
<1>1. Inv /\ Fitting /\ Covered => NothingLost
  <2> SUFFICES ASSUME Inv, Fitting, Covered, Done, NEW i \in DOMAIN doc
               PROVE  LET ink  == {p \in {i} \X DOMAIN doc[i] : doc[i][p[2]] # Blank}
                          kept == UNION {Places(flat[j].chunk.text) : j \in DOMAIN flat}
                      IN  /\ ink \subseteq kept \cup capped
                          /\ ink # {} => ink \cap kept # {}
    BY DEF NothingLost
  <2> DEFINE ink  == {p \in {i} \X DOMAIN doc[i] : doc[i][p[2]] # Blank}
             kept == UNION {Places(flat[j].chunk.text) : j \in DOMAIN flat}
  <2>1. i \in 1..Len(doc) /\ doc[i] \in Seq(Kinds) /\ i < item
    <3>1. doc \in Seq(Seq(Kinds)) /\ Len(doc) \in Nat
      BY ContentAssumption DEF Inv, TypeOK
    <3>2. i \in 1..Len(doc) /\ doc[i] \in Seq(Kinds)
      BY <3>1
    <3>3. item \in Nat /\ item > Len(doc)
      BY ItemType DEF Inv, Done
    <3> QED
      BY <3>1, <3>2, <3>3
  <2>2. DOMAIN doc[i] = 1..Len(doc[i])
    BY <2>1
  <2>3. DOMAIN flat = 1..Len(flat)
    BY DEF Inv, Collected
  <2>4. ASSUME NEW p, AmongFlat(p, flat)
        PROVE  p \in kept
    <3>1. PICK j \in 1..Len(flat) : Within(p, flat[j].chunk.text)
      BY <2>4 DEF AmongFlat
    <3>2. flat[j].chunk.text \in Seq(Seat)
      BY <3>1 DEF Fitting, Good
    <3>3. DOMAIN flat[j].chunk.text = 1..Len(flat[j].chunk.text)
      BY <3>2
    <3>4. p \in Places(flat[j].chunk.text)
      BY <3>1, <3>3 DEF Within, Places
    <3> QED
      BY <2>3, <3>4
  <2> HIDE DEF kept
  <2>5. Past(i)
    BY <2>1 DEF Covered
  <2>6. ASSUME NEW p \in ink
        PROVE  p[2] \in InkAt(i) /\ p = <<i, p[2]>>
    BY <2>2, <2>6 DEF InkAt
  <2>7. ASSUME NEW c \in InkAt(i)
        PROVE  <<i, c>> \in ink
    BY <2>2, <2>7 DEF InkAt
  <2> HIDE DEF ink
  <2>8. ink \subseteq kept \cup capped
    BY <2>4, <2>5, <2>6 DEF Past
  <2>9. ASSUME ink # {}
        PROVE  ink \cap kept # {}
    <3>1. PICK p \in ink : TRUE
      BY <2>9
    <3>2. PICK e \in InkAt(i) : AmongFlat(<<i, e>>, flat)
      BY <2>5, <2>6, <3>1 DEF Past
    <3> QED
      BY <2>4, <2>7, <3>2
  <2> QED
    BY <2>8, <2>9 DEF ink, kept
<1> QED
  BY <1>1, InvInit, InvStep, FittingInit, FittingStep, CoveredInit, CoveredStep, PTL DEF Spec

-----------------------------------------------------------------------------
\* Which chunks are short.

\* The tokenizer splits at blanks: what is joined to a text by a blank never makes
\* the text itself cost less.  Pieces of SentencePiece, the model's tokenizer, do
\* not go across a blank.
BlankSplits ==
    \A a, b \in Seq(Kinds) : Tokens(a) \in Nat /\ Tokens(a) <= Tokens(a \o <<Blank>> \o b)

Joined(s, t) == s \o <<Space>> \o t

Legible(t) == t \in Seq(Seat) /\ Spelled(t) \in Seq(Kinds)

OverTogether(s, t) == Len(t) < MinChars => CountTokens(Joined(s, t)) > MaxTokens

\* A chunk of the item in hand that is short was too much for the one before it,
\* and still is, now that more has been merged into it.
Forced ==
    /\ \A i \in 1..Len(chunks) : Legible(chunks[i].text)
    /\ \A i \in 2..Len(chunks) : OverTogether(chunks[i - 1].text, chunks[i].text)
    /\ \A i \in 2..Len(flat) :
         flat[i - 1].item = flat[i].item =>
           OverTogether(flat[i - 1].chunk.text, flat[i].chunk.text)

LEMMA SpelledType ==
    ASSUME NEW t \in Seq(Seat)
    PROVE  /\ Spelled(t) \in Seq({Kind(p) : p \in Seat}) /\ Len(Spelled(t)) = Len(t)
           /\ \A i \in 1..Len(t) : Spelled(t)[i] = Kind(t[i])
<1> DEFINE K == {Kind(p) : p \in Seat}
<1>1. DOMAIN t = 1..Len(t) /\ Len(t) \in Nat /\ \A i \in 1..Len(t) : t[i] \in Seat
  BY LenProperties, ElementOfSeq
<1>2. \A i \in 1..Len(t) : Kind(t[i]) \in K
  BY <1>1
<1>3. Spelled(t) = [i \in 1..Len(t) |-> Kind(t[i])]
  BY <1>1 DEF Spelled
<1> HIDE DEF K
<1>4. Spelled(t) \in [1..Len(t) -> K] /\ \A i \in 1..Len(t) : Spelled(t)[i] = Kind(t[i])
  BY <1>2, <1>3
<1>5. Spelled(t) \in Seq(K) /\ Len(Spelled(t)) = Len(t)
  BY <1>1, <1>4
<1> QED
  BY <1>4, <1>5 DEF K

\* Texts are spelled one after the other.
LEMMA SpelledConcat ==
    ASSUME NEW s \in Seq(Seat), NEW t \in Seq(Seat)
    PROVE  Spelled(s \o t) = Spelled(s) \o Spelled(t)
<1> DEFINE K == {Kind(p) : p \in Seat}
           u == s \o t
           v == Spelled(s) \o Spelled(t)
<1>1. /\ u \in Seq(Seat) /\ Len(u) = Len(s) + Len(t) /\ Len(s) \in Nat /\ Len(t) \in Nat
      /\ \A i \in 1..Len(s) + Len(t) :
           u[i] = IF i <= Len(s) THEN s[i] ELSE t[i - Len(s)]
  BY ConcatProperties
<1> HIDE DEF u
<1>2. /\ Spelled(s) \in Seq(K) /\ Len(Spelled(s)) = Len(s)
      /\ \A i \in 1..Len(s) : Spelled(s)[i] = Kind(s[i])
  BY SpelledType
<1>3. /\ Spelled(t) \in Seq(K) /\ Len(Spelled(t)) = Len(t)
      /\ \A i \in 1..Len(t) : Spelled(t)[i] = Kind(t[i])
  BY SpelledType
<1>4. /\ Spelled(u) \in Seq(K) /\ Len(Spelled(u)) = Len(u)
      /\ \A i \in 1..Len(u) : Spelled(u)[i] = Kind(u[i])
  BY <1>1, SpelledType
<1> HIDE DEF K
<1> DEFINE x == Spelled(s)
           y == Spelled(t)
<1>5. /\ v \in Seq(K) /\ Len(v) = Len(s) + Len(t)
      /\ \A i \in 1..Len(s) + Len(t) : v[i] = IF i <= Len(s) THEN x[i] ELSE y[i - Len(s)]
  <2>1. x \in Seq(K) /\ y \in Seq(K) /\ Len(x) = Len(s) /\ Len(y) = Len(t)
    BY <1>2, <1>3
  <2> HIDE DEF x, y
  <2>2. /\ x \o y \in Seq(K) /\ Len(x \o y) = Len(x) + Len(y)
        /\ \A i \in 1..Len(x) + Len(y) :
             (x \o y)[i] = IF i <= Len(x) THEN x[i] ELSE y[i - Len(x)]
    BY <2>1, ConcatProperties
  <2>3. v = x \o y
    BY DEF x, y
  <2> HIDE DEF v
  <2> QED
    BY <2>1, <2>2, <2>3
<1> HIDE DEF v
<1>6. ASSUME NEW i \in 1..Len(u)
      PROVE  Spelled(u)[i] = v[i]
  <2>1. i \in 1..Len(s) + Len(t)
    BY <1>1
  <2>2. CASE i <= Len(s)
    <3>1. i \in 1..Len(s)
      BY <1>1, <2>1, <2>2
    <3> QED
      BY <1>1, <1>2, <1>4, <1>5, <2>1, <2>2, <3>1
  <2>3. CASE ~(i <= Len(s))
    <3>1. i - Len(s) \in 1..Len(t)
      BY <1>1, <2>1, <2>3
    <3> QED
      BY <1>1, <1>3, <1>4, <1>5, <2>1, <2>3, <3>1
  <2> QED
    BY <2>2, <2>3
<1>7. Spelled(u) = v
  <2>1. Len(Spelled(u)) = Len(v) /\ \A i \in 1..Len(Spelled(u)) : Spelled(u)[i] = v[i]
    BY <1>1, <1>4, <1>5, <1>6
  <2> QED
    BY <1>4, <1>5, <2>1, SeqEqual
<1> QED
  BY <1>7 DEF u, v

LEMMA JoinedType ==
    ASSUME NEW s, Legible(s), NEW t, Legible(t)
    PROVE  /\ Legible(Joined(s, t))
           /\ Spelled(Joined(s, t)) = Spelled(s) \o <<Blank>> \o Spelled(t)
           /\ Len(Joined(s, t)) = Len(s) + 1 + Len(t)
           /\ Len(s) \in Nat /\ Len(t) \in Nat
<1>1. s \in Seq(Seat) /\ t \in Seq(Seat) /\ <<Space>> \in Seq(Seat) /\ Len(<<Space>>) = 1
  BY DEF Legible, Space, Seat
<1>2. Spelled(<<Space>>) = <<Blank>>
  <2>1. Kind(Space) = Blank
    BY DEF Kind
  <2>2. DOMAIN <<Space>> = {1} /\ <<Space>>[1] = Space
    OBVIOUS
  <2>3. Spelled(<<Space>>) = [i \in {1} |-> Blank]
    BY <2>1, <2>2 DEF Spelled
  <2>4. <<Blank>> = [i \in {1} |-> Blank]
    OBVIOUS
  <2> QED
    BY <2>3, <2>4
<1> DEFINE front == s \o <<Space>>
<1>3. /\ front \in Seq(Seat) /\ Len(front) = Len(s) + 1
      /\ Len(s) \in Nat /\ Len(t) \in Nat
  BY <1>1, ConcatProperties
<1>4. Spelled(front) = Spelled(s) \o <<Blank>>
  BY <1>1, <1>2, SpelledConcat
<1> HIDE DEF front
<1>5. /\ front \o t \in Seq(Seat) /\ Len(front \o t) = Len(front) + Len(t)
      /\ Spelled(front \o t) = Spelled(front) \o Spelled(t)
  BY <1>1, <1>3, ConcatProperties, SpelledConcat
<1>6. Joined(s, t) = front \o t
  BY DEF Joined, front
<1>7. Spelled(s) \in Seq(Kinds) /\ Spelled(t) \in Seq(Kinds) /\ <<Blank>> \in Seq(Kinds)
  BY ContentAssumption DEF Legible
<1>8. Spelled(s) \o <<Blank>> \o Spelled(t) \in Seq(Kinds)
  BY <1>7, ConcatProperties
<1> QED
  BY <1>3, <1>4, <1>5, <1>6, <1>8 DEF Legible

LEMMA Associative ==
    \A s, t, u \in Seq(Seat) : (s \o t) \o u = s \o (t \o u)
<1> SUFFICES ASSUME NEW s \in Seq(Seat), NEW t \in Seq(Seat), NEW u \in Seq(Seat)
             PROVE  (s \o t) \o u = s \o (t \o u)
  OBVIOUS
<1> QED
  BY ConcatAssociative, SMTT(30)

LEMMA JoinedAssociative ==
    ASSUME NEW a \in Seq(Seat), NEW b \in Seq(Seat), NEW c \in Seq(Seat)
    PROVE  Joined(a, Joined(b, c)) = Joined(Joined(a, b), c)
<1> DEFINE sp == <<Space>>
<1>1. sp \in Seq(Seat)
  BY DEF Space, Seat
<1> HIDE DEF sp
<1>2. a \o sp \in Seq(Seat) /\ b \o sp \in Seq(Seat)
  BY <1>1, ConcatProperties
<1>3. (a \o sp) \o ((b \o sp) \o c) = ((a \o sp) \o (b \o sp)) \o c
  <2> DEFINE x == a \o sp
             y == b \o sp
  <2>1. x \in Seq(Seat) /\ y \in Seq(Seat)
    BY <1>2
  <2> HIDE DEF x, y
  <2>2. (x \o y) \o c = x \o (y \o c)
    <3>1. \A u \in Seq(Seat) : (x \o y) \o u = x \o (y \o u)
      BY <2>1, Associative
    <3> QED
      BY <3>1
  <2> QED
    BY <2>2 DEF x, y
<1>4. (a \o sp) \o (b \o sp) = ((a \o sp) \o b) \o sp
  <2> DEFINE x == a \o sp
  <2>1. x \in Seq(Seat)
    BY <1>2
  <2> HIDE DEF x
  <2>2. \A t \in Seq(Seat) : (x \o b) \o t = x \o (b \o t)
    BY <2>1, Associative
  <2>3. x \o (b \o sp) = (x \o b) \o sp
    BY <1>1, <2>2
  <2> QED
    BY <2>3 DEF x
<1> QED
  BY <1>3, <1>4 DEF Joined, sp

LEMMA JoinedCosts ==
    ASSUME BlankSplits, NEW s, Legible(s), NEW t, Legible(t)
    PROVE  /\ CountTokens(s) \in Nat /\ CountTokens(Joined(s, t)) \in Nat
           /\ CountTokens(s) <= CountTokens(Joined(s, t))
<1>1. Spelled(s) \in Seq(Kinds) /\ Spelled(t) \in Seq(Kinds)
  BY DEF Legible
<1>2. /\ Spelled(Joined(s, t)) = Spelled(s) \o <<Blank>> \o Spelled(t)
      /\ Spelled(Joined(s, t)) \in Seq(Kinds)
  BY JoinedType DEF Legible
<1>3. /\ Tokens(Spelled(s)) \in Nat
      /\ Tokens(Spelled(s)) <= Tokens(Spelled(s) \o <<Blank>> \o Spelled(t))
  BY <1>1 DEF BlankSplits
<1>4. Tokens(Spelled(Joined(s, t))) \in Nat
  BY <1>1, <1>2 DEF BlankSplits
<1> QED
  BY <1>2, <1>3, <1>4 DEF CountTokens

LEMMA LeadsLegible ==
    ASSUME doc \in Documents, item \in 1..Len(doc), NEW t, Leads(t)
    PROVE  Legible(t)
<1>1. doc \in Seq(Seq(Kinds)) /\ item \in Nat \ {0}
  BY ContentAssumption
<1>2. doc[item] \in Seq(Kinds) /\ Len(doc[item]) \in Nat
  BY <1>1
<1>3. PICK a \in 1..Len(doc[item]), b \in 1..Len(doc[item]) : a <= b /\ t = Slice(a, b)
  BY DEF Leads
<1>4. a \in Nat \ {0} /\ b \in Nat /\ a <= b + 1 /\ b <= Len(doc[item]) /\ b + 1 - a \in Nat
  BY <1>2, <1>3
<1>5. /\ t \in Seq(Seat) /\ Len(t) = b + 1 - a
      /\ \A i \in 1..(b + 1 - a) : Kind(t[i]) = doc[item][a + i - 1]
  BY <1>1, <1>3, <1>4, SliceKinds
<1>6. ASSUME NEW i \in 1..Len(t)
      PROVE  Kind(t[i]) \in Kinds
  <2>1. a + i - 1 \in 1..Len(doc[item]) /\ Kind(t[i]) = doc[item][a + i - 1]
    BY <1>4, <1>5
  <2> QED
    BY <1>2, <2>1, ElementOfSeq
<1>7. DOMAIN t = 1..Len(t)
  BY <1>5, LenProperties
<1>8. Spelled(t) = [i \in 1..Len(t) |-> Kind(t[i])]
  BY <1>7 DEF Spelled
<1>9. Spelled(t) \in [1..Len(t) -> Kinds] /\ Len(t) \in Nat
  BY <1>4, <1>5, <1>6, <1>8
<1>10. Spelled(t) \in Seq(Kinds)
  BY <1>9
<1> QED
  BY <1>5, <1>10 DEF Legible

LEMMA ForcedFrame ==
    ASSUME UNCHANGED doc,
           \A i \in 1..Len(chunks') : Legible(chunks'[i].text),
           \A i \in 2..Len(chunks') : OverTogether(chunks'[i - 1].text, chunks'[i].text),
           \A i \in 2..Len(flat') :
             flat'[i - 1].item = flat'[i].item =>
               OverTogether(flat'[i - 1].chunk.text, flat'[i].chunk.text)
    PROVE  Forced'
<1>1. \A t : Kind(t)' = Kind(t)
  BY DEF Kind
<1>2. \A t : Spelled(t)' = Spelled(t)
  BY <1>1 DEF Spelled
<1>3. \A t : (Legible(t)' <=> Legible(t)) /\ CountTokens(t)' = CountTokens(t)
  BY <1>2 DEF Legible, CountTokens
<1>4. \A s, t : Joined(s, t)' = Joined(s, t)
  BY DEF Joined
<1> HIDE DEF Legible, CountTokens, Joined
<1>5. \A s, t : OverTogether(s, t)' <=> OverTogether(s, t)
  BY <1>3, <1>4 DEF OverTogether
<1> HIDE DEF OverTogether
<1>6. (\A i \in 1..Len(chunks) : Legible(chunks[i].text))'
  BY <1>3
<1>7. (\A i \in 2..Len(chunks) : OverTogether(chunks[i - 1].text, chunks[i].text))'
  BY <1>5
<1>8. (\A i \in 2..Len(flat) :
         flat[i - 1].item = flat[i].item =>
           OverTogether(flat[i - 1].chunk.text, flat[i].chunk.text))'
  BY <1>5
<1> QED
  BY <1>6, <1>7, <1>8 DEF Forced

\* A merge makes the last chunk longer and, with the one before it, dearer; a
\* chunk is added only if it is long or does not go with the last one.
LEMMA PlaceForced ==
    ASSUME BlankSplits, TypeOK, Ranked, Covered, Forced, Place
    PROVE  Forced'
<1>1. /\ pc = "place" /\ UNCHANGED <<doc, item, cut, text, flat, capped>>
  BY DEF Place
<1>2. PICK S : chunks \in Seq(S)
  BY DEF Ranked
<1>3. Len(chunks) \in Nat /\ DOMAIN chunks = 1..Len(chunks)
  BY <1>2
<1>4. doc \in Documents /\ item \in 1..Len(doc) /\ Leads(text)
  BY <1>1, ItemType DEF TypeOK, Covered
<1>5. Legible(text)
  BY <1>4, LeadsLegible
<1>6. MaxTokens \in Nat /\ MinChars \in Nat
  BY LimitAssumption
<1> DEFINE last == Len(chunks)
           old  == chunks[last].text
<1>7. Merged = Joined(old, text)
  BY DEF Merged, Joined
<1>8. ASSUME last # 0
      PROVE  last \in 1..Len(chunks) /\ Legible(old)
  BY <1>3, <1>8 DEF Forced
<1>9. ASSUME \A i \in 1..Len(chunks') : Legible(chunks'[i].text),
             \A i \in 2..Len(chunks') : OverTogether(chunks'[i - 1].text, chunks'[i].text)
      PROVE  Forced'
  <2>1. \A i \in 2..Len(flat') :
          flat'[i - 1].item = flat'[i].item =>
            OverTogether(flat'[i - 1].chunk.text, flat'[i].chunk.text)
    BY <1>1 DEF Forced
  <2> QED
    BY <1>1, <1>9, <2>1, ForcedFrame
<1>10. CASE text = <<>>
  <2>1. chunks' = chunks
    BY <1>10 DEF Place
  <2> QED
    BY <1>9, <2>1 DEF Forced
<1>11. CASE text # <<>> /\ Mergeable
  <2> DEFINE c == Chunk(Merged, chunks[last].index)
  <2>1. last # 0
    BY <1>2, <1>11, EmptySeq DEF Mergeable
  <2>2. c.text = Joined(old, text)
    BY <1>7 DEF Chunk
  <2>3. chunks' = [chunks EXCEPT ![last] = c]
    BY <1>11 DEF Place
  <2> HIDE DEF c
  <2>4. chunks \in Seq(S \cup {c}) /\ c \in S \cup {c}
    BY <1>2, SeqMonotonic
  <2>5. last \in 1..Len(chunks) /\ Legible(old)
    BY <1>8, <2>1
  <2>6. /\ Len(chunks') = Len(chunks)
        /\ \A j \in 1..Len(chunks) : chunks'[j] = IF j = last THEN c ELSE chunks[j]
    BY <2>3, <2>4, <2>5, ExceptSeq
  <2>7. Legible(Joined(old, text)) /\ Len(Joined(old, text)) >= Len(old) /\ Len(old) \in Nat
    <3> HIDE DEF old
    <3>1. /\ Legible(Joined(old, text)) /\ Len(Joined(old, text)) = Len(old) + 1 + Len(text)
          /\ Len(old) \in Nat /\ Len(text) \in Nat
      BY <1>5, <2>5, JoinedType
    <3> QED
      BY <3>1
  <2>8. \A i \in 1..Len(chunks') : Legible(chunks'[i].text)
    <3> SUFFICES ASSUME NEW i \in 1..Len(chunks)
                 PROVE  Legible(chunks'[i].text)
      BY <2>6
    <3>1. CASE i = last
      <4>1. chunks'[i] = c
        BY <2>6, <3>1
      <4> QED
        BY <2>2, <2>7, <4>1
    <3>2. CASE i # last
      <4>1. chunks'[i] = chunks[i]
        BY <2>6, <3>2
      <4> QED
        BY <4>1 DEF Forced
    <3> QED
      BY <3>1, <3>2
  <2>9. ASSUME NEW i \in 2..Len(chunks')
        PROVE  OverTogether(chunks'[i - 1].text, chunks'[i].text)
    <3>1. /\ i \in 2..Len(chunks) /\ i \in 1..Len(chunks) /\ i - 1 \in 1..Len(chunks)
          /\ i - 1 # last
      <4>1. i \in 2..Len(chunks)
        BY <2>6
      <4> QED
        BY <1>3, <4>1
    <3>2. chunks'[i - 1] = chunks[i - 1]
      BY <2>6, <3>1
    <3>3. OverTogether(chunks[i - 1].text, chunks[i].text)
      BY <3>1 DEF Forced
    <3>4. CASE i # last
      <4>1. chunks'[i] = chunks[i]
        BY <2>6, <3>1, <3>4
      <4> QED
        BY <3>2, <3>3, <4>1
    <3>5. CASE i = last
      <4> DEFINE before == chunks[i - 1].text
      <4>1. chunks'[i] = c /\ OverTogether(before, old) /\ Legible(before)
        BY <2>6, <3>1, <3>3, <3>5 DEF Forced
      <4> HIDE DEF before, old, last
      <4>2. Joined(before, Joined(old, text)) = Joined(Joined(before, old), text)
        BY <1>5, <2>5, <4>1, JoinedAssociative DEF Legible
      <4>3. Legible(Joined(before, old))
        BY <2>5, <4>1, JoinedType
      <4>4. /\ CountTokens(Joined(before, old)) \in Nat
            /\ CountTokens(Joined(Joined(before, old), text)) \in Nat
            /\ CountTokens(Joined(before, old)) <= CountTokens(Joined(Joined(before, old), text))
        BY <1>5, <4>3, JoinedCosts
      <4>5. Len(Joined(old, text)) < MinChars => Len(old) < MinChars
        <5>1. Len(Joined(old, text)) \in Nat
          BY <1>5, <2>5, <2>7 DEF Legible
        <5> QED
          BY <1>6, <2>7, <5>1
      <4>6. ASSUME Len(Joined(old, text)) < MinChars
            PROVE  CountTokens(Joined(before, Joined(old, text))) > MaxTokens
        <5>1. CountTokens(Joined(before, old)) > MaxTokens
          BY <4>1, <4>5, <4>6 DEF OverTogether
        <5>2. CountTokens(Joined(Joined(before, old), text)) > MaxTokens
          BY <1>6, <4>4, <5>1
        <5> QED
          BY <4>2, <5>2
      <4>7. OverTogether(before, Joined(old, text))
        BY <4>6 DEF OverTogether
      <4> QED
        BY <2>2, <3>2, <4>1, <4>7 DEF before
    <3> QED
      BY <3>4, <3>5
  <2> QED
    BY <1>9, <2>8, <2>9
<1>12. CASE text # <<>> /\ ~Mergeable
  <2> DEFINE c == Chunk(text, Len(chunks))
  <2>1. chunks' = Append(chunks, c)
    BY <1>12 DEF Place
  <2>2. c.text = text
    BY DEF Chunk
  <2> HIDE DEF c
  <2>3. chunks \in Seq(S \cup {c}) /\ c \in S \cup {c}
    BY <1>2, SeqMonotonic
  <2>4. /\ Len(chunks') = Len(chunks) + 1
        /\ \A j \in 1..Len(chunks) : chunks'[j] = chunks[j]
        /\ chunks'[Len(chunks) + 1] = c
    BY <2>1, <2>3, AppendProperties
  <2>5. ASSUME NEW i \in 1..Len(chunks')
        PROVE  i \in 1..Len(chunks) \/ i = last + 1
    BY <1>3, <2>4
  <2>6. \A i \in 1..Len(chunks') : Legible(chunks'[i].text)
    <3> SUFFICES ASSUME NEW i \in 1..Len(chunks')
                 PROVE  Legible(chunks'[i].text)
      OBVIOUS
    <3>1. CASE i \in 1..Len(chunks)
      <4>1. chunks'[i] = chunks[i]
        BY <2>4, <3>1
      <4> QED
        BY <3>1, <4>1 DEF Forced
    <3>2. CASE i = last + 1
      <4>1. chunks'[i] = c
        BY <2>4, <3>2
      <4> QED
        BY <1>5, <2>2, <4>1
    <3> QED
      BY <2>5, <3>1, <3>2
  <2>7. ASSUME NEW i \in 2..Len(chunks')
        PROVE  OverTogether(chunks'[i - 1].text, chunks'[i].text)
    <3>1. i \in 1..Len(chunks') /\ i - 1 \in 1..Len(chunks)
      BY <1>3, <2>4
    <3>2. chunks'[i - 1] = chunks[i - 1]
      BY <2>4, <3>1
    <3>3. CASE i \in 1..Len(chunks)
      <4>1. i \in 2..Len(chunks) /\ chunks'[i] = chunks[i]
        BY <1>3, <2>4, <3>3
      <4>2. OverTogether(chunks[i - 1].text, chunks[i].text)
        BY <4>1 DEF Forced
      <4> QED
        BY <3>2, <4>1, <4>2
    <3>4. CASE i = last + 1
      <4>1. /\ chunks'[i] = c /\ last # 0 /\ i - 1 = last
        BY <1>3, <2>4, <3>1, <3>4
      <4>2. chunks'[i - 1].text = old /\ chunks'[i].text = text
        BY <2>2, <3>2, <4>1
      <4>3. chunks # <<>>
        <5>1. Len(<<>>) = 0
          BY EmptySeq
        <5> QED
          BY <4>1, <5>1
      <4>4. Len(text) < MinChars => ~(CountTokens(Merged) <= MaxTokens)
        BY <1>12, <4>3 DEF Mergeable
      <4>5. Legible(old)
        BY <1>8, <4>1
      <4> HIDE DEF old, last
      <4>6. CountTokens(Merged) \in Nat
        BY <1>5, <1>7, <4>5, JoinedCosts
      <4>7. Len(text) < MinChars => CountTokens(Joined(old, text)) > MaxTokens
        BY <1>6, <1>7, <4>4, <4>6
      <4> QED
        BY <4>2, <4>7 DEF OverTogether
    <3> QED
      BY <2>5, <3>1, <3>3, <3>4
  <2> QED
    BY <1>9, <2>6, <2>7
<1> QED
  BY <1>10, <1>11, <1>12

LEMMA EndForced ==
    ASSUME TypeOK, Ranked, Collected, Forced, EndItem
    PROVE  Forced'
<1>1. UNCHANGED doc /\ chunks' = <<>> /\ item \in Nat \ {0}
  BY DEF EndItem, TypeOK
<1>2. /\ Len(flat) \in Nat /\ Len(chunks) \in Nat
      /\ Len(flat') = Len(flat) + Len(chunks)
      /\ \A i \in 1..Len(flat) : flat'[i] = flat[i]
      /\ \A i \in 1..Len(chunks) : flat'[Len(flat) + i] = [item |-> item, chunk |-> chunks[i]]
  BY EndFlat
<1>3. ASSUME NEW i \in (Len(flat) + 1)..Len(flat')
      PROVE  /\ i - Len(flat) \in 1..Len(chunks)
             /\ flat'[i].item = item /\ flat'[i].chunk = chunks[i - Len(flat)]
  <2>1. i - Len(flat) \in 1..Len(chunks) /\ Len(flat) + (i - Len(flat)) = i
    BY <1>2
  <2>2. flat'[i] = [item |-> item, chunk |-> chunks[i - Len(flat)]]
    BY <1>2, <2>1
  <2> QED
    BY <2>1, <2>2
<1>4. ASSUME NEW i \in 2..Len(flat'), flat'[i - 1].item = flat'[i].item
      PROVE  OverTogether(flat'[i - 1].chunk.text, flat'[i].chunk.text)
  <2>1. CASE i <= Len(flat)
    <3>1. i \in 2..Len(flat) /\ i \in 1..Len(flat) /\ i - 1 \in 1..Len(flat)
      BY <1>2, <2>1
    <3>2. flat'[i] = flat[i] /\ flat'[i - 1] = flat[i - 1]
      BY <1>2, <3>1
    <3> QED
      BY <1>4, <3>1, <3>2 DEF Forced
  <2>2. CASE i = Len(flat) + 1
    <3>1. i \in (Len(flat) + 1)..Len(flat') /\ i - 1 \in 1..Len(flat)
      BY <1>2, <2>2
    <3>2. flat'[i].item = item /\ flat'[i - 1] = flat[i - 1]
      BY <1>2, <1>3, <3>1
    <3>3. flat[i - 1].item \in 1..(item - 1)
      BY <3>1 DEF Collected
    <3>4. flat[i - 1].item # item
      BY <1>1, <3>3
    <3> QED
      BY <1>4, <3>2, <3>4
  <2>3. CASE i > Len(flat) + 1
    <3>1. i \in (Len(flat) + 1)..Len(flat') /\ i - 1 \in (Len(flat) + 1)..Len(flat')
      BY <1>2, <2>3
    <3> DEFINE j == i - Len(flat)
    <3>2. j \in 2..Len(chunks) /\ i - 1 - Len(flat) = j - 1
      BY <1>2, <2>3
    <3>3. flat'[i].chunk = chunks[j] /\ flat'[i - 1].chunk = chunks[i - 1 - Len(flat)]
      BY <1>3, <3>1
    <3> HIDE DEF j
    <3>4. OverTogether(chunks[j - 1].text, chunks[j].text)
      BY <3>2 DEF Forced
    <3> QED
      BY <3>2, <3>3, <3>4
  <2> QED
    BY <1>2, <2>1, <2>2, <2>3
<1>5. Len(chunks') = 0
  BY <1>1, EmptySeq
<1>6. /\ \A i \in 1..Len(chunks') : Legible(chunks'[i].text)
      /\ \A i \in 2..Len(chunks') : OverTogether(chunks'[i - 1].text, chunks'[i].text)
  BY <1>5
<1> QED
  BY <1>1, <1>4, <1>6, ForcedFrame

\* With a tokenizer that splits at blanks, the chunker leaves a chunk below the
\* minimum only where it has to: the chunk is the first of its item, or is over the
\* limit together with the one before it, after all the merges that followed.
THEOREM ShortChunksAreForced ==
    ASSUME BlankSplits PROVE Spec => []ShortOnlyIfForced
<1>1. Init => Forced
  <2>1. Len(<<>>) = 0
    BY EmptySeq
  <2> QED
    BY <2>1 DEF Init, Forced
<1>2. Inv /\ Covered /\ Forced /\ [Next]_vars => Forced'
  <2> SUFFICES ASSUME TypeOK, Ranked, Collected, Covered, Forced, [Next]_vars
               PROVE  Forced'
    BY DEF Inv
  <2>1. CASE Split \/ Truncate \/ Shrink \/ UNCHANGED vars
    <3>1. UNCHANGED <<doc, chunks, flat>>
      BY <2>1 DEF Split, Truncate, Shrink, vars
    <3>2. /\ \A i \in 1..Len(chunks') : Legible(chunks'[i].text)
          /\ \A i \in 2..Len(chunks') : OverTogether(chunks'[i - 1].text, chunks'[i].text)
          /\ \A i \in 2..Len(flat') :
               flat'[i - 1].item = flat'[i].item =>
                 OverTogether(flat'[i - 1].chunk.text, flat'[i].chunk.text)
      BY <3>1 DEF Forced
    <3> QED
      BY <3>1, <3>2, ForcedFrame
  <2> QED
    BY <2>1, PlaceForced, EndForced, BlankSplits DEF Next
<1>3. Inv /\ Forced => ShortOnlyIfForced
  <2> SUFFICES ASSUME Collected, Forced, NEW i \in DOMAIN flat \ {1},
                      Len(flat[i].chunk.text) < MinChars, flat[i - 1].item = flat[i].item
               PROVE  CountTokens(flat[i - 1].chunk.text \o <<Space>> \o flat[i].chunk.text)
                        > MaxTokens
    BY DEF Inv, ShortOnlyIfForced
  <2>1. i \in 2..Len(flat)
    <3>1. DOMAIN flat = 1..Len(flat) /\ Len(flat) \in Nat
      BY DEF Collected
    <3> QED
      BY <3>1
  <2> QED
    BY <2>1 DEF Forced, OverTogether, Joined
<1> QED
  BY <1>1, <1>2, <1>3, InvInit, InvStep, FittingInit, FittingStep,
     CoveredInit, CoveredStep, PTL DEF Spec

-----------------------------------------------------------------------------
\* The loops end.

Part(p) == CASE p = "truncate" -> 3 [] p = "shrink" -> 2 [] p = "place" -> 1 [] p = "split" -> 0

\* A step ends the item, or cuts further, or brings the piece in hand nearer to its
\* place: a turn of the truncation loop makes it shorter.
Advances ==
    \/ item' > item
    \/ item' = item /\ cut'[2] > cut[2]
    \/ /\ UNCHANGED <<item, cut>>
       /\ \/ Part(pc') < Part(pc)
          \/ pc = "shrink" /\ pc' = "shrink" /\ Len(text') < Len(text)

ChunkingAdvances == [][Advances]_vars

\* str.rstrip never makes a text longer.
LEMMA PrefixShorter ==
    ASSUME item \in Nat \ {0}, Len(doc[item]) \in Nat,
           NEW t, Leads(t), NEW n \in 1..Len(t)
    PROVE  Len(Prefix(t, n)) \in Nat /\ Len(Prefix(t, n)) <= n
<1>1. PICK a \in 1..Len(doc[item]), b \in 1..Len(doc[item]) :
         a <= b /\ t = Slice(a, b) /\ doc[item][a] # Blank
  BY DEF Leads
<1>2. a \in Nat \ {0} /\ b \in Nat /\ a <= b + 1
  BY <1>1
<1>3. Len(t) = b + 1 - a
  BY <1>1, <1>2, SliceType
<1>4. 1 \in Nat \ {0} /\ n \in 0..(b + 1 - a) /\ 1 <= n + 1 /\ n \in 1..(b + 1 - a)
  BY <1>2, <1>3
<1> DEFINE e == a + n - 1
<1>5. SubSeq(t, 1, n) = Slice(a, e)
  <2>1. SubSeq(Slice(a, b), 1, n) = Slice(a + 1 - 1, a + n - 1)
    BY <1>2, <1>4, SliceOfSlice
  <2>2. a + 1 - 1 = a
    BY <1>2
  <2> QED
    BY <1>1, <2>1, <2>2
<1>6. e \in Nat /\ a \in a..e /\ e + 1 - a = n
  BY <1>2, <1>4
<1> HIDE DEF e
<1>7. PICK l \in a..e : RStrip(Slice(a, e)) = Slice(a, l)
  BY <1>1, <1>2, <1>6, RStripInk
<1>8. l \in Nat /\ a <= l + 1 /\ l + 1 - a \in Nat /\ l + 1 - a <= n
  BY <1>2, <1>4, <1>6, <1>7
<1>9. Len(Slice(a, l)) = l + 1 - a
  BY <1>2, <1>8, SliceType
<1>10. Prefix(t, n) = Slice(a, l)
  BY <1>5, <1>7 DEF Prefix
<1> QED
  BY <1>8, <1>9, <1>10

\* Every step advances, for texts of any length: 95 % of a length, rounded down, is
\* less.  Items, cuts and parts are bounded, so that chunking a document ends.
THEOREM ChunkingEnds == Spec => ChunkingAdvances
<1>1. Inv /\ Fitting /\ Covered /\ [Next]_vars => [Advances]_vars
  <2> SUFFICES ASSUME TypeOK, Fitting, Covered, Next
               PROVE  Advances
    BY DEF Inv
  <2>1. item \in Nat \ {0} /\ cut[2] \in Nat
    BY ItemType DEF Fitting
  <2>2. CASE Split
    <3>1. UNCHANGED item /\ item <= Len(doc)
      BY <2>2 DEF Split
    <3>2. Len(doc[item]) \in Nat
      BY <3>1, ItemType
    <3>3. \E first \in 1..(cut[2] + 1), last \in (cut[2] + 1)..Len(doc[item]) :
             cut' = <<first, last>>
      BY <2>2 DEF Split
    <3>4. cut'[2] > cut[2]
      BY <2>1, <3>2, <3>3
    <3> QED
      BY <3>1, <3>4 DEF Advances
  <2>3. CASE Truncate
    <3>1. pc = "truncate" /\ pc' \in {"place", "shrink"} /\ UNCHANGED <<item, cut>>
      BY <2>3 DEF Truncate
    <3>2. Part(pc') < Part(pc)
      BY <3>1 DEF Part
    <3> QED
      BY <3>1, <3>2 DEF Advances
  <2>4. CASE Shrink
    <3>1. pc = "shrink" /\ UNCHANGED <<item, cut>> /\ Leads(text)
      BY <2>4 DEF Shrink, Covered
    <3>2. CASE CountTokens(text) > MaxTokens /\ text # <<>>
      <4>1. text' = Prefix(text, (Len(text) * 19) \div 20) /\ pc' = "shrink"
        BY <2>4, <3>2 DEF Shrink
      <4>2. item \in 1..Len(doc) /\ Len(doc[item]) \in Nat /\ doc \in Documents
        BY <3>1, ItemType DEF TypeOK
      <4>3. /\ CountTokens(text) \in Nat /\ CountTokens(text) <= MaxTokens * Len(text)
            /\ Len(text) \in Nat \ {0}
        BY <2>1, <3>1, <4>2, LeadsPiece, PieceCount
      <4>4. (Len(text) * 19) \div 20 \in 1..Len(text)
        BY <3>2, <4>3, TurnLeft, LimitAssumption
      <4> DEFINE n == (Len(text) * 19) \div 20
      <4>5. n < Len(text)
        BY <4>3
      <4>6. n \in 1..Len(text) /\ text' = Prefix(text, n)
        BY <4>1, <4>4
      <4> HIDE DEF n
      <4>7. Len(text') \in Nat /\ Len(text') <= n
        BY <2>1, <3>1, <4>2, <4>6, PrefixShorter
      <4>8. Len(text') < Len(text)
        BY <4>3, <4>5, <4>6, <4>7
      <4> QED
        BY <3>1, <4>1, <4>8 DEF Advances
    <3>3. CASE ~(CountTokens(text) > MaxTokens /\ text # <<>>)
      <4>1. pc' = "place"
        BY <2>4, <3>3 DEF Shrink
      <4>2. Part(pc') < Part(pc)
        BY <3>1, <4>1 DEF Part
      <4> QED
        BY <3>1, <4>2 DEF Advances
    <3> QED
      BY <3>2, <3>3
  <2>5. CASE Place
    <3>1. pc = "place" /\ pc' = "split" /\ UNCHANGED <<item, cut>>
      BY <2>5 DEF Place
    <3>2. Part(pc') < Part(pc)
      BY <3>1 DEF Part
    <3> QED
      BY <3>1, <3>2 DEF Advances
  <2>6. CASE EndItem
    BY <2>1, <2>6 DEF EndItem, Advances
  <2> QED
    BY <2>2, <2>3, <2>4, <2>5, <2>6 DEF Next
<1> QED
  BY <1>1, InvInit, InvStep, FittingInit, FittingStep, CoveredInit, CoveredStep, PTL
     DEF Spec, ChunkingAdvances

=============================================================================
