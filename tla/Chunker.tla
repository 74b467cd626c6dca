------------------------------- MODULE Chunker -------------------------------
(***************************************************************************)
(* How the upload pipeline makes chunks of a document: chunk_item of         *)
(* apps/ingestion/chunker.py for one item after the other, and the list the *)
(* pipeline collects.  A splitter cuts an item by characters; a piece over   *)
(* the model's token limit is truncated in a loop; a chunk that is too short *)
(* is merged into the one before it.                                        *)
(*                                                                         *)
(* A text is a sequence of places <<item, character>>, so that it can be said *)
(* where a chunk comes from; Space is the blank that a merge inserts.       *)
(***************************************************************************)
EXTENDS Integers, Sequences

CONSTANTS
    Kinds,       \* kinds of characters, the blank among them
    Blank,
    Documents,   \* documents: sequences of items, each a sequence of kinds
    Size,        \* characters of a piece the splitter cuts (chunk_size)
    Overlap,     \* characters two pieces may share (chunk_overlap)
    MinChars,    \* MIN_CHUNK_CHARS
    MaxTokens,   \* MAX_CHUNK_TOKENS
    Tokens(_)    \* the tokenizer's count for a sequence of kinds

ASSUME ContentAssumption == Blank \in Kinds /\ Documents \subseteq Seq(Seq(Kinds))
ASSUME LimitAssumption ==
    /\ Size \in Nat \ {0} /\ Overlap \in Nat
    /\ MinChars \in Nat /\ MaxTokens \in Nat \ {0}
\* The limit of 600 is far above what one character costs.
ASSUME TokenAssumption ==
    \A doc \in Documents : \A i \in DOMAIN doc : \A a, b \in DOMAIN doc[i] :
        Tokens(SubSeq(doc[i], a, b)) \in 0..MaxTokens * Len(SubSeq(doc[i], a, b))

VARIABLES
    doc,      \* body["items"], as far as chunking reads it
    item,     \* the item chunk_item works on
    cut,      \* first and last character of the piece the splitter cut last
    text,     \* the piece in hand
    chunks,   \* the chunks of the item
    flat,     \* the chunks of the items before it, with their item
    capped,   \* the places of the pieces that were over the limit
    pc        \* what is done with the piece in hand

vars == <<doc, item, cut, text, chunks, flat, capped, pc>>

Space == <<0, 0>>

Kind(p) == IF p = Space THEN Blank ELSE doc[p[1]][p[2]]

Spelled(t) == [i \in DOMAIN t |-> Kind(t[i])]

CountTokens(t) == Tokens(Spelled(t))

Places(t) == {t[i] : i \in DOMAIN t}

Inked(t) == {i \in DOMAIN t : Kind(t[i]) # Blank}

\* str.rstrip and str.strip.
RStrip(t) == SubSeq(t, 1, IF Inked(t) = {} THEN 0
                          ELSE CHOOSE j \in Inked(t) : \A i \in Inked(t) : i <= j)
Strip(t) == IF Inked(t) = {} THEN <<>>
            ELSE LET first == CHOOSE j \in Inked(t) : \A i \in Inked(t) : j <= i
                 IN  RStrip(SubSeq(t, first, Len(t)))

Prefix(t, n) == RStrip(SubSeq(t, 1, n))

Slice(first, last) == [i \in 1..(last + 1 - first) |-> <<item, first + i - 1>>]

Chunk(t, index) == [text |-> t, index |-> index, tokens |-> CountTokens(t)]

Init ==
    /\ doc \in Documents
    /\ item = 1
    /\ cut = <<0, 0>>
    /\ text = <<>> /\ chunks = <<>> /\ flat = <<>>
    /\ capped = {}
    /\ pc = "split"

-----------------------------------------------------------------------------
\* Mistakes the code could have made.

Shrink_RoundsUp ==
    /\ pc = "shrink"
    /\ IF CountTokens(text) > MaxTokens
       THEN text' = Prefix(text, (Len(text) * 19 + 19) \div 20) /\ UNCHANGED pc
       ELSE pc' = "place" /\ UNCHANGED text
    /\ UNCHANGED <<doc, item, cut, chunks, flat, capped>>

Place_Drops ==
    /\ pc = "place"
    /\ chunks' = IF Len(text) < MinChars /\ chunks # <<>> THEN chunks
                 ELSE Append(chunks, Chunk(text, Len(chunks)))
    /\ pc' = "split"
    /\ UNCHANGED <<doc, item, cut, text, flat, capped>>

Place_IgnoresLimit ==
    /\ pc = "place"
    /\ chunks' =
         IF Len(text) < MinChars /\ chunks # <<>>
         THEN [chunks EXCEPT ![Len(chunks)] =
                 Chunk(@.text \o <<Space>> \o text, @.index)]
         ELSE Append(chunks, Chunk(text, Len(chunks)))
    /\ pc' = "split"
    /\ UNCHANGED <<doc, item, cut, text, flat, capped>>

\* The merged chunk takes the number the piece would have had.
Place_Renumbers ==
    /\ pc = "place"
    /\ chunks' =
         IF Len(text) < MinChars /\ chunks # <<>>
         THEN [chunks EXCEPT ![Len(chunks)] =
                 Chunk(@.text \o <<Space>> \o text, Len(chunks))]
         ELSE Append(chunks, Chunk(text, Len(chunks)))
    /\ pc' = "split"
    /\ UNCHANGED <<doc, item, cut, text, flat, capped>>

Place_NeverMerges ==
    /\ pc = "place"
    /\ chunks' = Append(chunks, Chunk(text, Len(chunks)))
    /\ pc' = "split"
    /\ UNCHANGED <<doc, item, cut, text, flat, capped>>

-----------------------------------------------------------------------------
\* The splitter: the next piece, of at most Size characters, goes on where the
\* last ended or overlaps it.  Where it cuts is the library's choice.  Pieces
\* of blanks are dropped, others stripped.
Split ==
    /\ pc = "split" /\ item <= Len(doc)
    /\ \E first \in 1..(cut[2] + 1), last \in (cut[2] + 1)..Len(doc[item]) :
         /\ first >= cut[1] /\ first + Overlap > cut[2] /\ last < first + Size
         /\ cut' = <<first, last>>
         /\ text' = Strip(Slice(first, last))
    /\ pc' = IF text' = <<>> THEN "split" ELSE "truncate"
    /\ UNCHANGED <<doc, item, chunks, flat, capped>>

\* _truncate_to_max_tokens up to its loop.
Truncate ==
    /\ pc = "truncate"
    /\ LET n == CountTokens(text) IN
         \/ n <= MaxTokens /\ pc' = "place" /\ UNCHANGED <<text, capped>>
         \/ /\ n > MaxTokens
            /\ text' = Prefix(text, (Len(text) * MaxTokens) \div n)
            /\ capped' = capped \cup Places(text)
            /\ pc' = "shrink"
    /\ UNCHANGED <<doc, item, cut, chunks, flat>>

\* The loop: 5 % less per turn.
Shrink ==
    /\ pc = "shrink"
    /\ IF CountTokens(text) > MaxTokens /\ text # <<>>
       THEN text' = Prefix(text, (Len(text) * 19) \div 20) /\ UNCHANGED pc
       ELSE pc' = "place" /\ UNCHANGED text
    /\ UNCHANGED <<doc, item, cut, chunks, flat, capped>>

Merged == chunks[Len(chunks)].text \o <<Space>> \o text

Mergeable ==
    /\ Len(text) < MinChars /\ chunks # <<>>
    /\ CountTokens(Merged) <= MaxTokens

Place ==
    /\ pc = "place"
    /\ chunks' =
         IF text = <<>> THEN chunks
         ELSE IF Mergeable
         THEN [chunks EXCEPT ![Len(chunks)] = Chunk(Merged, @.index)]
         ELSE Append(chunks, Chunk(text, Len(chunks)))
    /\ pc' = "split"
    /\ UNCHANGED <<doc, item, cut, text, flat, capped>>

\* The whole item was split.  The fallback of chunk_item, for a text that is not
\* blank and left no chunk, is not modelled: NothingLost says it is never taken.
EndItem ==
    /\ pc = "split" /\ item <= Len(doc)
    /\ cut[2] = Len(doc[item])
    /\ flat' = flat \o [i \in DOMAIN chunks |-> [item |-> item, chunk |-> chunks[i]]]
    /\ item' = item + 1 /\ cut' = <<0, 0>> /\ chunks' = <<>>
    /\ UNCHANGED <<doc, text, capped, pc>>

Next == Split \/ Truncate \/ Shrink \/ Place \/ EndItem

Spec == Init /\ [][Next]_vars

FairSpec == Spec /\ WF_vars(Next)

-----------------------------------------------------------------------------
\* Properties.

Done == item > Len(doc)

TypeOK ==
    /\ doc \in Documents /\ item \in 1..(Len(doc) + 1)
    /\ pc \in {"split", "truncate", "shrink", "place"}
    /\ \A i \in DOMAIN chunks : chunks[i].index \in Nat
    /\ pc # "split" => item <= Len(doc)

\* Every chunk can be embedded: embed_passages refuses a blank text, and the
\* model cuts off what is over the limit.  Its recorded count is its own.
Fits ==
    \A i \in DOMAIN flat :
        LET c == flat[i].chunk IN
          /\ Inked(c.text) # {}
          /\ c.tokens = CountTokens(c.text) /\ c.tokens <= MaxTokens

\* No two chunks of a document have one id, and so one point in Qdrant: the
\* index of a chunk is its rank in its item, also after merges.
IdsDistinct ==
    \A i, j \in DOMAIN flat :
        i # j => <<flat[i].item, flat[i].chunk.index>> # <<flat[j].item, flat[j].chunk.index>>

\* Every character that is not blank is in a chunk, unless it was in a piece
\* over the limit; and such a piece leaves a chunk, so that only a document of
\* blanks leaves none (422 no_embeddable_content).
NothingLost ==
    Done => \A i \in DOMAIN doc :
        LET ink  == {p \in {i} \X DOMAIN doc[i] : doc[i][p[2]] # Blank}
            kept == UNION {Places(flat[j].chunk.text) : j \in DOMAIN flat}
        IN  /\ ink \subseteq kept \cup capped
            /\ ink # {} => ink \cap kept # {}

\* A chunk below the minimum is the first of its item, or together with the one
\* before it would be over the limit.
ShortOnlyIfForced ==
    \A i \in DOMAIN flat \ {1} :
        LET before == flat[i - 1] this == flat[i] IN
          (Len(this.chunk.text) < MinChars /\ before.item = this.item) =>
              CountTokens(before.chunk.text \o <<Space>> \o this.chunk.text) > MaxTokens

\* Chunking ends, the truncation loop with it.
Ends == <>Done

=============================================================================
