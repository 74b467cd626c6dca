------------------------------ MODULE MCChunker ------------------------------
(* A small instance of Chunker: a tokenizer that takes a run of "w" for one  *)
(* token and every "e" for two.                                             *)
EXTENDS Chunker, FiniteSets, SequencesExt

MCTokens(s) ==
    Cardinality({i \in DOMAIN s : s[i] = "w" /\ (i = 1 \/ s[i - 1] # "w")})
      + 2 * Cardinality({i \in DOMAIN s : s[i] = "e"})

\* It splits at blanks, which ShortChunksAreForced asks of a tokenizer.
ASSUME SplitsAtBlanks ==
    \A a, b \in BoundedSeq(Kinds, 3) : MCTokens(a) <= MCTokens(a \o <<Blank>> \o b)

\* Every item of up to five characters, some longer ones, and pairs of short ones.
MCDocuments ==
    {<<s>> : s \in BoundedSeq(Kinds, 5)}
      \cup {<< <<a, "w", b, "w", "w", c, "w">> >> : a, b, c \in Kinds}
      \cup {<<s, t>> : s, t \in UNION {[1..n -> Kinds] : n \in 1..2}}

=============================================================================
