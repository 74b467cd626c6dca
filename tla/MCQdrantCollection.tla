------------------------- MODULE MCQdrantCollection -------------------------
(* Small instances of QdrantCollection.                                     *)
EXTENDS QdrantCollection, TLC

CONSTANTS c1, c2, d1, d2

=============================================================================
