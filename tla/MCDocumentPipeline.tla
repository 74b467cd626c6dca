------------------------- MODULE MCDocumentPipeline -------------------------
(* Small instances of DocumentPipeline: the values its cfgs choose from.    *)
EXTENDS DocumentPipeline, TLC

CONSTANTS w1, w2, s1, s2, d1, d2, long, short, big, empty

\* long and short share chunk 1, so that an upsert of one overwrites a part of
\* the other; big is over MaxChunks = 2; empty leaves no chunk.
MCChunkIds == 1..3
MCChunksOf ==
    [b \in Bodies |-> CASE b = long  -> {1, 2}
                        [] b = short -> {1}
                        [] b = big   -> {1, 2, 3}
                        [] b = empty -> {}]
MCHashOf == [b \in Bodies |-> b]

\* Every document belongs to one bot; or two bots address the same document.
MCOneOwner == {<<s1, d>> : d \in Docs}
MCTwoOwners == Scopes \X Docs
MCKeyOf == [t \in Targets |-> t]

MCWorkerSymmetry == Permutations(Workers)

=============================================================================
