------------------------- MODULE MCDisturbedPipeline -------------------------
(* DisturbedPipeline with the values of MCDocumentPipeline.                  *)
EXTENDS DisturbedPipeline, MCDocumentPipeline

=============================================================================
