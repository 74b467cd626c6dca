----------------------------- MODULE MCReadiness -----------------------------
(* Small instances of Readiness.                                            *)
EXTENDS Readiness, TLC

CONSTANTS t1, t2

=============================================================================
