--------------------------- MODULE MCSearchService ---------------------------
(* Small instances of SearchService.                                        *)
EXTENDS SearchService, TLC

CONSTANTS c1, c2, c3

=============================================================================
