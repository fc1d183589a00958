--------------------------- MODULE MCServerCopies ---------------------------
(***************************************************************************)
(* Two Server values, enough filters to fill a backing array of four.      *)
(***************************************************************************)
EXTENDS ServerCopies, TLC

Filters == Permutations(Filter)
=============================================================================
