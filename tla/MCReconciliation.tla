--------------------------- MODULE MCReconciliation ---------------------------
(* Requests differ only in their names.                                      *)
EXTENDS WebPages, TLC

Symmetry == Permutations(Call)
===============================================================================
