--------------------------- MODULE MCOAuthRotation ---------------------------
(* Values for checking OAuthRotation with TLC. *)
EXTENDS OAuthRotation, TLC

OpSymmetry == Permutations(Op)
=============================================================================
