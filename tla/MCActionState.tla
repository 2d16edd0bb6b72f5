--------------------------- MODULE MCActionState ---------------------------
(* Small instances of ActionState for TLC. *)
EXTENDS ActionStateImplements, TLC

\* Proposals and approval ids are interchangeable.
ActionSymmetry == Permutations(ProposalId) \cup Permutations(ApprovalId)
=============================================================================
