------------------------- MODULE MCReplyExecution -------------------------
(* Small instances of ReplyExecution for TLC. *)
EXTENDS ReplyExecution, TLC

\* Processes are interchangeable.
HostSymmetry == Permutations(Host)
=============================================================================
