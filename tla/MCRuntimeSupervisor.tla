-------------------------- MODULE MCRuntimeSupervisor --------------------------
(* The instance of RuntimeSupervisor that TLC checks; its values are in the cfg. *)
EXTENDS RuntimeSupervisor
=============================================================================
