---- MODULE MCThreadWork ----
(* A conversation of two messages and a draft of two revisions; one text is   *)
(* as good as another.                                                        *)
EXTENDS ThreadWork, TLC

Symmetry == Permutations(Text) \cup Permutations(Persona)

(* A request for a model draft that is there with its audit changes nothing.  *)
RunIsNeeded == generating # None => ModelRunAudit \notin audits /\ created = {}
====
