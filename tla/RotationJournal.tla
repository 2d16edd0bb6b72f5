---------------------------- MODULE RotationJournal ----------------------------
(***************************************************************************)
(* What the rotation journal promises, without the file, the memory of the *)
(* process, failed appends, requests and the Keychain: rotations are       *)
(* numbered, each is resolved before the next begins, and the next one is  *)
(* of a newer credential.  So the refresh token of a credential is         *)
(* reserved for one rotation only.  A journal that cannot be read takes no *)
(* event any more.                                                         *)
(***************************************************************************)
EXTENDS Naturals

CONSTANT Time   \* when a credential may have been obtained

VARIABLES
  number,   \* of the last rotation, or 0
  state,    \* how far it is
  source,   \* when the credential was obtained that it renews
  readable  \* whether the journal could be read

vars == <<number, state, source, readable>>

Resolved == {"completed", "reauthorized"}

\* Only the person leads a rotation out of "reauthorization_required".
NextStates ==
  CASE state = "reserved" -> {"completed", "uncertain", "reauthorization_required"}
    [] state = "uncertain" -> {"completed"}
    [] state = "reauthorization_required" -> {"reauthorization_reserved"}
    [] state = "reauthorization_reserved" -> {"reauthorization_required", "reauthorized"}
    [] OTHER -> {}

Nothing == number = 0 /\ state = "none" /\ source = 0

Init == Nothing /\ readable = TRUE

Begin ==
  /\ state \in {"none"} \cup Resolved
  /\ number' = number + 1 /\ state' = "reserved"
  /\ source' \in Time /\ (state # "none" => source' > source)

Advance ==
  /\ state' \in NextStates
  /\ UNCHANGED <<number, source>>

Record == readable /\ readable' /\ (Begin \/ Advance)

Lose == readable /\ ~readable' /\ Nothing'

Next == Record \/ Lose

Spec == Init /\ [][Next]_vars
================================================================================
