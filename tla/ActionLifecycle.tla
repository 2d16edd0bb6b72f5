--------------------------- MODULE ActionLifecycle ---------------------------
(***************************************************************************)
(* What the action store promises its callers of each proposed external    *)
(* action, without rows, times, approvals or receipts: it is granted       *)
(* before it runs, a closed action stays closed, and a send is authorised  *)
(* only while the action runs and only if every earlier send is known to   *)
(* have done nothing.                                                      *)
(***************************************************************************)
EXTENDS Naturals

CONSTANT ProposalId

VARIABLES
  phase,  \* where each action is
  sends,  \* how many sends have been authorised for it
  clear   \* whether a further send would be authorised

vars == <<phase, sends, clear>>

Phase == {"open", "granted", "running", "paused", "closed"}

Init ==
  /\ phase = [p \in ProposalId |-> "open"]
  /\ sends = [p \in ProposalId |-> 0]
  /\ clear = [p \in ProposalId |-> TRUE]

Enter(p, to) == phase' = [phase EXCEPT ![p] = to]

\* Rejected, cancelled or expired.
Withdraw(p) ==
  /\ phase[p] = "open"
  /\ Enter(p, "closed")
  /\ UNCHANGED <<sends, clear>>

Grant(p) ==
  /\ phase[p] = "open"
  /\ Enter(p, "granted")
  /\ UNCHANGED <<sends, clear>>

Start(p) ==
  /\ phase[p] \in {"granted", "paused"}
  /\ Enter(p, "running")
  /\ UNCHANGED <<sends, clear>>

Send(p) ==
  /\ phase[p] = "running"
  /\ clear[p]
  /\ sends' = [sends EXCEPT ![p] = @ + 1]
  /\ clear' = [clear EXCEPT ![p] = FALSE]
  /\ UNCHANGED phase

\* A result is known to have done nothing, or it closes the action, or it is
\* unknown.  Only the first clears the way for a further send.
Report(p, nothingDone, to) ==
  /\ phase[p] \in {"running", "paused"}
  /\ nothingDone => to = "paused"
  /\ Enter(p, to)
  /\ clear' = [clear EXCEPT ![p] = nothingDone \/ sends[p] = 0]
  /\ UNCHANGED sends

Next ==
  \E p \in ProposalId :
    \/ Withdraw(p) \/ Grant(p) \/ Start(p) \/ Send(p)
    \/ \E nothingDone \in BOOLEAN, to \in {"paused", "closed"} :
         Report(p, nothingDone, to)

Spec == Init /\ [][Next]_vars
=============================================================================
