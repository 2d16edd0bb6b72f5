------------------------ MODULE ActionStateImplements ------------------------
(***************************************************************************)
(* ActionState implements ActionLifecycle: how the rows of an action show  *)
(* its phase, its sends and whether a further one is clear.                *)
(***************************************************************************)
EXTENDS ActionState

Bound(a, p) == approvals[a] # None /\ ProposalOf(a) = p

\* A proposal has at most one approval, so there is one choice.
ApprovalFor(p) == CHOOSE a \in ApprovalId : Bound(a, p)

HasApproval(p) == \E a \in ApprovalId : Bound(a, p)

PhaseOf(p) ==
  LET state == proposals[p].state IN
  CASE state \in {"proposed", "awaiting_approval"} -> "open"
    [] state = "approved" -> "granted"
    [] state = "executing" -> "running"
    [] state = "uncertain" -> "paused"
    [] state = "failed" /\ HasReceipt(ApprovalFor(p), {"retry_same_key"}) -> "paused"
    [] OTHER -> "closed"

SendsOf(p) == IF HasApproval(p) THEN Len(dispatches[ApprovalFor(p)]) ELSE 0

ClearFor(p) == HasApproval(p) => MayReserve(ApprovalFor(p))

Lifecycle == INSTANCE ActionLifecycle WITH
  phase <- [p \in ProposalId |-> PhaseOf(p)],
  sends <- [p \in ProposalId |-> SendsOf(p)],
  clear <- [p \in ProposalId |-> ClearFor(p)]

\* Whatever its callers do, the store keeps the promise: no action runs
\* without a grant, none is revived, and no send is authorised on top of one
\* that is open, succeeded, or of unknown outcome.
KeepsLifecycle == Lifecycle!Spec
=============================================================================
