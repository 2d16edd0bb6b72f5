---------------------------- MODULE ActionState ----------------------------
(***************************************************************************)
(* The durable life of one external action in storage-sqlite: an           *)
(* ActionProposal, the ApprovalRecord that authorises it, the execution    *)
(* attempt derived from that approval, the attempt's dispatch journal and  *)
(* its receipt (approval-state.ts, action-execution-state.ts and the       *)
(* proposal transitions of draft-action-state.ts).                         *)
(*                                                                         *)
(* Every operation of the code is one synchronous BEGIN IMMEDIATE ...      *)
(* COMMIT transaction, so it is one action here; an operation that throws  *)
(* rolls back and is no step.  Callers are arbitrary: any operation may be *)
(* called at any moment with any timestamps.  The clock is the wall clock  *)
(* and may be set back.                                                    *)
(***************************************************************************)
EXTENDS Integers, Sequences

CONSTANTS
  ProposalId,       \* ids of the proposals, all created
  ApprovalId,       \* ids callers may use for approval requests
  None,             \* an absent row or column
  MaxApprovalTtl,   \* MAX_APPROVAL_TTL_MS
  MaxTime,          \* bound of the clock and of every timestamp
  MaxDispatches     \* bound of the dispatch ordinals of one attempt

ASSUME BoundsAssumption ==
  /\ MaxTime \in Nat
  /\ MaxApprovalTtl \in Nat
  /\ MaxDispatches \in Nat

Time == 0..MaxTime

ProposalState ==
  {"proposed", "awaiting_approval", "approved", "rejected", "cancelled",
   "executing", "succeeded", "failed", "uncertain"}

Proposal == [state : ProposalState, updatedAt : Time]

Decision == {"pending", "approved", "rejected", "cancelled", "expired"}

\* The three binding digests are determined by the proposal the approval
\* names: a proposal's identity, target and content are immutable columns.
Approval ==
  [proposal : ProposalId, decision : Decision, requestedAt : Time,
   expiresAt : Time, decidedAt : Time \cup {None},
   consumedAt : Time \cup {None}]

\* A verdict is the pair (outcome, retryDisposition) of a receipt: a
\* succeeded receipt has no disposition, an uncertain one is always
\* reconcile_first, a failed one is do_not_retry or retry_same_key.
Verdict == {"succeeded", "do_not_retry", "retry_same_key", "uncertain"}

\* Receipts also carry an issue code and summary, or an external reference:
\* two receipts equal here may differ there.
Receipt == [verdict : Verdict, attemptedAt : Time]

Settlement == [verdict : Verdict, settledAt : Time]

Dispatch == [reservedAt : Time, settlement : Settlement \cup {None}]

\* An absent value is none of the present ones.
ASSUME NoneAssumption ==
  None \notin Time /\ None \notin Approval /\ None \notin Receipt /\ None \notin Settlement

VARIABLES
  now,         \* the clock each operation observes
  proposals,   \* action_proposals: [ProposalId -> Proposal]
  approvals,   \* approval_records: [ApprovalId -> Approval or None]
  receipts,    \* action_receipts, one per attempt; the attempt id is a
               \* digest of the approval id, so they share the key
  dispatches   \* action_dispatches: per attempt, a row per ordinal

vars == <<now, proposals, approvals, receipts, dispatches>>
attemptVars == <<receipts, dispatches>>

TypeOK ==
  /\ now \in Time
  /\ proposals \in [ProposalId -> Proposal]
  /\ approvals \in [ApprovalId -> Approval \cup {None}]
  /\ receipts \in [ApprovalId -> Receipt \cup {None}]
  /\ dispatches \in [ApprovalId -> Seq(Dispatch)]

Init ==
  /\ now = 0
  /\ proposals = [p \in ProposalId |-> [state |-> "proposed", updatedAt |-> 0]]
  /\ approvals = [a \in ApprovalId |-> None]
  /\ receipts = [a \in ApprovalId |-> None]
  /\ dispatches = [a \in ApprovalId |-> <<>>]

(***************************************************************************)
(* Helpers                                                                 *)
(***************************************************************************)

ProposalOf(a) == approvals[a].proposal

StateOf(a) == proposals[ProposalOf(a)].state

SetProposal(p, state, at) ==
  proposals' = [proposals EXCEPT ![p] = [state |-> state, updatedAt |-> at]]

\* A receipt a later execution of the same attempt may replace.
Recoverable(verdict) == verdict \in {"uncertain", "retry_same_key"}

\* Proposal state a recorded receipt leads to.
ReceiptState(verdict) ==
  CASE verdict = "succeeded" -> "succeeded"
    [] verdict = "uncertain" -> "uncertain"
    [] OTHER -> "failed"

\* The durable preconditions of every operation on an approved action.
DurableAction(a) ==
  /\ approvals[a] # None
  /\ approvals[a].decision = "approved"
  /\ approvals[a].consumedAt # None

HasReceipt(a, verdicts) ==
  receipts[a] # None /\ receipts[a].verdict \in verdicts

Latest(a) == dispatches[a][Len(dispatches[a])]

\* Mutated form: any settled dispatch lets the next one go.
MayReserveAfterAnySettlement(a) ==
  dispatches[a] # <<>> => Latest(a).settlement # None

\* A new ordinal is reserved only on an empty journal or after a dispatch
\* that definitely did nothing.
MayReserve(a) ==
  dispatches[a] # <<>> =>
    /\ Latest(a).settlement # None
    /\ Latest(a).settlement.verdict = "retry_same_key"

(***************************************************************************)
(* Proposal and approval operations                                        *)
(***************************************************************************)

LocalTransitions ==
  {<<"proposed", "awaiting_approval">>, <<"proposed", "cancelled">>,
   <<"awaiting_approval", "rejected">>, <<"awaiting_approval", "cancelled">>}

\* The timestamp is the caller's: nothing compares it with the clock.
TransitionActionProposal(p, to, at) ==
  /\ <<proposals[p].state, to>> \in LocalTransitions
  /\ at >= proposals[p].updatedAt
  /\ SetProposal(p, to, at)
  /\ UNCHANGED <<now, approvals, attemptVars>>

RequestApproval(a, p, requestedAt, expiresAt) ==
  /\ approvals[a] = None
  /\ \A b \in ApprovalId : approvals[b] # None => ProposalOf(b) # p
  /\ requestedAt < expiresAt /\ expiresAt - requestedAt <= MaxApprovalTtl
  /\ proposals[p].state = "proposed"
  /\ proposals[p].updatedAt <= requestedAt
  /\ requestedAt <= now /\ now < expiresAt
  /\ approvals' = [approvals EXCEPT ![a] =
       [proposal |-> p, decision |-> "pending", requestedAt |-> requestedAt,
        expiresAt |-> expiresAt, decidedAt |-> None, consumedAt |-> None]]
  /\ SetProposal(p, "awaiting_approval", requestedAt)
  /\ UNCHANGED <<now, attemptVars>>

DecidedState(decision) ==
  CASE decision = "approved" -> "approved"
    [] decision = "rejected" -> "rejected"
    [] OTHER -> "cancelled"

AwaitingDecision(a) ==
  /\ approvals[a] # None
  /\ approvals[a].decision = "pending"
  /\ StateOf(a) = "awaiting_approval"

DecideApproval(a, decision, decidedAt) ==
  /\ AwaitingDecision(a)
  /\ approvals[a].requestedAt <= decidedAt /\ decidedAt <= now
  /\ IF decision = "expired"
       THEN decidedAt >= approvals[a].expiresAt
       ELSE now <= approvals[a].expiresAt
  /\ approvals' = [approvals EXCEPT ![a] =
       [@ EXCEPT !.decision = decision, !.decidedAt = decidedAt]]
  /\ SetProposal(ProposalOf(a), DecidedState(decision), decidedAt)
  /\ UNCHANGED <<now, attemptVars>>

\* Mutated form: the consumption is not ordered after the decision.
ConsumableIgnoringDecisionTime(a, at) ==
  /\ approvals[a] # None
  /\ approvals[a].decision = "approved"
  /\ at <= now /\ now <= approvals[a].expiresAt

ConsumableAt(a, at) ==
  /\ approvals[a] # None
  /\ approvals[a].decision = "approved"
  /\ approvals[a].decidedAt <= at
  /\ at <= now /\ now <= approvals[a].expiresAt

\* Consuming again returns the stored action and changes nothing.
ConsumeApproval(a, consumedAt) ==
  /\ ConsumableAt(a, consumedAt)
  /\ approvals[a].consumedAt = None
  /\ StateOf(a) = "approved"
  /\ approvals' = [approvals EXCEPT ![a].consumedAt = consumedAt]
  /\ UNCHANGED <<now, proposals, attemptVars>>

(***************************************************************************)
(* Execution operations                                                    *)
(***************************************************************************)

\* Mutated form: a failed attempt restarts whatever its retry disposition.
MayBeginAfterAnyFailure(a) ==
  \/ StateOf(a) = "approved" /\ receipts[a] = None
  \/ StateOf(a) = "failed" /\ receipts[a] # None
  \/ StateOf(a) = "uncertain" /\ HasReceipt(a, {"uncertain"})

\* States from which an attempt starts or resumes.  Starting an executing
\* attempt is a duplicate and changes nothing.
MayBegin(a) ==
  \/ StateOf(a) = "approved" /\ receipts[a] = None
  \/ StateOf(a) = "failed" /\ HasReceipt(a, {"retry_same_key"})
  \/ StateOf(a) = "uncertain" /\ HasReceipt(a, {"uncertain"})

StartableAt(a, at) ==
  /\ approvals[a].consumedAt <= at
  /\ at <= now /\ now <= approvals[a].expiresAt

BeginExecution(a, startedAt) ==
  /\ DurableAction(a)
  /\ StartableAt(a, startedAt)
  /\ MayBegin(a)
  /\ SetProposal(ProposalOf(a), "executing", startedAt)
  /\ UNCHANGED <<now, approvals, attemptVars>>

\* A reservation that is blocked by the latest dispatch changes nothing.
ReserveDispatch(a, reservedAt) ==
  /\ DurableAction(a)
  /\ StateOf(a) = "executing"
  /\ proposals[ProposalOf(a)].updatedAt <= reservedAt
  /\ reservedAt <= now /\ now <= approvals[a].expiresAt
  /\ dispatches[a] # <<>> => Latest(a).reservedAt <= now
  /\ MayReserve(a)
  /\ Len(dispatches[a]) < MaxDispatches
  /\ dispatches' = [dispatches EXCEPT ![a] =
       Append(@, [reservedAt |-> reservedAt, settlement |-> None])]
  /\ UNCHANGED <<now, proposals, approvals, receipts>>

\* Settles the latest dispatch, if there is one, with the receipt's verdict,
\* whatever that dispatch's settlement was.
SettleLatest(a, verdict) ==
  IF dispatches[a] = <<>>
    THEN UNCHANGED dispatches
    ELSE /\ Latest(a).reservedAt <= now
         /\ Latest(a).settlement # None => Latest(a).settlement.settledAt <= now
         /\ dispatches' = [dispatches EXCEPT ![a][Len(dispatches[a])].settlement =
              [verdict |-> verdict, settledAt |-> now]]

\* Where a new receipt may be stored: the first one while executing, a later
\* one over a recoverable receipt.
AcceptsReceipt(a, receipt) ==
  IF receipts[a] = None
    THEN StateOf(a) = "executing"
    ELSE /\ Recoverable(receipts[a].verdict)
         /\ StateOf(a) \in {"executing", "uncertain"}
         /\ receipts[a].attemptedAt <= receipt.attemptedAt

\* Recording a receipt identical to the stored one changes nothing or fails.
RecordReceipt(a, receipt) ==
  /\ DurableAction(a)
  /\ receipt.attemptedAt <= now
  /\ proposals[ProposalOf(a)].updatedAt <= receipt.attemptedAt
  /\ AcceptsReceipt(a, receipt)
  /\ receipts' = [receipts EXCEPT ![a] = receipt]
  /\ SetProposal(ProposalOf(a), ReceiptState(receipt.verdict),
                 receipt.attemptedAt)
  /\ SettleLatest(a, receipt.verdict)
  /\ UNCHANGED <<now, approvals>>

\* The wall clock: it advances, and may be set back.
SetClock ==
  /\ now' \in Time \ {now}
  /\ UNCHANGED <<proposals, approvals, attemptVars>>

Next ==
  \/ SetClock
  \/ \E p \in ProposalId, to \in ProposalState, at \in Time :
       TransitionActionProposal(p, to, at)
  \/ \E a \in ApprovalId, p \in ProposalId, req, exp \in Time :
       RequestApproval(a, p, req, exp)
  \/ \E a \in ApprovalId, d \in Decision \ {"pending"}, at \in Time :
       DecideApproval(a, d, at)
  \/ \E a \in ApprovalId, at \in Time : ConsumeApproval(a, at)
  \/ \E a \in ApprovalId, at \in Time : BeginExecution(a, at)
  \/ \E a \in ApprovalId, at \in Time : ReserveDispatch(a, at)
  \/ \E a \in ApprovalId, r \in Receipt : RecordReceipt(a, r)

Spec == Init /\ [][Next]_vars

(***************************************************************************)
(* Properties                                                              *)
(***************************************************************************)

ExecutionStates == {"executing", "succeeded", "failed", "uncertain"}

Authorises(a, p) ==
  /\ DurableAction(a)
  /\ ProposalOf(a) = p
  /\ approvals[a].requestedAt <= approvals[a].decidedAt
  /\ approvals[a].decidedAt <= approvals[a].consumedAt
  /\ approvals[a].consumedAt <= approvals[a].expiresAt

\* An action that runs or ran does so under an approval of that very
\* proposal, requested, granted and consumed in that order before it expired,
\* and no other attempt left a dispatch or a receipt for the proposal.
ExecutionAuthorised ==
  \A p \in ProposalId : proposals[p].state \in ExecutionStates =>
    \E a \in ApprovalId :
      /\ Authorises(a, p)
      /\ \A b \in ApprovalId \ {a} :
           approvals[b] # None /\ ProposalOf(b) = p =>
             receipts[b] = None /\ dispatches[b] = <<>>

\* A receipt or a dispatch exists only for a consumed approval, and the
\* proposal's state is the one its receipt says: retries, recoveries and
\* restarts never leave the three rows disagreeing.
StateAgreesWithReceipt ==
  \A a \in ApprovalId :
    /\ receipts[a] # None \/ dispatches[a] # <<>> => DurableAction(a)
    /\ approvals[a] # None =>
         CASE StateOf(a) = "executing" ->
                receipts[a] # None => Recoverable(receipts[a].verdict)
           [] StateOf(a) \in {"succeeded", "failed", "uncertain"} ->
                /\ receipts[a] # None
                /\ ReceiptState(receipts[a].verdict) = StateOf(a)
           [] OTHER -> receipts[a] = None /\ dispatches[a] = <<>>

\* The dispatch journal never lets two sends overlap: every dispatch before
\* the latest is settled as having done nothing.
RetriesOnlyAfterNoEffect ==
  \A a \in ApprovalId : \A i \in 1..(Len(dispatches[a]) - 1) :
    /\ dispatches[a][i].settlement # None
    /\ dispatches[a][i].settlement.verdict = "retry_same_key"

\* An open dispatch belongs to a running action; a settled latest dispatch
\* carries the verdict of the stored receipt.
SettlementAgreesWithReceipt ==
  \A a \in ApprovalId : dispatches[a] # <<>> =>
    IF Latest(a).settlement = None
      THEN StateOf(a) = "executing"
      ELSE HasReceipt(a, {Latest(a).settlement.verdict})

\* Every authorised send was reserved between the consumption of its
\* approval and the approval's expiry, however often the attempt restarted.
DispatchWithinApproval ==
  \A a \in ApprovalId : \A i \in 1..Len(dispatches[a]) :
    /\ dispatches[a][i].reservedAt >= approvals[a].consumedAt
    /\ dispatches[a][i].reservedAt <= approvals[a].expiresAt

\* A proposal that was rejected, withdrawn or finished is never revived: not
\* by a decision on an approval that stayed pending when the proposal was
\* withdrawn, and not by a late receipt or a second execution.
Closed(p) ==
  \/ proposals[p].state \in {"rejected", "cancelled", "succeeded"}
  \/ \E a \in ApprovalId :
       approvals[a] # None /\ ProposalOf(a) = p /\ HasReceipt(a, {"do_not_retry"})

ClosedStaysClosed ==
  [][\A p \in ProposalId : Closed(p) => proposals'[p] = proposals[p]]_vars

(***************************************************************************)
(* The inductive invariant behind the properties                           *)
(***************************************************************************)

\* A proposal is bound to one approval request for good.
OneApprovalPerProposal ==
  \A a, b \in ApprovalId :
    approvals[a] # None /\ approvals[b] # None /\ ProposalOf(a) = ProposalOf(b) => a = b

\* The times of a granted approval are present and ordered.
ApprovalChronology ==
  \A a \in ApprovalId : approvals[a] # None =>
    /\ approvals[a].decision = "approved" =>
         /\ approvals[a].decidedAt # None
         /\ approvals[a].requestedAt <= approvals[a].decidedAt
    /\ approvals[a].consumedAt # None =>
         /\ approvals[a].decision = "approved"
         /\ approvals[a].decidedAt <= approvals[a].consumedAt
         /\ approvals[a].consumedAt <= approvals[a].expiresAt

\* The states a proposal can be in under each decision of its approval.
DecisionBoundsState ==
  \A a \in ApprovalId : approvals[a] # None =>
    CASE approvals[a].decision = "pending" ->
           StateOf(a) \in {"awaiting_approval", "rejected", "cancelled"}
      [] approvals[a].decision = "approved" ->
           \/ StateOf(a) = "approved"
           \/ approvals[a].consumedAt # None /\ StateOf(a) \in ExecutionStates
      [] OTHER -> StateOf(a) \in {"rejected", "cancelled"}

\* A running execution started after its approval was consumed.
StartedAfterConsumption ==
  \A a \in ApprovalId : approvals[a] # None /\ StateOf(a) = "executing" =>
    approvals[a].consumedAt <= proposals[ProposalOf(a)].updatedAt

\* Only an approval takes a proposal past the local states.
ApprovalBeforeExecution ==
  \A p \in ProposalId : proposals[p].state \in {"approved"} \cup ExecutionStates =>
    \E a \in ApprovalId : approvals[a] # None /\ ProposalOf(a) = p

\* The invariant every operation preserves, whatever its arguments and
\* whatever the clock does: the rows of an action always fit together.
RowsFitTogether ==
  /\ TypeOK
  /\ OneApprovalPerProposal
  /\ ApprovalChronology
  /\ DecisionBoundsState
  /\ StartedAfterConsumption
  /\ ApprovalBeforeExecution
  /\ StateAgreesWithReceipt
  /\ RetriesOnlyAfterNoEffect
  /\ SettlementAgreesWithReceipt
  /\ DispatchWithinApproval
=============================================================================
