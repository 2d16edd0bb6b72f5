------------------------- MODULE ActionStateProofs -------------------------
(***************************************************************************)
(* Proofs about ActionState, for every number of proposals, approvals,     *)
(* dispatches and instants: its rows always fit together, whatever callers *)
(* do and whatever the clock does, and it implements ActionLifecycle.      *)
(***************************************************************************)
EXTENDS ActionStateImplements, SequenceTheorems, TLAPS

(***************************************************************************)
(* Type correctness                                                        *)
(***************************************************************************)

\* A proposal moved to a state at a time stays a table of proposals.
LEMMA SetProposalType ==
  ASSUME TypeOK, NEW p \in ProposalId, NEW s \in ProposalState, NEW t \in Time,
         SetProposal(p, s, t)
  PROVE  proposals' \in [ProposalId -> Proposal]
BY DEF TypeOK, SetProposal, Proposal

\* A settled journal is a journal of the same length with the same
\* reservations, and only its last entry may differ.
LEMMA SettleLatestType ==
  ASSUME TypeOK, NEW a \in ApprovalId, NEW v \in Verdict, SettleLatest(a, v)
  PROVE  dispatches' \in [ApprovalId -> Seq(Dispatch)]
<1>1. CASE dispatches[a] = <<>>
  BY <1>1 DEF TypeOK, SettleLatest
<1>2. CASE dispatches[a] # <<>>
  <2> DEFINE n == Len(dispatches[a])
             settlement == [verdict |-> v, settledAt |-> now]
             row == [dispatches[a][n] EXCEPT !.settlement = settlement]
  <2>1. dispatches[a] \in Seq(Dispatch) /\ n \in Nat \ {0}
    BY <1>2 DEF TypeOK
  <2>2. dispatches[a][n] \in Dispatch
    BY <2>1
  <2>3. settlement \in Settlement
    BY DEF TypeOK, Settlement
  <2>4. row \in Dispatch
    BY <2>2, <2>3 DEF Dispatch
  <2>5. [dispatches[a] EXCEPT ![n] = row] \in Seq(Dispatch)
    BY <2>1, <2>4
  <2>6. dispatches' = [dispatches EXCEPT ![a] = [dispatches[a] EXCEPT ![n] = row]]
    BY <1>2 DEF SettleLatest
  <2> QED BY <2>5, <2>6 DEF TypeOK
<1> QED BY <1>1, <1>2

\* Settling gives the last entry the verdict and leaves everything else.
LEMMA SettleLatestEffect ==
  ASSUME TypeOK, NEW a \in ApprovalId, NEW v \in Verdict, SettleLatest(a, v)
  PROVE  /\ dispatches[a] = <<>> => dispatches' = dispatches
         /\ dispatches[a] # <<>> =>
              /\ Len(dispatches[a]) \in Nat \ {0}
              /\ Len(dispatches'[a]) = Len(dispatches[a])
              /\ dispatches'[a][Len(dispatches[a])].reservedAt = Latest(a).reservedAt
              /\ dispatches'[a][Len(dispatches[a])].settlement # None
              /\ dispatches'[a][Len(dispatches[a])].settlement.verdict = v
              /\ \A i \in 1..(Len(dispatches[a]) - 1) : dispatches'[a][i] = dispatches[a][i]
         /\ \A b \in ApprovalId \ {a} : dispatches'[b] = dispatches[b]
<1>1. CASE dispatches[a] = <<>>
  BY <1>1 DEF SettleLatest
<1>2. CASE dispatches[a] # <<>>
  <2> DEFINE n == Len(dispatches[a])
             settlement == [verdict |-> v, settledAt |-> now]
             row == [dispatches[a][n] EXCEPT !.settlement = settlement]
  <2>1. dispatches[a] \in Seq(Dispatch) /\ n \in Nat \ {0} /\ dispatches[a][n] \in Dispatch
    BY <1>2 DEF TypeOK
  <2>2. settlement \in Settlement /\ settlement # None
    BY NoneAssumption DEF TypeOK, Settlement
  <2>3. /\ row.reservedAt = dispatches[a][n].reservedAt
        /\ row.settlement = settlement
    BY <2>1 DEF Dispatch
  <2>4. dispatches' = [dispatches EXCEPT ![a] = [dispatches[a] EXCEPT ![n] = row]]
    BY <1>2 DEF SettleLatest
  <2>5. /\ dispatches'[a] = [dispatches[a] EXCEPT ![n] = row]
        /\ \A b \in ApprovalId \ {a} : dispatches'[b] = dispatches[b]
    BY <2>4 DEF TypeOK
  <2>6. /\ Len(dispatches'[a]) = n /\ dispatches'[a][n] = row
        /\ \A i \in 1..(n - 1) : dispatches'[a][i] = dispatches[a][i]
    BY <2>1, <2>5
  <2> QED BY <1>2, <2>1, <2>2, <2>3, <2>5, <2>6 DEF Latest
<1> QED BY <1>1, <1>2

\* Every operation keeps every row well formed.
LEMMA TypeStep == TypeOK /\ [Next]_vars => TypeOK'
<1> SUFFICES ASSUME TypeOK, [Next]_vars PROVE TypeOK'
  OBVIOUS
<1>1. CASE UNCHANGED vars
  BY <1>1 DEF TypeOK, vars
<1>2. CASE SetClock
  BY <1>2 DEF TypeOK, SetClock, attemptVars
<1>3. ASSUME NEW p \in ProposalId, NEW to \in ProposalState, NEW at \in Time,
             TransitionActionProposal(p, to, at)
      PROVE  TypeOK'
  BY <1>3, SetProposalType DEF TypeOK, TransitionActionProposal, attemptVars
<1>4. ASSUME NEW a \in ApprovalId, NEW p \in ProposalId, NEW req \in Time, NEW exp \in Time,
             RequestApproval(a, p, req, exp)
      PROVE  TypeOK'
  <2>1. "awaiting_approval" \in ProposalState
    BY DEF ProposalState
  <2>2. proposals' \in [ProposalId -> Proposal]
    BY <1>4, <2>1, SetProposalType DEF RequestApproval
  <2>3. approvals' \in [ApprovalId -> Approval \cup {None}]
    BY <1>4 DEF RequestApproval, TypeOK, Approval, Decision
  <2> QED BY <1>4, <2>2, <2>3 DEF TypeOK, RequestApproval, attemptVars
<1>5. ASSUME NEW a \in ApprovalId, NEW d \in Decision \ {"pending"}, NEW at \in Time,
             DecideApproval(a, d, at)
      PROVE  TypeOK'
  <2>1. approvals[a] \in Approval
    BY <1>5 DEF TypeOK, DecideApproval, AwaitingDecision
  <2>2. ProposalOf(a) \in ProposalId /\ DecidedState(d) \in ProposalState
    BY <2>1 DEF ProposalOf, Approval, DecidedState, ProposalState
  <2>3. proposals' \in [ProposalId -> Proposal]
    BY <1>5, <2>2, SetProposalType DEF DecideApproval
  <2>4. approvals' \in [ApprovalId -> Approval \cup {None}]
    BY <1>5, <2>1 DEF DecideApproval, TypeOK, Approval
  <2> QED BY <1>5, <2>3, <2>4 DEF TypeOK, DecideApproval, attemptVars
<1>6. ASSUME NEW a \in ApprovalId, NEW at \in Time, ConsumeApproval(a, at)
      PROVE  TypeOK'
  <2>1. approvals[a] \in Approval
    BY <1>6 DEF TypeOK, ConsumeApproval, ConsumableAt
  <2>2. approvals' \in [ApprovalId -> Approval \cup {None}]
    BY <1>6, <2>1 DEF ConsumeApproval, TypeOK, Approval
  <2> QED BY <1>6, <2>2 DEF TypeOK, ConsumeApproval, attemptVars
<1>7. ASSUME NEW a \in ApprovalId, NEW at \in Time, BeginExecution(a, at)
      PROVE  TypeOK'
  <2>1. ProposalOf(a) \in ProposalId /\ "executing" \in ProposalState
    BY <1>7 DEF TypeOK, BeginExecution, DurableAction, ProposalOf, Approval, ProposalState
  <2>2. proposals' \in [ProposalId -> Proposal]
    BY <1>7, <2>1, SetProposalType DEF BeginExecution
  <2> QED BY <1>7, <2>2 DEF TypeOK, BeginExecution, attemptVars
<1>8. ASSUME NEW a \in ApprovalId, NEW at \in Time, ReserveDispatch(a, at)
      PROVE  TypeOK'
  <2>1. [reservedAt |-> at, settlement |-> None] \in Dispatch
    BY DEF Dispatch
  <2>2. dispatches' \in [ApprovalId -> Seq(Dispatch)]
    BY <1>8, <2>1 DEF ReserveDispatch, TypeOK
  <2> QED BY <1>8, <2>2 DEF TypeOK, ReserveDispatch
<1>9. ASSUME NEW a \in ApprovalId, NEW r \in Receipt, RecordReceipt(a, r)
      PROVE  TypeOK'
  <2>1. ProposalOf(a) \in ProposalId
    BY <1>9 DEF TypeOK, RecordReceipt, DurableAction, ProposalOf, Approval
  <2>2. r.verdict \in Verdict /\ r.attemptedAt \in Time /\ ReceiptState(r.verdict) \in ProposalState
    BY DEF Receipt, ReceiptState, ProposalState
  <2>3. proposals' \in [ProposalId -> Proposal]
    BY <1>9, <2>1, <2>2, SetProposalType DEF RecordReceipt
  <2>4. dispatches' \in [ApprovalId -> Seq(Dispatch)]
    BY <1>9, <2>2, SettleLatestType DEF RecordReceipt
  <2> QED BY <1>9, <2>3, <2>4 DEF TypeOK, RecordReceipt
<1> QED BY <1>1, <1>2, <1>3, <1>4, <1>5, <1>6, <1>7, <1>8, <1>9 DEF Next

\* The rows of the store are well formed in every reachable state.
THEOREM TypeCorrect == Spec => []TypeOK
<1>1. Init => TypeOK
  BY BoundsAssumption DEF Init, TypeOK, Time, Proposal, ProposalState
<1> QED BY <1>1, TypeStep, PTL DEF Spec

(***************************************************************************)
(* The rows fit together: one lemma per operation                          *)
(***************************************************************************)

\* The clock and a stutter touch no row.
LEMMA ClockStep ==
  ASSUME RowsFitTogether, UNCHANGED <<proposals, approvals, receipts, dispatches>>, TypeOK'
  PROVE  RowsFitTogether'
BY DEF RowsFitTogether, OneApprovalPerProposal, ApprovalChronology, DecisionBoundsState,
       StartedAfterConsumption,
       ApprovalBeforeExecution, StateAgreesWithReceipt, RetriesOnlyAfterNoEffect,
       SettlementAgreesWithReceipt, DispatchWithinApproval, StateOf, ProposalOf,
       DurableAction, HasReceipt, Latest

\* A local transition only leaves states in which nothing was executed.
LEMMA TransitionStep ==
  ASSUME RowsFitTogether, TypeOK',
         NEW p \in ProposalId, NEW to \in ProposalState, NEW at \in Time,
         TransitionActionProposal(p, to, at)
  PROVE  RowsFitTogether'
<1> USE DEF RowsFitTogether
<1>1. /\ UNCHANGED <<approvals, receipts, dispatches>>
      /\ proposals' = [proposals EXCEPT ![p] = [state |-> to, updatedAt |-> at]]
      /\ proposals[p].state \in {"proposed", "awaiting_approval"}
      /\ proposals[p].state = "awaiting_approval" => to \in {"rejected", "cancelled"}
      /\ to \notin {"approved"} \cup ExecutionStates
  BY DEF TransitionActionProposal, LocalTransitions, SetProposal, attemptVars, ExecutionStates
<1>2. ASSUME NEW a \in ApprovalId, approvals[a] # None
      PROVE  /\ ProposalOf(a)' = ProposalOf(a) /\ ProposalOf(a) \in ProposalId
             /\ IF ProposalOf(a) = p
                  THEN /\ StateOf(a) = "awaiting_approval"
                       /\ StateOf(a)' \in {"rejected", "cancelled"}
                       /\ approvals[a].decision = "pending"
                       /\ receipts[a] = None /\ dispatches[a] = <<>>
                  ELSE StateOf(a)' = StateOf(a)
  <2>1. approvals[a] \in Approval /\ ProposalOf(a) \in ProposalId
    BY <1>2 DEF TypeOK, ProposalOf, Approval
  <2>2. CASE ProposalOf(a) # p
    BY <1>1, <2>1, <2>2 DEF TypeOK, ProposalOf, StateOf
  <2>3. CASE ProposalOf(a) = p
    <3>1. StateOf(a) = "awaiting_approval" /\ approvals[a].decision = "pending"
      BY <1>1, <1>2, <2>3 DEF DecisionBoundsState, StateOf, ExecutionStates
    <3>2. receipts[a] = None /\ dispatches[a] = <<>>
      BY <1>2, <3>1 DEF StateAgreesWithReceipt
    <3>3. StateOf(a)' \in {"rejected", "cancelled"}
      BY <1>1, <2>3, <3>1 DEF TypeOK, ProposalOf, StateOf
    <3> QED BY <1>1, <2>1, <2>3, <3>1, <3>2, <3>3 DEF ProposalOf
  <2> QED BY <2>2, <2>3
<1>3. OneApprovalPerProposal' /\ ApprovalChronology'
  BY <1>1 DEF OneApprovalPerProposal, ApprovalChronology, ProposalOf
<1>4. DecisionBoundsState' /\ StartedAfterConsumption'
  <2>1. DecisionBoundsState'
    BY <1>1, <1>2 DEF DecisionBoundsState
  <2>2. StartedAfterConsumption'
    BY <1>1, <1>2 DEF TypeOK, StartedAfterConsumption, StateOf, ProposalOf
  <2> QED BY <2>1, <2>2
<1>5. ApprovalBeforeExecution'
  BY <1>1 DEF TypeOK, ApprovalBeforeExecution, ProposalOf
<1>6. StateAgreesWithReceipt'
  BY <1>1, <1>2 DEF StateAgreesWithReceipt, DurableAction
<1>7. RetriesOnlyAfterNoEffect' /\ DispatchWithinApproval'
  BY <1>1 DEF RetriesOnlyAfterNoEffect, DispatchWithinApproval
<1>8. SettlementAgreesWithReceipt'
  <2> SUFFICES ASSUME NEW a \in ApprovalId, dispatches[a] # <<>>
               PROVE  (IF Latest(a).settlement = None
                        THEN StateOf(a) = "executing"
                        ELSE HasReceipt(a, {Latest(a).settlement.verdict}))'
    BY <1>1 DEF SettlementAgreesWithReceipt
  <2>1. approvals[a] # None
    BY DEF StateAgreesWithReceipt, DurableAction
  <2>2. StateOf(a)' = StateOf(a)
    BY <1>2, <2>1
  <2> QED BY <1>1, <2>2 DEF SettlementAgreesWithReceipt, Latest, HasReceipt
<1> QED BY <1>3, <1>4, <1>5, <1>6, <1>7, <1>8

\* A request binds a fresh approval to a proposal that has none.
LEMMA RequestStep ==
  ASSUME RowsFitTogether, TypeOK',
         NEW a \in ApprovalId, NEW p \in ProposalId, NEW req \in Time, NEW exp \in Time,
         RequestApproval(a, p, req, exp)
  PROVE  RowsFitTogether'
<1> USE DEF RowsFitTogether
<1> DEFINE new == [proposal |-> p, decision |-> "pending", requestedAt |-> req,
                   expiresAt |-> exp, decidedAt |-> None, consumedAt |-> None]
<1>1. /\ UNCHANGED <<receipts, dispatches>>
      /\ approvals' = [approvals EXCEPT ![a] = new]
      /\ proposals' = [proposals EXCEPT ![p] = [state |-> "awaiting_approval", updatedAt |-> req]]
      /\ approvals[a] = None /\ proposals[p].state = "proposed"
      /\ \A b \in ApprovalId : approvals[b] # None => ProposalOf(b) # p
  BY DEF RequestApproval, SetProposal, attemptVars
<1>2. approvals'[a] = new /\ new # None
  BY <1>1, NoneAssumption DEF TypeOK, Approval, Decision
<1>3. ASSUME NEW b \in ApprovalId, b # a
      PROVE  /\ approvals'[b] = approvals[b]
             /\ approvals[b] # None => StateOf(b)' = StateOf(b) /\ ProposalOf(b)' = ProposalOf(b)
  BY <1>1, <1>3 DEF TypeOK, StateOf, ProposalOf
<1>4. StateOf(a)' = "awaiting_approval" /\ ProposalOf(a)' = p
  BY <1>1, <1>2 DEF TypeOK, StateOf, ProposalOf
<1>5. receipts[a] = None /\ dispatches[a] = <<>>
  BY <1>1 DEF StateAgreesWithReceipt, DurableAction
<1>6. OneApprovalPerProposal'
  BY <1>1, <1>3, <1>4 DEF OneApprovalPerProposal
<1>7. ApprovalChronology'
  BY <1>2, <1>3 DEF ApprovalChronology
<1>8. DecisionBoundsState'
  <2> SUFFICES ASSUME NEW b \in ApprovalId, approvals'[b] # None
               PROVE  (CASE approvals[b].decision = "pending" ->
                             StateOf(b) \in {"awaiting_approval", "rejected", "cancelled"}
                        [] approvals[b].decision = "approved" ->
                             \/ StateOf(b) = "approved"
                             \/ approvals[b].consumedAt # None /\ StateOf(b) \in ExecutionStates
                        [] OTHER -> StateOf(b) \in {"rejected", "cancelled"})'
    BY DEF DecisionBoundsState
  <2>1. CASE b = a
    BY <2>1, <1>2, <1>4
  <2>2. CASE b # a
    BY <2>2, <1>3 DEF DecisionBoundsState
  <2> QED BY <2>1, <2>2
<1>9. StartedAfterConsumption'
  <2> SUFFICES ASSUME NEW b \in ApprovalId, approvals'[b] # None, StateOf(b)' = "executing"
               PROVE  approvals'[b].consumedAt <= proposals'[ProposalOf(b)'].updatedAt
    BY DEF StartedAfterConsumption
  <2>1. b # a /\ approvals[b] # None /\ StateOf(b) = "executing"
    BY <1>3, <1>4
  <2>2. ProposalOf(b) \in ProposalId \ {p}
    BY <1>1, <2>1 DEF TypeOK, Approval, ProposalOf
  <2>3. proposals'[ProposalOf(b)] = proposals[ProposalOf(b)]
    BY <1>1, <2>2 DEF TypeOK
  <2> QED BY <1>3, <2>1, <2>3 DEF StartedAfterConsumption
<1>10. ApprovalBeforeExecution'
  <2> SUFFICES ASSUME NEW q \in ProposalId,
                      proposals'[q].state \in {"approved"} \cup ExecutionStates
               PROVE  \E b \in ApprovalId : approvals'[b] # None /\ ProposalOf(b)' = q
    BY DEF ApprovalBeforeExecution, ExecutionStates
  <2>1. q # p
    BY <1>1 DEF TypeOK, ExecutionStates
  <2>2. proposals'[q] = proposals[q]
    BY <1>1, <2>1 DEF TypeOK
  <2>3. PICK b \in ApprovalId : approvals[b] # None /\ ProposalOf(b) = q
    BY <2>2 DEF ApprovalBeforeExecution
  <2> QED BY <1>1, <1>3, <2>3
<1>11. StateAgreesWithReceipt'
  <2> SUFFICES ASSUME NEW b \in ApprovalId
               PROVE  (/\ receipts[b] # None \/ dispatches[b] # <<>> => DurableAction(b)
                       /\ approvals[b] # None =>
                            CASE StateOf(b) = "executing" ->
                                   receipts[b] # None => Recoverable(receipts[b].verdict)
                              [] StateOf(b) \in {"succeeded", "failed", "uncertain"} ->
                                   /\ receipts[b] # None
                                   /\ ReceiptState(receipts[b].verdict) = StateOf(b)
                              [] OTHER -> receipts[b] = None /\ dispatches[b] = <<>>)'
    BY DEF StateAgreesWithReceipt
  <2>1. CASE b = a
    BY <2>1, <1>1, <1>4, <1>5
  <2>2. CASE b # a
    BY <2>2, <1>1, <1>3 DEF StateAgreesWithReceipt, DurableAction
  <2> QED BY <2>1, <2>2
<1>12. RetriesOnlyAfterNoEffect'
  BY <1>1 DEF RetriesOnlyAfterNoEffect
<1>13. SettlementAgreesWithReceipt'
  <2> SUFFICES ASSUME NEW b \in ApprovalId, dispatches[b] # <<>>
               PROVE  (IF Latest(b).settlement = None
                        THEN StateOf(b) = "executing"
                        ELSE HasReceipt(b, {Latest(b).settlement.verdict}))'
    BY <1>1 DEF SettlementAgreesWithReceipt
  <2>1. b # a /\ approvals[b] # None
    BY <1>5 DEF StateAgreesWithReceipt, DurableAction
  <2> QED BY <1>1, <1>3, <2>1 DEF SettlementAgreesWithReceipt, Latest, HasReceipt
<1>14. DispatchWithinApproval'
  <2> SUFFICES ASSUME NEW b \in ApprovalId, NEW i \in 1..Len(dispatches[b])
               PROVE  (/\ dispatches[b][i].reservedAt >= approvals[b].consumedAt
                       /\ dispatches[b][i].reservedAt <= approvals[b].expiresAt)'
    BY <1>1 DEF DispatchWithinApproval
  <2>1. b # a
    BY <1>5
  <2> QED BY <1>1, <1>3, <2>1 DEF DispatchWithinApproval
<1> QED BY <1>6, <1>7, <1>8, <1>9, <1>10, <1>11, <1>12, <1>13, <1>14

(***************************************************************************)
(* The remaining operations touch one approval's rows only, so each needs  *)
(* to be looked at for that approval alone.                                *)
(***************************************************************************)

ChronologyFits(a) ==
  /\ approvals[a].decision = "approved" =>
       /\ approvals[a].decidedAt # None
       /\ approvals[a].requestedAt <= approvals[a].decidedAt
  /\ approvals[a].consumedAt # None =>
       /\ approvals[a].decision = "approved"
       /\ approvals[a].decidedAt <= approvals[a].consumedAt
       /\ approvals[a].consumedAt <= approvals[a].expiresAt

StartFits(a) ==
  StateOf(a) = "executing" =>
    approvals[a].consumedAt <= proposals[ProposalOf(a)].updatedAt

DecisionFits(a) ==
  CASE approvals[a].decision = "pending" ->
         StateOf(a) \in {"awaiting_approval", "rejected", "cancelled"}
    [] approvals[a].decision = "approved" ->
         \/ StateOf(a) = "approved"
         \/ approvals[a].consumedAt # None /\ StateOf(a) \in ExecutionStates
    [] OTHER -> StateOf(a) \in {"rejected", "cancelled"}

ReceiptFits(a) ==
  /\ receipts[a] # None \/ dispatches[a] # <<>> => DurableAction(a)
  /\ CASE StateOf(a) = "executing" ->
            receipts[a] # None => Recoverable(receipts[a].verdict)
       [] StateOf(a) \in {"succeeded", "failed", "uncertain"} ->
            receipts[a] # None /\ ReceiptState(receipts[a].verdict) = StateOf(a)
       [] OTHER -> receipts[a] = None /\ dispatches[a] = <<>>

JournalFits(a) ==
  /\ \A i \in 1..(Len(dispatches[a]) - 1) :
       /\ dispatches[a][i].settlement # None
       /\ dispatches[a][i].settlement.verdict = "retry_same_key"
  /\ \A i \in 1..Len(dispatches[a]) :
       /\ dispatches[a][i].reservedAt >= approvals[a].consumedAt
       /\ dispatches[a][i].reservedAt <= approvals[a].expiresAt

SettlementFits(a) ==
  dispatches[a] # <<>> =>
    IF Latest(a).settlement = None
      THEN StateOf(a) = "executing"
      ELSE HasReceipt(a, {Latest(a).settlement.verdict})

AttemptFits(a) ==
  /\ ChronologyFits(a) /\ DecisionFits(a) /\ StartFits(a)
  /\ ReceiptFits(a) /\ JournalFits(a) /\ SettlementFits(a)

\* What the invariant says of one requested approval.
LEMMA RowsFit ==
  ASSUME RowsFitTogether, NEW a \in ApprovalId, approvals[a] # None
  PROVE  AttemptFits(a) /\ approvals[a] \in Approval /\ ProposalOf(a) \in ProposalId
<1> USE DEF RowsFitTogether
<1>1. ChronologyFits(a)
  BY DEF ApprovalChronology, ChronologyFits
<1>2. DecisionFits(a)
  BY DEF DecisionBoundsState, DecisionFits
<1>3. StartFits(a)
  BY DEF StartedAfterConsumption, StartFits
<1>4. ReceiptFits(a)
  BY DEF StateAgreesWithReceipt, ReceiptFits
<1>5. JournalFits(a)
  BY DEF RetriesOnlyAfterNoEffect, DispatchWithinApproval, JournalFits
<1>6. SettlementFits(a)
  BY DEF SettlementAgreesWithReceipt, SettlementFits
<1>7. approvals[a] \in Approval /\ ProposalOf(a) \in ProposalId
  BY DEF TypeOK, Approval, ProposalOf
<1> QED BY <1>1, <1>2, <1>3, <1>4, <1>5, <1>6, <1>7 DEF AttemptFits

\* An operation on one approval, its proposal and its attempt preserves the
\* invariant if that attempt's rows still fit.
LEMMA OneAttemptStep ==
  ASSUME RowsFitTogether, TypeOK',
         NEW a \in ApprovalId, approvals[a] # None, approvals'[a] # None,
         approvals'[a].proposal = approvals[a].proposal,
         \A b \in ApprovalId \ {a} :
           /\ approvals'[b] = approvals[b]
           /\ receipts'[b] = receipts[b] /\ dispatches'[b] = dispatches[b],
         \A q \in ProposalId \ {ProposalOf(a)} : proposals'[q] = proposals[q],
         AttemptFits(a)'
  PROVE  RowsFitTogether'
<1>1. TypeOK /\ OneApprovalPerProposal /\ ApprovalBeforeExecution
  BY DEF RowsFitTogether
<1>2. ASSUME NEW b \in ApprovalId, b # a, approvals[b] # None
      PROVE  /\ StateOf(b)' = StateOf(b) /\ ProposalOf(b)' = ProposalOf(b)
             /\ proposals'[ProposalOf(b)] = proposals[ProposalOf(b)]
  <2>1. ProposalOf(b) \in ProposalId \ {ProposalOf(a)}
    BY <1>1, <1>2, RowsFit DEF OneApprovalPerProposal
  <2> QED BY <1>2, <2>1 DEF StateOf, ProposalOf
<1>3. ASSUME NEW b \in ApprovalId, approvals'[b] # None
      PROVE  AttemptFits(b)'
  <2>1. CASE b = a
    BY <2>1
  <2>2. CASE b # a
    <3>1. approvals[b] # None /\ AttemptFits(b)
      BY <1>3, <2>2, RowsFit
    <3> QED BY <1>2, <2>2, <3>1 DEF AttemptFits, ChronologyFits, DecisionFits, StartFits,
              ReceiptFits, JournalFits, SettlementFits, DurableAction, HasReceipt, Latest
  <2> QED BY <2>1, <2>2
<1>4. ASSUME NEW b \in ApprovalId, approvals'[b] = None
      PROVE  receipts'[b] = None /\ dispatches'[b] = <<>>
  BY <1>4 DEF RowsFitTogether, StateAgreesWithReceipt, DurableAction
<1>5. OneApprovalPerProposal'
  BY <1>1 DEF OneApprovalPerProposal, ProposalOf
<1>6. ApprovalBeforeExecution'
  <2> SUFFICES ASSUME NEW q \in ProposalId,
                      proposals'[q].state \in {"approved"} \cup ExecutionStates
               PROVE  \E b \in ApprovalId : approvals'[b] # None /\ ProposalOf(b)' = q
    BY DEF ApprovalBeforeExecution, ExecutionStates
  <2>1. CASE q = ProposalOf(a)
    BY <2>1 DEF ProposalOf
  <2>2. CASE q # ProposalOf(a)
    BY <1>1, <2>2 DEF ApprovalBeforeExecution, ProposalOf
  <2> QED BY <2>1, <2>2
<1>7. ApprovalChronology'
  BY <1>3 DEF ApprovalChronology, AttemptFits, ChronologyFits
<1>8. DecisionBoundsState'
  BY <1>3 DEF DecisionBoundsState, AttemptFits, DecisionFits
<1>9. StartedAfterConsumption'
  BY <1>3 DEF StartedAfterConsumption, AttemptFits, StartFits
<1>10. StateAgreesWithReceipt'
  BY <1>3, <1>4 DEF StateAgreesWithReceipt, AttemptFits, ReceiptFits
<1>11. RetriesOnlyAfterNoEffect' /\ DispatchWithinApproval'
  BY <1>3, <1>4 DEF RetriesOnlyAfterNoEffect, DispatchWithinApproval, AttemptFits, JournalFits
<1>12. SettlementAgreesWithReceipt'
  BY <1>3, <1>4 DEF SettlementAgreesWithReceipt, AttemptFits, SettlementFits
<1> QED BY <1>5, <1>6, <1>7, <1>8, <1>9, <1>10, <1>11, <1>12 DEF RowsFitTogether

\* A decision is taken once, on an approval whose proposal still waits.
LEMMA DecideStep ==
  ASSUME RowsFitTogether, TypeOK',
         NEW a \in ApprovalId, NEW d \in Decision \ {"pending"}, NEW at \in Time,
         DecideApproval(a, d, at)
  PROVE  RowsFitTogether'
<1>1. /\ approvals[a] # None /\ approvals[a].decision = "pending"
      /\ StateOf(a) = "awaiting_approval" /\ approvals[a].requestedAt <= at
      /\ approvals' = [approvals EXCEPT ![a] =
                         [approvals[a] EXCEPT !.decision = d, !.decidedAt = at]]
      /\ proposals' = [proposals EXCEPT ![ProposalOf(a)] =
                         [state |-> DecidedState(d), updatedAt |-> at]]
      /\ UNCHANGED <<receipts, dispatches>>
  BY DEF DecideApproval, AwaitingDecision, SetProposal, attemptVars
<1>2. /\ TypeOK /\ AttemptFits(a)
      /\ approvals[a] \in Approval /\ ProposalOf(a) \in ProposalId
  BY <1>1, RowsFit DEF RowsFitTogether
<1>3. /\ approvals'[a] = [approvals[a] EXCEPT !.decision = d, !.decidedAt = at]
      /\ approvals'[a] \in Approval /\ approvals'[a] # None
  BY <1>1, <1>2, NoneAssumption DEF TypeOK, Approval
<1>4. StateOf(a)' = DecidedState(d)
  BY <1>1, <1>2, <1>3 DEF TypeOK, StateOf, ProposalOf, Approval
<1>5. receipts[a] = None /\ dispatches[a] = <<>> /\ approvals[a].consumedAt = None
  BY <1>1, <1>2 DEF AttemptFits, ReceiptFits, ChronologyFits
<1>6. ChronologyFits(a)'
  BY <1>1, <1>2, <1>3, <1>5, NoneAssumption DEF ChronologyFits, Approval
<1>7. DecisionFits(a)'
  BY <1>2, <1>3, <1>4 DEF DecisionFits, DecidedState, Decision, Approval
<1>8. StartFits(a)' /\ ReceiptFits(a)' /\ JournalFits(a)' /\ SettlementFits(a)'
  BY <1>1, <1>4, <1>5 DEF StartFits, ReceiptFits, JournalFits, SettlementFits,
                          DecidedState, Decision
<1> QED
  BY <1>1, <1>2, <1>3, <1>6, <1>7, <1>8, OneAttemptStep DEF AttemptFits, TypeOK, Approval

\* An approval is consumed once, while its proposal is approved.
LEMMA ConsumeStep ==
  ASSUME RowsFitTogether, TypeOK',
         NEW a \in ApprovalId, NEW at \in Time, ConsumeApproval(a, at)
  PROVE  RowsFitTogether'
<1>1. /\ approvals[a] # None /\ approvals[a].decision = "approved"
      /\ approvals[a].decidedAt <= at /\ at <= now /\ now <= approvals[a].expiresAt
      /\ StateOf(a) = "approved"
      /\ approvals' = [approvals EXCEPT ![a].consumedAt = at]
      /\ UNCHANGED <<proposals, receipts, dispatches>>
  BY DEF ConsumeApproval, ConsumableAt, attemptVars
<1>2. /\ TypeOK /\ AttemptFits(a)
      /\ approvals[a] \in Approval /\ ProposalOf(a) \in ProposalId
  BY <1>1, RowsFit DEF RowsFitTogether
<1>3. /\ approvals'[a] = [approvals[a] EXCEPT !.consumedAt = at]
      /\ approvals'[a] \in Approval /\ approvals'[a] # None
  BY <1>1, <1>2, NoneAssumption DEF TypeOK, Approval
<1>4. StateOf(a)' = StateOf(a)
  BY <1>1, <1>2, <1>3 DEF StateOf, ProposalOf, Approval
<1>5. receipts[a] = None /\ dispatches[a] = <<>>
  BY <1>1, <1>2 DEF AttemptFits, ReceiptFits
<1>6. at <= approvals[a].expiresAt
  BY <1>1, <1>2, BoundsAssumption DEF TypeOK, Time, Approval
<1>7. ChronologyFits(a)'
  BY <1>1, <1>2, <1>3, <1>6, NoneAssumption DEF AttemptFits, ChronologyFits, Approval
<1>8. DecisionFits(a)'
  BY <1>1, <1>2, <1>3, <1>4 DEF DecisionFits, Approval
<1>9. StartFits(a)' /\ ReceiptFits(a)' /\ JournalFits(a)' /\ SettlementFits(a)'
  BY <1>1, <1>4, <1>5 DEF StartFits, ReceiptFits, JournalFits, SettlementFits
<1> QED
  BY <1>1, <1>2, <1>3, <1>7, <1>8, <1>9, OneAttemptStep DEF AttemptFits, TypeOK, Approval

\* An execution starts afresh or over a recoverable receipt.
LEMMA BeginStep ==
  ASSUME RowsFitTogether, TypeOK',
         NEW a \in ApprovalId, NEW at \in Time, BeginExecution(a, at)
  PROVE  RowsFitTogether'
<1>1. /\ DurableAction(a) /\ MayBegin(a)
      /\ proposals' = [proposals EXCEPT ![ProposalOf(a)] =
                         [state |-> "executing", updatedAt |-> at]]
      /\ UNCHANGED <<approvals, receipts, dispatches>>
      /\ approvals[a].consumedAt <= at
  BY DEF BeginExecution, StartableAt, SetProposal, attemptVars
<1>2. /\ TypeOK /\ AttemptFits(a)
      /\ approvals[a] \in Approval /\ ProposalOf(a) \in ProposalId
  BY <1>1, RowsFit DEF RowsFitTogether, DurableAction
<1>3. StateOf(a)' = "executing"
  BY <1>1, <1>2 DEF TypeOK, StateOf, ProposalOf
<1>4. receipts[a] # None => Recoverable(receipts[a].verdict)
  BY <1>1, <1>2 DEF MayBegin, HasReceipt, Recoverable
<1>5. ChronologyFits(a)' /\ DecisionFits(a)' /\ JournalFits(a)'
  BY <1>1, <1>2, <1>3 DEF AttemptFits, ChronologyFits, DecisionFits, JournalFits,
                          DurableAction, ExecutionStates
<1>6. ReceiptFits(a)'
  BY <1>1, <1>3, <1>4 DEF ReceiptFits, DurableAction
<1>7. StartFits(a)'
  BY <1>1, <1>2 DEF TypeOK, StartFits, ProposalOf
<1>8. SettlementFits(a)'
  BY <1>1, <1>2, <1>3 DEF AttemptFits, SettlementFits, Latest, HasReceipt
<1> QED
  BY <1>1, <1>2, <1>5, <1>6, <1>7, <1>8, OneAttemptStep DEF AttemptFits, TypeOK, DurableAction

\* A reservation appends one open entry to a journal whose last entry did
\* nothing.
LEMMA ReserveStep ==
  ASSUME RowsFitTogether, TypeOK',
         NEW a \in ApprovalId, NEW at \in Time, ReserveDispatch(a, at)
  PROVE  RowsFitTogether'
<1> DEFINE row == [reservedAt |-> at, settlement |-> None]
           n == Len(dispatches[a])
<1>1. /\ DurableAction(a) /\ MayReserve(a) /\ StateOf(a) = "executing"
      /\ proposals[ProposalOf(a)].updatedAt <= at
      /\ at <= now /\ now <= approvals[a].expiresAt
      /\ dispatches' = [dispatches EXCEPT ![a] = Append(dispatches[a], row)]
      /\ UNCHANGED <<proposals, approvals, receipts>>
  BY DEF ReserveDispatch
<1>2. /\ TypeOK /\ AttemptFits(a)
      /\ approvals[a] \in Approval /\ ProposalOf(a) \in ProposalId
  BY <1>1, RowsFit DEF RowsFitTogether, DurableAction
<1>3. dispatches[a] \in Seq(Dispatch) /\ n \in Nat
  BY <1>2 DEF TypeOK
<1>4. /\ Len(dispatches'[a]) = n + 1 /\ dispatches'[a][n + 1] = row
      /\ \A i \in 1..n : dispatches'[a][i] = dispatches[a][i]
  BY <1>1, <1>2, <1>3 DEF TypeOK
<1>5. approvals[a].consumedAt <= at /\ at <= approvals[a].expiresAt
  <2>1. approvals[a].consumedAt <= proposals[ProposalOf(a)].updatedAt
    BY <1>1, <1>2 DEF AttemptFits, StartFits
  <2>2. approvals[a].consumedAt \in Nat /\ proposals[ProposalOf(a)].updatedAt \in Nat
    BY <1>1, <1>2, BoundsAssumption DEF TypeOK, DurableAction, Approval, Proposal, Time
  <2> QED BY <1>1, <1>2, <2>1, <2>2, BoundsAssumption DEF TypeOK, Approval, Time
<1>6. ChronologyFits(a)' /\ DecisionFits(a)' /\ StartFits(a)'
  BY <1>1, <1>2 DEF AttemptFits, ChronologyFits, DecisionFits, StartFits, StateOf, ProposalOf
<1>7. ReceiptFits(a)'
  BY <1>1, <1>2 DEF AttemptFits, ReceiptFits, DurableAction, StateOf, ProposalOf
<1>8. JournalFits(a)'
  <2>1. ASSUME NEW i \in 1..n
        PROVE  /\ dispatches[a][i].settlement # None
               /\ dispatches[a][i].settlement.verdict = "retry_same_key"
    <3>1. CASE i = n
      BY <1>1, <1>3, <3>1 DEF MayReserve, Latest
    <3>2. CASE i # n
      BY <1>2, <1>3, <3>2 DEF AttemptFits, JournalFits
    <3> QED BY <3>1, <3>2
  <2>2. \A i \in 1..(n + 1) :
          /\ dispatches'[a][i].reservedAt >= approvals[a].consumedAt
          /\ dispatches'[a][i].reservedAt <= approvals[a].expiresAt
    <3> SUFFICES ASSUME NEW i \in 1..(n + 1)
                 PROVE  /\ dispatches'[a][i].reservedAt >= approvals[a].consumedAt
                        /\ dispatches'[a][i].reservedAt <= approvals[a].expiresAt
      OBVIOUS
    <3>1. CASE i = n + 1
      BY <1>4, <1>5, <3>1
    <3>2. CASE i # n + 1
      <4>1. i \in 1..n /\ dispatches'[a][i] = dispatches[a][i]
        BY <1>3, <1>4, <3>2
      <4>2. /\ dispatches[a][i].reservedAt >= approvals[a].consumedAt
            /\ dispatches[a][i].reservedAt <= approvals[a].expiresAt
        BY <1>2, <4>1 DEF AttemptFits, JournalFits
      <4> QED BY <4>1, <4>2
    <3> QED BY <3>1, <3>2
  <2> QED BY <1>1, <1>3, <1>4, <2>1, <2>2 DEF JournalFits
<1>9. SettlementFits(a)'
  BY <1>1, <1>3, <1>4 DEF SettlementFits, Latest, StateOf, ProposalOf
<1> QED
  BY <1>1, <1>2, <1>6, <1>7, <1>8, <1>9, OneAttemptStep DEF AttemptFits, TypeOK, DurableAction

\* A receipt sets the state and the settlement to its own verdict.
LEMMA RecordStep ==
  ASSUME RowsFitTogether, TypeOK',
         NEW a \in ApprovalId, NEW r \in Receipt, RecordReceipt(a, r)
  PROVE  RowsFitTogether'
<1> DEFINE n == Len(dispatches[a])
<1>1. /\ DurableAction(a) /\ SettleLatest(a, r.verdict)
      /\ receipts' = [receipts EXCEPT ![a] = r]
      /\ proposals' = [proposals EXCEPT ![ProposalOf(a)] =
                         [state |-> ReceiptState(r.verdict), updatedAt |-> r.attemptedAt]]
      /\ UNCHANGED approvals
  BY DEF RecordReceipt, SetProposal
<1>2. /\ TypeOK /\ AttemptFits(a)
      /\ approvals[a] \in Approval /\ ProposalOf(a) \in ProposalId
  BY <1>1, RowsFit DEF RowsFitTogether, DurableAction
<1>3. /\ r.verdict \in Verdict /\ r # None /\ receipts'[a] = r
      /\ ReceiptState(r.verdict) \in {"succeeded", "failed", "uncertain"}
  BY <1>1, <1>2, NoneAssumption DEF TypeOK, Receipt, ReceiptState
<1>4. StateOf(a)' = ReceiptState(r.verdict)
  BY <1>1, <1>2 DEF TypeOK, StateOf, ProposalOf
<1>5. /\ dispatches[a] = <<>> => dispatches' = dispatches
      /\ dispatches[a] # <<>> =>
           /\ n \in Nat \ {0} /\ Len(dispatches'[a]) = n
           /\ dispatches'[a][n].reservedAt = dispatches[a][n].reservedAt
           /\ dispatches'[a][n].settlement # None
           /\ dispatches'[a][n].settlement.verdict = r.verdict
           /\ \A i \in 1..(n - 1) : dispatches'[a][i] = dispatches[a][i]
      /\ \A b \in ApprovalId \ {a} : dispatches'[b] = dispatches[b]
  BY <1>1, <1>2, <1>3, SettleLatestEffect DEF Latest
<1>6. ChronologyFits(a)' /\ DecisionFits(a)' /\ StartFits(a)'
  <2>1. approvals[a].decision = "approved" /\ approvals[a].consumedAt # None
    BY <1>1 DEF DurableAction
  <2> QED BY <1>1, <1>2, <1>3, <1>4, <2>1 DEF AttemptFits, ChronologyFits, DecisionFits,
            StartFits, ExecutionStates
<1>7. ReceiptFits(a)'
  BY <1>1, <1>3, <1>4 DEF ReceiptFits, DurableAction
<1>8. JournalFits(a)'
  <2>1. CASE dispatches[a] = <<>>
    BY <1>1, <1>5, <2>1 DEF JournalFits
  <2>2. CASE dispatches[a] # <<>>
    <3>1. \A i \in 1..n : dispatches'[a][i].reservedAt = dispatches[a][i].reservedAt
      <4> SUFFICES ASSUME NEW i \in 1..n
                   PROVE  dispatches'[a][i].reservedAt = dispatches[a][i].reservedAt
        OBVIOUS
      <4>1. CASE i = n
        BY <1>5, <2>2, <4>1
      <4>2. CASE i # n
        BY <1>5, <2>2, <4>2
      <4> QED BY <4>1, <4>2
    <3> QED BY <1>1, <1>2, <1>5, <2>2, <3>1 DEF AttemptFits, JournalFits
  <2> QED BY <2>1, <2>2
<1>9. SettlementFits(a)'
  BY <1>3, <1>5 DEF SettlementFits, Latest, HasReceipt
<1> QED
  BY <1>1, <1>2, <1>5, <1>6, <1>7, <1>8, <1>9, OneAttemptStep
  DEF AttemptFits, TypeOK, DurableAction

(***************************************************************************)
(* The theorems                                                            *)
(***************************************************************************)

\* Every operation, in any order and with any arguments, preserves the
\* invariant.
LEMMA RowsStep == RowsFitTogether /\ [Next]_vars => RowsFitTogether'
<1> SUFFICES ASSUME RowsFitTogether, [Next]_vars PROVE RowsFitTogether'
  OBVIOUS
<1>1. TypeOK'
  BY TypeStep DEF RowsFitTogether
<1>2. CASE UNCHANGED vars \/ SetClock
  BY <1>1, <1>2, ClockStep DEF vars, SetClock, attemptVars
<1>3. CASE \E p \in ProposalId, to \in ProposalState, at \in Time :
             TransitionActionProposal(p, to, at)
  BY <1>1, <1>3, TransitionStep
<1>4. CASE \E a \in ApprovalId, p \in ProposalId, req, exp \in Time :
             RequestApproval(a, p, req, exp)
  BY <1>1, <1>4, RequestStep
<1>5. CASE \E a \in ApprovalId, d \in Decision \ {"pending"}, at \in Time :
             DecideApproval(a, d, at)
  BY <1>1, <1>5, DecideStep
<1>6. CASE \E a \in ApprovalId, at \in Time : ConsumeApproval(a, at)
  BY <1>1, <1>6, ConsumeStep
<1>7. CASE \E a \in ApprovalId, at \in Time : BeginExecution(a, at)
  BY <1>1, <1>7, BeginStep
<1>8. CASE \E a \in ApprovalId, at \in Time : ReserveDispatch(a, at)
  BY <1>1, <1>8, ReserveStep
<1>9. CASE \E a \in ApprovalId, r \in Receipt : RecordReceipt(a, r)
  BY <1>1, <1>9, RecordStep
<1> QED BY <1>2, <1>3, <1>4, <1>5, <1>6, <1>7, <1>8, <1>9 DEF Next

LEMMA InitRows == Init => RowsFitTogether
BY BoundsAssumption
DEF Init, RowsFitTogether, TypeOK, Time, Proposal, ProposalState, ExecutionStates,
    OneApprovalPerProposal, ApprovalChronology, DecisionBoundsState,
    StartedAfterConsumption, ApprovalBeforeExecution, StateAgreesWithReceipt,
    RetriesOnlyAfterNoEffect, SettlementAgreesWithReceipt, DispatchWithinApproval

\* No sequence of operations makes the rows of an action disagree: its
\* proposal, approval, receipt and dispatch journal fit together always.
THEOREM RowsAlwaysFit == Spec => []RowsFitTogether
BY InitRows, RowsStep, PTL DEF Spec

\* Rows that fit together authorise what runs.
LEMMA RowsAuthorise == RowsFitTogether => ExecutionAuthorised
<1> SUFFICES ASSUME RowsFitTogether,
                    NEW p \in ProposalId, proposals[p].state \in ExecutionStates
             PROVE  \E a \in ApprovalId :
                      /\ Authorises(a, p)
                      /\ \A b \in ApprovalId \ {a} :
                           approvals[b] # None /\ ProposalOf(b) = p =>
                             receipts[b] = None /\ dispatches[b] = <<>>
  BY DEF ExecutionAuthorised
<1>1. PICK a \in ApprovalId : approvals[a] # None /\ ProposalOf(a) = p
  BY DEF RowsFitTogether, ApprovalBeforeExecution
<1>2. AttemptFits(a) /\ StateOf(a) \in ExecutionStates
  BY <1>1, RowsFit DEF StateOf
<1>3. Authorises(a, p)
  BY <1>1, <1>2 DEF AttemptFits, DecisionFits, ChronologyFits, Authorises, DurableAction,
                    ExecutionStates
<1>4. \A b \in ApprovalId \ {a} : approvals[b] # None => ProposalOf(b) # p
  BY <1>1 DEF RowsFitTogether, OneApprovalPerProposal
<1> QED BY <1>3, <1>4

\* An external action runs only under an approval of that very proposal that
\* was requested, granted and consumed in that order, and within one attempt.
THEOREM AlwaysAuthorised == Spec => []ExecutionAuthorised
BY RowsAuthorise, RowsAlwaysFit, PTL

\* The proposal's state, its receipt and its journal always tell the same
\* story, and a send is only ever repeated after one that did nothing.
THEOREM AttemptConsistent ==
  Spec => [](StateAgreesWithReceipt /\ RetriesOnlyAfterNoEffect /\ SettlementAgreesWithReceipt)
<1>1. RowsFitTogether =>
        StateAgreesWithReceipt /\ RetriesOnlyAfterNoEffect /\ SettlementAgreesWithReceipt
  BY DEF RowsFitTogether
<1> QED BY <1>1, RowsAlwaysFit, PTL

\* No send is ever authorised outside the lifetime of its approval.
THEOREM DispatchesInTime == Spec => []DispatchWithinApproval
<1>1. RowsFitTogether => DispatchWithinApproval
  BY DEF RowsFitTogether
<1> QED BY <1>1, RowsAlwaysFit, PTL

\* A rejected, withdrawn or finished proposal is never revived.
THEOREM NeverRevived == Spec => ClosedStaysClosed
<1>1. RowsFitTogether /\ [Next]_vars =>
        [\A p \in ProposalId : Closed(p) => proposals'[p] = proposals[p]]_vars
  <2> SUFFICES ASSUME RowsFitTogether, Next, NEW p \in ProposalId, Closed(p)
               PROVE  proposals'[p] = proposals[p]
    OBVIOUS
  <2>1. /\ proposals[p].state \notin {"proposed", "awaiting_approval", "approved",
                                      "executing", "uncertain"}
        /\ \A a \in ApprovalId : approvals[a] # None /\ ProposalOf(a) = p =>
             StateOf(a) = proposals[p].state /\ ~HasReceipt(a, {"retry_same_key"})
    <3>1. CASE proposals[p].state \in {"rejected", "cancelled", "succeeded"}
      <4>1. ASSUME NEW a \in ApprovalId, approvals[a] # None, ProposalOf(a) = p
            PROVE  StateOf(a) = proposals[p].state /\ ~HasReceipt(a, {"retry_same_key"})
        <5>1. ReceiptFits(a) /\ StateOf(a) = proposals[p].state
          BY <4>1, RowsFit DEF AttemptFits, StateOf
        <5> QED BY <3>1, <5>1 DEF ReceiptFits, HasReceipt, ReceiptState
      <4> QED BY <3>1, <4>1
    <3>2. CASE \E a \in ApprovalId :
                 approvals[a] # None /\ ProposalOf(a) = p /\ HasReceipt(a, {"do_not_retry"})
      <4>1. PICK a \in ApprovalId :
                   approvals[a] # None /\ ProposalOf(a) = p /\ HasReceipt(a, {"do_not_retry"})
        BY <3>2
      <4>2. ReceiptFits(a) /\ StateOf(a) = proposals[p].state
        BY <4>1, RowsFit DEF AttemptFits, StateOf
      <4>3. StateOf(a) = "failed"
        BY <4>1, <4>2 DEF ReceiptFits, HasReceipt, Recoverable, ReceiptState
      <4>4. \A b \in ApprovalId : approvals[b] # None /\ ProposalOf(b) = p => b = a
        BY <4>1 DEF RowsFitTogether, OneApprovalPerProposal
      <4> QED BY <4>1, <4>2, <4>3, <4>4 DEF HasReceipt
    <3> QED BY <3>1, <3>2 DEF Closed
  <2>2. ASSUME NEW q \in ProposalId, NEW s, NEW t, SetProposal(q, s, t), q # p
        PROVE  proposals'[p] = proposals[p]
    BY <2>2 DEF RowsFitTogether, TypeOK, SetProposal
  <2>3. CASE SetClock
    BY <2>3 DEF SetClock
  <2>4. ASSUME NEW q \in ProposalId, NEW to \in ProposalState, NEW at \in Time,
               TransitionActionProposal(q, to, at)
        PROVE  proposals'[p] = proposals[p]
    <3>1. q # p
      BY <2>1, <2>4 DEF TransitionActionProposal, LocalTransitions
    <3> QED BY <2>2, <2>4, <3>1 DEF TransitionActionProposal
  <2>5. ASSUME NEW a \in ApprovalId, NEW q \in ProposalId, NEW req \in Time, NEW exp \in Time,
               RequestApproval(a, q, req, exp)
        PROVE  proposals'[p] = proposals[p]
    <3>1. q # p
      BY <2>1, <2>5 DEF RequestApproval
    <3> QED BY <2>2, <2>5, <3>1 DEF RequestApproval
  <2>6. ASSUME NEW a \in ApprovalId, NEW d \in Decision \ {"pending"}, NEW at \in Time,
               DecideApproval(a, d, at)
        PROVE  proposals'[p] = proposals[p]
    <3>1. ProposalOf(a) \in ProposalId \ {p}
      BY <2>1, <2>6, RowsFit DEF DecideApproval, AwaitingDecision
    <3> QED BY <2>2, <2>6, <3>1 DEF DecideApproval
  <2>7. ASSUME NEW a \in ApprovalId, NEW at \in Time, ConsumeApproval(a, at)
        PROVE  proposals'[p] = proposals[p]
    BY <2>7 DEF ConsumeApproval
  <2>8. ASSUME NEW a \in ApprovalId, NEW at \in Time, BeginExecution(a, at)
        PROVE  proposals'[p] = proposals[p]
    <3>1. ProposalOf(a) \in ProposalId \ {p}
      BY <2>1, <2>8, RowsFit DEF BeginExecution, DurableAction, MayBegin
    <3> QED BY <2>2, <2>8, <3>1 DEF BeginExecution
  <2>9. ASSUME NEW a \in ApprovalId, NEW at \in Time, ReserveDispatch(a, at)
        PROVE  proposals'[p] = proposals[p]
    BY <2>9 DEF ReserveDispatch
  <2>10. ASSUME NEW a \in ApprovalId, NEW r \in Receipt, RecordReceipt(a, r)
         PROVE  proposals'[p] = proposals[p]
    <3>1. StateOf(a) \in {"executing", "uncertain"}
      BY <2>10 DEF RecordReceipt, AcceptsReceipt
    <3>2. ProposalOf(a) \in ProposalId \ {p}
      BY <2>1, <2>10, <3>1, RowsFit DEF RecordReceipt, DurableAction
    <3> QED BY <2>2, <2>10, <3>2 DEF RecordReceipt
  <2> QED BY <2>3, <2>4, <2>5, <2>6, <2>7, <2>8, <2>9, <2>10 DEF Next
<1> QED BY <1>1, RowsAlwaysFit, PTL DEF Spec, ClosedStaysClosed

(***************************************************************************)
(* ActionState implements ActionLifecycle                                  *)
(***************************************************************************)

\* What a caller sees of a proposal that has an approval, and of one that has
\* none.
BoundView(p, a) ==
  /\ HasApproval(p) /\ ApprovalFor(p) = a
  /\ SendsOf(p) = Len(dispatches[a])
  /\ ClearFor(p) = MayReserve(a)
  /\ PhaseOf(p) = CASE proposals[p].state \in {"proposed", "awaiting_approval"} -> "open"
                    [] proposals[p].state = "approved" -> "granted"
                    [] proposals[p].state = "executing" -> "running"
                    [] proposals[p].state = "uncertain" -> "paused"
                    [] proposals[p].state = "failed" /\ HasReceipt(a, {"retry_same_key"}) -> "paused"
                    [] OTHER -> "closed"

UnboundView(p) ==
  /\ SendsOf(p) = 0 /\ ClearFor(p) = TRUE
  /\ PhaseOf(p) = IF proposals[p].state \in {"proposed", "awaiting_approval"}
                    THEN "open" ELSE "closed"

Views ==
  \A p \in ProposalId :
    /\ \A a \in ApprovalId : Bound(a, p) => BoundView(p, a)
    /\ ~HasApproval(p) => UnboundView(p)

LEMMA ViewsHold == RowsFitTogether => Views
<1> SUFFICES ASSUME RowsFitTogether, NEW p \in ProposalId
             PROVE  /\ \A a \in ApprovalId : Bound(a, p) => BoundView(p, a)
                    /\ ~HasApproval(p) => UnboundView(p)
  BY DEF Views
<1>1. ASSUME NEW a \in ApprovalId, Bound(a, p)
      PROVE  BoundView(p, a)
  <2>1. HasApproval(p)
    BY <1>1 DEF HasApproval
  <2>2. Bound(ApprovalFor(p), p) /\ ApprovalFor(p) \in ApprovalId
    BY <1>1 DEF ApprovalFor
  <2>3. ApprovalFor(p) = a
    BY <1>1, <2>2 DEF RowsFitTogether, OneApprovalPerProposal, Bound
  <2>4. ClearFor(p) = MayReserve(a)
    BY <2>1, <2>3 DEF ClearFor, MayReserve
  <2> QED BY <2>1, <2>3, <2>4 DEF BoundView, SendsOf, PhaseOf
<1>2. ASSUME ~HasApproval(p)
      PROVE  UnboundView(p)
  <2>1. proposals[p].state \notin {"approved"} \cup ExecutionStates
    BY <1>2 DEF RowsFitTogether, ApprovalBeforeExecution, HasApproval, Bound
  <2>2. PhaseOf(p) = IF proposals[p].state \in {"proposed", "awaiting_approval"}
                       THEN "open" ELSE "closed"
    BY <2>1 DEF PhaseOf, ExecutionStates
  <2>3. ClearFor(p) = TRUE
    BY <1>2 DEF ClearFor
  <2> QED BY <1>2, <2>2, <2>3 DEF UnboundView, SendsOf
<1> QED BY <1>1, <1>2

LEMMA ViewsHoldNext == RowsFitTogether' => Views'
BY ViewsHold, PTL

\* A proposal whose row and whose approval's rows do not change looks the same.
LEMMA SameView ==
  ASSUME Views, Views', NEW q \in ProposalId,
         proposals'[q] = proposals[q],
         \A b \in ApprovalId :
           /\ Bound(b, q)' <=> Bound(b, q)
           /\ Bound(b, q) => receipts'[b] = receipts[b] /\ dispatches'[b] = dispatches[b]
  PROVE  PhaseOf(q)' = PhaseOf(q) /\ SendsOf(q)' = SendsOf(q) /\ ClearFor(q)' = ClearFor(q)
<1>1. CASE HasApproval(q)
  <2>1. PICK b \in ApprovalId : Bound(b, q) /\ Bound(b, q)'
    BY <1>1 DEF HasApproval
  <2>2. BoundView(q, b) /\ BoundView(q, b)'
    BY <2>1 DEF Views
  <2>3. receipts'[b] = receipts[b] /\ dispatches'[b] = dispatches[b]
    BY <2>1
  <2>4. MayReserve(b)' = MayReserve(b)
    BY <2>3 DEF MayReserve, Latest
  <2>5. HasReceipt(b, {"retry_same_key"})' = HasReceipt(b, {"retry_same_key"})
    BY <2>3 DEF HasReceipt
  <2> QED BY <2>2, <2>3, <2>4, <2>5 DEF BoundView
<1>2. CASE ~HasApproval(q)
  <2>1. ~HasApproval(q)'
    BY <1>2 DEF HasApproval
  <2> QED BY <1>2, <2>1 DEF Views, UnboundView
<1> QED BY <1>1, <1>2

\* An operation on the rows of one attempt changes the view of its proposal
\* only.
LEMMA OtherViews ==
  ASSUME Views, Views',
         NEW a \in ApprovalId, approvals[a] # None, approvals'[a] # None,
         ProposalOf(a)' = ProposalOf(a),
         \A b \in ApprovalId \ {a} :
           approvals'[b] = approvals[b] /\ receipts'[b] = receipts[b]
           /\ dispatches'[b] = dispatches[b],
         \A q \in ProposalId \ {ProposalOf(a)} : proposals'[q] = proposals[q],
         NEW q \in ProposalId, q # ProposalOf(a)
  PROVE  PhaseOf(q)' = PhaseOf(q) /\ SendsOf(q)' = SendsOf(q) /\ ClearFor(q)' = ClearFor(q)
<1>1. ASSUME NEW b \in ApprovalId
      PROVE  /\ Bound(b, q)' <=> Bound(b, q)
             /\ Bound(b, q) => receipts'[b] = receipts[b] /\ dispatches'[b] = dispatches[b]
  BY DEF Bound, ProposalOf
<1> QED BY <1>1, SameView

(***************************************************************************)
(* The abstract state as functions, and one lemma to change one proposal   *)
(***************************************************************************)

phases == [p \in ProposalId |-> PhaseOf(p)]
counts == [p \in ProposalId |-> SendsOf(p)]
clears == [p \in ProposalId |-> ClearFor(p)]

\* The abstract state when only the phase of one proposal changes.
LEMMA OnePhaseChanges ==
  ASSUME NEW p \in ProposalId, NEW ph,
         \A q \in ProposalId \ {p} :
           PhaseOf(q)' = PhaseOf(q) /\ SendsOf(q)' = SendsOf(q) /\ ClearFor(q)' = ClearFor(q),
         PhaseOf(p)' = ph, SendsOf(p)' = SendsOf(p), ClearFor(p)' = ClearFor(p)
  PROVE  /\ phases' = [phases EXCEPT ![p] = ph] /\ phases[p] = PhaseOf(p)
         /\ counts' = counts /\ clears' = clears
<1>1. phases' = [phases EXCEPT ![p] = ph] /\ phases[p] = PhaseOf(p)
  BY DEF phases
<1>2. counts' = counts
  BY DEF counts
<1>3. clears' = clears
  BY DEF clears
<1> QED BY <1>1, <1>2, <1>3

\* The abstract state when a send is authorised for one proposal.
LEMMA OneSend ==
  ASSUME NEW p \in ProposalId,
         \A q \in ProposalId \ {p} :
           PhaseOf(q)' = PhaseOf(q) /\ SendsOf(q)' = SendsOf(q) /\ ClearFor(q)' = ClearFor(q),
         PhaseOf(p) = "running", PhaseOf(p)' = "running",
         SendsOf(p)' = SendsOf(p) + 1, ClearFor(p) = TRUE, ClearFor(p)' = FALSE
  PROVE  Lifecycle!Send(p)
<1>1. phases' = phases /\ phases[p] = "running"
  BY DEF phases
<1>2. counts' = [counts EXCEPT ![p] = counts[p] + 1]
  BY DEF counts
<1>3. clears' = [clears EXCEPT ![p] = FALSE] /\ clears[p]
  BY DEF clears
<1> QED BY <1>1, <1>2, <1>3 DEF Lifecycle!Send, phases, counts, clears

\* The abstract state when a result is reported for one proposal.
LEMMA OneReport ==
  ASSUME NEW p \in ProposalId, NEW nothingDone \in BOOLEAN, NEW to,
         \A q \in ProposalId \ {p} :
           PhaseOf(q)' = PhaseOf(q) /\ SendsOf(q)' = SendsOf(q) /\ ClearFor(q)' = ClearFor(q),
         PhaseOf(p) \in {"running", "paused"}, PhaseOf(p)' = to,
         nothingDone => to = "paused",
         SendsOf(p)' = SendsOf(p), ClearFor(p)' = (nothingDone \/ SendsOf(p) = 0)
  PROVE  Lifecycle!Report(p, nothingDone, to)
<1>1. phases' = [phases EXCEPT ![p] = to] /\ phases[p] \in {"running", "paused"}
  BY DEF phases
<1>2. counts' = counts /\ counts[p] = SendsOf(p)
  BY DEF counts
<1>3. clears' = [clears EXCEPT ![p] = nothingDone \/ SendsOf(p) = 0]
  BY DEF clears
<1>4. clears' = [clears EXCEPT ![p] = nothingDone \/ counts[p] = 0]
  BY <1>2, <1>3
<1> QED BY <1>1, <1>2, <1>4 DEF Lifecycle!Report, Lifecycle!Enter, phases, counts, clears

\* The abstract state when no view changes.
LEMMA NoViewChanges ==
  ASSUME \A q \in ProposalId :
           PhaseOf(q)' = PhaseOf(q) /\ SendsOf(q)' = SendsOf(q) /\ ClearFor(q)' = ClearFor(q)
  PROVE  UNCHANGED Lifecycle!vars
<1>1. phases' = phases /\ counts' = counts /\ clears' = clears
  BY DEF phases, counts, clears
<1> QED BY <1>1 DEF Lifecycle!vars, phases, counts, clears

(***************************************************************************)
(* One lemma per operation: the abstract action it takes                   *)
(***************************************************************************)

LEMMA ClockView ==
  ASSUME Views, Views', UNCHANGED <<proposals, approvals, receipts, dispatches>>
  PROVE  UNCHANGED Lifecycle!vars
<1>1. ASSUME NEW q \in ProposalId
      PROVE  PhaseOf(q)' = PhaseOf(q) /\ SendsOf(q)' = SendsOf(q) /\ ClearFor(q)' = ClearFor(q)
  <2>1. \A b \in ApprovalId : Bound(b, q)' <=> Bound(b, q)
    BY DEF Bound, ProposalOf
  <2> QED BY <2>1, SameView
<1> QED BY <1>1, NoViewChanges

\* Asking for an approval leaves the action open; withdrawing closes it.
LEMMA TransitionView ==
  ASSUME RowsFitTogether, Views, Views',
         NEW p \in ProposalId, NEW to \in ProposalState, NEW at \in Time,
         TransitionActionProposal(p, to, at)
  PROVE  Lifecycle!Withdraw(p) \/ UNCHANGED Lifecycle!vars
<1>1. /\ UNCHANGED <<approvals, receipts, dispatches>>
      /\ \A q \in ProposalId \ {p} : proposals'[q] = proposals[q]
      /\ proposals'[p].state = to
      /\ proposals[p].state \in {"proposed", "awaiting_approval"}
      /\ to \in {"awaiting_approval", "rejected", "cancelled"}
  BY DEF TransitionActionProposal, LocalTransitions, SetProposal, attemptVars, RowsFitTogether, TypeOK
<1>2. \A b \in ApprovalId, q \in ProposalId : Bound(b, q)' <=> Bound(b, q)
  BY <1>1 DEF Bound, ProposalOf
<1>3. \A q \in ProposalId \ {p} :
        PhaseOf(q)' = PhaseOf(q) /\ SendsOf(q)' = SendsOf(q) /\ ClearFor(q)' = ClearFor(q)
  BY <1>1, <1>2, SameView
<1>4. /\ PhaseOf(p) = "open" /\ SendsOf(p)' = SendsOf(p) /\ ClearFor(p)' = ClearFor(p)
      /\ PhaseOf(p)' = IF to = "awaiting_approval" THEN "open" ELSE "closed"
  <2>1. CASE HasApproval(p)
    <3>1. PICK b \in ApprovalId : Bound(b, p) /\ Bound(b, p)'
      BY <1>2, <2>1 DEF HasApproval
    <3>2. BoundView(p, b) /\ BoundView(p, b)'
      BY <3>1 DEF Views
    <3>3. MayReserve(b)' = MayReserve(b)
      BY <1>1 DEF MayReserve, Latest
    <3> QED BY <1>1, <3>2, <3>3 DEF BoundView
  <2>2. CASE ~HasApproval(p)
    <3>1. ~HasApproval(p)'
      BY <1>2, <2>2 DEF HasApproval
    <3> QED BY <1>1, <2>2, <3>1 DEF Views, UnboundView
  <2> QED BY <2>1, <2>2
<1>5. CASE to = "awaiting_approval"
  <2>1. \A q \in ProposalId :
          PhaseOf(q)' = PhaseOf(q) /\ SendsOf(q)' = SendsOf(q) /\ ClearFor(q)' = ClearFor(q)
    BY <1>3, <1>4, <1>5
  <2> QED BY <2>1, NoViewChanges
<1>6. CASE to # "awaiting_approval"
  <2>1. /\ phases' = [phases EXCEPT ![p] = "closed"] /\ phases[p] = "open"
        /\ counts' = counts /\ clears' = clears
    BY <1>3, <1>4, <1>6, OnePhaseChanges
  <2> QED BY <2>1 DEF Lifecycle!Withdraw, Lifecycle!Enter, phases, counts, clears
<1> QED BY <1>5, <1>6

\* A request binds an approval to a proposal that had none.
LEMMA RequestView ==
  ASSUME RowsFitTogether, Views, Views',
         NEW a \in ApprovalId, NEW p \in ProposalId, NEW req \in Time, NEW exp \in Time,
         RequestApproval(a, p, req, exp)
  PROVE  UNCHANGED Lifecycle!vars
<1>1. /\ UNCHANGED <<receipts, dispatches>>
      /\ approvals[a] = None /\ proposals[p].state = "proposed"
      /\ \A b \in ApprovalId : approvals[b] # None => ProposalOf(b) # p
      /\ \A q \in ProposalId \ {p} : proposals'[q] = proposals[q]
      /\ proposals'[p].state = "awaiting_approval"
      /\ approvals'[a].proposal = p /\ approvals'[a] # None
      /\ \A b \in ApprovalId \ {a} : approvals'[b] = approvals[b]
  BY NoneAssumption DEF RequestApproval, SetProposal, attemptVars, RowsFitTogether, TypeOK,
                        Approval, Decision
<1>2. ASSUME NEW q \in ProposalId, q # p
      PROVE  PhaseOf(q)' = PhaseOf(q) /\ SendsOf(q)' = SendsOf(q) /\ ClearFor(q)' = ClearFor(q)
  <2>1. \A b \in ApprovalId : Bound(b, q)' <=> Bound(b, q)
    BY <1>1, <1>2 DEF Bound, ProposalOf
  <2> QED BY <1>1, <1>2, <2>1, SameView
<1>3. ~HasApproval(p) /\ Bound(a, p)'
  BY <1>1 DEF HasApproval, Bound, ProposalOf
<1>4. UnboundView(p) /\ BoundView(p, a)'
  BY <1>3 DEF Views
<1>5. dispatches'[a] = <<>>
  BY <1>1 DEF RowsFitTogether, StateAgreesWithReceipt, DurableAction
<1>6. MayReserve(a)' = TRUE /\ Len(dispatches'[a]) = 0
  BY <1>5 DEF MayReserve
<1>7. PhaseOf(p)' = PhaseOf(p) /\ SendsOf(p)' = SendsOf(p) /\ ClearFor(p)' = ClearFor(p)
  BY <1>1, <1>4, <1>6 DEF BoundView, UnboundView
<1> QED BY <1>2, <1>7, NoViewChanges

\* A decision grants the action or closes it.
LEMMA DecideView ==
  ASSUME RowsFitTogether, Views, Views',
         NEW a \in ApprovalId, NEW d \in Decision \ {"pending"}, NEW at \in Time,
         DecideApproval(a, d, at)
  PROVE  Lifecycle!Grant(ProposalOf(a)) \/ Lifecycle!Withdraw(ProposalOf(a))
<1> DEFINE to == IF d = "approved" THEN "granted" ELSE "closed"
<1>1. approvals[a] # None /\ StateOf(a) = "awaiting_approval"
  BY DEF DecideApproval, AwaitingDecision
<1>2. PICK p \in ProposalId : p = ProposalOf(a) /\ approvals[a] \in Approval
  BY <1>1 DEF RowsFitTogether, TypeOK, Approval, ProposalOf
<1>3. /\ UNCHANGED <<receipts, dispatches>>
      /\ approvals'[a] # None /\ ProposalOf(a)' = p
      /\ \A b \in ApprovalId \ {a} : approvals'[b] = approvals[b]
      /\ \A q \in ProposalId \ {p} : proposals'[q] = proposals[q]
      /\ proposals'[p].state = DecidedState(d)
  BY <1>1, <1>2, NoneAssumption
  DEF DecideApproval, SetProposal, attemptVars, RowsFitTogether, TypeOK, Approval, ProposalOf
<1>4. \A q \in ProposalId \ {p} :
        PhaseOf(q)' = PhaseOf(q) /\ SendsOf(q)' = SendsOf(q) /\ ClearFor(q)' = ClearFor(q)
  BY <1>1, <1>2, <1>3, OtherViews
<1>5. BoundView(p, a) /\ BoundView(p, a)'
  BY <1>1, <1>2, <1>3 DEF Views, Bound
<1>6. PhaseOf(p) = "open" /\ PhaseOf(p)' = to
  BY <1>1, <1>2, <1>3, <1>5 DEF BoundView, DecidedState, StateOf
<1>7. SendsOf(p)' = SendsOf(p) /\ ClearFor(p)' = ClearFor(p)
  BY <1>3, <1>5 DEF BoundView, MayReserve, Latest
<1>8. /\ phases' = [phases EXCEPT ![p] = to] /\ phases[p] = "open"
      /\ counts' = counts /\ clears' = clears
  BY <1>2, <1>4, <1>6, <1>7, OnePhaseChanges
<1> QED BY <1>2, <1>8 DEF Lifecycle!Grant, Lifecycle!Withdraw, Lifecycle!Enter, phases, counts, clears

\* Consuming an approval is not visible.
LEMMA ConsumeView ==
  ASSUME RowsFitTogether, Views, Views',
         NEW a \in ApprovalId, NEW at \in Time, ConsumeApproval(a, at)
  PROVE  UNCHANGED Lifecycle!vars
<1>1. approvals[a] # None
  BY DEF ConsumeApproval, ConsumableAt
<1>2. approvals[a] \in Approval /\ ProposalOf(a) \in ProposalId
  BY <1>1 DEF RowsFitTogether, TypeOK, Approval, ProposalOf
<1>3. /\ UNCHANGED <<proposals, receipts, dispatches>>
      /\ approvals'[a] # None /\ ProposalOf(a)' = ProposalOf(a)
      /\ \A b \in ApprovalId \ {a} : approvals'[b] = approvals[b]
  BY <1>1, <1>2, NoneAssumption
  DEF ConsumeApproval, attemptVars, RowsFitTogether, TypeOK, Approval, ProposalOf
<1>4. ASSUME NEW q \in ProposalId
      PROVE  PhaseOf(q)' = PhaseOf(q) /\ SendsOf(q)' = SendsOf(q) /\ ClearFor(q)' = ClearFor(q)
  <2>1. \A b \in ApprovalId : Bound(b, q)' <=> Bound(b, q)
    BY <1>1, <1>3 DEF Bound, ProposalOf
  <2> QED BY <1>3, <2>1, SameView
<1> QED BY <1>4, NoViewChanges

\* Beginning runs an action that was granted or paused.
LEMMA BeginView ==
  ASSUME RowsFitTogether, Views, Views',
         NEW a \in ApprovalId, NEW at \in Time, BeginExecution(a, at)
  PROVE  Lifecycle!Start(ProposalOf(a))
<1>1. approvals[a] # None /\ MayBegin(a)
  BY DEF BeginExecution, DurableAction
<1>2. PICK p \in ProposalId : p = ProposalOf(a)
  BY <1>1 DEF RowsFitTogether, TypeOK, Approval, ProposalOf
<1>3. /\ UNCHANGED <<approvals, receipts, dispatches>>
      /\ approvals'[a] # None /\ ProposalOf(a)' = p
      /\ \A b \in ApprovalId \ {a} : approvals'[b] = approvals[b]
      /\ \A q \in ProposalId \ {p} : proposals'[q] = proposals[q]
      /\ proposals'[p].state = "executing"
  BY <1>1, <1>2 DEF BeginExecution, SetProposal, attemptVars, RowsFitTogether, TypeOK, ProposalOf
<1>4. \A q \in ProposalId \ {p} :
        PhaseOf(q)' = PhaseOf(q) /\ SendsOf(q)' = SendsOf(q) /\ ClearFor(q)' = ClearFor(q)
  BY <1>1, <1>2, <1>3, OtherViews
<1>5. BoundView(p, a) /\ BoundView(p, a)'
  BY <1>1, <1>2, <1>3 DEF Views, Bound
<1>6. PhaseOf(p) \in {"granted", "paused"} /\ PhaseOf(p)' = "running"
  BY <1>1, <1>2, <1>3, <1>5 DEF BoundView, MayBegin, StateOf
<1>7. SendsOf(p)' = SendsOf(p) /\ ClearFor(p)' = ClearFor(p)
  BY <1>3, <1>5 DEF BoundView, MayReserve, Latest
<1>8. /\ phases' = [phases EXCEPT ![p] = "running"] /\ phases[p] \in {"granted", "paused"}
      /\ counts' = counts /\ clears' = clears
  BY <1>2, <1>4, <1>6, <1>7, OnePhaseChanges
<1> QED BY <1>2, <1>8 DEF Lifecycle!Start, Lifecycle!Enter, phases, counts, clears

\* A reservation authorises one send and leaves none clear.
LEMMA ReserveView ==
  ASSUME RowsFitTogether, Views, Views',
         NEW a \in ApprovalId, NEW at \in Time, ReserveDispatch(a, at)
  PROVE  Lifecycle!Send(ProposalOf(a))
<1> DEFINE n == Len(dispatches[a])
           row == [reservedAt |-> at, settlement |-> None]
<1>1. approvals[a] # None /\ MayReserve(a) /\ StateOf(a) = "executing"
  BY DEF ReserveDispatch, DurableAction
<1>2. PICK p \in ProposalId : p = ProposalOf(a) /\ dispatches[a] \in Seq(Dispatch)
  BY <1>1 DEF RowsFitTogether, TypeOK, Approval, ProposalOf
<1>3. /\ UNCHANGED <<approvals, receipts, proposals>>
      /\ approvals'[a] # None /\ ProposalOf(a)' = p
      /\ dispatches'[a] = Append(dispatches[a], row)
      /\ \A b \in ApprovalId \ {a} : approvals'[b] = approvals[b] /\ dispatches'[b] = dispatches[b]
  BY <1>1, <1>2 DEF ReserveDispatch, RowsFitTogether, TypeOK, ProposalOf
<1>4. \A q \in ProposalId \ {p} :
        PhaseOf(q)' = PhaseOf(q) /\ SendsOf(q)' = SendsOf(q) /\ ClearFor(q)' = ClearFor(q)
  BY <1>1, <1>2, <1>3, OtherViews
<1>5. BoundView(p, a) /\ BoundView(p, a)'
  BY <1>1, <1>2, <1>3 DEF Views, Bound
<1>6. Len(dispatches'[a]) = n + 1 /\ dispatches'[a] # <<>> /\ dispatches'[a][n + 1] = row
  BY <1>2, <1>3
<1>7. MayReserve(a)' = FALSE
  BY <1>6 DEF MayReserve, Latest
<1>8. /\ PhaseOf(p) = "running" /\ PhaseOf(p)' = "running"
      /\ SendsOf(p)' = SendsOf(p) + 1 /\ ClearFor(p) = TRUE /\ ClearFor(p)' = FALSE
  <2>1. MayReserve(a) = TRUE
    BY <1>1 DEF MayReserve
  <2> QED BY <1>1, <1>2, <1>3, <1>5, <1>6, <1>7, <2>1 DEF BoundView, StateOf
<1> QED BY <1>2, <1>4, <1>8, OneSend

\* A receipt reports on what was sent.
LEMMA RecordView ==
  ASSUME RowsFitTogether, Views, Views',
         NEW a \in ApprovalId, NEW r \in Receipt, RecordReceipt(a, r)
  PROVE  \E nothingDone \in BOOLEAN, to \in {"paused", "closed"} :
           Lifecycle!Report(ProposalOf(a), nothingDone, to)
<1> DEFINE again == r.verdict = "retry_same_key"
           to == IF Recoverable(r.verdict) THEN "paused" ELSE "closed"
<1>1. /\ approvals[a] # None /\ SettleLatest(a, r.verdict) /\ TypeOK
      /\ StateOf(a) \in {"executing", "uncertain"}
  BY DEF RecordReceipt, DurableAction, AcceptsReceipt, RowsFitTogether
<1>2. PICK p \in ProposalId : p = ProposalOf(a) /\ dispatches[a] \in Seq(Dispatch)
  BY <1>1 DEF TypeOK, Approval, ProposalOf
<1>3. r.verdict \in Verdict /\ r # None
  BY NoneAssumption DEF Receipt
<1>4. /\ UNCHANGED approvals
      /\ approvals'[a] # None /\ ProposalOf(a)' = p
      /\ receipts'[a] = r /\ proposals'[p].state = ReceiptState(r.verdict)
      /\ \A q \in ProposalId \ {p} : proposals'[q] = proposals[q]
      /\ \A b \in ApprovalId \ {a} : approvals'[b] = approvals[b] /\ receipts'[b] = receipts[b]
  BY <1>1, <1>2 DEF RecordReceipt, SetProposal, TypeOK, ProposalOf
<1>5. /\ Len(dispatches'[a]) = Len(dispatches[a])
      /\ dispatches[a] = <<>> => dispatches'[a] = <<>>
      /\ dispatches[a] # <<>> =>
           /\ Len(dispatches[a]) \in Nat \ {0} /\ dispatches'[a] # <<>>
           /\ dispatches'[a][Len(dispatches[a])].settlement # None
           /\ dispatches'[a][Len(dispatches[a])].settlement.verdict = r.verdict
      /\ \A b \in ApprovalId \ {a} : dispatches'[b] = dispatches[b]
  <2>1. CASE dispatches[a] = <<>>
    BY <1>1, <1>3, <2>1, SettleLatestEffect
  <2>2. CASE dispatches[a] # <<>>
    <3>1. /\ Len(dispatches[a]) \in Nat \ {0} /\ Len(dispatches'[a]) = Len(dispatches[a])
          /\ dispatches'[a][Len(dispatches[a])].settlement # None
          /\ dispatches'[a][Len(dispatches[a])].settlement.verdict = r.verdict
          /\ \A b \in ApprovalId \ {a} : dispatches'[b] = dispatches[b]
      BY <1>1, <1>3, <2>2, SettleLatestEffect
    <3>2. dispatches'[a] # <<>>
      BY <3>1
    <3> QED BY <2>2, <3>1, <3>2
  <2> QED BY <2>1, <2>2
<1>6. \A q \in ProposalId \ {p} :
        PhaseOf(q)' = PhaseOf(q) /\ SendsOf(q)' = SendsOf(q) /\ ClearFor(q)' = ClearFor(q)
  BY <1>1, <1>2, <1>4, <1>5, OtherViews
<1>7. BoundView(p, a) /\ BoundView(p, a)'
  BY <1>1, <1>2, <1>4 DEF Views, Bound
<1>8. PhaseOf(p) \in {"running", "paused"} /\ PhaseOf(p)' = to
  <2>1. HasReceipt(a, {"retry_same_key"})' = again
    BY <1>3, <1>4 DEF HasReceipt
  <2>2. r.verdict \in {"succeeded", "do_not_retry", "retry_same_key", "uncertain"}
    BY <1>3 DEF Verdict
  <2> QED BY <1>1, <1>2, <1>4, <1>7, <2>1, <2>2 DEF BoundView, ReceiptState, Recoverable, StateOf
<1>9. SendsOf(p)' = SendsOf(p) /\ SendsOf(p) = Len(dispatches[a])
  BY <1>5, <1>7 DEF BoundView
<1>10. MayReserve(a)' = (again \/ Len(dispatches[a]) = 0)
  <2>1. CASE dispatches[a] = <<>>
    BY <1>5, <2>1 DEF MayReserve
  <2>2. CASE dispatches[a] # <<>>
    BY <1>5, <2>2 DEF MayReserve, Latest
  <2> QED BY <2>1, <2>2
<1>11. ClearFor(p)' = (again \/ SendsOf(p) = 0)
  BY <1>7, <1>9, <1>10 DEF BoundView
<1>12. again => to = "paused"
  BY DEF Recoverable
<1>13. Lifecycle!Report(p, again, to)
  BY <1>2, <1>6, <1>8, <1>9, <1>11, <1>12, OneReport
<1> QED BY <1>2, <1>12, <1>13

\* Every step of the store is a step of the life cycle or is not visible in it.
LEMMA LifecycleStep ==
  ASSUME RowsFitTogether, Views, Views', [Next]_vars
  PROVE  [Lifecycle!Next]_(Lifecycle!vars)
<1>1. CASE UNCHANGED vars \/ SetClock
  BY <1>1, ClockView DEF vars, SetClock, attemptVars
<1>2. ASSUME NEW p \in ProposalId, NEW to \in ProposalState, NEW at \in Time,
             TransitionActionProposal(p, to, at)
      PROVE  [Lifecycle!Next]_(Lifecycle!vars)
  BY <1>2, TransitionView DEF Lifecycle!Next
<1>3. ASSUME NEW a \in ApprovalId, NEW p \in ProposalId, NEW req \in Time, NEW exp \in Time,
             RequestApproval(a, p, req, exp)
      PROVE  [Lifecycle!Next]_(Lifecycle!vars)
  BY <1>3, RequestView
<1>4. ASSUME NEW a \in ApprovalId, NEW d \in Decision \ {"pending"}, NEW at \in Time,
             DecideApproval(a, d, at)
      PROVE  [Lifecycle!Next]_(Lifecycle!vars)
  <2>1. ProposalOf(a) \in ProposalId
    BY <1>4, RowsFit DEF DecideApproval, AwaitingDecision
  <2> QED BY <1>4, <2>1, DecideView DEF Lifecycle!Next
<1>5. ASSUME NEW a \in ApprovalId, NEW at \in Time, ConsumeApproval(a, at)
      PROVE  [Lifecycle!Next]_(Lifecycle!vars)
  BY <1>5, ConsumeView
<1>6. ASSUME NEW a \in ApprovalId, NEW at \in Time, BeginExecution(a, at)
      PROVE  [Lifecycle!Next]_(Lifecycle!vars)
  <2>1. ProposalOf(a) \in ProposalId
    BY <1>6, RowsFit DEF BeginExecution, DurableAction
  <2> QED BY <1>6, <2>1, BeginView DEF Lifecycle!Next
<1>7. ASSUME NEW a \in ApprovalId, NEW at \in Time, ReserveDispatch(a, at)
      PROVE  [Lifecycle!Next]_(Lifecycle!vars)
  <2>1. ProposalOf(a) \in ProposalId
    BY <1>7, RowsFit DEF ReserveDispatch, DurableAction
  <2> QED BY <1>7, <2>1, ReserveView DEF Lifecycle!Next
<1>8. ASSUME NEW a \in ApprovalId, NEW r \in Receipt, RecordReceipt(a, r)
      PROVE  [Lifecycle!Next]_(Lifecycle!vars)
  <2>1. ProposalOf(a) \in ProposalId
    BY <1>8, RowsFit DEF RecordReceipt, DurableAction
  <2> QED BY <1>8, <2>1, RecordView DEF Lifecycle!Next
<1> QED BY <1>1, <1>2, <1>3, <1>4, <1>5, <1>6, <1>7, <1>8 DEF Next

\* The store starts with every action open and nothing sent.
LEMMA LifecycleStart == Init => Lifecycle!Init
<1> SUFFICES ASSUME Init PROVE Lifecycle!Init
  OBVIOUS
<1>1. ASSUME NEW p \in ProposalId
      PROVE  PhaseOf(p) = "open" /\ SendsOf(p) = 0 /\ ClearFor(p) = TRUE
  BY DEF Init, PhaseOf, SendsOf, ClearFor, HasApproval, Bound
<1>2. phases = [p \in ProposalId |-> "open"]
  BY <1>1 DEF phases
<1>3. counts = [p \in ProposalId |-> 0]
  BY <1>1 DEF counts
<1>4. clears = [p \in ProposalId |-> TRUE]
  BY <1>1 DEF clears
<1> QED BY <1>2, <1>3, <1>4 DEF Lifecycle!Init, phases, counts, clears

\* The store implements the life cycle: whatever callers do, an external
\* action runs only when granted, is never revived, and is sent again only
\* when every earlier send is known to have done nothing.
THEOREM StoreKeepsLifecycle == Spec => KeepsLifecycle
<1>1. Init => Lifecycle!Init
  BY LifecycleStart
<1>2. RowsFitTogether /\ RowsFitTogether' /\ [Next]_vars => [Lifecycle!Next]_(Lifecycle!vars)
  BY ViewsHold, ViewsHoldNext, LifecycleStep
<1> QED BY <1>1, <1>2, RowsAlwaysFit, PTL DEF Spec, KeepsLifecycle, Lifecycle!Spec
=============================================================================
