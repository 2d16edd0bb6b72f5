--------------------------- MODULE ThreadWorkProofs ---------------------------
(***************************************************************************)
(* Proofs about ThreadWork, for every persona, text, number of messages    *)
(* and revisions, and all bounds: the drafts, the audits and the rows of   *)
(* the replies of one conversation fit together, whatever was in progress  *)
(* when a message arrived, the thread was deleted or the application       *)
(* stopped.                                                                *)
(***************************************************************************)
EXTENDS ThreadWork, SequenceTheorems, TLAPS

\* The theorems of the store.
Rows == INSTANCE ActionStateProofs WITH ApprovalId <- ProposalId

(***************************************************************************)
(* The inductive invariant                                                 *)
(***************************************************************************)

\* Nothing is stored about a thread that is not there, or of a proposal that
\* was not created; an approval is its own proposal's, whose state says what was
\* decided.
RowsBelong ==
  /\ thread = None => drafts = <<>> /\ created = {} /\ audits = {}
  /\ deleted => thread = None
  /\ \A p \in ProposalId : approvals[p] = None =>
       /\ receipts[p] = None /\ dispatches[p] = <<>>
       /\ proposals[p].state = "proposed"
  /\ \A p \in ProposalId : approvals[p] # None =>
       /\ p \in created /\ approvals[p].proposal = p
       /\ proposals[p].state \in StatesUnder(approvals[p].decision)

\* How far a model request is, and what the session must be by then.
GenerationFits ==
  /\ generating # None /\ generating.step \in {"running", "done"} =>
       session # None /\ session.persona = generating.persona
  /\ generating # None /\ generating.step = "running" =>
       session.state = "partial" /\ drafts = <<>>
  /\ generating # None /\ generating.step = "done" => session.state = "completed"

\* What an execution has read and been answered.
ExecutionFits ==
  executing # None =>
    /\ executing.step \in {"begun", "reserved", "answered"} => executing.attemptedAt # None
    /\ executing.step = "answered" => executing.verdict # None

WorkFits ==
  /\ TypeOK /\ Rows!RowsFitTogether
  /\ RowsBelong /\ GenerationFits /\ ExecutionFits
  /\ OneDraftToWorkOn /\ DraftIsTheRunsAnswer /\ AuditsAreTrue

(***************************************************************************)
(* The rows of ActionState                                                 *)
(***************************************************************************)

LEMMA StoreNames == Rows!BoundsAssumption /\ Rows!NoneAssumption
BY StoreAssumption, ThreadNoneAssumption
DEF Rows!BoundsAssumption, Rows!NoneAssumption, Time, Rows!Time, Rows!Approval, Rows!Receipt,
    Rows!Settlement, Actions!Time, Actions!Approval, Actions!Receipt, Actions!Settlement,
    Rows!Decision, Actions!Decision, Rows!Verdict, Actions!Verdict

LEMMA SameTypes ==
  /\ Time = Rows!Time /\ Actions!Time = Rows!Time
  /\ Actions!Verdict = Rows!Verdict /\ Actions!Receipt = Rows!Receipt
  /\ Actions!Approval = Rows!Approval /\ Actions!Decision = Rows!Decision
  /\ Actions!Proposal = Rows!Proposal /\ Actions!Dispatch = Rows!Dispatch
BY DEF Time, Rows!Time, Actions!Time, Actions!Verdict, Rows!Verdict, Actions!Receipt,
       Rows!Receipt, Actions!Approval, Rows!Approval, Actions!Decision, Rows!Decision,
       Actions!Proposal, Rows!Proposal, Actions!ProposalState, Rows!ProposalState,
       Actions!Dispatch, Rows!Dispatch, Actions!Settlement, Rows!Settlement

LEMMA SameRows == (Actions!TypeOK <=> Rows!TypeOK) /\ (Actions!TypeOK' <=> Rows!TypeOK')
BY SameTypes DEF Actions!TypeOK, Rows!TypeOK

LEMMA InitStore == Actions!Init => Rows!Init
BY DEF Actions!Init, Rows!Init

\* An operation means the same in both instances of the store.
LEMMA SameStore ==
  /\ \A p \in ProposalId : \A s, e :
       Actions!RequestApproval(p, p, s, e) => Rows!RequestApproval(p, p, s, e)
  /\ \A p \in ProposalId : \A d, t : Actions!DecideApproval(p, d, t) => Rows!DecideApproval(p, d, t)
  /\ \A p \in ProposalId : \A t : Actions!ConsumeApproval(p, t) => Rows!ConsumeApproval(p, t)
  /\ \A p \in ProposalId : \A t : Actions!BeginExecution(p, t) => Rows!BeginExecution(p, t)
  /\ \A p \in ProposalId : \A t : Actions!ReserveDispatch(p, t) => Rows!ReserveDispatch(p, t)
  /\ \A p \in ProposalId : \A r : Actions!RecordReceipt(p, r) => Rows!RecordReceipt(p, r)
<1> USE DEF Actions!ProposalOf, Rows!ProposalOf, Actions!StateOf, Rows!StateOf,
            Actions!SetProposal, Rows!SetProposal, Actions!attemptVars, Rows!attemptVars
<1>2. \A p \in ProposalId : \A s, e :
        Actions!RequestApproval(p, p, s, e) => Rows!RequestApproval(p, p, s, e)
  BY DEF Actions!RequestApproval, Rows!RequestApproval
<1>3. \A p \in ProposalId : \A d, t :
        Actions!DecideApproval(p, d, t) => Rows!DecideApproval(p, d, t)
  BY DEF Actions!DecideApproval, Rows!DecideApproval, Actions!AwaitingDecision,
         Rows!AwaitingDecision, Actions!DecidedState, Rows!DecidedState
<1>4. \A p \in ProposalId : \A t : Actions!ConsumeApproval(p, t) => Rows!ConsumeApproval(p, t)
  BY DEF Actions!ConsumeApproval, Rows!ConsumeApproval, Actions!ConsumableAt, Rows!ConsumableAt
<1> USE DEF Actions!DurableAction, Rows!DurableAction
<1>5. \A p \in ProposalId : \A t : Actions!BeginExecution(p, t) => Rows!BeginExecution(p, t)
  BY DEF Actions!BeginExecution, Rows!BeginExecution, Actions!StartableAt, Rows!StartableAt,
         Actions!MayBegin, Rows!MayBegin, Actions!HasReceipt, Rows!HasReceipt
<1>6. \A p \in ProposalId : \A t : Actions!ReserveDispatch(p, t) => Rows!ReserveDispatch(p, t)
  BY DEF Actions!ReserveDispatch, Rows!ReserveDispatch, Actions!Latest, Rows!Latest,
         Actions!MayReserve, Rows!MayReserve
<1>7. \A p \in ProposalId : \A r : Actions!RecordReceipt(p, r) => Rows!RecordReceipt(p, r)
  BY DEF Actions!RecordReceipt, Rows!RecordReceipt, Actions!AcceptsReceipt, Rows!AcceptsReceipt,
         Actions!Recoverable, Rows!Recoverable, Actions!ReceiptState, Rows!ReceiptState,
         Actions!SettleLatest, Rows!SettleLatest, Actions!Latest, Rows!Latest
<1> QED BY <1>2, <1>3, <1>4, <1>5, <1>6, <1>7

\* The step of an operation, of the clock, or of neither.
StoreStep ==
  \/ \E p \in ProposalId : RequestApproval(p)
  \/ \E p \in ProposalId, d \in Answers : DecideApproval(p, d)
  \/ Consume \/ Begin \/ Reserve \/ Record \/ Tick \/ UNCHANGED actionRows

LEMMA Now == TypeOK => now \in Rows!Time
BY SameRows DEF TypeOK, StoreTypeOK, Rows!TypeOK

LEMMA ExecutedIsProposal == TypeOK /\ executing # None => Executed \in ProposalId
BY DEF TypeOK, Execution, Executed

LEMMA StepOfStore == TypeOK /\ ExecutionFits /\ StoreStep => [Rows!Next]_Rows!vars
<1> SUFFICES ASSUME TypeOK, ExecutionFits, StoreStep PROVE Rows!Next \/ UNCHANGED Rows!vars
  OBVIOUS
<1> USE DEF Rows!vars, actionRows
<1>1. now \in Rows!Time
  BY Now
<1>2. CASE UNCHANGED actionRows
  BY <1>2
<1>3. CASE Tick
  <2>1. now' \in Rows!Time \ {now}
    BY <1>1, <1>3, StoreAssumption DEF Tick, Rows!Time
  <2> QED BY <1>3, <2>1 DEF Tick, Rows!Next, Rows!SetClock, Rows!attemptVars
<1>4. ASSUME NEW p \in ProposalId, RequestApproval(p)
      PROVE  Rows!Next
  <2>1. now + ReplyApprovalTtl \in Rows!Time
    BY <1>1, <1>4, TtlAssumption, StoreAssumption DEF RequestApproval, Rows!Time
  <2> QED BY <1>1, <1>4, <2>1, SameStore DEF RequestApproval, Rows!Next
<1>5. ASSUME NEW p \in ProposalId, NEW d \in Answers, DecideApproval(p, d)
      PROVE  Rows!Next
  <2> DEFINE decision == IF now > approvals[p].expiresAt THEN "expired" ELSE d
  <2>1. decision \in Rows!Decision \ {"pending"}
    BY TtlAssumption DEF Rows!Decision
  <2>2. Rows!DecideApproval(p, decision, now)
    BY <1>5, SameStore DEF DecideApproval
  <2> QED BY <1>1, <2>1, <2>2 DEF Rows!Next
<1>6. executing # None => Executed \in ProposalId
  BY ExecutedIsProposal
<1>7. CASE Consume
  BY <1>1, <1>6, <1>7, SameStore DEF Consume, AtStep, Rows!Next
<1>8. CASE Begin
  BY <1>1, <1>6, <1>8, SameStore DEF Begin, AtStep, Rows!Next
<1>9. AtStep("begun") \/ AtStep("answered") => executing.attemptedAt \in Rows!Time
  BY SameTypes DEF AtStep, ExecutionFits, TypeOK, Execution
<1>10. CASE Reserve
  BY <1>6, <1>9, <1>10, SameStore DEF Reserve, AtStep, Rows!Next
<1>11. CASE Record
  <2>1. [verdict |-> executing.verdict, attemptedAt |-> executing.attemptedAt] \in Rows!Receipt
    BY <1>9, <1>11, SameTypes DEF Record, AtStep, ExecutionFits, TypeOK, Execution, Rows!Receipt
  <2> QED BY <1>6, <1>11, <2>1, SameStore DEF Record, AtStep, Rows!Next
<1> QED BY <1>2, <1>3, <1>4, <1>5, <1>7, <1>8, <1>10, <1>11 DEF StoreStep

\* A new proposal has no rows but its own, and a deletion leaves none.
LEMMA ProposalStep ==
  ASSUME TypeOK, Rows!RowsFitTogether, RowsBelong, OneDraftToWorkOn,
         NEW p \in ProposalId, Propose(p)
  PROVE  Rows!RowsFitTogether'
<1>1. /\ proposals' = [proposals EXCEPT ![p].updatedAt = now]
      /\ UNCHANGED <<now, approvals, receipts, dispatches>>
      /\ p \notin created
  BY DEF Propose, CreateActionProposal
<1>2. Rows!TypeOK /\ proposals[p] \in Rows!Proposal
  BY DEF Rows!RowsFitTogether, Rows!TypeOK
<1>3. [proposals[p] EXCEPT !.updatedAt = now] \in Rows!Proposal
  BY <1>2, Now DEF Rows!Proposal
<1>4. proposals' \in [ProposalId -> Rows!Proposal]
  BY <1>1, <1>2, <1>3 DEF Rows!TypeOK
<1>5. Rows!TypeOK'
  BY <1>1, <1>2, <1>4 DEF Rows!TypeOK
<1>6. \A q \in ProposalId : proposals'[q].state = proposals[q].state
  BY <1>1, <1>2 DEF Rows!TypeOK, Rows!Proposal
<1>7. \A q \in ProposalId : approvals[q] # None =>
        /\ approvals[q].proposal = q /\ q # p
        /\ proposals'[q] = proposals[q]
  BY <1>1, <1>2 DEF RowsBelong, Rows!TypeOK
<1>8. \A q \in ProposalId : approvals[q] # None =>
        Rows!StateOf(q)' = Rows!StateOf(q) /\ Rows!ProposalOf(q)' = Rows!ProposalOf(q)
  BY <1>1, <1>7 DEF Rows!StateOf, Rows!ProposalOf
<1> USE DEF Rows!RowsFitTogether
<1>9. (Rows!OneApprovalPerProposal /\ Rows!ApprovalChronology)'
  BY <1>1 DEF Rows!OneApprovalPerProposal, Rows!ApprovalChronology, Rows!ProposalOf
<1>10. (Rows!DecisionBoundsState)'
  BY <1>1, <1>8 DEF Rows!DecisionBoundsState
<1>11. (Rows!StartedAfterConsumption)'
  BY <1>1, <1>7, <1>8 DEF Rows!StartedAfterConsumption, Rows!ProposalOf
<1>12. (Rows!ApprovalBeforeExecution)'
  BY <1>1, <1>6 DEF Rows!ApprovalBeforeExecution, Rows!ProposalOf
<1>13. (Rows!StateAgreesWithReceipt)'
  BY <1>1, <1>8 DEF Rows!StateAgreesWithReceipt, Rows!DurableAction
<1>14. (Rows!RetriesOnlyAfterNoEffect /\ Rows!DispatchWithinApproval)'
  BY <1>1 DEF Rows!RetriesOnlyAfterNoEffect, Rows!DispatchWithinApproval
<1>15. (Rows!SettlementAgreesWithReceipt)'
  <2>1. \A q \in ProposalId : dispatches[q] # <<>> => approvals[q] # None
    BY DEF RowsBelong
  <2> QED BY <1>1, <1>8, <2>1 DEF Rows!SettlementAgreesWithReceipt, Rows!Latest, Rows!HasReceipt
<1> QED BY <1>5, <1>9, <1>10, <1>11, <1>12, <1>13, <1>14, <1>15

LEMMA DeletionStep ==
  ASSUME TypeOK, Rows!RowsFitTogether, ConfirmDeletion
  PROVE  Rows!RowsFitTogether'
<1>1. /\ now' = now
      /\ proposals' = [p \in ProposalId |-> [state |-> "proposed", updatedAt |-> 0]]
      /\ approvals' = [p \in ProposalId |-> None]
      /\ receipts' = [p \in ProposalId |-> None]
      /\ dispatches' = [p \in ProposalId |-> <<>>]
  BY DEF ConfirmDeletion, DeleteThread, RemoveEverything
<1>2. Rows!TypeOK'
  BY <1>1, Now, StoreAssumption DEF Rows!TypeOK, Rows!Proposal, Rows!ProposalState, Rows!Time
<1> QED
  BY <1>1, <1>2
  DEF Rows!RowsFitTogether, Rows!ExecutionStates,
      Rows!OneApprovalPerProposal, Rows!ApprovalChronology, Rows!DecisionBoundsState,
      Rows!StartedAfterConsumption, Rows!ApprovalBeforeExecution, Rows!StateAgreesWithReceipt,
      Rows!RetriesOnlyAfterNoEffect, Rows!SettlementAgreesWithReceipt, Rows!DispatchWithinApproval

\* What each step leaves alone.
Edits ==
  \E r \in Revision, t \in Text, submit \in BOOLEAN :
    RepeatEdit(r, t, submit) \/ SubmitUnchanged(r, t, submit) \/ EditText(r, t, submit)

LEMMA Moves == [Next]_vars =>
  /\ ReceiveMessage \/ Act \/ ConfirmDeletion \/ UNCHANGED thread
  /\ LinkDraft \/ Edits \/ ConfirmDeletion \/ UNCHANGED <<drafts, audits>>
  /\ (\E p \in ProposalId : Propose(p)) \/ ConfirmDeletion \/ (StoreStep /\ UNCHANGED created)
  /\ ConfirmDeletion \/ UNCHANGED deleted
<1> SUFFICES ASSUME [Next]_vars
             PROVE  /\ ReceiveMessage \/ Act \/ ConfirmDeletion \/ UNCHANGED thread
                    /\ LinkDraft \/ Edits \/ ConfirmDeletion \/ UNCHANGED <<drafts, audits>>
                    /\ \/ (\E p \in ProposalId : Propose(p)) \/ ConfirmDeletion
                       \/ (StoreStep /\ UNCHANGED created)
                    /\ ConfirmDeletion \/ UNCHANGED deleted
  OBVIOUS
<1> USE DEF StoreStep, actionRows, calls
<1>1. CASE UNCHANGED vars
  BY <1>1 DEF vars, store
<1>2. CASE ReceiveMessage \/ Act \/ ConfirmDeletion
  BY <1>2 DEF ReceiveMessage, Act
<1>3. CASE RequestModelDraft \/ RunNewSession \/ CompleteSession \/ RecoverSession \/ GenerationFails
           \/ NotSent \/ Post \/ ExecutionFails \/ Restart \/ \E p \in ProposalId : StartExecution(p)
  BY <1>3 DEF RequestModelDraft, RunNewSession, CompleteSession, RecoverSession, GenerationFails,
              NotSent, Post, ExecutionFails, Restart, StartExecution, store
<1>4. CASE LinkDraft \/ Edits
  BY <1>4 DEF LinkDraft, Edits, RepeatEdit, SubmitUnchanged, EditText, EditRequest
<1>5. CASE \E p \in ProposalId : Propose(p)
  BY <1>5 DEF Propose
<1>6. CASE Tick \/ Consume \/ Begin \/ Reserve \/ Record
           \/ (\E p \in ProposalId : RequestApproval(p))
           \/ \E p \in ProposalId, d \in Answers : DecideApproval(p, d)
  BY <1>6 DEF Tick, Consume, Begin, Reserve, Record, RequestApproval, DecideApproval
<1> QED BY <1>1, <1>2, <1>3, <1>4, <1>5, <1>6 DEF Next, Edits

LEMMA RowsAfterStep == WorkFits /\ [Next]_vars => Rows!RowsFitTogether'
BY Moves, StepOfStore, ProposalStep, DeletionStep, StoreNames, Rows!RowsStep DEF WorkFits

(***************************************************************************)
(* Types                                                                   *)
(***************************************************************************)

LEMMA ThreadTimes ==
  TypeOK /\ thread # None =>
    /\ thread \in Thread /\ WorkItemUpdatedAt \in Time /\ ShownDone \in BOOLEAN
    /\ thread.messages \in 1..MaxMessages
BY DEF TypeOK, StoreTypeOK, Thread, WorkItemUpdatedAt, ShownDone

LEMMA ThreadWritten == TypeOK /\ (ReceiveMessage \/ Act) => thread' \in Thread
<1> SUFFICES ASSUME TypeOK, ReceiveMessage \/ Act PROVE thread' \in Thread
  OBVIOUS
<1>1. now \in Time /\ thread \in Thread \cup {None} /\ 0 \in Time
  BY Now, SameTypes, StoreAssumption DEF TypeOK, StoreTypeOK, Rows!Time
<1>2. CASE ReceiveMessage
  <2>1. CASE thread = None
    BY <1>1, <1>2, <2>1, ThreadBoundsAssumption
    DEF ReceiveMessage, PutWorkItemProjection, Thread
  <2>2. CASE thread # None
    <3>1. thread' = [thread EXCEPT !.messages = @ + 1, !.updatedAt = now]
      BY <1>2, <2>2 DEF ReceiveMessage, PutWorkItemProjection
    <3>2. thread.messages + 1 \in 1..MaxMessages
      BY <1>2, <2>2, ThreadTimes, ThreadBoundsAssumption
      DEF ReceiveMessage, PutWorkItemProjection, ThreadCanAdvance
    <3> QED BY <1>1, <2>2, <3>1, <3>2 DEF Thread
  <2> QED BY <2>1, <2>2
<1>3. CASE Act
  <2>4. thread # None /\ thread.actions < MaxActions
    BY <1>3 DEF Act, ApplyWorkItemUserAction
  <2>5. thread.actions \in 0..MaxActions
    BY <1>1, <2>4 DEF Thread
  <2>1. thread # None /\ thread.actions + 1 \in 0..MaxActions
    BY <2>4, <2>5, ThreadBoundsAssumption
  <2>2. CASE thread' = [thread EXCEPT !["doneAt"] = now, !.actions = @ + 1, !.actedAt = now]
    BY <1>1, <2>1, <2>2 DEF Thread
  <2>3. ASSUME NEW p \in Persona \cup {None},
               thread' = [thread EXCEPT !["persona"] = p, !.actions = @ + 1, !.actedAt = now]
        PROVE  thread' \in Thread
    BY <1>1, <2>1, <2>3 DEF Thread
  <2> QED BY <1>3, <2>2, <2>3 DEF Act, ApplyWorkItemUserAction
<1> QED BY <1>2, <1>3

LEMMA ThreadType == TypeOK /\ [Next]_vars => thread' \in Thread \cup {None}
BY ThreadWritten, Moves DEF TypeOK, StoreTypeOK, ConfirmDeletion, DeleteThread, RemoveEverything

\* The revisions d with a new state and time of revision r.
Changed(d, r, s, t) == [d EXCEPT ![r].state = s, ![r].updatedAt = t]

LEMMA DraftChanged ==
  ASSUME NEW d \in Seq(Draft), NEW r \in 1..Len(d), NEW s \in DraftState, NEW t \in Time
  PROVE  /\ Changed(d, r, s, t) \in Seq(Draft) /\ Len(Changed(d, r, s, t)) = Len(d)
         /\ Changed(d, r, s, t)[r].state = s /\ Changed(d, r, s, t)[r].updatedAt = t
         /\ Changed(d, r, s, t)[r].text = d[r].text
         /\ Changed(d, r, s, t)[r].persona = d[r].persona
         /\ \A i \in 1..Len(d) : i # r => Changed(d, r, s, t)[i] = d[i]
<1>1. d[r] \in Draft
  OBVIOUS
<1> DEFINE e == Changed(d, r, s, t)
           m == [d[r] EXCEPT !.state = s]
           n == [m EXCEPT !.updatedAt = t]
<1>2. m \in Draft /\ m.state = s /\ m.text = d[r].text /\ m.persona = d[r].persona
  BY <1>1 DEF Draft
<1>3. n \in Draft /\ n.state = s /\ n.updatedAt = t /\ n.text = m.text /\ n.persona = m.persona
  BY <1>2 DEF Draft
<1>4. e = [d EXCEPT ![r] = n]
  <2>1. [d EXCEPT ![r] = m] \in Seq(Draft) /\ [d EXCEPT ![r] = m][r] = m
    BY <1>2
  <2>2. e = [[d EXCEPT ![r] = m] EXCEPT ![r] = n]
    BY <2>1 DEF Changed
  <2> QED BY <2>2
<1> HIDE DEF n, m, e
<1>5. /\ e \in Seq(Draft) /\ Len(e) = Len(d)
      /\ e[r] = n /\ \A i \in 1..Len(d) : i # r => e[i] = d[i]
  BY <1>3, <1>4, ExceptSeq
<1> QED BY <1>2, <1>3, <1>5 DEF e

\* What becomes of the revisions: they stay, the first one is linked, the
\* latest is submitted or superseded by the next one, or all are removed.
Kept == drafts' = drafts
Linked ==
  /\ drafts = <<>> /\ drafts' = <<ModelDraft>> /\ ModelDraft \in Draft
  /\ generating # None /\ generating.step = "done"
Submitted ==
  /\ drafts # <<>> /\ LatestDraft.state = "editing" /\ LatestDraft.updatedAt <= now
  /\ drafts' = Changed(drafts, LatestRevision, "ready_for_review", now)
Revised ==
  /\ drafts # <<>> /\ Active(LatestDraft.state) /\ LatestDraft.updatedAt <= now
  /\ LatestRevision < MaxRevision
  /\ \E draft \in Draft :
       /\ Active(draft.state) /\ draft.persona = LatestDraft.persona /\ draft.updatedAt = now
       /\ drafts' = Append(Changed(drafts, LatestRevision, "superseded", now), draft)

LEMMA DraftTypes ==
  ASSUME TypeOK
  PROVE  /\ drafts \in Seq(Draft) /\ LatestRevision \in 0..MaxRevision
         /\ \A r \in 1..Len(drafts) : drafts[r] \in Draft
         /\ drafts # <<>> <=> LatestRevision \in 1..Len(drafts)
         /\ now \in Time /\ MaxRevision \in Nat
BY Now, SameTypes, ThreadBoundsAssumption DEF TypeOK, StoreTypeOK, LatestRevision

LEMMA DraftsStep ==
  ASSUME TypeOK, GenerationFits, RowsBelong, [Next]_vars
  PROVE  Kept \/ Linked \/ Submitted \/ Revised \/ ConfirmDeletion
<1> USE DraftTypes
<1>1. CASE LinkDraft
  <2>1. generating # None /\ generating.step = "done" /\ session # None
    BY <1>1 DEF LinkDraft, GenerationFits
  <2>2. ModelDraft \in Draft
    <3>1. session.text \in Text /\ session.at \in Time
      BY <2>1 DEF TypeOK, Session
    <3>2. generating.persona \in Persona
      BY <2>1 DEF TypeOK, Generation
    <3> QED BY <3>1, <3>2 DEF ModelDraft, Draft, DraftState
  <2>3. drafts = <<>> => Append(drafts, ModelDraft) = <<ModelDraft>>
    OBVIOUS
  <2>4. drafts' = drafts \/ (drafts = <<>> /\ drafts' = Append(drafts, ModelDraft))
    BY <1>1 DEF LinkDraft, CreateDraft
  <2> QED BY <2>1, <2>2, <2>3, <2>4 DEF Kept, Linked
<1>2. ASSUME NEW r \in Revision, NEW t \in Text, NEW s \in BOOLEAN, RepeatEdit(r, t, s)
      PROVE  Kept
  BY <1>2 DEF RepeatEdit, Kept
<1>3. ASSUME NEW r \in Revision, NEW t \in Text, NEW s \in BOOLEAN, SubmitUnchanged(r, t, s)
      PROVE  Kept \/ Submitted
  BY <1>3 DEF SubmitUnchanged, EditRequest, Editable, TransitionDraft, Kept, Submitted, LatestDraft,
              Changed
<1>4. ASSUME NEW r \in Revision, NEW t \in Text, NEW s \in BOOLEAN, EditText(r, t, s)
      PROVE  Revised
  <2> DEFINE draft == [state |-> TargetState(s), text |-> t, persona |-> thread.persona,
                       updatedAt |-> now]
  <2>1. /\ r = LatestRevision /\ drafts # <<>> /\ thread # None /\ thread.persona # None
        /\ thread.persona = LatestDraft.persona /\ ReviseDraft(r, draft)
    <3>1. /\ r = LatestRevision /\ r \in 1..LatestRevision /\ thread # None
          /\ thread.persona # None /\ drafts[r].persona = thread.persona
      BY <1>4 DEF EditText, EditRequest, Editable
    <3>2. ReviseDraft(r, draft)
      BY <1>4 DEF EditText
    <3> HIDE DEF draft
    <3> QED BY <3>1, <3>2 DEF LatestDraft, LatestRevision
  <2>2. thread.persona \in Persona
    BY <2>1, ThreadTimes DEF Thread
  <2>3. draft \in Draft /\ Active(draft.state) /\ draft.updatedAt = now
        /\ draft.persona = thread.persona
    BY <2>2 DEF Draft, DraftState, TargetState, Active
  <2> HIDE DEF draft
  <2> QED BY <2>1, <2>3 DEF ReviseDraft, Revised, Changed
<1> QED BY <1>1, <1>2, <1>3, <1>4, Moves DEF Edits, Kept

LEMMA SubmittedDrafts ==
  ASSUME TypeOK, Submitted
  PROVE  /\ drafts' \in Seq(Draft) /\ Len(drafts') = Len(drafts) /\ Len(drafts) \in 1..MaxRevision
         /\ drafts'[Len(drafts)].state = "ready_for_review"
         /\ drafts'[Len(drafts)].updatedAt = now
         /\ drafts[Len(drafts)].updatedAt <= now
         /\ drafts'[Len(drafts)].text = drafts[Len(drafts)].text
         /\ drafts'[Len(drafts)].persona = drafts[Len(drafts)].persona
         /\ drafts[Len(drafts)].state = "editing"
         /\ \A i \in 1..(Len(drafts) - 1) : drafts'[i] = drafts[i]
<1>1. drafts \in Seq(Draft) /\ Len(drafts) \in 1..Len(drafts) /\ now \in Time
      /\ Len(drafts) \in 1..MaxRevision
  BY DraftTypes DEF Submitted, LatestRevision
<1>2. drafts' = Changed(drafts, Len(drafts), "ready_for_review", now)
  BY DEF Submitted, LatestRevision
<1>3. "ready_for_review" \in DraftState
  BY DEF DraftState
<1>4. /\ drafts' \in Seq(Draft) /\ Len(drafts') = Len(drafts)
      /\ drafts'[Len(drafts)].state = "ready_for_review" /\ drafts'[Len(drafts)].updatedAt = now
      /\ drafts'[Len(drafts)].text = drafts[Len(drafts)].text
      /\ drafts'[Len(drafts)].persona = drafts[Len(drafts)].persona
      /\ \A i \in 1..Len(drafts) : i # Len(drafts) => drafts'[i] = drafts[i]
  BY <1>1, <1>2, <1>3, DraftChanged
<1> QED BY <1>1, <1>4 DEF Submitted, LatestDraft, LatestRevision

LEMMA RevisedDrafts ==
  ASSUME TypeOK, Revised
  PROVE  /\ drafts' \in Seq(Draft) /\ Len(drafts') = Len(drafts) + 1
         /\ Len(drafts) \in 1..MaxRevision /\ Len(drafts') \in 1..MaxRevision
         /\ drafts'[Len(drafts)].state = "superseded"
         /\ drafts'[Len(drafts)].updatedAt = now
         /\ drafts[Len(drafts)].updatedAt <= now
         /\ drafts'[Len(drafts)].text = drafts[Len(drafts)].text
         /\ drafts'[Len(drafts)].persona = drafts[Len(drafts)].persona
         /\ Active(drafts[Len(drafts)].state)
         /\ Active(drafts'[Len(drafts')].state)
         /\ drafts'[Len(drafts')].persona = drafts[Len(drafts)].persona
         /\ drafts'[Len(drafts')].updatedAt = now
         /\ \A i \in 1..(Len(drafts) - 1) : drafts'[i] = drafts[i]
<1>1. drafts \in Seq(Draft) /\ Len(drafts) \in 1..Len(drafts) /\ now \in Time
      /\ Len(drafts) \in 1..MaxRevision /\ Len(drafts) < MaxRevision /\ MaxRevision \in Nat
  BY DraftTypes DEF Revised, LatestRevision
<1> DEFINE older == Changed(drafts, Len(drafts), "superseded", now)
<1>2. PICK draft \in Draft :
        /\ Active(draft.state) /\ draft.persona = LatestDraft.persona /\ draft.updatedAt = now
        /\ drafts' = Append(older, draft)
  BY DEF Revised, LatestRevision
<1>3. "superseded" \in DraftState
  BY DEF DraftState
<1>4. /\ older \in Seq(Draft) /\ Len(older) = Len(drafts)
      /\ older[Len(drafts)].state = "superseded" /\ older[Len(drafts)].updatedAt = now
      /\ older[Len(drafts)].text = drafts[Len(drafts)].text
      /\ older[Len(drafts)].persona = drafts[Len(drafts)].persona
      /\ \A i \in 1..Len(drafts) : i # Len(drafts) => older[i] = drafts[i]
  BY <1>1, <1>3, DraftChanged
<1> HIDE DEF older
<1>5. /\ drafts' \in Seq(Draft) /\ Len(drafts') = Len(drafts) + 1
      /\ drafts'[Len(drafts) + 1] = draft
      /\ \A i \in 1..Len(drafts) : drafts'[i] = older[i]
  BY <1>1, <1>2, <1>4, AppendProperties
<1> QED BY <1>1, <1>2, <1>4, <1>5 DEF Revised, LatestDraft, LatestRevision

LEMMA DraftsType ==
  ASSUME TypeOK, GenerationFits, RowsBelong, [Next]_vars
  PROVE  drafts' \in Seq(Draft) /\ Len(drafts') <= MaxRevision
<1>1. CASE Kept
  BY <1>1, DraftTypes DEF Kept, LatestRevision
<1>2. CASE Linked
  BY <1>2, ThreadBoundsAssumption DEF Linked
<1>3. CASE Submitted
  BY <1>3, SubmittedDrafts, ThreadBoundsAssumption
<1>4. CASE Revised
  BY <1>4, RevisedDrafts, ThreadBoundsAssumption
<1>5. CASE ConfirmDeletion
  BY <1>5, ThreadBoundsAssumption DEF ConfirmDeletion, DeleteThread, RemoveEverything
<1> QED BY <1>1, <1>2, <1>3, <1>4, <1>5, DraftsStep

(***************************************************************************)
(* Drafts                                                                  *)
(***************************************************************************)

\* Revisions stay what they are, except that they leave editing for good.
LEMMA DraftsGrow ==
  ASSUME TypeOK, GenerationFits, RowsBelong, [Next]_vars, ~ConfirmDeletion
  PROVE  /\ Len(drafts) \in Nat /\ Len(drafts') \in Nat /\ Len(drafts) <= Len(drafts')
         /\ \A r \in 1..Len(drafts) :
              /\ drafts[r].state # "editing" => drafts'[r].state # "editing"
              /\ drafts'[r].text = drafts[r].text /\ drafts'[r].persona = drafts[r].persona
              /\ drafts[r].updatedAt <= drafts'[r].updatedAt
<1>1. drafts \in Seq(Draft) /\ Len(drafts) \in Nat
      /\ \A r \in 1..Len(drafts) : drafts[r].updatedAt \in Nat
  BY DraftTypes, SameTypes, StoreAssumption DEF LatestRevision, Draft, Rows!Time
<1>2. CASE Kept
  BY <1>1, <1>2 DEF Kept
<1>3. CASE Linked
  BY <1>3 DEF Linked
<1>4. CASE Submitted
  <2>1. \A r \in 1..Len(drafts) : r = Len(drafts) \/ r \in 1..(Len(drafts) - 1)
    BY <1>1
  <2> QED BY <1>1, <1>4, <2>1, SubmittedDrafts
<1>5. CASE Revised
  <2>1. \A r \in 1..Len(drafts) : r = Len(drafts) \/ r \in 1..(Len(drafts) - 1)
    BY <1>1
  <2> QED BY <1>1, <1>5, <2>1, RevisedDrafts DEF Active
<1> QED BY <1>2, <1>3, <1>4, <1>5, DraftsStep

\* The revisions form a chain.
Chain ==
  /\ drafts # <<>> => ChainComplete
  /\ \A r \in 1..(LatestRevision - 1) : drafts[r].updatedAt <= drafts[r + 1].updatedAt

LEMMA ChainStep ==
  ASSUME TypeOK, GenerationFits, RowsBelong, Chain, [Next]_vars
  PROVE  Chain'
<1>1. drafts \in Seq(Draft) /\ Len(drafts) \in Nat
      /\ \A r \in 1..Len(drafts) : drafts[r] \in Draft
  BY DraftTypes DEF LatestRevision
<1>2. CASE Kept
  BY <1>2 DEF Kept, Chain, ChainComplete, LatestDraft, LatestRevision
<1>3. CASE Linked
  <2>1. Len(drafts') = 1 /\ drafts'[1] = ModelDraft
    BY <1>3 DEF Linked
  <2>2. ModelDraft.state = "editing"
    BY DEF ModelDraft
  <2> QED BY <2>1, <2>2 DEF Chain, ChainComplete, LatestDraft, LatestRevision
<1>4. CASE Submitted
  <2>1. \A r \in 1..(Len(drafts) - 1) :
          r \in 1..Len(drafts) /\ (r + 1 = Len(drafts) \/ r + 1 \in 1..(Len(drafts) - 1))
    BY <1>1
  <2>4. /\ Len(drafts') = Len(drafts) /\ drafts'[Len(drafts)].state = "ready_for_review"
        /\ \A r \in 1..(Len(drafts) - 1) : drafts'[r] = drafts[r]
        /\ \A r \in 1..Len(drafts) : drafts'[r].persona = drafts[r].persona
    <3>1. \A r \in 1..Len(drafts) : r = Len(drafts) \/ r \in 1..(Len(drafts) - 1)
      BY <1>1
    <3> QED BY <1>4, <3>1, SubmittedDrafts
  <2>5. \A r \in 1..(Len(drafts) - 1) :
          drafts[r].state = "superseded" /\ drafts[r].persona = drafts[r + 1].persona
    BY <1>4 DEF Submitted, Chain, ChainComplete, LatestRevision
  <2>6. \A r \in 1..(Len(drafts) - 1) :
          r \in 1..Len(drafts) /\ r + 1 \in 1..Len(drafts)
    BY <1>1
  <2>7. \A r \in 1..(Len(drafts) - 1) :
          drafts'[r].state = "superseded" /\ drafts'[r].persona = drafts'[r + 1].persona
    BY <2>4, <2>5, <2>6
  <2>2. ChainComplete'
    BY <2>4, <2>7 DEF ChainComplete, LatestDraft, LatestRevision
  <2>3. \A r \in 1..(Len(drafts) - 1) : drafts'[r].updatedAt <= drafts'[r + 1].updatedAt
    <3> SUFFICES ASSUME NEW r \in 1..(Len(drafts) - 1)
                 PROVE  drafts'[r].updatedAt <= drafts'[r + 1].updatedAt
      OBVIOUS
    <3>1. drafts'[r] = drafts[r] /\ drafts[r].updatedAt <= drafts[r + 1].updatedAt
      BY <1>4, SubmittedDrafts DEF Chain, LatestRevision
    <3>2. drafts[r].updatedAt \in Nat /\ drafts[r + 1].updatedAt \in Nat /\ now \in Nat
      BY <1>1, <2>1, DraftTypes, SameTypes, StoreAssumption DEF Draft, Rows!Time
    <3>3. CASE r + 1 = Len(drafts)
      <4>1. drafts[r + 1].updatedAt <= now /\ drafts'[r + 1].updatedAt = now
        BY <1>4, <3>3, SubmittedDrafts
      <4> QED BY <3>1, <3>2, <4>1
    <3>4. CASE r + 1 \in 1..(Len(drafts) - 1)
      <4>1. drafts'[r + 1] = drafts[r + 1]
        BY <1>4, <3>4, SubmittedDrafts
      <4> QED BY <3>1, <3>2, <4>1
    <3> QED BY <2>1, <3>3, <3>4
  <2> QED BY <1>4, <2>2, <2>3, SubmittedDrafts DEF Chain, LatestRevision
<1>5. CASE Revised
  <2> DEFINE n == Len(drafts)
  <2>1. /\ \A r \in 1..n : r = n \/ r \in 1..(n - 1)
        /\ \A r \in 1..(n - 1) : r \in 1..n /\ (r + 1 = n \/ r + 1 \in 1..(n - 1))
        /\ n \in 1..n /\ Len(drafts') = n + 1
    BY <1>1, <1>5, RevisedDrafts
  <2>2. ChainComplete'
    <3>1. drafts'[n].state = "superseded" /\ drafts'[n].persona = drafts'[n + 1].persona
      BY <1>5, <2>1, RevisedDrafts
    <3>2. \A r \in 1..(n - 1) : drafts'[r].state = "superseded"
                                /\ drafts'[r].persona = drafts'[r + 1].persona
      <4>1. \A r \in 1..(n - 1) :
              drafts[r].state = "superseded" /\ drafts[r].persona = drafts[r + 1].persona
        BY <1>5 DEF Revised, Chain, ChainComplete, LatestRevision
      <4>2. \A r \in 1..n : drafts'[r].persona = drafts[r].persona
        BY <1>5, <2>1, RevisedDrafts
      <4>3. \A r \in 1..(n - 1) : drafts'[r] = drafts[r] /\ r + 1 \in 1..n
        BY <1>1, <1>5, RevisedDrafts
      <4> QED BY <4>1, <4>2, <4>3, <2>1
    <3>3. drafts'[n + 1].state # "superseded"
      BY <1>5, <2>1, RevisedDrafts DEF Active
    <3> QED BY <1>1, <2>1, <3>1, <3>2, <3>3 DEF ChainComplete, LatestDraft, LatestRevision
  <2>3. \A r \in 1..n : drafts'[r].updatedAt <= drafts'[r + 1].updatedAt
    <3> SUFFICES ASSUME NEW r \in 1..n PROVE drafts'[r].updatedAt <= drafts'[r + 1].updatedAt
      OBVIOUS
    <3>1. now \in Nat /\ \A i \in 1..n : drafts[i].updatedAt \in Nat
      BY <1>1, DraftTypes, SameTypes, StoreAssumption DEF Draft, Rows!Time
    <3>2. CASE r = n
      BY <1>5, <2>1, <3>1, <3>2, RevisedDrafts
    <3>3. CASE r \in 1..(n - 1)
      <4>1. drafts'[r] = drafts[r] /\ drafts[r].updatedAt <= drafts[r + 1].updatedAt
        BY <1>5, <3>3, RevisedDrafts DEF Chain, LatestRevision
      <4>2. CASE r + 1 = n
        <5>1. drafts[r + 1].updatedAt <= now /\ drafts'[r + 1].updatedAt = now
          BY <1>5, <4>2, RevisedDrafts
        <5>2. drafts[r].updatedAt \in Nat /\ drafts[r + 1].updatedAt \in Nat
          BY <2>1, <3>1, <4>2
        <5> QED BY <3>1, <4>1, <5>1, <5>2
      <4>3. CASE r + 1 \in 1..(n - 1)
        BY <1>5, <4>1, <4>3, RevisedDrafts
      <4> QED BY <2>1, <3>3, <4>2, <4>3
    <3> QED BY <2>1, <3>2, <3>3
  <2> QED BY <1>1, <2>1, <2>2, <2>3 DEF Chain, LatestRevision
<1>6. CASE ConfirmDeletion
  <2>1. drafts' = <<>> /\ Len(drafts') = 0
    BY <1>6 DEF ConfirmDeletion, DeleteThread, RemoveEverything
  <2> QED BY <2>1 DEF Chain, LatestRevision
<1> QED BY <1>2, <1>3, <1>4, <1>5, <1>6, DraftsStep

\* A proposal is of a revision that was under review.
Proposed == \A p \in created : p.revision <= LatestRevision /\ drafts[p.revision].state # "editing"

LEMMA ProposedStep ==
  ASSUME TypeOK, GenerationFits, RowsBelong, Proposed, [Next]_vars
  PROVE  Proposed'
<1>1. CASE ConfirmDeletion
  BY <1>1 DEF ConfirmDeletion, DeleteThread, RemoveEverything, Proposed
<1>2. CASE ~ConfirmDeletion
  <2>1. \A p \in ProposalId : p.revision \in Nat /\ p.revision >= 1
    BY ThreadBoundsAssumption DEF ProposalId, Revision
  <2>2. created \subseteq ProposalId
    BY DEF TypeOK, StoreTypeOK
  <2>3. \A p \in ProposalId :
          p.revision <= Len(drafts) /\ drafts[p.revision].state # "editing"
            => p.revision <= Len(drafts') /\ drafts'[p.revision].state # "editing"
    BY <1>2, <2>1, DraftsGrow
  <2>4. ASSUME NEW p \in ProposalId, Propose(p)
        PROVE  /\ created' = created \cup {p}
               /\ p.revision <= Len(drafts) /\ drafts[p.revision].state # "editing"
    BY <2>4 DEF Propose, CreateActionProposal, LatestRevision
  <2>5. \A p \in created : p.revision <= Len(drafts) /\ drafts[p.revision].state # "editing"
    BY DEF Proposed, LatestRevision
  <2>6. \A p \in created' : p \in ProposalId /\ p.revision <= Len(drafts)
                            /\ drafts[p.revision].state # "editing"
    BY <1>2, <2>2, <2>4, <2>5, Moves
  <2> QED BY <2>3, <2>6 DEF Proposed, LatestRevision
<1> QED BY <1>1, <1>2

LEMMA OneDraftParts == OneDraftToWorkOn <=> Chain /\ Proposed
BY DEF OneDraftToWorkOn, Chain, Proposed

LEMMA OneDraftStep == WorkFits /\ [Next]_vars => OneDraftToWorkOn'
<1> SUFFICES ASSUME WorkFits, [Next]_vars PROVE OneDraftToWorkOn'
  OBVIOUS
<1>1. Chain' /\ Proposed'
  BY ChainStep, ProposedStep, OneDraftParts DEF WorkFits
<1> QED BY <1>1 DEF OneDraftToWorkOn, Chain, Proposed

(***************************************************************************)
(* Audits                                                                  *)
(***************************************************************************)

\* What AuditsAreTrue says of one audit.
AuditHolds(audit) ==
  /\ audit.revision <= LatestRevision
  /\ audit.action = "model_run" => audit.revision = 1
  /\ audit.action = "edited" => audit.revision > 1 /\ audit.source = audit.revision - 1
  /\ audit.action = "ready_for_review" =>
       /\ drafts[audit.revision].state # "editing"
       /\ audit.source \in {audit.revision, audit.revision - 1}

\* An edit, or its repetition, is the audit's own.
LEMMA EditAudit ==
  ASSUME TypeOK, NEW r \in 1..MaxRevision, NEW submit \in BOOLEAN, r + 1 <= MaxRevision,
         AuditAfterwards(UserAudit(ActionOf(submit), r + 1, r)),
         drafts'[r + 1].state = TargetState(submit)
  PROVE  UNCHANGED audits \/ \E a \in Audit : audits' = audits \cup {a} /\ AuditHolds(a)'
<1> DEFINE a == UserAudit(ActionOf(submit), r + 1, r)
<1>1. r + 1 \in Revision /\ r \in Revision /\ r \in Nat
  BY ThreadBoundsAssumption DEF Revision
<1>2. /\ a.action = ActionOf(submit) /\ a.revision = r + 1 /\ a.source = r
      /\ a \in Audit
  BY <1>1 DEF UserAudit, Audit, ActionOf
<1>3. UNCHANGED audits \/ (audits' = audits \cup {a} /\ a.revision <= Len(drafts'))
  BY DEF AuditAfterwards, Appendable
<1> HIDE DEF a
<1>4. a.revision <= Len(drafts') => AuditHolds(a)'
  <2>1. submit => ActionOf(submit) = "ready_for_review" /\ TargetState(submit) = "ready_for_review"
    BY DEF ActionOf, TargetState
  <2>2. ~submit => ActionOf(submit) = "edited"
    BY DEF ActionOf
  <2> QED BY <1>1, <1>2, <2>1, <2>2 DEF AuditHolds, LatestRevision
<1> QED BY <1>2, <1>3, <1>4

LEMMA AuditWritten ==
  ASSUME TypeOK, GenerationFits, RowsBelong, [Next]_vars
  PROVE  \/ ConfirmDeletion \/ UNCHANGED audits
         \/ \E a \in Audit : audits' = audits \cup {a} /\ AuditHolds(a)'
<1>1. Len(drafts) \in Nat /\ Len(drafts) <= MaxRevision /\ MaxRevision \in Nat /\ 1 \in Revision
  BY DraftTypes, ThreadBoundsAssumption DEF LatestRevision, Revision
<1>2. CASE LinkDraft
  <2>1. ModelRunAudit \in Audit
    BY <1>1 DEF ModelRunAudit, Audit
  <2>2. UNCHANGED audits \/ (audits' = audits \cup {ModelRunAudit} /\ 1 <= Len(drafts'))
    BY <1>2 DEF LinkDraft, AuditAfterwards, Appendable, ModelRunAudit
  <2>3. 1 <= Len(drafts') => AuditHolds(ModelRunAudit)'
    BY DEF AuditHolds, ModelRunAudit, LatestRevision
  <2> QED BY <2>1, <2>2, <2>3
<1>3. ASSUME NEW r \in Revision, NEW t \in Text, NEW submit \in BOOLEAN, RepeatEdit(r, t, submit)
      PROVE  UNCHANGED audits \/ \E a \in Audit : audits' = audits \cup {a} /\ AuditHolds(a)'
  <2>1. /\ r < Len(drafts) /\ drafts' = drafts /\ drafts[r + 1].state = TargetState(submit)
        /\ AuditAfterwards(UserAudit(ActionOf(submit), r + 1, r))
    BY <1>3 DEF RepeatEdit, LatestRevision
  <2>2. r \in 1..MaxRevision /\ r + 1 <= MaxRevision
    BY <1>1, <2>1 DEF Revision
  <2> QED BY <2>1, <2>2, EditAudit
<1>4. ASSUME NEW r \in Revision, NEW t \in Text, NEW submit \in BOOLEAN, EditText(r, t, submit)
      PROVE  UNCHANGED audits \/ \E a \in Audit : audits' = audits \cup {a} /\ AuditHolds(a)'
  <2> DEFINE draft == [state |-> TargetState(submit), text |-> t, persona |-> thread.persona,
                       updatedAt |-> now]
             older == Changed(drafts, r, "superseded", now)
  <2>1. /\ r = Len(drafts) /\ r < MaxRevision /\ thread # None /\ thread.persona # None
        /\ AuditAfterwards(UserAudit(ActionOf(submit), r + 1, r))
        /\ drafts' = Append(older, draft)
    BY <1>4 DEF EditText, EditRequest, Editable, ReviseDraft, LatestRevision, Changed
  <2>2. thread.persona \in Persona
    BY <2>1, ThreadTimes DEF Thread
  <2>3. draft \in Draft /\ draft.state = TargetState(submit)
    BY <2>2, DraftTypes DEF Draft, DraftState, TargetState
  <2>4. older \in Seq(Draft) /\ Len(older) = Len(drafts)
    <3>1. r \in 1..Len(drafts) /\ "superseded" \in DraftState
      BY <1>1, <2>1 DEF Revision, DraftState
    <3>2. drafts \in Seq(Draft) /\ now \in Time
      BY DraftTypes
    <3> QED BY <3>1, <3>2, DraftChanged
  <2> HIDE DEF draft, older
  <2>5. drafts'[r + 1] = draft
    BY <1>1, <2>1, <2>3, <2>4
  <2>6. r \in 1..MaxRevision /\ r + 1 <= MaxRevision
    BY <1>1, <2>1 DEF Revision
  <2> QED BY <2>1, <2>3, <2>5, <2>6, EditAudit
<1>5. ASSUME NEW r \in Revision, NEW t \in Text, NEW submit \in BOOLEAN,
             SubmitUnchanged(r, t, submit)
      PROVE  UNCHANGED audits \/ \E a \in Audit : audits' = audits \cup {a} /\ AuditHolds(a)'
  <2> DEFINE a == UserAudit("ready_for_review", r, r)
  <2>1. a \in Audit /\ a.action = "ready_for_review" /\ a.revision = r /\ a.source = r
    BY DEF UserAudit, Audit
  <2>2. /\ r = Len(drafts) /\ r \in 1..Len(drafts) /\ AuditAfterwards(a)
        /\ drafts' = Changed(drafts, r, "ready_for_review", now)
             \/ (drafts[r].state = "ready_for_review" /\ drafts' = drafts)
    BY <1>5 DEF SubmitUnchanged, EditRequest, Editable, TransitionDraft, LatestDraft,
                LatestRevision, Changed
  <2>3. drafts'[r].state = "ready_for_review"
    <3>1. "ready_for_review" \in DraftState /\ drafts \in Seq(Draft) /\ now \in Time
      BY DraftTypes DEF DraftState
    <3>2. Changed(drafts, r, "ready_for_review", now)[r].state = "ready_for_review"
      BY <2>2, <3>1, DraftChanged
    <3> QED BY <2>2, <3>2
  <2>4. UNCHANGED audits \/ (audits' = audits \cup {a} /\ a.revision <= Len(drafts'))
    BY <2>2 DEF AuditAfterwards, Appendable
  <2> HIDE DEF a
  <2>5. a.revision <= Len(drafts') => AuditHolds(a)'
    BY <2>1, <2>3 DEF AuditHolds, LatestRevision
  <2> QED BY <2>1, <2>4, <2>5
<1> QED BY <1>2, <1>3, <1>4, <1>5, Moves DEF Edits

LEMMA AuditsStep == WorkFits /\ [Next]_vars => AuditsAreTrue'
<1> SUFFICES ASSUME WorkFits, [Next]_vars PROVE AuditsAreTrue'
  OBVIOUS
<1> USE DEF WorkFits
<1>1. CASE ConfirmDeletion
  BY <1>1 DEF ConfirmDeletion, DeleteThread, RemoveEverything, AuditsAreTrue
<1>2. CASE ~ConfirmDeletion
  <2>1. \A a \in audits : a \in Audit /\ a.revision \in Nat /\ a.revision >= 1
    BY ThreadBoundsAssumption DEF TypeOK, StoreTypeOK, Audit, Revision
  <2>2. \A a \in audits : AuditHolds(a)
    BY DEF AuditsAreTrue, AuditHolds
  <2>3. \A a \in audits : AuditHolds(a)'
    <3> SUFFICES ASSUME NEW a \in audits PROVE AuditHolds(a)'
      OBVIOUS
    <3>1. a.revision \in 1..Len(drafts) /\ a.revision <= Len(drafts')
      BY <1>2, <2>1, <2>2, DraftsGrow DEF AuditHolds, LatestRevision
    <3>2. drafts[a.revision].state # "editing" => drafts'[a.revision].state # "editing"
      BY <1>2, <3>1, DraftsGrow
    <3> QED BY <2>2, <3>1, <3>2 DEF AuditHolds, LatestRevision
  <2>4. \A a \in audits' : AuditHolds(a)'
    BY <1>2, <2>3, AuditWritten
  <2> QED BY <2>4 DEF AuditsAreTrue, AuditHolds
<1> QED BY <1>1, <1>2

(***************************************************************************)
(* The session and the execution                                           *)
(***************************************************************************)

LEMMA CallsMove == [Next]_vars =>
  /\ \/ RequestModelDraft \/ RunNewSession \/ CompleteSession \/ RecoverSession \/ LinkDraft
     \/ GenerationFails \/ Restart \/ UNCHANGED <<session, generating>>
  /\ \/ (\E p \in ProposalId : StartExecution(p)) \/ Consume \/ Begin \/ Reserve \/ NotSent
     \/ Post \/ Record \/ ExecutionFails \/ Restart \/ UNCHANGED executing
<1> SUFFICES ASSUME [Next]_vars
             PROVE  /\ \/ RequestModelDraft \/ RunNewSession \/ CompleteSession \/ RecoverSession
                       \/ LinkDraft \/ GenerationFails \/ Restart \/ UNCHANGED <<session, generating>>
                    /\ \/ (\E p \in ProposalId : StartExecution(p)) \/ Consume \/ Begin \/ Reserve
                       \/ NotSent \/ Post \/ Record \/ ExecutionFails \/ Restart
                       \/ UNCHANGED executing
  OBVIOUS
<1> USE DEF calls
<1>1. CASE UNCHANGED vars
  BY <1>1 DEF vars
<1>2. CASE Tick \/ ReceiveMessage \/ Act \/ ConfirmDeletion
  BY <1>2 DEF Tick, ReceiveMessage, Act, ConfirmDeletion
<1>3. CASE RequestModelDraft \/ RunNewSession \/ CompleteSession \/ RecoverSession \/ LinkDraft
           \/ GenerationFails
  BY <1>3 DEF RequestModelDraft, RunNewSession, CompleteSession, RecoverSession, LinkDraft,
              GenerationFails
<1>4. CASE Edits
  BY <1>4 DEF Edits, RepeatEdit, SubmitUnchanged, EditText, EditRequest
<1>5. CASE \E p \in ProposalId : Propose(p) \/ RequestApproval(p)
  BY <1>5 DEF Propose, RequestApproval
<1>6. CASE \E p \in ProposalId, d \in Answers : DecideApproval(p, d)
  BY <1>6 DEF DecideApproval
<1>7. CASE \/ (\E p \in ProposalId : StartExecution(p)) \/ Consume \/ Begin \/ Reserve \/ NotSent
           \/ Post \/ Record \/ ExecutionFails \/ Restart
  BY <1>7 DEF StartExecution, Consume, Begin, Reserve, NotSent, Post, Record, ExecutionFails
<1> QED BY <1>1, <1>2, <1>3, <1>4, <1>5, <1>6, <1>7 DEF Next, Edits

LEMMA SessionTypes ==
  TypeOK =>
    /\ session \in Session \cup {None} /\ generating \in Generation \cup {None}
    /\ generating # None =>
         /\ generating.persona \in Persona /\ generating.prompt \in PromptType
         /\ generating.recoverOnly \in BOOLEAN /\ generating.step \in {"asked", "running", "done"}
BY DEF TypeOK, Generation

\* No step but these three touches the stored session.
LEMMA SessionKept ==
  [Next]_vars => RunNewSession \/ CompleteSession \/ Restart \/ UNCHANGED session
BY CallsMove DEF RequestModelDraft, RecoverSession, LinkDraft, GenerationFails

LEMMA SessionType == TypeOK /\ GenerationFits /\ [Next]_vars => session' \in Session \cup {None}
<1> SUFFICES ASSUME TypeOK, GenerationFits, [Next]_vars PROVE session' \in Session \cup {None}
  OBVIOUS
<1>1. now \in Time /\ session \in Session \cup {None}
  BY Now, SameTypes, SessionTypes
<1>2. CASE RunNewSession
  <2>1. PICK text \in Text :
          session' = [prompt |-> generating.prompt, persona |-> generating.persona,
                      state |-> "partial", text |-> text, at |-> now]
    BY <1>2 DEF RunNewSession
  <2>2. generating.persona \in Persona /\ generating.prompt \in PromptType
    BY <1>2, SessionTypes DEF RunNewSession, Asked
  <2> QED BY <1>1, <2>1, <2>2 DEF Session
<1>3. CASE CompleteSession
  <2>1. session \in Session
    BY <1>1, <1>3 DEF CompleteSession, GenerationFits
  <2> QED BY <1>1, <1>3, <2>1 DEF CompleteSession, Session
<1>4. CASE Restart
  BY <1>1, <1>4 DEF Restart
<1> QED BY <1>1, <1>2, <1>3, <1>4, SessionKept

LEMMA GenerationType == TypeOK /\ [Next]_vars => generating' \in Generation \cup {None}
<1> SUFFICES ASSUME TypeOK, [Next]_vars PROVE generating' \in Generation \cup {None}
  OBVIOUS
<1>1. CASE RequestModelDraft
  <2>1. thread # None /\ thread.persona # None
    BY <1>1 DEF RequestModelDraft
  <2>2. thread.persona \in Persona
    BY <2>1, ThreadTimes DEF Thread
  <2>3. Prompt \in PromptType
    BY <2>1, ThreadTimes DEF Prompt, PromptType
  <2> QED BY <1>1, <2>2, <2>3 DEF RequestModelDraft, Generation
<1>2. CASE RunNewSession \/ CompleteSession \/ RecoverSession
  <2>1. generating # None
    BY <1>2 DEF RunNewSession, CompleteSession, RecoverSession, Asked
  <2>2. generating' = [generating EXCEPT !.step = "running"]
        \/ generating' = [generating EXCEPT !.step = "done"]
    BY <1>2 DEF RunNewSession, CompleteSession, RecoverSession
  <2> QED BY <2>1, <2>2, SessionTypes DEF Generation
<1>3. CASE LinkDraft \/ GenerationFails \/ Restart
  BY <1>3 DEF LinkDraft, GenerationFails, Restart
<1> QED BY <1>1, <1>2, <1>3, SessionTypes, CallsMove

LEMMA ExecutionType == TypeOK /\ [Next]_vars => executing' \in Execution \cup {None}
<1> SUFFICES ASSUME TypeOK, [Next]_vars PROVE executing' \in Execution \cup {None}
  OBVIOUS
<1>1. now \in Time /\ executing \in Execution \cup {None}
  BY Now, SameTypes DEF TypeOK
<1>2. CASE \E p \in ProposalId : StartExecution(p)
  BY <1>2 DEF StartExecution, Execution
<1>3. CASE Consume \/ Reserve
  <2>1. executing # None /\ \E s \in {"consumed", "reserved"} :
          executing' = [executing EXCEPT !.step = s]
    BY <1>3 DEF Consume, Reserve, AtStep, Goto
  <2> QED BY <1>1, <2>1 DEF Execution
<1>4. CASE Begin
  BY <1>1, <1>4 DEF Begin, AtStep, Execution
<1>5. CASE NotSent \/ Post
  <2>1. executing # None /\ \E v \in Actions!Verdict :
          executing' = [executing EXCEPT !.step = "answered", !.verdict = v]
    BY <1>5 DEF NotSent, Post, AtStep, Answer, Actions!Verdict
  <2> QED BY <1>1, <2>1 DEF Execution
<1>6. CASE Record \/ ExecutionFails \/ Restart
  BY <1>6 DEF Record, ExecutionFails, Restart
<1> QED BY <1>1, <1>2, <1>3, <1>4, <1>5, <1>6, CallsMove

LEMMA ExecutionStep == WorkFits /\ [Next]_vars => ExecutionFits'
<1> SUFFICES ASSUME WorkFits, [Next]_vars PROVE ExecutionFits'
  OBVIOUS
<1> USE DEF WorkFits
<1>1. now # None /\ executing \in Execution \cup {None} /\ None \notin Actions!Verdict
  BY Now, SameTypes, ThreadNoneAssumption, CallsNoneAssumption DEF TypeOK
<1>2. CASE \E p \in ProposalId : StartExecution(p)
  BY <1>2 DEF StartExecution, ExecutionFits
<1>3. CASE Consume
  BY <1>1, <1>3 DEF Consume, AtStep, Goto, ExecutionFits, Execution
<1>4. CASE Begin
  BY <1>1, <1>4 DEF Begin, AtStep, ExecutionFits, Execution
<1>5. CASE Reserve
  BY <1>1, <1>5 DEF Reserve, AtStep, Goto, ExecutionFits, Execution
<1>6. CASE NotSent \/ Post
  <2>1. /\ executing # None /\ executing.step \in {"begun", "reserved"}
        /\ \E v \in Actions!Verdict :
             executing' = [executing EXCEPT !.step = "answered", !.verdict = v]
    BY <1>6 DEF NotSent, Post, AtStep, Answer, Actions!Verdict
  <2> QED BY <1>1, <2>1 DEF ExecutionFits, Execution
<1>7. CASE Record \/ ExecutionFails \/ Restart
  BY <1>7 DEF Record, ExecutionFails, Restart, ExecutionFits
<1>8. CASE UNCHANGED executing
  BY <1>8 DEF ExecutionFits
<1> QED BY <1>2, <1>3, <1>4, <1>5, <1>6, <1>7, <1>8, CallsMove

\* The first revision stays the session's answer.
LEMMA FirstDraftStep ==
  ASSUME TypeOK, GenerationFits, RowsBelong, DraftIsTheRunsAnswer, [Next]_vars,
         UNCHANGED session
  PROVE  DraftIsTheRunsAnswer'
<1>1. CASE Linked
  <2>1. session # None /\ session.persona = generating.persona /\ session.state = "completed"
    BY <1>1 DEF Linked, GenerationFits
  <2>2. /\ ModelDraft.text = session.text /\ ModelDraft.persona = generating.persona
        /\ ModelDraft.updatedAt = session.at
    BY DEF ModelDraft
  <2>3. drafts'[1] = ModelDraft
    BY <1>1 DEF Linked
  <2>4. session.at \in Nat
    BY <2>1, SessionTypes, SameTypes, StoreAssumption DEF Session, Rows!Time
  <2> QED BY <2>1, <2>2, <2>3, <2>4 DEF DraftIsTheRunsAnswer
<1>2. CASE ConfirmDeletion
  BY <1>2 DEF ConfirmDeletion, DeleteThread, RemoveEverything, DraftIsTheRunsAnswer
<1>3. CASE drafts = <<>> /\ ~Linked /\ ~ConfirmDeletion
  <2>1. drafts' = drafts
    BY <1>3, DraftsStep DEF Kept, Submitted, Revised
  <2> QED BY <1>3, <2>1 DEF DraftIsTheRunsAnswer
<1>4. CASE drafts # <<>> /\ ~ConfirmDeletion
  <2>1. 1 \in 1..Len(drafts) /\ drafts[1].updatedAt \in Nat
    BY <1>4, DraftTypes, SameTypes, StoreAssumption DEF LatestRevision, Draft, Rows!Time
  <2>2. /\ drafts'[1].text = drafts[1].text /\ drafts'[1].persona = drafts[1].persona
        /\ drafts[1].updatedAt <= drafts'[1].updatedAt
    BY <1>4, <2>1, DraftsGrow
  <2>3. /\ session # None /\ session.state = "completed"
        /\ drafts[1].text = session.text /\ drafts[1].persona = session.persona
        /\ drafts[1].updatedAt >= session.at
    BY <1>4 DEF DraftIsTheRunsAnswer
  <2>4. session.at \in Nat
    BY <2>3, SessionTypes, SameTypes, StoreAssumption DEF Session, Rows!Time
  <2>5. drafts'[1].updatedAt \in Nat
    <3>1. drafts' \in Seq(Draft) /\ 1 \in 1..Len(drafts')
      BY <1>4, <2>1, DraftsType, DraftsGrow
    <3>2. drafts'[1] \in Draft
      BY <3>1
    <3> QED BY <3>2, SameTypes, StoreAssumption DEF Draft, Rows!Time
  <2>6. drafts'[1].updatedAt >= session.at
    BY <2>1, <2>2, <2>3, <2>4, <2>5
  <2> QED BY <2>2, <2>3, <2>6 DEF DraftIsTheRunsAnswer
<1> QED BY <1>1, <1>2, <1>3, <1>4

LEMMA DraftsUntouched ==
  RunNewSession \/ CompleteSession \/ Restart \/ RecoverSession \/ RequestModelDraft
    \/ GenerationFails => UNCHANGED drafts
BY DEF RunNewSession, CompleteSession, Restart, RecoverSession, RequestModelDraft,
       GenerationFails, store

LEMMA SessionStep == WorkFits /\ [Next]_vars => GenerationFits' /\ DraftIsTheRunsAnswer'
<1> SUFFICES ASSUME WorkFits, [Next]_vars PROVE GenerationFits' /\ DraftIsTheRunsAnswer'
  OBVIOUS
<1> USE DEF WorkFits
<1>1. CASE RunNewSession
  <2>1. generating # None /\ session = None /\ drafts = <<>> /\ drafts' = drafts
    BY <1>1, DraftsUntouched DEF RunNewSession, Asked, NoSession, DraftIsTheRunsAnswer
  <2>2. /\ session' # None /\ session'.persona = generating.persona
        /\ session'.state = "partial"
    BY <1>1, SessionType, CallsNoneAssumption, <2>1, SessionTypes, Now, SameTypes
    DEF RunNewSession, Session
  <2>3. generating' # None /\ generating'.step = "running"
        /\ generating'.persona = generating.persona
    BY <1>1, <2>1, SessionTypes, CallsNoneAssumption DEF RunNewSession, Generation
  <2> QED BY <2>1, <2>2, <2>3 DEF GenerationFits, DraftIsTheRunsAnswer
<1>2. CASE CompleteSession
  <2>1. /\ generating # None /\ generating.step = "running" /\ session # None
        /\ session.persona = generating.persona /\ drafts = <<>> /\ drafts' = drafts
    BY <1>2, DraftsUntouched DEF CompleteSession, GenerationFits
  <2>2. /\ session' # None /\ session'.persona = session.persona
        /\ session'.state = "completed"
    BY <1>2, <2>1, SessionTypes, CallsNoneAssumption, Now, SameTypes
    DEF CompleteSession, Session
  <2>3. generating' # None /\ generating'.step = "done"
        /\ generating'.persona = generating.persona
    BY <1>2, <2>1, SessionTypes, CallsNoneAssumption DEF CompleteSession, Generation
  <2> QED BY <2>1, <2>2, <2>3 DEF GenerationFits, DraftIsTheRunsAnswer
<1>3. CASE Restart
  <2>1. generating' = None /\ drafts' = drafts
        /\ (session' = session \/ drafts = <<>>)
    BY <1>3, DraftsUntouched DEF Restart, GenerationFits
  <2> QED BY <2>1 DEF GenerationFits, DraftIsTheRunsAnswer
<1>4. CASE ~RunNewSession /\ ~CompleteSession /\ ~Restart
  <2>1. UNCHANGED session
    BY <1>4, SessionKept
  <2>2. DraftIsTheRunsAnswer'
    BY <2>1, FirstDraftStep
  <2>3. CASE RequestModelDraft
    BY <2>2, <2>3 DEF RequestModelDraft, GenerationFits
  <2>4. CASE RecoverSession
    <3>1. /\ generating # None /\ session # None /\ session.state = "completed"
          /\ session.persona = generating.persona
      BY <2>4 DEF RecoverSession, Asked, SessionMatches
    <3>2. generating'.step = "done" /\ generating'.persona = generating.persona
      BY <2>4, <3>1, SessionTypes DEF RecoverSession, Generation
    <3> QED BY <2>1, <2>2, <3>1, <3>2 DEF GenerationFits
  <2>5. CASE LinkDraft \/ GenerationFails
    BY <2>2, <2>5 DEF LinkDraft, GenerationFails, GenerationFits
  <2>6. CASE ~LinkDraft /\ UNCHANGED generating
    <3>1. generating # None /\ generating.step = "running" => drafts' = drafts
      <4> SUFFICES ASSUME generating # None, generating.step = "running"
                   PROVE  drafts' = <<>> /\ drafts = <<>>
        BY DEF GenerationFits
      <4>1. drafts = <<>>
        BY DEF GenerationFits
      <4>2. ~Linked /\ ~Submitted /\ ~Revised
        BY <4>1 DEF Linked, Submitted, Revised
      <4>3. CASE ConfirmDeletion
        BY <4>1, <4>3 DEF ConfirmDeletion, DeleteThread, RemoveEverything
      <4> QED BY <4>1, <4>2, <4>3, DraftsStep DEF Kept
    <3> QED BY <2>1, <2>2, <2>6, <3>1 DEF GenerationFits
  <2> QED BY <1>4, <2>2, <2>3, <2>4, <2>5, <2>6, CallsMove
<1> QED BY <1>1, <1>2, <1>3, <1>4

(***************************************************************************)
(* The rows belong to the thread                                           *)
(***************************************************************************)

\* The parts of RowsBelong.
ThreadFits ==
  /\ thread = None => drafts = <<>> /\ created = {} /\ audits = {}
  /\ deleted => thread = None

ProposalFits(p) ==
  /\ approvals[p] = None =>
       /\ receipts[p] = None /\ dispatches[p] = <<>>
       /\ proposals[p].state = "proposed"
  /\ approvals[p] # None =>
       /\ p \in created /\ approvals[p].proposal = p
       /\ proposals[p].state \in StatesUnder(approvals[p].decision)

LEMMA BelongParts == RowsBelong <=> ThreadFits /\ \A p \in ProposalId : ProposalFits(p)
BY DEF RowsBelong, ThreadFits, ProposalFits

LEMMA BelongJoins == ThreadFits' /\ (\A p \in ProposalId : ProposalFits(p)') => RowsBelong'
BY DEF RowsBelong, ThreadFits, ProposalFits

LEMMA ThreadFitsStep == WorkFits /\ [Next]_vars => ThreadFits'
<1> SUFFICES ASSUME WorkFits, [Next]_vars PROVE ThreadFits'
  OBVIOUS
<1> USE DEF WorkFits
<1>1. CASE ConfirmDeletion
  BY <1>1 DEF ConfirmDeletion, DeleteThread, RemoveEverything, ThreadFits
<1>2. CASE ReceiveMessage
  <2>1. ~deleted /\ thread' # None
    BY <1>2, ThreadWritten, ThreadNoneAssumption
    DEF ReceiveMessage, PutWorkItemProjection, ThreadCanAdvance
  <2> QED BY <1>2, <2>1 DEF ReceiveMessage, ThreadFits
<1>3. CASE Act
  <2>1. thread # None
    BY <1>3 DEF Act, ApplyWorkItemUserAction
  <2>2. ~deleted /\ deleted' = deleted
    BY <1>3, <2>1, BelongParts DEF Act, ThreadFits
  <2>3. thread' # None
    BY <1>3, ThreadWritten, ThreadNoneAssumption
  <2> QED BY <2>2, <2>3 DEF ThreadFits
<1>4. CASE LinkDraft \/ Edits
  <2>1. thread' = thread /\ created' = created /\ deleted' = deleted
    BY <1>4 DEF LinkDraft, Edits, RepeatEdit, SubmitUnchanged, EditText, EditRequest
  <2>2. CASE thread = None
    <3>1. ~Edits /\ drafts = <<>>
      BY <2>2, BelongParts
      DEF ThreadFits, Edits, RepeatEdit, SubmitUnchanged, EditText, EditRequest, Editable
    <3>2. FALSE
      BY <1>4, <2>2, <3>1 DEF LinkDraft, CreateDraft, Writable
    <3> QED BY <3>2
  <2> QED BY <2>1, <2>2, BelongParts DEF ThreadFits
<1>5. CASE \E p \in ProposalId : Propose(p)
  BY <1>5, BelongParts DEF Propose, CreateActionProposal, ThreadFits
<1>6. CASE UNCHANGED <<thread, drafts, audits, created, deleted>>
  BY <1>6, BelongParts DEF ThreadFits
<1> QED BY <1>1, <1>2, <1>3, <1>4, <1>5, <1>6, Moves

\* An operation of the store on one proposal is one on its own rows.
LEMMA OwnRows ==
  ASSUME WorkFits, NEW a \in ProposalId, NEW q \in ProposalId, q # a,
         /\ approvals' = approvals \/ \E v : approvals' = [approvals EXCEPT ![a] = v]
         /\ receipts' = receipts \/ \E v : receipts' = [receipts EXCEPT ![a] = v]
         /\ dispatches' = dispatches \/ \E v : dispatches' = [dispatches EXCEPT ![a] = v]
         /\ proposals' = proposals \/ \E v : proposals' = [proposals EXCEPT ![a] = v],
         created \subseteq created'
  PROVE  ProposalFits(q)'
<1>1. Rows!TypeOK
  BY DEF WorkFits, Rows!RowsFitTogether
<1>2. /\ approvals'[q] = approvals[q] /\ receipts'[q] = receipts[q]
      /\ dispatches'[q] = dispatches[q] /\ proposals'[q] = proposals[q]
  BY <1>1 DEF Rows!TypeOK
<1>3. ProposalFits(q)
  BY BelongParts DEF WorkFits
<1> QED BY <1>2, <1>3 DEF ProposalFits, StatesUnder

LEMMA StateTypes ==
  ASSUME WorkFits, NEW a \in ProposalId
  PROVE  /\ proposals \in [ProposalId -> Rows!Proposal]
         /\ approvals \in [ProposalId -> Rows!Approval \cup {None}]
         /\ receipts \in [ProposalId -> Rows!Receipt \cup {None}]
         /\ dispatches \in [ProposalId -> Seq(Rows!Dispatch)]
         /\ ProposalFits(a)
         /\ approvals[a] # None => Actions!ProposalOf(a) = a /\ Actions!StateOf(a) = proposals[a].state
BY BelongParts
DEF WorkFits, Rows!RowsFitTogether, Rows!TypeOK, ProposalFits, Actions!ProposalOf, Actions!StateOf

LEMMA RequestFits ==
  ASSUME WorkFits, NEW a \in ProposalId, RequestApproval(a), NEW q \in ProposalId
  PROVE  ProposalFits(q)'
<1> DEFINE approval == [proposal |-> a, decision |-> "pending", requestedAt |-> now,
              expiresAt |-> now + ReplyApprovalTtl, decidedAt |-> None, consumedAt |-> None]
           row == [state |-> "awaiting_approval", updatedAt |-> now]
<1>1. /\ approvals' = [approvals EXCEPT ![a] = approval]
      /\ proposals' = [proposals EXCEPT ![a] = row]
      /\ UNCHANGED <<receipts, dispatches, created>> /\ a \in created
  BY DEF RequestApproval, Actions!RequestApproval, Actions!SetProposal, Actions!attemptVars,
         Resolves
<1>2. CASE q # a
  <2> HIDE DEF approval, row
  <2> QED BY <1>1, <1>2, OwnRows
<1>3. CASE q = a
  <2>1. approvals'[a] = approval /\ proposals'[a] = row
    BY <1>1, StateTypes
  <2>2. approval # None
    <3>1. approval \in Rows!Approval
      <4>1. now \in Rows!Time /\ now + ReplyApprovalTtl \in Rows!Time
        BY Now, TtlAssumption, StoreAssumption DEF WorkFits, RequestApproval, Rows!Time
      <4> QED BY <4>1 DEF Rows!Approval, Rows!Decision
    <3> QED BY <3>1, StoreNames DEF Rows!NoneAssumption
  <2> QED BY <1>1, <1>3, <2>1, <2>2 DEF ProposalFits, StatesUnder
<1> QED BY <1>2, <1>3

LEMMA DecideFits ==
  ASSUME WorkFits, NEW a \in ProposalId, NEW d \in Answers, DecideApproval(a, d),
         NEW q \in ProposalId
  PROVE  ProposalFits(q)'
<1> DEFINE decision == IF now > approvals[a].expiresAt THEN "expired" ELSE d
           approval == [approvals[a] EXCEPT !.decision = decision, !.decidedAt = now]
           row == [state |-> Actions!DecidedState(decision), updatedAt |-> now]
<1>1. approvals[a] # None /\ Actions!DecideApproval(a, decision, now) /\ created' = created
  BY DEF DecideApproval
<1>2. decision \in {"approved", "rejected", "cancelled", "expired"}
  BY TtlAssumption
<1> HIDE DEF decision
<1>3. /\ approvals' = [approvals EXCEPT ![a] = approval]
      /\ proposals' = [proposals EXCEPT ![a] = row]
      /\ UNCHANGED <<receipts, dispatches, created>>
  BY <1>1, StateTypes DEF Actions!DecideApproval, Actions!SetProposal, Actions!attemptVars
<1>4. CASE q # a
  <2> HIDE DEF approval, row
  <2> QED BY <1>3, <1>4, OwnRows
<1>5. CASE q = a
  <2>1. approvals'[a] = approval /\ proposals'[a] = row
    BY <1>3, StateTypes
  <2>2. /\ approvals[a] \in Rows!Approval /\ a \in created /\ approvals[a].proposal = a
    BY <1>1, StateTypes DEF ProposalFits
  <2>3. now \in Rows!Time /\ decision \in Rows!Decision
    BY Now, <1>2 DEF WorkFits, Rows!Decision
  <2>4. approval \in Rows!Approval /\ approval.proposal = a /\ approval.decision = decision
    BY <2>2, <2>3 DEF Rows!Approval
  <2>5. approval # None
    BY <2>4, StoreNames DEF Rows!NoneAssumption
  <2>6. row.state \in StatesUnder(decision)
    BY <1>2 DEF Actions!DecidedState, StatesUnder
  <2> HIDE DEF approval, row
  <2> QED BY <1>3, <1>5, <2>1, <2>2, <2>4, <2>5, <2>6 DEF ProposalFits, StatesUnder
<1> QED BY <1>4, <1>5

LEMMA ConsumeFits ==
  ASSUME WorkFits, Consume, NEW q \in ProposalId
  PROVE  ProposalFits(q)'
<1> DEFINE a == Executed
           approval == [approvals[a] EXCEPT !.consumedAt = now]
<1>1. a \in ProposalId /\ approvals[a] # None /\ created' = created
  BY ExecutedIsProposal DEF Consume, AtStep, WorkFits
<1> HIDE DEF a
<1>2. CASE UNCHANGED actionRows
  <2>1. ProposalFits(q)
    BY StateTypes
  <2> QED BY <1>1, <1>2, <2>1 DEF actionRows, ProposalFits, StatesUnder
<1>3. CASE Actions!ConsumeApproval(a, now)
  <2>1. /\ approvals' = [approvals EXCEPT ![a] = approval]
        /\ UNCHANGED <<proposals, receipts, dispatches>>
    BY <1>3 DEF Actions!ConsumeApproval, Actions!attemptVars
  <2>2. CASE q # a
    <3> HIDE DEF approval
    <3> QED BY <1>1, <2>1, <2>2, OwnRows
  <2>3. CASE q = a
    <3>1. approvals'[a] = approval /\ ProposalFits(a) /\ approvals[a] \in Rows!Approval
      BY <1>1, <2>1, StateTypes
    <3>2. /\ approval \in Rows!Approval /\ approval.proposal = approvals[a].proposal
          /\ approval.decision = approvals[a].decision
      BY <3>1, Now DEF WorkFits, Rows!Approval
    <3>3. approval # None
      BY <3>2, StoreNames DEF Rows!NoneAssumption
    <3> HIDE DEF approval
    <3> QED BY <1>1, <2>1, <2>3, <3>1, <3>2, <3>3 DEF ProposalFits, StatesUnder
  <2> QED BY <2>2, <2>3
<1> QED BY <1>2, <1>3 DEF Consume, a

\* The proposal that is executed moves within the states of an approval.
LEMMA RunFits ==
  ASSUME WorkFits, NEW a \in ProposalId, Actions!DurableAction(a),
         NEW state \in Actions!ExecutionStates, NEW at,
         proposals' = [proposals EXCEPT ![a] = [state |-> state, updatedAt |-> at]],
         /\ receipts' = receipts \/ \E v : receipts' = [receipts EXCEPT ![a] = v]
         /\ dispatches' = dispatches \/ \E v : dispatches' = [dispatches EXCEPT ![a] = v],
         approvals' = approvals, created' = created,
         NEW q \in ProposalId
  PROVE  ProposalFits(q)'
<1>1. CASE q # a
  BY <1>1, OwnRows
<1>2. CASE q = a
  <2>1. /\ approvals[a] # None /\ approvals[a].decision = "approved" /\ ProposalFits(a)
        /\ proposals'[a].state = state
    BY StateTypes DEF Actions!DurableAction
  <2> QED BY <1>2, <2>1 DEF ProposalFits, StatesUnder
<1> QED BY <1>1, <1>2

LEMMA BeginFits ==
  ASSUME WorkFits, Begin, NEW q \in ProposalId
  PROVE  ProposalFits(q)'
<1> DEFINE a == Executed
<1>1. a \in ProposalId /\ approvals[a] # None /\ created' = created
  BY ExecutedIsProposal DEF Begin, AtStep, WorkFits
<1>2. UNCHANGED actionRows \/ Actions!BeginExecution(a, now)
  BY DEF Begin
<1> HIDE DEF a
<1>3. CASE UNCHANGED actionRows
  <2>1. ProposalFits(q)
    BY StateTypes
  <2> QED BY <1>1, <1>3, <2>1 DEF actionRows, ProposalFits, StatesUnder
<1>4. CASE Actions!BeginExecution(a, now)
  <2>1. /\ proposals' = [proposals EXCEPT ![a] = [state |-> "executing", updatedAt |-> now]]
        /\ UNCHANGED <<approvals, receipts, dispatches>> /\ Actions!DurableAction(a)
    BY <1>1, <1>4, StateTypes DEF Actions!BeginExecution, Actions!SetProposal, Actions!attemptVars
  <2> QED BY <1>1, <2>1, RunFits DEF Actions!ExecutionStates
<1> QED BY <1>2, <1>3, <1>4

LEMMA ReserveFits ==
  ASSUME WorkFits, Reserve, NEW q \in ProposalId
  PROVE  ProposalFits(q)'
<1> DEFINE a == Executed
           row == Append(dispatches[a], [reservedAt |-> executing.attemptedAt, settlement |-> None])
<1>1. a \in ProposalId /\ approvals[a] # None /\ created' = created
  BY ExecutedIsProposal DEF Reserve, AtStep, WorkFits
<1>2. /\ dispatches' = [dispatches EXCEPT ![a] = row]
      /\ UNCHANGED <<proposals, approvals, receipts>>
  BY DEF Reserve, Actions!ReserveDispatch
<1> HIDE DEF a, row
<1>3. CASE q # a
  BY <1>1, <1>2, <1>3, OwnRows
<1>4. CASE q = a
  BY <1>1, <1>2, <1>4, StateTypes DEF ProposalFits, StatesUnder
<1> QED BY <1>3, <1>4

LEMMA RecordFits ==
  ASSUME WorkFits, Record, NEW q \in ProposalId
  PROVE  ProposalFits(q)'
<1> DEFINE a == Executed
           receipt == [verdict |-> executing.verdict, attemptedAt |-> executing.attemptedAt]
           state == Actions!ReceiptState(executing.verdict)
<1>1. a \in ProposalId /\ approvals[a] # None /\ created' = created
  BY ExecutedIsProposal DEF Record, AtStep, WorkFits
<1>2. Actions!RecordReceipt(a, receipt)
  BY DEF Record
<1>3. state \in Actions!ExecutionStates
  BY DEF Actions!ReceiptState, Actions!ExecutionStates
<1>4. Actions!DurableAction(a) /\ UNCHANGED approvals
      /\ receipts' = [receipts EXCEPT ![a] = receipt]
  BY <1>2 DEF Actions!RecordReceipt
<1>5. proposals' = [proposals EXCEPT ![a] = [state |-> state, updatedAt |-> executing.attemptedAt]]
  BY <1>1, <1>2, StateTypes DEF Actions!RecordReceipt, Actions!SetProposal
<1>6. dispatches' = dispatches \/ \E v : dispatches' = [dispatches EXCEPT ![a] = v]
  BY <1>2 DEF Actions!RecordReceipt, Actions!SettleLatest
<1> HIDE DEF a, receipt, state
<1> QED BY <1>1, <1>3, <1>4, <1>5, <1>6, RunFits

LEMMA BelongStep == WorkFits /\ [Next]_vars => RowsBelong'
<1> SUFFICES ASSUME WorkFits, [Next]_vars, NEW q \in ProposalId PROVE ProposalFits(q)'
  BY ThreadFitsStep, BelongJoins
<1>1. ProposalFits(q)
  BY StateTypes
<1>2. CASE ConfirmDeletion
  BY <1>2 DEF ConfirmDeletion, DeleteThread, RemoveEverything, ProposalFits
<1>3. ASSUME NEW p \in ProposalId, Propose(p)
      PROVE  ProposalFits(q)'
  <2>1. /\ proposals' = [proposals EXCEPT ![p].updatedAt = now] /\ created' = created \cup {p}
        /\ UNCHANGED <<approvals, receipts, dispatches>>
    BY <1>3 DEF Propose, CreateActionProposal
  <2>2. proposals'[q].state = proposals[q].state
    BY <2>1, StateTypes DEF Rows!Proposal
  <2> QED BY <1>1, <2>1, <2>2 DEF ProposalFits, StatesUnder
<1>4. CASE StoreStep /\ UNCHANGED created
  <2>1. CASE Tick \/ UNCHANGED actionRows
    <3>1. UNCHANGED <<proposals, approvals, receipts, dispatches>>
      BY <2>1 DEF Tick, actionRows
    <3> QED BY <1>1, <1>4, <3>1 DEF ProposalFits, StatesUnder
  <2> QED BY <1>4, <2>1, RequestFits, DecideFits, ConsumeFits, BeginFits, ReserveFits, RecordFits
          DEF StoreStep
<1> QED BY <1>2, <1>3, <1>4, Moves

(***************************************************************************)
(* The theorems                                                            *)
(***************************************************************************)

LEMMA TypeStep == WorkFits /\ [Next]_vars => TypeOK'
<1> SUFFICES ASSUME WorkFits, [Next]_vars PROVE TypeOK'
  OBVIOUS
<1> USE DEF WorkFits
<1>1. thread' \in Thread \cup {None} /\ drafts' \in Seq(Draft) /\ Len(drafts') <= MaxRevision
  BY ThreadType, DraftsType
<1>2. created' \subseteq ProposalId
  BY Moves DEF TypeOK, StoreTypeOK, ConfirmDeletion, DeleteThread, RemoveEverything, Propose,
               CreateActionProposal
<1>3. Actions!TypeOK'
  <2>1. Rows!TypeOK'
    BY RowsAfterStep DEF Rows!RowsFitTogether
  <2> QED BY <2>1, SameRows
<1>4. audits' \subseteq Audit
  BY AuditWritten DEF TypeOK, StoreTypeOK, ConfirmDeletion, DeleteThread, RemoveEverything
<1>5. deleted' \in BOOLEAN
  BY Moves DEF TypeOK, StoreTypeOK, ConfirmDeletion, DeleteThread
<1>6. /\ session' \in Session \cup {None} /\ generating' \in Generation \cup {None}
      /\ executing' \in Execution \cup {None}
  BY SessionType, GenerationType, ExecutionType
<1> QED BY <1>1, <1>2, <1>3, <1>4, <1>5, <1>6 DEF TypeOK, StoreTypeOK

LEMMA InitFits == Init => WorkFits
<1> SUFFICES ASSUME Init PROVE WorkFits
  OBVIOUS
<1>1. Rows!RowsFitTogether /\ Actions!TypeOK
  <2>1. Rows!RowsFitTogether
    BY InitStore, StoreNames, Rows!InitRows DEF Init, StoreInit
  <2> QED BY <2>1, SameRows DEF Rows!RowsFitTogether
<1> USE DEF Init, StoreInit
<1>2. TypeOK
  <2>1. drafts \in Seq(Draft) /\ Len(drafts) <= MaxRevision
    BY ThreadBoundsAssumption
  <2>2. thread = None /\ created = {} /\ audits = {} /\ deleted = FALSE
        /\ session = None /\ generating = None /\ executing = None
    OBVIOUS
  <2> QED BY <1>1, <2>1, <2>2 DEF TypeOK, StoreTypeOK
<1>3. RowsBelong
  BY DEF RowsBelong, Actions!Init
<1>4. GenerationFits /\ ExecutionFits /\ DraftIsTheRunsAnswer
  BY DEF GenerationFits, ExecutionFits, DraftIsTheRunsAnswer
<1>5. OneDraftToWorkOn /\ AuditsAreTrue
  BY DEF OneDraftToWorkOn, AuditsAreTrue, LatestRevision
<1> QED BY <1>1, <1>2, <1>3, <1>4, <1>5 DEF WorkFits

LEMMA WorkStep == WorkFits /\ [Next]_vars => WorkFits'
<1> SUFFICES ASSUME WorkFits, [Next]_vars PROVE WorkFits'
  OBVIOUS
<1> QED BY TypeStep, RowsAfterStep, BelongStep, SessionStep, ExecutionStep, OneDraftStep,
           AuditsStep
        DEF WorkFits

\* In every reachable state the session, the drafts, the audits and the rows of
\* the replies of a conversation fit together: the inductive invariant.
THEOREM WorkAlwaysFits == Spec => []WorkFits
BY InitFits, WorkStep, PTL DEF Spec

\* Everything stored about a conversation, and what is in progress, is well
\* typed.
THEOREM TypeCorrect == Spec => []TypeOK
<1>1. WorkFits => TypeOK
  BY DEF WorkFits
<1> QED BY <1>1, WorkAlwaysFits, PTL

\* Whatever the user edits, repeats and switches, there is one draft to work on,
\* the latest revision, and proposals are of revisions that were under review.
THEOREM AlwaysOneDraft == Spec => []OneDraftToWorkOn
<1>1. WorkFits => OneDraftToWorkOn
  BY DEF WorkFits
<1> QED BY <1>1, WorkAlwaysFits, PTL

\* The first revision is always the answer of the session that was run for the
\* persona, wherever the application stopped.
THEOREM DraftIsAlwaysTheAnswer == Spec => []DraftIsTheRunsAnswer
<1>1. WorkFits => DraftIsTheRunsAnswer
  BY DEF WorkFits
<1> QED BY <1>1, WorkAlwaysFits, PTL

\* An audit record is of an edit or a submission that happened, also when the
\* request was repeated after a stop.
THEOREM AuditsAreAlwaysTrue == Spec => []AuditsAreTrue
<1>1. WorkFits => AuditsAreTrue
  BY DEF WorkFits
<1> QED BY <1>1, WorkAlwaysFits, PTL

\* Nothing is stored about a thread after its deletion, whatever was in
\* progress.
THEOREM DeletedStaysGone == Spec => []DeletedIsGone
<1>1. WorkFits => DeletedIsGone
  BY DEF WorkFits, RowsBelong, DeletedIsGone
<1> QED BY <1>1, WorkAlwaysFits, PTL

\* The flow of the latest proposal is restored from every state the rows can be
\* left in, but that of a repeated execution that did not end.
THEOREM FlowIsAlwaysRestored == Spec => []FlowIsRestored
<1>1. ASSUME WorkFits, NEW p \in LatestProposals, thread # None,
             thread.persona = LatestDraft.persona, p.revision = LatestRevision,
             receipts[p] # None => proposals[p].state # "executing"
      PROVE  FlowStage(p) \in {"proposal", "approval", "execution"}
  <2>1. p \in created /\ p \in ProposalId
    BY <1>1 DEF LatestProposals, WorkFits, TypeOK, StoreTypeOK
  <2>2. p.revision \in Nat /\ p.revision >= 1
    BY <2>1, ThreadBoundsAssumption DEF ProposalId, Revision
  <2>3. drafts # <<>> /\ ChainComplete /\ LatestDraft \in Draft
    BY <1>1, <2>2, DraftTypes DEF WorkFits, OneDraftToWorkOn, LatestRevision, LatestDraft
  <2>4. drafts[p.revision].state = "ready_for_review"
    BY <1>1, <2>1, <2>3 DEF WorkFits, OneDraftToWorkOn, ChainComplete, LatestDraft, Draft,
                            DraftState
  <2>5. ProposalFits(p) /\ (approvals[p] # None => approvals[p] \in Rows!Approval)
    BY <1>1, <2>1, StateTypes
  <2>6. FlowStage(p) = ProposalStage(p)
    BY <1>1, <2>1, <2>3 DEF FlowStage
  <2>7. CASE approvals[p] = None
    BY <2>4, <2>5, <2>6, <2>7 DEF ProposalFits, ProposalStage
  <2>8. CASE approvals[p] # None
    <3>1. /\ receipts[p] = None => proposals[p].state \notin {"succeeded", "failed", "uncertain"}
          /\ receipts[p] # None => proposals[p].state \in {"executing", "succeeded", "failed", "uncertain"}
          /\ proposals[p].state \in {"succeeded", "failed", "uncertain"} =>
               proposals[p].state = Actions!ReceiptState(receipts[p].verdict)
      BY <1>1, <2>1, <2>5, <2>8
      DEF WorkFits, ProposalFits, Rows!RowsFitTogether, Rows!StateAgreesWithReceipt,
          Rows!StateOf, Rows!ProposalOf, Rows!ReceiptState, Actions!ReceiptState
    <3>2. proposals[p].state \in StatesUnder(approvals[p].decision)
      BY <2>5, <2>8 DEF ProposalFits
    <3>3. CASE receipts[p] = None
      BY <2>4, <2>6, <2>8, <3>1, <3>2, <3>3 DEF ProposalStage
    <3>4. CASE receipts[p] # None
      BY <1>1, <2>4, <2>6, <2>8, <3>1, <3>2, <3>4 DEF ProposalStage
    <3> QED BY <3>3, <3>4
  <2> QED BY <2>7, <2>8
<1>2. WorkFits => FlowIsRestored
  BY <1>1 DEF FlowIsRestored
<1> QED BY <1>2, WorkAlwaysFits, PTL

\* A stored session is never run again: not by a retry after a stop, not after a
\* failed turn, not after a deletion.
THEOREM SessionIsNeverRunAgain == Spec => NeverRunAgain
<1>1. [Next]_vars =>
        [session # None /\ ~(generating # None /\ generating.step = "running") =>
           session' = session]_vars
  BY SessionKept DEF RunNewSession, NoSession, CompleteSession, Restart
<1> QED BY <1>1, PTL DEF Spec, NeverRunAgain

\* A proposal whose draft was edited again, or whose message is no longer the
\* latest, is neither approved nor started.
THEOREM StaleIsAlwaysInert == Spec => StaleIsInert
<1> DEFINE Inert(p) ==
      /\ Outdated(p) /\ ~deleted'
      /\ executing # None => executing.proposal # p
      => /\ approvals'[p] = approvals[p] /\ proposals'[p] = proposals[p]
         /\ executing' # None => executing'.proposal # p
<1>1. ASSUME WorkFits, [Next]_vars, NEW p \in ProposalId PROVE Inert(p)
  <2> SUFFICES ASSUME Outdated(p), ~deleted', executing # None => executing.proposal # p
               PROVE  /\ approvals'[p] = approvals[p] /\ proposals'[p] = proposals[p]
                      /\ executing' # None => executing'.proposal # p
    OBVIOUS
  <2>1. ~Current(p) /\ p \in created
    <3>1. thread # None /\ thread.messages \in Nat /\ p.target \in Nat /\ p \in created
      BY <1>1, ThreadTimes, ThreadBoundsAssumption DEF Outdated, WorkFits, ProposalId
    <3> QED BY <3>1 DEF Outdated, Current
  <2>2. ~ConfirmDeletion
    BY DEF ConfirmDeletion, DeleteThread
  <2>3. \A q \in ProposalId :
          Propose(q) \/ RequestApproval(q) \/ StartExecution(q)
            \/ (\E d \in Answers : DecideApproval(q, d)) => q # p
    BY <2>1 DEF Propose, CreateActionProposal, RequestApproval, StartExecution, DecideApproval,
                Resolves
  <2>4. approvals'[p] = approvals[p] /\ proposals'[p] = proposals[p]
    <3>1. ASSUME NEW a \in ProposalId, a # p,
                 approvals' = approvals \/ \E v : approvals' = [approvals EXCEPT ![a] = v],
                 proposals' = proposals \/ \E v : proposals' = [proposals EXCEPT ![a] = v]
          PROVE  approvals'[p] = approvals[p] /\ proposals'[p] = proposals[p]
      BY <1>1, <3>1, StateTypes
    <3>2. CASE Tick \/ UNCHANGED actionRows
      BY <3>2 DEF Tick, actionRows
    <3>3. ASSUME NEW q \in ProposalId, Propose(q)
          PROVE  approvals'[p] = approvals[p] /\ proposals'[p] = proposals[p]
      BY <2>3, <3>1, <3>3 DEF Propose, CreateActionProposal
    <3>4. ASSUME NEW q \in ProposalId, RequestApproval(q)
          PROVE  approvals'[p] = approvals[p] /\ proposals'[p] = proposals[p]
      BY <2>3, <3>1, <3>4 DEF RequestApproval, Actions!RequestApproval, Actions!SetProposal
    <3>5. ASSUME NEW q \in ProposalId, NEW d \in Answers, DecideApproval(q, d)
          PROVE  approvals'[p] = approvals[p] /\ proposals'[p] = proposals[p]
      <4>1. \E e : Actions!DecideApproval(q, e, now)
        BY <3>5 DEF DecideApproval
      <4>2. Actions!ProposalOf(q) = q /\ q # p
        BY <1>1, <2>3, <3>5, StateTypes DEF DecideApproval
      <4> QED BY <3>1, <4>1, <4>2 DEF Actions!DecideApproval, Actions!SetProposal
    <3>6. CASE Consume \/ Begin \/ Reserve \/ Record
      <4>1. /\ executing # None /\ Executed \in ProposalId /\ approvals[Executed] # None
            /\ Executed # p
        BY <1>1, <3>6, ExecutedIsProposal
        DEF WorkFits, Consume, Begin, Reserve, Record, AtStep, Executed
      <4>2. Actions!ProposalOf(Executed) = Executed
        BY <1>1, <4>1, StateTypes
      <4> DEFINE a == Executed
      <4>3. /\ approvals' = approvals \/ \E v : approvals' = [approvals EXCEPT ![a] = v]
            /\ proposals' = proposals \/ \E v : proposals' = [proposals EXCEPT ![a] = v]
        <5>1. CASE Consume
          BY <5>1 DEF Consume, Actions!ConsumeApproval, actionRows
        <5>2. CASE Begin
          BY <4>2, <5>2 DEF Begin, Actions!BeginExecution, Actions!SetProposal, actionRows
        <5>3. CASE Reserve
          BY <5>3 DEF Reserve, Actions!ReserveDispatch
        <5>4. CASE Record
          BY <4>2, <5>4 DEF Record, Actions!RecordReceipt, Actions!SetProposal
        <5> QED BY <3>6, <5>1, <5>2, <5>3, <5>4
      <4> HIDE DEF a
      <4> QED BY <3>1, <4>1, <4>3 DEF a
    <3> QED BY <1>1, <2>2, <3>2, <3>3, <3>4, <3>5, <3>6, Moves DEF StoreStep
  <2>5. executing' # None => executing'.proposal # p
    <3>1. executing \in Execution \cup {None}
      BY <1>1 DEF WorkFits, TypeOK
    <3>2. ASSUME NEW q \in ProposalId, StartExecution(q)
          PROVE  executing'.proposal = q /\ q # p
      BY <2>3, <3>2 DEF StartExecution
    <3>3. CASE Consume \/ Begin \/ Reserve \/ NotSent \/ Post
      <4>1. executing # None /\ executing \in Execution
        BY <3>1, <3>3 DEF Consume, Begin, Reserve, NotSent, Post, AtStep
      <4>2. executing'.proposal = executing.proposal
        BY <3>3, <4>1
        DEF Consume, Begin, Reserve, NotSent, Post, Goto, Answer, Execution
      <4> QED BY <4>1, <4>2
    <3>4. CASE Record \/ ExecutionFails \/ Restart
      BY <3>4 DEF Record, ExecutionFails, Restart
    <3> QED BY <1>1, <3>2, <3>3, <3>4, CallsMove
  <2> QED BY <2>4, <2>5
<1>2. WorkFits /\ [Next]_vars => [\A p \in ProposalId : Inert(p)]_vars
  BY <1>1
<1> QED BY <1>2, WorkAlwaysFits, PTL DEF Spec, StaleIsInert

(***************************************************************************)
(* The conversation uses the store                                         *)
(***************************************************************************)

\* A proposal that is created has no rows yet, and stands at its creation.
Created(p) ==
  /\ p \notin created /\ created' = created \cup {p}
  /\ approvals[p] = None /\ receipts[p] = None /\ dispatches[p] = <<>>
  /\ proposals[p].state = "proposed"
  /\ proposals' = [proposals EXCEPT ![p].updatedAt = now]
  /\ UNCHANGED <<now, approvals, receipts, dispatches>>

\* The thread is deleted for good, with all its rows.
Removed ==
  /\ thread # None /\ ~deleted /\ deleted'
  /\ RemoveEverything
  /\ UNCHANGED now

LEMMA SameNext == Rows!Next => Actions!Next
<1> USE DEF Actions!ProposalOf, Rows!ProposalOf, Actions!StateOf, Rows!StateOf,
            Actions!SetProposal, Rows!SetProposal, Actions!attemptVars, Rows!attemptVars
<1>1. /\ Rows!SetClock => Actions!SetClock
      /\ \A p \in ProposalId : \A s, t :
           Rows!TransitionActionProposal(p, s, t) => Actions!TransitionActionProposal(p, s, t)
  BY SameTypes DEF Actions!SetClock, Rows!SetClock, Actions!TransitionActionProposal,
     Rows!TransitionActionProposal, Actions!LocalTransitions, Rows!LocalTransitions
<1>2. \A a, p \in ProposalId : \A s, e :
        Rows!RequestApproval(a, p, s, e) => Actions!RequestApproval(a, p, s, e)
  BY DEF Actions!RequestApproval, Rows!RequestApproval
<1>3. \A p \in ProposalId : \A d, t :
        Rows!DecideApproval(p, d, t) => Actions!DecideApproval(p, d, t)
  BY DEF Actions!DecideApproval, Rows!DecideApproval, Actions!AwaitingDecision,
         Rows!AwaitingDecision, Actions!DecidedState, Rows!DecidedState
<1>4. \A p \in ProposalId : \A t : Rows!ConsumeApproval(p, t) => Actions!ConsumeApproval(p, t)
  BY DEF Actions!ConsumeApproval, Rows!ConsumeApproval, Actions!ConsumableAt, Rows!ConsumableAt
<1> USE DEF Actions!DurableAction, Rows!DurableAction
<1>5. \A p \in ProposalId : \A t : Rows!BeginExecution(p, t) => Actions!BeginExecution(p, t)
  BY DEF Actions!BeginExecution, Rows!BeginExecution, Actions!StartableAt, Rows!StartableAt,
         Actions!MayBegin, Rows!MayBegin, Actions!HasReceipt, Rows!HasReceipt
<1>6. \A p \in ProposalId : \A t : Rows!ReserveDispatch(p, t) => Actions!ReserveDispatch(p, t)
  BY DEF Actions!ReserveDispatch, Rows!ReserveDispatch, Actions!Latest, Rows!Latest,
         Actions!MayReserve, Rows!MayReserve
<1>7. \A p \in ProposalId : \A r : Rows!RecordReceipt(p, r) => Actions!RecordReceipt(p, r)
  BY DEF Actions!RecordReceipt, Rows!RecordReceipt, Actions!AcceptsReceipt, Rows!AcceptsReceipt,
         Actions!Recoverable, Rows!Recoverable, Actions!ReceiptState, Rows!ReceiptState,
         Actions!SettleLatest, Rows!SettleLatest, Actions!Latest, Rows!Latest
<1>8. Actions!ProposalState = Rows!ProposalState
  BY DEF Actions!ProposalState, Rows!ProposalState
<1> QED
  BY <1>1, <1>2, <1>3, <1>4, <1>5, <1>6, <1>7, <1>8, SameTypes DEF Rows!Next, Actions!Next

LEMMA CreatedStep ==
  ASSUME WorkFits, NEW p \in ProposalId, Propose(p)
  PROVE  Created(p)
<1>1. p \notin created /\ approvals[p] = None
  BY DEF Propose, CreateActionProposal, WorkFits, RowsBelong
<1>2. receipts[p] = None /\ dispatches[p] = <<>> /\ proposals[p].state = "proposed"
  BY <1>1 DEF WorkFits, RowsBelong
<1> QED BY <1>1, <1>2 DEF Propose, CreateActionProposal, Created

LEMMA RemovedStep == WorkFits /\ ConfirmDeletion => Removed
BY DEF WorkFits, RowsBelong, ConfirmDeletion, DeleteThread, Removed

\* What each step does to the rows of the store.
LEMMA RowsMove ==
  ASSUME WorkFits, [Next]_vars
  PROVE  \/ Rows!Next \/ UNCHANGED actionRows
         \/ (\E p \in ProposalId : Created(p)) \/ Removed
<1>1. TypeOK /\ ExecutionFits
  BY DEF WorkFits
<1>2. UNCHANGED Rows!vars <=> UNCHANGED actionRows
  BY DEF Rows!vars, actionRows
<1> QED BY <1>1, <1>2, Moves, StepOfStore, CreatedStep, RemovedStep

\* A conversation changes the rows of its replies by the operations of the store
\* only, whatever edits, messages, restarts and late executions do: apart from
\* the creation of a proposal, which has no other rows yet, and the deletion of
\* the thread, which leaves none (createActionProposal, deleteThread).
THEOREM ConversationsUseTheStore ==
  Spec => /\ Actions!Init
          /\ [][Actions!Next \/ (\E p \in ProposalId : Created(p)) \/ Removed]_actionRows
<1>1. WorkFits /\ [Next]_vars =>
        [Actions!Next \/ (\E p \in ProposalId : Created(p)) \/ Removed]_actionRows
  BY RowsMove, SameNext
<1>2. Init => Actions!Init
  BY DEF Init, StoreInit
<1> QED BY <1>1, <1>2, WorkAlwaysFits, PTL DEF Spec

\* A reply of a conversation runs under an approval of its own, requested, granted
\* and consumed before it expired, and its receipt, its dispatches and its state
\* agree, also when a message, an edit or the deletion came in between.
THEOREM ConversationsAreAuthorised ==
  Spec => []Actions!ExecutionAuthorised /\ []Actions!StateAgreesWithReceipt
<1>1. WorkFits => Rows!RowsFitTogether
  BY DEF WorkFits
<1>2. Rows!RowsFitTogether => Rows!ExecutionAuthorised /\ Rows!StateAgreesWithReceipt
  BY Rows!RowsAuthorise, StoreNames DEF Rows!RowsFitTogether
<1>3. Rows!ExecutionAuthorised => Actions!ExecutionAuthorised
  BY DEF Rows!ExecutionAuthorised, Actions!ExecutionAuthorised, Rows!ExecutionStates,
         Actions!ExecutionStates, Rows!Authorises, Actions!Authorises, Rows!DurableAction,
         Actions!DurableAction, Rows!ProposalOf, Actions!ProposalOf
<1>4. Rows!StateAgreesWithReceipt => Actions!StateAgreesWithReceipt
  BY DEF Rows!StateAgreesWithReceipt, Actions!StateAgreesWithReceipt, Rows!DurableAction,
         Actions!DurableAction, Rows!StateOf, Actions!StateOf, Rows!ProposalOf,
         Actions!ProposalOf, Rows!Recoverable, Actions!Recoverable, Rows!ReceiptState,
         Actions!ReceiptState
<1> QED BY <1>1, <1>2, <1>3, <1>4, WorkAlwaysFits, PTL

\* A new proposal is an open action that nobody sent.
LEMMA CreatedView ==
  ASSUME WorkFits, WorkFits', NEW p \in ProposalId, Created(p)
  PROVE  UNCHANGED Rows!Lifecycle!vars
<1>1. Rows!Views /\ Rows!Views'
  BY Rows!ViewsHold, Rows!ViewsHoldNext, StoreNames DEF WorkFits
<1>2. /\ \A q \in ProposalId : proposals'[q].state = proposals[q].state
      /\ UNCHANGED <<approvals, receipts, dispatches>>
  BY DEF Created, WorkFits, Rows!RowsFitTogether, Rows!TypeOK, Rows!Proposal
<1>3. ASSUME NEW q \in ProposalId
      PROVE  /\ Rows!PhaseOf(q)' = Rows!PhaseOf(q) /\ Rows!SendsOf(q)' = Rows!SendsOf(q)
             /\ Rows!ClearFor(q)' = Rows!ClearFor(q)
  BY <1>2 DEF Rows!PhaseOf, Rows!SendsOf, Rows!ClearFor, Rows!ApprovalFor, Rows!HasApproval,
              Rows!HasReceipt, Rows!MayReserve, Rows!Latest, Rows!Bound, Rows!ProposalOf
<1> QED BY <1>3, Rows!NoViewChanges, StoreNames

\* What a conversation does with its replies keeps the promise of ActionLifecycle
\* until the thread is deleted: a reply runs only when granted, is never revived,
\* and is sent again only when every earlier send is known to have done nothing,
\* whatever edits, messages and restarts come in between.
THEOREM ConversationsKeepLifecycle ==
  Spec => /\ Rows!Lifecycle!Init
          /\ [][Rows!Lifecycle!Next \/ Removed]_(Rows!Lifecycle!vars)
<1>1. Init => Rows!Lifecycle!Init
  BY Rows!LifecycleStart, StoreNames DEF Init, StoreInit, Actions!Init, Rows!Init
<1>2. WorkFits /\ WorkFits' /\ [Next]_vars =>
        [Rows!Lifecycle!Next \/ Removed]_(Rows!Lifecycle!vars)
  <2> SUFFICES ASSUME WorkFits, WorkFits', [Next]_vars
               PROVE  [Rows!Lifecycle!Next \/ Removed]_(Rows!Lifecycle!vars)
    OBVIOUS
  <2>1. Rows!RowsFitTogether /\ Rows!RowsFitTogether'
    BY DEF WorkFits
  <2>2. Rows!Views /\ Rows!Views'
    BY <2>1, Rows!ViewsHold, Rows!ViewsHoldNext, StoreNames
  <2>3. CASE [Rows!Next]_Rows!vars
    BY <2>1, <2>2, <2>3, Rows!LifecycleStep, StoreNames
  <2>4. CASE \E p \in ProposalId : Created(p)
    BY <2>4, CreatedView
  <2>5. UNCHANGED actionRows => UNCHANGED Rows!vars
    BY DEF actionRows, Rows!vars
  <2> QED BY <2>3, <2>4, <2>5, RowsMove
<1> QED BY <1>1, <1>2, WorkAlwaysFits, PTL DEF Spec
=============================================================================
