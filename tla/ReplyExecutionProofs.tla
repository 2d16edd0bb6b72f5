------------------------ MODULE ReplyExecutionProofs ------------------------
(***************************************************************************)
(* Proofs about ReplyExecution, for every number of processes, replies,    *)
(* approvals and instants, wherever processes stop and whatever Feishu     *)
(* answers: its steps are those of the store, the audit is ahead of what   *)
(* it explains, and the verdicts kept are true.                            *)
(***************************************************************************)
EXTENDS ReplyExecution, SequenceTheorems, TLAPS

\* The theorems of the store.
Rows == INSTANCE ActionStateProofs

(***************************************************************************)
(* The inductive invariant                                                 *)
(***************************************************************************)

\* Steps of an execution that has consumed its approval, has audited that,
\* has read its clock, and holds the proposal in execution.
AfterConsumption == {"audit_approval", "begin", "observe", "prepare", "reserve", "send",
                     "record", "audit_result"}
AfterAudit == AfterConsumption \ {"audit_approval"}
WithTime == {"prepare", "reserve", "send", "record"}
WhileExecuting == {"observe"} \cup WithTime

\* Steps at which the stored result is one of an earlier execution.
BeforeResult == {"authorise"} \cup (AfterConsumption \ {"audit_result"})

State(a) == proposals[approvals[a].proposal].state

LatestOf(a) == dispatches[a][Len(dispatches[a])]

\* An execution holds the lease, and nobody but it moves the rows of its action.
RunFits(h) ==
  LET a == Attempt(h) IN
  pc[h] # "idle" =>
    /\ lease = h
    /\ a \in ApprovalId /\ approvals[a] # None /\ approvals[a].decision = "approved"
    /\ pc[h] \in AfterConsumption => approvals[a].consumedAt # None
    /\ pc[h] \in WithTime => run[h].attemptedAt \in Rows!Time
    /\ pc[h] \in WhileExecuting => State(a) = "executing"

\* The consumption and the earlier result are audited before what follows them.
AuditsFit(h) ==
  LET a == Attempt(h) IN
    /\ pc[h] = "authorise" /\ approvals[a].consumedAt # None => ApprovalAudit(a) \in audits
    /\ pc[h] \in AfterAudit => ApprovalAudit(a) \in audits
    /\ pc[h] \in BeforeResult /\ receipts[a] # None => ExecutionAudit(a, receipts[a]) \in audits

DidNothing(verdict) == verdict \in {"retry_same_key", "do_not_retry"}

\* A verdict about to be recorded is true of the latest POST, unless an open
\* dispatch was there before.
VerdictFits(a, verdict) ==
  LET n == Len(remote[a]) IN
  /\ verdict \in Rows!Verdict
  /\ verdict = "succeeded" => n > 0 /\ remote[a][n] = "accepted"
  /\ DidNothing(verdict) /\ n > 0 => a \in misjudged \/ remote[a][n] # "accepted"

SendFits(h) ==
  LET a == Attempt(h)
      n == Len(remote[a])
  IN
  /\ pc[h] = "send" => n > 0 /\ LatestOf(a).settlement = None /\ remote[a][n] = "unsent"
  /\ pc[h] = "record" => VerdictFits(a, run[h].verdict)

\* A dispatch settled as having done nothing did nothing; success is a POST
\* that Feishu accepted.
PostsFit(a) ==
  /\ a \notin misjudged =>
       \A i \in 1..Len(remote[a]) :
         dispatches[a][i].settlement # None /\ DidNothing(dispatches[a][i].settlement.verdict)
           => remote[a][i] # "accepted"
  /\ receipts[a] # None /\ receipts[a].verdict = "succeeded" =>
       \E i \in 1..Len(remote[a]) : remote[a][i] = "accepted"

ExecutionsFit ==
  /\ TypeOK
  /\ Rows!RowsFitTogether
  /\ \A h \in Host : RunFits(h) /\ AuditsFit(h) /\ SendFits(h)
  /\ \A a \in ApprovalId : PostsFit(a)
  /\ ApprovalAuditedFirst

(***************************************************************************)
(* What the clients make of errors and answers                             *)
(***************************************************************************)

LEMMA ClientIssueIsNoSuccess ==
  ASSUME NEW code PROVE ClientIssue(code) \in Rows!Verdict \ {"succeeded"}
BY DEF ClientIssue, Rows!Verdict

\* Nothing that fails before the POST counts as a success.
LEMMA FailuresBeforePost ==
  PreparationVerdicts \cup VerdictsBeforePost \subseteq Rows!Verdict \ {"succeeded"}
BY ClientIssueIsNoSuccess DEF PreparationVerdicts, VerdictsBeforePost

\* No answer to a POST that Feishu accepted is taken for a failure.
LEMMA AcceptedIsNoFailure == VerdictsOfAccepted \subseteq {"succeeded", "uncertain"}
<1> SUFFICES ASSUME NEW a \in AnswersToAccepted PROVE SendVerdict(a) \in {"succeeded", "uncertain"}
  BY DEF VerdictsOfAccepted
<1>1. a \in Answer /\ a.status \notin 400..499
      /\ (a.status = 200 => a.body \notin Code \ {"ok", "unknown_code"})
  BY DEF AnswersToAccepted
<1>2. a.status \in {0, 200, 304, 500, 503} /\ a.body \in Body
  BY <1>1 DEF Answer, Status, NoResponse, Body
<1>3. CASE a.status # 200
  <2>1. Send(a) \in {"network", "unknown"}
    BY <1>2, <1>3 DEF Send, NoResponse, ApplicationErrorStatuses, TellsMore, HttpStatusError
  <2> QED BY <2>1 DEF SendVerdict, ParseReconciliation, ClientIssue
<1>4. CASE a.status = 200
  <2>1. Send(a) \in {"network", "ok", "unfitting", "unknown"}
    <3>1. CASE a.body = "slow"
      BY <1>4, <3>1 DEF Send, NoResponse, ApplicationErrorStatuses, TellsMore
    <3>2. CASE a.body # "slow"
      <4>1. Send(a) = ParseResult(a.body)
        BY <1>4, <3>2 DEF Send, NoResponse, ApplicationErrorStatuses, TellsMore
      <4>2. a.body \in {"none", "broken", "unreadable", "malformed", "empty", "unfitting",
                        "ok", "unknown_code"}
        BY <1>1, <1>2, <1>4, <3>2 DEF Body, Code
      <4> QED BY <4>1, <4>2 DEF ParseResult, ApplicationCodeError, Code
    <3> QED BY <3>1, <3>2
  <2> QED BY <2>1 DEF SendVerdict, ParseReconciliation, ClientIssue
<1> QED BY <1>3, <1>4

\* No answer to a POST that Feishu refused is taken for a success.
LEMMA RefusedIsNoSuccess == VerdictsOfRefused \subseteq Rows!Verdict \ {"succeeded"}
<1> SUFFICES ASSUME NEW a \in AnswersToRefused
             PROVE  SendVerdict(a) \in Rows!Verdict \ {"succeeded"}
  BY DEF VerdictsOfRefused
<1>1. a.status = 200 => a.body # "ok"
  BY DEF AnswersToRefused
<1>2. Send(a) # "ok"
  BY <1>1 DEF Send, ParseResult, ApplicationCodeError, HttpStatusError, TellsMore, NoResponse,
              ApplicationErrorStatuses
<1> QED BY <1>2, ClientIssueIsNoSuccess DEF SendVerdict, ParseReconciliation

(***************************************************************************)
(* The store under the execution                                           *)
(***************************************************************************)

LEMMA StoreNames ==
  /\ Rows!BoundsAssumption /\ Rows!NoneAssumption
  /\ None \notin Host
BY StoreAssumption DEF Rows!Time, Rows!Approval, Rows!Receipt, Rows!Settlement,
   Store!Time, Store!Approval, Store!Receipt, Store!Settlement, Rows!Decision, Store!Decision,
   Rows!Verdict, Store!Verdict

LEMMA StoreKeeps == Rows!RowsFitTogether /\ [Rows!Next]_Rows!vars => Rows!RowsFitTogether'
BY Rows!RowsStep, StoreNames

\* A table of operators that mean the same in both instances of the store.
LEMMA SameStore ==
  /\ Store!TypeOK <=> Rows!TypeOK
  /\ \A a \in ApprovalId, p \in ProposalId : \A s, e :
       Store!RequestApproval(a, p, s, e) => Rows!RequestApproval(a, p, s, e)
  /\ \A a \in ApprovalId : \A d, t :
       Store!DecideApproval(a, d, t) => Rows!DecideApproval(a, d, t)
  /\ \A a \in ApprovalId : \A t : Store!ConsumeApproval(a, t) => Rows!ConsumeApproval(a, t)
  /\ \A a \in ApprovalId : \A t : Store!BeginExecution(a, t) => Rows!BeginExecution(a, t)
  /\ \A a \in ApprovalId : \A t : Store!ReserveDispatch(a, t) => Rows!ReserveDispatch(a, t)
  /\ \A a \in ApprovalId : \A r : Store!RecordReceipt(a, r) => Rows!RecordReceipt(a, r)
  /\ \A a \in ApprovalId : \A v : Store!SettleLatest(a, v) => Rows!SettleLatest(a, v)
<1> USE DEF Store!ProposalOf, Rows!ProposalOf, Store!StateOf, Rows!StateOf,
            Store!SetProposal, Rows!SetProposal, Store!attemptVars, Rows!attemptVars
<1>1. Store!TypeOK <=> Rows!TypeOK
  BY DEF Store!TypeOK, Rows!TypeOK, Store!Time, Rows!Time, Store!Proposal, Rows!Proposal,
         Store!ProposalState, Rows!ProposalState, Store!Approval, Rows!Approval,
         Store!Decision, Rows!Decision, Store!Receipt, Rows!Receipt, Store!Verdict,
         Rows!Verdict, Store!Dispatch, Rows!Dispatch, Store!Settlement, Rows!Settlement
<1>2. \A a \in ApprovalId, p \in ProposalId : \A s, e :
        Store!RequestApproval(a, p, s, e) => Rows!RequestApproval(a, p, s, e)
  BY DEF Store!RequestApproval, Rows!RequestApproval
<1>3. \A a \in ApprovalId : \A d, t : Store!DecideApproval(a, d, t) => Rows!DecideApproval(a, d, t)
  BY DEF Store!DecideApproval, Rows!DecideApproval, Store!AwaitingDecision,
         Rows!AwaitingDecision, Store!DecidedState, Rows!DecidedState
<1>4. \A a \in ApprovalId : \A t : Store!ConsumeApproval(a, t) => Rows!ConsumeApproval(a, t)
  BY DEF Store!ConsumeApproval, Rows!ConsumeApproval, Store!ConsumableAt, Rows!ConsumableAt
<1> USE DEF Store!DurableAction, Rows!DurableAction
<1>5. \A a \in ApprovalId : \A t : Store!BeginExecution(a, t) => Rows!BeginExecution(a, t)
  BY DEF Store!BeginExecution, Rows!BeginExecution, Store!StartableAt, Rows!StartableAt,
         Store!MayBegin, Rows!MayBegin, Store!HasReceipt, Rows!HasReceipt
<1>6. \A a \in ApprovalId : \A t : Store!ReserveDispatch(a, t) => Rows!ReserveDispatch(a, t)
  BY DEF Store!ReserveDispatch, Rows!ReserveDispatch, Store!Latest, Rows!Latest,
         Store!MayReserve, Rows!MayReserve
<1>7. \A a \in ApprovalId : \A r : Store!RecordReceipt(a, r) => Rows!RecordReceipt(a, r)
  BY DEF Store!RecordReceipt, Rows!RecordReceipt, Store!AcceptsReceipt, Rows!AcceptsReceipt,
         Store!Recoverable, Rows!Recoverable, Store!ReceiptState, Rows!ReceiptState,
         Store!SettleLatest, Rows!SettleLatest, Store!Latest, Rows!Latest
<1>8. \A a \in ApprovalId : \A v : Store!SettleLatest(a, v) => Rows!SettleLatest(a, v)
  BY DEF Store!SettleLatest, Rows!SettleLatest, Store!Latest, Rows!Latest
<1> QED BY <1>1, <1>2, <1>3, <1>4, <1>5, <1>6, <1>7, <1>8

\* A step of one instance is a step of the other.
LEMMA SameNext == [Store!Next]_Store!vars => [Rows!Next]_Rows!vars
<1>1. Store!vars = Rows!vars
  BY DEF Store!vars, Rows!vars
<1>2. /\ Store!Time = Rows!Time /\ Store!Decision = Rows!Decision
      /\ Store!Receipt = Rows!Receipt /\ Store!ProposalState = Rows!ProposalState
  BY DEF Store!Time, Rows!Time, Store!Decision, Rows!Decision, Store!Receipt, Rows!Receipt,
         Store!Verdict, Rows!Verdict, Store!ProposalState, Rows!ProposalState
<1>3. Store!SetClock => Rows!SetClock
  BY <1>2 DEF Store!SetClock, Rows!SetClock, Store!attemptVars, Rows!attemptVars
<1>4. \A p \in ProposalId : \A to, at :
        Store!TransitionActionProposal(p, to, at) => Rows!TransitionActionProposal(p, to, at)
  BY DEF Store!TransitionActionProposal, Rows!TransitionActionProposal, Store!SetProposal,
         Rows!SetProposal, Store!attemptVars, Rows!attemptVars, Store!LocalTransitions,
         Rows!LocalTransitions
<1>5. UNCHANGED Store!vars <=> UNCHANGED Rows!vars
  BY DEF Store!vars, Rows!vars
<1>6. Store!Next => Rows!Next
  BY <1>2, <1>3, <1>4, SameStore DEF Store!Next, Rows!Next
<1> QED BY <1>5, <1>6

\* What the rows of one action tell, in the words of this module.
LEMMA RowsTell ==
  ASSUME Rows!RowsFitTogether, NEW a \in ApprovalId
  PROVE  /\ dispatches[a] \in Seq(Rows!Dispatch) /\ Len(dispatches[a]) \in Nat
         /\ approvals[a] # None =>
              /\ approvals[a] \in Rows!Approval /\ approvals[a].proposal \in ProposalId
              /\ State(a) = "executing" /\ receipts[a] # None =>
                   receipts[a].verdict \in {"uncertain", "retry_same_key"}
              /\ State(a) \in {"succeeded", "failed", "uncertain"} =>
                   receipts[a] # None /\ Rows!ReceiptState(receipts[a].verdict) = State(a)
              /\ State(a) \in {"executing", "succeeded", "failed", "uncertain"} =>
                   approvals[a].decision = "approved" /\ approvals[a].consumedAt # None
         /\ receipts[a] # None \/ dispatches[a] # <<>> =>
              /\ approvals[a] # None /\ approvals[a].decision = "approved"
              /\ approvals[a].consumedAt # None
         /\ \A i \in 1..(Len(dispatches[a]) - 1) :
              /\ dispatches[a][i].settlement # None
              /\ dispatches[a][i].settlement.verdict = "retry_same_key"
         /\ dispatches[a] # <<>> /\ LatestOf(a).settlement # None =>
              receipts[a] # None /\ receipts[a].verdict = LatestOf(a).settlement.verdict
<1> USE DEF Rows!RowsFitTogether, State, LatestOf, Rows!StateOf, Rows!ProposalOf
<1>1. /\ dispatches[a] \in Seq(Rows!Dispatch) /\ Len(dispatches[a]) \in Nat
      /\ approvals[a] # None =>
           approvals[a] \in Rows!Approval /\ approvals[a].proposal \in ProposalId
  BY DEF Rows!TypeOK, Rows!Approval
<1>2. /\ approvals[a] # None =>
           /\ State(a) = "executing" /\ receipts[a] # None =>
                receipts[a].verdict \in {"uncertain", "retry_same_key"}
           /\ State(a) \in {"succeeded", "failed", "uncertain"} =>
                receipts[a] # None /\ Rows!ReceiptState(receipts[a].verdict) = State(a)
      /\ receipts[a] # None \/ dispatches[a] # <<>> =>
           /\ approvals[a] # None /\ approvals[a].decision = "approved"
           /\ approvals[a].consumedAt # None
  BY DEF Rows!StateAgreesWithReceipt, Rows!DurableAction, Rows!Recoverable
<1>3. approvals[a] # None /\ State(a) \in {"executing", "succeeded", "failed", "uncertain"} =>
        approvals[a].decision = "approved" /\ approvals[a].consumedAt # None
  BY <1>1 DEF Rows!DecisionBoundsState, Rows!ExecutionStates, Rows!Approval, Rows!Decision
<1>4. \A i \in 1..(Len(dispatches[a]) - 1) :
        /\ dispatches[a][i].settlement # None
        /\ dispatches[a][i].settlement.verdict = "retry_same_key"
  BY DEF Rows!RetriesOnlyAfterNoEffect
<1>5. dispatches[a] # <<>> /\ LatestOf(a).settlement # None =>
        receipts[a] # None /\ receipts[a].verdict = LatestOf(a).settlement.verdict
  BY DEF Rows!SettlementAgreesWithReceipt, Rows!Latest, Rows!HasReceipt
<1> QED BY <1>1, <1>2, <1>3, <1>4, <1>5


(***************************************************************************)
(* The steps of the application are steps of the store                     *)
(***************************************************************************)

LEMMA StoreStep == ExecutionsFit /\ [Next]_vars => [Store!Next]_Store!vars
<1> SUFFICES ASSUME ExecutionsFit, [Next]_vars PROVE Store!Next \/ UNCHANGED Store!vars
  OBVIOUS
<1> USE DEF Store!vars, storeVars
<1>1. now \in Store!Time
  BY DEF ExecutionsFit, TypeOK, Store!TypeOK
<1>2. CASE UNCHANGED vars
  BY <1>2 DEF vars
<1>3. CASE Tick
  <2>1. now' \in Store!Time \ {now}
    BY <1>1, <1>3, StoreAssumption DEF Tick, Store!Time
  <2> QED BY <1>3, <2>1 DEF Tick, Store!Next, Store!SetClock, Store!attemptVars
<1>4. ASSUME NEW a \in ApprovalId, NEW p \in ProposalId, RequestReplyApproval(a, p)
      PROVE  Store!Next
  <2>1. now + ReplyApprovalTtl \in Store!Time
    BY <1>1, <1>4, ReplyBoundsAssumption, StoreAssumption DEF RequestReplyApproval, Store!Time
  <2> QED BY <1>1, <1>4, <2>1 DEF RequestReplyApproval, Store!Next
<1>5. ASSUME NEW a \in ApprovalId, NEW d \in {"approved", "rejected", "cancelled"},
             DecideReplyApproval(a, d)
      PROVE  Store!Next
  <2> DEFINE decision == IF now > approvals[a].expiresAt THEN "expired" ELSE d
  <2>1. decision \in Store!Decision \ {"pending"}
    BY DEF Store!Decision
  <2>2. Store!DecideApproval(a, decision, now)
    BY <1>5 DEF DecideReplyApproval
  <2> QED BY <1>1, <2>1, <2>2 DEF Store!Next
<1>6. ASSUME NEW h \in Host, pc[h] # "idle"
      PROVE  Attempt(h) \in ApprovalId
  BY <1>6 DEF ExecutionsFit, RunFits
<1>7. ASSUME NEW h \in Host, Advance(h)
      PROVE  Store!Next \/ UNCHANGED storeVars
  <2>1. CASE Consume(h)
    BY <1>1, <1>6, <2>1 DEF Consume, Store!Next
  <2>2. CASE Begin(h)
    BY <1>1, <1>6, <2>2 DEF Begin, Store!Next
  <2>3. CASE Reserve(h)
    <3>1. run[h].attemptedAt \in Store!Time
      BY <2>3 DEF Reserve, ExecutionsFit, RunFits, WithTime, Rows!Time, Store!Time
    <3> QED BY <1>6, <2>3, <3>1 DEF Reserve, Store!Next
  <2>4. CASE Record(h)
    <3>1. run[h].attemptedAt \in Store!Time
      BY <2>4 DEF Record, ExecutionsFit, RunFits, WithTime, Rows!Time, Store!Time
    <3>2. run[h].verdict \in Store!Verdict
      BY <2>4 DEF Record, ExecutionsFit, SendFits, VerdictFits, Rows!Verdict, Store!Verdict
    <3>3. [verdict |-> run[h].verdict, attemptedAt |-> run[h].attemptedAt] \in Store!Receipt
      BY <3>1, <3>2 DEF Store!Receipt
    <3> QED BY <1>6, <2>4, <3>3 DEF Record, Store!Next
  <2>5. CASE ~Consume(h) /\ ~Begin(h) /\ ~Reserve(h) /\ ~Record(h)
    BY <1>7, <2>5 DEF Advance, AppendPriorAudit, PriorAuditsDone, Recover, AppendApprovalAudit,
       BeginAgain, Observe, Prepare, ReserveDenied, SendNothing, SendAccepted, SendRefused,
       AppendResultAudit, Return
  <2> QED BY <2>1, <2>2, <2>3, <2>4, <2>5
<1>8. ASSUME NEW h \in Host, Stop(h) \/ StopAfterPost(h) \/ \E a \in ApprovalId : StartExecution(h, a)
      PROVE  UNCHANGED storeVars
  BY <1>8 DEF Stop, StopAfterPost, StartExecution
<1> QED BY <1>2, <1>3, <1>4, <1>5, <1>7, <1>8 DEF Next

LEMMA RowsAfterStep == ExecutionsFit /\ [Next]_vars => Rows!RowsFitTogether'
BY StoreStep, SameNext, StoreKeeps DEF ExecutionsFit

(***************************************************************************)
(* What a step has to show                                                 *)
(***************************************************************************)

\* The types of what is not in the store.
OuterTypes ==
  /\ \A e \in audits : e.kind \in {"approval", "execution"} /\ e.approval \in ApprovalId
  /\ lease \in Host \cup {None}
  /\ pc \in [Host -> Step]
  /\ run \in [Host -> Run]
  /\ remote \in [ApprovalId -> Seq(Post)]
  /\ \A a \in ApprovalId : Len(remote[a]) = Len(dispatches[a])
  /\ misjudged \subseteq ApprovalId

LEMMA TypeSplits == TypeOK <=> Rows!TypeOK /\ OuterTypes
BY SameStore DEF TypeOK, OuterTypes

LEMMA TypeJoins == Rows!RowsFitTogether' /\ OuterTypes' => TypeOK'
<1>1. Rows!TypeOK' => Store!TypeOK'
  BY DEF Store!TypeOK, Rows!TypeOK, Store!Time, Rows!Time, Store!Proposal, Rows!Proposal,
         Store!ProposalState, Rows!ProposalState, Store!Approval, Rows!Approval,
         Store!Decision, Rows!Decision, Store!Receipt, Rows!Receipt, Store!Verdict,
         Rows!Verdict, Store!Dispatch, Rows!Dispatch, Store!Settlement, Rows!Settlement
<1> QED BY <1>1 DEF TypeOK, OuterTypes, Rows!RowsFitTogether

\* One execution runs at a time, as it holds the lease.
LEMMA OthersIdle ==
  ASSUME ExecutionsFit, NEW h \in Host, pc[h] # "idle", NEW g \in Host \ {h}
  PROVE  pc[g] = "idle"
BY DEF ExecutionsFit, RunFits

\* A step of one execution leaves the idle processes idle.
LEMMA OwnStep ==
  ASSUME ExecutionsFit, NEW h \in Host, pc[h] # "idle",
         \A g \in Host \ {h} : pc'[g] = pc[g],
         Rows!RowsFitTogether', OuterTypes', RunFits(h)', AuditsFit(h)', SendFits(h)',
         \A a \in ApprovalId : PostsFit(a)', ApprovalAuditedFirst'
  PROVE  ExecutionsFit'
<1>1. ASSUME NEW g \in Host \ {h} PROVE RunFits(g)' /\ AuditsFit(g)' /\ SendFits(g)'
  <2>1. pc'[g] = "idle"
    BY OthersIdle
  <2> QED BY <2>1 DEF RunFits, AuditsFit, SendFits, AfterAudit, AfterConsumption, BeforeResult
<1>2. TypeOK'
  BY TypeJoins
<1> QED BY <1>1, <1>2 DEF ExecutionsFit

\* Posts fit as long as neither they nor results and settlements change.
LEMMA PostsStand ==
  ASSUME ExecutionsFit, UNCHANGED <<receipts, dispatches, remote, misjudged>>
  PROVE  \A a \in ApprovalId : PostsFit(a)'
BY DEF ExecutionsFit, PostsFit

\* What was audited stays audited, also while more is.
LEMMA AuditStands ==
  ASSUME ExecutionsFit, UNCHANGED <<proposals, approvals>>, audits \subseteq audits'
  PROVE  ApprovalAuditedFirst'
BY DEF ExecutionsFit, ApprovalAuditedFirst, Store!StateOf, Store!ProposalOf

\* An execution may end anywhere.
LEMMA EndStep ==
  ASSUME ExecutionsFit, Rows!RowsFitTogether', NEW h \in Host, pc[h] # "idle", EndRun(h),
         UNCHANGED storeVars, audits \subseteq audits', OuterTypes',
         \A a \in ApprovalId : PostsFit(a)'
  PROVE  ExecutionsFit'
<1>1. pc'[h] = "idle" /\ \A g \in Host \ {h} : pc'[g] = pc[g]
  BY DEF EndRun, Goto, ExecutionsFit, TypeOK
<1>2. RunFits(h)' /\ AuditsFit(h)' /\ SendFits(h)'
  BY <1>1 DEF RunFits, AuditsFit, SendFits, AfterAudit, AfterConsumption, BeforeResult
<1>3. ApprovalAuditedFirst'
  BY AuditStands DEF storeVars
<1> QED BY <1>1, <1>2, <1>3, OwnStep

(***************************************************************************)
(* Steps that leave the store and the posts alone                          *)
(***************************************************************************)

\* What holds of every type after a step that keeps them all.
LEMMA TypesNow == ExecutionsFit => OuterTypes
BY DEF ExecutionsFit, TypeOK, OuterTypes

LEMMA AppendPriorAuditStep ==
  ASSUME ExecutionsFit, Rows!RowsFitTogether', NEW h \in Host, AppendPriorAudit(h)
  PROVE  ExecutionsFit'
<1> USE DEF AppendPriorAudit, storeVars, procVars
<1>1. pc[h] = "audit_prior" /\ Attempt(h) \in ApprovalId
  BY DEF ExecutionsFit, RunFits
<1>2. OuterTypes'
  BY <1>1, TypesNow DEF OuterTypes, PriorAudits, ApprovalAudit, ExecutionAudit
<1>3. RunFits(h)'
  BY DEF ExecutionsFit, RunFits, Attempt, State
<1>4. AuditsFit(h)' /\ SendFits(h)'
  BY <1>1 DEF AuditsFit, SendFits, AfterAudit, AfterConsumption, BeforeResult
<1>5. (\A a \in ApprovalId : PostsFit(a)') /\ ApprovalAuditedFirst'
  BY PostsStand, AuditStands
<1> QED BY <1>1, <1>2, <1>3, <1>4, <1>5, OwnStep

LEMMA PriorAuditsDoneStep ==
  ASSUME ExecutionsFit, Rows!RowsFitTogether', NEW h \in Host, PriorAuditsDone(h)
  PROVE  ExecutionsFit'
<1> USE DEF PriorAuditsDone, storeVars
<1>1. pc[h] = "audit_prior" /\ Attempt(h) \in ApprovalId /\ Rows!RowsFitTogether
  BY DEF ExecutionsFit, RunFits
<1>2. (\A a \in ApprovalId : PostsFit(a)') /\ ApprovalAuditedFirst'
  BY PostsStand, AuditStands
<1>3. CASE EndRun(h)
  <2>1. OuterTypes'
    BY <1>3, TypesNow DEF OuterTypes, EndRun, Goto, ReleaseLease, NoRun, Run, Step
  <2> QED BY <1>1, <1>2, <1>3, <2>1, EndStep
<1>4. CASE Goto(h, "authorise") /\ UNCHANGED <<lease, run>>
  <2>1. pc'[h] = "authorise" /\ \A g \in Host \ {h} : pc'[g] = pc[g]
    BY <1>4, TypesNow DEF OuterTypes, Goto
  <2>2. OuterTypes'
    BY <1>4, TypesNow DEF OuterTypes, Goto, Step
  <2>3. RunFits(h)' /\ SendFits(h)'
    BY <1>1, <1>4, <2>1 DEF ExecutionsFit, RunFits, SendFits, Attempt, AfterConsumption, WithTime,
       WhileExecuting
  <2>4. receipts[Attempt(h)] # None => approvals[Attempt(h)].consumedAt # None
    BY <1>1, RowsTell
  <2>5. AuditsFit(h)'
    BY <1>4, <2>1, <2>4 DEF AuditsFit, PriorAudits, Attempt, AfterAudit, AfterConsumption
  <2> QED BY <1>1, <1>2, <2>1, <2>2, <2>3, <2>5, OwnStep
<1> QED BY <1>3, <1>4

LEMMA RecoverStep ==
  ASSUME ExecutionsFit, Rows!RowsFitTogether', NEW h \in Host, Recover(h)
  PROVE  ExecutionsFit'
<1> USE DEF Recover, storeVars
<1>1. pc[h] = "authorise" /\ Attempt(h) \in ApprovalId
  BY DEF ExecutionsFit, RunFits
<1>2. pc'[h] = "begin" /\ \A g \in Host \ {h} : pc'[g] = pc[g]
  BY TypesNow DEF OuterTypes, Goto
<1>3. OuterTypes'
  BY TypesNow DEF OuterTypes, Goto, Step
<1>4. RunFits(h)' /\ SendFits(h)'
  BY <1>1, <1>2 DEF ExecutionsFit, RunFits, SendFits, Attempt, AfterConsumption, WithTime,
     WhileExecuting
<1>5. AuditsFit(h)'
  BY <1>1, <1>2 DEF ExecutionsFit, AuditsFit, Attempt, BeforeResult
<1>6. (\A a \in ApprovalId : PostsFit(a)') /\ ApprovalAuditedFirst'
  BY PostsStand, AuditStands
<1> QED BY <1>1, <1>2, <1>3, <1>4, <1>5, <1>6, OwnStep

LEMMA AppendApprovalAuditStep ==
  ASSUME ExecutionsFit, Rows!RowsFitTogether', NEW h \in Host, AppendApprovalAudit(h)
  PROVE  ExecutionsFit'
<1> USE DEF AppendApprovalAudit, storeVars
<1>1. pc[h] = "audit_approval" /\ Attempt(h) \in ApprovalId
  BY DEF ExecutionsFit, RunFits
<1>2. pc'[h] = "begin" /\ \A g \in Host \ {h} : pc'[g] = pc[g]
  BY TypesNow DEF OuterTypes, Goto
<1>3. OuterTypes'
  BY <1>1, TypesNow DEF OuterTypes, Goto, Step, ApprovalAudit
<1>4. RunFits(h)' /\ SendFits(h)'
  BY <1>1, <1>2 DEF ExecutionsFit, RunFits, SendFits, Attempt, AfterConsumption, WithTime,
     WhileExecuting
<1>5. AuditsFit(h)'
  BY <1>1, <1>2 DEF ExecutionsFit, AuditsFit, Attempt, BeforeResult, AfterConsumption
<1>6. (\A a \in ApprovalId : PostsFit(a)') /\ ApprovalAuditedFirst'
  BY PostsStand, AuditStands
<1> QED BY <1>1, <1>2, <1>3, <1>4, <1>5, <1>6, OwnStep

LEMMA BeginAgainStep ==
  ASSUME ExecutionsFit, Rows!RowsFitTogether', NEW h \in Host, BeginAgain(h)
  PROVE  ExecutionsFit'
<1> USE DEF BeginAgain, storeVars
<1>1. pc[h] = "begin" /\ Attempt(h) \in ApprovalId
  BY DEF ExecutionsFit, RunFits
<1>2. pc'[h] = "observe" /\ \A g \in Host \ {h} : pc'[g] = pc[g]
  BY TypesNow DEF OuterTypes, Goto
<1>3. OuterTypes'
  BY TypesNow DEF OuterTypes, Goto, Step
<1>4. RunFits(h)' /\ SendFits(h)'
  BY <1>1, <1>2 DEF ExecutionsFit, RunFits, SendFits, Attempt, AfterConsumption, WithTime,
     WhileExecuting, State, Store!StateOf, Store!ProposalOf
<1>5. AuditsFit(h)'
  BY <1>1, <1>2 DEF ExecutionsFit, AuditsFit, Attempt, BeforeResult, AfterConsumption, AfterAudit
<1>6. (\A a \in ApprovalId : PostsFit(a)') /\ ApprovalAuditedFirst'
  BY PostsStand, AuditStands
<1> QED BY <1>1, <1>2, <1>3, <1>4, <1>5, <1>6, OwnStep

LEMMA ObserveStep ==
  ASSUME ExecutionsFit, Rows!RowsFitTogether', NEW h \in Host, Observe(h)
  PROVE  ExecutionsFit'
<1> USE DEF Observe, storeVars
<1>1. pc[h] = "observe" /\ Attempt(h) \in ApprovalId /\ now \in Rows!Time
  BY DEF ExecutionsFit, RunFits, Rows!RowsFitTogether, Rows!TypeOK
<1>2. pc'[h] = "prepare" /\ \A g \in Host \ {h} : pc'[g] = pc[g]
  BY TypesNow DEF OuterTypes, Goto
<1>3. run'[h].approval = run[h].approval /\ run'[h].attemptedAt = now
  BY TypesNow DEF OuterTypes, Run
<1>4. run' \in [Host -> Run]
  BY <1>1, TypesNow DEF OuterTypes, Run, Rows!Time
<1>5. OuterTypes'
  BY <1>4, TypesNow DEF OuterTypes, Goto, Step
<1>6. RunFits(h)' /\ SendFits(h)'
  BY <1>1, <1>2, <1>3 DEF ExecutionsFit, RunFits, SendFits, Attempt, AfterConsumption, WithTime,
     WhileExecuting, State, Rows!Time
<1>7. AuditsFit(h)'
  BY <1>1, <1>2, <1>3 DEF ExecutionsFit, AuditsFit, Attempt, BeforeResult, AfterConsumption,
     AfterAudit
<1>8. (\A a \in ApprovalId : PostsFit(a)') /\ ApprovalAuditedFirst'
  BY PostsStand, AuditStands
<1> QED BY <1>1, <1>2, <1>5, <1>6, <1>7, <1>8, OwnStep

LEMMA AppendResultAuditStep ==
  ASSUME ExecutionsFit, Rows!RowsFitTogether', NEW h \in Host, AppendResultAudit(h)
  PROVE  ExecutionsFit'
<1> USE DEF AppendResultAudit, storeVars
<1>1. pc[h] = "audit_result" /\ Attempt(h) \in ApprovalId
  BY DEF ExecutionsFit, RunFits
<1>2. OuterTypes'
  BY <1>1, TypesNow DEF OuterTypes, EndRun, Goto, ReleaseLease, NoRun, Run, Step, ExecutionAudit
<1>3. \A a \in ApprovalId : PostsFit(a)'
  BY PostsStand
<1> QED BY <1>1, <1>2, <1>3, EndStep

LEMMA StopStep ==
  ASSUME ExecutionsFit, Rows!RowsFitTogether', NEW h \in Host, Stop(h)
  PROVE  ExecutionsFit'
<1> USE DEF Stop, storeVars
<1>1. OuterTypes'
  BY TypesNow DEF OuterTypes, EndRun, Goto, ReleaseLease, NoRun, Run, Step
<1>2. \A a \in ApprovalId : PostsFit(a)'
  BY PostsStand
<1> QED BY <1>1, <1>2, EndStep

(***************************************************************************)
(* Steps that return a verdict, and the posts                              *)
(***************************************************************************)

\* A verdict that fits what happened may be returned.
LEMMA ReturnStep ==
  ASSUME ExecutionsFit, Rows!RowsFitTogether',
         NEW h \in Host, pc[h] \in {"prepare", "reserve", "send"},
         NEW v \in Rows!Verdict, Return(h, v),
         NEW a \in ApprovalId, a = Attempt(h), VerdictFits(a, v)',
         remote' \in [ApprovalId -> Seq(Post)],
         \A b \in ApprovalId : Len(remote'[b]) = Len(remote[b]),
         misjudged' \subseteq ApprovalId,
         \A b \in ApprovalId : PostsFit(b)'
  PROVE  ExecutionsFit'
<1> USE DEF Return, storeVars
<1>1. pc'[h] = "record" /\ \A g \in Host \ {h} : pc'[g] = pc[g]
  BY TypesNow DEF OuterTypes, Goto
<1>2. /\ run'[h].approval = a /\ run'[h].attemptedAt = run[h].attemptedAt
      /\ run'[h].verdict = v
  BY TypesNow DEF OuterTypes, Run, Attempt
<1>3. run' \in [Host -> Run]
  <2>1. v \in Store!Verdict /\ run \in [Host -> Run]
    BY TypesNow DEF OuterTypes, Rows!Verdict, Store!Verdict
  <2>2. [run[h] EXCEPT !.verdict = v] \in Run
    BY <2>1 DEF Run
  <2> QED BY <2>1, <2>2
<1>4. OuterTypes'
  BY <1>3, TypesNow DEF OuterTypes, Goto, Step
<1>5. RunFits(h)'
  BY <1>1, <1>2 DEF ExecutionsFit, RunFits, Attempt, AfterConsumption, WithTime, WhileExecuting,
     State
<1>6. SendFits(h)'
  BY <1>1, <1>2 DEF SendFits, Attempt
<1>7. AuditsFit(h)'
  BY <1>1, <1>2 DEF ExecutionsFit, AuditsFit, Attempt, BeforeResult, AfterConsumption, AfterAudit
<1>8. ApprovalAuditedFirst'
  BY AuditStands
<1> QED BY <1>1, <1>4, <1>5, <1>6, <1>7, <1>8, OwnStep

LEMMA PrepareStep ==
  ASSUME ExecutionsFit, Rows!RowsFitTogether', NEW h \in Host, Prepare(h)
  PROVE  ExecutionsFit'
<1> USE DEF Prepare
<1>1. pc[h] = "prepare" /\ Attempt(h) \in ApprovalId /\ Rows!RowsFitTogether
  BY DEF ExecutionsFit, RunFits
<1>2. CASE Goto(h, "reserve") /\ UNCHANGED <<storeVars, audits, lease, run, misjudged>>
  <2> USE DEF storeVars
  <2>1. pc'[h] = "reserve" /\ \A g \in Host \ {h} : pc'[g] = pc[g]
    BY <1>2, TypesNow DEF OuterTypes, Goto
  <2>2. OuterTypes'
    BY <1>2, TypesNow DEF OuterTypes, Goto, Step
  <2>3. RunFits(h)' /\ SendFits(h)'
    BY <1>1, <1>2, <2>1 DEF ExecutionsFit, RunFits, SendFits, Attempt, AfterConsumption, WithTime,
       WhileExecuting, State
  <2>4. AuditsFit(h)'
    BY <1>1, <1>2, <2>1 DEF ExecutionsFit, AuditsFit, Attempt, BeforeResult, AfterConsumption,
       AfterAudit
  <2>5. (\A a \in ApprovalId : PostsFit(a)') /\ ApprovalAuditedFirst'
    BY <1>2, PostsStand, AuditStands
  <2> QED BY <1>1, <2>1, <2>2, <2>3, <2>4, <2>5, OwnStep
<1>3. ASSUME NEW v \in PreparationVerdicts, Return(h, v),
             misjudged' = misjudged \cup {a \in {Attempt(h)} : MayHaveSent(a)}
      PROVE  ExecutionsFit'
  <2>1. v \in Rows!Verdict \ {"succeeded"}
    BY FailuresBeforePost
  <2>2. PICK a \in ApprovalId : a = Attempt(h)
    BY <1>1
  <2>3. Len(remote[a]) = Len(dispatches[a]) /\ dispatches[a] \in Seq(Rows!Dispatch)
        /\ remote[a] \in Seq(Post)
    BY <1>1, RowsTell, TypesNow DEF OuterTypes
  <2>4. misjudged \subseteq misjudged' /\ misjudged' \subseteq ApprovalId
        /\ (MayHaveSent(a) => a \in misjudged')
    BY <1>3, <2>2, TypesNow DEF OuterTypes
  <2>5. remote' = remote /\ dispatches' = dispatches /\ receipts' = receipts
    BY <1>3 DEF Return, storeVars
  <2>6. ASSUME a \notin misjudged', Len(remote[a]) > 0
        PROVE  remote[a][Len(remote[a])] # "accepted"
    <3>1. dispatches[a] # <<>>
      BY <2>3, <2>6
    <3>2. LatestOf(a).settlement # None /\ LatestOf(a).settlement.verdict = "retry_same_key"
      BY <2>4, <2>6, <3>1 DEF MayHaveSent, Store!Latest, LatestOf
    <3>3. a \notin misjudged /\ Len(remote[a]) \in 1..Len(remote[a])
      BY <2>3, <2>4, <2>6
    <3> QED BY <2>3, <3>2, <3>3 DEF ExecutionsFit, PostsFit, LatestOf, DidNothing
  <2>7. VerdictFits(a, v)'
    BY <2>1, <2>5, <2>6 DEF VerdictFits
  <2>8. \A b \in ApprovalId : PostsFit(b)'
    BY <2>4, <2>5 DEF ExecutionsFit, PostsFit
  <2>9. remote' \in [ApprovalId -> Seq(Post)]
    BY <2>5, TypesNow DEF OuterTypes
  <2> QED BY <1>1, <1>3, <2>1, <2>2, <2>4, <2>5, <2>7, <2>8, <2>9, ReturnStep
<1> QED BY <1>2, <1>3

LEMMA ReserveDeniedStep ==
  ASSUME ExecutionsFit, Rows!RowsFitTogether', NEW h \in Host, ReserveDenied(h)
  PROVE  ExecutionsFit'
<1> USE DEF ReserveDenied, VerdictWithoutSend
<1>1. PICK a \in ApprovalId : a = Attempt(h)
  BY DEF ExecutionsFit, RunFits
<1>2. "uncertain" \in Rows!Verdict
  BY DEF Rows!Verdict
<1>3. VerdictFits(a, "uncertain")'
  BY <1>2 DEF VerdictFits, DidNothing
<1>4. \A b \in ApprovalId : PostsFit(b)'
  BY PostsStand DEF Return, storeVars
<1>5. remote' \in [ApprovalId -> Seq(Post)] /\ misjudged' \subseteq ApprovalId
  BY TypesNow DEF OuterTypes
<1> QED BY <1>1, <1>2, <1>3, <1>4, <1>5, ReturnStep

\* At the POST: the latest dispatch is open and its POST has not left.
LEMMA AtSend ==
  ASSUME ExecutionsFit, NEW h \in Host, pc[h] = "send"
  PROVE  LET a == Attempt(h)
             n == Len(remote[a])
         IN  /\ a \in ApprovalId /\ remote[a] \in Seq(Post) /\ n \in Nat \ {0}
             /\ n = Len(dispatches[a]) /\ dispatches[a][n].settlement = None
             /\ remote[a][n] = "unsent"
<1>1. Attempt(h) \in ApprovalId
  BY DEF ExecutionsFit, RunFits
<1> QED BY <1>1, TypesNow DEF OuterTypes, ExecutionsFit, SendFits, LatestOf

\* What Feishu made of the POST of an open dispatch contradicts no verdict.
LEMMA PostedFits ==
  ASSUME ExecutionsFit, NEW h \in Host, pc[h] = "send",
         NEW post \in Post, Posted(h, post), UNCHANGED <<storeVars, misjudged>>,
         NEW a, a = Attempt(h)
  PROVE  /\ remote' \in [ApprovalId -> Seq(Post)]
         /\ \A b \in ApprovalId : Len(remote'[b]) = Len(remote[b]) /\ PostsFit(b)'
         /\ remote'[a][Len(remote[a])] = post
<1> DEFINE n == Len(remote[a])
<1>1. /\ a \in ApprovalId /\ remote[a] \in Seq(Post) /\ n \in Nat \ {0}
      /\ n = Len(dispatches[a]) /\ dispatches[a][n].settlement = None
      /\ remote[a][n] = "unsent"
  BY AtSend
<1>2. remote \in [ApprovalId -> Seq(Post)]
  BY TypesNow DEF OuterTypes
<1>3. remote' = [remote EXCEPT ![a] = [remote[a] EXCEPT ![n] = post]]
  BY DEF Posted
<1>4. [remote[a] EXCEPT ![n] = post] \in Seq(Post)
  BY <1>1
<1>5. remote' \in [ApprovalId -> Seq(Post)]
  BY <1>2, <1>3, <1>4
<1>6. /\ remote'[a] = [remote[a] EXCEPT ![n] = post]
      /\ \A b \in ApprovalId \ {a} : remote'[b] = remote[b]
  BY <1>1, <1>2, <1>3
<1>7. /\ Len(remote'[a]) = n /\ remote'[a][n] = post
      /\ \A i \in 1..n : i # n => remote'[a][i] = remote[a][i]
  BY <1>1, <1>6
<1>8. PostsFit(a)'
  <2>1. ASSUME a \notin misjudged', NEW i \in 1..n, dispatches[a][i].settlement # None,
               DidNothing(dispatches[a][i].settlement.verdict)
        PROVE  remote'[a][i] # "accepted"
    BY <1>1, <1>7, <2>1 DEF ExecutionsFit, PostsFit
  <2>2. ASSUME receipts[a] # None, receipts[a].verdict = "succeeded"
        PROVE  \E i \in 1..n : remote'[a][i] = "accepted"
    <3>1. PICK i \in 1..n : remote[a][i] = "accepted"
      BY <1>1, <2>2 DEF ExecutionsFit, PostsFit
    <3> QED BY <1>1, <1>7, <3>1
  <2> QED BY <1>7, <2>1, <2>2 DEF PostsFit, storeVars
<1>9. \A b \in ApprovalId \ {a} : PostsFit(b)'
  BY <1>6 DEF ExecutionsFit, PostsFit, storeVars
<1> QED BY <1>5, <1>6, <1>7, <1>8, <1>9

LEMMA SendNothingStep ==
  ASSUME ExecutionsFit, Rows!RowsFitTogether', NEW h \in Host, SendNothing(h)
  PROVE  ExecutionsFit'
<1> USE DEF SendNothing
<1>1. PICK a \in ApprovalId : a = Attempt(h)
  BY AtSend
<1>2. PICK v \in VerdictsBeforePost : Return(h, v)
  OBVIOUS
<1>3. v \in Rows!Verdict \ {"succeeded"}
  BY FailuresBeforePost
<1>4. VerdictFits(a, v)'
  BY <1>1, <1>3, AtSend DEF VerdictFits
<1>5. \A b \in ApprovalId : PostsFit(b)'
  BY <1>2, PostsStand DEF Return, storeVars
<1>6. remote' \in [ApprovalId -> Seq(Post)] /\ misjudged' \subseteq ApprovalId
  BY TypesNow DEF OuterTypes
<1> QED BY <1>1, <1>2, <1>3, <1>4, <1>5, <1>6, ReturnStep

LEMMA SendAcceptedStep ==
  ASSUME ExecutionsFit, Rows!RowsFitTogether', NEW h \in Host, SendAccepted(h)
  PROVE  ExecutionsFit'
<1> USE DEF SendAccepted
<1>1. PICK a \in ApprovalId : a = Attempt(h)
  BY AtSend
<1>2. PICK v \in VerdictsOfAccepted : Return(h, v)
  OBVIOUS
<1>3. v \in {"succeeded", "uncertain"} /\ v \in Rows!Verdict
  BY AcceptedIsNoFailure DEF Rows!Verdict
<1>4. "accepted" \in Post /\ misjudged' \subseteq ApprovalId
  BY TypesNow DEF Post, OuterTypes
<1>5. /\ remote' \in [ApprovalId -> Seq(Post)]
      /\ \A b \in ApprovalId : Len(remote'[b]) = Len(remote[b]) /\ PostsFit(b)'
      /\ remote'[a][Len(remote[a])] = "accepted"
  BY <1>1, <1>2, <1>4, PostedFits DEF Return
<1>6. VerdictFits(a, v)'
  BY <1>1, <1>3, <1>5, AtSend DEF VerdictFits, DidNothing
<1> QED BY <1>1, <1>2, <1>3, <1>4, <1>5, <1>6, ReturnStep

LEMMA SendRefusedStep ==
  ASSUME ExecutionsFit, Rows!RowsFitTogether', NEW h \in Host, SendRefused(h)
  PROVE  ExecutionsFit'
<1> USE DEF SendRefused
<1>1. PICK a \in ApprovalId : a = Attempt(h)
  BY AtSend
<1>2. PICK v \in VerdictsOfRefused : Return(h, v)
  OBVIOUS
<1>3. v \in Rows!Verdict \ {"succeeded"}
  BY RefusedIsNoSuccess
<1>4. "refused" \in Post /\ misjudged' \subseteq ApprovalId
  BY TypesNow DEF Post, OuterTypes
<1>5. /\ remote' \in [ApprovalId -> Seq(Post)]
      /\ \A b \in ApprovalId : Len(remote'[b]) = Len(remote[b]) /\ PostsFit(b)'
      /\ remote'[a][Len(remote[a])] = "refused"
  BY <1>1, <1>2, <1>4, PostedFits DEF Return
<1>6. VerdictFits(a, v)'
  BY <1>1, <1>3, <1>5, AtSend DEF VerdictFits
<1> QED BY <1>1, <1>2, <1>3, <1>4, <1>5, <1>6, ReturnStep

LEMMA StopAfterPostStep ==
  ASSUME ExecutionsFit, Rows!RowsFitTogether', NEW h \in Host, StopAfterPost(h)
  PROVE  ExecutionsFit'
<1> USE DEF StopAfterPost
<1>1. PICK a \in ApprovalId : a = Attempt(h)
  BY AtSend
<1>2. PICK post \in {"accepted", "refused"} : Posted(h, post)
  OBVIOUS
<1>3. /\ remote' \in [ApprovalId -> Seq(Post)]
      /\ \A b \in ApprovalId : Len(remote'[b]) = Len(remote[b]) /\ PostsFit(b)'
  BY <1>1, <1>2, PostedFits DEF Post
<1>4. OuterTypes'
  BY <1>3, TypesNow DEF OuterTypes, EndRun, Goto, ReleaseLease, NoRun, Run, Step, storeVars
<1> QED BY <1>3, <1>4, EndStep

(***************************************************************************)
(* Steps that change the store                                             *)
(***************************************************************************)

LEMMA ConsumeStep ==
  ASSUME ExecutionsFit, Rows!RowsFitTogether', NEW h \in Host, Consume(h)
  PROVE  ExecutionsFit'
<1> USE DEF Consume
<1>1. PICK a \in ApprovalId : a = Attempt(h)
  BY DEF ExecutionsFit, RunFits
<1>2. /\ approvals[a] # None /\ approvals[a].decision = "approved"
      /\ approvals' = [approvals EXCEPT ![a].consumedAt = now]
      /\ UNCHANGED <<now, proposals, receipts, dispatches>>
  BY <1>1 DEF Store!ConsumeApproval, Store!ConsumableAt, Store!attemptVars
<1>3. Rows!TypeOK /\ approvals[a] \in Rows!Approval /\ now # None
  BY <1>2, StoreAssumption DEF ExecutionsFit, Rows!RowsFitTogether, Rows!TypeOK, Rows!Time, Store!Time
<1>4. /\ approvals'[a] # None /\ approvals'[a].decision = "approved"
      /\ approvals'[a].consumedAt # None
      /\ \A b \in ApprovalId : approvals'[b].proposal = approvals[b].proposal
                               /\ (approvals'[b] # None => approvals[b] # None)
  BY <1>2, <1>3, StoreNames DEF Rows!TypeOK, Rows!Approval, Rows!NoneAssumption
<1>5. pc'[h] = "audit_approval" /\ \A g \in Host \ {h} : pc'[g] = pc[g]
  BY TypesNow DEF OuterTypes, Goto
<1>6. OuterTypes'
  BY <1>2, TypesNow DEF OuterTypes, Goto, Step
<1>7. RunFits(h)' /\ SendFits(h)'
  BY <1>1, <1>4, <1>5 DEF ExecutionsFit, RunFits, SendFits, Attempt, WithTime, WhileExecuting
<1>8. AuditsFit(h)'
  BY <1>1, <1>2, <1>5 DEF ExecutionsFit, AuditsFit, Attempt, BeforeResult, AfterAudit
<1>9. ApprovalAuditedFirst'
  BY <1>2, <1>4 DEF ExecutionsFit, ApprovalAuditedFirst, Store!StateOf, Store!ProposalOf
<1>10. \A b \in ApprovalId : PostsFit(b)'
  BY <1>2, PostsStand
<1> QED BY <1>5, <1>6, <1>7, <1>8, <1>9, <1>10, OwnStep

\* No two approvals are for the same proposal.
LEMMA OwnProposal ==
  ASSUME Rows!RowsFitTogether, NEW a \in ApprovalId, NEW b \in ApprovalId,
         approvals[a] # None, approvals[b] # None, approvals[a].proposal = approvals[b].proposal
  PROVE  a = b
BY DEF Rows!RowsFitTogether, Rows!OneApprovalPerProposal, Rows!ProposalOf

LEMMA BeginStep ==
  ASSUME ExecutionsFit, Rows!RowsFitTogether', NEW h \in Host, Begin(h)
  PROVE  ExecutionsFit'
<1> USE DEF Begin
<1>1. Rows!RowsFitTogether /\ proposals \in [ProposalId -> Rows!Proposal]
  BY DEF ExecutionsFit, Rows!RowsFitTogether, Rows!TypeOK
<1>2. PICK a \in ApprovalId : a = Attempt(h)
  BY DEF ExecutionsFit, RunFits
<1>3. /\ approvals[a] # None
      /\ proposals' = [proposals EXCEPT ![approvals[a].proposal] =
           [state |-> "executing", updatedAt |-> now]]
      /\ UNCHANGED <<now, approvals, receipts, dispatches>>
  BY <1>2 DEF Store!BeginExecution, Store!DurableAction, Store!SetProposal, Store!ProposalOf,
     Store!attemptVars
<1>4. /\ State(a)' = "executing"
      /\ \A b \in ApprovalId \ {a} : approvals[b] # None =>
           proposals'[approvals[b].proposal] = proposals[approvals[b].proposal]
  BY <1>1, <1>3, RowsTell, OwnProposal DEF State
<1>5. pc'[h] = "observe" /\ \A g \in Host \ {h} : pc'[g] = pc[g]
  BY TypesNow DEF OuterTypes, Goto
<1>6. OuterTypes'
  BY <1>3, TypesNow DEF OuterTypes, Goto, Step
<1>7. RunFits(h)' /\ SendFits(h)'
  BY <1>2, <1>3, <1>4, <1>5 DEF ExecutionsFit, RunFits, SendFits, Attempt, AfterConsumption,
     WithTime, WhileExecuting, State
<1>8. AuditsFit(h)'
  BY <1>2, <1>3, <1>5 DEF ExecutionsFit, AuditsFit, Attempt, BeforeResult, AfterAudit,
     AfterConsumption
<1>9. ApprovalAudit(a) \in audits
  BY <1>2 DEF ExecutionsFit, AuditsFit, AfterAudit, AfterConsumption
<1>10. ApprovalAuditedFirst'
  BY <1>3, <1>4, <1>9 DEF ExecutionsFit, ApprovalAuditedFirst, Store!StateOf, Store!ProposalOf
<1>11. \A b \in ApprovalId : PostsFit(b)'
  BY <1>3, PostsStand
<1> QED BY <1>5, <1>6, <1>7, <1>8, <1>10, <1>11, OwnStep

LEMMA ReserveStep ==
  ASSUME ExecutionsFit, Rows!RowsFitTogether', NEW h \in Host, Reserve(h)
  PROVE  ExecutionsFit'
<1> USE DEF Reserve
<1>1. Rows!RowsFitTogether /\ dispatches \in [ApprovalId -> Seq(Rows!Dispatch)]
      /\ remote \in [ApprovalId -> Seq(Post)]
  BY TypesNow DEF ExecutionsFit, Rows!RowsFitTogether, Rows!TypeOK, OuterTypes
<1>2. PICK a \in ApprovalId : a = Attempt(h)
  BY DEF ExecutionsFit, RunFits
<1> DEFINE n == Len(remote[a])
           row == [reservedAt |-> run[h].attemptedAt, settlement |-> None]
<1>3. /\ dispatches' = [dispatches EXCEPT ![a] = Append(@, row)]
      /\ remote' = [remote EXCEPT ![a] = Append(@, "unsent")]
      /\ UNCHANGED <<now, proposals, approvals, receipts>>
  BY <1>2 DEF Store!ReserveDispatch
<1>4. n \in Nat /\ Len(dispatches[a]) = n
  BY <1>1, TypesNow DEF OuterTypes
<1>5. /\ Len(remote'[a]) = n + 1 /\ remote'[a][n + 1] = "unsent"
      /\ Len(dispatches'[a]) = n + 1 /\ dispatches'[a][n + 1] = row
      /\ \A i \in 1..n : remote'[a][i] = remote[a][i] /\ dispatches'[a][i] = dispatches[a][i]
      /\ \A b \in ApprovalId \ {a} : remote'[b] = remote[b] /\ dispatches'[b] = dispatches[b]
  BY <1>1, <1>3, <1>4
<1>6. pc'[h] = "send" /\ \A g \in Host \ {h} : pc'[g] = pc[g]
  BY TypesNow DEF OuterTypes, Goto
<1>7. remote' \in [ApprovalId -> Seq(Post)]
  <2>1. Append(remote[a], "unsent") \in Seq(Post)
    BY <1>1 DEF Post
  <2> QED BY <1>1, <1>3, <2>1
<1>8. \A b \in ApprovalId : Len(remote'[b]) = Len(dispatches'[b])
  BY <1>5, TypesNow DEF OuterTypes
<1>9. OuterTypes'
  BY <1>7, <1>8, TypesNow DEF OuterTypes, Goto, Step
<1>10. RunFits(h)'
  BY <1>2, <1>3, <1>6 DEF ExecutionsFit, RunFits, Attempt, AfterConsumption,
     WithTime, WhileExecuting, State
<1>11. SendFits(h)'
  BY <1>2, <1>4, <1>5, <1>6 DEF SendFits, Attempt, LatestOf
<1>12. AuditsFit(h)'
  BY <1>2, <1>3, <1>6 DEF ExecutionsFit, AuditsFit, Attempt, BeforeResult, AfterAudit,
     AfterConsumption
<1>13. ApprovalAuditedFirst'
  BY <1>3, AuditStands
<1>14. PostsFit(a)'
  <2>1. ASSUME a \notin misjudged', NEW i \in 1..(n + 1), dispatches'[a][i].settlement # None,
               DidNothing(dispatches'[a][i].settlement.verdict)
        PROVE  remote'[a][i] # "accepted"
    BY <1>4, <1>5, <2>1 DEF ExecutionsFit, PostsFit
  <2>2. ASSUME receipts[a] # None, receipts[a].verdict = "succeeded"
        PROVE  \E i \in 1..(n + 1) : remote'[a][i] = "accepted"
    <3>1. PICK i \in 1..n : remote[a][i] = "accepted"
      BY <2>2 DEF ExecutionsFit, PostsFit
    <3> QED BY <1>4, <1>5, <3>1
  <2> QED BY <1>3, <1>5, <2>1, <2>2 DEF PostsFit
<1>15. \A b \in ApprovalId \ {a} : PostsFit(b)'
  BY <1>3, <1>5 DEF ExecutionsFit, PostsFit
<1> QED BY <1>6, <1>9, <1>10, <1>11, <1>12, <1>13, <1>14, <1>15, OwnStep

LEMMA RecordStep ==
  ASSUME ExecutionsFit, Rows!RowsFitTogether', NEW h \in Host, Record(h)
  PROVE  ExecutionsFit'
<1> USE DEF Record
<1>1. /\ Rows!RowsFitTogether /\ Rows!TypeOK
      /\ proposals \in [ProposalId -> Rows!Proposal]
      /\ receipts \in [ApprovalId -> Rows!Receipt \cup {None}]
  BY DEF ExecutionsFit, Rows!RowsFitTogether, Rows!TypeOK
<1>2. PICK a \in ApprovalId : a = Attempt(h)
  BY DEF ExecutionsFit, RunFits
<1>3. PICK v \in Rows!Verdict : v = run[h].verdict /\ VerdictFits(a, v)
  BY <1>2 DEF ExecutionsFit, SendFits, VerdictFits
<1> DEFINE n == Len(remote[a])
           receipt == [verdict |-> v, attemptedAt |-> run[h].attemptedAt]
<1>4. /\ approvals[a] # None
      /\ receipts' = [receipts EXCEPT ![a] = receipt]
      /\ proposals' = [proposals EXCEPT ![approvals[a].proposal] =
           [state |-> Store!ReceiptState(v), updatedAt |-> run[h].attemptedAt]]
      /\ Store!SettleLatest(a, v)
      /\ UNCHANGED <<now, approvals>>
  BY <1>2, <1>3 DEF Store!RecordReceipt, Store!DurableAction, Store!SetProposal, Store!ProposalOf
<1>5. Rows!SettleLatest(a, v)
  BY <1>4, SameStore
<1>6. /\ n \in Nat /\ Len(dispatches[a]) = n /\ remote[a] \in Seq(Post)
      /\ dispatches[a] \in Seq(Rows!Dispatch)
  BY <1>1, RowsTell, TypesNow DEF OuterTypes
<1>7. /\ n = 0 => dispatches' = dispatches
      /\ n > 0 =>
           /\ Len(dispatches'[a]) = n
           /\ dispatches'[a][n].settlement # None
           /\ dispatches'[a][n].settlement.verdict = v
           /\ \A i \in 1..(n - 1) : dispatches'[a][i] = dispatches[a][i]
      /\ \A b \in ApprovalId \ {a} : dispatches'[b] = dispatches[b]
  BY <1>1, <1>5, <1>6, StoreNames, Rows!SettleLatestEffect
<1>8. /\ receipts'[a] = receipt
      /\ \A b \in ApprovalId \ {a} : receipts'[b] = receipts[b]
      /\ \A b \in ApprovalId \ {a} : approvals[b] # None =>
           proposals'[approvals[b].proposal] = proposals[approvals[b].proposal]
  BY <1>1, <1>4, RowsTell, OwnProposal
<1>9. pc'[h] = "audit_result" /\ \A g \in Host \ {h} : pc'[g] = pc[g]
  BY TypesNow DEF OuterTypes, Goto
<1>10. \A b \in ApprovalId : Len(remote[b]) = Len(dispatches'[b])
  BY <1>6, <1>7, TypesNow DEF OuterTypes
<1>11. OuterTypes'
  BY <1>10, TypesNow DEF OuterTypes, Goto, Step
<1>12. RunFits(h)' /\ SendFits(h)'
  BY <1>2, <1>4, <1>9 DEF ExecutionsFit, RunFits, SendFits, Attempt, AfterConsumption,
     WithTime, WhileExecuting
<1>13. ApprovalAudit(a) \in audits
  BY <1>2 DEF ExecutionsFit, AuditsFit, AfterAudit, AfterConsumption
<1>14. AuditsFit(h)'
  BY <1>2, <1>9, <1>13 DEF AuditsFit, Attempt, BeforeResult
<1>15. ApprovalAuditedFirst'
  BY <1>4, <1>8, <1>13 DEF ExecutionsFit, ApprovalAuditedFirst, Store!StateOf, Store!ProposalOf
<1>16. PostsFit(a)'
  <2>1. ASSUME a \notin misjudged, NEW i \in 1..n, dispatches'[a][i].settlement # None,
               DidNothing(dispatches'[a][i].settlement.verdict)
        PROVE  remote[a][i] # "accepted"
    <3>1. CASE i = n
      BY <1>3, <1>6, <1>7, <2>1, <3>1 DEF VerdictFits
    <3>2. CASE i # n
      <4>1. i \in 1..(n - 1) /\ dispatches'[a][i] = dispatches[a][i]
        BY <1>6, <1>7, <3>2
      <4> QED BY <2>1, <4>1 DEF ExecutionsFit, PostsFit
    <3> QED BY <3>1, <3>2
  <2>2. ASSUME v = "succeeded"
        PROVE  \E i \in 1..n : remote[a][i] = "accepted"
    BY <1>3, <1>6, <2>2 DEF VerdictFits
  <2> QED BY <1>8, <2>1, <2>2 DEF PostsFit
<1>17. \A b \in ApprovalId \ {a} : PostsFit(b)'
  BY <1>7, <1>8 DEF ExecutionsFit, PostsFit
<1> QED BY <1>9, <1>11, <1>12, <1>14, <1>15, <1>16, <1>17, OwnStep

(***************************************************************************)
(* Steps outside an execution                                              *)
(***************************************************************************)

LEMMA StartExecutionStep ==
  ASSUME ExecutionsFit, Rows!RowsFitTogether', NEW h \in Host, NEW a \in ApprovalId,
         StartExecution(h, a)
  PROVE  ExecutionsFit'
<1> USE DEF StartExecution, storeVars
<1>1. /\ pc'[h] = "audit_prior" /\ lease' = h
      /\ \A g \in Host \ {h} : pc'[g] = pc[g] /\ pc[g] = "idle"
  BY StoreNames, TypesNow DEF OuterTypes, Goto, AcquireLease, ExecutionsFit, RunFits
<1>2. run'[h].approval = a /\ run' \in [Host -> Run]
  BY TypesNow DEF OuterTypes, Run, NoRun
<1>3. OuterTypes'
  BY <1>1, <1>2, TypesNow DEF OuterTypes, Goto, Step
<1>4. \A g \in Host : RunFits(g)' /\ AuditsFit(g)' /\ SendFits(g)'
  BY <1>1, <1>2 DEF RunFits, AuditsFit, SendFits, Attempt, AfterAudit, AfterConsumption,
     BeforeResult, WithTime, WhileExecuting
<1>5. (\A b \in ApprovalId : PostsFit(b)') /\ ApprovalAuditedFirst'
  BY PostsStand, AuditStands
<1> QED BY <1>3, <1>4, <1>5, TypeJoins DEF ExecutionsFit

LEMMA RequestStep ==
  ASSUME ExecutionsFit, Rows!RowsFitTogether', NEW a \in ApprovalId, NEW p \in ProposalId,
         RequestReplyApproval(a, p)
  PROVE  ExecutionsFit'
<1> USE DEF RequestReplyApproval, procVars
<1>1. /\ approvals[a] = None
      /\ \A b \in ApprovalId : approvals[b] # None => approvals[b].proposal # p
      /\ \E t : proposals' = [proposals EXCEPT ![p] = [state |-> "awaiting_approval", updatedAt |-> t]]
      /\ \E r : r.proposal = p /\ approvals' = [approvals EXCEPT ![a] = r]
      /\ UNCHANGED <<receipts, dispatches>>
  BY DEF Store!RequestApproval, Store!ProposalOf, Store!SetProposal, Store!attemptVars
<1>2. /\ proposals \in [ProposalId -> Rows!Proposal]
      /\ approvals \in [ApprovalId -> Rows!Approval \cup {None}]
      /\ Rows!RowsFitTogether
  BY DEF ExecutionsFit, Rows!RowsFitTogether, Rows!TypeOK
<1>3. /\ \A b \in ApprovalId : approvals[b] # None =>
           approvals'[b] = approvals[b]
           /\ proposals'[approvals[b].proposal] = proposals[approvals[b].proposal]
      /\ \A b \in ApprovalId \ {a} : approvals'[b] = approvals[b]
      /\ approvals'[a].proposal = p /\ proposals'[p].state = "awaiting_approval"
  BY <1>1, <1>2, RowsTell
<1>4. OuterTypes'
  BY <1>1, TypesNow DEF OuterTypes
<1>5. ASSUME NEW h \in Host PROVE RunFits(h)' /\ SendFits(h)'
  BY <1>1, <1>3 DEF ExecutionsFit, RunFits, SendFits, VerdictFits, Attempt, State, LatestOf
<1>6. ASSUME NEW h \in Host PROVE AuditsFit(h)'
  BY <1>1, <1>3 DEF ExecutionsFit, AuditsFit, RunFits, Attempt, BeforeResult, AfterConsumption,
     AfterAudit
<1>7. ApprovalAuditedFirst'
  BY <1>3 DEF ExecutionsFit, ApprovalAuditedFirst, Store!StateOf, Store!ProposalOf,
     Store!ExecutionStates
<1>8. \A b \in ApprovalId : PostsFit(b)'
  BY <1>1, PostsStand
<1> QED BY <1>4, <1>5, <1>6, <1>7, <1>8, TypeJoins DEF ExecutionsFit

LEMMA DecideStep ==
  ASSUME ExecutionsFit, Rows!RowsFitTogether', NEW a \in ApprovalId,
         NEW answer \in {"approved", "rejected", "cancelled"}, DecideReplyApproval(a, answer)
  PROVE  ExecutionsFit'
<1> USE DEF DecideReplyApproval, procVars
<1>1. PICK d : Store!DecideApproval(a, d, now)
  OBVIOUS
<1>2. /\ approvals[a] # None /\ approvals[a].decision = "pending"
      /\ \E t : proposals' = [proposals EXCEPT ![approvals[a].proposal] =
                  [state |-> Store!DecidedState(d), updatedAt |-> t]]
      /\ approvals' = [approvals EXCEPT ![a] = [@ EXCEPT !.decision = d, !.decidedAt = now]]
      /\ UNCHANGED <<receipts, dispatches>>
  BY <1>1 DEF Store!DecideApproval, Store!AwaitingDecision, Store!ProposalOf, Store!SetProposal,
     Store!attemptVars
<1>3. /\ proposals \in [ProposalId -> Rows!Proposal]
      /\ approvals \in [ApprovalId -> Rows!Approval \cup {None}]
      /\ Rows!RowsFitTogether /\ approvals[a] \in Rows!Approval
  BY <1>2 DEF ExecutionsFit, Rows!RowsFitTogether, Rows!TypeOK
<1>4. /\ \A b \in ApprovalId \ {a} : approvals'[b] = approvals[b]
      /\ \A b \in ApprovalId \ {a} : approvals[b] # None =>
           proposals'[approvals[b].proposal] = proposals[approvals[b].proposal]
      /\ approvals'[a].proposal = approvals[a].proposal
      /\ proposals'[approvals[a].proposal].state = Store!DecidedState(d)
  BY <1>2, <1>3, RowsTell, OwnProposal DEF Rows!Approval
<1>5. Store!DecidedState(d) \notin Store!ExecutionStates
  BY DEF Store!DecidedState, Store!ExecutionStates
<1>6. OuterTypes'
  BY <1>2, TypesNow DEF OuterTypes
<1>7. ASSUME NEW h \in Host, pc[h] # "idle"
      PROVE  Attempt(h) \in ApprovalId \ {a} /\ approvals[Attempt(h)] # None
  BY <1>2, <1>7 DEF ExecutionsFit, RunFits
<1>8. ASSUME NEW h \in Host PROVE RunFits(h)' /\ SendFits(h)'
  BY <1>2, <1>4, <1>7 DEF ExecutionsFit, RunFits, SendFits, VerdictFits, Attempt, State, LatestOf
<1>9. ASSUME NEW h \in Host PROVE AuditsFit(h)'
  BY <1>2, <1>4, <1>7 DEF ExecutionsFit, AuditsFit, Attempt, BeforeResult, AfterConsumption,
     AfterAudit
<1>10. ApprovalAuditedFirst'
  BY <1>4, <1>5 DEF ExecutionsFit, ApprovalAuditedFirst, Store!StateOf, Store!ProposalOf
<1>11. \A b \in ApprovalId : PostsFit(b)'
  BY <1>2, PostsStand
<1> QED BY <1>6, <1>8, <1>9, <1>10, <1>11, TypeJoins DEF ExecutionsFit

\* The clock moves no row and no process.
LEMMA TimeStep ==
  ASSUME ExecutionsFit, Rows!RowsFitTogether',
         UNCHANGED <<proposals, approvals, receipts, dispatches, audits, procVars, remote, misjudged>>
  PROVE  ExecutionsFit'
<1> USE DEF procVars
<1>1. OuterTypes'
  BY TypesNow DEF OuterTypes
<1>2. ASSUME NEW h \in Host PROVE RunFits(h)' /\ AuditsFit(h)' /\ SendFits(h)'
  BY DEF ExecutionsFit, RunFits, AuditsFit, SendFits, VerdictFits, Attempt, State, LatestOf
<1>3. (\A b \in ApprovalId : PostsFit(b)') /\ ApprovalAuditedFirst'
  BY PostsStand, AuditStands
<1> QED BY <1>1, <1>2, <1>3, TypeJoins DEF ExecutionsFit

(***************************************************************************)
(* The invariant holds, and what follows from it                           *)
(***************************************************************************)

LEMMA InitFits == Init => ExecutionsFit
<1> SUFFICES ASSUME Init PROVE ExecutionsFit
  OBVIOUS
<1>1. Rows!RowsFitTogether
  <2>1. Rows!Init
    BY DEF Init, Store!Init, Rows!Init
  <2> QED BY <2>1, Rows!InitRows, StoreNames
<1>2. OuterTypes
  BY DEF Init, Store!Init, OuterTypes, NoRun, Run, Step
<1>3. TypeOK
  BY <1>1, <1>2, TypeSplits DEF Rows!RowsFitTogether
<1>4. \A h \in Host : RunFits(h) /\ AuditsFit(h) /\ SendFits(h)
  BY DEF Init, RunFits, AuditsFit, SendFits, AfterAudit, AfterConsumption, BeforeResult
<1>5. (\A a \in ApprovalId : PostsFit(a)) /\ ApprovalAuditedFirst
  BY DEF Init, Store!Init, PostsFit, ApprovalAuditedFirst
<1> QED BY <1>1, <1>3, <1>4, <1>5 DEF ExecutionsFit

LEMMA ExecutionStep == ExecutionsFit /\ [Next]_vars => ExecutionsFit'
<1> SUFFICES ASSUME ExecutionsFit, [Next]_vars PROVE ExecutionsFit'
  OBVIOUS
<1>1. Rows!RowsFitTogether'
  BY RowsAfterStep
<1>2. CASE UNCHANGED vars
  BY <1>1, <1>2, TimeStep DEF vars, storeVars
<1>3. CASE Tick
  BY <1>1, <1>3, TimeStep DEF Tick
<1>4. ASSUME NEW a \in ApprovalId, NEW p \in ProposalId, RequestReplyApproval(a, p)
      PROVE  ExecutionsFit'
  BY <1>1, <1>4, RequestStep
<1>5. ASSUME NEW a \in ApprovalId, NEW d \in {"approved", "rejected", "cancelled"},
             DecideReplyApproval(a, d)
      PROVE  ExecutionsFit'
  BY <1>1, <1>5, DecideStep
<1>6. ASSUME NEW h \in Host, NEW a \in ApprovalId, StartExecution(h, a)
      PROVE  ExecutionsFit'
  BY <1>1, <1>6, StartExecutionStep
<1>7. ASSUME NEW h \in Host, Advance(h) \/ Stop(h) \/ StopAfterPost(h)
      PROVE  ExecutionsFit'
  <2>1. CASE AppendPriorAudit(h) \/ PriorAuditsDone(h) \/ Recover(h) \/ AppendApprovalAudit(h)
    BY <1>1, <2>1, AppendPriorAuditStep, PriorAuditsDoneStep, RecoverStep, AppendApprovalAuditStep
  <2>2. CASE BeginAgain(h) \/ Observe(h) \/ AppendResultAudit(h) \/ Stop(h) \/ StopAfterPost(h)
    BY <1>1, <2>2, BeginAgainStep, ObserveStep, AppendResultAuditStep, StopStep, StopAfterPostStep
  <2>3. CASE Prepare(h) \/ ReserveDenied(h) \/ SendNothing(h) \/ SendAccepted(h) \/ SendRefused(h)
    BY <1>1, <2>3, PrepareStep, ReserveDeniedStep, SendNothingStep, SendAcceptedStep, SendRefusedStep
  <2>4. CASE Consume(h) \/ Begin(h) \/ Reserve(h) \/ Record(h)
    BY <1>1, <2>4, ConsumeStep, BeginStep, ReserveStep, RecordStep
  <2> QED BY <1>7, <2>1, <2>2, <2>3, <2>4 DEF Advance
<1> QED BY <1>2, <1>3, <1>4, <1>5, <1>6, <1>7 DEF Next

\* In every reachable state the processes, the audit and the posts fit the rows
\* of the store, wherever earlier executions stopped.
THEOREM ExecutionsAlwaysFit == Spec => []ExecutionsFit
<1>1. Init => ExecutionsFit
  BY InitFits
<1>2. ExecutionsFit /\ [Next]_vars => ExecutionsFit'
  BY ExecutionStep
<1> QED BY <1>1, <1>2, PTL DEF Spec

\* Every state of an execution is well typed.
THEOREM TypeCorrect == Spec => []TypeOK
<1>1. ExecutionsFit => TypeOK
  BY DEF ExecutionsFit
<1> QED BY <1>1, ExecutionsAlwaysFit, PTL

\* An execution, its stops and restarts included, uses the store only through
\* the operations of the store's own specification.
THEOREM ExecutionsUseTheStore == Spec => Store!Spec
<1>1. Init => Store!Init
  BY DEF Init
<1>2. ExecutionsFit /\ [Next]_vars => [Store!Next]_Store!vars
  BY StoreStep
<1> QED BY <1>1, <1>2, ExecutionsAlwaysFit, PTL DEF Spec, Store!Spec

\* So every execution keeps the promise of ActionLifecycle: wherever processes
\* stop and whatever the audit and Feishu answer, a reply runs only when granted,
\* is never revived, and is sent again only when every earlier send is known to
\* have done nothing (beginExecution, reserveDispatch, recordReceipt).
THEOREM ExecutionsKeepLifecycle == Spec => Rows!KeepsLifecycle
<1>1. Store!Spec => Rows!Spec
  <2>1. Store!Init => Rows!Init
    BY DEF Store!Init, Rows!Init
  <2> QED BY <2>1, SameNext, PTL DEF Store!Spec, Rows!Spec
<1>2. Rows!BoundsAssumption /\ Rows!NoneAssumption
  BY StoreNames
<1>3. Rows!Spec => Rows!KeepsLifecycle
  BY <1>2, Rows!StoreKeepsLifecycle
<1> QED BY <1>1, <1>3, ExecutionsUseTheStore, PTL

\* A consumed approval is in the audit before anything runs under it.
THEOREM ApprovalIsAuditedFirst == Spec => []ApprovalAuditedFirst
<1>1. ExecutionsFit => ApprovalAuditedFirst
  BY DEF ExecutionsFit
<1> QED BY <1>1, ExecutionsAlwaysFit, PTL

\* When a further POST of one approval is reserved, Feishu accepted none of the
\* earlier ones, unless a failed preparation settled a dispatch it knew nothing
\* of.
THEOREM EarlierPostsDidNothing == Spec => []EarlierDispatchesDidNothing
<1>1. ExecutionsFit => EarlierDispatchesDidNothing
  <2> SUFFICES ASSUME ExecutionsFit, NEW a \in ApprovalId \ misjudged,
                      NEW i \in 1..(Len(remote[a]) - 1)
               PROVE  remote[a][i] # "accepted"
    BY DEF EarlierDispatchesDidNothing
  <2>1. Rows!RowsFitTogether /\ Len(remote[a]) = Len(dispatches[a])
        /\ Len(dispatches[a]) \in Nat
    BY RowsTell, TypesNow DEF ExecutionsFit, OuterTypes
  <2>2. dispatches[a][i].settlement # None
        /\ dispatches[a][i].settlement.verdict = "retry_same_key"
    BY <2>1, RowsTell
  <2>3. i \in 1..Len(remote[a])
    BY <2>1
  <2> QED BY <2>2, <2>3 DEF ExecutionsFit, PostsFit, DidNothing
<1> QED BY <1>1, ExecutionsAlwaysFit, PTL

\* A verdict of success or of definite failure is true of what Feishu did with the
\* POSTs, those of executions that stopped half-way included, but for the dispatch
\* that a failed preparation misjudges (recordReceipt).  An uncertain verdict
\* claims nothing.
THEOREM VerdictsAreTrue == Spec => []VerdictIsTrue
<1>1. ExecutionsFit => VerdictIsTrue
  <2> SUFFICES ASSUME ExecutionsFit, NEW a \in ApprovalId,
                      receipts[a] # None, Store!StateOf(a) # "executing"
               PROVE  CASE receipts[a].verdict = "succeeded" ->
                             \E i \in 1..Len(remote[a]) : remote[a][i] = "accepted"
                        [] receipts[a].verdict = "uncertain" -> TRUE
                        [] OTHER -> a \in misjudged
                                    \/ \A i \in 1..Len(remote[a]) : remote[a][i] # "accepted"
    BY DEF VerdictIsTrue
  <2>1. Rows!RowsFitTogether /\ Len(remote[a]) = Len(dispatches[a])
        /\ Len(dispatches[a]) \in Nat /\ receipts[a].verdict \in Rows!Verdict
    BY RowsTell, TypesNow DEF ExecutionsFit, OuterTypes, Rows!RowsFitTogether, Rows!TypeOK,
       Rows!Receipt
  <2>2. CASE receipts[a].verdict \in {"succeeded", "uncertain"}
    BY <2>2 DEF ExecutionsFit, PostsFit
  <2>3. ASSUME DidNothing(receipts[a].verdict), a \notin misjudged,
               NEW i \in 1..Len(remote[a])
        PROVE  remote[a][i] # "accepted"
    <3>1. CASE i = Len(remote[a])
      <4>1. dispatches[a] # <<>>
        BY <2>1, <3>1
      <4>2. LatestOf(a).settlement # None
        BY <2>1, <4>1 DEF Rows!RowsFitTogether, Rows!SettlementAgreesWithReceipt, Rows!Latest,
           LatestOf, Rows!StateOf, Rows!ProposalOf, Store!StateOf, Store!ProposalOf
      <4>3. LatestOf(a).settlement.verdict = receipts[a].verdict
        BY <2>1, <4>1, <4>2, RowsTell
      <4> QED BY <2>1, <2>3, <3>1, <4>2, <4>3 DEF ExecutionsFit, PostsFit, LatestOf
    <3>2. CASE i # Len(remote[a])
      <4>1. i \in 1..(Len(dispatches[a]) - 1)
        BY <2>1, <3>2
      <4>2. dispatches[a][i].settlement # None
            /\ dispatches[a][i].settlement.verdict = "retry_same_key"
        BY <2>1, <4>1, RowsTell
      <4> QED BY <2>3, <4>2 DEF ExecutionsFit, PostsFit, DidNothing
    <3> QED BY <3>1, <3>2
  <2> QED BY <2>1, <2>2, <2>3 DEF Rows!Verdict, DidNothing
<1> QED BY <1>1, ExecutionsAlwaysFit, PTL

\* A result is in the audit before a later one replaces it in its row.
THEOREM ResultsAreAuditedFirst == Spec => AuditBeforeReplacement
<1> DEFINE Audited == \A a \in ApprovalId :
             receipts[a] # None /\ receipts'[a] # receipts[a] =>
               ExecutionAudit(a, receipts[a]) \in audits
<1>1. ExecutionsFit /\ [Next]_vars => [Audited]_vars
  <2> SUFFICES ASSUME ExecutionsFit, Next, NEW a \in ApprovalId,
                      receipts[a] # None, receipts'[a] # receipts[a]
               PROVE  ExecutionAudit(a, receipts[a]) \in audits
    OBVIOUS
  <2>1. PICK h \in Host : Record(h)
    BY DEF Next, Tick, RequestReplyApproval, DecideReplyApproval, StartExecution, Stop,
       StopAfterPost, Advance, AppendPriorAudit, PriorAuditsDone, Consume, Recover,
       AppendApprovalAudit, Begin, BeginAgain, Observe, Prepare, Reserve, ReserveDenied,
       SendNothing, SendAccepted, SendRefused, AppendResultAudit, Return, storeVars,
       Store!RequestApproval, Store!DecideApproval, Store!ConsumeApproval, Store!BeginExecution,
       Store!ReserveDispatch, Store!attemptVars
  <2>2. a = Attempt(h)
    BY <2>1 DEF Record, Store!RecordReceipt, ExecutionsFit, TypeOK, Store!TypeOK
  <2> QED BY <2>1, <2>2 DEF Record, ExecutionsFit, AuditsFit, BeforeResult, AfterConsumption
<1> QED BY <1>1, ExecutionsAlwaysFit, PTL DEF Spec, AuditBeforeReplacement

=============================================================================
