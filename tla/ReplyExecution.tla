--------------------------- MODULE ReplyExecution ---------------------------
(***************************************************************************)
(* Execution of one approved Feishu reply: the approval and execution      *)
(* controllers of bundle-workbench, the WorkHubActionExecutionHost, the    *)
(* FeishuReplyExecutor with its send-only adapter, and the store of        *)
(* ActionState, under the loopback runtime lease.                          *)
(*                                                                         *)
(* Each Host is a process of the desktop application.  A step is one       *)
(* durable transaction or one awaited call of the execution; a process may *)
(* stop between any two of them (a crash, a cancellation, a failed write), *)
(* losing what it had in memory and the lease, and may execute the same    *)
(* approval again later.  Feishu accepts or refuses a POST independently   *)
(* of the answer the process sees.                                         *)
(***************************************************************************)
EXTENDS Sequences, ReplySend

CONSTANTS
  Host,             \* application processes
  ProposalId, ApprovalId, None, MaxApprovalTtl, MaxTime, MaxDispatches,
  ReplyApprovalTtl  \* WORKBENCH_REPLY_APPROVAL_TTL_MS

ASSUME ReplyBoundsAssumption == ReplyApprovalTtl \in 1..MaxApprovalTtl

VARIABLES
  now, proposals, approvals, receipts, dispatches,  \* the store
  audits,   \* appended audit records; an id is a digest of what is listed
  lease,    \* the process that owns the loopback port, or None
  pc,       \* where each process is in an execution
  run,      \* its local variables: approval, attemptedAt, verdict
  remote,   \* per attempt and ordinal, what happened to the POST
  misjudged \* attempts whose open dispatch a failed preparation may settle; this
            \* is recorded for the properties only

Store == INSTANCE ActionState

\* The store's bounds and absent value; a process is not absent.
ASSUME StoreAssumption ==
  /\ MaxTime \in Nat /\ MaxApprovalTtl \in Nat /\ MaxDispatches \in Nat
  /\ None \notin Store!Time /\ None \notin Store!Approval
  /\ None \notin Store!Receipt /\ None \notin Store!Settlement
  /\ None \notin Host

storeVars == <<now, proposals, approvals, receipts, dispatches>>
procVars == <<lease, pc, run>>
vars == <<storeVars, audits, procVars, remote, misjudged>>

Step ==
  {"idle", "audit_prior", "authorise", "audit_approval", "begin", "observe",
   "prepare", "reserve", "send", "record", "audit_result"}

\* What became of a reserved POST: it never left, or Feishu took or refused it.
Post == {"unsent", "accepted", "refused"}

Run == [approval : ApprovalId \cup {None},
        attemptedAt : 0..MaxTime \cup {None},
        verdict : Store!Verdict \cup {None}]

NoRun == [approval |-> None, attemptedAt |-> None, verdict |-> None]

ApprovalAudit(a) == [kind |-> "approval", approval |-> a]

\* The audit id digests the whole receipt.
ExecutionAudit(a, receipt) ==
  [kind |-> "execution", approval |-> a, receipt |-> receipt]

TypeOK ==
  /\ Store!TypeOK
  /\ \A e \in audits : e.kind \in {"approval", "execution"} /\ e.approval \in ApprovalId
  /\ lease \in Host \cup {None}
  /\ pc \in [Host -> Step]
  /\ run \in [Host -> Run]
  /\ remote \in [ApprovalId -> Seq(Post)]
  /\ \A a \in ApprovalId : Len(remote[a]) = Len(dispatches[a])
  /\ misjudged \subseteq ApprovalId

Init ==
  /\ Store!Init
  /\ audits = {}
  /\ lease = None
  /\ pc = [h \in Host |-> "idle"]
  /\ run = [h \in Host |-> NoRun]
  /\ remote = [a \in ApprovalId |-> <<>>]
  /\ misjudged = {}

Goto(h, step) == pc' = [pc EXCEPT ![h] = step]

\* Mutated form: an execution that ends keeps listening on the port.
KeepLease(h) == UNCHANGED lease

ReleaseLease(h) == lease' = None

EndRun(h) ==
  /\ Goto(h, "idle")
  /\ run' = [run EXCEPT ![h] = NoRun]
  /\ ReleaseLease(h)

(***************************************************************************)
(* The approval controller: request, then decide, with the clock's time.   *)
(***************************************************************************)

RequestReplyApproval(a, p) ==
  /\ now + ReplyApprovalTtl <= MaxTime
  /\ Store!RequestApproval(a, p, now, now + ReplyApprovalTtl)
  /\ UNCHANGED <<audits, procVars, remote, misjudged>>

\* Past the expiry the controller decides "expired" whatever was asked.
DecideReplyApproval(a, answer) ==
  /\ approvals[a] # None
  /\ LET decision == IF now > approvals[a].expiresAt THEN "expired" ELSE answer
     IN Store!DecideApproval(a, decision, now)
  /\ UNCHANGED <<audits, procVars, remote, misjudged>>

(***************************************************************************)
(* One execution                                                           *)
(***************************************************************************)

\* Only one process can listen on the lease port.
AcquireLease(h) == lease = None /\ lease' = h

\* The execution controller looks for an approved approval before the Host
\* operation asks for the lease.
StartExecution(h, a) ==
  /\ pc[h] = "idle"
  /\ approvals[a] # None /\ approvals[a].decision = "approved"
  /\ AcquireLease(h)
  /\ Goto(h, "audit_prior")
  /\ run' = [run EXCEPT ![h] = [NoRun EXCEPT !.approval = a]]
  /\ UNCHANGED <<storeVars, audits, remote, misjudged>>

Attempt(h) == run[h].approval

\* Mutated form: an earlier receipt is not audited before going on.
PriorAuditsWithoutReceipt(a) ==
  IF approvals[a].consumedAt = None THEN {} ELSE {ApprovalAudit(a)}

\* Mutated form: the consumption is audited only by the run that consumed.
PriorAuditsOfReceiptOnly(a) ==
  IF receipts[a] = None THEN {} ELSE {ExecutionAudit(a, receipts[a])}

\* What a new execution must make durable about the earlier ones.
PriorAudits(a) ==
  IF approvals[a].consumedAt = None
    THEN {}
    ELSE {ApprovalAudit(a)} \cup
         (IF receipts[a] = None THEN {} ELSE {ExecutionAudit(a, receipts[a])})

\* One append per step, in the order approval, receipt.
AppendPriorAudit(h) ==
  /\ pc[h] = "audit_prior"
  /\ LET a == Attempt(h)
         owed == PriorAudits(a) \ audits
     IN /\ owed # {}
        /\ \E e \in owed :
             /\ ApprovalAudit(a) \in owed => e = ApprovalAudit(a)
             /\ audits' = audits \cup {e}
  /\ UNCHANGED <<storeVars, procVars, remote, misjudged>>

\* A terminal receipt is returned as recovered.
PriorAuditsDone(h) ==
  /\ pc[h] = "audit_prior"
  /\ PriorAudits(Attempt(h)) \subseteq audits
  /\ IF Store!HasReceipt(Attempt(h), {"succeeded", "do_not_retry"})
       THEN EndRun(h)
       ELSE Goto(h, "authorise") /\ UNCHANGED <<lease, run>>
  /\ UNCHANGED <<storeVars, audits, remote, misjudged>>

Consume(h) ==
  /\ pc[h] = "authorise"
  /\ Store!ConsumeApproval(Attempt(h), now)
  /\ Goto(h, "audit_approval")
  /\ UNCHANGED <<audits, lease, run, remote, misjudged>>

\* Already consumed: consume again with the stored time, or recover.
Recover(h) ==
  LET a == Attempt(h) IN
  /\ pc[h] = "authorise"
  /\ approvals[a].consumedAt # None
  /\ IF Store!StateOf(a) = "approved"
       THEN Store!ConsumableAt(a, approvals[a].consumedAt)
       ELSE /\ Store!StateOf(a) \in {"executing", "uncertain", "failed"}
            /\ receipts[a] # None => Store!Recoverable(receipts[a].verdict)
  /\ Goto(h, "begin")
  /\ UNCHANGED <<storeVars, audits, lease, run, remote, misjudged>>

AppendApprovalAudit(h) ==
  /\ pc[h] = "audit_approval"
  /\ audits' = audits \cup {ApprovalAudit(Attempt(h))}
  /\ Goto(h, "begin")
  /\ UNCHANGED <<storeVars, lease, run, remote, misjudged>>

Begin(h) ==
  /\ pc[h] = "begin"
  /\ Store!BeginExecution(Attempt(h), now)
  /\ Goto(h, "observe")
  /\ UNCHANGED <<audits, lease, run, remote, misjudged>>

\* The proposal is executing already: an earlier process stopped there.
BeginAgain(h) ==
  /\ pc[h] = "begin"
  /\ Store!StateOf(Attempt(h)) = "executing"
  /\ Store!StartableAt(Attempt(h), now)
  /\ Goto(h, "observe")
  /\ UNCHANGED <<storeVars, audits, lease, run, remote, misjudged>>

\* The executor's own clock reading, inside the approval's lifetime.
Observe(h) ==
  /\ pc[h] = "observe"
  /\ approvals[Attempt(h)].decidedAt <= now
  /\ now <= approvals[Attempt(h)].expiresAt
  /\ run' = [run EXCEPT ![h].attemptedAt = now]
  /\ Goto(h, "prepare")
  /\ UNCHANGED <<storeVars, audits, lease, remote, misjudged>>

\* The executor returns a receipt with this verdict.
Return(h, verdict) ==
  /\ run' = [run EXCEPT ![h].verdict = verdict]
  /\ Goto(h, "record")
  /\ UNCHANGED <<storeVars, audits, lease>>

\* The latest dispatch is not known to have done nothing.
MayHaveSent(a) ==
  /\ dispatches[a] # <<>>
  /\ Store!Latest(a).settlement = None \/ Store!Latest(a).settlement.verdict # "retry_same_key"

\* prepare() refreshes the User credential under the lease before anything
\* is reserved.
Prepare(h) ==
  /\ pc[h] = "prepare"
  /\ \/ /\ Goto(h, "reserve")
        /\ UNCHANGED <<storeVars, audits, lease, run>>
        /\ UNCHANGED misjudged
     \/ /\ \E v \in PreparationVerdicts : Return(h, v)
        /\ misjudged' = misjudged \cup {a \in {Attempt(h)} : MayHaveSent(a)}
  /\ UNCHANGED remote

Reserve(h) ==
  /\ pc[h] = "reserve"
  /\ Store!ReserveDispatch(Attempt(h), run[h].attemptedAt)
  /\ remote' = [remote EXCEPT ![Attempt(h)] = Append(@, "unsent")]
  /\ Goto(h, "send")
  /\ UNCHANGED <<audits, lease, run, misjudged>>

VerdictWithoutSend == "uncertain"

\* The reservation is blocked by the latest dispatch, refused because the
\* approval expired meanwhile, or its transaction fails: nothing is sent.
ReserveDenied(h) ==
  /\ pc[h] = "reserve"
  /\ Return(h, VerdictWithoutSend)
  /\ UNCHANGED <<remote, misjudged>>

Posted(h, post) ==
  remote' = [remote EXCEPT ![Attempt(h)][Len(remote[Attempt(h)])] = post]

\* Scope, lease or credential checks fail before the POST.
SendNothing(h) ==
  /\ pc[h] = "send"
  /\ \E v \in VerdictsBeforePost : Return(h, v)
  /\ UNCHANGED <<remote, misjudged>>

SendAccepted(h) ==
  /\ pc[h] = "send"
  /\ Posted(h, "accepted")
  /\ \E v \in VerdictsOfAccepted : Return(h, v)
  /\ UNCHANGED misjudged

SendRefused(h) ==
  /\ pc[h] = "send"
  /\ Posted(h, "refused")
  /\ \E v \in VerdictsOfRefused : Return(h, v)
  /\ UNCHANGED misjudged

Record(h) ==
  /\ pc[h] = "record"
  /\ Store!RecordReceipt(Attempt(h),
       [verdict |-> run[h].verdict, attemptedAt |-> run[h].attemptedAt])
  /\ Goto(h, "audit_result")
  /\ UNCHANGED <<audits, lease, run, remote, misjudged>>

AppendResultAudit(h) ==
  /\ pc[h] = "audit_result"
  /\ audits' = audits \cup {ExecutionAudit(Attempt(h), receipts[Attempt(h)])}
  /\ EndRun(h)
  /\ UNCHANGED <<storeVars, remote, misjudged>>

\* A crash, a cancellation or an error ends the execution where it is.
Stop(h) ==
  /\ pc[h] # "idle"
  /\ EndRun(h)
  /\ UNCHANGED <<storeVars, audits, remote, misjudged>>

\* The process stops after the POST left and before its answer was recorded.
StopAfterPost(h) ==
  /\ pc[h] = "send"
  /\ \E post \in {"accepted", "refused"} : Posted(h, post)
  /\ EndRun(h)
  /\ UNCHANGED <<storeVars, audits, misjudged>>

Tick ==
  /\ now < MaxTime
  /\ now' = now + 1
  /\ UNCHANGED <<proposals, approvals, receipts, dispatches, audits, procVars, remote, misjudged>>

Advance(h) ==
  \/ AppendPriorAudit(h) \/ PriorAuditsDone(h)
  \/ Consume(h) \/ Recover(h) \/ AppendApprovalAudit(h)
  \/ Begin(h) \/ BeginAgain(h) \/ Observe(h)
  \/ Prepare(h) \/ Reserve(h) \/ ReserveDenied(h)
  \/ SendNothing(h) \/ SendAccepted(h) \/ SendRefused(h)
  \/ Record(h) \/ AppendResultAudit(h)

Next ==
  \/ Tick
  \/ \E a \in ApprovalId, p \in ProposalId : RequestReplyApproval(a, p)
  \/ \E a \in ApprovalId, d \in {"approved", "rejected", "cancelled"} :
       DecideReplyApproval(a, d)
  \/ \E h \in Host : (\E a \in ApprovalId : StartExecution(h, a))
  \/ \E h \in Host : Advance(h) \/ Stop(h) \/ StopAfterPost(h)

Spec == Init /\ [][Next]_vars

\* Every awaited call ends: HTTP and Keychain calls have timeouts, the rest is
\* local, and withLease() releases the port however the operation ends.
Fairness == \A h \in Host : WF_vars(Advance(h) \/ Stop(h))

FairSpec == Spec /\ Fairness

(***************************************************************************)
(* Properties                                                              *)
(***************************************************************************)

\* "If a process stopped after reservation but before the remote result and
\* receipt were durable, a subsequent execution cannot reserve another send."
\* (docs/ACTION_DISPATCH_JOURNAL.md:45)
NoResendAfterStop ==
  \A a \in ApprovalId : \A i \in 1..(Len(remote[a]) - 1) :
    remote[a][i] # "accepted"

\* Whenever a further POST is reserved, none of the earlier ones was accepted:
\* one approval never lets Feishu accept the reply twice, unless a failed
\* preparation settled a dispatch it knew nothing of.
EarlierDispatchesDidNothing ==
  \A a \in ApprovalId \ misjudged : \A i \in 1..(Len(remote[a]) - 1) :
    remote[a][i] # "accepted"

\* Once an execution has ended with a verdict, the verdict is true of the
\* outside world: success means Feishu accepted a POST, a definite failure
\* means it accepted none, not even one that an earlier process sent before it
\* stopped, with the same exception.  (While executing, the row still shows the
\* previous result.)
VerdictIsTrue ==
  \A a \in ApprovalId :
    receipts[a] # None /\ Store!StateOf(a) # "executing" =>
      CASE receipts[a].verdict = "succeeded" ->
             \E i \in 1..Len(remote[a]) : remote[a][i] = "accepted"
        [] receipts[a].verdict = "uncertain" -> TRUE
        [] OTHER -> a \in misjudged \/ \A i \in 1..Len(remote[a]) : remote[a][i] # "accepted"

\* The use of an approval is in the audit before anything runs under it, also
\* when the process stopped between consuming and auditing.
ApprovalAuditedFirst ==
  \A a \in ApprovalId :
    approvals[a] # None /\ Store!StateOf(a) \in Store!ExecutionStates =>
      ApprovalAudit(a) \in audits

\* The receipt row is a projection that later results overwrite; each result
\* is in the audit before it disappears from the row.
AuditBeforeReplacement ==
  [][\A a \in ApprovalId :
       receipts[a] # None /\ receipts'[a] # receipts[a] =>
         ExecutionAudit(a, receipts[a]) \in audits]_vars

\* An execution never holds the lease for good, so polling and the next
\* execution get it.
LeaseIsReleased == \A h \in Host : lease = h ~> lease # h
=============================================================================
