------------------------------ MODULE ThreadWork ------------------------------
(***************************************************************************)
(* The work on one conversation, from the message to the reply: a model    *)
(* draft is generated in a Harness session and linked, the user edits it   *)
(* and submits it for review, a reply to the latest message is proposed,   *)
(* approved and executed; while new messages arrive, the user acts on the  *)
(* work item, the thread is deleted, and the application stops and starts. *)
(*                                                                         *)
(* The controllers of bundle-workbench read and write the store without    *)
(* waiting, once they have read the identity configuration, so that a      *)
(* request is one step; only the model run and the execution wait in       *)
(* between.  One of each is in progress at most: a second run of the same  *)
(* session is refused, and a second execution does not get the lease.      *)
(***************************************************************************)
EXTENDS ThreadStore

CONSTANTS
  ReplyApprovalTtl, \* WORKBENCH_REPLY_APPROVAL_TTL_MS
  Answers,          \* bound: what the user may answer to an approval request
  Outcomes          \* bound: what an execution may come to

ASSUME TtlAssumption ==
  /\ ReplyApprovalTtl \in 1..MaxApprovalTtl
  /\ Answers \subseteq {"approved", "rejected", "cancelled"}
  /\ Outcomes \subseteq Actions!Verdict

VARIABLES
  session,    \* the Harness session of the work item, or None
  generating, \* the model-draft request in progress, or None
  executing   \* the execution in progress, or None

calls == <<generating, executing>>
vars == <<store, session, calls>>

\* The model context: the visible fields of the work item and its time.
PromptType == [messages : 1..MaxMessages, done : BOOLEAN, updatedAt : Time]
Prompt == [messages |-> thread.messages, done |-> ShownDone, updatedAt |-> WorkItemUpdatedAt]

\* A session keeps the prompt and the preset, and the answer of its one turn;
\* "partial" is a turn that did not complete.
Session == [prompt : PromptType, persona : Persona, state : {"partial", "completed"},
            text : Text, at : Time]

Generation == [step : {"asked", "running", "done"}, prompt : PromptType,
               persona : Persona, recoverOnly : BOOLEAN]

Execution == [step : {"resolved", "consumed", "begun", "reserved", "answered"},
              proposal : ProposalId, attemptedAt : Time \cup {None},
              verdict : Actions!Verdict \cup {None}]

ASSUME CallsNoneAssumption ==
  None \notin Session \cup Generation \cup Execution \cup Actions!Verdict

TypeOK ==
  /\ StoreTypeOK
  /\ session \in Session \cup {None}
  /\ generating \in Generation \cup {None}
  /\ executing \in Execution \cup {None}

Init ==
  /\ StoreInit
  /\ session = None /\ generating = None /\ executing = None

(***************************************************************************)
(* Messages and the user                                                   *)
(***************************************************************************)

Tick ==
  /\ now < MaxTime /\ now' = now + 1
  /\ UNCHANGED <<thread, drafts, created, proposals, approvals, receipts, dispatches,
                 audits, deleted, session, calls>>

ReceiveMessage ==
  /\ PutWorkItemProjection(now)
  /\ UNCHANGED <<drafts, created, actionRows, audits, deleted, session, calls>>

Act ==
  /\ \/ ApplyWorkItemUserAction("doneAt", now, now)
     \/ \E p \in Persona \cup {None} : ApplyWorkItemUserAction("persona", p, now)
  /\ UNCHANGED <<drafts, created, actionRows, audits, deleted, session, calls>>

\* The user confirms some time of the thread; calls in progress go on.
ConfirmDeletion ==
  /\ \E at \in Time : DeleteThread(at)
  /\ UNCHANGED <<session, calls>>

(***************************************************************************)
(* The model draft                                                         *)
(***************************************************************************)

\* The controller's and the operation's checks before the runner is asked.
RequestModelDraft ==
  /\ generating = None
  /\ thread # None /\ thread.persona # None
  /\ drafts # <<>> => drafts[1].persona = thread.persona
  /\ generating' = [step |-> "asked", prompt |-> Prompt, persona |-> thread.persona,
                    recoverOnly |-> drafts # <<>>]
  /\ UNCHANGED <<store, session, executing>>

Asked == generating # None /\ generating.step = "asked"

\* Mutated form: a session whose turn did not complete is started over.
NoUsableSession == session # None => session.state = "partial"

NoSession == session = None

\* A new agent; its session is durable from the first message on.
RunNewSession ==
  /\ Asked /\ NoSession /\ ~generating.recoverOnly
  /\ \E text \in Text :
       session' = [prompt |-> generating.prompt, persona |-> generating.persona,
                   state |-> "partial", text |-> text, at |-> now]
  /\ generating' = [generating EXCEPT !.step = "running"]
  /\ UNCHANGED <<store, executing>>

\* The agent is idle after one completed turn, and the session is flushed.
CompleteSession ==
  /\ generating # None /\ generating.step = "running"
  /\ session' = [session EXCEPT !.state = "completed", !.at = now]
  /\ generating' = [generating EXCEPT !.step = "done"]
  /\ UNCHANGED <<store, executing>>

\* Mutated form: the preset of the stored session is not compared.
SamePrompt(prompt, persona) ==
  session # None /\ session.state = "completed" /\ session.prompt = prompt

\* What a stored session must be for its result to be taken.
SessionMatches(prompt, persona) ==
  /\ session # None /\ session.state = "completed"
  /\ session.prompt = prompt /\ session.persona = persona

RecoverSession ==
  /\ Asked
  /\ SessionMatches(generating.prompt, generating.persona)
  /\ generating' = [generating EXCEPT !.step = "done"]
  /\ UNCHANGED <<store, session, executing>>

\* The draft that the result of the session makes, dated by its completion.
ModelDraft ==
  [state |-> "editing", text |-> session.text, persona |-> generating.persona,
   updatedAt |-> session.at]

ModelRunAudit == [action |-> "model_run", revision |-> 1, source |-> None]

\* A draft that is there already is the one of this session: only its audit
\* may be missing.
LinkDraft ==
  /\ generating # None /\ generating.step = "done"
  /\ \/ drafts = <<>> /\ CreateDraft(ModelDraft)
     \/ drafts # <<>> /\ UNCHANGED drafts
  /\ AuditAfterwards(ModelRunAudit)
  /\ generating' = None
  /\ UNCHANGED <<thread, created, actionRows, deleted, session, executing>>

\* A conflict with the stored session or draft, a failed turn, a cancellation.
GenerationFails ==
  /\ generating # None
  /\ generating' = None
  /\ UNCHANGED <<store, session, executing>>

(***************************************************************************)
(* Editing                                                                 *)
(***************************************************************************)

\* What every edit requires of its source revision.
Editable(revision) ==
  /\ thread # None /\ thread.persona # None
  /\ revision \in 1..LatestRevision
  /\ drafts[revision].persona = thread.persona

UserAudit(action, revision, source) ==
  [action |-> action, revision |-> revision, source |-> source]

TargetState(submit) == IF submit THEN "ready_for_review" ELSE "editing"
ActionOf(submit) == IF submit THEN "ready_for_review" ELSE "edited"

EditRequest(revision, text, submit) ==
  /\ Editable(revision)
  /\ UNCHANGED <<thread, created, actionRows, deleted, session, calls>>

\* Mutated form: the state of the next revision is not compared.
RepeatEditAnyState(revision, text, submit) ==
  /\ EditRequest(revision, text, submit)
  /\ revision < LatestRevision
  /\ drafts[revision + 1].text = text
  /\ UNCHANGED drafts
  /\ AuditAfterwards(UserAudit(ActionOf(submit), revision + 1, revision))

\* The next revision is there: the same request again repairs its audit.
RepeatEdit(revision, text, submit) ==
  /\ EditRequest(revision, text, submit)
  /\ revision < LatestRevision
  /\ drafts[revision + 1].persona = thread.persona
  /\ drafts[revision + 1].state = TargetState(submit)
  /\ drafts[revision + 1].text = text
  /\ UNCHANGED drafts
  /\ AuditAfterwards(UserAudit(ActionOf(submit), revision + 1, revision))

\* The text is the same: at most the state changes.
SubmitUnchanged(revision, text, submit) ==
  /\ EditRequest(revision, text, submit)
  /\ revision = LatestRevision /\ LatestDraft.text = text /\ submit
  /\ \/ TransitionDraft(revision, "editing", "ready_for_review", now)
     \/ LatestDraft.state = "ready_for_review" /\ UNCHANGED drafts
  /\ AuditAfterwards(UserAudit("ready_for_review", revision, revision))

EditText(revision, text, submit) ==
  /\ EditRequest(revision, text, submit)
  /\ revision = LatestRevision /\ LatestDraft.text # text
  /\ ReviseDraft(revision, [state |-> TargetState(submit), text |-> text,
                            persona |-> thread.persona, updatedAt |-> now])
  /\ AuditAfterwards(UserAudit(ActionOf(submit), revision + 1, revision))

(***************************************************************************)
(* Proposal and approval                                                   *)
(***************************************************************************)

\* The proposal that a revision of the draft resolves to: it is under review,
\* and the target is the latest message of the thread.
Current(p) ==
  /\ thread # None /\ p.revision <= LatestRevision
  /\ drafts[p.revision].state = "ready_for_review"
  /\ p.target = thread.messages

Propose(p) ==
  /\ Current(p)
  /\ CreateActionProposal(p, now)
  /\ UNCHANGED <<thread, drafts, now, approvals, receipts, dispatches, audits, deleted,
                 session, calls>>

\* Mutated form: a proposal resolves for as long as it is stored.
ResolvesAsStored(p) == thread # None /\ p \in created

Resolves(p) == p \in created /\ Current(p)

RequestApproval(p) ==
  /\ Resolves(p)
  /\ now + ReplyApprovalTtl <= MaxTime
  /\ Actions!RequestApproval(p, p, now, now + ReplyApprovalTtl)
  /\ UNCHANGED <<thread, drafts, created, audits, deleted, session, calls>>

\* A decision after the expiry is recorded as expired whatever it was.
DecideApproval(p, answer) ==
  /\ Resolves(p) /\ approvals[p] # None
  /\ LET decision == IF now > approvals[p].expiresAt THEN "expired" ELSE answer
     IN  Actions!DecideApproval(p, decision, now)
  /\ UNCHANGED <<thread, drafts, created, audits, deleted, session, calls>>

(***************************************************************************)
(* Execution                                                               *)
(***************************************************************************)

\* The controller resolves the proposal and its approval, and then waits for
\* the configuration and the lease.
StartExecution(p) ==
  /\ executing = None
  /\ Resolves(p)
  /\ approvals[p] # None /\ approvals[p].decision = "approved"
  /\ executing' = [step |-> "resolved", proposal |-> p, attemptedAt |-> None, verdict |-> None]
  /\ UNCHANGED <<store, session, generating>>

AtStep(step) == executing # None /\ executing.step = step
Executed == executing.proposal

Goto(step) == executing' = [executing EXCEPT !.step = step]

\* A terminal receipt is returned as it is; a consumed approval stays so.
Consume ==
  /\ AtStep("resolved") /\ approvals[Executed] # None
  /\ ~Actions!HasReceipt(Executed, {"succeeded", "do_not_retry"})
  /\ IF approvals[Executed].consumedAt = None
       THEN Actions!ConsumeApproval(Executed, now)
       ELSE UNCHANGED actionRows
  /\ Goto("consumed")
  /\ UNCHANGED <<thread, drafts, created, audits, deleted, session, generating>>

Begin ==
  /\ AtStep("consumed") /\ approvals[Executed] # None
  /\ IF Actions!StateOf(Executed) = "executing"
       THEN Actions!StartableAt(Executed, now) /\ UNCHANGED actionRows
       ELSE Actions!BeginExecution(Executed, now)
  /\ executing' = [executing EXCEPT !.step = "begun", !.attemptedAt = now]
  /\ UNCHANGED <<thread, drafts, created, audits, deleted, session, generating>>

Reserve ==
  /\ AtStep("begun") /\ approvals[Executed] # None
  /\ Actions!ReserveDispatch(Executed, executing.attemptedAt)
  /\ Goto("reserved")
  /\ UNCHANGED <<thread, drafts, created, audits, deleted, session, generating>>

Answer(verdicts) ==
  \E v \in verdicts \cap Outcomes : executing' = [executing EXCEPT !.step = "answered", !.verdict = v]

\* Nothing is sent: a preparation fails, or the reservation is refused.
NotSent ==
  /\ AtStep("begun")
  /\ \/ Answer({"retry_same_key", "do_not_retry"})
     \/ approvals[Executed] # None /\ Actions!DurableAction(Executed)
        /\ ~Actions!MayReserve(Executed) /\ Answer({"uncertain"})
  /\ UNCHANGED <<store, session, generating>>

\* Feishu accepts or refuses the POST, and the answer may be lost.
Post ==
  /\ AtStep("reserved")
  /\ Answer(Actions!Verdict)
  /\ UNCHANGED <<store, session, generating>>

Record ==
  /\ AtStep("answered") /\ approvals[Executed] # None
  /\ Actions!RecordReceipt(Executed,
       [verdict |-> executing.verdict, attemptedAt |-> executing.attemptedAt])
  /\ executing' = None
  /\ UNCHANGED <<thread, drafts, created, audits, deleted, session, generating>>

\* An error ends the execution, for one when the rows are gone.
ExecutionFails ==
  /\ executing # None
  /\ executing' = None
  /\ UNCHANGED <<store, session, generating>>

\* The application stops, and starts again without what it had in progress; a
\* session whose turn was running may have reached the disk or not.
Restart ==
  /\ generating # None \/ executing # None
  /\ generating' = None /\ executing' = None
  /\ \/ UNCHANGED session
     \/ generating # None /\ generating.step = "running" /\ session' = None
  /\ UNCHANGED <<store>>

(***************************************************************************)
(* The flow that is restored after a refresh                               *)
(***************************************************************************)

\* Each revision before the latest is superseded and of the same persona.
ChainComplete ==
  /\ LatestDraft.state # "superseded"
  /\ \A r \in 1..(LatestRevision - 1) :
       drafts[r].state = "superseded" /\ drafts[r].persona = drafts[r + 1].persona

\* The states of a proposal under each decision of its approval.
StatesUnder(decision) ==
  CASE decision = "pending" -> {"awaiting_approval"}
    [] decision = "approved" -> {"approved"} \cup Actions!ExecutionStates
    [] decision = "rejected" -> {"rejected"}
    [] OTHER -> {"cancelled"}

ProposalStage(p) ==
  LET state == proposals[p].state
      settled == {"succeeded", "failed", "uncertain"}
  IN  CASE drafts[p.revision].state # "ready_for_review" -> "unavailable"
        [] approvals[p] = None ->
             IF state = "proposed" THEN "proposal" ELSE "unavailable"
        [] state \notin StatesUnder(approvals[p].decision) -> "unavailable"
        [] receipts[p] = None ->
             IF state \in settled THEN "unavailable" ELSE "approval"
        [] OTHER ->
             IF state = Actions!ReceiptState(receipts[p].verdict)
               THEN "execution" ELSE "unavailable"

\* What read() returns when p is the proposal that was written last.
FlowStage(p) ==
  CASE thread = None -> "unavailable"
    [] drafts = <<>> -> "empty"
    [] ~ChainComplete \/ thread.persona # LatestDraft.persona -> "unavailable"
    [] created = {} -> "draft"
    [] p.revision # LatestRevision ->
         IF approvals[p] # None /\ approvals[p].decision \in {"pending", "approved"}
           THEN "unavailable" ELSE "draft"
    [] OTHER -> ProposalStage(p)

Next ==
  \/ Tick \/ ReceiveMessage \/ Act \/ ConfirmDeletion
  \/ RequestModelDraft \/ RunNewSession \/ CompleteSession \/ RecoverSession
  \/ LinkDraft \/ GenerationFails
  \/ \E r \in Revision, t \in Text, submit \in BOOLEAN :
       RepeatEdit(r, t, submit) \/ SubmitUnchanged(r, t, submit) \/ EditText(r, t, submit)
  \/ \E p \in ProposalId : Propose(p) \/ RequestApproval(p) \/ StartExecution(p)
  \/ \E p \in ProposalId, d \in Answers : DecideApproval(p, d)
  \/ Consume \/ Begin \/ Reserve \/ NotSent \/ Post \/ Record \/ ExecutionFails
  \/ Restart

Spec == Init /\ [][Next]_vars

(***************************************************************************)
(* Properties                                                              *)
(***************************************************************************)

\* However the user edits, repeats requests and switches personas, there is one
\* draft to work on: the latest revision.  The earlier ones are superseded, of
\* the same persona and not younger, and a proposal names a revision that has
\* been under review.
OneDraftToWorkOn ==
  /\ drafts # <<>> => ChainComplete
  /\ \A r \in 1..(LatestRevision - 1) : drafts[r].updatedAt <= drafts[r + 1].updatedAt
  /\ \A p \in created : p.revision <= LatestRevision /\ drafts[p.revision].state # "editing"

\* The first revision is the answer of the stored session, of the persona that
\* was asked, also when the application stopped between the run and the draft.
DraftIsTheRunsAnswer ==
  drafts # <<>> =>
    /\ session # None /\ session.state = "completed"
    /\ drafts[1].text = session.text /\ drafts[1].persona = session.persona
    /\ drafts[1].updatedAt >= session.at

\* A stored session is never replaced or continued: not by a retry after a
\* restart, not after a failed turn, not after the thread was deleted.
NeverRunAgain ==
  [][session # None /\ ~(generating # None /\ generating.step = "running") =>
       session' = session]_vars

\* The audit of a draft is about a revision that was edited, or submitted, from
\* the revision it names: no retry leaves a record of what did not happen.
AuditsAreTrue ==
  \A audit \in audits :
    /\ audit.revision <= LatestRevision
    /\ audit.action = "model_run" => audit.revision = 1
    /\ audit.action = "edited" => audit.revision > 1 /\ audit.source = audit.revision - 1
    /\ audit.action = "ready_for_review" =>
         /\ drafts[audit.revision].state # "editing"
         /\ audit.source \in {audit.revision, audit.revision - 1}

\* Nothing is written about a deleted thread by what was in progress when it
\* was deleted, by a new message, or by a request of a page that still shows it.
DeletedIsGone ==
  deleted =>
    /\ thread = None /\ drafts = <<>> /\ created = {} /\ audits = {}
    /\ \A p \in ProposalId :
         approvals[p] = None /\ receipts[p] = None /\ dispatches[p] = <<>>

\* The flow that is shown after a refresh is there for every state that requests,
\* executions and stops leave the rows in, as long as the persona is still the one
\* of the draft.  One state is refused: an execution that was repeated and did not
\* end, whose receipt is still that of the one before (read, assertReceipt).
FlowIsRestored ==
  \A p \in LatestProposals :
    /\ thread # None /\ thread.persona = LatestDraft.persona
    /\ p.revision = LatestRevision
    /\ receipts[p] # None => proposals[p].state # "executing"
    => FlowStage(p) \in {"proposal", "approval", "execution"}

Outdated(p) ==
  /\ thread # None /\ p \in created
  /\ drafts[p.revision].state = "superseded" \/ p.target < thread.messages

\* A proposal whose draft was edited again, or whose message is no longer the
\* latest, is neither approved nor started; only an execution that was asked
\* for before goes on.
StaleIsInert ==
  [][\A p \in ProposalId :
       /\ Outdated(p) /\ ~deleted'
       /\ executing # None => executing.proposal # p
       => /\ approvals'[p] = approvals[p] /\ proposals'[p] = proposals[p]
          /\ executing' # None => executing'.proposal # p]_vars
=============================================================================
