----------------------------- MODULE ThreadStore -----------------------------
(***************************************************************************)
(* What storage-sqlite keeps of one conversation: the thread with its work *)
(* item, the revisions of the draft for it, the reply proposals made from  *)
(* them with their approvals and executions (the rows of ActionState), the *)
(* audit records, and the receipt of the thread's deletion.                *)
(*                                                                         *)
(* Each operation is one transaction.  A message is its number, a text is  *)
(* a model value, and a proposal is named by what its id digests: the      *)
(* revision of the draft and the message it answers.                       *)
(***************************************************************************)
EXTENDS Integers, Sequences

CONSTANTS
  Persona,        \* the built-in personas
  Text,           \* contents of drafts
  None, MaxApprovalTtl, MaxTime, MaxDispatches,
  MaxRevision,    \* MAX_MODEL_DRAFT_REVISION
  MaxMessages,    \* bound: messages of the conversation
  MaxActions,     \* bound: user actions on the work item
  Interruptible   \* bound: the audits whose append may be interrupted

ASSUME ThreadBoundsAssumption ==
  MaxRevision \in Nat \ {0} /\ MaxMessages \in Nat \ {0} /\ MaxActions \in Nat

VARIABLES
  thread,     \* the thread and its work item
  drafts,     \* drafts: the revisions, in order
  created,    \* the proposals that were created
  now, proposals, approvals, receipts, dispatches,  \* the rows of ActionState
  audits,     \* audit_records
  deleted     \* thread_deletion_receipts: whether the thread was deleted

Revision == 1..MaxRevision
ProposalId == [revision : Revision, target : 1..MaxMessages]

\* A proposal has at most one approval, whose id is derived from its own.
Actions == INSTANCE ActionState WITH ApprovalId <- ProposalId

Time == Actions!Time
actionRows == <<now, proposals, approvals, receipts, dispatches>>
store == <<thread, drafts, created, actionRows, audits, deleted>>

\* The events give the base: messages and updatedAt.  The user's actions give
\* the persona, when the item was last set done, and when they last acted.
Thread ==
  [messages : 1..MaxMessages, updatedAt : Time, persona : Persona \cup {None},
   doneAt : Time \cup {None}, actions : 0..MaxActions, actedAt : Time]

DraftState == {"editing", "ready_for_review", "superseded"}
Draft == [state : DraftState, text : Text, persona : Persona, updatedAt : Time]

\* An audit of a draft names the action, the revision, and the revision that
\* the user worked on; its id holds the first two only.
Audit == [action : {"model_run", "edited", "ready_for_review"},
          revision : Revision, source : Revision \cup {None}]

ASSUME ThreadNoneAssumption ==
  None \notin Thread \cup Time \cup Persona \cup Revision

\* What the rows of ActionState assume of the bounds and of None.
ASSUME StoreAssumption ==
  /\ MaxTime \in Nat /\ MaxApprovalTtl \in Nat /\ MaxDispatches \in Nat
  /\ None \notin Actions!Approval /\ None \notin Actions!Receipt /\ None \notin Actions!Settlement

StoreTypeOK ==
  /\ thread \in Thread \cup {None}
  /\ drafts \in Seq(Draft) /\ Len(drafts) <= MaxRevision
  /\ created \subseteq ProposalId
  /\ Actions!TypeOK
  /\ audits \subseteq Audit
  /\ deleted \in BOOLEAN

StoreInit ==
  /\ thread = None /\ drafts = <<>> /\ created = {}
  /\ Actions!Init
  /\ audits = {} /\ deleted = FALSE

(***************************************************************************)
(* The thread and its work item                                            *)
(***************************************************************************)

WorkItemUpdatedAt ==
  IF thread.actedAt > thread.updatedAt THEN thread.actedAt ELSE thread.updatedAt

\* Actions older than the base are superseded by it.
ShownDone == thread.doneAt # None /\ thread.doneAt >= thread.updatedAt

\* A deleted thread is not recreated; a changed one carries a later time.
ThreadCanAdvance(observedAt) ==
  /\ ~deleted
  /\ thread # None => thread.messages < MaxMessages /\ thread.updatedAt < observedAt

\* A further message: the selected persona is carried over.
PutWorkItemProjection(observedAt) ==
  /\ ThreadCanAdvance(observedAt)
  /\ thread' = IF thread = None
       THEN [messages |-> 1, updatedAt |-> observedAt, persona |-> None,
             doneAt |-> None, actions |-> 0, actedAt |-> 0]
       ELSE [thread EXCEPT !.messages = @ + 1, !.updatedAt = observedAt]

\* set_inbox_state, or select_persona and clear_persona.
ApplyWorkItemUserAction(field, value, occurredAt) ==
  /\ thread # None /\ thread.actions < MaxActions
  /\ occurredAt >= WorkItemUpdatedAt
  /\ thread' = [thread EXCEPT ![field] = value, !.actions = @ + 1, !.actedAt = occurredAt]

(***************************************************************************)
(* Drafts and proposals                                                    *)
(***************************************************************************)

LatestRevision == Len(drafts)
LatestDraft == drafts[LatestRevision]
Active(state) == state \in {"editing", "ready_for_review"}

\* Mutated form: nothing asks whether the thread and its work item are there.
WritableOrDeleted(draft) == TRUE

\* The work item exists, is the persona's, and is not newer than the draft; a
\* new draft is updated when it is created.
Writable(draft) ==
  /\ thread # None
  /\ thread.persona = draft.persona
  /\ draft.updatedAt >= WorkItemUpdatedAt

CreateDraft(draft) ==
  /\ Writable(draft)
  /\ drafts # <<>> => ~Active(LatestDraft.state)
  /\ LatestRevision < MaxRevision
  /\ drafts' = Append(drafts, draft)

TransitionDraft(revision, from, to, at) ==
  /\ drafts[revision].state = from
  /\ drafts[revision].updatedAt <= at
  /\ drafts' = [drafts EXCEPT ![revision].state = to, ![revision].updatedAt = at]

\* Mutated form: any active revision may be revised, and stays what it is.
ReviseInPlace(revision, draft) ==
  /\ Writable(draft)
  /\ Active(drafts[revision].state)
  /\ LatestRevision < MaxRevision
  /\ drafts' = Append(drafts, draft)

\* The latest revision is superseded and the next one is inserted.
ReviseDraft(revision, draft) ==
  /\ Writable(draft)
  /\ revision = LatestRevision /\ Active(LatestDraft.state)
  /\ LatestRevision < MaxRevision
  /\ LatestDraft.updatedAt <= draft.updatedAt
  /\ drafts' = Append([drafts EXCEPT ![revision].state = "superseded",
                                     ![revision].updatedAt = draft.updatedAt], draft)

\* The draft is under review and not older than the work item; the proposal
\* is its contents' and answers a message of the thread.
CreateActionProposal(p, createdAt) ==
  /\ p \notin created
  /\ thread # None /\ p.target <= thread.messages
  /\ p.revision <= LatestRevision
  /\ drafts[p.revision].state = "ready_for_review"
  /\ createdAt >= drafts[p.revision].updatedAt
  /\ drafts[p.revision].updatedAt >= WorkItemUpdatedAt
  /\ created' = created \cup {p}
  /\ proposals' = [proposals EXCEPT ![p].updatedAt = createdAt]

\* The proposal of the work item that was written last.
LatestProposals ==
  {p \in created : \A q \in created : proposals[q].updatedAt <= proposals[p].updatedAt}

(***************************************************************************)
(* Audit and deletion                                                      *)
(***************************************************************************)

\* An audit refers to rows that exist; another record with its id is a conflict.
Appendable(audit) ==
  /\ thread # None /\ audit.revision <= Len(drafts')
  /\ \A other \in audits :
       other.action = audit.action /\ other.revision = audit.revision => other = audit

\* The audit is a transaction of its own, after the write it is about: the
\* process may stop in between, and the append may be refused.
AuditAfterwards(audit) ==
  \/ (audit.action \in Interruptible \/ ~Appendable(audit)) /\ UNCHANGED audits
  \/ Appendable(audit) /\ audits' = audits \cup {audit}

\* The thread's audits, then the thread with everything that cascades.
RemoveEverything ==
  /\ thread' = None /\ drafts' = <<>> /\ audits' = {} /\ created' = {}
  /\ proposals' = [p \in ProposalId |-> [state |-> "proposed", updatedAt |-> 0]]
  /\ approvals' = [p \in ProposalId |-> None]
  /\ receipts' = [p \in ProposalId |-> None]
  /\ dispatches' = [p \in ProposalId |-> <<>>]

\* Only the time of the thread is compared with what the user confirmed.
DeleteThread(expectedUpdatedAt) ==
  /\ thread # None /\ thread.updatedAt = expectedUpdatedAt
  /\ RemoveEverything
  /\ deleted' = TRUE
  /\ UNCHANGED now
=============================================================================
