------------------------------ MODULE InboxPage ------------------------------
(***************************************************************************)
(* The Inbox page in the browser and the local API it talks to.  The page  *)
(* keeps the results of the selected item's reply flow in variables shared *)
(* by all items, posts the person's clicks and restores the flow from the  *)
(* API on every selection.  Clicks, requests and answers interleave: an    *)
(* answer may arrive after another item was selected.                      *)
(*                                                                         *)
(* The API is reduced to the stages an item's flow goes through; what the  *)
(* stages mean is modelled by ThreadWork and ReplyExecution.  Text that is *)
(* typed but not saved is left out: it only takes the preview away.        *)
(***************************************************************************)
EXTENDS Naturals

CONSTANTS
  None,
  Item,         \* work items of the Inbox
  Slow,         \* services whose status is not known to the page at first
  MaxRevision,  \* bound: revisions of a draft
  MaxRestores,  \* bound: restorations
  MaxLoads      \* bound: loads of the Inbox

\* Each has a status, a token for its requests and handlers of its own.
Service == {"draft", "proposal", "approval", "execution"}

Decision == {"approved", "rejected"}
Click == {"create", "save", "review", "preview", "request", "execute"} \cup Decision

\* One request of each kind is in flight at a time.
Kind == {"create", "edit", "preview", "approval", "execute"}

\* How far the stored flow of an item got.  A cancelled or expired approval is
\* rejected; "again" and "done" are executions that may and may not be repeated.
Stages == {"empty", "editing", "ready", "proposal", "pending", "approved", "rejected",
           "again", "done"}
Revision == 0..MaxRevision
Flow == [stage : Stages, revision : Revision]

VARIABLES
  stored,       \* each item's flow, behind the API
  listed,       \* the Inbox is shown
  loading,      \* the newest request for the Inbox waits for its answer
  loads,
  asked, ready, \* services that are asked for their status, and that are ready
  selected,     \* the selected item
  draft, proposal, approval, execution,  \* the page's results
  flowRequest,  \* number of the newest restoration
  flowLoading,  \* the page says that it restores the flow
  restores,     \* restorations that wait for their answer
  posts         \* the click of each kind that waits for its answer

results == <<draft, proposal, approval, execution>>
inbox == <<listed, loading, loads, asked, ready>>
restoration == <<flowRequest, flowLoading, restores>>
page == <<inbox, selected, results, restoration>>
vars == <<stored, page, posts>>

\* The results for an item, a restoration and a click that wait for their answer.
Draft == [item : Item, revision : Revision, ready : BOOLEAN]
Preview == [item : Item, revision : Revision]
Approval == [item : Item, revision : Revision, decision : {"pending", "approved", "rejected"}]
Execution == [item : Item, again : BOOLEAN]
Restoration == [number : 1..MaxRestores, item : Item, answer : Flow \cup {None}]
Post == [click : Click, item : Item, revision : Revision, answer : Flow \cup {None}]

(***************************************************************************)
(* The local API                                                           *)
(***************************************************************************)

To(flow, stage) == [flow EXCEPT !.stage = stage]

\* What a click makes of a stored flow.  Repeated, it finds its own result.
Created(flow) ==
  IF flow.stage = "empty" THEN {[stage |-> "editing", revision |-> 1]}
  ELSE {f \in {flow} : flow.stage \in {"editing", "ready"}}

Edited(flow, submitForReview) ==
  LET revised == [stage |-> IF submitForReview THEN "ready" ELSE "editing",
                  revision |-> flow.revision + 1]
  IN {f \in {revised, To(flow, "ready")} :
        /\ flow.stage \in {"editing", "ready", "proposal", "rejected"}
        /\ f = revised \/ (submitForReview /\ flow.stage \in {"editing", "ready"})}

Previewed(flow) == {f \in {To(flow, "proposal")} : flow.stage \in {"ready", "proposal"}}

Requested(flow) == {f \in {To(flow, "pending")} : flow.stage \in {"proposal", "pending"}}

Decided(flow, decision) ==
  {f \in {To(flow, decision), To(flow, "rejected")} :
     flow.stage = "pending" \/ (flow.stage = decision /\ f = flow)}

Executed(flow) ==
  {f \in {To(flow, "again"), To(flow, "done")} :
     flow.stage \in {"approved", "again"} \/ (flow.stage = "done" /\ f = flow)}

\* The handler of a POST: it is for the newest revision, it may take effect and
\* still be answered with 503, or it may be refused.
Serve(k, outcomes) ==
  LET p == posts[k]
      flow == stored[p.item]
      after == {f \in outcomes : f \in Flow /\ (k # "create" => p.revision = flow.revision)}
  IN /\ \/ \E f \in after :
             /\ stored' = [stored EXCEPT ![p.item] = f]
             /\ posts' = [posts EXCEPT ![k] = [@ EXCEPT !.answer = f]]
        \/ \E f \in after \cup {flow} :
             /\ stored' = [stored EXCEPT ![p.item] = f]
             /\ posts' = [posts EXCEPT ![k] = None]
     /\ UNCHANGED page

Unanswered(k) == posts[k] # None /\ posts[k].answer = None

ServeModelDraftCreate ==
  Unanswered("create") /\ Serve("create", Created(stored[posts["create"].item]))

ServeModelDraftEdit ==
  /\ Unanswered("edit")
  /\ Serve("edit", Edited(stored[posts["edit"].item], posts["edit"].click = "review"))

ServeFeishuReplyProposalCreate ==
  Unanswered("preview") /\ Serve("preview", Previewed(stored[posts["preview"].item]))

ServeFeishuReplyApprovalMutation ==
  LET p == posts["approval"] IN
  /\ Unanswered("approval")
  /\ Serve("approval", IF p.click = "request" THEN Requested(stored[p.item])
                       ELSE Decided(stored[p.item], p.click))

ServeFeishuReplyExecution ==
  Unanswered("execute") /\ Serve("execute", Executed(stored[posts["execute"].item]))

\* The handler of the GET that restores a flow.
ServeFeishuReplyFlow(r) ==
  /\ r \in restores /\ r.answer = None
  /\ restores' = (restores \ {r}) \cup {[r EXCEPT !.answer = stored[r.item]]}
  /\ UNCHANGED <<stored, inbox, selected, results, flowRequest, flowLoading, posts>>

(***************************************************************************)
(* What the page shows                                                     *)
(***************************************************************************)

Busy(kinds) == \E k \in kinds : posts[k] # None

\* Mutated form: a result is shown whatever item it belongs to.
ShownForAny(result) == result # None /\ selected # None

\* A result is shown if it belongs to the selected item.
Shown(result) == result # None /\ selected # None /\ result.item = selected

Locks(decision) == decision \in {"pending", "approved"}
Locked == Shown(approval) /\ Locks(approval.decision)

\* The services' answers when they are asked for their status.
ModelDraftReady == "draft" \in ready
FeishuReplyProposalReady == "proposal" \in ready
FeishuReplyApprovalReady == "approval" \in ready
FeishuReplyExecutionReady == "execution" \in ready

\* The buttons that are enabled.
CanCreate ==
  /\ selected # None /\ ~Shown(draft) /\ ModelDraftReady
  /\ ~Busy({"create", "edit", "preview", "approval"})
  /\ ~flowLoading /\ ~Locked

CanEdit == Shown(draft) /\ ~Locked /\ ~Busy({"edit", "preview", "approval"})

\* Typing a character and taking it back enables the preview as well.
CanCreateReplyPreview ==
  /\ Shown(draft) /\ draft.ready /\ FeishuReplyProposalReady
  /\ ~Busy({"create", "edit", "preview", "approval"})
  /\ \/ ~Shown(proposal) /\ ~Shown(approval) /\ ~flowLoading
     \/ CanEdit /\ (approval # None => ~Locks(approval.decision))

CanRequestReplyApproval ==
  /\ Shown(proposal) /\ ~Shown(approval) /\ FeishuReplyApprovalReady
  /\ ~Busy({"create", "edit", "preview", "approval"}) /\ ~flowLoading

\* The token of the service may be older than its last status.
CanDecideReplyApproval ==
  /\ Shown(approval) /\ approval.decision = "pending" /\ FeishuReplyApprovalReady
  /\ ~Busy({"approval"}) /\ ~flowLoading

CanExecuteReply ==
  /\ Shown(approval) /\ approval.decision = "approved" /\ FeishuReplyExecutionReady
  /\ ~Busy({"execute"}) /\ ~flowLoading
  /\ Shown(execution) => execution.again

(***************************************************************************)
(* Clicks.  A handler looks at the page's variables, not at what is shown  *)
(* of them, and does nothing if they do not allow the click.               *)
(***************************************************************************)

Ask(k, click, subject) ==
  /\ posts' = [posts EXCEPT ![k] = [click |-> click, item |-> subject.item,
                                    revision |-> subject.revision, answer |-> None]]
  /\ UNCHANGED <<stored, page>>

CreateModelDraft ==
  /\ CanCreate
  /\ approval # None => ~Locks(approval.decision)
  /\ Ask("create", "create", [item |-> selected, revision |-> 0])

EditModelDraft(click) ==
  /\ CanEdit
  /\ ModelDraftReady
  /\ approval # None => ~Locks(approval.decision)
  /\ Ask("edit", click, draft)

CreateFeishuReplyProposal ==
  /\ CanCreateReplyPreview
  /\ approval = None
  /\ Ask("preview", "preview", draft)

\* What is posted is taken from the preview, for a decision too.
MayMutateApproval == proposal # None /\ FeishuReplyApprovalReady /\ ~Busy({"approval"})

RequestFeishuReplyApproval ==
  CanRequestReplyApproval /\ MayMutateApproval /\ Ask("approval", "request", proposal)

DecideFeishuReplyApproval(decision) ==
  CanDecideReplyApproval /\ MayMutateApproval /\ Ask("approval", decision, proposal)

ExecuteFeishuReply ==
  /\ CanExecuteReply
  /\ execution # None => execution.again
  /\ Ask("execute", "execute", approval)

(***************************************************************************)
(* Answers.  The page takes an answer whichever item is selected by now.   *)
(***************************************************************************)

DraftOf(i, f) == [item |-> i, revision |-> f.revision, ready |-> f.stage # "editing"]
ProposalOf(i, f) == [item |-> i, revision |-> f.revision]

ApprovalOf(i, f) ==
  [item |-> i, revision |-> f.revision,
   decision |-> IF f.stage \in {"again", "done"} THEN "approved" ELSE f.stage]

ExecutionOf(i, f) == [item |-> i, again |-> f.stage = "again"]

Answered(k) == posts[k] # None /\ posts[k].answer # None
Take(k) == posts' = [posts EXCEPT ![k] = None] /\ UNCHANGED <<stored, inbox, selected, restoration>>

ModelDraftCreated ==
  /\ Answered("create") /\ Take("create")
  /\ draft' = DraftOf(posts["create"].item, posts["create"].answer)
  /\ proposal' = None /\ approval' = None /\ execution' = None

ModelDraftEdited ==
  /\ Answered("edit") /\ Take("edit")
  /\ draft' = DraftOf(posts["edit"].item, posts["edit"].answer)
  /\ proposal' = None /\ approval' = None /\ execution' = None

FeishuReplyProposalCreated ==
  /\ Answered("preview") /\ Take("preview")
  /\ proposal' = ProposalOf(posts["preview"].item, posts["preview"].answer)
  /\ approval' = None /\ execution' = None /\ UNCHANGED draft

FeishuReplyApprovalMutated ==
  /\ Answered("approval") /\ Take("approval")
  /\ approval' = ApprovalOf(posts["approval"].item, posts["approval"].answer)
  /\ execution' = None /\ UNCHANGED <<draft, proposal>>

FeishuReplyExecuted ==
  /\ Answered("execute") /\ Take("execute")
  /\ execution' = ExecutionOf(posts["execute"].item, posts["execute"].answer)
  /\ UNCHANGED <<draft, proposal, approval>>

Clear == draft' = None /\ proposal' = None /\ approval' = None /\ execution' = None

Restored(i, f) ==
  /\ draft' = IF f.stage = "empty" THEN None ELSE DraftOf(i, f)
  /\ proposal' = IF f.stage = "proposal" THEN ProposalOf(i, f) ELSE None
  /\ approval' = IF f.stage \in {"empty", "editing", "ready", "proposal"} THEN None
                 ELSE ApprovalOf(i, f)
  /\ execution' = IF f.stage \in {"again", "done"} THEN ExecutionOf(i, f) ELSE None

\* The answer to a restoration, or its failure.  Only the newest counts.
FeishuReplyFlowRestored(r) ==
  /\ r \in restores
  /\ restores' = restores \ {r}
  /\ IF r.number = flowRequest /\ r.item = selected
     THEN (r.answer # None /\ Restored(r.item, r.answer)) \/ Clear
     ELSE UNCHANGED results
  /\ flowLoading' = IF r.number = flowRequest THEN FALSE ELSE flowLoading
  /\ UNCHANGED <<stored, inbox, selected, flowRequest, posts>>

\* A service is ready, or it is unavailable or does not answer.
StatusAnswered(s) ==
  /\ s \in asked /\ asked' = asked \ {s}
  /\ ready' \in {ready \cup {s}, ready \ {s}}
  /\ UNCHANGED <<stored, listed, loading, loads, selected, results, restoration, posts>>

(***************************************************************************)
(* Selecting                                                               *)
(***************************************************************************)

\* The list is there to be clicked at.
Offered == listed /\ ~loading

RestoreFeishuReplyFlow(i) ==
  /\ flowRequest < MaxRestores
  /\ flowRequest' = flowRequest + 1
  /\ flowLoading' = TRUE
  /\ restores' = restores \cup {[number |-> flowRequest + 1, item |-> i, answer |-> None]}

Select(i) ==
  /\ Offered
  /\ selected' = i
  /\ Clear /\ RestoreFeishuReplyFlow(i)
  /\ UNCHANGED <<stored, inbox, posts>>

\* Mutated form: a load leaves the page restoring.
LoadInboxStillRestoring(newAsked) ==
  /\ loads < MaxLoads /\ flowRequest < MaxRestores
  /\ loads' = loads + 1 /\ loading' = TRUE
  /\ flowRequest' = flowRequest + 1
  /\ selected' = None /\ Clear
  /\ asked' = newAsked
  /\ UNCHANGED <<stored, listed, ready, flowLoading, restores, posts>>

\* A newer load takes the place of an older one, whose answer is dropped.
LoadInbox(newAsked) ==
  /\ loads < MaxLoads /\ flowRequest < MaxRestores
  /\ loads' = loads + 1 /\ loading' = TRUE
  /\ flowRequest' = flowRequest + 1 /\ flowLoading' = FALSE
  /\ selected' = None /\ Clear
  /\ asked' = newAsked
  /\ UNCHANGED <<stored, listed, ready, restores, posts>>

\* The services that are asked for their status, if it is not known at once.
LoadModelDraftStatus == Slow \cap {"draft"}
LoadFeishuReplyProposalStatus == Slow \cap {"proposal"}
LoadFeishuReplyApprovalStatus == Slow \cap {"approval"}
LoadFeishuReplyExecutionStatus == Slow \cap {"execution"}

\* Another list of the Inbox, and the Inbox after another page.
SelectState == LoadInbox(asked)
RenderRouteAndLoad ==
  LoadInbox(LoadModelDraftStatus \cup LoadFeishuReplyProposalStatus
            \cup LoadFeishuReplyApprovalStatus \cup LoadFeishuReplyExecutionStatus)

\* The first item is selected.  A list without items is shown as one that failed.
InboxAnswered ==
  /\ loading /\ loading' = FALSE
  /\ \/ /\ listed' = TRUE
        /\ \E i \in Item : selected' = i /\ RestoreFeishuReplyFlow(i)
     \/ /\ listed' = FALSE
        /\ UNCHANGED <<selected, restoration>>
  /\ UNCHANGED <<stored, loads, asked, ready, results, posts>>

Init ==
  /\ stored = [i \in Item |-> [stage |-> "empty", revision |-> 0]]
  /\ listed = FALSE /\ loading = TRUE /\ loads = 0
  /\ asked = Slow /\ ready = Service \ Slow
  /\ selected = None
  /\ draft = None /\ proposal = None /\ approval = None /\ execution = None
  /\ flowRequest = 0 /\ flowLoading = FALSE /\ restores = {}
  /\ posts = [k \in Kind |-> None]

Clicked ==
  \/ CreateModelDraft \/ \E c \in {"save", "review"} : EditModelDraft(c)
  \/ CreateFeishuReplyProposal \/ RequestFeishuReplyApproval
  \/ \E d \in Decision : DecideFeishuReplyApproval(d)
  \/ ExecuteFeishuReply
  \/ \E i \in Item : Select(i)
  \/ SelectState \/ RenderRouteAndLoad

Served ==
  \/ ServeModelDraftCreate \/ ServeModelDraftEdit \/ ServeFeishuReplyProposalCreate
  \/ ServeFeishuReplyApprovalMutation \/ ServeFeishuReplyExecution
  \/ \E r \in restores : ServeFeishuReplyFlow(r)

Taken ==
  \/ ModelDraftCreated \/ ModelDraftEdited \/ FeishuReplyProposalCreated
  \/ FeishuReplyApprovalMutated \/ FeishuReplyExecuted
  \/ \E r \in restores : FeishuReplyFlowRestored(r)
  \/ \E s \in Service : StatusAnswered(s)
  \/ InboxAnswered

Next == Clicked \/ Served \/ Taken

Spec == Init /\ [][Next]_vars

\* The local server answers every request to restore a flow, if only by failing.
Fairness ==
  \A n \in 1..MaxRestores :
    WF_vars(\E r \in restores : r.number = n /\ FeishuReplyFlowRestored(r))

FairSpec == Spec /\ Fairness

(***************************************************************************)
(* Properties                                                              *)
(***************************************************************************)

TypeOK ==
  /\ stored \in [Item -> Flow]
  /\ listed \in BOOLEAN /\ loading \in BOOLEAN /\ loads \in 0..MaxLoads
  /\ asked \subseteq Slow /\ ready \subseteq Service
  /\ selected \in Item \cup {None}
  /\ draft \in Draft \cup {None} /\ proposal \in Preview \cup {None}
  /\ approval \in Approval \cup {None} /\ execution \in Execution \cup {None}
  /\ flowRequest \in 0..MaxRestores /\ flowLoading \in BOOLEAN
  /\ restores \subseteq Restoration
  /\ posts \in [Kind -> Post \cup {None}]

\* Whatever answers arrive late, a click posts the item that is on the screen,
\* a decision the revision whose pending approval is on the screen, and an
\* execution the revision whose approval is (createModelDraft to executeFeishuReply).
PostedIsShown ==
  [][\A k \in Kind : posts[k] = None /\ posts'[k] # None =>
       /\ posts'[k].item = selected
       /\ posts'[k].click \in Decision \cup {"execute"} =>
            /\ approval # None /\ approval.item = selected
            /\ posts'[k].revision = approval.revision]_vars

\* The page does not say for ever that it restores the flow: neither a
\* superseded answer nor a load of the Inbox leaves it there.
PageSettles == []<>~flowLoading
=============================================================================
