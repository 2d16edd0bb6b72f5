# TLA+ specifications of TwinDesk

TwinDesk is a local-first desktop workbench. Connectors bring messages into a
SQLite database, where they become threads and work items; a model run drafts an
answer; the person approves it; and one durable executor sends it. These modules
specify the parts of that chain in which the order of steps matters: what is
stored in which transaction, what a process may have in memory when it stops,
what the other side of an HTTP call may have done meanwhile, and what a page in
the browser still shows by then.

All paths below are relative to `src/packages/`; documents are in `src/docs/`.

## 1. The system's components

| Component | State it keeps | Operations | What is hard | What makes it correct |
|---|---|---|---|---|
| **action-state** `storage-sqlite/src/approval-state.ts`, `action-execution-state.ts` | rows of `action_proposals`, `approval_records`, `action_receipts`, `action_dispatches` | request, decide, consume an approval; recover, begin, reserve a dispatch, record a receipt | any operation may be called at any time with any timestamps; attempts are retried and recovered; the wall clock may go back | the four rows of an action agree; nothing runs without its own consumed approval; a further dispatch only after one that did nothing; closed proposals stay closed |
| **draft-state** `storage-sqlite/src/draft-action-state.ts`, `domain/src/state-transitions.ts` | `drafts`, `action_proposals` | create, revise, transition a draft; create and transition a proposal | requests are repeated; a proposal is bound to one revision of a draft that goes on changing | one draft to work on, the latest; a proposal names a revision that was under review |
| **action-execution-host** `plugin-work-hub/src/action-execution-host.ts` | `audit_records`, its local snapshot | execute() | a stop between any two awaited calls | each use of an approval and each result is audited before the next step depends on it |
| **reply-execution** `plugin-feishu/src/reply-execution.ts`, `reply-execution-adapter.ts`, `reply-http-client.ts` | none durable; the POST at Feishu | prepare, reserve, send, classify | answers are lost; a client without search cannot find out | the verdict stored is true of Feishu; one approval leads to at most one accepted POST |
| **runtime-lease** `plugin-feishu/src/runtime-lease.ts` | a listening loopback port | acquire, release, withLease | owners are processes that crash | one owner at a time, always released |
| **reply controllers** `bundle-workbench/src/feishu-reply-{proposal,approval,execution,flow}-controller.ts` | in-flight sets | propose, request, decide, execute, restore the flow | each call recomputes its target from the thread's latest message; the flow is rebuilt from rows that any of them may have left half done | a person approves what is sent; what became stale has no further effect; the flow is there after a refresh |
| **model-drafts** `bundle-workbench/src/model-draft-controller.ts`, `harness-adapter/src/model-draft-run.ts`, `plugin-work-hub/src/model-draft-linkage.ts` | a stored session per work item | run, recover, link its answer, edit | a stop between the stored answer, the draft and its audit; edits are repeated | the model is asked once; the draft is its answer; audits tell what happened |
| **thread-lifecycle** `storage-sqlite/src/thread-lifecycle.ts` | everything of a thread, a receipt of its deletion | export, delete | the thread is deleted while a run or an execution of it waits | a deletion leaves nothing behind, a receipt apart, and nothing comes back |
| **oauth-rotation** `plugin-feishu/src/oauth-rotation-coordinator.ts`, `oauth-reauthorization-coordinator.ts`, `oauth-reconciliation.ts` | an append-only journal file, the Keychain item | refresh, replace after reauthorization, reconcile | a refresh token works once; a crash between its use, the Keychain and the journal | a used token is never used again; the newest credential is never overwritten |
| **oauth-tokens** `plugin-feishu/src/oauth-v3-*.ts`, `oauth-loopback-callback-host.ts` | an authorization session | refresh, exchange a code, callback | which failure leaves the token usable is for the endpoint to say | a token is given up only when the endpoint says so |
| **oauth-controllers** `bundle-workbench/src/feishu-oauth-*` | one authorization in flight, a callback server, the rows of a reconciliation | start, cancel, callback; reconcile, recover | callback against cancellation and timeout; another process meanwhile; a stop between an effect and its audit | a code is exchanged by its own attempt; what the status and the audit say is true |
| **event-ingestion** `storage-sqlite/src/event-ingestion.ts`, `sync-cursor.ts` | events, projections, cursors | ingest, commit a sync batch | concurrent sessions, duplicates | batch and cursor are atomic; a cursor never goes back; an event is stored once |
| **user-polling** `plugin-feishu/src/user-message-discovery.ts`, `user-message-search-*.ts`, `message-normalization.ts`, `bundle-workbench/src/feishu-user-polling-runtime.ts` | window and page token in the cursor | poll | pages fail, messages arrive while paging, details are missing | no message of a completed window is missed |
| **bot-events** `plugin-feishu/src/bot-event-consumer.ts`, `bundle-workbench/src/feishu-bot-event-ingress.ts` | a receipt journal and its cache | verify a callback, commit its event, append its receipt | repeated and concurrent callbacks, torn receipts, a stop between commit and receipt | each acknowledged message is stored, and handled once |
| **runtime-owner** `bundle-workbench/src/feishu-runtime-owner.ts`, `feishu-runtime-supervisor.ts` | a chain of transitions, the owner and its borrowers, the polling loop, a status | refresh, quiesce, close, lend or acquire the lease | requests and transitions interleave at every await; the settings change meanwhile | polling stays under the owner of its identity; a shutdown ends and is final |
| **settings** `bundle-workbench/src/feishu-*-identity-bootstrap.ts`, `feishu-oauth-settings-editor.ts`, `feishu-settings-presentation.ts` | a file of identities, a file of OAuth settings | load, add an identity, save | each save reads, decides and writes a whole file over several awaits; pages are out of date | what is called saved is in the files |
| **web** `web/src/app.ts`, `server.ts` | the page's variables in the browser; a write token per start of the host | show, click, take answers; serve the API | answers arrive after another item was selected | what a click sends is what the page shows |
| **work-item-projection** `storage-sqlite/src/work-item-projection.ts` | work items | apply, user actions, rebuild | events out of order | a work item shows the newest state |
| **audit** `storage-sqlite/src/audit-timeline.ts`, `connector-maintenance-audit.ts` | `audit_records` | idempotent append | an append may fail after what it reports | ids are digests; nothing is overwritten |
| keychain, scopes, tenant token `plugin-feishu/src/system-keychain.ts`, `operation-scope-authorization.ts`, ... | - | read, probe, authorize | every layer maps the failures of the one below | a failure before the POST is never taken for one of the POST |

How they interact: the page calls the web server, which calls the controllers.
The reply controllers call action-state directly for approvals and, for
execution, the action-execution-host under the runtime lease; the host calls
action-state, the executor and the audit in turn; the executor calls
oauth-rotation (in prepare) and Feishu (in send). Polling, executions and
authorizations of one machine share the lease; everything durable shares one
SQLite file, where each operation is one `BEGIN IMMEDIATE ... COMMIT`, except
for the two journals, the settings files and the Keychain.

## 2. Modules

| Module | Models | State | Actions |
|---|---|---|---|
| `ActionState` | action-state and the proposal transitions of draft-state | the four tables and the clock | one per operation: `TransitionActionProposal`, `RequestApproval`, `DecideApproval`, `ConsumeApproval`, `BeginExecution`, `ReserveDispatch`, `RecordReceipt`, and `SetClock` |
| `ActionStateProofs` | theorems about `ActionState` and `ActionStateImplements` | | |
| `ActionLifecycle` | what the store promises of each action: granted before it runs, closed for good, one undecided send at a time | a phase, a number of sends, whether a further one is clear | `Withdraw`, `Grant`, `Start`, `Send`, `Report` |
| `RotationJournal` | what the rotation journal promises: rotations are numbered, each resolved before the next, and each of a newer credential than the one before | number, state and source of the last rotation, whether the journal can be read | `Begin`, `Advance`, `Lose` |
| `ActionStateImplements` | the rows of an action seen as its lifecycle: `ActionState` implements `ActionLifecycle` | | |
| `HttpAnswers` | what one request to Feishu can bring back | | a set of answers |
| `FeishuAccess` | what a request goes through first: Keychain, bundle, tenant token, scope probes, authorizer, lease, rotation | | the errors of each layer, and how each maps those below |
| `ReplySend` | the send-only client and adapter: what preparation and POST become | | the sets of verdicts from which `ReplyExecution` chooses |
| `ReplyExecution` | the approval and execution controllers, the action-execution-host, the executor, the lease; composes `ActionState` and `ReplySend` | the store, the audit, the lease, a program counter and local variables per process, and what became of each POST | one per awaited call of `#executeOwned` and of the executor's `execute`; `Stop` and `StopAfterPost` at any of them |
| `ReplyExecutionProofs` | theorems about `ReplyExecution` | | |
| `ThreadStore` | one conversation in the database: projection, user actions, drafts, proposals, audits, deletion; composes `ActionState` | the thread, its drafts, proposals, audits, the receipt of its deletion | operators, one per transaction |
| `ThreadWork` | model-drafts, the reply controllers and thread-lifecycle over `ThreadStore` | the stored session, the model request and the execution in progress | requests (`RequestModelDraft` ... `LinkDraft`, the edits, `Propose`, `RequestApproval`, `DecideApproval`), the execution (`StartExecution` ... `Record`), `ConfirmDeletion`, `ReceiveMessage`, `Act`, `Restart` |
| `ThreadWorkProofs` | theorems about `ThreadWork` and `ThreadStore` | | |
| `InboxStore` | event-ingestion and work-item-projection as one transaction, with the normalizer of user-polling | the stored events, a thread with its work item per conversation, the cursor | the operators `NormalizeMessage`, `Refusal` and `CommitConnectorSyncBatch` |
| `MessageSearch` | the search client and its adapter: search, details, chat | | what a search can fail with, and what can become of an item |
| `UserPolling` | user-polling, and the commit of bot-events; extends `InboxStore`, composes `MessageSearch` | Feishu's messages and clock, the lag of the local clock, the search the loop waits for, why it stopped, the configured identities | `BeginSearch`, `CommitPage`, `TokenExpires`, `SearchFails`, `RejectCursor`; `Callback`; `AddBot`, `Restart`; people, the search index and the clocks |
| `UserPollingProofs` | theorems about `UserPolling` | | |
| `BotReceipts` | bot-events with the callback route of the server | the journal file and its torn tail, the cache, the queue, callbacks in progress, the events, what was acknowledged | `AnswerAtOnce`, `Receive`, `Load`, `Recognise`, `Handle`, `HandlerFails`, `AppendReceipt`, `AppendFails`; `PollingCommits`, `Restart` |
| `BotReceiptsProofs` | theorems about `BotReceipts` | | |
| `TokenExchange` | the refresh request: transport, refresher, settlement | | the settlements a failed refresh may have |
| `OAuthRotation` | oauth-rotation, with the parts of oauth-tokens, keychain and oauth-controllers it runs through; composes `TokenExchange` | the journal (file and memory), the Keychain item, writes on their way to it, the tokens sent to and issued by Feishu, a step and local variables per operation | one per awaited call: `StartRefresh` ... `Store`, `StartReauthorization` ... `Restore`, `StartReconciliation` ... `Recheck`, `Settle`; `Land`, `Crash`, `SetClock` |
| `OAuthRotationProofs` | theorems about `OAuthRotation`, which implements `RotationJournal` | | |
| `OAuthAuthorization` | the authorization in the browser, the first and a renewed one, from the button to the Keychain | status and attempt of both controllers, URLs shown, codes sent, lease, listener, Keychain, late writes, the journal's state | `Start...`, `Cancel...`, one per await of the hosts, `Callback`, `StopWaiting`; `Land`, `LoseLease`, another owner, `Crash` |
| `Reconciliation` | the reconciliation route, its rows and audits, the recovery at start | the wall clock, the journal's last event in memory and in the file, the Keychain, the rows, the requests | one per await of `reconcile`, its error path, `Start`, `RecoverPending`, `Close`, `Crash`, `SetClock`; rotations and authorizations meanwhile |
| `RuntimeSupervisor` | runtime-owner and runtime-lease, with the start and shutdown of workbench-host | stored settings, the chain of transitions and requests, owner, polling loop, port, requests, status | one per await of `refresh`, `quiesce`, `close` and `withLease`; `Save`, `RequestRefresh`, `PollingEnds`, `PollingReports`; another process |
| `RuntimeSupervisorProofs` | theorems about `RuntimeSupervisor` | | |
| `InboxPage` | the Inbox page of `app.ts` with the routes it calls | each item's flow behind the API, the page's variables, restorations and posts under way | one per click, per handler and per answer; `Select`, `LoadInbox` |
| `ConnectorSettings` | the settings on the Connectors page, their routes and the two editors | the two files, the queue of saves, each tab's save, loads and what it shows | `Submit`, `ServeSave`, `ReadExisting`, `WriteIdentity`, `WriteOAuth`, `TellAndReadBack`, `SaveAnswered`; `ServeLoad`, `LoadAnswered`; `Restart` |
| `WebPages` | the application in the browser: one of the Inbox, the settings, the authorization and the check of the stored credential; extends `OAuthAuthorization`, composes `InboxPage`, `ConnectorSettings` and `Reconciliation` | the part that is used, and the state of each | those of that part |
| `BrowserProofs` | theorems about `WebPages` and its parts | | |
| `MC...` | constants and symmetry for TLC | | |

Which module rests on which:

    ActionLifecycle <- ActionState <- ReplyExecution -> ReplySend -> FeishuAccess -> HttpAnswers
                            ^                                            ^              ^
                       ThreadStore <- ThreadWork    UserPolling -> MessageSearch        |
                                                        |         OAuthRotation -> TokenExchange
                                                    InboxStore
    WebPages -> InboxPage, ConnectorSettings, OAuthAuthorization, Reconciliation
    RotationJournal <- OAuthRotation, Reconciliation (by theorems only)
    on their own: BotReceipts, RuntimeSupervisor

Correspondence worth knowing before reading:

* An operation that throws rolls its transaction back. It is a disabled action,
  not a step; so is one that returns `duplicate` without writing.
* The attempt id and the idempotency key are digests of the approval, so a
  receipt and a journal are indexed by `ApprovalId`. The binding digests of an
  approval are determined by the immutable columns of its proposal; comparing
  them is comparing proposals.
* A *verdict* stands for the pair (outcome, retryDisposition) of a receipt;
  the schema allows exactly four such pairs. Issue codes, summaries and
  external references are abstracted in the store.
* `ActionState` takes timestamps from its caller, as the code does, and lets the
  clock be set back. `ReplyExecution` and `ThreadWork` take them from a clock
  that advances.
* In `ReplyExecution` a failed append or transaction ends the execution: it is
  `Stop`. `remote` is Feishu's side, and no action of the application reads it.
  The production client offers no `reconcile` and no search, so `execute` goes
  straight to `prepare`; the reconcile path is left out.

Of `HttpAnswers`, `FeishuAccess`, `ReplySend`, `MessageSearch`, `TokenExchange`:

* An answer is its status and what came of its body; status and body combine
  freely, so every branch of the clients is taken. A code is named by what it
  means to the clients (`rate_limit`, `credentials`, ...), the numbers are left out.
* A layer is the set of errors it can raise; a mapping of errors is a function
  on that set. The state machines choose from the resulting sets, so that what
  becomes of a failure is computed from the clients' code, not assumed.
* Two sets are assumptions about Feishu and not code: it never tells a refusal
  of a POST it accepted (`AnswersToAccepted`), nor a success of one it refused
  (`AnswersToRefused`). Without them no client could give a true verdict.

Of `ThreadStore` and `ThreadWork`:

* A message is its number, and the latest one is the target of a reply, as the
  proposal controller resolves it. A proposal is named by what its id digests.
* The controllers read and write the database without an `await` once they have
  read the configuration, so a request is one step; the model run and the
  execution wait in between, and everything else may happen meanwhile.
* An audit is a transaction of its own, after the write it is about, and may be
  missing; a repeated request repairs it (`AuditAfterwards`).
* A session survives a restart; one that was running may have reached the disk or
  not. `FlowStage` is what `read` of the flow controller returns.

Of `OAuthRotation`:

* The journal file is abstracted to what reading it would find: the last event
  and whether its tail is clean, torn (cut off at the next load) or unreadable.
  A process loads it once, before its first use; that is the second half of
  `Crash`. `latest`, `active` and `queue` are the `JournalState` that all
  instances of a process share. Journal operations are atomic because
  `#serialize` runs them one after the other; the replacement is the one that
  stays in the queue over several awaited calls.
* An event without its `recordedAt` determines what may follow it. `recordedAt`
  is the argument of `Chronological`, which `parseEvent` checks.
* Credentials are compared by `obtainedAt` alone, as in the code. `token`, which
  no action reads, tells them apart for the properties.
* `seen`, `held` and `verdict` are the local variables of an operation: the event
  it acts on, the credential it read or obtained, the event it is to append.
* `flying` holds the writes of `security` children that were killed too late,
  or whose process stopped. Each may land at any later time, or never.
* One process at a time uses journal and Keychain, as each entry point holds the
  runtime lease; several operations of it run at once.
* A failing append leaves nothing, a part of the line or the whole line
  (`AppendFailures`); a full journal is the first kind. The code looks the same
  from inside in all three cases.

Of `OAuthAuthorization` and `Reconciliation`:

* The URL, state, verifier and code of an attempt, and the credential the code
  buys, are the attempt's number. The journal is reduced to its state, and its
  other users to `OtherRotates` or to the steps at the end of `Reconciliation`;
  its own operations are those of `OAuthRotation`.
* An operation of `Reconciliation` and its audit record are one transaction. Two
  fields of a row (`ended`, `own`: the rotation it resolved while it was pending,
  by an append that reported success) are there for the properties only.
* The wall clock of `Reconciliation` is set to any time at any moment. An event may
  be stamped before the operation that appends it was requested: `parseEvent`
  compares `recordedAt` with the credentials of the event, and nothing compares it
  with an operation. That is what `terminalAfterRequest` has to go by.
* File and memory of the journal are as in `OAuthRotation`: a failing append
  leaves nothing, a part of its line or the whole line in `file`, and `Start` loads
  what is there. While a replacement holds the queue (`Replacing`), nothing else looks
  at the journal. The lease does not keep requests apart:
  those of one process borrow the lease of the polling owner together.

Of `RuntimeSupervisor`:

* The promise chain `#tail` of the supervisor is `queue`. A request does not
  append to the chain, but its continuation is registered on the tail before
  that of a later transition, so it runs when it is first in the same queue, and
  in one go up to the increment of `#baseOperations` (`Admit`).
* `Identity` stands for the normalized configuration that `configurationKey`
  compares; saving the same one again is included.
* `this.#owner = undefined` before `owner.close()` is `accepting = FALSE`: nothing
  can use the owner any more, while its borrowers and its port still exist.

Of `UserPolling`:

* The loop is synchronous from the answer of a search to the commit of its page,
  so that is one step; so is a callback. In between, the search waits, and
  anything else may happen: `search` is what `discover` computed before its
  `await`, the time of observation included.
* A message is numbered by its place in the search's listing, and a page token is
  the number of the last message listed. A page ends after any message; how many
  there are on it does not matter to the loop.
* An event is a state of a message. Its body is reduced to `requiresReply`, the
  one part that also depends on the configuration; text, titles and summaries
  are left out. The work item shows the state of one event (`shown`).
* Feishu's clock is `now`, the local one is `behind` it by a lag that may change
  at any time; both start after the first lookback. `MaxIndexing` is how long
  Feishu takes to index a message, and the code allows for it with
  `IndexingDelay` and `Overlap` together (`OptionsAssumption`).
* A poll that is caught up waits without changing anything, which is a stuttering
  step. Delays before retries are any time.
* A loop that has stopped is started anew by a refresh of the supervisor or with
  the host (`Restart`); its cause does not outlive it, as the cursor is read again.
* Conversations are chosen by `Conversation`; the thread of a conversation and its
  work item are written together with equal event lists and times, so they are
  one record.

Of `BotReceipts`:

* A request is a record of what each check of the consumer finds in it, in the
  order of the checks: framing, signature, body, challenge, account, visibility,
  content. A message and its body stand for the digest and for the event.
* The file is its complete lines; a torn line is cut off at the next load, or
  joined by the next append to a line that is none (`Joined`). Callbacks hold the
  journal's queue from the duplicate test to the receipt.

Of `InboxPage`, `ConnectorSettings` and `WebPages`:

* The page's variables keep their names: the results of the selected item are in
  variables shared by all items, and what is shown of them depends on the
  selection (`Shown`). A button that is enabled and its handler have each their
  own conditions, as in the code. The API is reduced to the stages of a flow.
* The content of a file is whose save it holds. The write token changes with
  each start of the host. A save passes the queue of the host, reads the
  identities, writes its file, tells the runtime and reads both files back.
* Leaving one page for the other loads it anew, and the settings, the Inbox, the
  authorization and the check of the stored credential share no variables (what
  others do to the Keychain and the journal are steps of `OAuthAuthorization` and of
  `Reconciliation` themselves). So a behaviour of `WebPages` is one of a single part,
  and not of their product; `Part` says which parts a run uses.

## 3. What the runs check

| Run | Instance | Shows |
|---|---|---|
| `action` | 2 proposals, 2 approval ids (symmetric), 2 instants, lifetime 1, 3 dispatches | attempts through every order of operations and timestamps, approvals used crosswise: `StateAgreesWithReceipt`, `ExecutionAuthorised`, and `KeepsLifecycle`: every step is one of `ActionLifecycle` or none of it |
| `reply_execution` | 2 processes, 3 instants, 2 dispatches, all errors and answers of the User identity | no retry after a POST that may have worked (`EarlierDispatchesDidNothing`) and no false verdict (`VerdictIsTrue`), but for the case of `reply_resend`; each use of an approval and each overwritten result audited first (`ApprovalAuditedFirst`, `AuditBeforeReplacement`); under fairness `LeaseIsReleased` |
| `reply_resend` | 1 process, 4 instants, 2 dispatches | violates `NoResendAfterStop`: see Findings |
| `oauth_rotation` | 2 operations (symmetric), 3 instants, 3 credentials, 2 restarts, a clock that may be set back, appends that fail in all three ways | `TokenUsedOnce`, `UnblockedIsFresh`, `NewestIsKept` |
| `oauth_live` | 2 operations, 2 instants, 3 credentials, 1 restart, appends that succeed | under fairness `QueueIsReleased`, `StoredCredentialRecovers` |
| `runtime_supervisor` | 2 requests, 2 identities, 2 waiting refreshes, a store that may fail, another process | `PollingIsOwned`, `PortHasOneUse`, `SettingsTakeEffect`; under fairness `ShutdownCompletes`, `RequestsAreAnswered` |
| `user_polling` | 2 messages of one group, one of which mentions the Bot, is edited, recalled and delivered to it; 6 instants, a lag of 1, indexing up to 2, delay 1, overlap 1, a Bot that is added later | `NothingSkipped`, `OneEventPerState`, `ThreadsShowTheNewest`, `WatermarkFollowsWindows` |
| `thread_work` | 2 personas, 2 texts (symmetric), 2 revisions, 2 messages, 2 user actions, 2 instants, 1 dispatch | a run of the model, edits, a proposal and its execution with new messages, deletion and restarts in between: `OneDraftToWorkOn`, `DraftIsTheRunsAnswer`, `AuditsAreTrue`, `DeletedIsGone`, `FlowIsRestored`, `NeverRunAgain`, `StaleIsInert` |
| `bot_receipts` | 2 messages, 2 bodies, 2 callbacks at a time, a journal of 3 receipts | `ReceiptsNameStoredEvents`, `AcknowledgedIsFinal`; under fairness `CallbacksAreAnswered` |
| `authorization_cancelled` | 1 URL, no restart | violates `UncertainWritesAreReported`: see Findings |
| `web_pages` | all parts but the check: 2 items, 2 revisions, 2 restorations, 1 further load, approvals not ready at first; 2 tabs, 3 saves, 2 loads, 1 restart; 2 URLs, 1 restart, another owner of the lease | `PostedIsShown`, `SavedIsStored`, `CodesAreTheirOwn`, `StatusIsTrue`, `InitialKeepsCredentials`; under fairness `PagesSettle`, `AttemptsEnd` |
| `reconciliation` | the part of `WebPages` that checks the stored credential: 2 requests (symmetric), 3 instants, a clock that may be set back, 1 operation, 2 rotations, 1 stop, appends that fail in all three ways | `ResultsAreTrue` |

The bounds. Two instants are the fewest in which an operation comes after
another one or not, three let a reply be approved, sent and expire; two
dispatches are the fewest with an earlier one, three let a retry follow a retry.
A second approval id is needed for a second request of the same proposal, a
second proposal for crossed bindings; nothing in the code relates more than two.
Two processes are enough for one to run while another stopped. `MaxTime` and
`MaxDispatches` bound the clock and the journal and are guards of `SetClock`,
`Tick` and `ReserveDispatch`; executions stop at them, so the ReplyExecution runs
do not check for deadlock (a reply that is finished has no further step either).

For `OAuthRotation`, two operations give every pair of refresh, reauthorization
and reconciliation; the code relates an operation to the journal and the
Keychain only, never to two others. Three credentials are the first, one that
is lost or late and one that replaces it; three instants give each its own
time; a second restart is one that happens while the first is being recovered
from. All of `MaxTime`, `MaxTokens` and `MaxCrashes` are guards (`SetClock`,
`Issue`, `Crash`). Deadlock is not checked: with the clock at its bound and
every append failing, or after an unreadable load, nothing more may happen.

For `RuntimeSupervisor`, one refresh runs while another one waits behind it
(`MaxRefreshes`); the identities are the old and the new one; two requests let
one hold the lease while the other one waits. `MaxRefreshes` is a guard of
`EnqueueRefresh`; everything else is finite without a bound.

For `UserPolling`, six instants are the fewest in which a first window, a second
one that begins within it, and a message indexed after the first one closed all
fit with a lookback of two. Two messages give a window of two pages, and a
conversation whose events arrive out of order. One message mentions the Bot and
one does not, so one has a second path and a body that depends on the settings.
`MaxTime`, `MaxBehind`, `Delivered` and `Edited` are guards of `Tick`, `SetClock`,
`Callback` and `Edit`. The run explores the loop while it runs (`LoopRuns`):
states in which it has stopped are checked, but not continued. What leaves such
a state is `Restart`, which was possible with the same outcome in the state
before, and steps of the environment and callbacks, which were possible there as
well. The theorems have no such restriction.

For `ThreadWork`, two revisions let an edit supersede what was proposed, two
messages make a target stale, two personas make a selection differ from that of
the draft, and two instants order a message after a draft. `Interruptible` bounds
the audits that may be missing to the model run's, `Answers` and `Outcomes` leave
out answers that end like another one. `RunIsNeeded` is a state constraint: a
model request is not followed further once its draft has an audit and a
proposal, as it would only find both. Deadlock is not checked there, nor in
`WebPages` and `Reconciliation`: at the bounds nothing more may happen.

For `BotReceipts`, three receipts fill a journal in which one message has two
contradicting lines or a joined one; the requests of `MCBotReceipts` are one per
check that may fail, and messages that agree or conflict. For
`OAuthAuthorization`, a second URL is what the tab of an earlier attempt meets,
or what the other controller shows. For `InboxPage`, two items let an answer
arrive after another one was selected, and a second restoration supersedes the
first. For `ConnectorSettings`, two tabs save different kinds or the same, and a
third save meets what both wrote. For `Reconciliation`, the second rotation is
the one that hides the first, and the second request the one that finds the
operation of the first pending and settles it while the first is still working.
One operation is enough: a second one begins only after the first was settled,
and what the journal says of it does not depend on the first; a rotation that ended
before the operation was requested may be the first rotation, ended by a refresh.
Three instants let an event be stamped before, at and after a request. `MaxTime`,
`MaxRows`, `MaxSequence` and `MaxCrashes` are guards of `SetClock`,
`BeginConnectorMaintenance`, `Reserve` and `Crash`; the theorem has none of them.

Fairness. `FairSpec` of `ReplyExecution` assumes of each process only that a step
it can take, or stopping, eventually happens: HTTP and Keychain calls have
timeouts, SQLite calls are synchronous, and `withLease()` releases in a
`finally`. It is not assumed that an execution is started, that Feishu answers
or that anything is retried.

`FairSpec` of `OAuthRotation` assumes that an operation that has started goes on
(WF of `Proceed`, which includes failing), and that refreshes are tried again
and are not cancelled every time (SF of `StartRefresh`, `ReadCredential`,
`Decide`): `search()` refreshes before every search of the polling loop. Nothing
is assumed of Feishu, of the person, of late Keychain writes or of the clock.
`StoredCredentialRecovers` therefore says what refreshes alone achieve.

`FairSpec` of `RuntimeSupervisor` assumes that a promise which can settle does
(WF of `Refresh`, `Shutdown`, `Admit`), that a loop whose signal was aborted ends
(it checks the signal after every await and passes it to its HTTP calls and
waits), and that requests end. It is not assumed that a loop that is not aborted
ends, that anyone saves, refreshes or shuts down, or that the other process
gives the port back. The web server aborts its requests when it closes and the
HTTP clients have timeouts, hence the assumption on requests.

`OAuthAuthorization` assumes that an attempt goes on (WF of `Proceed`, also in
`FairRouteSpec`): every
request and child process has a timeout, and the wait for the browser has a timer
(`StopWaiting`). Nobody has to click. That an attempt ends is stated as again and
again not being under way, since nothing bounds how often one is begun. `BotReceipts` assumes that the callback which
has its turn is worked on (WF of `Process`): the handler is synchronous, and file
operations end, if only by failing. `ConnectorSettings` and `InboxPage` assume that
the local server answers, or that its connection breaks, and nothing of the
person.

## 4. What is proved

`ActionStateProofs` proves, for every set of proposals and approvals and all
bounds, from `BoundsAssumption` and `NoneAssumption` only:

* `TypeCorrect`: `Spec => []TypeOK`;
* `RowsAlwaysFit`: `Spec => []RowsFitTogether`;
* `AlwaysAuthorised`: `Spec => []ExecutionAuthorised`;
* `AttemptConsistent`: the three attempt invariants, of which run `action` checks
  `StateAgreesWithReceipt`;
* `DispatchesInTime`: `Spec => []DispatchWithinApproval`;
* `NeverRevived`: `Spec => ClosedStaysClosed`.

The argument. The checked invariants are not inductive: that a journal and a
receipt exist only for a consumed approval needs `DecisionBoundsState` (which
states each decision allows), that a receipt touches only its own proposal needs
`OneApprovalPerProposal`, and that a dispatch lies within its approval needs
both `ApprovalChronology` and `StartedAfterConsumption` (a reservation is
compared with the proposal's `updatedAt`, not with the consumption). Together
with the attempt invariants they form `RowsFitTogether`. Every operation but
requests and transitions touches the rows of one attempt, so the proof is built
on `OneAttemptStep`: if an operation changes only the rows of one approval and
its proposal, and these fit afterwards (`AttemptFits`), all rows fit. One lemma
per operation then shows `AttemptFits`. `ExecutionAuthorised` follows from the
invariant alone (`RowsAuthorise`), `ClosedStaysClosed` from it and the guards of each operation.

It also proves `StoreKeepsLifecycle`: `Spec => KeepsLifecycle`. The view of an
action is taken from the approval that names it; `OneApprovalPerProposal`, part
of the inductive invariant, makes that approval unique. One lemma per operation
says what it does to the view of the action it is for (`DecideView`: it is
granted, withdrawn or unchanged; `ReserveView`: a send; `RecordView`: a report),
and `OtherViews` that no other view changes. That a send needs a clear way, and
that a paused action may have been reported as having done nothing, come from
`LatestBoundsState`.

`ReplyExecutionProofs` proves, for any processes, replies, approvals and bounds,
from `ReplyBoundsAssumption` and `StoreAssumption` (bounds are naturals, `None` is
none of the rows or processes), wherever processes stop and whatever Feishu
answers:

* `ExecutionsAlwaysFit`: `Spec => []ExecutionsFit`, the inductive invariant, and
  `TypeCorrect`;
* `ExecutionsUseTheStore`: `Spec => Store!Spec`: every step, a stop included, is
  one of `ActionState` or leaves the store alone, so that what is proved of
  `ActionState` holds of executions;
* `ExecutionsKeepLifecycle`: `Spec => Rows!KeepsLifecycle`: through the store,
  executions implement `ActionLifecycle`;
* `ApprovalIsAuditedFirst`: `Spec => []ApprovalAuditedFirst`;
* `EarlierPostsDidNothing`: `Spec => []EarlierDispatchesDidNothing`;
* `VerdictsAreTrue`: `Spec => []VerdictIsTrue` (of success and definite failure; an
  `uncertain` verdict claims nothing, and `misjudged` is excepted);
* `ResultsAreAuditedFirst`: `Spec => AuditBeforeReplacement`.

The argument. `ExecutionsFit` takes `RowsFitTogether` from `ActionState`, which any
step keeps once it is known to be one of the store (`StoreStep`,
`RowsAfterStep`), and adds what an execution knows at each step. It holds the
lease, so that nobody else moves the rows of its action (`RunFits`); the audits it has
written are there (`AuditsFit`); between its reservation and its receipt its POST
is the latest one, and the verdict it carries is true of the POST (`SendFits`). What
the POSTs became is tied to the settlements, not to the executions
(`PostsFit`): a dispatch settled as having done nothing was not accepted by
Feishu, and a receipt of success has an accepted one. That is what survives a stop: after one
between POST and receipt the dispatch stays open, and whoever finds it may
say `uncertain` or hand it to a person, but not that it did nothing. The one
exception, `misjudged`, is the finding of section 5. Of `ReplySend` the proof uses
three facts (`FailuresBeforePost`, `AcceptedIsNoFailure`, `RefusedIsNoSuccess`), each
proved by going through its answers.

`RuntimeSupervisorProofs` proves, for any number of requests, identities and
waiting refreshes, from `BoundsAssumption` and `NamesAssumption` (the names used in
the queue and for the port are different ones, and there is an identity):

* `SupervisorAlwaysFits`: `Spec => []SupervisorFits`, the inductive invariant;
* `PollingIsAlwaysOwned`: `Spec => []PollingIsOwned`;
* `PortAlwaysHasOneUse`: `Spec => []PortHasOneUse`;
* `SettingsAlwaysTakeEffect`: `Spec => []SettingsTakeEffect`.

The argument. Everything rests on the chain of promises being first in, first out
(`QueueFits`): once `quiesce` is queued nothing but requests and `close` follows it, and only the
transition at the head is under way. A request waits once in the chain, so that it
has one place when its turn comes. With that, `PortFits` says for each request what it
uses and that the owner's port outlives the requests it was lent to, `PollingFits`
that a refresh which replaces its owner has no loop, and `SettingsFit` that the
last refresh to read the settings has the stored ones for its target: either
a refresh still has to read them, or the one under way has, or the status says
what became of them. Proofs of steps go by what they do to the queue
(`DoneShifts`, `EnqueueAppends`, `DepartShifts`).

`OAuthRotationProofs` proves, for any set of operations, all bounds, a clock that
may go back and any kind of failing append:

* `TypeCorrect`: `Spec => []TypeOK`;
* `AlwaysCovered`: `Spec => []TokensCovered`;
* `NeverSentTwice`: `Spec => []TokenUsedOnce`;
* `RotationsAlwaysFit`: `Spec => []RotationsFit`, the inductive invariant of the
  Keychain;
* `AlwaysFreshWhenUnblocked`: `Spec => []UnblockedIsFresh`;
* `NewestIsAlwaysKept`: `Spec => NewestIsKept`;
* `JournalKeepsPromise`: `Spec => Journal!Spec`: it implements `RotationJournal`.

The argument. `TokenUsedOnce` is not inductive: it has to follow from the journal
that a token about to be sent was not sent before. An event *covers* a
credential if it shows it in use or used up: while unresolved by a `source` at
least as late as it, once resolved by a later `result`. `TokensCovered` says that
the latest event, in memory and in the file, covers every credential that was or
is about to be sent. Which event follows which preserves that
(`FollowsCovers`): a resolution has a result after its source, a reservation
follows only from a source not before the last result. And as the result is
strictly later than every covered credential, a new reservation is never for a
covered one (`ReserveStep`). `AppendKeepsCover` extends this to appends that
fail: the file may be one event ahead of memory or unreadable, never behind a
token that was sent. The remaining lemmas, one per group of actions, show that no
other action touches the journal or sends. Of `TokenExchange` they use only that
a failed refresh settles as one of the two unresolved states.

`RotationsFit` adds what the journal says of the Keychain. An event that resolves
a rotation means that the Keychain holds its result and that nothing is on its
way there any more; while a rotation is unresolved, the Keychain holds its
source or something newer, and at most one newer credential is on its way
(`KeychainFits`, `WritesFit`), that of a write which nobody waits for any more included. It holds of the
event in memory and of the one in the file, which may be a step ahead of it. The
operation whose work the event depends on is one at a time (`OwnersFit`), because
an answer and a late write belong to the rotation of one sequence; everybody
else has read a credential that is in the Keychain or not newer than the
source (`ReadsFit`), which is why a reconciliation that compares what it has read
twice may settle. `UnblockedIsFresh` follows with `TokensCovered`, `NewestIsKept` from
each write's place in `WritesFit`.

That the journal implements `RotationJournal` is about the file and the memory of
successive processes. The memory shows the last event; an append that reports
success is a `Begin` or an `Advance` (`FollowsRecords`). One that fails may leave its
line in the file, and the next process then loads an event its predecessor never
acknowledged. `FileFits` says that it is one that may follow the event in memory
(`AppendImplements`), so that loading it is again one abstract step or none, and
that a file which cannot be read stays so (`LoadImplements`). No other action
touches the journal (`JournalMoves`). That the next rotation is of a newer credential
needs that a result is newer than its source (`ResultIsNewer`), which
`Chronological` checks. TLC agrees on the instance of `oauth_rotation`, for `FileFits`
and the refinement both.

`UserPollingProofs` proves, for any messages, conversations and bounds, any
options within `OptionsAssumption`, a clock that lags by any amount, and a loop
that may be started again at any time:

* `NothingIsSkipped`: `Spec => []NothingSkipped`;
* `CursorIsAlwaysForward`: `Spec => []CursorIsNeverRefused`;
* `WatermarkOnlyFollowsWindows`: `Spec => WatermarkFollowsWindows`;
* `StatesAreStoredOnce`: `Spec => []OneEventPerState`;
* `ThreadsAlwaysShowTheNewest`: `Spec => []ThreadsShowTheNewest`.

The argument. That nothing before the watermark was skipped depends on the window
under way: it must join what is covered already, and everything it has listed so
far must be stored (`WindowFits`), both in the stored cursor and in the search that
waits, whose answer belongs to the world as it is by then. `DueIsIndexed` is the
timing: a window ends `IndexingDelay` before the local clock, which does not run
ahead of Feishu's, so every message that took at most `MaxIndexing`
and was created `Slack` before that end is indexed; what was created later is
left to the overlap of the next window, and `Slack <= Overlap`. `PageIsStored` says
that a commit stores what the page listed, and `PageFits` that its cursor is again
one that fits, in the three cases of a last page, another page and a page with
details missing. `QuietStep` covers all the other actions, which leave store and
search alone (`EnvironmentGoesOn`). `CursorFits` and `SearchFits` also order the
cursor before the waiting search, from which the other two properties follow; a
cursor is never refused because the search that offers it is later in time
and ends at or after the stored watermark.

That a thread shows the newest event is, for one batch, `CommitShowsTheNewest`: what
a commit adds to a conversation are exactly the events that were missing, as it is
refused if one conflicts, and the projection is the newest of all events
(`GroupShowsTheNewest`). That there is a newest one (`NewestExists`) looks like an
induction over a finite set, but is none here: no event is later than the time of
observation, and a set of naturals has a least element (`LeastExists`, from the
well-foundedness of `<`). It is for this proof that `NoneAssumption` says that `None`
is no number, cursor, window or thread.

`ThreadWorkProofs` proves, for any personas, texts, messages, revisions and bounds,
from `ThreadBoundsAssumption`, `TtlAssumption`, `StoreAssumption`,
`ThreadNoneAssumption` and `CallsNoneAssumption` (bounds are naturals, a lifetime is
positive, and `None` is none of the names, rows and calls):

* `WorkAlwaysFits`: `Spec => []WorkFits`, the inductive invariant, and `TypeCorrect`;
* `AlwaysOneDraft`: `Spec => []OneDraftToWorkOn`;
* `DraftIsAlwaysTheAnswer`: `Spec => []DraftIsTheRunsAnswer`;
* `AuditsAreAlwaysTrue`: `Spec => []AuditsAreTrue`;
* `DeletedStaysGone`: `Spec => []DeletedIsGone`;
* `FlowIsAlwaysRestored`: `Spec => []FlowIsRestored`;
* `SessionIsNeverRunAgain`: `Spec => NeverRunAgain`;
* `StaleIsAlwaysInert`: `Spec => StaleIsInert`;
* `ConversationsUseTheStore`: `Spec => Actions!Init`, and each step that changes rows is
  one of `ActionState`, the creation of a proposal that has no other rows yet
  (`Created`), or the deletion of the thread (`Removed`);
* `ConversationsAreAuthorised`: `Spec => []Actions!ExecutionAuthorised` and
  `[]Actions!StateAgreesWithReceipt`;
* `ConversationsKeepLifecycle`: `ThreadWork` implements `ActionLifecycle` until the
  thread is deleted: each step is one of it, none of it, or `Removed`.

The argument. Approvals, receipts and dispatches are those of `ActionState`, with
the proposal's name for the approval's, so each step but a new proposal and the
deletion is one of the store (`StepOfStore`), and `RowsFitTogether` comes from
`ActionStateProofs`; those two are shown to keep it by themselves (`ProposalStep`,
`DeletionStep`). `RowsBelong` ties the rows to the thread: without a thread there are
no drafts, proposals or audits, and an approval is of a proposal that was created,
in one of the states its decision allows. `DeletedIsGone` is a part of it, and it
is inductive only because every request looks at the stored thread again after
its `await`. Drafts change in four ways (`DraftsStep`: linked, submitted, revised,
removed), and while there is a thread they only grow, and leave `editing` for good
(`DraftsGrow`); that keeps the chain of revisions, the proposals of those that
were under review, and the audits of edits that happened. `GenerationFits` says how
far a model request is, and that while it runs there is no draft: so the first
draft can only be of its answer. `FlowIsRestored` goes through the states of the
rows, which `RowsFitTogether` limits. `NeverRunAgain` and `StaleIsInert` hold of each
step by what the request finds when it reads the store.

With `RowsFitTogether` in `WorkFits`, the invariants of the store hold of a
conversation although its deletion is no operation of the store
(`ConversationsAreAuthorised` by `RowsAuthorise`). For the life cycle, each step of
the store is one of `ActionLifecycle` by `LifecycleStep`, which asks of the
states before and after it only that the rows fit together. A new proposal is
open and has no dispatch, as has one that does not exist yet, so its creation is a
stuttering step (`CreatedView`); the deletion takes the rows away, and with them
what the action looked like.

`BotReceiptsProofs` proves, for any messages, requests, calls and capacity of the
journal, from `BotAssumption`:

* `ReceiptsAlwaysFit`: `Spec => []ReceiptsFit`, the inductive invariant, and
  `TypeCorrect`;
* `ReceiptsAreOfStoredEvents`: `Spec => []ReceiptsNameStoredEvents`;
* `AcknowledgedStaysFinal`: `Spec => AcknowledgedIsFinal`.

The argument. That an acknowledged message is not handled again is remembered by
the file and the cache, either of which may be damaged. `AcknowledgedIsRemembered`
says what is left: the journal names the message, or has a joined line and cannot
be read, and the cache holds it once it is loaded. As the file only grows
(`JournalOnlyGrows`), a torn tail is not a line yet, and a message acknowledged
without a line of its own was found in the cache, which names only what the
journal names (`CacheIsNamed`), no failing append takes that back. A callback that
was handled has its event in the database before its receipt (`HandledIsStored`).

`BrowserProofs` has four parts, tied together by `PagesAreTheirParts`: `RouteSpec`
implements `Inbox!Spec`, `Settings!Spec`, `Recovery!Spec` and the `Spec` of
`OAuthAuthorization`, because a step of `RouteNext` is one of one part and leaves the
others as they are. Of `OAuthAuthorization` it proves, for any number of
URLs and crashes:

* `CodesStayTheirOwn`: `Spec => []CodesAreTheirOwn`;
* `StatusIsAlwaysTrue`: `Spec => []StatusIsTrue` (of a cancelled attempt, unless
  the host's verdict was that the Keychain is to be reconciled: section 5);
* `CredentialsAreKept`: `Spec => InitialKeepsCredentials`.

The argument. `StatusIsTrue` speaks of finished attempts only, so `KeychainFits`
follows an attempt on its way: until its write has begun, and after an outcome
that says so, its credential is neither in the Keychain nor on its way there;
after a write that was seen to succeed it got there. A write of unknown outcome
is in neither set, which is what "reconcile" is for. An attempt that ends keeps
the verdict of its host beside the status the page is told, because a cancellation
replaces the one by the other (`VerdictsAreGiven`, `Ending`). That nobody else's step
disturbs this needs `NumbersAreUnique`: a credential has the number of one attempt,
and a write that lands late is one already counted. `InitialKeepsCredentials` rests
on `LeaseKeepsOthersOut`: from the check on, either no other credential is stored
or the lease is gone, and a lost lease does not come back to an attempt, so the
last look at it before the write suffices. There is one lemma per action.

Of `Reconciliation`, for any number of requests, operations, rotations and stops, if
the bounds are numbers and `None` is no result (`RecoveryAssumption`):

* `RecoveryAlwaysFits`: `Recovery!Spec => []RecoveryFits`, the inductive invariant;
* `ResultsAreAlwaysTrue`: `RouteSpec => []ResultsAreTrue`;
* `RotationsKeepPromise`: `Recovery!Spec => [][Journal!Next]_(Journal!vars)`: what
  happens to the journal are steps of `RotationJournal`. (The model starts with a
  rotation that is uncertain already, hence not `Journal!Spec`.)

The argument. Nothing orders the stamps, so the invariant speaks of the journal
instead. The file is at most one event ahead of the memory (`FileFits`): it holds
the last event of the process, or one that may follow it, whose append failed. So
a start takes over the same event, a next one, or cannot read the journal, and
every step of the system moves the journal on in this sense (`JournalMoves`,
`JournalAlwaysGoesOn`). Hence rotations that have ended stay ended (`EndedGrows`),
and an operation that found the journal unresolved when it looked may be credited
with an event that ended after its request. What is credited by its stamp alone
(`TerminalAfterRequest`) is sound in one direction: at the request, an end that is
stamped with that moment or a later one does not count as having ended before
(`EndedBefore`), so an event that passes the comparison is the end of a rotation
not counted. What an operation resolved itself stays the last event until the next
rotation begins (`RowFits`), so whoever settles the operation finds it, unless its
stamp lies before the request (`Excused`). Two requests never work on one operation
(`OwnRows`): the one that finds an operation pending settles it and goes no further.

For `RotationJournal`, which knows a journal that cannot be read as an empty one, an
event that may follow is a `Begin` or an `Advance` (`FollowingRecords`, which needs that a
result is newer than its source, as `Chronological` checks), and a start that cannot
read the file is a `Lose`. Failing appends and the interleaving of checks with
other operations are covered by `JournalAlwaysGoesOn`.

Of `ConnectorSettings`, for any number of pages, saves, loads and restarts, if `None`
is no page, no file and no save (`SettingsAssumption`):

* `SettingsAlwaysFit`: `Settings!Spec => []SettingsFit`, the inductive invariant;
* `SavedIsAlwaysStored`: `RouteSpec => []SavedIsStored`.

The argument. A save waits once in the host's queue and only the one at its head
has read a file (`QueueFits`), so what it has read is what is stored when it writes
(`SaveFits`). Writes add an identity and keep the others, or replace the OAuth
settings of the application that stays; so none takes back what is in the files
for another page (`FilesStay`).

Of `InboxPage`, for any items, services, revisions, restorations and loads, if
`None` is no item, flow, post or result (`InboxAssumption`):

* `InboxAlwaysFits`: `Inbox!Spec => []InboxFits`, the inductive invariant;
* `PostedIsAlwaysShown`: `RouteSpec => PostedIsShown`.

The argument. Only a decision is hard: its button is that of the approval, and what
is posted is the preview. So `ApprovalFits` says of a preview beside an approval
that it is of the selected item, and has the approval's revision if both are of
one item. It becomes true when the answer to a request or decision arrives, and
`PostedFits` prepares it: while an approval is posted no answer is awaited that would
replace the preview (`PreviewStays`), so that a preview of its item can only be the
one it was posted from or one that a restoration brings; and as nothing else
changes the revision of a flow, what a restoration has read since is that of
the approval, if that was taken at all. A restoration that had read an older one
was awaited when the approval was posted, which the page forbids: while the
newest one waits it says that it restores (`RestoresFit`).

`SavedIsStored`, `PostedIsShown` and `ResultsAreTrue` are properties of `WebPages`:
they follow by `PagesAreTheirParts` from the inductive invariants of the parts.

Left to TLC: liveness (`LeaseIsReleased`, `QueueIsReleased`,
`StoredCredentialRecovers`, `ShutdownCompletes`, `RequestsAreAnswered`,
`CallbacksAreAnswered`, `AttemptsEnd`, `PagesSettle`), which rests on fairness and so
on ENABLED and is outside the prover's reach. Every invariant and every action
property of a passing run has a theorem. No module has a recursive definition.

## 5. Findings

`reply_resend`: `docs/ACTION_DISPATCH_JOURNAL.md:45` says that if a process stopped
after reservation but before the result and receipt were durable, a subsequent
execution cannot reserve another send. The run shows one that does: (1) an
execution reserves, Feishu accepts the POST, the process stops; (2) the next
execution calls `prepare` before it looks at the journal, the preparation is
temporarily unavailable, and the resulting `retry_same_key` receipt settles the
open dispatch of (1); (3) the third execution finds a dispatch that "did
nothing", reserves ordinal 2 and posts again. The same idempotency key is sent,
so Feishu suppresses the duplicate as long as it remembers the key. The other
properties of `ReplyExecution` except such an attempt (`misjudged`).

`authorization_cancelled`: `docs/WORKBENCH_FEISHU_OAUTH_AUTHORIZATION_UI.md:12` says
that an uncertain Keychain write routes to reconciliation instead of blind retry,
and `docs/WORKBENCH_FEISHU_OAUTH_AUTHORIZATION_RUNTIME.md:73` that it retains its
`reconcile_keychain` recovery. The run shows an attempt that is cancelled while
`security` writes the credential: the host reports that the Keychain is to be
reconciled, but as the attempt was aborted, the controller tells the page
`cancelled`, without a recovery (`feishu-oauth-authorization-controller.ts:345-347`,
`feishu-oauth-reauthorization-controller.ts:359`). The credential may be stored by
then, or later. `StatusIsTrue` says that this is the only case in which `cancelled`
or `failed` is said of an attempt whose credential got, or may get, to the Keychain.

Seen while reading and modelling, without a run of their own:

* An execution that is repeated after a `retry_same_key` receipt and stops between
  its start and its next receipt leaves the proposal `executing` over the older
  receipt. The flow controller then refuses the flow
  (`feishu-reply-flow-controller.ts:292`), where
  `docs/WORKBENCH_FEISHU_REPLY_FLOW_RESTORATION.md:54-57` has an approved flow with
  an incomplete execution expose the execution again. `FlowIsRestored` states
  that this is the only such state.
* After a refresh, a pending approval is shown with its buttons enabled, but a
  restoration at that stage sets no preview, which `mutateFeishuReplyApproval`
  wants (`web/src/app.ts:1052`, `:1457`): a click does nothing. It is a disabled step
  of `InboxPage`.
* The answer to a click on one item replaces the results shown for another one
  that was selected meanwhile (`app.ts:1280`). What is shown depends on the item of
  each result, so nothing wrong is posted (`PostedIsShown`); the other item looks
  empty until it is selected again.
* The prompt of a model run contains `updatedAt` of the work item. After any
  change of it the stored answer does not match, and the run cannot be recovered
  (`model-draft-controller.ts:370`), where `docs/HARNESS_MODEL_DRAFT_RUNTIME.md:66`
  says that a later retry can.
* A replayed page does not always converge, as
  `docs/WORKBENCH_FEISHU_USER_POLLING_RUNTIME.md:35` says: after a Bot is added, a
  stored group message that mentions it now requires a reply, and its event
  conflicts with the stored one. The page is refused, the loop ends, and as its
  cursor has not moved, each restart meets the same page.
* A callback that commits to a thread while a search waits lets the page's
  projection carry the older time, and the storage refuses the page
  (`projection_conflict`); a message edited while a search waits is refused as
  observed before its source time (`observed_early`). Both end the loop, where
  `docs/FEISHU_MESSAGE_NORMALIZATION.md:51` has the caller normalize again; both
  are steps of `UserPolling`, and a restart recovers from them.
* A connection that breaks while the body of a search is read counts as
  `invalid_response`, which is not retryable: the loop stops, although a connection
  that breaks before it is retried (`MessageSearch`).
* After an append that left a part of its line, the rotation journal goes on
  appending to that part, so that the next reservation is not a line of its own
  and the next process cannot read it, where
  `docs/FEISHU_OAUTH_ROTATION_COORDINATOR.md:29` wants every reservation durable. No
  token is sent twice even so (`NeverSentTwice`). The receipt journal of the Bot
  joins lines in the same way, and is not readable any more then; nor does a full
  one take receipts: callbacks are refused, and what they bring is left to the search.
* `docs/WORKBENCH_FEISHU_OAUTH_RECONCILIATION.md:20` has a reconciliation acquire the
  exclusive lease before it persists its operation. Requests of one process share
  the lease of the polling owner (`feishu-runtime-owner.ts`), so a second one can
  find the first one's operation pending while the first is still comparing, and
  settles it as `still_required` from the journal
  (`feishu-oauth-reconciliation-runtime.ts:230`). The first may then resolve the
  journal, and the audit says `still_required` of an operation that reconciled.
  `ResultsAreTrue` excepts what is resolved after the operation was settled.
* `docs/WORKBENCH_FEISHU_OAUTH_RECONCILIATION.md:50` says that older terminal evidence
  cannot be attributed to a newer request, and line 54 that durable terminal
  success remains authoritative. Both are decided by comparing wall-clock times
  (`terminalAfterRequest`), so they hold as far as the clock is not set back: an end
  stamped before the clock was set back passes for one after the request, and a
  resolution stamped with a time before the request is not found by the recovery
  or after a late cancellation, which then audit `failed` or `cancelled`. `ResultsAreTrue`
  states what is left (`EndedBefore`, and its second exception).
* A check whose append fails although its whole line reached the file is audited as
  failed (`oauth-rotation-coordinator.ts:316-320`); after the next start the same line
  is the durable end of the rotation. `own` is not set by such an append, so
  `ResultsAreTrue` says nothing of it; that the journal itself goes on in order is
  `RotationsKeepPromise`.
* A refresh of the supervisor reads the identities before it stops polling. If
  the read fails, the status asks for a restart of the host, and the old loop
  polls on.
* A renewed authorization writes the Keychain without a last look at the lease,
  unlike the first one (`Verify`).
* `docs/WORKBENCH_CORDIS_FEISHU_POLLING_RUNTIME.md` lists the polling database as
  closed before the owner is drained and released; `close()` does it the other
  way round. Nothing writes through it any more by then (`PollingIsOwned`).

## 6. Plan

Done: the action store with its lifecycle, the reply with its clients, the
conversation with drafts and proposals, polling with its client, Bot receipts,
rotation with the token endpoint, authorization, reconciliation, the supervisor,
and both pages with state; and a theorem for each of their safety properties.

Also done: that executions, and conversations until their deletion, keep the
promise of `ActionLifecycle`; and that rotations and reconciliations keep that of
`RotationJournal`, so that the two modules which describe the journal at different
levels of detail agree on it. `OAuthAuthorization` is left out of the latter: it
knows of the journal only which of three answers it gives to an authorization, and
one of its steps stands for whole rotations of another owner.

What would come next: a single specification of the database in which
`ReplyExecution` and `ThreadWork` are parts, and not two views of the same store.

## 7. Not modelled

* Context retrieval (`context-retrieval.ts`): no product path calls it, and it
  keeps no state.
* The export of a thread, diagnostics, live readiness, the audit page and
  presentations only read.
* The rebuild of work items and the ingestion of events without projections are
  called by fixtures and tests only.
* Parsing and encoding of bundles and files, SQL text and migrations, prompt
  assembly, rendering, routes to static files, and the zeroing of secrets are
  sequential data handling.
* The second half of the authorization code (its token request and user info) has
  the shape of `TokenExchange` with every failure final for the attempt, and is
  one failing step of `OAuthAuthorization`.
* Fixtures, presets, the view plug-in and the empty Jira connector have no
  behaviour of their own.

`PROJECT.json` lists every component with its status and its sources.
