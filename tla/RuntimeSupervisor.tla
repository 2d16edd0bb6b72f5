--------------------------- MODULE RuntimeSupervisor ---------------------------
(***************************************************************************)
(* How the workbench owns the Feishu connector.  A supervisor runs one     *)
(* polling loop under an owner that holds the loopback lease, restarts     *)
(* both when the stored identity changes, lends the lease to the requests  *)
(* of the web server, and stops everything on shutdown.                    *)
(*                                                                         *)
(* Its transitions (refresh, quiesce, close) run one after the other on a  *)
(* chain of promises; a request awaits the end of that chain, so a request *)
(* and the transitions share one first-in first-out queue.                 *)
(***************************************************************************)
EXTENDS Naturals, Sequences, FiniteSets

CONSTANTS
  None,            \* no user identity, no owner, no polling, free port
  Op,              \* requests that use the lease
  Identity,        \* user identities that may be configured
  MaxRefreshes,    \* bound: refreshes waiting at the same time
  StoreMayFail,    \* whether reading the identity store may fail
  OtherProcess     \* whether another process may hold the lease

ASSUME BoundsAssumption ==
  /\ MaxRefreshes \in Nat /\ StoreMayFail \in BOOLEAN /\ OtherProcess \in BOOLEAN

Transition == {"refresh", "quiesce", "close"}

VARIABLES
  stored,      \* the identity in the settings store
  announced,   \* whether a refresh was requested since it was last saved
  queue,       \* transitions and requests, in the order in which they run
  step,        \* how far the transition at the head is
  target,      \* the identity the running refresh has read
  owner,       \* the owner and whether it accepts requests
  polling,     \* the polling loop
  port,        \* who holds the loopback port
  request,     \* each request: where it is and the identity it acts for
  quiescing, closing,
  status,      \* what the diagnostics are told
  database     \* the polling database handle

vars == <<stored, announced, queue, step, target, owner, polling, port,
          request, quiescing, closing, status, database>>

Step == {"none", "read", "stopping", "closing", "draining", "starting"}
Owner == [identity : Identity, accepting : BOOLEAN]
Polling == [identity : Identity, running : BOOLEAN, aborted : BOOLEAN]
Place == {"idle", "waiting", "shared", "acquiring", "base"}
Status == {"disabled", "starting", "running", "attention", "stopped"}

ASSUME NamesAssumption ==
  /\ Identity # {}
  /\ Op \cap (Transition \cup {"owner", "other"}) = {}
  /\ None \notin Op \cup Identity \cup {"owner", "other"}
  /\ None \notin Owner /\ None \notin Polling

At(o, place) == request[o].place = place
Goto(o, place) == request' = [request EXCEPT ![o].place = place]

\* Requests that use the owner's lease, and those that acquire it themselves.
Borrowers == {o \in Op : At(o, "shared")}
BaseOperations == {o \in Op : At(o, "acquiring") \/ At(o, "base")}

Enqueue(item) == queue' = Append(queue, item)
Running(transition) == queue # <<>> /\ Head(queue) = transition
Done == queue' = Tail(queue) /\ step' = "none"

(***************************************************************************)
(* Settings                                                                *)
(***************************************************************************)

\* Creating an identity, or an OAuth update or authorization of it.
Save ==
  /\ \E identity \in Identity \cup {None} : stored' = identity
  /\ announced' = FALSE
  /\ UNCHANGED <<queue, step, target, owner, polling, port, request,
                 quiescing, closing, status, database>>

RefreshesWaiting == Cardinality({i \in DOMAIN queue : queue[i] = "refresh"})

\* Mutated form: a request for a refresh is dropped while another one is pending.
EnqueueOneRefresh == IF RefreshesWaiting > 0 THEN UNCHANGED queue ELSE Enqueue("refresh")

EnqueueRefresh == RefreshesWaiting < MaxRefreshes /\ Enqueue("refresh")

RequestRefresh ==
  /\ IF quiescing THEN UNCHANGED queue ELSE EnqueueRefresh
  /\ announced' = TRUE
  /\ UNCHANGED <<stored, step, target, owner, polling, port, request,
                 quiescing, closing, status, database>>

(***************************************************************************)
(* The polling loop                                                        *)
(***************************************************************************)

StartPolling(identity) ==
  /\ polling' = [identity |-> identity, running |-> TRUE, aborted |-> FALSE]
  /\ status' = "running"

\* Mutated form: the loop is not given the abort signal.
KeepPolling == UNCHANGED polling

AbortPolling == polling' = IF polling = None THEN None ELSE [polling EXCEPT !.aborted = TRUE]

\* The loop gives its lease back, because of an error or the abort signal.
PollingEnds ==
  /\ polling # None /\ polling.running
  /\ polling' = [polling EXCEPT !.running = FALSE]
  /\ UNCHANGED <<stored, announced, queue, step, target, owner, port, request,
                 quiescing, closing, status, database>>

PollingReports ==
  /\ polling # None /\ ~polling.running
  /\ status' = IF polling.aborted THEN status ELSE "attention"
  /\ polling' = None
  /\ UNCHANGED <<stored, announced, queue, step, target, owner, port, request,
                 quiescing, closing, database>>

(***************************************************************************)
(* refresh                                                                 *)
(***************************************************************************)

\* Mutated form: a rejected transition is left at the end of the chain.
RefreshBlocksChain ==
  /\ status' = IF quiescing THEN status ELSE "attention"
  /\ UNCHANGED <<queue, step>>

RefreshFails ==
  /\ status' = IF quiescing THEN status ELSE "attention"
  /\ Done

BeginRefresh ==
  /\ Running("refresh") /\ step = "none"
  /\ IF quiescing
     THEN RefreshFails
     ELSE status' = "starting" /\ step' = "read" /\ UNCHANGED queue
  /\ UNCHANGED <<stored, announced, target, owner, polling, port, request,
                 quiescing, closing, database>>

ReadIdentity ==
  /\ Running("refresh") /\ step = "read"
  /\ \/ /\ target' = stored
        /\ AbortPolling /\ step' = "stopping"
        /\ UNCHANGED <<queue, status>>
     \/ /\ StoreMayFail
        /\ RefreshFails
        /\ UNCHANGED <<target, polling>>
  /\ UNCHANGED <<stored, announced, owner, port, request, quiescing, closing, database>>

Configured(identity) == identity # None

Owns(identity) == owner # None /\ owner.accepting /\ owner.identity = identity

Withdraw == owner' = IF owner = None THEN None ELSE [owner EXCEPT !.accepting = FALSE]

\* Mutated form: the aborted loop is not awaited.
PollingHasStoppedAtOnce == TRUE

PollingHasStopped == polling = None

\* The same owner polls again; any other one is withdrawn first.
RefreshStopped ==
  /\ Running("refresh") /\ step = "stopping" /\ PollingHasStopped
  /\ \/ /\ Configured(target) /\ Owns(target)
        /\ StartPolling(target) /\ Done
        /\ UNCHANGED owner
     \/ /\ ~(Configured(target) /\ Owns(target))
        /\ Withdraw /\ step' = "closing"
        /\ UNCHANGED <<polling, status, queue>>
  /\ UNCHANGED <<stored, announced, target, port, request, quiescing, closing, database>>

\* Nothing uses the owner's lease any more.
Drained == Borrowers = {} /\ (polling # None => ~polling.running)

Release ==
  /\ port' = (IF owner = None THEN port ELSE None)
  /\ owner' = None

RefreshReleased ==
  /\ Running("refresh") /\ step = "closing" /\ Drained
  /\ Release
  /\ IF Configured(target)
     THEN step' = "draining" /\ UNCHANGED <<status, queue>>
     ELSE status' = "disabled" /\ Done
  /\ UNCHANGED <<stored, announced, target, polling, request, quiescing, closing, database>>

BaseDrained == BaseOperations = {}

RefreshDrained ==
  /\ Running("refresh") /\ step = "draining" /\ BaseDrained
  /\ IF quiescing
     THEN RefreshFails
     ELSE step' = "starting" /\ UNCHANGED <<status, queue>>
  /\ UNCHANGED <<stored, announced, target, owner, polling, port, request,
                 quiescing, closing, database>>

StartOwner ==
  /\ Running("refresh") /\ step = "starting"
  /\ IF port = None
     THEN /\ port' = "owner"
          /\ owner' = [identity |-> target, accepting |-> TRUE]
          /\ StartPolling(target) /\ Done
     ELSE RefreshFails /\ UNCHANGED <<port, owner, polling>>
  /\ UNCHANGED <<stored, announced, target, request, quiescing, closing, database>>

(***************************************************************************)
(* quiesce and close                                                       *)
(***************************************************************************)

Quiesce ==
  /\ ~quiescing
  /\ quiescing' = TRUE
  /\ Enqueue("quiesce")
  /\ UNCHANGED <<stored, announced, step, target, owner, polling, port, request,
                 closing, status, database>>

BeginQuiesce ==
  /\ Running("quiesce") /\ step = "none"
  /\ AbortPolling /\ step' = "stopping"
  /\ UNCHANGED <<stored, announced, queue, target, owner, port, request,
                 quiescing, closing, status, database>>

Quiesced ==
  /\ Running("quiesce") /\ step = "stopping" /\ PollingHasStopped
  /\ status' = "stopped" /\ Done
  /\ UNCHANGED <<stored, announced, target, owner, polling, port, request,
                 quiescing, closing, database>>

\* close() calls quiesce() first and queues its own transition after it.
Close ==
  /\ ~closing /\ status = "stopped"
  /\ closing' = TRUE
  /\ Enqueue("close")
  /\ UNCHANGED <<stored, announced, step, target, owner, polling, port, request,
                 quiescing, status, database>>

BeginClose ==
  /\ Running("close") /\ step = "none" /\ BaseDrained
  /\ Withdraw /\ step' = "closing"
  /\ UNCHANGED <<stored, announced, queue, target, polling, port, request,
                 quiescing, closing, status, database>>

\* The owner lets go of the port; the database handle is closed afterwards.
CloseReleased ==
  /\ Running("close") /\ step = "closing" /\ owner # None /\ Drained
  /\ Release
  /\ UNCHANGED <<stored, announced, queue, step, target, polling, request,
                 quiescing, closing, status, database>>

Closed ==
  /\ Running("close") /\ step = "closing" /\ owner = None
  /\ database' = "closed" /\ Done
  /\ UNCHANGED <<stored, announced, target, owner, polling, port, request,
                 quiescing, closing, status>>

(***************************************************************************)
(* Requests                                                                *)
(***************************************************************************)

\* A request awaits the transitions queued so far.
WithLease(o) ==
  /\ At(o, "idle")
  /\ \E identity \in Identity :
       request' = [request EXCEPT ![o] = [place |-> "waiting", identity |-> identity]]
  /\ Enqueue(o)
  /\ UNCHANGED <<stored, announced, step, target, owner, polling, port,
                 quiescing, closing, status, database>>

\* Mutated form: a request goes on in the middle of a transition.
TurnAtAnyTime(o) == At(o, "waiting")

\* All transitions it waited for are over, and no later one has begun.
Turn(o) == queue # <<>> /\ Head(queue) = o

Lend(o) == ~quiescing /\ Owns(request[o].identity)

\* There is no owner: the request acquires the lease itself.
Alone(o) == ~quiescing /\ owner = None

\* Its wait is over.
Depart(o) ==
  \E i \in DOMAIN queue :
    queue[i] = o /\ queue' = SubSeq(queue, 1, i - 1) \o SubSeq(queue, i + 1, Len(queue))

\* Refused: stopped, another identity, or cancelled.
Admit(o) ==
  /\ Turn(o)
  /\ Depart(o)
  /\ \/ Lend(o) /\ Goto(o, "shared")
     \/ Alone(o) /\ Goto(o, "acquiring")
     \/ Goto(o, "idle")
  /\ UNCHANGED <<stored, announced, step, target, owner, polling, port,
                 quiescing, closing, status, database>>

AcquireAlone(o) ==
  /\ At(o, "acquiring")
  /\ \/ port = None /\ port' = o /\ Goto(o, "base")
     \/ UNCHANGED port /\ Goto(o, "idle")   \* in use or cancelled
  /\ UNCHANGED <<stored, announced, queue, step, target, owner, polling,
                 quiescing, closing, status, database>>

\* The request ends, in whatever way.
Leave(o) ==
  /\ At(o, "shared") \/ At(o, "base")
  /\ port' = IF At(o, "base") THEN None ELSE port
  /\ Goto(o, "idle")
  /\ UNCHANGED <<stored, announced, queue, step, target, owner, polling,
                 quiescing, closing, status, database>>

OtherAcquires ==
  /\ OtherProcess /\ port = None /\ port' = "other"
  /\ UNCHANGED <<stored, announced, queue, step, target, owner, polling, request,
                 quiescing, closing, status, database>>

OtherReleases ==
  /\ port = "other" /\ port' = None
  /\ UNCHANGED <<stored, announced, queue, step, target, owner, polling, request,
                 quiescing, closing, status, database>>

\* The first refresh of the start-up has yet to be requested.
Init ==
  /\ stored \in Identity \cup {None} /\ announced = FALSE
  /\ queue = <<>> /\ step = "none" /\ target = None
  /\ owner = None /\ polling = None /\ port = None
  /\ request \in [Op -> {[place |-> "idle", identity |-> i] : i \in {CHOOSE i \in Identity : TRUE}}]
  /\ quiescing = FALSE /\ closing = FALSE
  /\ status = "disabled" /\ database = "open"

Refresh ==
  \/ BeginRefresh \/ ReadIdentity \/ RefreshStopped \/ RefreshReleased
  \/ RefreshDrained \/ StartOwner

Shutdown ==
  BeginQuiesce \/ Quiesced \/ BeginClose \/ CloseReleased \/ Closed

Next ==
  \/ Save \/ RequestRefresh
  \/ PollingEnds \/ PollingReports
  \/ Refresh \/ Quiesce \/ Close \/ Shutdown
  \/ \E o \in Op : WithLease(o) \/ Admit(o) \/ AcquireAlone(o) \/ Leave(o)
  \/ OtherAcquires \/ OtherReleases

Spec == Init /\ [][Next]_vars

\* Promises that can settle do; requests and aborted polling end.
Fairness ==
  /\ WF_vars(Refresh) /\ WF_vars(Shutdown)
  /\ WF_vars(PollingEnds /\ polling.aborted) /\ WF_vars(PollingReports)
  /\ \A o \in Op : WF_vars(Admit(o)) /\ WF_vars(AcquireAlone(o)) /\ WF_vars(Leave(o))

FairSpec == Spec /\ Fairness

(***************************************************************************)
(* Properties                                                              *)
(***************************************************************************)

\* Types of the variables.
TypeOK ==
  /\ stored \in Identity \cup {None} /\ announced \in BOOLEAN
  /\ queue \in Seq(Op \cup Transition) /\ step \in Step
  /\ target \in Identity \cup {None}
  /\ owner \in Owner \cup {None} /\ polling \in Polling \cup {None}
  /\ port \in Op \cup {"owner", "other", None}
  /\ request \in [Op -> [place : Place, identity : Identity]]
  /\ quiescing \in BOOLEAN /\ closing \in BOOLEAN
  /\ status \in Status /\ database \in {"open", "closed"}

\* The polling loop runs only under an owner of the very identity it polls
\* for, while that owner holds the port and the database is open.
PollingIsOwned ==
  polling # None /\ polling.running =>
    /\ Owns(polling.identity) /\ port = "owner"
    /\ database = "open"

\* The port is used for one purpose at a time: borrowed access ends before the
\* lease it stands for is given back and is only for the owner's identity, and
\* the supervisor never competes with its own requests, since while one of them
\* acquires or holds the lease there is no owner and none is started.
PortHasOneUse ==
  /\ \A o \in Borrowers : owner # None /\ owner.identity = request[o].identity /\ port = "owner"
  /\ BaseOperations # {} => owner = None /\ step # "starting"

\* With no transition pending, a status of running is about a loop of the
\* identity last saved, and a disabled connector has none configured, has no
\* owner and polls nothing.
SettingsTakeEffect ==
  announced /\ ~quiescing /\ (\A i \in DOMAIN queue : queue[i] \notin Transition) =>
    /\ status = "running" => polling # None /\ polling.identity = stored
    /\ status = "disabled" => stored = None /\ owner = None /\ polling = None
    /\ status # "starting"

\* Shutting down completes for good, whatever is in progress when it begins:
\* nothing polls again, the status goes on saying so, and once closed nothing of
\* the connector is left in this process.
ShutdownCompletes ==
  /\ quiescing ~> [](status = "stopped" /\ polling = None)
  /\ closing ~> [](/\ database = "closed" /\ owner = None
                   /\ Borrowers = {} /\ BaseOperations = {})

\* Every request gets an answer or the lease.
RequestsAreAnswered == \A o \in Op : At(o, "waiting") ~> ~At(o, "waiting")
=============================================================================
