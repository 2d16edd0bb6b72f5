------------------------ MODULE RuntimeSupervisorProofs ------------------------
(***************************************************************************)
(* Proofs about RuntimeSupervisor, for every number of requests,           *)
(* identities and waiting refreshes: polling is owned, the port has one    *)
(* use at a time, and announced settings take effect.                      *)
(***************************************************************************)
EXTENDS RuntimeSupervisor, SequenceTheorems, TLAPS

(***************************************************************************)
(* The inductive invariant                                                 *)
(***************************************************************************)

\* What is queued: once the connector is being stopped no refresh is queued
\* behind that, and a request is queued once, while it waits.
QueueOrder ==
  \A i \in 1..Len(queue) :
    /\ queue[i] = "quiesce" =>
         quiescing /\ \A j \in (i + 1)..Len(queue) : queue[j] \notin {"refresh", "quiesce"}
    /\ queue[i] = "close" => closing
    /\ queue[i] \in Op =>
         At(queue[i], "waiting") /\ \A j \in 1..Len(queue) : queue[j] = queue[i] => j = i

\* Once stopped the connector stays so, which closing relies on when it takes
\* the owner away.
StopIsFinal ==
  /\ status = "stopped" =>
       /\ quiescing /\ polling = None
       /\ \A i \in 1..Len(queue) : queue[i] \notin {"refresh", "quiesce"}
  /\ closing => status = "stopped"
  /\ database = "closed" => closing

\* How far the transition at the head of the queue can be.
StepFits ==
  /\ step \in {"read", "draining", "starting"} => Running("refresh")
  /\ step = "stopping" => Running("refresh") \/ Running("quiesce")
  /\ step = "closing" => Running("refresh") \/ Running("close")
  /\ step \in {"draining", "starting"} => target # None

QueueFits == QueueOrder /\ StopIsFinal /\ StepFits

\* Who holds the port, and for what.
PortFits ==
  /\ port = "owner" <=> owner # None
  /\ \A o \in Op : At(o, "base") <=> port = o
  /\ PortHasOneUse

\* A refresh that replaces its owner has no polling loop, and only a running
\* transition tells a loop to stop.
PollingFits ==
  /\ PollingIsOwned
  /\ Running("refresh") /\ step \in {"closing", "draining", "starting"} => polling = None
  /\ polling # None /\ polling.aborted /\ ~quiescing => Running("refresh") /\ step = "stopping"

\* A refresh that has yet to read the settings.
UnreadRefresh ==
  \E i \in 1..Len(queue) : queue[i] = "refresh" /\ (i > 1 \/ step \in {"none", "read"})

RefreshQueued == \E i \in 1..Len(queue) : queue[i] = "refresh"

\* What the status says of a loop and of the settings.
StatusIsTrue ==
  /\ status = "running" => polling # None /\ polling.identity = stored
  /\ status = "disabled" => stored = None /\ owner = None /\ polling = None

\* What the last refresh to read the settings makes of them.
SettingsFit ==
  /\ Running("refresh") /\ step # "none" => status \in {"starting", "attention"}
  /\ status = "starting" /\ ~quiescing => Running("refresh") /\ step # "none"
  /\ announced /\ ~quiescing /\ ~UnreadRefresh =>
       IF RefreshQueued THEN target = stored ELSE StatusIsTrue

SupervisorFits == TypeOK /\ QueueFits /\ PortFits /\ PollingFits /\ SettingsFit

(***************************************************************************)
(* Types                                                                   *)
(***************************************************************************)

LEMMA Names ==
  /\ "none" \in Step /\ "read" \in Step /\ "stopping" \in Step /\ "closing" \in Step
  /\ "draining" \in Step /\ "starting" \in Step
  /\ "disabled" \in Status /\ "starting" \in Status /\ "running" \in Status
  /\ "attention" \in Status /\ "stopped" \in Status
BY DEF Step, Status

LEMMA InitType == Init => TypeOK
<1> SUFFICES ASSUME Init PROVE TypeOK
  OBVIOUS
<1>1. PICK i \in Identity : i = (CHOOSE j \in Identity : TRUE)
  BY NamesAssumption
<1>2. request \in [Op -> {[place |-> "idle", identity |-> i]}]
  BY <1>1 DEF Init
<1>3. [place |-> "idle", identity |-> i] \in [place : Place, identity : Identity]
  BY DEF Place
<1>4. request \in [Op -> [place : Place, identity : Identity]]
  BY <1>2, <1>3
<1>5. <<>> \in Seq(Op \cup Transition)
  OBVIOUS
<1> QED BY <1>4, <1>5, Names DEF Init, TypeOK

LEMMA TypeStep == TypeOK /\ QueueFits /\ [Next]_vars => TypeOK'
<1> SUFFICES ASSUME TypeOK, QueueFits, [Next]_vars PROVE TypeOK'
  OBVIOUS
<1> USE DEF TypeOK
<1> USE Names
<1>1. CASE UNCHANGED vars
  BY <1>1 DEF vars
<1>2. CASE Save \/ RequestRefresh \/ PollingReports \/ OtherAcquires \/ OtherReleases
  <2>1. CASE Save
    BY <2>1 DEF Save
  <2>2. CASE RequestRefresh
    <3>1. Append(queue, "refresh") \in Seq(Op \cup Transition)
      BY DEF Transition
    <3> QED BY <2>2, <3>1 DEF RequestRefresh, EnqueueRefresh, Enqueue
  <2>3. CASE PollingReports
    BY <2>3 DEF PollingReports
  <2> QED BY <1>2, <2>1, <2>2, <2>3 DEF OtherAcquires, OtherReleases
<1>3. CASE PollingEnds
  <2>1. [polling EXCEPT !.running = FALSE] \in Polling
    BY <1>3 DEF PollingEnds, Polling
  <2> QED BY <1>3, <2>1 DEF PollingEnds
<1>4. AbortPolling => polling' \in Polling \cup {None}
  <2>1. ASSUME polling # None PROVE [polling EXCEPT !.aborted = TRUE] \in Polling
    BY <2>1 DEF Polling
  <2> QED BY <2>1 DEF AbortPolling
<1>5. Withdraw => owner' \in Owner \cup {None}
  <2>1. ASSUME owner # None PROVE [owner EXCEPT !.accepting = FALSE] \in Owner
    BY <2>1 DEF Owner
  <2> QED BY <2>1 DEF Withdraw
<1>6. ASSUME NEW i \in Identity, StartPolling(i) PROVE polling' \in Polling
  BY <1>6 DEF StartPolling, Polling
<1>7. CASE Refresh
  <2>7. ASSUME queue # <<>>, Done PROVE queue' \in Seq(Op \cup Transition) /\ step' \in Step
    BY <2>7 DEF Done
  <2>8. RefreshFails => status' \in Status /\ Done
    BY DEF RefreshFails
  <2> USE DEF RefreshFails, Done, Running
  <2>1. CASE BeginRefresh
    <3>1. queue' \in Seq(Op \cup Transition) /\ step' \in Step /\ status' \in Status
      BY <2>7, <2>8, <2>1 DEF BeginRefresh
    <3> QED BY <2>1, <3>1 DEF BeginRefresh
  <2>2. CASE ReadIdentity
    BY <1>4, <2>2 DEF ReadIdentity
  <2>3. CASE RefreshStopped
    BY <1>5, <1>6, <2>3 DEF RefreshStopped, Configured, StartPolling
  <2>4. CASE RefreshReleased
    <3>1. port' \in Op \cup {"owner", "other", None} /\ owner' = None
      BY <2>4 DEF RefreshReleased, Release
    <3> QED BY <2>4, <3>1 DEF RefreshReleased
  <2>5. CASE RefreshDrained
    BY <2>5 DEF RefreshDrained
  <2>6. CASE StartOwner
    <3>1. CASE port = None
      <4>1. target \in Identity
        BY <2>6 DEF StartOwner, QueueFits, StepFits
      <4>2. [identity |-> target, accepting |-> TRUE] \in Owner
        BY <4>1 DEF Owner
      <4>3. polling' \in Polling
        BY <1>6, <2>6, <3>1, <4>1 DEF StartOwner
      <4>4. owner' \in Owner /\ port' = "owner" /\ status' \in Status
            /\ queue' \in Seq(Op \cup Transition) /\ step' \in Step
        BY <2>7, <2>6, <3>1, <4>2 DEF StartOwner, StartPolling
      <4> QED BY <2>6, <4>3, <4>4 DEF StartOwner
    <3>2. CASE port # None
      <4>1. UNCHANGED <<stored, announced, target, request, quiescing, closing, database, port,
                        owner, polling>> /\ RefreshFails
        BY <2>6, <3>2 DEF StartOwner
      <4> QED BY <2>6, <4>1 DEF StartOwner
    <3> QED BY <3>1, <3>2
  <2> QED BY <1>7, <2>1, <2>2, <2>3, <2>4, <2>5, <2>6 DEF Refresh
<1>8. CASE Quiesce \/ Close
  <2>1. Append(queue, "quiesce") \in Seq(Op \cup Transition)
        /\ Append(queue, "close") \in Seq(Op \cup Transition)
    BY DEF Transition
  <2> QED BY <1>8, <2>1 DEF Quiesce, Close, Enqueue
<1>9. CASE Shutdown
  BY <1>4, <1>5, <1>9 DEF Shutdown, BeginQuiesce, Quiesced, BeginClose, CloseReleased, Closed,
     Release, Done, Running
<1>10. ASSUME NEW o \in Op, WithLease(o) PROVE TypeOK'
  BY <1>10 DEF WithLease, Enqueue, Place
<1>11. ASSUME NEW o \in Op, NEW place \in Place, Goto(o, place)
       PROVE  request' \in [Op -> [place : Place, identity : Identity]]
  BY <1>11 DEF Goto
<1>12. ASSUME NEW o \in Op, Admit(o) PROVE TypeOK'
  <2>1. queue' \in Seq(Op \cup Transition)
    <3>1. PICK i \in DOMAIN queue :
            queue' = SubSeq(queue, 1, i - 1) \o SubSeq(queue, i + 1, Len(queue))
      BY <1>12 DEF Admit, Depart
    <3>2. SubSeq(queue, 1, i - 1) \in Seq(Op \cup Transition)
      BY <3>1
    <3>3. SubSeq(queue, i + 1, Len(queue)) \in Seq(Op \cup Transition)
      BY <3>1
    <3> QED BY <3>1, <3>2, <3>3
  <2>2. request' \in [Op -> [place : Place, identity : Identity]]
    BY <1>11, <1>12 DEF Admit, Place
  <2> QED BY <1>12, <2>1, <2>2 DEF Admit
<1>13. ASSUME NEW o \in Op, AcquireAlone(o) PROVE TypeOK'
  <2>1. request' \in [Op -> [place : Place, identity : Identity]]
    BY <1>11, <1>13 DEF AcquireAlone, Place
  <2> QED BY <1>13, <2>1 DEF AcquireAlone
<1>14. ASSUME NEW o \in Op, Leave(o) PROVE TypeOK'
  <2>1. request' \in [Op -> [place : Place, identity : Identity]]
    BY <1>11, <1>14 DEF Leave, Place
  <2> QED BY <1>14, <2>1 DEF Leave
<1> QED BY <1>1, <1>2, <1>3, <1>7, <1>8, <1>9, <1>10, <1>12, <1>13, <1>14 DEF Next

(***************************************************************************)
(* The queue                                                               *)
(***************************************************************************)

\* The head has left the queue.
Shifted ==
  /\ Len(queue) \in Nat \ {0} /\ Len(queue') = Len(queue) - 1
  /\ \A i \in 1..Len(queue') : queue'[i] = queue[i + 1]

Appended(item) ==
  /\ Len(queue) \in Nat /\ Len(queue') = Len(queue) + 1
  /\ queue'[Len(queue) + 1] = item
  /\ \A i \in 1..Len(queue) : queue'[i] = queue[i]

LEMMA RunningIsFirst ==
  ASSUME TypeOK, NEW t
  PROVE  /\ Len(queue) \in Nat
         /\ Running(t) <=> Len(queue) > 0 /\ queue[1] = t
BY DEF TypeOK, Running

LEMMA FirstAfter ==
  ASSUME TypeOK', NEW t
  PROVE  Running(t)' <=> Len(queue') > 0 /\ queue'[1] = t
BY DEF TypeOK, Running

LEMMA DoneShifts ==
  ASSUME TypeOK, queue # <<>>, Done
  PROVE  Shifted /\ step' = "none"
BY DEF TypeOK, Done, Shifted

LEMMA EnqueueAppends ==
  ASSUME TypeOK, NEW item \in Op \cup Transition, Enqueue(item)
  PROVE  Appended(item)
BY DEF TypeOK, Enqueue, Appended

LEMMA FirstCutOut ==
  ASSUME NEW S, NEW s \in Seq(S), s # <<>>
  PROVE  LET t == SubSeq(s, 1, 0) \o SubSeq(s, 2, Len(s))
         IN  /\ Len(t) = Len(s) - 1
             /\ \A i \in 1..Len(t) : t[i] = s[i + 1]
<1> DEFINE n == Len(s)
           t == SubSeq(s, 1, 0) \o SubSeq(s, 2, n)
<1>1. n \in Nat \ {0} /\ SubSeq(s, 1, 0) = <<>>
  BY SubSeqEmpty
<1>2. \A i \in 2..n : s[i] \in S
  BY <1>1
<1>3. /\ SubSeq(s, 2, n) \in Seq(S)
      /\ Len(SubSeq(s, 2, n)) = IF 2 <= n THEN n - 2 + 1 ELSE 0
      /\ \A i \in 1..(n - 2 + 1) : SubSeq(s, 2, n)[i] = s[2 + i - 1]
  BY <1>1, <1>2, SubSeqProperties
<1>4. t = SubSeq(s, 2, n)
  BY <1>1, <1>3, ConcatEmptySeq
<1>5. Len(t) = n - 1
  <2>1. n \in Nat \ {0}
    BY <1>1
  <2>2. (IF 2 <= n THEN n - 2 + 1 ELSE 0) = n - 1
    <3> HIDE DEF n
    <3> QED BY <2>1
  <2> QED BY <1>3, <1>4, <2>2
<1>6. ASSUME NEW i \in 1..(n - 1) PROVE t[i] = s[i + 1]
  <2>1. i \in 1..(n - 2 + 1) /\ 2 + i - 1 = i + 1
    BY <1>1
  <2> QED BY <1>3, <1>4, <2>1
<1> QED BY <1>5, <1>6

\* A request whose turn it is leaves the queue like a transition that is over.
LEMMA DepartShifts ==
  ASSUME TypeOK, QueueFits, NEW o \in Op, Turn(o), Depart(o)
  PROVE  Shifted
<1>1. queue \in Seq(Op \cup Transition) /\ queue # <<>> /\ queue[1] = o
  BY DEF TypeOK, Turn
<1>2. PICK i \in DOMAIN queue :
        queue[i] = o /\ queue' = SubSeq(queue, 1, i - 1) \o SubSeq(queue, i + 1, Len(queue))
  BY DEF Depart
<1>3. Len(queue) \in Nat \ {0} /\ 1 \in 1..Len(queue) /\ i \in 1..Len(queue)
  BY <1>1, <1>2
<1>4. i = 1
  BY <1>1, <1>2, <1>3 DEF QueueFits, QueueOrder
<1>5. queue' = SubSeq(queue, 1, 0) \o SubSeq(queue, 2, Len(queue))
  BY <1>2, <1>4
<1> QED BY <1>1, <1>3, <1>5, FirstCutOut DEF Shifted

\* What one item of the order says.
Placed(i) ==
  /\ queue[i] = "quiesce" =>
       quiescing /\ \A j \in (i + 1)..Len(queue) : queue[j] \notin {"refresh", "quiesce"}
  /\ queue[i] = "close" => closing
  /\ queue[i] \in Op =>
       At(queue[i], "waiting") /\ \A j \in 1..Len(queue) : queue[j] = queue[i] => j = i

\* Only requests outside the queue move.
LEMMA OrderKept ==
  ASSUME QueueOrder, UNCHANGED <<queue, quiescing, closing>>,
         \A o \in Op : At(o, "waiting") => request'[o] = request[o]
  PROVE  QueueOrder'
BY DEF QueueOrder, At

LEMMA OrderShifted ==
  ASSUME QueueOrder, Shifted, UNCHANGED <<quiescing, closing>>,
         \A o \in Op : request'[o] = request[o] \/ queue[1] = o
  PROVE  QueueOrder'
<1> SUFFICES ASSUME NEW i \in 1..Len(queue') PROVE Placed(i)'
  BY DEF QueueOrder, Placed
<1>1. /\ Len(queue) \in Nat /\ i \in 1..(Len(queue) - 1) /\ i + 1 \in 1..Len(queue)
      /\ queue'[i] = queue[i + 1] /\ Len(queue') = Len(queue) - 1
  BY DEF Shifted
<1>2. Placed(i + 1) /\ 1 \in 1..Len(queue)
  BY <1>1 DEF QueueOrder, Placed
<1>3. queue'[i] = "quiesce" =>
        quiescing' /\ \A j \in (i + 1)..Len(queue') : queue'[j] \notin {"refresh", "quiesce"}
  <2> SUFFICES ASSUME queue'[i] = "quiesce", NEW j \in (i + 1)..Len(queue')
               PROVE  queue'[j] \notin {"refresh", "quiesce"}
    BY <1>1, <1>2 DEF Placed
  <2>1. j + 1 \in (i + 2)..Len(queue) /\ queue'[j] = queue[j + 1]
    BY <1>1 DEF Shifted
  <2> QED BY <1>1, <1>2, <2>1 DEF Placed
<1>4. queue'[i] \in Op =>
        request'[queue'[i]].place = "waiting" /\ \A j \in 1..Len(queue') : queue'[j] = queue'[i] => j = i
  <2> SUFFICES ASSUME queue'[i] \in Op
               PROVE  /\ request'[queue'[i]].place = "waiting"
                      /\ \A j \in 1..Len(queue') : queue'[j] = queue'[i] => j = i
    OBVIOUS
  <2>1. queue[1] # queue[i + 1]
    BY <1>1, <1>2 DEF Placed
  <2>2. request'[queue'[i]].place = "waiting"
    BY <1>1, <1>2, <2>1 DEF Placed, At
  <2>3. ASSUME NEW j \in 1..Len(queue'), queue'[j] = queue'[i] PROVE j = i
    <3>1. j + 1 \in 1..Len(queue) /\ queue[j + 1] = queue[i + 1] /\ j \in Int
      BY <1>1, <2>3 DEF Shifted
    <3>2. j + 1 = i + 1
      BY <1>1, <1>2, <3>1 DEF Placed
    <3> QED BY <1>1, <3>1, <3>2
  <2> QED BY <2>2, <2>3
<1>5. queue'[i] = "close" => closing'
  BY <1>1, <1>2 DEF Placed
<1> QED BY <1>3, <1>4, <1>5 DEF Placed, At

LEMMA OrderAppended ==
  ASSUME QueueOrder, NEW item, Appended(item),
         quiescing => quiescing', closing => closing',
         item \in {"refresh", "quiesce"} => ~quiescing,
         item = "quiesce" => quiescing', item = "close" => closing',
         item \in Op => ~At(item, "waiting") /\ request'[item].place = "waiting",
         \A o \in Op \ {item} : request'[o] = request[o]
  PROVE  QueueOrder'
<1> SUFFICES ASSUME NEW i \in 1..Len(queue') PROVE Placed(i)'
  BY DEF QueueOrder, Placed
<1> DEFINE n == Len(queue)
<1>1. n \in Nat /\ Len(queue') = n + 1 /\ queue'[n + 1] = item
      /\ \A k \in 1..n : queue'[k] = queue[k] /\ Placed(k)
  BY DEF Appended, QueueOrder, Placed
<1>2. item \in Op => \A k \in 1..n : queue[k] # item
  BY <1>1 DEF Placed
<1>3. CASE i = n + 1
  BY <1>1, <1>2, <1>3 DEF Placed, At
<1>4. CASE i \in 1..n
  <2>1. Placed(i) /\ queue'[i] = queue[i]
    BY <1>1, <1>4
  <2>2. queue[i] = "quiesce" =>
          quiescing' /\ \A j \in (i + 1)..(n + 1) : queue'[j] \notin {"refresh", "quiesce"}
    <3> SUFFICES ASSUME queue[i] = "quiesce", NEW j \in (i + 1)..(n + 1)
                 PROVE  queue'[j] \notin {"refresh", "quiesce"}
      BY <2>1 DEF Placed
    <3>1. CASE j = n + 1
      BY <1>1, <2>1, <3>1 DEF Placed
    <3>2. CASE j # n + 1
      BY <1>1, <1>4, <2>1, <3>2 DEF Placed
    <3> QED BY <3>1, <3>2
  <2>3. queue[i] \in Op =>
          /\ request'[queue[i]].place = "waiting"
          /\ \A j \in 1..(n + 1) : queue'[j] = queue[i] => j = i
    BY <1>1, <1>2, <1>4, <2>1 DEF Placed, At
  <2> QED BY <1>1, <2>1, <2>2, <2>3 DEF Placed, At
<1> QED BY <1>1, <1>3, <1>4

LEMMA RefreshFailsEnds ==
  ASSUME TypeOK, queue # <<>>, RefreshFails
  PROVE  /\ Shifted /\ step' = "none"
         /\ status' \in {status, "attention"} /\ (~quiescing => status' = "attention")
         /\ quiescing => status' = status
BY DoneShifts DEF RefreshFails

\* What every step does to the queue.
LEMMA QueueStep ==
  ASSUME TypeOK, QueueFits, Next
  PROVE  \/ UNCHANGED queue
         \/ Shifted /\ step' = "none"
         \/ /\ UNCHANGED step
            /\ \E item \in Op \cup Transition : Appended(item)
<1>1. CASE Save \/ PollingEnds \/ PollingReports \/ OtherAcquires \/ OtherReleases
  BY <1>1 DEF Save, PollingEnds, PollingReports, OtherAcquires, OtherReleases
<1>2. CASE RequestRefresh \/ Quiesce \/ Close
  <2>1. ASSUME NEW item \in Transition, Enqueue(item) PROVE Appended(item)
    BY <2>1, EnqueueAppends
  <2> QED BY <1>2, <2>1 DEF RequestRefresh, EnqueueRefresh, Quiesce, Close, Transition
<1>3. CASE Refresh
  <2>1. queue # <<>>
    BY <1>3 DEF Refresh, BeginRefresh, ReadIdentity, RefreshStopped, RefreshReleased,
       RefreshDrained, StartOwner, Running
  <2>2. RefreshFails \/ Done => Shifted /\ step' = "none"
    BY <2>1, DoneShifts, RefreshFailsEnds
  <2> QED BY <1>3, <2>2 DEF Refresh, BeginRefresh, ReadIdentity, RefreshStopped, RefreshReleased,
          RefreshDrained, StartOwner
<1>4. CASE Shutdown
  <2>1. queue # <<>>
    BY <1>4 DEF Shutdown, BeginQuiesce, Quiesced, BeginClose, CloseReleased, Closed, Running
  <2> QED BY <1>4, <2>1, DoneShifts DEF Shutdown, BeginQuiesce, Quiesced, BeginClose,
          CloseReleased, Closed
<1>5. ASSUME NEW o \in Op, WithLease(o)
      PROVE  UNCHANGED step /\ Appended(o)
  BY <1>5, EnqueueAppends DEF WithLease
<1>6. ASSUME NEW o \in Op, Admit(o)
      PROVE  Shifted /\ step' = "none"
  <2>1. queue # <<>> /\ Head(queue) = o /\ UNCHANGED step /\ Shifted
    BY <1>6, DepartShifts DEF Admit, Turn
  <2>2. step = "none"
    BY <2>1, NamesAssumption DEF TypeOK, Step, QueueFits, StepFits, Running, Transition
  <2> QED BY <2>1, <2>2
<1>7. ASSUME NEW o \in Op, AcquireAlone(o) \/ Leave(o)
      PROVE  UNCHANGED queue
  BY <1>7 DEF AcquireAlone, Leave
<1> QED BY <1>1, <1>2, <1>3, <1>4, <1>5, <1>6, <1>7 DEF Next

\* A step leaves the order of the queue right.
LEMMA OrderStep ==
  ASSUME TypeOK, QueueFits, Next
  PROVE  QueueOrder'
<1> USE DEF QueueFits
<1>1. CASE Save \/ PollingEnds \/ PollingReports \/ OtherAcquires \/ OtherReleases
  BY <1>1, OrderKept DEF Save, PollingEnds, PollingReports, OtherAcquires, OtherReleases
<1>2. CASE RequestRefresh \/ Quiesce \/ Close
  <2>1. \A item \in Transition : item \notin Op
    BY NamesAssumption
  <2>2. CASE RequestRefresh
    <3>1. CASE quiescing
      BY <2>2, <3>1, OrderKept DEF RequestRefresh
    <3>2. CASE ~quiescing
      BY <2>1, <2>2, <3>2, EnqueueAppends, OrderAppended DEF RequestRefresh, EnqueueRefresh,
         Transition
    <3> QED BY <3>1, <3>2
  <2>3. CASE Quiesce
    BY <2>1, <2>3, EnqueueAppends, OrderAppended DEF Quiesce, Transition
  <2>4. CASE Close
    BY <2>1, <2>4, EnqueueAppends, OrderAppended DEF Close, Transition
  <2> QED BY <1>2, <2>2, <2>3, <2>4
<1>3. CASE Refresh \/ Shutdown
  <2>1. UNCHANGED <<quiescing, closing, request>>
    BY <1>3 DEF Refresh, BeginRefresh, ReadIdentity, RefreshStopped, RefreshReleased,
       RefreshDrained, StartOwner, Shutdown, BeginQuiesce, Quiesced, BeginClose, CloseReleased,
       Closed
  <2>2. UNCHANGED queue \/ Shifted
    <3>1. queue # <<>>
      BY <1>3 DEF Refresh, BeginRefresh, ReadIdentity, RefreshStopped, RefreshReleased,
         RefreshDrained, StartOwner, Running, Shutdown, BeginQuiesce, Quiesced, BeginClose,
         CloseReleased, Closed
    <3>2. RefreshFails \/ Done => Shifted
      BY <3>1, DoneShifts, RefreshFailsEnds
    <3> QED BY <1>3, <3>2 DEF Refresh, BeginRefresh, ReadIdentity, RefreshStopped, RefreshReleased,
            RefreshDrained, StartOwner, Shutdown, BeginQuiesce, Quiesced, BeginClose,
            CloseReleased, Closed
  <2> QED BY <2>1, <2>2, OrderKept, OrderShifted
<1>4. ASSUME NEW o \in Op, WithLease(o) PROVE QueueOrder'
  <2>1. /\ Appended(o) /\ UNCHANGED <<quiescing, closing>> /\ At(o, "idle")
        /\ request'[o].place = "waiting" /\ \A r \in Op \ {o} : request'[r] = request[r]
    BY <1>4, EnqueueAppends DEF WithLease, TypeOK
  <2>2. o \notin {"refresh", "quiesce", "close"} /\ ~At(o, "waiting")
    BY <2>1, NamesAssumption DEF Transition, At
  <2> QED BY <2>1, <2>2, OrderAppended
<1>5. ASSUME NEW o \in Op, Admit(o) PROVE QueueOrder'
  <2>1. /\ Shifted /\ UNCHANGED <<quiescing, closing>> /\ queue[1] = o
        /\ \A r \in Op \ {o} : request'[r] = request[r]
    BY <1>5, DepartShifts DEF Admit, Turn, Goto, TypeOK
  <2> QED BY <2>1, OrderShifted
<1>6. ASSUME NEW o \in Op, AcquireAlone(o) \/ Leave(o) PROVE QueueOrder'
  <2>1. ~At(o, "waiting") /\ \A r \in Op \ {o} : request'[r] = request[r]
    BY <1>6 DEF AcquireAlone, Leave, At, Goto, TypeOK
  <2>2. UNCHANGED <<queue, quiescing, closing>>
    BY <1>6 DEF AcquireAlone, Leave
  <2> QED BY <2>1, <2>2, OrderKept
<1> QED BY <1>1, <1>2, <1>3, <1>4, <1>5, <1>6 DEF Next

\* Stopping completes once, and what it leaves behind stays.
LEMMA StopStep ==
  ASSUME TypeOK, QueueFits, Next
  PROVE  StopIsFinal'
<1> USE DEF QueueFits
<1>1. (closing => status = "stopped") /\ (database = "closed" => closing)
  BY DEF StopIsFinal
<1>2. CASE status = "stopped"
  <2>1. /\ quiescing /\ polling = None
        /\ \A i \in 1..Len(queue) : queue[i] \notin {"refresh", "quiesce"}
    BY <1>2 DEF StopIsFinal
  <2>2. ~Running("refresh") /\ ~Running("quiesce")
    BY <2>1, RunningIsFirst
  <2>3. ~Refresh /\ ~BeginQuiesce /\ ~Quiesced /\ ~PollingReports /\ ~Quiesce /\ ~PollingEnds
    BY <2>1, <2>2 DEF Refresh, BeginRefresh, ReadIdentity, RefreshStopped, RefreshReleased,
       RefreshDrained, StartOwner, BeginQuiesce, Quiesced, PollingReports, Quiesce, PollingEnds
  <2>4. /\ UNCHANGED <<status, polling, quiescing>>
        /\ closing => closing'
        /\ database' = "closed" => database = "closed" \/ Closed
    <3> USE DEF Save, RequestRefresh, Close, BeginClose, CloseReleased, Closed, WithLease, Admit,
                AcquireAlone, Leave, OtherAcquires, OtherReleases
    <3>1. CASE Save \/ RequestRefresh \/ Close \/ OtherAcquires \/ OtherReleases
      BY <3>1
    <3>2. CASE BeginClose \/ CloseReleased
      BY <3>2
    <3>3. CASE Closed
      BY <3>3
    <3>4. CASE \E o \in Op : WithLease(o) \/ Admit(o) \/ AcquireAlone(o) \/ Leave(o)
      BY <3>4
    <3> QED BY <2>3, <3>1, <3>2, <3>3, <3>4 DEF Next, Shutdown
  <2>5. \A i \in 1..Len(queue') : queue'[i] \notin {"refresh", "quiesce"}
    <3>1. CASE UNCHANGED queue
      BY <2>1, <3>1
    <3>2. CASE Shifted
      BY <2>1, <3>2 DEF Shifted
    <3>3. CASE RequestRefresh
      BY <2>1, <3>3 DEF RequestRefresh
    <3>4. CASE Close \/ \E o \in Op : WithLease(o)
      <4>1. PICK item \in Op \cup {"close"} : Appended(item)
        BY <3>4, EnqueueAppends DEF Close, WithLease, Transition
      <4>2. item \notin {"refresh", "quiesce"}
        BY NamesAssumption DEF Transition
      <4> QED BY <2>1, <4>1, <4>2 DEF Appended
    <3> QED BY <2>3, <3>1, <3>2, <3>3, <3>4, DoneShifts, DepartShifts
            DEF Next, Save, Shutdown, BeginClose, CloseReleased, Closed, Running, Admit,
                AcquireAlone, Leave, OtherAcquires, OtherReleases
  <2>6. Closed => closing
    BY RunningIsFirst DEF Closed, QueueOrder
  <2> QED BY <1>1, <1>2, <2>1, <2>4, <2>5, <2>6 DEF StopIsFinal
<1>3. CASE status # "stopped"
  <2>1. ~closing /\ database # "closed"
    BY <1>1, <1>3
  <2>2. ~Running("close")
    BY <2>1, RunningIsFirst DEF QueueOrder
  <2>3. ~Close /\ ~BeginClose /\ ~CloseReleased /\ ~Closed
    BY <1>3, <2>2 DEF Close, BeginClose, CloseReleased, Closed
  <2>4. closing' = closing /\ database' = database
    BY <2>3 DEF Next, Save, RequestRefresh, PollingEnds, PollingReports, Refresh, BeginRefresh,
       ReadIdentity, RefreshStopped, RefreshReleased, RefreshDrained, StartOwner, Quiesce,
       Shutdown, BeginQuiesce, Quiesced, WithLease, Admit, AcquireAlone, Leave, OtherAcquires,
       OtherReleases
  <2>5. CASE Quiesced
    <3>1. Shifted /\ queue[1] = "quiesce" /\ polling' = None /\ quiescing' = quiescing
      BY <2>5, DoneShifts, RunningIsFirst DEF Quiesced, Running, PollingHasStopped
    <3>2. quiescing /\ \A j \in 2..Len(queue) : queue[j] \notin {"refresh", "quiesce"}
      <4>1. 1 \in 1..Len(queue) /\ (1 + 1)..Len(queue) = 2..Len(queue)
        BY <3>1 DEF Shifted
      <4> QED BY <3>1, <4>1 DEF QueueOrder
    <3>3. \A i \in 1..Len(queue') : queue'[i] \notin {"refresh", "quiesce"}
      BY <3>1, <3>2 DEF Shifted
    <3> QED BY <2>1, <2>4, <3>1, <3>2, <3>3 DEF StopIsFinal
  <2>6. CASE ~Quiesced
    <3>1. status' # "stopped"
      BY <1>3, <2>3, <2>6 DEF Next, Save, RequestRefresh, PollingEnds, PollingReports, Refresh,
         BeginRefresh, ReadIdentity, RefreshStopped, RefreshReleased, RefreshDrained, StartOwner,
         RefreshFails, StartPolling, Quiesce, Shutdown, BeginQuiesce, WithLease, Admit,
         AcquireAlone, Leave, OtherAcquires, OtherReleases
    <3> QED BY <2>1, <2>4, <3>1 DEF StopIsFinal
  <2> QED BY <2>5, <2>6
<1> QED BY <1>2, <1>3

\* A running transition stays at the head until it is over.
LEMMA StepFitsStep ==
  ASSUME TypeOK, TypeOK', QueueFits, Next
  PROVE  StepFits'
<1> USE DEF QueueFits
<1>1. CASE step' = "none"
  BY <1>1 DEF StepFits
<1>2. CASE step' # "none"
  <2>1. \/ UNCHANGED queue
        \/ UNCHANGED step /\ \E item \in Op \cup Transition : Appended(item)
    BY <1>2, QueueStep
  <2>2. \A t : Running(t) => Running(t)'
    BY <2>1, RunningIsFirst, FirstAfter DEF Appended
  <2>3. CASE UNCHANGED <<step, target>>
    BY <2>2, <2>3 DEF StepFits
  <2>4. CASE ~UNCHANGED <<step, target>>
    <3>1. Refresh \/ BeginQuiesce \/ BeginClose
      BY <1>2, <2>4 DEF Next, Save, RequestRefresh, EnqueueRefresh, PollingEnds, PollingReports,
         Quiesce, Close, Shutdown, Quiesced, CloseReleased, Closed, Done, WithLease, Admit,
         AcquireAlone, Leave, OtherAcquires, OtherReleases
    <3>2. CASE Refresh
      <4>1. Running("refresh")'
        BY <2>2, <3>2 DEF Refresh, BeginRefresh, ReadIdentity, RefreshStopped, RefreshReleased,
           RefreshDrained, StartOwner
      <4>2. step' \in {"draining", "starting"} => target' # None
        BY <3>2 DEF Refresh, BeginRefresh, ReadIdentity, RefreshStopped, RefreshReleased,
           RefreshDrained, StartOwner, RefreshFails, Done, Configured, StepFits
      <4> QED BY <4>1, <4>2 DEF StepFits
    <3>3. CASE BeginQuiesce \/ BeginClose
      BY <2>2, <3>3 DEF BeginQuiesce, BeginClose, StepFits
    <3> QED BY <3>1, <3>2, <3>3
  <2> QED BY <2>3, <2>4
<1> QED BY <1>1, <1>2

(***************************************************************************)
(* The port                                                                *)
(***************************************************************************)

\* What one request has to do with the port and the owner.
UseFits(o) ==
  /\ At(o, "base") <=> port = o
  /\ At(o, "shared") => owner # None /\ owner.identity = request[o].identity
  /\ At(o, "acquiring") \/ At(o, "base") => owner = None /\ step # "starting"

PortIsOwners == port = "owner" <=> owner # None

LEMMA PortIsUsed == PortFits <=> PortIsOwners /\ \A o \in Op : UseFits(o)
BY DEF PortFits, PortIsOwners, PortHasOneUse, UseFits, Borrowers, BaseOperations

LEMMA PortIsUsedAfter == PortIsOwners' /\ (\A o \in Op : UseFits(o)') => PortFits'
BY DEF PortFits, PortIsOwners, PortHasOneUse, UseFits, Borrowers, BaseOperations

\* Nothing about the port depends on who still accepts requests.
LEMMA PortKept ==
  ASSUME PortFits, UNCHANGED <<port, request>>,
         owner' = None <=> owner = None,
         owner # None => owner'.identity = owner.identity,
         step' = "starting" => step = "starting" \/ BaseOperations = {}
  PROVE  PortFits'
<1>1. PortIsOwners'
  BY PortIsUsed DEF PortIsOwners
<1>2. ASSUME NEW o \in Op PROVE UseFits(o)'
  BY PortIsUsed DEF UseFits, At, BaseOperations
<1> QED BY <1>1, <1>2, PortIsUsedAfter

\* Giving the lease back waits for those that borrow it.
LEMMA PortReleased ==
  ASSUME TypeOK, PortFits, Drained, Release, UNCHANGED request, step' # "starting"
  PROVE  PortFits'
<1>1. \A o \in Op : ~At(o, "shared")
  BY DEF Drained, Borrowers
<1>2. PortIsOwners'
  BY PortIsUsed, NamesAssumption DEF PortIsOwners, Release
<1>3. ASSUME NEW o \in Op PROVE UseFits(o)'
  <2>1. o # "owner" /\ o # None
    BY NamesAssumption
  <2>2. UseFits(o) /\ ~At(o, "shared") /\ PortIsOwners
    BY <1>1, PortIsUsed
  <2>3. CASE owner = None
    BY <2>2, <2>3 DEF UseFits, At, Release
  <2>4. CASE owner # None
    BY <2>1, <2>2, <2>4 DEF UseFits, At, Release, PortIsOwners
  <2> QED BY <2>3, <2>4
<1> QED BY <1>2, <1>3, PortIsUsedAfter

LEMMA PortStep ==
  ASSUME TypeOK, QueueFits, PortFits, Next
  PROVE  PortFits'
<1>1. CASE Save \/ RequestRefresh \/ PollingEnds \/ PollingReports \/ Quiesce \/ Close
  BY <1>1, PortKept DEF Save, RequestRefresh, PollingEnds, PollingReports, Quiesce, Close
<1>2. ASSUME Withdraw
      PROVE  /\ owner' = None <=> owner = None
             /\ owner # None => owner'.identity = owner.identity
  <2>1. ASSUME owner # None
        PROVE  [owner EXCEPT !.accepting = FALSE] \in Owner
               /\ [owner EXCEPT !.accepting = FALSE].identity = owner.identity
    BY <2>1 DEF TypeOK, Owner
  <2> QED BY <1>2, <2>1, NamesAssumption DEF Withdraw
<1>3. CASE Refresh
  <2>1. queue # <<>>
    BY <1>3 DEF Refresh, BeginRefresh, ReadIdentity, RefreshStopped, RefreshReleased,
       RefreshDrained, StartOwner, Running
  <2>2. RefreshFails \/ Done => step' # "starting"
    BY <2>1, DoneShifts, RefreshFailsEnds
  <2>3. CASE BeginRefresh
    BY <2>2, <2>3, PortKept DEF BeginRefresh
  <2>4. CASE ReadIdentity
    BY <2>2, <2>4, PortKept DEF ReadIdentity
  <2>5. CASE RefreshStopped
    BY <1>2, <2>2, <2>5, PortKept DEF RefreshStopped
  <2>6. CASE RefreshReleased
    BY <2>2, <2>6, PortReleased DEF RefreshReleased
  <2>7. CASE RefreshDrained
    BY <2>2, <2>7, PortKept DEF RefreshDrained, BaseDrained
  <2>8. CASE StartOwner
    <3>1. CASE port = None
      <4>1. /\ step = "starting" /\ step' # "starting" /\ port' = "owner"
            /\ owner' = [identity |-> target, accepting |-> TRUE] /\ UNCHANGED request
        BY <2>2, <2>8, <3>1 DEF StartOwner
      <4>2. owner' # None
        <5>1. target \in Identity
          BY <4>1 DEF TypeOK, QueueFits, StepFits
        <5>2. owner' \in Owner
          BY <4>1, <5>1 DEF Owner
        <5> QED BY <5>2, NamesAssumption
      <4>3. owner = None
        BY <3>1, PortIsUsed, NamesAssumption DEF PortIsOwners
      <4>4. PortIsOwners'
        BY <4>1, <4>2 DEF PortIsOwners
      <4>5. ASSUME NEW o \in Op PROVE UseFits(o)'
        <5>1. UseFits(o) /\ o # "owner"
          BY PortIsUsed, NamesAssumption
        <5> QED BY <3>1, <4>1, <4>3, <5>1 DEF UseFits, At
      <4> QED BY <4>4, <4>5, PortIsUsedAfter
    <3>2. CASE port # None
      BY <2>2, <2>8, <3>2, PortKept DEF StartOwner
    <3> QED BY <3>1, <3>2
  <2> QED BY <1>3, <2>3, <2>4, <2>5, <2>6, <2>7, <2>8 DEF Refresh
<1>4. CASE Shutdown
  <2>1. CASE BeginQuiesce
    BY <2>1, PortKept DEF BeginQuiesce
  <2>2. CASE Quiesced
    BY <2>2, PortKept DEF Quiesced, Done
  <2>3. CASE BeginClose
    BY <1>2, <2>3, PortKept DEF BeginClose
  <2>4. CASE CloseReleased
    BY <2>4, PortReleased DEF CloseReleased
  <2>5. CASE Closed
    BY <2>5, PortKept DEF Closed, Done
  <2> QED BY <1>4, <2>1, <2>2, <2>3, <2>4, <2>5 DEF Shutdown
<1>5. ASSUME NEW o \in Op, WithLease(o) \/ Admit(o) PROVE PortFits'
  <2>1. UNCHANGED <<port, owner, step>> /\ \A r \in Op \ {o} : request'[r] = request[r]
    BY <1>5 DEF WithLease, Admit, Goto, TypeOK
  <2>2. ASSUME NEW r \in Op \ {o} PROVE UseFits(r)'
    BY <2>1, PortIsUsed DEF UseFits, At
  <2>3. UseFits(o)'
    <3>1. CASE WithLease(o)
      BY <2>1, <3>1, PortIsUsed DEF WithLease, UseFits, At, TypeOK
    <3>2. CASE Admit(o)
      <4>1. At(o, "waiting") /\ step = "none"
        <5>1. queue # <<>> /\ Head(queue) = o /\ queue[1] = o /\ 1 \in 1..Len(queue)
          BY <3>2 DEF Admit, Turn, TypeOK
        <5>2. At(o, "waiting")
          BY <5>1 DEF QueueFits, QueueOrder
        <5>3. step = "none"
          BY <5>1, NamesAssumption DEF TypeOK, Step, QueueFits, StepFits, Running, Transition
        <5> QED BY <5>2, <5>3
      <4>2. UseFits(o) /\ port # o
        BY <4>1, PortIsUsed DEF UseFits, At
      <4>3. /\ request'[o].identity = request[o].identity
            /\ \/ request'[o].place = "shared" /\ Owns(request[o].identity)
               \/ request'[o].place = "acquiring" /\ owner = None
               \/ request'[o].place = "idle"
        BY <3>2 DEF Admit, Lend, Alone, Goto, TypeOK
      <4> QED BY <2>1, <4>1, <4>2, <4>3 DEF UseFits, At, Owns
    <3> QED BY <1>5, <3>1, <3>2
  <2>4. PortIsOwners'
    BY <2>1, PortIsUsed DEF PortIsOwners
  <2> QED BY <2>2, <2>3, <2>4, PortIsUsedAfter
<1>6. ASSUME NEW o \in Op, AcquireAlone(o) \/ Leave(o) PROVE PortFits'
  <2>1. /\ UNCHANGED <<owner, step>> /\ \A r \in Op \ {o} : request'[r] = request[r]
        /\ request'[o].identity = request[o].identity
    BY <1>6 DEF AcquireAlone, Leave, Goto, TypeOK
  <2>2. UseFits(o) /\ PortIsOwners /\ o \notin {"owner", None}
        /\ \A r \in Op : UseFits(r) /\ r # None
    BY PortIsUsed, NamesAssumption
  <2>3. CASE AcquireAlone(o)
    <3>1. At(o, "acquiring") /\ owner = None
      BY <2>2, <2>3 DEF AcquireAlone, UseFits
    <3>2. /\ UseFits(o)' /\ PortIsOwners'
          /\ \A r \in Op \ {o} : UseFits(r)'
      BY <2>1, <2>2, <2>3, <3>1 DEF AcquireAlone, Goto, UseFits, At, PortIsOwners, TypeOK
    <3> QED BY <3>2, PortIsUsedAfter
  <2>4. CASE Leave(o)
    <3>1. request'[o].place = "idle" /\ port' = IF At(o, "base") THEN None ELSE port
      BY <2>4 DEF Leave, Goto, TypeOK
    <3>2. CASE At(o, "base")
      <4>1. port = o /\ port' = None
        BY <2>2, <3>1, <3>2 DEF UseFits
      <4>2. UseFits(o)' /\ PortIsOwners'
        BY <2>1, <2>2, <3>1, <4>1, NamesAssumption DEF UseFits, At, PortIsOwners
      <4>3. \A r \in Op \ {o} : UseFits(r)'
        BY <2>1, <2>2, <4>1 DEF UseFits, At
      <4> QED BY <4>2, <4>3, PortIsUsedAfter
    <3>3. CASE ~At(o, "base")
      <4>1. port # o /\ port' = port
        BY <2>2, <3>1, <3>3 DEF UseFits
      <4>2. UseFits(o)' /\ PortIsOwners'
        BY <2>1, <2>2, <3>1, <4>1 DEF UseFits, At, PortIsOwners
      <4>3. \A r \in Op \ {o} : UseFits(r)'
        BY <2>1, <2>2, <4>1 DEF UseFits, At
      <4> QED BY <4>2, <4>3, PortIsUsedAfter
    <3> QED BY <3>2, <3>3
  <2> QED BY <1>6, <2>3, <2>4
<1>7. CASE OtherAcquires \/ OtherReleases
  <2>1. /\ UNCHANGED <<owner, step, request>> /\ port \in {None, "other"}
        /\ port' \in {None, "other"}
    BY <1>7 DEF OtherAcquires, OtherReleases
  <2>2. PortIsOwners'
    BY <2>1, PortIsUsed, NamesAssumption DEF PortIsOwners
  <2>3. ASSUME NEW o \in Op PROVE UseFits(o)'
    BY <2>1, PortIsUsed, NamesAssumption DEF UseFits, At
  <2> QED BY <2>2, <2>3, PortIsUsedAfter
<1> QED BY <1>1, <1>3, <1>4, <1>5, <1>6, <1>7 DEF Next

(***************************************************************************)
(* The polling loop                                                        *)
(***************************************************************************)

\* The transition at the head stays there while it goes on.
LEMMA HeadStays ==
  ASSUME TypeOK, TypeOK', QueueFits, Next, step' # "none", NEW t
  PROVE  /\ Running(t) => Running(t)'
         /\ step # "none" => (Running(t)' => Running(t))
<1>1. UNCHANGED queue \/ \E item \in Op \cup Transition : Appended(item)
  BY QueueStep
<1>2. step # "none" => Len(queue) > 0
  BY RunningIsFirst DEF QueueFits, StepFits, TypeOK, Step
<1> QED BY <1>1, <1>2, RunningIsFirst, FirstAfter DEF Appended

\* A refresh runs only while the connector is open.
LEMMA RefreshWhileOpen ==
  ASSUME TypeOK, QueueFits, Running("refresh")
  PROVE  status # "stopped" /\ ~closing /\ database = "open"
<1>1. status # "stopped"
  BY RunningIsFirst DEF QueueFits, StopIsFinal
<1> QED BY <1>1 DEF QueueFits, StopIsFinal, TypeOK

\* Closing begins when polling is over.
LEMMA CloseAfterPolling ==
  ASSUME TypeOK, QueueFits, Running("close")
  PROVE  polling = None
<1>1. Len(queue) \in Nat /\ 1 \in 1..Len(queue) /\ queue[1] = "close"
  BY RunningIsFirst
<1>2. closing
  BY <1>1 DEF QueueFits, QueueOrder
<1> QED BY <1>2 DEF QueueFits, StopIsFinal

\* A loop starts under an owner of its identity.
Starts ==
  /\ Running("refresh") /\ step' = "none"
  /\ polling' = [identity |-> target, running |-> TRUE, aborted |-> FALSE]
  /\ owner' # None /\ owner'.accepting /\ owner'.identity = target
  /\ UNCHANGED database

\* A loop goes on, or ends, or is told to stop.
GoesOn ==
  /\ polling # None /\ polling' # None
  /\ polling'.identity = polling.identity
  /\ polling'.running => polling.running
  /\ polling'.aborted => polling.aborted \/ ReadIdentity \/ BeginQuiesce
  /\ UNCHANGED owner /\ UNCHANGED database

LEMMA AbortedGoesOn ==
  ASSUME TypeOK, AbortPolling, polling # None
  PROVE  /\ polling' # None /\ polling'.identity = polling.identity
         /\ polling'.running = polling.running
<1>1. polling \in Polling /\ polling' = [polling EXCEPT !.aborted = TRUE]
  BY DEF TypeOK, AbortPolling
<1>2. polling' \in Polling /\ polling'.identity = polling.identity
      /\ polling'.running = polling.running
  BY <1>1 DEF Polling
<1> QED BY <1>2, NamesAssumption

LEMMA PollingMoves ==
  ASSUME TypeOK, QueueFits, Next
  PROVE  \/ Starts
         \/ polling' = None
         \/ GoesOn
         \/ UNCHANGED polling
<1>1. CASE StartOwner
  <2>1. CASE port = None
    <3>1. /\ Running("refresh") /\ queue # <<>> /\ Done
          /\ polling' = [identity |-> target, running |-> TRUE, aborted |-> FALSE]
          /\ owner' = [identity |-> target, accepting |-> TRUE] /\ UNCHANGED database
      BY <1>1, <2>1 DEF StartOwner, StartPolling, Running
    <3>2. target \in Identity
      BY <1>1 DEF StartOwner, TypeOK, QueueFits, StepFits
    <3>3. owner' \in Owner
      BY <3>1, <3>2 DEF Owner
    <3>4. owner' # None
      BY <3>3, NamesAssumption
    <3> QED BY <3>1, <3>4, DoneShifts DEF Starts
  <2>2. CASE port # None
    BY <1>1, <2>2 DEF StartOwner
  <2> QED BY <2>1, <2>2
<1>2. CASE RefreshStopped
  <2>1. CASE Configured(target) /\ Owns(target)
    <3>1. /\ Running("refresh") /\ queue # <<>> /\ Done
          /\ polling' = [identity |-> target, running |-> TRUE, aborted |-> FALSE]
          /\ UNCHANGED <<owner, database>>
      BY <1>2, <2>1 DEF RefreshStopped, StartPolling, Running
    <3> QED BY <2>1, <3>1, DoneShifts DEF Starts, Owns
  <2>2. CASE ~(Configured(target) /\ Owns(target))
    BY <1>2, <2>2 DEF RefreshStopped
  <2> QED BY <2>1, <2>2
<1>3. CASE PollingEnds
  <2>1. polling \in Polling /\ polling' = [polling EXCEPT !.running = FALSE]
    BY <1>3 DEF PollingEnds, TypeOK
  <2>2. polling' \in Polling /\ polling'.identity = polling.identity
        /\ ~polling'.running /\ polling'.aborted = polling.aborted
    BY <2>1 DEF Polling
  <2> QED BY <1>3, <2>2, NamesAssumption DEF GoesOn, PollingEnds
<1>4. CASE ReadIdentity \/ BeginQuiesce
  <2>1. AbortPolling \/ UNCHANGED polling
    BY <1>4 DEF ReadIdentity, BeginQuiesce
  <2>2. UNCHANGED <<owner, database>>
    BY <1>4 DEF ReadIdentity, BeginQuiesce
  <2>3. CASE AbortPolling /\ polling # None
    BY <1>4, <2>2, <2>3, AbortedGoesOn DEF GoesOn
  <2>4. CASE AbortPolling /\ polling = None
    BY <2>4 DEF AbortPolling
  <2> QED BY <2>1, <2>3, <2>4
<1>5. CASE PollingReports
  BY <1>5 DEF PollingReports
<1> QED BY <1>1, <1>2, <1>3, <1>4, <1>5 DEF Next, Refresh, Shutdown, Save, RequestRefresh,
        BeginRefresh, RefreshReleased, RefreshDrained, Quiesce, Close, Quiesced, BeginClose,
        CloseReleased, Closed, WithLease, Admit, AcquireAlone, Leave, OtherAcquires, OtherReleases

\* An owner is withdrawn, given up or closed over only without a polling loop.
LEMMA OwnerStands ==
  ASSUME TypeOK, QueueFits, PollingFits, Next, polling # None, polling' # None
  PROVE  owner' = owner /\ database' = database
<1>1. CASE Refresh
  <2>1. ~RefreshReleased /\ ~StartOwner /\ ~RefreshStopped
    BY DEF PollingFits, RefreshReleased, StartOwner, RefreshStopped, PollingHasStopped
  <2> QED BY <1>1, <2>1 DEF Refresh, BeginRefresh, ReadIdentity, RefreshDrained
<1>2. CASE Shutdown
  <2>1. ~BeginClose /\ ~CloseReleased /\ ~Closed
    BY CloseAfterPolling DEF BeginClose, CloseReleased, Closed
  <2> QED BY <1>2, <2>1 DEF Shutdown, BeginQuiesce, Quiesced
<1>3. CASE ~Refresh /\ ~Shutdown
  BY <1>3 DEF Next, Save, RequestRefresh, PollingEnds, PollingReports, Quiesce, Close, WithLease,
     Admit, AcquireAlone, Leave, OtherAcquires, OtherReleases
<1> QED BY <1>1, <1>2, <1>3

LEMMA PollingStep ==
  ASSUME TypeOK, TypeOK', QueueFits, PortFits', PollingFits, Next
  PROVE  PollingFits'
<1>1. PollingIsOwned'
  <2> SUFFICES ASSUME polling' # None, polling'.running
               PROVE  /\ owner' # None /\ owner'.accepting /\ owner'.identity = polling'.identity
                      /\ database' = "open"
    BY DEF PollingIsOwned, Owns, PortFits
  <2>1. CASE Starts
    BY <2>1, RefreshWhileOpen DEF Starts
  <2>2. CASE GoesOn \/ UNCHANGED polling
    <3>1. /\ polling # None /\ polling.running /\ polling'.identity = polling.identity
          /\ owner' = owner /\ database' = database
      BY <2>2, OwnerStands DEF GoesOn
    <3> QED BY <3>1 DEF PollingFits, PollingIsOwned, Owns
  <2> QED BY <2>1, <2>2, PollingMoves
<1>2. ASSUME Running("refresh")', step' \in {"closing", "draining", "starting"}
      PROVE  polling' = None
  <2>1. polling = None
    <3>1. CASE step \in {"closing", "draining", "starting"}
      BY <1>2, <3>1, HeadStays DEF PollingFits
    <3>2. CASE step \notin {"closing", "draining", "starting"}
      <4>1. RefreshStopped \/ BeginClose
        BY <1>2, <3>2 DEF Next, Save, RequestRefresh, PollingEnds, PollingReports, Refresh,
           BeginRefresh, ReadIdentity, RefreshReleased, RefreshDrained, StartOwner, RefreshFails,
           Done, Quiesce, Close, Shutdown, BeginQuiesce, Quiesced, CloseReleased, Closed,
           WithLease, Admit, AcquireAlone, Leave, OtherAcquires, OtherReleases
      <4> QED BY <4>1, CloseAfterPolling DEF RefreshStopped, PollingHasStopped, BeginClose
    <3> QED BY <3>1, <3>2
  <2> QED BY <1>2, <2>1, PollingMoves DEF Starts, GoesOn
<1>3. ASSUME polling' # None, polling'.aborted, ~quiescing'
      PROVE  Running("refresh")' /\ step' = "stopping"
  <2>1. ~quiescing
    BY <1>3 DEF Next, Save, RequestRefresh, PollingEnds, PollingReports, Refresh, BeginRefresh,
       ReadIdentity, RefreshStopped, RefreshReleased, RefreshDrained, StartOwner, Quiesce, Close,
       Shutdown, BeginQuiesce, Quiesced, BeginClose, CloseReleased, Closed, WithLease, Admit,
       AcquireAlone, Leave, OtherAcquires, OtherReleases
  <2>2. ~Running("quiesce")
    <3>1. SUFFICES ASSUME Running("quiesce") PROVE FALSE
      OBVIOUS
    <3>2. Len(queue) \in Nat /\ 1 \in 1..Len(queue) /\ queue[1] = "quiesce"
      BY <3>1, RunningIsFirst
    <3> QED BY <2>1, <3>2 DEF QueueFits, QueueOrder
  <2>3. CASE ReadIdentity /\ step' = "stopping"
    BY <2>3, HeadStays DEF ReadIdentity
  <2>4. CASE ~(ReadIdentity /\ step' = "stopping")
    <3>1. polling # None /\ polling.aborted
      BY <1>3, <2>2, <2>4, PollingMoves DEF Starts, GoesOn, BeginQuiesce, ReadIdentity
    <3>2. Running("refresh") /\ step = "stopping"
      BY <2>1, <3>1 DEF PollingFits
    <3>3. step' = "stopping"
      <4>1. queue # <<>> /\ Head(queue) = "refresh"
        BY <3>2 DEF Running
      <4> QED BY <2>2, <3>1, <3>2, <4>1, NamesAssumption
              DEF Next, Save, RequestRefresh, PollingEnds, PollingReports, Refresh, BeginRefresh,
                  ReadIdentity, RefreshStopped, PollingHasStopped, RefreshReleased, RefreshDrained,
                  StartOwner, Quiesce, Close, Shutdown, BeginQuiesce, Quiesced, BeginClose,
                  CloseReleased, Closed, WithLease, Admit, AcquireAlone, Leave, OtherAcquires,
                  OtherReleases
    <3> QED BY <3>2, <3>3, HeadStays
  <2> QED BY <2>3, <2>4
<1> QED BY <1>1, <1>2, <1>3 DEF PollingFits

(***************************************************************************)
(* The settings                                                            *)
(***************************************************************************)

\* With no refresh left to read the settings, the one that ends was the last.
LEMMA LastRefreshEnds ==
  ASSUME Shifted, step' = "none", ~UnreadRefresh'
  PROVE  /\ ~RefreshQueued'
         /\ \A i \in 1..Len(queue) : queue[i] = "refresh" => i = 1
<1>1. \A i \in 1..Len(queue') : queue'[i] # "refresh"
  BY DEF UnreadRefresh
<1>2. ASSUME NEW i \in 1..Len(queue), queue[i] = "refresh", i # 1
      PROVE  FALSE
  <2>1. i - 1 \in 1..Len(queue') /\ queue'[i - 1] = queue[i]
    BY <1>2 DEF Shifted
  <2> QED BY <1>1, <1>2, <2>1
<1> QED BY <1>1, <1>2 DEF RefreshQueued

\* The refresh at the head is queued.
LEMMA HeadIsQueued ==
  ASSUME TypeOK, Running("refresh")
  PROVE  /\ RefreshQueued /\ 1 \in 1..Len(queue) /\ queue[1] = "refresh"
         /\ step \in {"none", "read"} => UnreadRefresh
BY RunningIsFirst DEF RefreshQueued, UnreadRefresh

LEMMA HeadIsQueuedAfter ==
  ASSUME TypeOK', Running("refresh")'
  PROVE  RefreshQueued' /\ (step' \in {"none", "read"} => UnreadRefresh')
<1>1. Len(queue') > 0 /\ queue'[1] = "refresh" /\ Len(queue') \in Nat
  BY FirstAfter DEF TypeOK
<1> QED BY <1>1 DEF RefreshQueued, UnreadRefresh

\* Before the connector is stopped, no step of that runs.
LEMMA BeforeQuiescing ==
  ASSUME TypeOK, QueueFits, ~quiescing
  PROVE  /\ status # "stopped" /\ ~closing /\ ~Running("quiesce") /\ ~Running("close")
         /\ ~Shutdown /\ ~Close
<1>1. status # "stopped" /\ ~closing
  BY DEF QueueFits, StopIsFinal
<1>2. ~Running("quiesce") /\ ~Running("close")
  BY <1>1, RunningIsFirst DEF QueueFits, QueueOrder
<1> QED BY <1>1, <1>2 DEF Shutdown, BeginQuiesce, Quiesced, BeginClose, CloseReleased, Closed, Close

\* A refresh shows that it works, or failed to.
LEMMA StatusWhileRefreshing ==
  ASSUME TypeOK, TypeOK', QueueFits, SettingsFit, Next,
         Running("refresh")', step' # "none"
  PROVE  status' \in {"starting", "attention"}
<1>1. CASE step = "none"
  <2>1. ~BeginQuiesce /\ ~BeginClose
    BY <1>1, RunningIsFirst, FirstAfter DEF BeginQuiesce, BeginClose
  <2>2. BeginRefresh
    BY <1>1, <2>1 DEF Next, Save, RequestRefresh, PollingEnds, PollingReports, Refresh,
       ReadIdentity, RefreshStopped, RefreshReleased, RefreshDrained, StartOwner,
       Quiesce, Close, Shutdown, Quiesced, CloseReleased, Closed, Done, WithLease, Admit,
       AcquireAlone, Leave, OtherAcquires, OtherReleases
  <2> QED BY <2>2 DEF BeginRefresh, RefreshFails, Done
<1>2. CASE step # "none"
  <2>1. Running("refresh") /\ status \in {"starting", "attention"}
    BY <1>2, HeadStays DEF SettingsFit
  <2>2. status' \in {status, "attention"}
    BY <1>2, <2>1 DEF Next, Save, RequestRefresh, PollingEnds, PollingReports, Refresh, BeginRefresh,
       ReadIdentity, RefreshStopped, RefreshReleased, RefreshDrained, StartOwner, StartPolling,
       RefreshFails, Done, Running, Quiesce, Close, Shutdown, BeginQuiesce, Quiesced, BeginClose,
       CloseReleased, Closed, WithLease, Admit, AcquireAlone, Leave, OtherAcquires, OtherReleases
  <2> QED BY <2>1, <2>2
<1> QED BY <1>1, <1>2

LEMMA StartingIsRefreshing ==
  ASSUME TypeOK, TypeOK', QueueFits, SettingsFit, Next, status' = "starting", ~quiescing'
  PROVE  Running("refresh")' /\ step' # "none"
<1>1. ~quiescing
  BY DEF Next, Save, RequestRefresh, PollingEnds, PollingReports, Refresh, BeginRefresh,
     ReadIdentity, RefreshStopped, RefreshReleased, RefreshDrained, StartOwner, Quiesce, Close,
     Shutdown, BeginQuiesce, Quiesced, BeginClose, CloseReleased, Closed, WithLease, Admit,
     AcquireAlone, Leave, OtherAcquires, OtherReleases
<1>2. ~Shutdown /\ ~Close
  BY <1>1, BeforeQuiescing
<1>3. CASE BeginRefresh
  <2>1. step' = "read" /\ Running("refresh")
    BY <1>1, <1>3 DEF BeginRefresh
  <2> QED BY <2>1, HeadStays
<1>4. CASE ~BeginRefresh
  <2>1. status = "starting" /\ (step' # "none" \/ UNCHANGED step)
    <3>1. CASE Refresh
      <4>1. ~RefreshFails
        BY <1>1 DEF RefreshFails
      <4> QED BY <1>4, <3>1, <4>1 DEF Refresh, ReadIdentity, RefreshStopped, RefreshReleased,
              RefreshDrained, StartOwner, StartPolling
    <3>2. CASE ~Refresh
      BY <1>2, <3>2 DEF Next, Save, RequestRefresh, PollingEnds, PollingReports, Quiesce,
         WithLease, Admit, AcquireAlone, Leave, OtherAcquires, OtherReleases
    <3> QED BY <3>1, <3>2
  <2>2. Running("refresh") /\ step # "none"
    BY <1>1, <2>1 DEF SettingsFit
  <2> QED BY <2>1, <2>2, HeadStays
<1> QED BY <1>3, <1>4

\* A refresh that ends with everything read has applied what is stored.
LEMMA AppliedByRefresh ==
  ASSUME TypeOK, QueueFits, PollingFits, SettingsFit, Refresh,
         announced, ~quiescing, Shifted, step' = "none", ~UnreadRefresh'
  PROVE  StatusIsTrue'
<1>1. (Running("refresh") /\ UNCHANGED <<stored, target>>) \/ ReadIdentity
  BY DEF Refresh, BeginRefresh, ReadIdentity, RefreshStopped, RefreshReleased, RefreshDrained,
     StartOwner
<1>2. CASE RefreshFails
  BY <1>2 DEF RefreshFails, StatusIsTrue
<1>3. CASE ~RefreshFails
  <2>1. RefreshStopped \/ RefreshReleased \/ StartOwner
    BY <1>3 DEF Refresh, BeginRefresh, ReadIdentity, RefreshDrained
  <2>2. Running("refresh") /\ step \notin {"none", "read"} /\ UNCHANGED <<stored, target>>
    BY <2>1 DEF RefreshStopped, RefreshReleased, StartOwner
  <2>3. ~UnreadRefresh
    BY <2>2, LastRefreshEnds DEF UnreadRefresh
  <2>4. target = stored
    BY <2>2, <2>3, HeadIsQueued DEF SettingsFit
  <2>5. CASE RefreshStopped
    <3>1. status' = "running"
          /\ polling' = [identity |-> target, running |-> TRUE, aborted |-> FALSE]
      BY <2>5 DEF RefreshStopped, StartPolling
    <3>2. target \in Identity /\ polling' \in Polling
      BY <2>5, <3>1 DEF RefreshStopped, Configured, TypeOK, Polling
    <3> QED BY <2>2, <2>4, <3>1, <3>2, NamesAssumption DEF StatusIsTrue
  <2>6. CASE RefreshReleased
    <3>1. target = None /\ owner' = None /\ polling' = polling /\ step = "closing"
          /\ status' = "disabled"
      BY <2>6 DEF RefreshReleased, Configured, Release
    <3>2. polling = None
      BY <2>2, <3>1 DEF PollingFits
    <3> QED BY <2>2, <2>4, <3>1, <3>2 DEF StatusIsTrue
  <2>7. CASE StartOwner
    <3>1. status' = "running"
          /\ polling' = [identity |-> target, running |-> TRUE, aborted |-> FALSE]
          /\ step = "starting"
      BY <1>3, <2>7 DEF StartOwner, StartPolling
    <3>2. target \in Identity
      BY <3>1 DEF TypeOK, QueueFits, StepFits
    <3>3. polling' \in Polling
      BY <3>1, <3>2 DEF Polling
    <3> QED BY <2>2, <2>4, <3>1, <3>3, NamesAssumption DEF StatusIsTrue
  <2> QED BY <2>1, <2>5, <2>6, <2>7
<1> QED BY <1>2, <1>3

\* Everything else leaves what was applied as it is, or says attention.
LEMMA SettingsApplied ==
  ASSUME TypeOK, TypeOK', QueueFits, PollingFits, SettingsFit, Next,
         announced', ~quiescing', ~UnreadRefresh'
  PROVE  IF RefreshQueued' THEN target' = stored' ELSE StatusIsTrue'
<1>1. ~quiescing /\ ~Save
  <2>1. ~quiescing
    BY DEF Next, Save, RequestRefresh, PollingEnds, PollingReports, Refresh, BeginRefresh,
       ReadIdentity, RefreshStopped, RefreshReleased, RefreshDrained, StartOwner, Quiesce, Close,
       Shutdown, BeginQuiesce, Quiesced, BeginClose, CloseReleased, Closed, WithLease, Admit,
       AcquireAlone, Leave, OtherAcquires, OtherReleases
  <2>2. ~Save
    BY DEF Save
  <2> QED BY <2>1, <2>2
<1>2. ~Shutdown /\ ~Close /\ ~Quiesce
  BY <1>1, BeforeQuiescing DEF Quiesce
<1>3. ~RequestRefresh
  <2> SUFFICES ASSUME RequestRefresh PROVE UnreadRefresh'
    OBVIOUS
  <2>1. Appended("refresh") /\ UNCHANGED step
    BY <1>1, EnqueueAppends DEF RequestRefresh, EnqueueRefresh, Transition
  <2>2. /\ Len(queue) \in Nat /\ Len(queue) + 1 \in 1..Len(queue')
        /\ queue'[Len(queue) + 1] = "refresh"
    BY <2>1 DEF Appended
  <2>3. Len(queue) = 0 => step = "none"
    BY RunningIsFirst DEF QueueFits, StepFits, TypeOK, Step
  <2> QED BY <2>1, <2>2, <2>3 DEF UnreadRefresh
<1>4. announced
  BY <1>1, <1>2, <1>3 DEF Next, PollingEnds, PollingReports, Refresh, BeginRefresh, ReadIdentity,
     RefreshStopped, RefreshReleased, RefreshDrained, StartOwner, WithLease, Admit, AcquireAlone,
     Leave, OtherAcquires, OtherReleases
<1>5. CASE Refresh
  <2>1. Running("refresh") /\ queue # <<>>
    BY <1>5 DEF Refresh, BeginRefresh, ReadIdentity, RefreshStopped, RefreshReleased,
       RefreshDrained, StartOwner, Running
  <2>2. CASE RefreshFails \/ Done
    <3>1. Shifted /\ step' = "none"
      BY <2>1, <2>2, DoneShifts, RefreshFailsEnds
    <3> QED BY <1>1, <1>4, <1>5, <3>1, AppliedByRefresh, LastRefreshEnds
  <2>3. CASE ~RefreshFails /\ ~Done
    <3>1. (UNCHANGED <<queue, stored>> /\ step' \notin {"none", "read"}) \/ BeginRefresh
      BY <1>5, <2>3 DEF Refresh, ReadIdentity, RefreshStopped, RefreshReleased, RefreshDrained,
         StartOwner
    <3>2. ~BeginRefresh
      <4> SUFFICES ASSUME BeginRefresh PROVE UnreadRefresh'
        OBVIOUS
      <4>1. step' = "read" /\ Running("refresh")
        BY <1>1 DEF BeginRefresh
      <4> QED BY <4>1, HeadStays, HeadIsQueuedAfter
    <3>3. RefreshQueued'
      BY <2>1, <3>1, <3>2, HeadStays, HeadIsQueuedAfter
    <3>4. CASE ReadIdentity
      BY <2>3, <3>3, <3>4 DEF ReadIdentity
    <3>5. CASE ~ReadIdentity
      <4>1. UNCHANGED target /\ step \notin {"none", "read"}
        BY <1>5, <2>3, <3>2, <3>5 DEF Refresh, RefreshStopped, RefreshReleased, RefreshDrained,
           StartOwner
      <4>2. ~UnreadRefresh
        BY <3>1, <3>2, <4>1 DEF UnreadRefresh
      <4>3. target = stored
        BY <1>1, <1>4, <2>1, <4>2, HeadIsQueued DEF SettingsFit
      <4> QED BY <3>1, <3>2, <3>3, <4>1, <4>3
    <3> QED BY <3>4, <3>5
  <2> QED BY <2>2, <2>3
<1>6. ASSUME UNCHANGED <<stored, target>>, ~UnreadRefresh, RefreshQueued' <=> RefreshQueued,
             StatusIsTrue => StatusIsTrue' \/ RefreshQueued'
      PROVE  IF RefreshQueued' THEN target' = stored' ELSE StatusIsTrue'
  <2>1. IF RefreshQueued THEN target = stored ELSE StatusIsTrue
    BY <1>1, <1>4, <1>6 DEF SettingsFit
  <2>2. CASE RefreshQueued'
    BY <1>6, <2>1, <2>2
  <2>3. CASE ~RefreshQueued'
    <3>1. ~RefreshQueued => StatusIsTrue
      BY <2>1
    <3> QED BY <1>6, <2>3, <3>1
  <2> QED BY <2>2, <2>3
<1>7. CASE PollingEnds \/ PollingReports \/ OtherAcquires \/ OtherReleases
           \/ \E o \in Op : AcquireAlone(o) \/ Leave(o)
  <2>1. UNCHANGED <<stored, target, queue, step, owner>>
    BY <1>7 DEF PollingEnds, PollingReports, OtherAcquires, OtherReleases, AcquireAlone, Leave
  <2>2. ~UnreadRefresh /\ (RefreshQueued' <=> RefreshQueued)
    BY <2>1 DEF UnreadRefresh, RefreshQueued
  <2>3. StatusIsTrue => StatusIsTrue' \/ RefreshQueued'
    <3>1. CASE PollingReports
      <4>1. CASE polling.aborted
        BY <1>1, <2>2, <3>1, <4>1, HeadIsQueued DEF PollingReports, PollingFits
      <4>2. CASE ~polling.aborted
        BY <3>1, <4>2 DEF PollingReports, StatusIsTrue
      <4> QED BY <4>1, <4>2
    <3>2. CASE PollingEnds
      <4>1. polling \in Polling /\ polling' = [polling EXCEPT !.running = FALSE]
            /\ UNCHANGED status
        BY <3>2 DEF PollingEnds, TypeOK
      <4>2. polling' \in Polling /\ polling'.identity = polling.identity /\ polling # None
        BY <3>2, <4>1 DEF Polling, PollingEnds
      <4> QED BY <2>1, <4>1, <4>2, NamesAssumption DEF StatusIsTrue
    <3>3. CASE ~PollingReports /\ ~PollingEnds
      BY <1>7, <2>1, <3>3 DEF OtherAcquires, OtherReleases, AcquireAlone, Leave, StatusIsTrue
    <3> QED BY <3>1, <3>2, <3>3
  <2> QED BY <1>6, <2>1, <2>2, <2>3
<1>8. ASSUME NEW o \in Op, WithLease(o)
      PROVE  IF RefreshQueued' THEN target' = stored' ELSE StatusIsTrue'
  <2>1. Appended(o) /\ UNCHANGED <<stored, target, step, owner, polling, status>>
    BY <1>8, EnqueueAppends DEF WithLease
  <2>2. o # "refresh"
    BY NamesAssumption DEF Transition
  <2>3. ~UnreadRefresh /\ (RefreshQueued' <=> RefreshQueued)
    BY <2>1, <2>2 DEF UnreadRefresh, RefreshQueued, Appended
  <2>4. StatusIsTrue => StatusIsTrue'
    BY <2>1 DEF StatusIsTrue
  <2> QED BY <1>6, <2>1, <2>3, <2>4
<1>9. ASSUME NEW o \in Op, Admit(o)
      PROVE  IF RefreshQueued' THEN target' = stored' ELSE StatusIsTrue'
  <2>1. /\ Shifted /\ queue[1] = o /\ queue # <<>> /\ Head(queue) = o
        /\ UNCHANGED <<stored, target, step, owner, polling, status>>
    BY <1>9, DepartShifts DEF Admit, Turn, TypeOK
  <2>2. step = "none" /\ o # "refresh"
    BY <2>1, NamesAssumption DEF TypeOK, Step, QueueFits, StepFits, Running, Transition
  <2>3. ~UnreadRefresh /\ ~RefreshQueued' /\ ~RefreshQueued
    BY <2>1, <2>2, LastRefreshEnds DEF UnreadRefresh, RefreshQueued
  <2>4. StatusIsTrue => StatusIsTrue'
    BY <2>1 DEF StatusIsTrue
  <2> QED BY <1>6, <2>1, <2>3, <2>4
<1> QED BY <1>1, <1>2, <1>3, <1>5, <1>7, <1>8, <1>9 DEF Next

LEMMA SettingsStep ==
  ASSUME TypeOK, TypeOK', QueueFits, PollingFits, SettingsFit, Next
  PROVE  SettingsFit'
BY StatusWhileRefreshing, StartingIsRefreshing, SettingsApplied DEF SettingsFit

(***************************************************************************)
(* The invariant holds, and what follows from it                           *)
(***************************************************************************)

LEMMA InitFits == Init => SupervisorFits
<1> SUFFICES ASSUME Init PROVE SupervisorFits
  OBVIOUS
<1>1. QueueFits /\ SettingsFit /\ PollingFits
  BY DEF Init, QueueFits, QueueOrder, StopIsFinal, StepFits, SettingsFit, PollingFits,
     PollingIsOwned, Running
<1>2. \A o \in Op : UseFits(o)
  <2> SUFFICES ASSUME NEW o \in Op PROVE UseFits(o)
    OBVIOUS
  <2>1. request[o].place = "idle"
    BY DEF Init
  <2> QED BY <2>1, NamesAssumption DEF Init, UseFits, At
<1>3. PortIsOwners
  BY NamesAssumption DEF Init, PortIsOwners
<1> QED BY <1>1, <1>2, <1>3, InitType, PortIsUsed DEF SupervisorFits

LEMMA SupervisorStep == SupervisorFits /\ [Next]_vars => SupervisorFits'
<1> SUFFICES ASSUME SupervisorFits, [Next]_vars PROVE SupervisorFits'
  OBVIOUS
<1> USE DEF SupervisorFits
<1>1. CASE UNCHANGED vars
  <2>1. TypeOK' /\ QueueFits'
    BY <1>1 DEF vars, TypeOK, QueueFits, QueueOrder, StopIsFinal, StepFits, Running, At
  <2>2. PortFits'
    BY <1>1 DEF vars, PortFits, PortHasOneUse, Borrowers, BaseOperations, At
  <2>3. PollingFits'
    BY <1>1 DEF vars, PollingFits, PollingIsOwned, Owns, Running
  <2>4. SettingsFit'
    BY <1>1 DEF vars, SettingsFit, UnreadRefresh, RefreshQueued, StatusIsTrue, Running
  <2> QED BY <2>1, <2>2, <2>3, <2>4
<1>2. CASE Next
  <2>1. TypeOK'
    BY <1>2, TypeStep
  <2>2. QueueFits'
    BY <1>2, <2>1, OrderStep, StopStep, StepFitsStep DEF QueueFits
  <2>3. PortFits'
    BY <1>2, PortStep
  <2>4. PollingFits' /\ SettingsFit'
    BY <1>2, <2>1, <2>3, PollingStep, SettingsStep
  <2> QED BY <2>1, <2>2, <2>3, <2>4
<1> QED BY <1>1, <1>2

\* The supervisor's queue, its owner, its polling loop and what it says of them
\* fit together always, in whatever order refreshes, requests, failures and a
\* shutdown meet.
THEOREM SupervisorAlwaysFits == Spec => []SupervisorFits
BY InitFits, SupervisorStep, PTL DEF Spec

\* The polling loop runs only under an owner of the very identity it polls for,
\* while that owner holds the port and the database is open.
THEOREM PollingIsAlwaysOwned == Spec => []PollingIsOwned
<1>1. SupervisorFits => PollingIsOwned
  BY DEF SupervisorFits, PollingFits
<1> QED BY <1>1, SupervisorAlwaysFits, PTL

\* The loopback port has one use at a time, and requests borrow it only from an
\* owner of their identity.
THEOREM PortAlwaysHasOneUse == Spec => []PortHasOneUse
<1>1. SupervisorFits => PortHasOneUse
  BY DEF SupervisorFits, PortFits
<1> QED BY <1>1, SupervisorAlwaysFits, PTL

\* With no transition pending, the status is about the identity last saved.
THEOREM SettingsAlwaysTakeEffect == Spec => []SettingsTakeEffect
<1>1. SupervisorFits => SettingsTakeEffect
  <2> SUFFICES ASSUME SupervisorFits, announced, ~quiescing,
                      \A i \in DOMAIN queue : queue[i] \notin Transition
               PROVE  StatusIsTrue /\ status # "starting"
    BY DEF SettingsTakeEffect, StatusIsTrue
  <2>1. \A i \in 1..Len(queue) : queue[i] # "refresh"
    BY DEF SupervisorFits, TypeOK, Transition
  <2>2. ~UnreadRefresh /\ ~RefreshQueued /\ ~Running("refresh")
    BY <2>1, RunningIsFirst DEF UnreadRefresh, RefreshQueued, SupervisorFits
  <2> QED BY <2>2 DEF SupervisorFits, SettingsFit
<1> QED BY <1>1, SupervisorAlwaysFits, PTL

=============================================================================
