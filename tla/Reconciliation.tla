---------------------------- MODULE Reconciliation ----------------------------
(***************************************************************************)
(* The person lets TwinDesk compare the stored credential with a rotation  *)
(* whose outcome is unknown ("Check local credential").  The operation is  *)
(* a row in the database with an audit record for its request and one for  *)
(* its result; the effect in between is an event of the rotation journal.  *)
(* A row that was left pending is settled from the journal alone, when the *)
(* workbench starts or when the person asks again.                         *)
(*                                                                         *)
(* The polling loop and an authorization in the browser go on meanwhile:   *)
(* they renew the credential, or resolve the same event first.  Operations *)
(* and events are stamped with the wall clock, which may be set back, and  *)
(* an event whose append failed may be in the file of the journal all the  *)
(* same.                                                                   *)
(***************************************************************************)
EXTENDS Naturals, Sequences

CONSTANTS
  None,
  Call,         \* requests of the person, from any tabs, handled at a time
  MaxTime,      \* bound: the clock reads 0..MaxTime
  MaxRows,      \* bound: operations
  MaxSequence,  \* bound: rotations
  MaxCrashes,   \* bound: how often the process stops without closing
  AppendFailures  \* what a failing append may do to the file: nothing ("lost"),
                  \* a part of the line ("torn"), or the line ("whole")

Time == 0..MaxTime
Terminal == {"completed", "reauthorized"}
Unproven == {"reserved", "uncertain", "reauthorization_reserved"}
Unresolved == Unproven \cup {"reauthorization_required"}

\* An event of the rotation journal; source is the time of the credential that
\* was to be renewed, result that of the new one.
Event == [sequence : 1..MaxSequence, state : Terminal \cup Unresolved, source : Time,
          result : Time \cup {None}, recordedAt : Time]

\* What a reconciliation compares of an event.
Sight == [sequence : 1..MaxSequence, state : Terminal \cup Unresolved, source : Time]

Result == {"reconciled", "still_required", "cancelled", "failed"}

\* An operation.  Two fields are there for the properties only: how many
\* rotations had ended before it was requested, and which one it ended itself
\* before it was settled, by an append that reported success.
Row == [requestedAt : Time, result : Result \cup {None},
        ended : 0..MaxSequence, own : 1..MaxSequence \cup {None}]

Step == {"idle", "asked", "repair", "inspect", "read", "compare", "append", "conclude", "caught"}

VARIABLES
  now,       \* the wall clock
  journal,   \* the last event, in memory
  file,      \* the last event that loading the file would find, and its end
  readable,  \* FALSE if the file could not be read
  active,    \* the reservation this process holds
  renewing,  \* what this process is doing to the credential
  keychain,  \* when the stored credential was obtained
  rows,      \* the operations, and with each its audit records
  phase,     \* of the workbench
  call,      \* the requests in progress
  crashes

journalVars == <<journal, file, readable, active>>
rotationVars == <<journalVars, renewing, keychain>>
vars == <<now, rotationVars, rows, phase, call, crashes>>

NoCall == [step |-> "idle", row |-> None, seen |-> None, held |-> None, status |-> None,
           aborted |-> FALSE]

At(c, step) == call[c].step = step
Goto(c, step) == call' = [call EXCEPT ![c].step = step]
Answer(c) == call' = [call EXCEPT ![c] = NoCall]

Running == phase # "down"
Replacing == renewing = "replacement"
ActiveReservation == journal.state = "reserved" /\ active = journal.sequence

(***************************************************************************)
(* The journal                                                             *)
(***************************************************************************)

NextStates(state) ==
  CASE state = "reserved" -> {"completed", "uncertain", "reauthorization_required"}
    [] state = "uncertain" -> {"completed"}
    [] state = "reauthorization_required" -> {"reauthorization_reserved"}
    [] state = "reauthorization_reserved" -> {"reauthorization_required", "reauthorized"}
    [] OTHER -> {}

\* Which event may come after which.
Follows(last, e) ==
  \/ /\ last.state \in Terminal /\ e.state = "reserved"
     /\ e.sequence = last.sequence + 1 /\ e.source >= last.result
  \/ /\ e.state \in NextStates(last.state)
     /\ e.sequence = last.sequence /\ e.source = last.source

\* An event is not stamped before the credentials it names.  Nothing compares it
\* with the stamp of the event before, or with that of an operation.
Chronological(e) ==
  /\ e.recordedAt >= e.source
  /\ e.state \in Terminal => e.source < e.result /\ e.result <= e.recordedAt

\* The file after a whole line reached it.  A line after a torn one, or one that
\* does not follow, cannot be read back.
WithLine(e) ==
  IF file.tail = "clean" /\ Follows(file.latest, e)
  THEN [latest |-> e, tail |-> "clean"]
  ELSE [file EXCEPT !.tail = "unreadable"]

WithTornLine == [file EXCEPT !.tail = IF @ = "clean" THEN "torn" ELSE @]

\* A journal that could not be read takes no event.
Outcomes(e) ==
  IF readable /\ Follows(journal, e) /\ Chronological(e)
  THEN {"done"} \cup AppendFailures ELSE {"refused"}

\* The event is the last one of the process only if the append reports success.
AppendLine(e, outcome) ==
  /\ journal' = IF outcome = "done" THEN e ELSE journal
  /\ file' = CASE outcome \in {"done", "whole"} -> WithLine(e)
               [] outcome = "torn" -> WithTornLine
               [] OTHER -> file
  /\ UNCHANGED readable

\* The event that takes the last rotation to `state'.
EventOf(state, result) ==
  [journal EXCEPT !.state = state, !.result = result, !.recordedAt = now]

Settles(e, outcome) ==
  AppendLine(e, outcome) /\ active' = IF outcome = "done" THEN None ELSE active

\* Loading cuts a torn last line off.
Load ==
  IF file.tail = "unreadable"
  THEN readable' = FALSE /\ UNCHANGED <<journal, file>>
  ELSE readable' = TRUE /\ journal' = file.latest /\ file' = [file EXCEPT !.tail = "clean"]

\* Rotations that have ended.  One whose end is stamped with this very moment, or
\* with a later one because the clock was set back, is no different from one that
\* ends now.
Ended == IF journal.state \in Terminal THEN journal.sequence ELSE journal.sequence - 1
EndedBefore ==
  IF journal.state \in Terminal /\ journal.recordedAt >= now THEN journal.sequence - 1 ELSE Ended

(***************************************************************************)
(* The operation and its audit                                             *)
(***************************************************************************)

Pending == {i \in DOMAIN rows : rows[i].result = None}

\* The request and its audit record, if no other operation is pending.
BeginConnectorMaintenance ==
  /\ Pending = {} /\ Len(rows) < MaxRows
  /\ rows' = Append(rows, [requestedAt |-> now, result |-> None,
                           ended |-> EndedBefore, own |-> None])

\* A clock that was set back does not settle an operation before its request.
SettlementTime(i) == IF now < rows[i].requestedAt THEN rows[i].requestedAt ELSE now

\* The result and its audit record.  A settled operation keeps its result; a
\* replay of the very same settlement changes nothing.
MaySettle(i) == rows[i].result = None /\ SettlementTime(i) >= rows[i].requestedAt
SettleConnectorMaintenance(i, result) ==
  /\ MaySettle(i)
  /\ rows' = [rows EXCEPT ![i].result = result]

\* Mutated form: the end of any rotation is taken for the operation's.
AnyTerminal(i) == journal.state \in Terminal

TerminalAfterRequest(i) ==
  journal.state \in Terminal /\ journal.recordedAt >= rows[i].requestedAt

\* What the journal says of an operation that was left pending.
Evidence(i) ==
  CASE TerminalAfterRequest(i) -> "reconciled"
    [] ~TerminalAfterRequest(i) /\ journal.state \in Unproven -> "still_required"
    [] OTHER -> "failed"

\* An active reservation is no evidence, and neither is an unreadable journal.
Repairable == readable /\ ~ActiveReservation

RepairPending(i) == Repairable /\ SettleConnectorMaintenance(i, Evidence(i))
RepairFails(i) == ~(Repairable /\ MaySettle(i)) /\ UNCHANGED rows

(***************************************************************************)
(* The request of the person                                               *)
(***************************************************************************)

\* What the recovery page shows.
ReconciliationRequired == readable /\ journal.state \in Unproven /\ ~ActiveReservation

ServeMutation(c) ==
  /\ phase = "serving" /\ At(c, "idle") /\ ReconciliationRequired
  /\ Len(rows) < MaxRows \/ Pending # {}
  /\ Goto(c, "asked")
  /\ UNCHANGED <<now, rotationVars, rows, phase, crashes>>

\* The settings cannot be read, or the lease is neither borrowed from the polling
\* loop nor acquired.
LeaseFails(c) ==
  /\ At(c, "asked") /\ Answer(c)
  /\ UNCHANGED <<now, rotationVars, rows, phase, crashes>>

\* With the lease: a pending operation is repaired first; the request ends with it.
\* It may be that of a request that shares the lease and is still at work.
Reconcile(c) ==
  /\ At(c, "asked") /\ ~call[c].aborted
  /\ \/ /\ Pending # {}
        /\ \E i \in Pending :
             call' = [call EXCEPT ![c].step = "repair", ![c].row = i]
        /\ UNCHANGED rows
     \/ /\ BeginConnectorMaintenance
        /\ call' = [call EXCEPT ![c].step = "inspect", ![c].row = Len(rows) + 1]
  /\ UNCHANGED <<now, rotationVars, phase, crashes>>

Repair(c) ==
  /\ At(c, "repair") /\ ~Replacing
  /\ RepairPending(call[c].row) \/ RepairFails(call[c].row)
  /\ Answer(c)
  /\ UNCHANGED <<now, rotationVars, phase, crashes>>

\* FeishuOAuthReconciler.reconcile: what is unproven now.
Inspect(c) ==
  /\ At(c, "inspect") /\ ~Replacing
  /\ IF ReconciliationRequired
     THEN call' = [call EXCEPT ![c].step = "read",
                     ![c].seen = [sequence |-> journal.sequence, state |-> journal.state,
                                  source |-> journal.source]]
     ELSE Goto(c, "caught")
  /\ UNCHANGED <<now, rotationVars, rows, phase, crashes>>

\* The Keychain cannot be read, the credential is invalid, as one is that seems
\* to be obtained later than now, its refresh token has expired, or it is no newer
\* than the one that was to be renewed.
ReadEvidence(c) ==
  /\ At(c, "read")
  /\ \/ /\ ~call[c].aborted /\ keychain > call[c].seen.source /\ keychain <= now
        /\ call' = [call EXCEPT ![c].step = "compare", ![c].held = keychain]
     \/ /\ ~call[c].aborted /\ keychain <= now
        /\ call' = [call EXCEPT ![c].step = "conclude", ![c].status = "still_required"]
     \/ Goto(c, "caught")
  /\ UNCHANGED <<now, rotationVars, rows, phase, crashes>>

Same(e) == journal.sequence = e.sequence /\ journal.state = e.state /\ journal.source = e.source

Compare(c) ==
  /\ At(c, "compare") /\ ~Replacing
  /\ Goto(c, IF Same(call[c].seen) THEN "append" ELSE "caught")
  /\ UNCHANGED <<now, rotationVars, rows, phase, crashes>>

Resolution(e) ==
  IF e.state \in {"reauthorization_required", "reauthorization_reserved"}
  THEN "reauthorized" ELSE "completed"

\* The journal refuses the event if another one came in between or the clock was
\* set back behind the credential, or it cannot be written.  It does not know
\* whether the operation was settled meanwhile.
AppendEvent(c) ==
  LET seen == call[c].seen
      e == EventOf(Resolution(seen), call[c].held) IN
  /\ At(c, "append") /\ ~Replacing
  /\ \/ /\ journal.sequence = seen.sequence
        /\ \E outcome \in Outcomes(e) :
             /\ Settles(e, outcome)
             /\ IF outcome = "done"
                THEN /\ rows' = IF MaySettle(call[c].row)
                               THEN [rows EXCEPT ![call[c].row].own = seen.sequence] ELSE rows
                     /\ call' = [call EXCEPT ![c].step = "conclude", ![c].status = "reconciled"]
                ELSE Goto(c, "caught") /\ UNCHANGED rows
     \/ journal.sequence # seen.sequence /\ Goto(c, "caught") /\ UNCHANGED <<journalVars, rows>>
  /\ UNCHANGED <<now, renewing, keychain, phase, crashes>>

\* A cancellation that came meanwhile is noticed when the secrets are cleared.  A
\* settlement of another result is refused; the request fails.
Conclude(c) ==
  LET i == call[c].row IN
  /\ At(c, "conclude")
  /\ \/ call[c].aborted /\ Goto(c, "caught") /\ UNCHANGED rows
     \/ /\ ~call[c].aborted /\ Answer(c)
        /\ \/ SettleConnectorMaintenance(i, call[c].status)
           \/ ~MaySettle(i) /\ UNCHANGED rows
  /\ UNCHANGED <<now, rotationVars, phase, crashes>>

\* The journal decides what an error means.  If it cannot be read, or the
\* operation is settled already, the request just fails.
Caught(c) ==
  LET i == call[c].row
      result == IF TerminalAfterRequest(i) THEN "reconciled"
                ELSE IF call[c].aborted THEN "cancelled" ELSE "failed" IN
  /\ At(c, "caught") /\ ~Replacing
  /\ (readable /\ SettleConnectorMaintenance(i, result)) \/ UNCHANGED rows
  /\ Answer(c)
  /\ UNCHANGED <<now, rotationVars, phase, crashes>>

(***************************************************************************)
(* Starting and closing                                                    *)
(***************************************************************************)

\* The journal is loaded when it is first used.
Start ==
  /\ phase = "down" /\ phase' = "starting"
  /\ Load
  /\ UNCHANGED <<now, active, renewing, keychain, rows, call, crashes>>

\* What a process holds in memory is gone.
Forgets == active' = None /\ renewing' = "none"

\* recoverPending, before the first request is accepted.  The polling loop runs
\* already.  Without the lease or the journal, or with a reservation active, the
\* workbench does not start.
RecoverPending ==
  /\ phase = "starting"
  /\ \/ Pending = {} /\ phase' = "serving" /\ UNCHANGED rows
     \/ phase' = "serving" /\ ~Replacing /\ \E i \in Pending : RepairPending(i)
     \/ Pending # {} /\ phase' = "down" /\ UNCHANGED rows
  /\ IF phase' = "down" THEN Forgets ELSE UNCHANGED <<active, renewing>>
  /\ UNCHANGED <<now, journal, file, readable, keychain, call, crashes>>

\* Closing cancels the requests and waits for them.
Close ==
  /\ phase = "serving" /\ phase' = "closing"
  /\ call' = [c \in Call |-> IF At(c, "idle") THEN call[c] ELSE [call[c] EXCEPT !.aborted = TRUE]]
  /\ UNCHANGED <<now, rotationVars, rows, crashes>>

Closed ==
  /\ phase = "closing" /\ \A c \in Call : At(c, "idle")
  /\ phase' = "down" /\ Forgets
  /\ UNCHANGED <<now, journal, file, readable, keychain, rows, call, crashes>>

Crash ==
  /\ Running /\ crashes < MaxCrashes /\ crashes' = crashes + 1
  /\ phase' = "down" /\ Forgets
  /\ call' = [c \in Call |-> NoCall]
  /\ UNCHANGED <<now, journal, file, readable, keychain, rows>>

(***************************************************************************)
(* The credential is renewed elsewhere (see OAuthRotation)                 *)
(***************************************************************************)

Reserve ==
  LET e == [sequence |-> journal.sequence + 1, state |-> "reserved", source |-> keychain,
            result |-> None, recordedAt |-> now] IN
  /\ Running /\ readable /\ renewing = "none"
  /\ journal.state \in Terminal /\ journal.sequence < MaxSequence
  /\ \E outcome \in Outcomes(e) :
       /\ AppendLine(e, outcome)
       /\ IF outcome = "done" THEN active' = e.sequence /\ renewing' = "rotation"
                              ELSE UNCHANGED <<active, renewing>>
  /\ UNCHANGED <<now, keychain, rows, phase, call, crashes>>

\* The process records what became of its rotation: a new credential, obtained at
\* some time after the last one, is stored; there is none; or nobody knows.  If it
\* cannot, its reservation stays active.
RotationEnds ==
  /\ Running /\ renewing = "rotation" /\ ActiveReservation
  /\ \/ \E t \in Time :
          /\ t > journal.source /\ keychain' = t
          /\ LET e == EventOf("completed", t) IN \E outcome \in Outcomes(e) : Settles(e, outcome)
     \/ /\ \E state \in {"uncertain", "reauthorization_required"} :
             LET e == EventOf(state, None) IN \E outcome \in Outcomes(e) : Settles(e, outcome)
        /\ UNCHANGED keychain
  /\ renewing' = "none"
  /\ UNCHANGED <<now, rows, phase, call, crashes>>

\* A credential that was issued before arrives in the Keychain.
CredentialLands ==
  /\ journal.state \in Unresolved /\ keychain <= journal.source
  /\ \E t \in Time : t > journal.source /\ keychain' = t
  /\ UNCHANGED <<now, journalVars, renewing, rows, phase, call, crashes>>

\* The next refresh finds the newer credential by itself.
RefreshResolves ==
  LET state == IF keychain > journal.source THEN Resolution(journal) ELSE "uncertain"
      e == EventOf(state, IF keychain > journal.source THEN keychain ELSE None) IN
  /\ Running /\ readable /\ ~Replacing /\ journal.state \in Unresolved /\ ~ActiveReservation
  /\ keychain <= now /\ (keychain > journal.source \/ journal.state = "reserved")
  /\ \E outcome \in Outcomes(e) : Settles(e, outcome)
  /\ UNCHANGED <<now, renewing, keychain, rows, phase, call, crashes>>

\* The person authorizes again.  The journal takes part in nothing else until the
\* new credential is stored, and its event bears the time at which this began.
ReserveReplacement ==
  LET e == EventOf("reauthorization_reserved", None) IN
  /\ Running /\ readable /\ renewing = "none" /\ journal.state = "reauthorization_required"
  /\ \E outcome \in Outcomes(e) :
       /\ AppendLine(e, outcome)
       /\ renewing' = IF outcome = "done" THEN "replacement" ELSE renewing
  /\ UNCHANGED <<now, active, keychain, rows, phase, call, crashes>>

Replace ==
  /\ Running /\ Replacing
  /\ \E t \in Time :
       /\ journal.source < t /\ t <= journal.recordedAt /\ keychain' = t
       /\ LET e == [journal EXCEPT !.state = "reauthorized", !.result = t] IN
            \E outcome \in Outcomes(e) : Settles(e, outcome)
  /\ renewing' = "none"
  /\ UNCHANGED <<now, rows, phase, call, crashes>>

\* It is not stored, or nobody knows.
ReplaceFails ==
  /\ Running /\ Replacing /\ renewing' \in {"restoration", "none"}
  /\ UNCHANGED <<now, journalVars, keychain, rows, phase, call, crashes>>

\* The reservation is taken back, unless it was resolved meanwhile.
RestoreBlockedState ==
  LET e == EventOf("reauthorization_required", None) IN
  /\ Running /\ renewing = "restoration" /\ renewing' = "none"
  /\ \/ /\ journal.state = "reauthorization_reserved"
        /\ \E outcome \in Outcomes(e) : Settles(e, outcome)
     \/ journal.state # "reauthorization_reserved" /\ UNCHANGED journalVars
  /\ UNCHANGED <<now, keychain, rows, phase, call, crashes>>

\* The wall clock goes on, or is set, also back.
SetClock ==
  /\ \E t \in Time \ {now} : now' = t
  /\ UNCHANGED <<rotationVars, rows, phase, call, crashes>>

Init ==
  /\ now = 0 /\ keychain = 0 /\ active = None /\ renewing = "none" /\ readable = TRUE
  /\ journal = [sequence |-> 1, state |-> "uncertain", source |-> 0, result |-> None,
                recordedAt |-> 0]
  /\ file = [latest |-> journal, tail |-> "clean"]
  /\ rows = <<>> /\ phase = "down" /\ crashes = 0
  /\ call = [c \in Call |-> NoCall]

Handle(c) ==
  \/ ServeMutation(c) \/ LeaseFails(c) \/ Reconcile(c) \/ Repair(c) \/ Inspect(c)
  \/ ReadEvidence(c) \/ Compare(c) \/ AppendEvent(c) \/ Conclude(c) \/ Caught(c)

Next ==
  \/ \E c \in Call : Handle(c)
  \/ Start \/ RecoverPending \/ Close \/ Closed \/ Crash
  \/ Reserve \/ RotationEnds \/ CredentialLands \/ RefreshResolves
  \/ ReserveReplacement \/ Replace \/ ReplaceFails \/ RestoreBlockedState \/ SetClock

Spec == Init /\ [][Next]_vars

(***************************************************************************)
(* Properties                                                              *)
(***************************************************************************)

TypeOK ==
  /\ now \in Time /\ keychain \in Time
  /\ journal \in Event /\ active \in 1..MaxSequence \cup {None}
  /\ file \in [latest : Event, tail : {"clean", "torn", "unreadable"}]
  /\ readable \in BOOLEAN
  /\ renewing \in {"none", "rotation", "replacement", "restoration"}
  /\ rows \in Seq(Row)
  /\ phase \in {"down", "starting", "serving", "closing"}
  /\ \A c \in Call :
       /\ call[c].step \in Step /\ call[c].aborted \in BOOLEAN
       /\ call[c].row \in DOMAIN rows \cup {None}
       /\ call[c].seen \in Sight \cup {None} /\ call[c].held \in Time \cup {None}
       /\ call[c].status \in Result \cup {None}
  /\ crashes \in 0..MaxCrashes

\* The audits are true as far as the stamps allow.  One that says "reconciled" does
\* not credit the operation with a rotation whose end is stamped before it,
\* whoever ends rotations meanwhile.  And an operation that resolved the journal is
\* audited as such, whether it was cancelled late, failed afterwards or was cut off
\* by a crash (terminalAfterRequest in repairPending and in the catch of
\* reconcile), with three exceptions: the next rotation is recorded already, the
\* clock was set back so that the resolution is stamped before the request, or
\* another request had settled the operation before it resolved the journal.
\* (`own' is not set if the append failed, though its line may be in the file.)
ResultsAreTrue ==
  \A i \in DOMAIN rows :
    /\ rows[i].result = "reconciled" => Ended > rows[i].ended
    /\ rows[i].own # None /\ rows[i].result \notin {None, "reconciled"}
         => journal.sequence > rows[i].own \/ journal.recordedAt < rows[i].requestedAt
===============================================================================
