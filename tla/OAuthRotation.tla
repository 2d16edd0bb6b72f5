----------------------------- MODULE OAuthRotation -----------------------------
(***************************************************************************)
(* How the User credential is renewed.  A refresh token works once, so its *)
(* use is reserved in an append-only journal before the request is sent,   *)
(* and an unproven outcome blocks the token until a newer credential is    *)
(* found in the Keychain or the person authorizes again.                   *)
(*                                                                         *)
(* One process holds the Feishu lease; its polling, replies and requests   *)
(* of the person run concurrently and share the journal, which serialises  *)
(* them, and the Keychain, which does not.  The process may stop at any    *)
(* point, and a `security` child it started may outlive it.                *)
(***************************************************************************)
EXTENDS Naturals, FiniteSets

CONSTANTS
  None,            \* no event, no credential, nobody
  Op,              \* operations that may run at the same time
  MaxTime,         \* bound: the clock reads 0..MaxTime
  MaxTokens,       \* bound: credentials Feishu issues, the first included
  MaxCrashes,      \* bound: how often the process stops
  ClockGoesBack,   \* whether the wall clock may be set back
  AppendFailures   \* what a failing append may do to the file

ASSUME BoundsAssumption ==
  /\ MaxTime \in Nat /\ MaxTokens \in Nat \ {0} /\ MaxCrashes \in Nat
  /\ ClockGoesBack \in BOOLEAN

\* Nothing is written; a part of the line is; or all of it is and only the
\* sync fails.
ASSUME FailuresAssumption == AppendFailures \subseteq {"lost", "torn", "whole"}

Time == 0..MaxTime

VARIABLES
  now,        \* the wall clock
  keychain,   \* the stored credential
  flying,     \* writes of `security` children nobody waits for any more
  submitted,  \* credentials whose refresh token was sent to Feishu
  issued,     \* number of credentials issued so far
  disk,       \* what loading the journal file would find
  latest,     \* the journal's last event, in memory
  active,     \* sequence of the reservation made by this process, in memory
  loaded,     \* FALSE if the file could not be read
  queue,      \* the operation that occupies the journal's queue
  run,        \* each operation: its step and local variables
  crashes

feishuVars == <<submitted, issued>>
keychainVars == <<keychain, flying>>
journalVars == <<disk, latest, active, loaded>>
vars == <<now, keychain, flying, submitted, issued, disk, latest, active,
          loaded, queue, run, crashes>>

Credential == [token : 1..MaxTokens, obtainedAt : Time]

Terminal == {"completed", "reauthorized"}
Unresolved == {"reserved", "uncertain", "reauthorization_required", "reauthorization_reserved"}

Event ==
  [sequence : Nat \ {0}, state : Unresolved, source : Time, result : {None}]
    \cup [sequence : Nat \ {0}, state : Terminal, source : Time, result : Time]

ASSUME NoneAssumption == None \notin Op \cup Time \cup Event \cup Credential

Blocked(e) == e # None /\ e.state \in Unresolved

(***************************************************************************)
(* The journal                                                             *)
(***************************************************************************)

\* Mutated form: an uncertain rotation stays uncertain.
NextStatesUnrecovered(state) ==
  CASE state = "reserved" -> {"completed", "uncertain", "reauthorization_required"}
    [] state = "reauthorization_required" -> {"reauthorization_reserved"}
    [] state = "reauthorization_reserved" -> {"reauthorization_required", "reauthorized"}
    [] OTHER -> {}

NextStates(state) ==
  CASE state = "reserved" -> {"completed", "uncertain", "reauthorization_required"}
    [] state = "uncertain" -> {"completed"}
    [] state = "reauthorization_required" -> {"reauthorization_reserved"}
    [] state = "reauthorization_reserved" -> {"reauthorization_required", "reauthorized"}
    [] OTHER -> {}

\* Mutated form: a later reservation may name an older credential.
FollowsRegressed(last, e) ==
  \/ last = None /\ e.state = "reserved" /\ e.sequence = 1
  \/ /\ last # None /\ last.state \in Terminal
     /\ e.state = "reserved" /\ e.sequence = last.sequence + 1
  \/ /\ last # None /\ e.state \in NextStates(last.state)
     /\ e.sequence = last.sequence /\ e.source = last.source

\* Which event may come after which.
Follows(last, e) ==
  \/ last = None /\ e.state = "reserved" /\ e.sequence = 1
  \/ /\ last # None /\ last.state \in Terminal
     /\ e.state = "reserved" /\ e.sequence = last.sequence + 1
     /\ e.source >= last.result
  \/ /\ last # None /\ e.state \in NextStates(last.state)
     /\ e.sequence = last.sequence /\ e.source = last.source

Chronological(e, recordedAt) ==
  /\ recordedAt >= e.source
  /\ e.state \in Terminal => e.source < e.result /\ e.result <= recordedAt

\* The file after a whole line reached it.  A line after a torn one, or one
\* that does not follow, cannot be read back.
WithLine(e) ==
  IF disk.tail = "clean" /\ Follows(disk.latest, e)
  THEN [latest |-> e, tail |-> "clean"]
  ELSE [disk EXCEPT !.tail = "unreadable"]

WithTornLine == [disk EXCEPT !.tail = IF @ = "clean" THEN "torn" ELSE @]

Outcomes(e, recordedAt) ==
  IF Follows(latest, e) /\ Chronological(e, recordedAt)
  THEN {"done"} \cup AppendFailures
  ELSE {"refused"}

\* The event becomes the latest one only when the append reports success.
Append(e, outcome) ==
  /\ latest' = IF outcome = "done" THEN e ELSE latest
  /\ disk' = CASE outcome \in {"done", "whole"} -> WithLine(e)
               [] outcome = "torn" -> WithTornLine
               [] OTHER -> disk
  /\ UNCHANGED loaded

JournalFree == loaded /\ queue = None

\* Loading cuts a torn last line off.
Load ==
  IF disk.tail = "unreadable"
  THEN latest' = None /\ loaded' = FALSE /\ UNCHANGED disk
  ELSE latest' = disk.latest /\ loaded' = TRUE /\ disk' = [disk EXCEPT !.tail = "clean"]

(***************************************************************************)
(* Operations.  `seen' is the event an operation acts on, `held' the       *)
(* credential it read or obtained, `verdict' the event it is to append.    *)
(***************************************************************************)

Step ==
  {"idle",
   "read", "decide", "reserve", "submit", "store",          \* refresh
   "exchange", "replace", "verify", "write", "confirm", "restore",
                                                            \* reauthorization
   "evidence", "recheck",                                   \* reconciliation
   "settle"}

Run ==
  [step : Step, seen : Event \cup {None}, held : Credential \cup {None},
   verdict : Terminal \cup Unresolved \cup {None}]

NoRun == [step |-> "idle", seen |-> None, held |-> None, verdict |-> None]

At(o, step) == run[o].step = step

Set(o, r) == run' = [run EXCEPT ![o] = r]
Goto(o, step) == run' = [run EXCEPT ![o].step = step]
Finish(o) == Set(o, NoRun)

\* What remains is to append `verdict', whatever happens in between.
ToSettle(o, verdict) == run' = [run EXCEPT ![o].step = "settle", ![o].verdict = verdict]

Resolution(e) ==
  IF e.state \in {"reauthorization_required", "reauthorization_reserved"}
  THEN "reauthorized" ELSE "completed"

\* The event `verdict' would append to the reservation `seen'.
SettlementOf(o) ==
  [sequence |-> run[o].seen.sequence, state |-> run[o].verdict,
   source |-> latest.source,
   result |-> IF run[o].verdict \in Terminal THEN run[o].held.obtainedAt ELSE None]

\* An append that fails leaves a reservation of this process active.
Settle(o) ==
  /\ At(o, "settle") /\ JournalFree
  /\ \E outcome \in Outcomes(SettlementOf(o), now) :
       /\ Append(SettlementOf(o), outcome)
       /\ active' = IF outcome = "done" THEN None ELSE active
  /\ Finish(o)
  /\ UNCHANGED <<now, keychainVars, feishuVars, queue, crashes>>

ActiveReservation(e) == e.state = "reserved" /\ active = e.sequence

(***************************************************************************)
(* Writing to the Keychain                                                 *)
(***************************************************************************)

Written(c) == keychain' = c /\ UNCHANGED flying
NotWritten == UNCHANGED keychainVars
MayBeWritten(c) == flying' = flying \cup {c} /\ UNCHANGED keychain

\* The child was killed or its answer is lost.
WriteUncertain(c) == Written(c) \/ NotWritten \/ MayBeWritten(c)

Land(c) ==
  /\ c \in flying
  /\ keychain' = c
  /\ flying' = flying \ {c}
  /\ UNCHANGED <<now, feishuVars, journalVars, queue, run, crashes>>

(***************************************************************************)
(* refreshIfNeeded                                                         *)
(***************************************************************************)

StartRefresh(o) ==
  /\ At(o, "idle") /\ JournalFree
  /\ Set(o, [NoRun EXCEPT !.step = "read", !.seen = latest])
  /\ UNCHANGED <<now, keychainVars, feishuVars, journalVars, queue, crashes>>

ReadCredential(o) ==
  /\ At(o, "read")
  /\ run' = [run EXCEPT ![o].step = "decide", ![o].held = keychain]
  /\ UNCHANGED <<now, keychainVars, feishuVars, journalVars, queue, crashes>>

Newer(c, e) == c.obtainedAt > e.source
Regressed(c, e) == e # None /\ c.obtainedAt < e.result

\* The journal was inspected before the credential was read; only whether its
\* reservation is active is looked up now.
Decide(o) ==
  LET seen == run[o].seen
      held == run[o].held IN
  /\ At(o, "decide")
  /\ \/ /\ Blocked(seen) /\ ~ActiveReservation(seen)
        /\ \/ Newer(held, seen) /\ ToSettle(o, Resolution(seen))
           \/ ~Newer(held, seen) /\ seen.state = "reserved" /\ ToSettle(o, "uncertain")
           \/ ~Newer(held, seen) /\ seen.state # "reserved" /\ Finish(o)
     \/ Blocked(seen) /\ ActiveReservation(seen) /\ Finish(o)
     \/ /\ ~Blocked(seen) /\ ~Regressed(held, seen)
        /\ Finish(o) \/ Goto(o, "reserve")   \* the access token is usable, or not
     \/ ~Blocked(seen) /\ Regressed(held, seen) /\ Finish(o)
  /\ UNCHANGED <<now, keychainVars, feishuVars, journalVars, queue, crashes>>

ReservationOf(c) ==
  [sequence |-> IF latest = None THEN 1 ELSE latest.sequence + 1,
   state |-> "reserved", source |-> c.obtainedAt, result |-> None]

Reserve(o) ==
  LET e == ReservationOf(run[o].held) IN
  /\ At(o, "reserve") /\ JournalFree
  /\ \E outcome \in Outcomes(e, now) :
       /\ Append(e, outcome)
       /\ IF outcome = "done"
          THEN /\ active' = e.sequence
               /\ run' = [run EXCEPT ![o].step = "submit", ![o].seen = e]
          ELSE UNCHANGED active /\ Finish(o)
  /\ UNCHANGED <<now, keychainVars, feishuVars, queue, crashes>>

Endpoint == INSTANCE TokenExchange

Issued == [token |-> issued + 1, obtainedAt |-> now]

Issue == issued < MaxTokens /\ issued' = issued + 1

\* Feishu answers with a new pair of tokens, refuses the refresh token, or
\* nothing usable comes back.
Submit(o) ==
  /\ At(o, "submit")
  /\ submitted' = submitted \cup {run[o].held}
  /\ \/ /\ Issue /\ now > run[o].held.obtainedAt
        /\ run' = [run EXCEPT ![o].step = "store", ![o].held = Issued]
     \/ /\ UNCHANGED issued
        /\ \E verdict \in Endpoint!Settlements : ToSettle(o, verdict)
  /\ UNCHANGED <<now, keychainVars, journalVars, queue, crashes>>

\* Cancelled before the request is sent.
Withhold(o) ==
  /\ At(o, "submit")
  /\ ToSettle(o, "uncertain")
  /\ UNCHANGED <<now, keychainVars, feishuVars, journalVars, queue, crashes>>

\* Mutated form: a write whose outcome is unknown counts as done.
StoreHopefully(o) ==
  /\ At(o, "store")
  /\ WriteUncertain(run[o].held) /\ ToSettle(o, "completed")
  /\ UNCHANGED <<now, feishuVars, journalVars, queue, crashes>>

Store(o) ==
  /\ At(o, "store")
  /\ \/ Written(run[o].held) /\ ToSettle(o, "completed")
     \/ WriteUncertain(run[o].held) /\ ToSettle(o, "uncertain")
  /\ UNCHANGED <<now, feishuVars, journalVars, queue, crashes>>

(***************************************************************************)
(* Reauthorization                                                         *)
(***************************************************************************)

AwaitsReauthorization == latest # None /\ latest.state = "reauthorization_required"

StartReauthorization(o) ==
  /\ At(o, "idle") /\ JournalFree /\ AwaitsReauthorization
  /\ Goto(o, "exchange")
  /\ UNCHANGED <<now, keychainVars, feishuVars, journalVars, queue, crashes>>

\* The journal is looked at again before the code is exchanged for tokens.
Exchange(o) ==
  /\ At(o, "exchange") /\ JournalFree
  /\ \/ /\ AwaitsReauthorization /\ Issue
        /\ run' = [run EXCEPT ![o].step = "replace", ![o].held = Issued]
     \/ Finish(o) /\ UNCHANGED issued
  /\ UNCHANGED <<now, keychainVars, submitted, journalVars, queue, crashes>>

\* The journal's queue stays occupied until the replacement is over.
Replace(o) ==
  LET e == [latest EXCEPT !.state = "reauthorization_reserved"] IN
  /\ At(o, "replace") /\ JournalFree
  /\ \/ /\ AwaitsReauthorization
        /\ \E outcome \in Outcomes(e, now) :
             /\ Append(e, outcome)
             /\ IF outcome = "done"
                THEN /\ queue' = o
                     /\ run' = [run EXCEPT ![o].step = "verify", ![o].seen = e]
                ELSE UNCHANGED queue /\ Finish(o)
     \/ ~AwaitsReauthorization /\ Finish(o) /\ UNCHANGED <<disk, latest, loaded, queue>>
  /\ UNCHANGED <<now, keychainVars, feishuVars, active, crashes>>

\* Mutated form: the new credential need not be newer than the blocked one.
ReplaceableIfNotFuture(c, e) == e.source <= now /\ c.obtainedAt <= now

Replaceable(c, e) == e.source < c.obtainedAt /\ c.obtainedAt <= now

\* Nothing was written, so the journal may ask for reauthorization again.
GiveWay(o) == Goto(o, "restore") /\ queue' = None

Verify(o) ==
  /\ At(o, "verify")
  /\ \/ /\ Replaceable(run[o].held, run[o].seen)
        /\ Goto(o, "write") /\ UNCHANGED queue
     \/ GiveWay(o)
  /\ UNCHANGED <<now, keychainVars, feishuVars, journalVars, crashes>>

\* Mutated form: a replacement that ends uncertain keeps the queue.
WriteKeepingQueue(o) ==
  /\ At(o, "write")
  /\ \/ Written(run[o].held) /\ Goto(o, "confirm") /\ UNCHANGED queue
     \/ WriteUncertain(run[o].held) /\ Finish(o) /\ UNCHANGED queue
     \/ NotWritten /\ GiveWay(o)
  /\ UNCHANGED <<now, feishuVars, journalVars, crashes>>

Write(o) ==
  /\ At(o, "write")
  /\ \/ Written(run[o].held) /\ Goto(o, "confirm") /\ UNCHANGED queue
     \/ WriteUncertain(run[o].held) /\ Finish(o) /\ queue' = None
     \/ NotWritten /\ GiveWay(o)
  /\ UNCHANGED <<now, feishuVars, journalVars, crashes>>

\* Recorded with the time read when the credential was verified.
Confirm(o) ==
  LET result == run[o].held.obtainedAt
      e == [run[o].seen EXCEPT !.state = "reauthorized", !.result = result] IN
  /\ At(o, "confirm")
  /\ \E outcome \in Outcomes(e, result) :
       /\ Append(e, outcome)
       /\ active' = IF outcome = "done" THEN None ELSE active
  /\ Finish(o) /\ queue' = None
  /\ UNCHANGED <<now, keychainVars, feishuVars, crashes>>

Restore(o) ==
  /\ At(o, "restore") /\ JournalFree
  /\ \/ latest = run[o].seen /\ ToSettle(o, "reauthorization_required")
     \/ latest # run[o].seen /\ Finish(o)
  /\ UNCHANGED <<now, keychainVars, feishuVars, journalVars, queue, crashes>>

(***************************************************************************)
(* Reconciliation                                                          *)
(***************************************************************************)

StartReconciliation(o) ==
  /\ At(o, "idle") /\ JournalFree
  /\ Blocked(latest) /\ latest.state # "reauthorization_required"
  /\ ~ActiveReservation(latest)
  /\ Set(o, [NoRun EXCEPT !.step = "evidence", !.seen = latest])
  /\ UNCHANGED <<now, keychainVars, feishuVars, journalVars, queue, crashes>>

ReadEvidence(o) ==
  /\ At(o, "evidence")
  /\ \/ /\ Newer(keychain, run[o].seen)
        /\ run' = [run EXCEPT ![o].step = "recheck", ![o].held = keychain]
     \/ Finish(o)   \* not newer, or its refresh token has expired
  /\ UNCHANGED <<now, keychainVars, feishuVars, journalVars, queue, crashes>>

Recheck(o) ==
  /\ At(o, "recheck") /\ JournalFree
  /\ \/ latest = run[o].seen /\ ToSettle(o, Resolution(latest))
     \/ latest # run[o].seen /\ Finish(o)
  /\ UNCHANGED <<now, keychainVars, feishuVars, journalVars, queue, crashes>>

(***************************************************************************)
(* Failures and time                                                       *)
(***************************************************************************)

\* An awaited call fails or is cancelled while nothing is at stake.
GiveUp(o) ==
  /\ run[o].step \in {"read", "decide", "exchange", "replace", "evidence", "recheck"}
  /\ Finish(o)
  /\ UNCHANGED <<now, keychainVars, feishuVars, journalVars, queue, crashes>>

\* The process stops and the next one loads the journal.
Crash ==
  /\ crashes < MaxCrashes
  /\ crashes' = crashes + 1
  /\ run' = [o \in Op |-> NoRun]
  /\ queue' = None /\ active' = None
  /\ flying' = flying \cup {run[o].held : o \in {p \in Op : At(p, "store") \/ At(p, "write")}}
  /\ Load
  /\ UNCHANGED <<now, keychain, feishuVars>>

SetClock ==
  /\ \E t \in Time : now' = t /\ (ClockGoesBack \/ t > now) /\ t # now
  /\ UNCHANGED <<keychainVars, feishuVars, journalVars, queue, run, crashes>>

Init ==
  /\ now = 0 /\ issued = 1
  /\ keychain = [token |-> 1, obtainedAt |-> 0]
  /\ flying = {} /\ submitted = {}
  /\ disk = [latest |-> None, tail |-> "clean"]
  /\ latest = None /\ active = None /\ loaded = TRUE
  /\ queue = None
  /\ run = [o \in Op |-> NoRun]
  /\ crashes = 0

\* An operation that has started goes on.
Proceed(o) ==
  \/ ReadCredential(o) \/ Decide(o) \/ Reserve(o) \/ Submit(o) \/ Withhold(o) \/ Store(o)
  \/ Exchange(o) \/ Replace(o) \/ Verify(o) \/ Write(o) \/ Confirm(o) \/ Restore(o)
  \/ ReadEvidence(o) \/ Recheck(o)
  \/ Settle(o) \/ GiveUp(o)

Start(o) == StartRefresh(o) \/ StartReauthorization(o) \/ StartReconciliation(o)

Next ==
  \/ \E o \in Op : Start(o) \/ Proceed(o)
  \/ \E c \in flying : Land(c)
  \/ Crash
  \/ SetClock

Spec == Init /\ [][Next]_vars

\* Awaited calls end; polling refreshes before every search, and a refresh
\* that is tried again and again is not cancelled every time.
Fairness ==
  \A o \in Op :
    /\ WF_vars(Proceed(o))
    /\ SF_vars(StartRefresh(o)) /\ SF_vars(ReadCredential(o)) /\ SF_vars(Decide(o))

FairSpec == Spec /\ Fairness

(***************************************************************************)
(* Properties                                                              *)
(***************************************************************************)

\* Every variable keeps its type; only resolved events carry a result.
TypeOK ==
  /\ now \in Time /\ issued \in 1..MaxTokens /\ crashes \in 0..MaxCrashes
  /\ keychain \in Credential
  /\ flying \subseteq Credential /\ submitted \subseteq Credential
  /\ disk \in [latest : Event \cup {None}, tail : {"clean", "torn", "unreadable"}]
  /\ latest \in Event \cup {None}
  /\ active \in Nat \cup {None} /\ loaded \in BOOLEAN
  /\ queue \in Op \cup {None}
  /\ run \in [Op -> Run]

\* A refresh token is sent to Feishu at most once: one that is about to be
\* sent was never sent before, by any operation, before or after a restart,
\* and whatever appends to the journal failed.
TokenUsedOnce == \A o \in Op : At(o, "submit") => run[o].held \notin submitted

\* An event that shows the token of a credential to be in use or used up.
Covers(e, c) ==
  /\ e # None
  /\ IF e.state \in Terminal THEN c.obtainedAt < e.result ELSE c.obtainedAt <= e.source

Spent == submitted \cup {run[o].held : o \in {p \in Op : At(p, "submit")}}

\* Which local variables are set at which step, and how far a reauthorization is.
RunFits(r) ==
  /\ r.step \in {"decide", "reserve", "submit", "store", "replace",
                 "verify", "write", "confirm", "recheck"} => r.held # None
  /\ r.step \in {"submit", "store", "verify", "write", "confirm",
                 "restore", "evidence", "recheck", "settle"} => r.seen # None
  /\ r.step \in {"verify", "write", "confirm"}
       => r.seen.state = "reauthorization_reserved"
  /\ r.step = "settle" =>
       /\ r.verdict \in {"uncertain", "reauthorization_required"} \cup Terminal
       /\ r.verdict \in Terminal => r.held # None

\* The inductive invariant: in memory and in the file, the journal covers every
\* token that was or is about to be sent, and no two operations send the same.
TokensCovered ==
  /\ \A o \in Op : RunFits(run[o])
  /\ \A c \in Spent :
       /\ loaded => Covers(latest, c)
       /\ disk.tail # "unreadable" => Covers(disk.latest, c)
  /\ \A o \in Op : At(o, "submit") => loaded
  /\ \A o, p \in Op : At(o, "submit") /\ At(p, "submit") /\ o # p => run[o].held # run[p].held

\* When the journal lets a refresh start, the refresh token in the Keychain
\* is an unused one and at least as new as the journal says.
UnblockedIsFresh ==
  loaded /\ ~Blocked(latest) =>
    /\ keychain \notin submitted
    /\ ~Regressed(keychain, latest)

\* No write, not even one that arrives late from a child of a dead process,
\* replaces a credential by one that is not newer.
NewestIsKept == [][keychain'.obtainedAt > keychain.obtainedAt]_keychain

\* The journal's queue is never occupied for good.
QueueIsReleased == \A o \in Op : queue = o ~> queue # o

\* A credential that reached the Keychain although its operation did not learn
\* of it unblocks the journal without further authorization.
StoredCredentialRecovers ==
  Blocked(latest) /\ Newer(keychain, latest) ~> ~Blocked(latest)
=============================================================================
