---------------------- MODULE BrowserProofs ----------------------
(***************************************************************************)
(* Theorems about what a person does in the browser.                       *)
(*                                                                         *)
(* OAuthAuthorization: what a controller says of a finished attempt is     *)
(* true, a code is exchanged by its own attempt, and the first             *)
(* authorization does not begin to write over the credential of another    *)
(* owner; for any number of attempts, tabs, crashes and late writes.       *)
(*                                                                         *)
(* Reconciliation: the audit of a check of the stored credential is true   *)
(* as far as the stamps allow, for any number of requests, operations,     *)
(* rotations and stops, failing appends and clocks set back.               *)
(*                                                                         *)
(* ConnectorSettings: what a page was told is saved is in the files, for   *)
(* any number of pages, saves and restarts.                                *)
(*                                                                         *)
(* InboxPage: what a click posts is what the screen shows, for any number  *)
(* of items, revisions, restorations and loads, whatever arrives late.     *)
(***************************************************************************)
EXTENDS WebPages, SequenceTheorems, TLAPS

(***************************************************************************)
(* The inductive invariant                                                 *)
(***************************************************************************)

\* The records of the attempts.
AttemptRecord ==
  [step : Steps, own : Number \cup {None}, answer : Number \cup {None},
   aborted : BOOLEAN, verdict : Verdicts \cup {None}]

\* Steps of an attempt that has an authorization URL.
Numbered == {"wait", "recheck", "submit", "exchange", "verify", "write", "settle", "restore"}

Ending(f, verdict) ==
  attempt[f].step \in {"close", "release", "off"} /\ attempt[f].verdict = verdict

\* Nothing of the attempt was written, nor will be without a further step of it.
Unwritten(f) ==
  \/ attempt[f].step \in {"load", "lease", "listen", "check", "present"}
  \/ attempt[f].step \in Numbered \ {"settle"}
  \/ Ending(f, "failed")

\* The credential of the attempt was in the Keychain.
WasStored(f) == At(f, "settle") \/ Ending(f, "succeeded")

\* Each URL is that of one attempt, and only its credential has its number.
NumbersAreUnique ==
  /\ \A f \in Flow : attempt[f].own # None => attempt[f].own \in 1..issued
  /\ \A f, g \in Flow : f # g /\ attempt[f].own # None => attempt[f].own # attempt[g].own
  /\ \A f \in Flow : attempt[f].step \in Numbered => attempt[f].own # None
  /\ stored \cup flying \subseteq 1..issued

\* While the first authorization holds the lease, no one else stores a credential.
LeaseKeepsOthersOut ==
  lease = "initial" /\ attempt["initial"].step \in {"present", "wait", "recheck", "submit",
                                                   "exchange", "verify"}
    => keychain # Foreign

KeychainFits(f) ==
  /\ Unwritten(f) => attempt[f].own \notin stored \cup flying
  /\ WasStored(f) => attempt[f].own \in stored

\* An attempt that is being closed has an outcome, and the status of a finished one
\* is that outcome, or that it was cancelled without success.
VerdictsAreGiven ==
  \A f \in Flow :
    /\ attempt[f].step \in {"close", "release"} => attempt[f].verdict \in Verdicts
    /\ At(f, "off") =>
         \/ status[f] = "idle"
         \/ /\ attempt[f].verdict \in Verdicts
            /\ \/ status[f] = attempt[f].verdict
               \/ status[f] = "cancelled" /\ attempt[f].verdict # "succeeded"

AttemptsFit ==
  /\ TypeOK
  /\ NumbersAreUnique
  /\ VerdictsAreGiven
  /\ \A f \in Flow : KeychainFits(f)
  /\ CodesAreTheirOwn
  /\ LeaseKeepsOthersOut

\* Names of states and of sets of constants, expanded in every leaf below.
USE BoundsAssumption, NamesAssumption DEF Flow, Number, Foreign, Steps, Verdicts,
                                          Statuses, keychainVars, At, Numbered

(***************************************************************************)
(* Every step keeps it: one lemma for each action                          *)
(***************************************************************************)

LEMMA LoadKeeps ==
  ASSUME AttemptsFit, NEW f \in Flow, Load(f)
  PROVE  AttemptsFit'
BY SMTT(30) DEF AttemptsFit, TypeOK, NumbersAreUnique, VerdictsAreGiven, KeychainFits,
                CodesAreTheirOwn, LeaseKeepsOthersOut, Ending, Unwritten, WasStored, Load,
                End, Goto, Aborted

LEMMA AcquireKeeps ==
  ASSUME AttemptsFit, NEW f \in Flow, Acquire(f)
  PROVE  AttemptsFit'
BY SMTT(30) DEF AttemptsFit, TypeOK, NumbersAreUnique, VerdictsAreGiven, KeychainFits,
                CodesAreTheirOwn, LeaseKeepsOthersOut, Ending, Unwritten, WasStored,
                Acquire, End, Aborted, Goto

LEMMA CheckKeeps ==
  ASSUME AttemptsFit, NEW f \in Flow, Check(f)
  PROVE  AttemptsFit'
BY SMTT(30) DEF AttemptsFit, TypeOK, NumbersAreUnique, VerdictsAreGiven, KeychainFits,
                CodesAreTheirOwn, LeaseKeepsOthersOut, Ending, Unwritten, WasStored,
                Check, End, Goto, Wanted, CredentialMissing, ReauthorizationPending,
                Aborted

LEMMA ListenKeeps ==
  ASSUME AttemptsFit, NEW f \in Flow, Listen(f)
  PROVE  AttemptsFit'
BY SMTT(30) DEF AttemptsFit, TypeOK, NumbersAreUnique, VerdictsAreGiven, KeychainFits,
                CodesAreTheirOwn, LeaseKeepsOthersOut, Ending, Unwritten, WasStored,
                Listen, End, Goto, Aborted, AssertHeld

LEMMA PresentKeeps ==
  ASSUME AttemptsFit, NEW f \in Flow, Present(f)
  PROVE  AttemptsFit'
BY SMTT(30) DEF AttemptsFit, TypeOK, NumbersAreUnique, VerdictsAreGiven, KeychainFits,
                CodesAreTheirOwn, LeaseKeepsOthersOut, Ending, Unwritten, WasStored,
                Present, End, Aborted, AssertHeld

LEMMA StopWaitingKeeps ==
  ASSUME AttemptsFit, NEW f \in Flow, StopWaiting(f)
  PROVE  AttemptsFit'
BY SMTT(30) DEF AttemptsFit, TypeOK, NumbersAreUnique, VerdictsAreGiven, KeychainFits,
                CodesAreTheirOwn, LeaseKeepsOthersOut, Ending, Unwritten, WasStored,
                StopWaiting, End

LEMMA RecheckKeeps ==
  ASSUME AttemptsFit, NEW f \in Flow, Recheck(f)
  PROVE  AttemptsFit'
BY SMTT(30) DEF AttemptsFit, TypeOK, NumbersAreUnique, VerdictsAreGiven, KeychainFits,
                CodesAreTheirOwn, LeaseKeepsOthersOut, Ending, Unwritten, WasStored,
                Recheck, End, Goto, AssertHeld, Wanted, CredentialMissing,
                ReauthorizationPending, Aborted

LEMMA SubmitKeeps ==
  ASSUME AttemptsFit, NEW f \in Flow, Submit(f)
  PROVE  AttemptsFit'
BY SMTT(30) DEF AttemptsFit, TypeOK, NumbersAreUnique, VerdictsAreGiven, KeychainFits,
                CodesAreTheirOwn, LeaseKeepsOthersOut, Ending, Unwritten, WasStored,
                Submit, End, Goto, AssertHeld, Aborted, StateMatches

LEMMA ExchangeKeeps ==
  ASSUME AttemptsFit, NEW f \in Flow, Exchange(f)
  PROVE  AttemptsFit'
BY SMTT(30) DEF AttemptsFit, TypeOK, NumbersAreUnique, VerdictsAreGiven, KeychainFits,
                CodesAreTheirOwn, LeaseKeepsOthersOut, Ending, Unwritten, WasStored,
                Exchange, End, Goto, AssertHeld, Aborted, Wanted, ReauthorizationPending

LEMMA VerifyKeeps ==
  ASSUME AttemptsFit, NEW f \in Flow, Verify(f)
  PROVE  AttemptsFit'
BY SMTT(30) DEF AttemptsFit, TypeOK, NumbersAreUnique, VerdictsAreGiven, KeychainFits,
                CodesAreTheirOwn, LeaseKeepsOthersOut, Ending, Unwritten, WasStored,
                Verify, End, Goto, GiveUp, AssertHeld, Aborted

LEMMA SettleKeeps ==
  ASSUME AttemptsFit, NEW f \in Flow, Settle(f)
  PROVE  AttemptsFit'
BY SMTT(30) DEF AttemptsFit, TypeOK, NumbersAreUnique, VerdictsAreGiven, KeychainFits,
                CodesAreTheirOwn, LeaseKeepsOthersOut, Ending, Unwritten, WasStored,
                Settle, End

LEMMA RestoreKeeps ==
  ASSUME AttemptsFit, NEW f \in Flow, Restore(f)
  PROVE  AttemptsFit'
BY SMTT(30) DEF AttemptsFit, TypeOK, NumbersAreUnique, VerdictsAreGiven, KeychainFits,
                CodesAreTheirOwn, LeaseKeepsOthersOut, Ending, Unwritten, WasStored,
                Restore, End

LEMMA CloseKeeps ==
  ASSUME AttemptsFit, NEW f \in Flow, Close(f)
  PROVE  AttemptsFit'
BY SMTT(30) DEF AttemptsFit, TypeOK, NumbersAreUnique, VerdictsAreGiven, KeychainFits,
                CodesAreTheirOwn, LeaseKeepsOthersOut, Ending, Unwritten, WasStored,
                Close, Goto

LEMMA ReleaseKeeps ==
  ASSUME AttemptsFit, NEW f \in Flow, Release(f)
  PROVE  AttemptsFit'
<1>1. TypeOK'
  BY DEF AttemptsFit, VerdictsAreGiven, TypeOK, Release, Conclusion, Aborted, Off
<1>2. NumbersAreUnique'
  BY DEF AttemptsFit, TypeOK, NumbersAreUnique, Release, Conclusion, Aborted, Off
<1>3. VerdictsAreGiven'
  BY DEF AttemptsFit, TypeOK, VerdictsAreGiven, Release, Conclusion, Aborted, Off
<1>4. ASSUME NEW g \in Flow PROVE KeychainFits(g)'
  BY <1>1 DEF AttemptsFit, TypeOK, NumbersAreUnique, KeychainFits, Ending, Unwritten,
              WasStored, Release, Conclusion, Aborted, Off
<1>5. CodesAreTheirOwn'
  BY DEF AttemptsFit, CodesAreTheirOwn, Release, Conclusion, Aborted, Off
<1>6. LeaseKeepsOthersOut'
  BY DEF AttemptsFit, TypeOK, LeaseKeepsOthersOut, Release, Conclusion, Aborted, Off
<1> QED BY <1>1, <1>2, <1>3, <1>4, <1>5, <1>6 DEF AttemptsFit

LEMMA StartKeeps ==
  ASSUME AttemptsFit, NEW f \in Flow, Start(f)
  PROVE  AttemptsFit'
<1>1. TypeOK'
  BY DEF AttemptsFit, VerdictsAreGiven, TypeOK, Start, Active, Off
<1>2. NumbersAreUnique'
  BY DEF AttemptsFit, TypeOK, NumbersAreUnique, Start, Active, Off
<1>3. VerdictsAreGiven'
  BY DEF AttemptsFit, TypeOK, VerdictsAreGiven, Start, Active, Off
<1>4. ASSUME NEW g \in Flow PROVE KeychainFits(g)'
  BY <1>1 DEF AttemptsFit, TypeOK, NumbersAreUnique, KeychainFits, Ending, Unwritten,
              WasStored, Start, Active, Off
<1>5. CodesAreTheirOwn'
  BY DEF AttemptsFit, CodesAreTheirOwn, Start, Active, Off
<1>6. LeaseKeepsOthersOut'
  BY DEF AttemptsFit, TypeOK, LeaseKeepsOthersOut, Start, Active, Off
<1> QED BY <1>1, <1>2, <1>3, <1>4, <1>5, <1>6 DEF AttemptsFit

\* Cancelling keeps the type of an attempt.
LEMMA AbortedRecord ==
  ASSUME NEW r \in AttemptRecord
  PROVE  [r EXCEPT !.aborted = TRUE] \in AttemptRecord
<1> HIDE DEF Steps, Number, Verdicts
<1> QED BY DEF AttemptRecord

LEMMA CancelKeeps ==
  ASSUME AttemptsFit, NEW f \in Flow, Cancel(f)
  PROVE  AttemptsFit'
<1>1. TypeOK'
  <2>2. [attempt[f] EXCEPT !.aborted = TRUE] \in AttemptRecord
    BY AbortedRecord DEF AttemptsFit, TypeOK, AttemptRecord
  <2>3. attempt' \in [Flow -> AttemptRecord]
    BY <2>2 DEF AttemptsFit, TypeOK, AttemptRecord, Cancel
  <2> QED BY <2>3 DEF AttemptsFit, TypeOK, AttemptRecord, Cancel
<1>2. NumbersAreUnique'
  BY DEF AttemptsFit, TypeOK, NumbersAreUnique, Cancel, Active, Aborted
<1>3. VerdictsAreGiven'
  BY DEF AttemptsFit, TypeOK, VerdictsAreGiven, Cancel, Active, Aborted
<1>4. ASSUME NEW g \in Flow PROVE KeychainFits(g)'
  BY <1>1 DEF AttemptsFit, TypeOK, NumbersAreUnique, KeychainFits, Ending, Unwritten,
              WasStored, Cancel, Active, Aborted
<1>5. CodesAreTheirOwn'
  BY DEF AttemptsFit, CodesAreTheirOwn, Cancel, Active, Aborted
<1>6. LeaseKeepsOthersOut'
  BY DEF AttemptsFit, TypeOK, LeaseKeepsOthersOut, Cancel, Active, Aborted
<1> QED BY <1>1, <1>2, <1>3, <1>4, <1>5, <1>6 DEF AttemptsFit

LEMMA PersistKeeps ==
  ASSUME AttemptsFit, Persist
  PROVE  AttemptsFit'
BY SMTT(30) DEF AttemptsFit, TypeOK, NumbersAreUnique, VerdictsAreGiven, KeychainFits,
                CodesAreTheirOwn, LeaseKeepsOthersOut, Ending, Unwritten, WasStored,
                Persist, End, Goto, Aborted, Written, WriteUncertain, Off

LEMMA ReplaceKeeps ==
  ASSUME AttemptsFit, Replace
  PROVE  AttemptsFit'
BY SMTT(30) DEF AttemptsFit, TypeOK, NumbersAreUnique, VerdictsAreGiven, KeychainFits,
                CodesAreTheirOwn, LeaseKeepsOthersOut, Ending, Unwritten, WasStored,
                Replace, End, Goto, Aborted, Written, WriteUncertain, Off

LEMMA LoseLeaseKeeps ==
  ASSUME AttemptsFit, LoseLease
  PROVE  AttemptsFit'
BY SMTT(30) DEF AttemptsFit, TypeOK, NumbersAreUnique, VerdictsAreGiven, KeychainFits,
                CodesAreTheirOwn, LeaseKeepsOthersOut, Ending, Unwritten, WasStored,
                LoseLease, End, Goto, Aborted, Written, WriteUncertain, Off

LEMMA OtherTakesLeaseKeeps ==
  ASSUME AttemptsFit, OtherTakesLease
  PROVE  AttemptsFit'
BY SMTT(30) DEF AttemptsFit, TypeOK, NumbersAreUnique, VerdictsAreGiven, KeychainFits,
                CodesAreTheirOwn, LeaseKeepsOthersOut, Ending, Unwritten, WasStored,
                OtherTakesLease, End, Goto, Aborted, Written, WriteUncertain, Off

LEMMA OtherReleasesLeaseKeeps ==
  ASSUME AttemptsFit, OtherReleasesLease
  PROVE  AttemptsFit'
BY SMTT(30) DEF AttemptsFit, TypeOK, NumbersAreUnique, VerdictsAreGiven, KeychainFits,
                CodesAreTheirOwn, LeaseKeepsOthersOut, Ending, Unwritten, WasStored,
                OtherReleasesLease, End, Goto, Aborted, Written, WriteUncertain, Off

LEMMA OtherRotatesKeeps ==
  ASSUME AttemptsFit, OtherRotates
  PROVE  AttemptsFit'
BY SMTT(30) DEF AttemptsFit, TypeOK, NumbersAreUnique, VerdictsAreGiven, KeychainFits,
                CodesAreTheirOwn, LeaseKeepsOthersOut, Ending, Unwritten, WasStored,
                OtherRotates, End, Goto, Aborted, Written, WriteUncertain, Off

LEMMA CrashKeeps ==
  ASSUME AttemptsFit, Crash
  PROVE  AttemptsFit'
<1>0. flying' \subseteq 1..issued
  <2>1. flying' = flying \cup {attempt[f].own : f \in {g \in Flow : At(g, "write")}}
    BY DEF Crash
  <2>2. ASSUME NEW g \in Flow, attempt[g].step = "write" PROVE attempt[g].own \in 1..issued
    BY <2>2 DEF AttemptsFit, NumbersAreUnique
  <2>3. flying \subseteq 1..issued
    BY DEF AttemptsFit, NumbersAreUnique
  <2> QED BY <2>1, <2>2, <2>3
<1>1. TypeOK'
  <2>1. flying' \subseteq Number
    BY <1>0 DEF AttemptsFit, TypeOK
  <2>2. Off \in AttemptRecord
    BY DEF Off, AttemptRecord
  <2>3. attempt' \in [Flow -> AttemptRecord]
    BY <2>2 DEF Crash
  <2>4. status' \in [Flow -> Statuses]
    BY DEF Crash
  <2>5. crashes' \in 0..MaxCrashes
    BY DEF AttemptsFit, TypeOK, Crash
  <2>6. lease' \in Flow \cup {None, Other} /\ listener' \in Flow \cup {None}
    BY DEF AttemptsFit, TypeOK, Crash
  <2>7. UNCHANGED <<issued, sent, keychain, stored, journal>>
    BY DEF Crash
  <2> QED BY <2>1, <2>3, <2>4, <2>5, <2>6, <2>7 DEF AttemptsFit, TypeOK, AttemptRecord
<1>2. NumbersAreUnique'
  BY <1>0 DEF AttemptsFit, NumbersAreUnique, Crash, Off
<1>3. VerdictsAreGiven'
  BY DEF AttemptsFit, TypeOK, VerdictsAreGiven, Crash, Off
<1>4. ASSUME NEW g \in Flow PROVE KeychainFits(g)'
  <2>1. attempt'[g].step = "off" /\ attempt'[g].verdict = None
    BY DEF Crash, Off
  <2> QED BY <2>1 DEF KeychainFits, Ending, Unwritten, WasStored
<1>5. CodesAreTheirOwn'
  BY DEF AttemptsFit, CodesAreTheirOwn, Crash, Off
<1>6. LeaseKeepsOthersOut'
  BY DEF AttemptsFit, TypeOK, LeaseKeepsOthersOut, Crash, Off
<1> QED BY <1>1, <1>2, <1>3, <1>4, <1>5, <1>6 DEF AttemptsFit

LEMMA LandKeeps ==
  ASSUME AttemptsFit, NEW n \in Number, Land(n)
  PROVE  AttemptsFit'
BY SMTT(30) DEF AttemptsFit, TypeOK, NumbersAreUnique, VerdictsAreGiven, KeychainFits,
                CodesAreTheirOwn, LeaseKeepsOthersOut, Ending, Unwritten, WasStored, Land

LEMMA CallbackKeeps ==
  ASSUME AttemptsFit, NEW f \in Flow, NEW n \in Number, NEW answer \in {"code", "denied"}, Callback(f, n, answer)
  PROVE  AttemptsFit'
BY SMTT(30) DEF AttemptsFit, TypeOK, NumbersAreUnique, VerdictsAreGiven, KeychainFits,
                CodesAreTheirOwn, LeaseKeepsOthersOut, Ending, Unwritten, WasStored,
                Callback, CallbackResult, Aborted, StateMatches

(***************************************************************************)
(* The theorems                                                            *)
(***************************************************************************)

LEMMA InitFits == Init => AttemptsFit
<1> SUFFICES ASSUME Init PROVE AttemptsFit
  OBVIOUS
<1>1. Off \in AttemptRecord /\ Off.own = None /\ Off.step = "off"
  BY DEF Off, AttemptRecord
<1>2. TypeOK
  BY <1>1 DEF Init, TypeOK, AttemptRecord
<1>3. NumbersAreUnique /\ VerdictsAreGiven
  BY <1>1 DEF Init, NumbersAreUnique, VerdictsAreGiven
<1>4. ASSUME NEW f \in Flow PROVE KeychainFits(f)
  BY <1>1 DEF Init, Off, KeychainFits, Unwritten, WasStored, Ending
<1>5. CodesAreTheirOwn /\ LeaseKeepsOthersOut
  BY DEF Init, CodesAreTheirOwn, LeaseKeepsOthersOut
<1> QED BY <1>2, <1>3, <1>4, <1>5 DEF AttemptsFit

LEMMA ProceedKeeps ==
  ASSUME AttemptsFit, NEW f \in Flow, Proceed(f)
  PROVE  AttemptsFit'
BY LoadKeeps, AcquireKeeps, CheckKeeps, ListenKeeps, PresentKeeps, StopWaitingKeeps,
   RecheckKeeps, SubmitKeeps, ExchangeKeeps, VerifyKeeps, PersistKeeps, ReplaceKeeps,
   SettleKeeps, RestoreKeeps, CloseKeeps, ReleaseKeeps
   DEF Proceed

LEMMA NextKeeps == AttemptsFit /\ [Next]_vars => AttemptsFit'
<1> SUFFICES ASSUME AttemptsFit, [Next]_vars PROVE AttemptsFit'
  OBVIOUS
<1>1. CASE UNCHANGED vars
  BY <1>1 DEF vars, AttemptsFit, TypeOK, NumbersAreUnique, VerdictsAreGiven, KeychainFits,
              CodesAreTheirOwn, LeaseKeepsOthersOut, Ending, Unwritten, WasStored
<1>2. CASE StartFeishuAuthorization \/ StartFeishuReauthorization
  BY <1>2, StartKeeps DEF StartFeishuAuthorization, StartFeishuReauthorization
<1>3. CASE CancelFeishuAuthorization \/ CancelFeishuReauthorization
  BY <1>3, CancelKeeps DEF CancelFeishuAuthorization, CancelFeishuReauthorization
<1>4. CASE \E f \in Flow : Proceed(f)
  BY <1>4, ProceedKeeps
<1>5. CASE \E f \in Flow, n \in Number, answer \in {"code", "denied"} : Callback(f, n, answer)
  BY <1>5, CallbackKeeps
<1>6. CASE \E n \in Number : Land(n)
  BY <1>6, LandKeeps
<1>7. CASE LoseLease \/ OtherTakesLease \/ OtherReleasesLease \/ OtherRotates \/ Crash
  BY <1>7, LoseLeaseKeeps, OtherTakesLeaseKeeps, OtherReleasesLeaseKeeps, OtherRotatesKeeps,
     CrashKeeps
<1> QED BY <1>1, <1>2, <1>3, <1>4, <1>5, <1>6, <1>7 DEF Next

\* In every behaviour the variables keep their types and the attempts, the
\* Keychain and the lease fit together: the inductive invariant.
THEOREM AttemptsAlwaysFit == Spec => []AttemptsFit
BY InitFits, NextKeeps, PTL DEF Spec

\* A code is only ever exchanged by the attempt whose URL it answers, however
\* many tabs of earlier attempts answer (session.complete, the loopback listener).
THEOREM CodesStayTheirOwn == Spec => []CodesAreTheirOwn
<1>1. AttemptsFit => CodesAreTheirOwn
  BY DEF AttemptsFit
<1> QED BY <1>1, AttemptsAlwaysFit, PTL

\* Success and failure of a finished attempt are true of the Keychain, and so is a
\* cancellation unless the verdict it replaced was "reconcile", for any number of
\* attempts, cancellations, late writes and crashes.
THEOREM StatusIsAlwaysTrue == Spec => []StatusIsTrue
<1>1. AttemptsFit => StatusIsTrue
  BY DEF AttemptsFit, TypeOK, VerdictsAreGiven, KeychainFits, Unwritten, WasStored, Ending,
         StatusIsTrue, Active
<1> QED BY <1>1, AttemptsAlwaysFit, PTL

\* The first authorization does not begin to write over the credential of
\* another owner, whenever it loses the lease and whoever takes it.
THEOREM CredentialsAreKept == Spec => InitialKeepsCredentials
<1>1. AttemptsFit /\ [Next]_vars =>
        (At("initial", "verify") /\ attempt'["initial"].step = "write" => keychain # Foreign)
  <2> SUFFICES ASSUME AttemptsFit, [Next]_vars, At("initial", "verify"),
                      attempt'["initial"].step = "write"
               PROVE  keychain # Foreign
    OBVIOUS
  <2>1. Verify("initial")
    <3>1. attempt["initial"].step = "verify" /\ attempt \in [Flow -> AttemptRecord]
      BY DEF AttemptsFit, TypeOK, AttemptRecord
    <3>2. ~Start("initial") /\ ~UNCHANGED vars
      BY <3>1 DEF Start, Active, vars
    <3>10. ~Cancel("initial")
      BY <3>1 DEF Cancel, AttemptRecord
    <3>3. ~Start("again") /\ ~Cancel("again")
      BY <3>1 DEF Start, Cancel
    <3>4. ASSUME NEW f \in Flow, NEW n \in Number, NEW answer, Callback(f, n, answer) PROVE FALSE
      BY <3>1, <3>4 DEF Callback
    <3>5. ~Crash
      BY <3>1 DEF Crash, Off
    <3>6. attempt' # attempt
      BY <3>1
    <3>7. PICK f \in Flow : Proceed(f)
      BY <3>2, <3>10, <3>3, <3>4, <3>5, <3>6
         DEF Next, StartFeishuAuthorization, StartFeishuReauthorization, Land, LoseLease,
             CancelFeishuAuthorization, CancelFeishuReauthorization, OtherTakesLease,
             OtherReleasesLease, OtherRotates
    <3>8. f = "initial"
      BY <3>1, <3>7 DEF Proceed, Load, Acquire, Check, Listen, Present, StopWaiting,
                        Recheck,
                 Submit, Exchange, Verify, GiveUp, Replace, Settle, Restore, Close, Release, Goto, End
    <3> QED
      BY <3>1, <3>7, <3>8
         DEF Proceed, Load, Acquire, Check, Listen, Present, StopWaiting, Recheck,
             Submit, Exchange, Persist, Settle, Restore, Close, Release
  <2>2. lease = "initial"
    BY <2>1 DEF AttemptsFit, TypeOK, Verify, AssertHeld, GiveUp, End, Goto
  <2> QED BY <2>2 DEF AttemptsFit, LeaseKeepsOthersOut
<1> QED BY <1>1, AttemptsAlwaysFit, PTL DEF Spec, InitialKeepsCredentials

(***************************************************************************)
(* Checking the stored credential: the invariant                           *)
(***************************************************************************)

\* Types, without the bounds.
JournalEvent ==
  [sequence : Nat, state : Recovery!Terminal \cup Recovery!Unresolved, source : Nat,
   result : Nat \cup {None}, recordedAt : Nat]
JournalFile == [latest : JournalEvent, tail : {"clean", "torn", "unreadable"}]
SeenEvent == [sequence : Nat, state : Recovery!Terminal \cup Recovery!Unresolved, source : Nat]
Operation ==
  [requestedAt : Nat, result : Recovery!Result \cup {None}, ended : Int, own : Nat \cup {None}]
Request ==
  [step : Recovery!Step, row : Nat \cup {None}, seen : SeenEvent \cup {None},
   held : Nat \cup {None}, status : Recovery!Result \cup {None}, aborted : BOOLEAN]

RecoveryTypes ==
  /\ now \in Nat /\ credential \in Nat
  /\ rotation \in JournalEvent /\ file \in JournalFile /\ readable \in BOOLEAN
  /\ rows \in Seq(Operation) /\ call \in [Call -> Request]

\* The credential that ended a rotation is newer than the one that was renewed.
ResultIsNewer(e) ==
  e.state \in Recovery!Terminal => e.result \in Nat /\ e.source < e.result

\* The file is at most one event ahead of the memory: one that was written although
\* the append failed.  A journal that could not be read stays so.
FileFits ==
  /\ ResultIsNewer(rotation) /\ ResultIsNewer(file.latest)
  /\ file.tail # "unreadable" =>
       file.latest = rotation \/ Recovery!Follows(rotation, file.latest)
  /\ ~readable => file.tail = "unreadable"

\* Steps of a request that works on the operation it began, and those at which
\* it has not settled the journal.
Working == {"inspect", "read", "compare", "append", "conclude", "caught"}
Unsettled == {"inspect", "read", "compare", "append"}

\* No rotation is credited to an operation that was requested after the time its end
\* is stamped with, and what the operation ended itself is the last rotation, and
\* has ended, until the next one.
RowFits(i) ==
  /\ rows[i].ended <= Recovery!Ended
  /\ Recovery!TerminalAfterRequest(i) => rotation.sequence > rows[i].ended
  /\ rows[i].own # None =>
       /\ rows[i].own <= rotation.sequence
       /\ rows[i].own = rotation.sequence => rotation.state \in Recovery!Terminal

\* What would excuse that an operation is not audited as the one that ended a
\* rotation: the next one, or a clock that was set back.
Excused(i) ==
  rotation.sequence > rows[i].own \/ rotation.recordedAt < rows[i].requestedAt

\* The two parts of ResultsAreTrue.
ResultIsTrue(i) ==
  /\ rows[i].result = "reconciled" => Recovery!Ended > rows[i].ended
  /\ rows[i].own # None /\ rows[i].result \notin {None, "reconciled"} => Excused(i)

\* A request works on an operation of its own, and its answer is true of it.
RequestFits(c) ==
  LET i == call[c].row IN
  /\ call[c].step \in Working \cup {"repair"} => i \in DOMAIN rows
  /\ call[c].step \in Unsettled => rows[i].own = None
  /\ call[c].step \in {"compare", "append"} => call[c].held \in Nat
  /\ call[c].step = "conclude" =>
       \/ call[c].status = "reconciled" /\ Recovery!Ended > rows[i].ended
       \/ call[c].status = "still_required" /\ rows[i].own = None

OwnRows ==
  \A c, d \in Call : c # d /\ call[c].step \in Working /\ call[d].step \in Working
                     => call[c].row # call[d].row

RecoveryFits ==
  /\ RecoveryTypes
  /\ FileFits
  /\ \A i \in DOMAIN rows : RowFits(i)
  /\ \A i \in DOMAIN rows : ResultIsTrue(i)
  /\ \A c \in Call : RequestFits(c)
  /\ OwnRows

(***************************************************************************)
(* The journal moves on                                                    *)
(***************************************************************************)

\* The last event is the same, or one that may follow it, or none can be read any
\* more.
JournalMoves ==
  \/ UNCHANGED <<rotation, readable>>
  \/ readable /\ readable' /\ Recovery!Follows(rotation, rotation')
  \/ readable /\ ~readable' /\ UNCHANGED rotation

JournalTyped == rotation \in JournalEvent /\ file \in JournalFile /\ readable \in BOOLEAN

JournalGoesOn == JournalMoves /\ JournalTyped' /\ FileFits'

LEMMA JournalStays ==
  ASSUME RecoveryTypes, FileFits, UNCHANGED <<rotation, file, readable>>
  PROVE  JournalGoesOn
BY DEF JournalGoesOn, JournalMoves, JournalTyped, FileFits, ResultIsNewer, RecoveryTypes

\* Whatever becomes of an append, the file is at most one event ahead.
LEMMA AppendGoesOn ==
  ASSUME RecoveryTypes, FileFits, NEW e \in JournalEvent,
         e.state \in Recovery!Terminal => e.result \in Nat,
         NEW outcome \in Recovery!Outcomes(e), Recovery!AppendLine(e, outcome)
  PROVE  JournalGoesOn
<1>1. JournalTyped /\ readable' = readable
  BY DEF RecoveryTypes, JournalTyped, Recovery!AppendLine
<1>2. outcome \in {"done", "refused", "lost", "torn", "whole"}
  BY RecoveryAssumption DEF Recovery!Outcomes
<1>3. CASE outcome \in {"refused", "lost"}
  <2>1. UNCHANGED <<rotation, file, readable>>
    BY <1>1, <1>3 DEF Recovery!AppendLine
  <2> QED BY <2>1, JournalStays
<1>4. CASE outcome = "torn"
  <2>1. rotation' = rotation /\ file' = Recovery!WithTornLine
    BY <1>4 DEF Recovery!AppendLine
  <2>2. /\ file' \in JournalFile /\ file'.latest = file.latest
        /\ file'.tail = "unreadable" <=> file.tail = "unreadable"
    BY <1>1, <2>1 DEF Recovery!WithTornLine, JournalTyped, JournalFile
  <2>3. FileFits'
    BY <1>1, <2>1, <2>2 DEF FileFits, ResultIsNewer
  <2> QED BY <1>1, <2>1, <2>2, <2>3 DEF JournalGoesOn, JournalMoves, JournalTyped
<1>5. CASE outcome \in {"done", "whole"}
  <2>1. readable /\ Recovery!Follows(rotation, e) /\ ResultIsNewer(e)
    BY <1>5 DEF Recovery!Outcomes, Recovery!Chronological, ResultIsNewer
  <2>2. /\ rotation' = IF outcome = "done" THEN e ELSE rotation
        /\ file' = Recovery!WithLine(e)
    BY <1>5 DEF Recovery!AppendLine
  <2>3. /\ file' \in JournalFile
        /\ \/ file'.latest = e /\ file'.tail = "clean"
           \/ file'.latest = file.latest /\ file'.tail = "unreadable"
    BY <1>1, <2>2 DEF Recovery!WithLine, JournalTyped, JournalFile
  <2>4. ResultIsNewer(rotation)' /\ ResultIsNewer(file.latest)'
    BY <2>1, <2>2, <2>3 DEF ResultIsNewer, FileFits
  <2>5. rotation' = e \/ (rotation' = rotation /\ Recovery!Follows(rotation', e))
    BY <2>1, <2>2
  <2>6. FileFits'
    BY <1>1, <2>1, <2>3, <2>4, <2>5 DEF FileFits
  <2>7. JournalMoves
    BY <1>1, <2>1, <2>2 DEF JournalMoves
  <2> QED BY <1>1, <2>2, <2>3, <2>6, <2>7 DEF JournalGoesOn, JournalTyped
<1> QED BY <1>2, <1>3, <1>4, <1>5

\* A process that starts takes over what the file holds, or reads nothing.
LEMMA LoadGoesOn ==
  ASSUME RecoveryTypes, FileFits, Recovery!Load
  PROVE  JournalGoesOn
<1>1. CASE file.tail = "unreadable"
  BY <1>1 DEF Recovery!Load, JournalGoesOn, JournalMoves, JournalTyped, FileFits, ResultIsNewer,
     RecoveryTypes
<1>2. CASE file.tail # "unreadable"
  <2>1. readable /\ readable' /\ rotation' = file.latest
    BY <1>2 DEF Recovery!Load, FileFits, RecoveryTypes
  <2>2. file' \in JournalFile /\ file'.latest = file.latest
    BY <1>2 DEF Recovery!Load, RecoveryTypes, JournalFile
  <2>3. FileFits'
    BY <2>1, <2>2 DEF FileFits, ResultIsNewer
  <2>4. JournalMoves
    BY <1>2, <2>1 DEF JournalMoves, FileFits
  <2>5. JournalTyped'
    BY <2>1, <2>2 DEF JournalTyped, JournalFile
  <2> QED BY <2>3, <2>4, <2>5 DEF JournalGoesOn
<1> QED BY <1>1, <1>2

LEMMA EventTyped ==
  ASSUME RecoveryTypes, NEW s \in Recovery!Terminal \cup Recovery!Unresolved,
         NEW r \in Nat \cup {None}
  PROVE  /\ Recovery!EventOf(s, r) \in JournalEvent
         /\ Recovery!EventOf(s, r).state = s /\ Recovery!EventOf(s, r).result = r
         /\ Recovery!EventOf(s, r).sequence = rotation.sequence
         /\ Recovery!EventOf(s, r).recordedAt = now
BY DEF RecoveryTypes, JournalEvent, Recovery!EventOf

\* Steps of the surroundings and of requests that append an event.
Renewal ==
  \/ Recovery!Reserve \/ Recovery!RotationEnds \/ Recovery!CredentialLands
  \/ Recovery!RefreshResolves \/ Recovery!ReserveReplacement \/ Recovery!Replace
  \/ Recovery!ReplaceFails \/ Recovery!RestoreBlockedState \/ Recovery!SetClock

LEMMA RenewalAppends ==
  ASSUME RecoveryTypes, FileFits, Renewal
  PROVE  JournalGoesOn
<1> USE DEF Recovery!Terminal, Recovery!Unresolved, Recovery!Unproven
<1>1. ASSUME NEW s \in Recovery!Terminal \cup Recovery!Unresolved, NEW r \in Nat \cup {None},
             s \in Recovery!Terminal => r \in Nat,
             NEW outcome \in Recovery!Outcomes(Recovery!EventOf(s, r)),
             Recovery!AppendLine(Recovery!EventOf(s, r), outcome)
      PROVE  JournalGoesOn
  <2> DEFINE e == Recovery!EventOf(s, r)
  <2>1. e \in JournalEvent /\ e.state = s /\ e.result = r
    BY EventTyped
  <2>2. outcome \in Recovery!Outcomes(e) /\ Recovery!AppendLine(e, outcome)
    BY <1>1
  <2> HIDE DEF e
  <2> QED BY <1>1, <2>1, <2>2, AppendGoesOn
<1>2. credential \in Nat /\ Recovery!Time \subseteq Nat
  BY DEF RecoveryTypes, Recovery!Time
<1>3. CASE Recovery!Reserve
  <2> DEFINE e == [sequence |-> rotation.sequence + 1, state |-> "reserved",
                   source |-> credential, result |-> None, recordedAt |-> now]
  <2>1. e \in JournalEvent /\ e.state = "reserved"
    BY DEF RecoveryTypes, JournalEvent
  <2>2. PICK outcome \in Recovery!Outcomes(e) : Recovery!AppendLine(e, outcome)
    BY <1>3 DEF Recovery!Reserve
  <2> HIDE DEF e
  <2> QED BY <2>1, <2>2, AppendGoesOn
<1>4. CASE Recovery!RotationEnds
  BY <1>1, <1>2, <1>4 DEF Recovery!RotationEnds, Recovery!Settles
<1>5. CASE Recovery!RefreshResolves
  <2> DEFINE s == IF credential > rotation.source THEN Recovery!Resolution(rotation)
                  ELSE "uncertain"
             r == IF credential > rotation.source THEN credential ELSE None
  <2>1. /\ s \in Recovery!Terminal \cup Recovery!Unresolved /\ r \in Nat \cup {None}
        /\ s \in Recovery!Terminal => r \in Nat
    BY <1>2 DEF Recovery!Resolution
  <2>2. PICK outcome \in Recovery!Outcomes(Recovery!EventOf(s, r)) :
          Recovery!AppendLine(Recovery!EventOf(s, r), outcome)
    BY <1>5 DEF Recovery!RefreshResolves, Recovery!Settles
  <2> HIDE DEF s, r
  <2> QED BY <1>1, <2>1, <2>2
<1>6. CASE Recovery!ReserveReplacement
  BY <1>1, <1>6 DEF Recovery!ReserveReplacement
<1>7. CASE Recovery!Replace
  <2>1. PICK t \in Recovery!Time :
          \E outcome \in
               Recovery!Outcomes([rotation EXCEPT !.state = "reauthorized", !.result = t]) :
            Recovery!AppendLine([rotation EXCEPT !.state = "reauthorized", !.result = t], outcome)
    BY <1>7 DEF Recovery!Replace, Recovery!Settles
  <2> DEFINE e == [rotation EXCEPT !.state = "reauthorized", !.result = t]
  <2>2. PICK outcome \in Recovery!Outcomes(e) : Recovery!AppendLine(e, outcome)
    BY <2>1
  <2>3. t \in Nat /\ rotation \in JournalEvent
    BY <1>2 DEF RecoveryTypes
  <2>4. e \in JournalEvent /\ e.result \in Nat
    BY <2>3 DEF JournalEvent
  <2> HIDE DEF e
  <2> QED BY <2>2, <2>4, AppendGoesOn
<1>8. CASE Recovery!RestoreBlockedState
  <2>1. CASE UNCHANGED Recovery!journalVars
    BY <2>1, JournalStays DEF Recovery!journalVars
  <2> QED BY <1>1, <1>8, <2>1 DEF Recovery!RestoreBlockedState, Recovery!Settles
<1>9. CASE Recovery!CredentialLands \/ Recovery!ReplaceFails \/ Recovery!SetClock
  BY <1>9, JournalStays DEF Recovery!CredentialLands, Recovery!ReplaceFails, Recovery!SetClock,
     Recovery!rotationVars, Recovery!journalVars
<1> QED BY <1>3, <1>4, <1>5, <1>6, <1>7, <1>8, <1>9 DEF Renewal

LEMMA RequestAppends ==
  ASSUME RecoveryTypes, FileFits, NEW c \in Call, RequestFits(c), Recovery!Handle(c)
  PROVE  JournalGoesOn
<1>1. CASE Recovery!AppendEvent(c)
  <2> DEFINE s == Recovery!Resolution(call[c].seen)
             e == Recovery!EventOf(s, call[c].held)
  <2>1. s \in Recovery!Terminal
    BY DEF Recovery!Resolution, Recovery!Terminal
  <2>2. call[c].held \in Nat
    BY <1>1 DEF Recovery!AppendEvent, Recovery!At, RequestFits
  <2>3. e \in JournalEvent /\ e.result \in Nat
    BY <2>1, <2>2, EventTyped
  <2>4. \/ UNCHANGED Recovery!journalVars
        \/ \E outcome \in Recovery!Outcomes(e) : Recovery!AppendLine(e, outcome)
    BY <1>1 DEF Recovery!AppendEvent, Recovery!Settles
  <2> HIDE DEF e
  <2> QED BY <2>3, <2>4, AppendGoesOn, JournalStays DEF Recovery!journalVars
<1>2. CASE ~Recovery!AppendEvent(c)
  <2>1. UNCHANGED <<rotation, file, readable>>
    BY <1>2 DEF Recovery!Handle, Recovery!ServeMutation, Recovery!LeaseFails,
       Recovery!Reconcile, Recovery!Repair, Recovery!Inspect, Recovery!ReadEvidence,
       Recovery!Compare, Recovery!Conclude, Recovery!Caught, Recovery!rotationVars,
       Recovery!journalVars
  <2> QED BY <2>1, JournalStays
<1> QED BY <1>1, <1>2

\* Every step of the check and around it moves the journal on, if at all.
LEMMA JournalAlwaysGoesOn ==
  ASSUME RecoveryFits, [Recovery!Next]_(Recovery!vars)
  PROVE  JournalGoesOn
<1>1. RecoveryTypes /\ FileFits /\ \A c \in Call : RequestFits(c)
  BY DEF RecoveryFits
<1>2. CASE UNCHANGED Recovery!vars
  BY <1>1, <1>2, JournalStays DEF Recovery!vars, Recovery!rotationVars, Recovery!journalVars
<1>3. CASE Recovery!Start
  BY <1>1, <1>3, LoadGoesOn DEF Recovery!Start
<1>4. CASE Recovery!RecoverPending \/ Recovery!Close \/ Recovery!Closed \/ Recovery!Crash
  BY <1>1, <1>4, JournalStays DEF Recovery!RecoverPending, Recovery!Close, Recovery!Closed,
     Recovery!Crash, Recovery!rotationVars, Recovery!journalVars
<1> QED BY <1>1, <1>2, <1>3, <1>4, RequestAppends, RenewalAppends DEF Recovery!Next, Renewal

(***************************************************************************)
(* Operations and requests                                                 *)
(***************************************************************************)

\* Rotations only ever end, and the last one that ended is not stamped anew.
LEMMA EndedGrows ==
  ASSUME JournalTyped, JournalTyped', JournalMoves
  PROVE  /\ Recovery!Ended \in Int /\ Recovery!Ended' \in Int
         /\ Recovery!Ended' >= Recovery!Ended
         /\ rotation.sequence \in Nat /\ rotation'.sequence \in Nat
         /\ rotation'.sequence >= rotation.sequence
         /\ \/ rotation' = rotation
            \/ /\ rotation.state \in Recovery!Terminal
               /\ rotation'.sequence = rotation.sequence + 1
               /\ rotation'.state \notin Recovery!Terminal
            \/ /\ rotation.state \notin Recovery!Terminal
               /\ rotation'.sequence = rotation.sequence
<1>1. /\ rotation.sequence \in Nat /\ rotation'.sequence \in Nat
      /\ Recovery!Ended \in Int /\ Recovery!Ended' \in Int
  BY DEF JournalTyped, JournalEvent, Recovery!Ended
<1>2. \/ rotation' = rotation
      \/ /\ rotation.state \in Recovery!Terminal
         /\ rotation'.sequence = rotation.sequence + 1
         /\ rotation'.state \notin Recovery!Terminal
      \/ /\ rotation.state \notin Recovery!Terminal
         /\ rotation'.sequence = rotation.sequence
  BY DEF JournalMoves, Recovery!Follows, Recovery!Terminal, Recovery!NextStates
<1>3. Recovery!Ended' >= Recovery!Ended /\ rotation'.sequence >= rotation.sequence
  BY <1>1, <1>2 DEF Recovery!Ended
<1> QED BY <1>1, <1>2, <1>3

\* What RowFits and ResultIsTrue look at in an operation, apart from its result.
SameRow(i) ==
  /\ i \in DOMAIN rows /\ i \in DOMAIN rows'
  /\ rows'[i].requestedAt = rows[i].requestedAt
  /\ rows'[i].ended = rows[i].ended /\ rows'[i].own = rows[i].own

LEMMA OperationTyped ==
  ASSUME RecoveryTypes, NEW i \in DOMAIN rows
  PROVE  /\ rows[i] \in Operation
         /\ rows[i].requestedAt \in Nat /\ rows[i].ended \in Int
         /\ rows[i].own # None => rows[i].own \in Nat
<1>1. rows \in Seq(Operation)
  BY DEF RecoveryTypes
<1>2. rows[i] \in Operation
  BY <1>1, LenProperties, ElementOfSeq
<1> QED BY <1>2 DEF Operation

\* An operation that is left alone still fits.
LEMMA RowsStay ==
  ASSUME RecoveryFits, JournalGoesOn, NEW i, SameRow(i)
  PROVE  /\ RowFits(i)'
         /\ rows'[i].result = rows[i].result => ResultIsTrue(i)'
<1>1. /\ JournalTyped /\ JournalTyped' /\ JournalMoves
      /\ rotation.recordedAt \in Nat /\ rotation'.recordedAt \in Nat
  BY DEF RecoveryFits, RecoveryTypes, JournalGoesOn, JournalTyped, JournalEvent
<1>2. /\ rows[i].requestedAt \in Nat /\ rows[i].ended \in Int
      /\ rows[i].own # None => rows[i].own \in Nat
  BY OperationTyped DEF SameRow, RecoveryFits
<1>3. RowFits(i) /\ ResultIsTrue(i)
  BY DEF RecoveryFits, SameRow
<1>4. /\ Recovery!Ended' >= Recovery!Ended /\ rotation'.sequence >= rotation.sequence
      /\ Recovery!Ended \in Int /\ Recovery!Ended' \in Int
      /\ rotation.sequence \in Nat /\ rotation'.sequence \in Nat
      /\ \/ rotation' = rotation
         \/ /\ rotation.state \in Recovery!Terminal
            /\ rotation'.sequence = rotation.sequence + 1
            /\ rotation'.state \notin Recovery!Terminal
         \/ /\ rotation.state \notin Recovery!Terminal
            /\ rotation'.sequence = rotation.sequence
  BY <1>1, EndedGrows
<1>5. rows'[i].ended <= Recovery!Ended'
  BY <1>2, <1>3, <1>4 DEF RowFits, SameRow
<1>6. Recovery!TerminalAfterRequest(i)' => rotation'.sequence > rows'[i].ended
  BY <1>1, <1>2, <1>3, <1>4 DEF RowFits, SameRow, Recovery!TerminalAfterRequest, Recovery!Ended
<1>7. rows'[i].own # None => rows'[i].own <= rotation'.sequence
  BY <1>2, <1>3, <1>4 DEF RowFits, SameRow
<1>8. rows'[i].own # None /\ rows'[i].own = rotation'.sequence
        => rotation'.state \in Recovery!Terminal
  BY <1>2, <1>3, <1>4 DEF RowFits, SameRow
<1>9. rows'[i].result = rows[i].result => ResultIsTrue(i)'
  <2>1. rows'[i].own # None /\ Excused(i) => Excused(i)'
    BY <1>1, <1>2, <1>3, <1>4 DEF Excused, SameRow, RowFits
  <2> QED BY <1>2, <1>3, <1>4, <2>1 DEF ResultIsTrue, SameRow
<1> QED BY <1>5, <1>6, <1>7, <1>8, <1>9 DEF RowFits

\* So does a request that is left alone; one that is answered, or not taken up
\* yet, needs nothing.
Idle(c) == call'[c].step \in {"idle", "asked"}

SameRequest(c) ==
  /\ call'[c].step = call[c].step /\ call'[c].row = call[c].row
  /\ call'[c].held = call[c].held /\ call'[c].status = call[c].status

LEMMA RequestsStay ==
  ASSUME RecoveryFits, JournalGoesOn, NEW c \in Call, Idle(c) \/ SameRequest(c),
         DOMAIN rows \subseteq DOMAIN rows', call[c].step \in Working => SameRow(call[c].row)
  PROVE  RequestFits(c)'
<1>1. RequestFits(c)
  BY DEF RecoveryFits
<1>2. CASE Idle(c)
  BY <1>2 DEF Idle, RequestFits, Working, Unsettled
<1>3. CASE SameRequest(c)
  <2>1. Recovery!Ended' >= Recovery!Ended /\ Recovery!Ended \in Int /\ Recovery!Ended' \in Int
    BY EndedGrows DEF JournalGoesOn, RecoveryFits, RecoveryTypes, JournalTyped
  <2>2. CASE call[c].step \notin Working
    BY <1>1, <1>3, <2>2 DEF SameRequest, RequestFits, Working, Unsettled
  <2>3. CASE call[c].step \in Working
    <3> DEFINE i == call[c].row
    <3>1. SameRow(i) /\ i \in DOMAIN rows /\ i \in DOMAIN rows' /\ call'[c].row = i
      BY <1>3, <2>3 DEF SameRow, SameRequest
    <3>2. rows[i].ended \in Int
      BY <3>1, OperationTyped DEF RecoveryFits
    <3>3. call'[c].step \in Unsettled => rows'[i].own = None
      BY <1>1, <1>3, <3>1 DEF RequestFits, SameRow, SameRequest
    <3>4. call'[c].step \in {"compare", "append"} => call'[c].held \in Nat
      BY <1>1, <1>3 DEF RequestFits, SameRequest
    <3>5. call'[c].step = "conclude" =>
            \/ call'[c].status = "reconciled" /\ Recovery!Ended' > rows'[i].ended
            \/ call'[c].status = "still_required" /\ rows'[i].own = None
      BY <1>1, <1>3, <2>1, <3>1, <3>2 DEF RequestFits, SameRow, SameRequest
    <3> HIDE DEF i
    <3> QED BY <3>1, <3>3, <3>4, <3>5 DEF RequestFits
  <2> QED BY <2>2, <2>3
<1> QED BY <1>2, <1>3

\* Whatever happens elsewhere: the journal moves, the clock is set, requests are cut
\* off or cancelled.
LEMMA ElsewhereFits ==
  ASSUME RecoveryFits, RecoveryTypes', JournalGoesOn, rows' = rows,
         \A c \in Call : Idle(c) \/ SameRequest(c)
  PROVE  RecoveryFits'
<1>1. \A i \in DOMAIN rows : SameRow(i)
  BY DEF SameRow
<1>2. \A i \in DOMAIN rows' : RowFits(i)' /\ ResultIsTrue(i)'
  BY <1>1, RowsStay
<1>3. ASSUME NEW c \in Call PROVE RequestFits(c)'
  <2>1. call[c].step \in Working => SameRow(call[c].row)
    BY <1>1 DEF RecoveryFits, RequestFits
  <2> QED BY <2>1, RequestsStay
<1>4. OwnRows'
  BY DEF OwnRows, RecoveryFits, Idle, SameRequest, Working
<1> QED BY <1>2, <1>3, <1>4 DEF RecoveryFits, JournalGoesOn

\* A request takes a step that does not write an operation.
LEMMA StepFits ==
  ASSUME RecoveryFits, RecoveryTypes', JournalGoesOn, rows' = rows,
         NEW c \in Call, \A d \in Call \ {c} : call'[d] = call[d], RequestFits(c)',
         call'[c].step \in Working => call[c].step \in Working /\ call'[c].row = call[c].row
  PROVE  RecoveryFits'
<1>1. \A i \in DOMAIN rows : SameRow(i)
  BY DEF SameRow
<1>2. \A i \in DOMAIN rows' : RowFits(i)' /\ ResultIsTrue(i)'
  BY <1>1, RowsStay
<1>3. ASSUME NEW d \in Call PROVE RequestFits(d)'
  <2>1. CASE d = c
    BY <2>1
  <2>2. CASE d # c
    <3>1. call[d].step \in Working => SameRow(call[d].row)
      BY <1>1 DEF RecoveryFits, RequestFits
    <3> QED BY <2>2, <3>1, RequestsStay DEF SameRequest
  <2> QED BY <2>1, <2>2
<1>4. OwnRows'
  BY DEF OwnRows, RecoveryFits
<1> QED BY <1>2, <1>3, <1>4 DEF RecoveryFits, JournalGoesOn

\* The result of an operation, and nothing else of what matters, is written.
LEMMA SettledRow ==
  ASSUME RecoveryTypes, NEW i \in DOMAIN rows, NEW result \in Recovery!Result,
         Recovery!SettleConnectorMaintenance(i, result)
  PROVE  /\ rows' \in Seq(Operation) /\ DOMAIN rows' = DOMAIN rows
         /\ \A j \in DOMAIN rows : SameRow(j)
         /\ \A j \in DOMAIN rows \ {i} : rows'[j].result = rows[j].result
         /\ rows'[i].result = result
<1> DEFINE settled == [rows[i] EXCEPT !.result = result]
<1>1. rows[i] \in Operation /\ rows \in Seq(Operation) /\ i \in 1..Len(rows)
  BY OperationTyped, LenProperties DEF RecoveryTypes
<1>2. settled \in Operation
  BY <1>1 DEF Operation
<1>3. rows' = [rows EXCEPT ![i] = settled]
  BY DEF Recovery!SettleConnectorMaintenance
<1>4. /\ settled.requestedAt = rows[i].requestedAt /\ settled.ended = rows[i].ended
      /\ settled.own = rows[i].own /\ settled.result = result
  BY <1>1 DEF Operation
<1> HIDE DEF settled
<1>5. /\ rows' \in Seq(Operation) /\ Len(rows') = Len(rows)
      /\ \A j \in 1..Len(rows) : rows'[j] = IF j = i THEN settled ELSE rows[j]
  BY <1>1, <1>2, <1>3, ExceptSeq
<1>6. DOMAIN rows' = 1..Len(rows) /\ DOMAIN rows = 1..Len(rows)
  BY <1>1, <1>5, LenProperties
<1> QED BY <1>4, <1>5, <1>6 DEF SameRow

\* A true result is written, and a request may end with it.
LEMMA SettlementFits ==
  ASSUME RecoveryFits, RecoveryTypes', UNCHANGED <<rotation, file, readable>>,
         NEW i \in DOMAIN rows, NEW result \in Recovery!Result,
         Recovery!SettleConnectorMaintenance(i, result),
         result = "reconciled" => Recovery!Ended > rows[i].ended,
         result # "reconciled" /\ rows[i].own # None => Excused(i),
         \A c \in Call : call'[c] = call[c] \/ Idle(c)
  PROVE  RecoveryFits'
<1>1. JournalGoesOn
  BY JournalStays DEF RecoveryFits
<1>2. /\ DOMAIN rows' = DOMAIN rows
      /\ \A j \in DOMAIN rows : SameRow(j)
      /\ \A j \in DOMAIN rows \ {i} : rows'[j].result = rows[j].result
      /\ rows'[i].result = result
  BY SettledRow DEF RecoveryFits
<1>3. \A j \in DOMAIN rows' : RowFits(j)'
  BY <1>1, <1>2, RowsStay
<1>4. ASSUME NEW j \in DOMAIN rows' PROVE ResultIsTrue(j)'
  <2>1. CASE j # i
    BY <1>1, <1>2, <2>1, RowsStay
  <2>2. CASE j = i
    BY <1>2, <2>2 DEF ResultIsTrue, Excused, SameRow, Recovery!Ended
  <2> QED BY <2>1, <2>2
<1>5. ASSUME NEW c \in Call PROVE RequestFits(c)'
  <2>1. call[c].step \in Working => SameRow(call[c].row)
    BY <1>2 DEF RecoveryFits, RequestFits
  <2> QED BY <1>1, <1>2, <2>1, RequestsStay DEF SameRequest
<1>6. OwnRows'
  BY DEF OwnRows, RecoveryFits, Idle, Working
<1> QED BY <1>1, <1>3, <1>4, <1>5, <1>6 DEF RecoveryFits, JournalGoesOn

\* What the journal says of an operation is true, as far as the stamps allow.
LEMMA EvidenceIsTrue ==
  ASSUME RecoveryFits, NEW i \in DOMAIN rows
  PROVE  /\ Recovery!TerminalAfterRequest(i) => Recovery!Ended > rows[i].ended
         /\ ~Recovery!TerminalAfterRequest(i) /\ rows[i].own # None => Excused(i)
<1>1. /\ RowFits(i) /\ rotation.sequence \in Nat /\ rotation.recordedAt \in Nat
      /\ rows[i].requestedAt \in Nat /\ (rows[i].own # None => rows[i].own \in Nat)
  BY OperationTyped DEF RecoveryFits, RecoveryTypes, JournalEvent
<1> QED BY <1>1 DEF RowFits, Excused, Recovery!TerminalAfterRequest, Recovery!Ended

LEMMA RepairFits ==
  ASSUME RecoveryFits, RecoveryTypes', UNCHANGED <<rotation, file, readable>>,
         NEW i \in DOMAIN rows, Recovery!RepairPending(i),
         \A c \in Call : call'[c] = call[c] \/ Idle(c)
  PROVE  RecoveryFits'
<1>1. /\ Recovery!Evidence(i) \in Recovery!Result
      /\ Recovery!Evidence(i) = "reconciled" <=> Recovery!TerminalAfterRequest(i)
  BY DEF Recovery!Evidence, Recovery!Result
<1>2. Recovery!SettleConnectorMaintenance(i, Recovery!Evidence(i))
  BY DEF Recovery!RepairPending
<1>3. /\ Recovery!Evidence(i) = "reconciled" => Recovery!Ended > rows[i].ended
      /\ Recovery!Evidence(i) # "reconciled" /\ rows[i].own # None => Excused(i)
  BY <1>1, EvidenceIsTrue
<1> QED BY <1>1, <1>2, <1>3, SettlementFits

(***************************************************************************)
(* Types                                                                   *)
(***************************************************************************)

\* Steps of requests are typed when they only go on.
LEMMA GoesOnTyped ==
  ASSUME RecoveryTypes, NEW c \in Call, NEW s \in Recovery!Step, Recovery!Goto(c, s)
  PROVE  call' \in [Call -> Request]
BY DEF RecoveryTypes, Request, Recovery!Goto

LEMMA AnswerTyped ==
  ASSUME RecoveryTypes, NEW c \in Call, Recovery!Answer(c)
  PROVE  call' \in [Call -> Request]
<1>1. Recovery!NoCall \in Request
  BY DEF Recovery!NoCall, Request, Recovery!Step
<1> QED BY <1>1 DEF RecoveryTypes, Recovery!Answer

LEMMA RepairTyped ==
  ASSUME RecoveryTypes, NEW i \in DOMAIN rows, Recovery!RepairPending(i)
  PROVE  rows' \in Seq(Operation)
<1>1. Recovery!Evidence(i) \in Recovery!Result
  BY DEF Recovery!Evidence, Recovery!Result
<1> QED BY <1>1, SettledRow DEF Recovery!RepairPending

\* An operation is added.
LEMMA BegunRow ==
  ASSUME RecoveryTypes, rotation.sequence \in Nat, Recovery!BeginConnectorMaintenance
  PROVE  /\ rows' \in Seq(Operation) /\ DOMAIN rows' = DOMAIN rows \cup {Len(rows) + 1}
         /\ Len(rows) + 1 \notin DOMAIN rows /\ Len(rows) \in Nat
         /\ \A j \in DOMAIN rows : SameRow(j) /\ rows'[j].result = rows[j].result
         /\ rows'[Len(rows) + 1] = [requestedAt |-> now, result |-> None,
                                    ended |-> Recovery!EndedBefore, own |-> None]
<1> DEFINE row == [requestedAt |-> now, result |-> None,
                   ended |-> Recovery!EndedBefore, own |-> None]
<1>1. rows \in Seq(Operation) /\ Recovery!EndedBefore \in Int /\ now \in Nat
  BY DEF RecoveryTypes, Recovery!EndedBefore, Recovery!Ended
<1>2. row \in Operation
  BY <1>1 DEF Operation
<1>3. rows' = Append(rows, row)
  BY DEF Recovery!BeginConnectorMaintenance
<1> HIDE DEF row
<1>4. /\ rows' \in Seq(Operation) /\ Len(rows') = Len(rows) + 1
      /\ \A j \in 1..Len(rows) : rows'[j] = rows[j]
      /\ rows'[Len(rows) + 1] = row
  BY <1>1, <1>2, <1>3, AppendProperties
<1>5. DOMAIN rows = 1..Len(rows) /\ DOMAIN rows' = 1..Len(rows') /\ Len(rows) \in Nat
  BY <1>1, <1>4, LenProperties
<1>6. DOMAIN rows' = DOMAIN rows \cup {Len(rows) + 1} /\ Len(rows) + 1 \notin DOMAIN rows
  BY <1>4, <1>5
<1>7. \A j \in DOMAIN rows : SameRow(j) /\ rows'[j].result = rows[j].result
  BY <1>4, <1>5, <1>6 DEF SameRow
<1> QED BY <1>4, <1>5, <1>6, <1>7 DEF row

(***************************************************************************)
(* The request of the person                                               *)
(***************************************************************************)

\* The rest of a typed state.
LEMMA StepTyped ==
  ASSUME RecoveryTypes, JournalGoesOn, now' \in Nat, credential' \in Nat,
         rows' \in Seq(Operation), call' \in [Call -> Request]
  PROVE  RecoveryTypes'
BY DEF RecoveryTypes, JournalGoesOn, JournalTyped

LEMMA ServeMutationFits ==
  ASSUME RecoveryFits, JournalGoesOn, NEW c \in Call,
         Recovery!ServeMutation(c) \/ Recovery!LeaseFails(c)
  PROVE  RecoveryFits'
<1>1. RecoveryTypes'
  BY GoesOnTyped, AnswerTyped, StepTyped
     DEF Recovery!ServeMutation, Recovery!LeaseFails, RecoveryFits, RecoveryTypes,
     Recovery!rotationVars, Recovery!Step
<1>2. \A d \in Call : call'[d] = call[d] \/ Idle(d)
  BY DEF Recovery!ServeMutation, Recovery!LeaseFails, Recovery!Goto, Recovery!Answer,
     Recovery!NoCall, Idle, RecoveryFits, RecoveryTypes, Request
<1>3. rows' = rows
  BY DEF Recovery!ServeMutation, Recovery!LeaseFails
<1> QED BY <1>1, <1>2, <1>3, ElsewhereFits DEF SameRequest

LEMMA ReconcileFits ==
  ASSUME RecoveryFits, JournalGoesOn, NEW c \in Call, Recovery!Reconcile(c)
  PROVE  RecoveryFits'
<1>1. /\ now' = now /\ rotation' = rotation /\ credential' = credential
      /\ RecoveryTypes /\ call[c] \in Request /\ rows \in Seq(Operation)
      /\ now \in Nat /\ credential \in Nat
  BY DEF Recovery!Reconcile, Recovery!rotationVars, Recovery!journalVars, RecoveryFits,
     RecoveryTypes
<1>2. CASE /\ \E i \in Recovery!Pending :
                call' = [call EXCEPT ![c].step = "repair", ![c].row = i]
           /\ UNCHANGED rows
  <2>1. PICK i \in Recovery!Pending : call' = [call EXCEPT ![c].step = "repair", ![c].row = i]
    BY <1>2
  <2>2. i \in DOMAIN rows /\ i \in Nat
    BY <1>1, LenProperties DEF Recovery!Pending
  <2>3. /\ \A d \in Call \ {c} : call'[d] = call[d]
        /\ call'[c].step = "repair" /\ call'[c].row = i /\ call' \in [Call -> Request]
    BY <1>1, <2>1, <2>2 DEF RecoveryTypes, Request, Recovery!Step
  <2>4. RequestFits(c)'
    BY <1>2, <2>2, <2>3 DEF RequestFits, Working, Unsettled
  <2>5. RecoveryTypes'
    BY <1>1, <1>2, <2>3, StepTyped
  <2> QED BY <1>2, <2>3, <2>4, <2>5, StepFits DEF Working
<1>3. CASE /\ Recovery!BeginConnectorMaintenance
           /\ call' = [call EXCEPT ![c].step = "inspect", ![c].row = Len(rows) + 1]
  <2> DEFINE n == Len(rows) + 1
  <2>1. /\ rows' \in Seq(Operation) /\ DOMAIN rows' = DOMAIN rows \cup {n}
        /\ n \notin DOMAIN rows /\ Len(rows) \in Nat
        /\ \A j \in DOMAIN rows : SameRow(j) /\ rows'[j].result = rows[j].result
        /\ rows'[n] = [requestedAt |-> now, result |-> None,
                       ended |-> Recovery!EndedBefore, own |-> None]
    BY <1>1, <1>3, BegunRow DEF RecoveryTypes, JournalEvent
  <2>2. /\ \A d \in Call \ {c} : call'[d] = call[d]
        /\ call'[c].step = "inspect" /\ call'[c].row = n /\ call' \in [Call -> Request]
    <3>1. call' = [call EXCEPT ![c].step = "inspect", ![c].row = n] /\ n \in Nat
      BY <1>3, <2>1
    <3> HIDE DEF n
    <3> QED BY <1>1, <3>1 DEF RecoveryTypes, Request, Recovery!Step
  <2>3. RecoveryTypes'
    BY <1>1, <2>1, <2>2, StepTyped
  <2>4. \A j \in DOMAIN rows : RowFits(j)' /\ ResultIsTrue(j)'
    BY <2>1, RowsStay
  <2>5. ASSUME NEW j, j = n PROVE RowFits(j)' /\ ResultIsTrue(j)'
    <3>1. /\ rows'[j].requestedAt = now /\ rows'[j].result = None
          /\ rows'[j].ended = Recovery!EndedBefore /\ rows'[j].own = None
      BY <2>1, <2>5
    <3>2. rotation.sequence \in Nat /\ now \in Nat /\ rotation.recordedAt \in Nat
      BY DEF RecoveryFits, RecoveryTypes, JournalEvent
    <3>3. Recovery!Ended' = Recovery!Ended /\ Recovery!EndedBefore <= Recovery!Ended
      BY <1>1, <3>2 DEF Recovery!Ended, Recovery!EndedBefore
    <3>4. Recovery!TerminalAfterRequest(j)' => rotation.sequence > Recovery!EndedBefore
      BY <1>1, <3>1, <3>2 DEF Recovery!TerminalAfterRequest, Recovery!EndedBefore
    <3>5. RowFits(j)'
      BY <1>1, <3>1, <3>2, <3>3, <3>4 DEF RowFits
    <3>6. ResultIsTrue(j)'
      BY <3>1, RecoveryAssumption DEF ResultIsTrue, Recovery!Result
    <3> QED BY <3>5, <3>6
  <2>6. \A j \in DOMAIN rows' : RowFits(j)' /\ ResultIsTrue(j)'
    BY <2>1, <2>4, <2>5
  <2>7. ASSUME NEW d \in Call PROVE RequestFits(d)'
    <3>1. CASE d = c
      BY <2>1, <2>2, <3>1 DEF RequestFits, Working, Unsettled
    <3>2. CASE d # c
      <4>1. call[d].step \in Working => SameRow(call[d].row)
        BY <2>1 DEF RecoveryFits, RequestFits
      <4> QED BY <2>1, <2>2, <3>2, <4>1, RequestsStay DEF SameRequest
    <3> QED BY <3>1, <3>2
  <2>8. OwnRows'
    <3>1. \A d \in Call \ {c} : call[d].step \in Working => call[d].row # n
      BY <2>1 DEF RecoveryFits, RequestFits
    <3> QED BY <2>2, <3>1 DEF OwnRows, RecoveryFits
  <2> QED BY <2>3, <2>6, <2>7, <2>8 DEF RecoveryFits, JournalGoesOn
<1> QED BY <1>2, <1>3 DEF Recovery!Reconcile

LEMMA RepairStepFits ==
  ASSUME RecoveryFits, JournalGoesOn, NEW c \in Call, Recovery!Repair(c)
  PROVE  RecoveryFits'
<1> DEFINE i == call[c].row
<1>1. /\ now' = now /\ UNCHANGED <<rotation, file, readable>> /\ credential' = credential
      /\ Recovery!At(c, "repair") /\ RecoveryTypes /\ Recovery!Answer(c)
      /\ now \in Nat /\ credential \in Nat /\ rows \in Seq(Operation)
  BY DEF Recovery!Repair, Recovery!rotationVars, Recovery!journalVars, RecoveryFits,
     RecoveryTypes
<1>2. i \in DOMAIN rows
  BY <1>1 DEF RecoveryFits, RequestFits, Recovery!At
<1>3. call' \in [Call -> Request]
  BY <1>1, AnswerTyped
<1>4. \A d \in Call : call'[d] = call[d] \/ Idle(d)
  BY <1>1 DEF Recovery!Answer, Recovery!NoCall, Idle, RecoveryTypes
<1>5. CASE Recovery!RepairPending(i)
  <2>1. rows' \in Seq(Operation)
    BY <1>1, <1>2, <1>5, RepairTyped
  <2>2. RecoveryTypes'
    BY <1>1, <1>3, <2>1, StepTyped
  <2> QED BY <1>1, <1>2, <1>4, <1>5, <2>2, RepairFits
<1>6. CASE UNCHANGED rows
  <2>1. RecoveryTypes'
    BY <1>1, <1>3, <1>6, StepTyped
  <2> QED BY <1>4, <1>6, <2>1, ElsewhereFits DEF SameRequest
<1> QED BY <1>5, <1>6 DEF Recovery!Repair, Recovery!RepairFails

\* Steps that only the request itself sees.
LEMMA OwnStepFits ==
  ASSUME RecoveryFits, JournalGoesOn, NEW c \in Call, call[c].step \in Working,
         UNCHANGED <<now, Recovery!rotationVars, rows>>,
         call' \in [Call -> Request], \A d \in Call \ {c} : call'[d] = call[d],
         call'[c].row = call[c].row, call'[c].step \in Working,
         call'[c].step \in Unsettled => rows[call[c].row].own = None,
         call'[c].step \in {"compare", "append"} => call'[c].held \in Nat,
         call'[c].step = "conclude" =>
           \/ call'[c].status = "reconciled" /\ Recovery!Ended > rows[call[c].row].ended
           \/ call'[c].status = "still_required" /\ rows[call[c].row].own = None
  PROVE  RecoveryFits'
<1>1. rows' = rows /\ rotation' = rotation /\ Recovery!Ended' = Recovery!Ended
  BY DEF Recovery!rotationVars, Recovery!journalVars, Recovery!Ended
<1>2. RecoveryTypes'
  BY <1>1, StepTyped DEF Recovery!rotationVars, Recovery!journalVars, RecoveryFits, RecoveryTypes
<1>3. call[c].row \in DOMAIN rows
  BY DEF RecoveryFits, RequestFits
<1>4. RequestFits(c)'
  BY <1>1, <1>3 DEF RequestFits
<1> QED BY <1>1, <1>2, <1>4, StepFits

LEMMA InspectFits ==
  ASSUME RecoveryFits, JournalGoesOn, NEW c \in Call, Recovery!Inspect(c)
  PROVE  RecoveryFits'
<1> DEFINE seen == [sequence |-> rotation.sequence, state |-> rotation.state,
                    source |-> rotation.source]
<1>1. /\ call \in [Call -> Request] /\ call[c].step = "inspect" /\ seen \in SeenEvent
      /\ UNCHANGED <<now, Recovery!rotationVars, rows>>
  BY DEF Recovery!Inspect, Recovery!At, RecoveryFits, RecoveryTypes, JournalEvent, SeenEvent
<1>2. rows[call[c].row].own = None
  BY <1>1 DEF RecoveryFits, RequestFits, Unsettled
<1>3. \/ call' = [call EXCEPT ![c].step = "read", ![c].seen = seen] \/ Recovery!Goto(c, "caught")
  BY DEF Recovery!Inspect
<1> HIDE DEF seen
<1>4. /\ call' \in [Call -> Request] /\ \A d \in Call \ {c} : call'[d] = call[d]
      /\ call'[c].row = call[c].row /\ call'[c].step \in {"read", "caught"}
  BY <1>1, <1>3 DEF Recovery!Goto, Request, Recovery!Step
<1> QED BY <1>1, <1>2, <1>4, OwnStepFits DEF Working

LEMMA ReadEvidenceFits ==
  ASSUME RecoveryFits, JournalGoesOn, NEW c \in Call, Recovery!ReadEvidence(c)
  PROVE  RecoveryFits'
<1>1. /\ call \in [Call -> Request] /\ call[c].step = "read" /\ credential \in Nat
      /\ UNCHANGED <<now, Recovery!rotationVars, rows>>
  BY DEF Recovery!ReadEvidence, Recovery!At, RecoveryFits, RecoveryTypes
<1>2. rows[call[c].row].own = None
  BY <1>1 DEF RecoveryFits, RequestFits, Unsettled
<1>3. /\ call' \in [Call -> Request] /\ \A d \in Call \ {c} : call'[d] = call[d]
      /\ call'[c].row = call[c].row /\ call'[c].step \in {"compare", "conclude", "caught"}
      /\ call'[c].step = "compare" => call'[c].held \in Nat
      /\ call'[c].step = "conclude" => call'[c].status = "still_required"
  <2>1. CASE call' = [call EXCEPT ![c].step = "compare", ![c].held = credential]
    BY <1>1, <2>1 DEF Request, Recovery!Step
  <2>2. CASE call' = [call EXCEPT ![c].step = "conclude", ![c].status = "still_required"]
    BY <1>1, <2>2 DEF Request, Recovery!Step, Recovery!Result
  <2>3. CASE Recovery!Goto(c, "caught")
    BY <1>1, <2>3 DEF Recovery!Goto, Request, Recovery!Step
  <2> QED BY <2>1, <2>2, <2>3 DEF Recovery!ReadEvidence
<1> QED BY <1>1, <1>2, <1>3, OwnStepFits DEF Working

LEMMA CompareFits ==
  ASSUME RecoveryFits, JournalGoesOn, NEW c \in Call, Recovery!Compare(c)
  PROVE  RecoveryFits'
<1>1. /\ call \in [Call -> Request] /\ call[c].step = "compare"
      /\ UNCHANGED <<now, Recovery!rotationVars, rows>>
  BY DEF Recovery!Compare, Recovery!At, RecoveryFits, RecoveryTypes
<1>2. rows[call[c].row].own = None /\ call[c].held \in Nat
  BY <1>1 DEF RecoveryFits, RequestFits, Unsettled
<1>3. /\ call' \in [Call -> Request] /\ \A d \in Call \ {c} : call'[d] = call[d]
      /\ call'[c].row = call[c].row /\ call'[c].step \in {"append", "caught"}
      /\ call'[c].held = call[c].held
  BY <1>1 DEF Recovery!Compare, Recovery!Goto, Request, Recovery!Step
<1> QED BY <1>1, <1>2, <1>3, OwnStepFits DEF Working

\* The journal takes the event of the operation: it has ended a rotation that had
\* not ended when the operation began.
LEMMA AppendedFits ==
  ASSUME RecoveryFits, JournalGoesOn, NEW c \in Call, call[c].step = "append",
         UNCHANGED <<now, credential>>, rotation.state \notin Recovery!Terminal,
         rotation'.state \in Recovery!Terminal, rotation'.sequence = rotation.sequence,
         NEW n, n = rotation.sequence,
         rows' = IF Recovery!MaySettle(call[c].row)
                 THEN [rows EXCEPT ![call[c].row].own = n] ELSE rows,
         call' = [call EXCEPT ![c].step = "conclude", ![c].status = "reconciled"]
  PROVE  RecoveryFits'
<1> DEFINE i == call[c].row
<1>1. call \in [Call -> Request] /\ RecoveryTypes /\ now \in Nat /\ credential \in Nat
  BY DEF RecoveryFits, RecoveryTypes
<1>2. i \in DOMAIN rows /\ rows[i].own = None /\ rows[i] \in Operation /\ rows \in Seq(Operation)
  BY <1>1, OperationTyped DEF RecoveryFits, RequestFits, Unsettled, Working, RecoveryTypes
<1>3. rotation.sequence \in Nat /\ RowFits(i) /\ rows[i].ended \in Int
  BY <1>1, <1>2, OperationTyped DEF RecoveryFits, RecoveryTypes, JournalEvent
<1>4. /\ rows' \in Seq(Operation) /\ DOMAIN rows' = DOMAIN rows
      /\ \A j \in DOMAIN rows \ {i} : rows'[j] = rows[j]
      /\ rows'[i].ended = rows[i].ended /\ rows'[i].result = rows[i].result
      /\ rows'[i].own = IF Recovery!MaySettle(i) THEN n ELSE rows[i].own
  <2>1. CASE Recovery!MaySettle(i)
    <3> DEFINE row == [rows[i] EXCEPT !.own = n]
    <3>1. row \in Operation
      BY <1>2, <1>3 DEF Operation
    <3>2. row.ended = rows[i].ended /\ row.own = n /\ row.result = rows[i].result
      BY <1>2 DEF Operation
    <3>3. rows' = [rows EXCEPT ![i] = row]
      BY <2>1
    <3> HIDE DEF row
    <3>4. i \in 1..Len(rows) /\ DOMAIN rows = 1..Len(rows)
      BY <1>2, LenProperties
    <3>5. /\ rows' \in Seq(Operation) /\ Len(rows') = Len(rows)
          /\ \A j \in 1..Len(rows) : rows'[j] = IF j = i THEN row ELSE rows[j]
      BY <1>2, <3>1, <3>3, <3>4, ExceptSeq
    <3>6. DOMAIN rows' = 1..Len(rows)
      BY <3>5, LenProperties
    <3> QED BY <2>1, <3>2, <3>4, <3>5, <3>6
  <2>2. CASE ~Recovery!MaySettle(i)
    BY <1>2, <2>2
  <2> QED BY <2>1, <2>2
<1>5. /\ \A d \in Call \ {c} : call'[d] = call[d]
      /\ call'[c].row = i /\ call'[c].step = "conclude" /\ call'[c].status = "reconciled"
      /\ call' \in [Call -> Request]
  <2> DEFINE concluded == [call[c] EXCEPT !.step = "conclude", !.status = "reconciled"]
  <2>1. call[c] \in Request /\ "conclude" \in Recovery!Step /\ "reconciled" \in Recovery!Result
    BY <1>1 DEF Recovery!Step, Recovery!Result
  <2>2. /\ concluded \in Request /\ concluded.row = call[c].row
        /\ concluded.step = "conclude" /\ concluded.status = "reconciled"
    BY <2>1 DEF Request
  <2>3. call' = [call EXCEPT ![c] = concluded]
    BY <1>1
  <2> HIDE DEF concluded
  <2> QED BY <1>1, <2>2, <2>3
<1>6. RecoveryTypes'
  BY <1>1, <1>4, <1>5, StepTyped
<1>7. \A j \in DOMAIN rows \ {i} : SameRow(j) /\ rows'[j].result = rows[j].result
  BY <1>4 DEF SameRow
<1>8. Recovery!Ended' > rows[i].ended
  BY <1>3 DEF Recovery!Ended, RowFits
<1>9. ASSUME NEW j \in DOMAIN rows' PROVE RowFits(j)' /\ ResultIsTrue(j)'
  <2>1. CASE j # i
    BY <1>4, <1>7, <2>1, RowsStay
  <2>2. CASE j = i
    <3>1. rotation'.sequence > rows'[j].ended /\ rows'[j].ended <= Recovery!Ended'
      BY <1>3, <1>4, <2>2 DEF RowFits, Recovery!Ended
    <3>2. rows'[j].own # None => rows'[j].own = rotation'.sequence
      BY <1>2, <1>4, <2>2
    <3>3. RowFits(j)'
      BY <1>3, <3>1, <3>2 DEF RowFits
    <3>4. rows'[j].result = "reconciled" => Recovery!Ended' > rows'[j].ended
      BY <1>4, <1>8, <2>2
    <3>5. rows'[j].own # None => rows'[j].result = None
      BY <1>2, <1>4, <2>2 DEF Recovery!MaySettle
    <3> QED BY <3>3, <3>4, <3>5 DEF ResultIsTrue
  <2> QED BY <2>1, <2>2
<1>10. ASSUME NEW d \in Call PROVE RequestFits(d)'
  <2>1. CASE d = c
    BY <1>2, <1>4, <1>5, <1>8, <2>1 DEF RequestFits, Unsettled
  <2>2. CASE d # c
    <3>1. call[d].step \in Working => call[d].row \in DOMAIN rows /\ call[d].row # i
      BY <2>2 DEF RecoveryFits, RequestFits, OwnRows, Working
    <3> QED BY <1>4, <1>5, <1>7, <2>2, <3>1, RequestsStay DEF SameRequest
  <2> QED BY <2>1, <2>2
<1>11. OwnRows'
  BY <1>5 DEF OwnRows, RecoveryFits, Working
<1> QED BY <1>6, <1>9, <1>10, <1>11 DEF RecoveryFits, JournalGoesOn

LEMMA AppendEventFits ==
  ASSUME RecoveryFits, JournalGoesOn, NEW c \in Call, Recovery!AppendEvent(c)
  PROVE  RecoveryFits'
<1> DEFINE i == call[c].row
           s == Recovery!Resolution(call[c].seen)
           e == Recovery!EventOf(s, call[c].held)
<1>1. /\ call \in [Call -> Request] /\ call[c].step = "append" /\ RecoveryTypes
      /\ UNCHANGED <<now, credential>> /\ now \in Nat /\ credential \in Nat
      /\ rows \in Seq(Operation)
  BY DEF Recovery!AppendEvent, Recovery!At, RecoveryFits, RecoveryTypes
<1>2. CASE Recovery!Goto(c, "caught") /\ UNCHANGED rows
  <2>1. /\ call' \in [Call -> Request] /\ \A d \in Call \ {c} : call'[d] = call[d]
        /\ call'[c].row = i /\ call'[c].step = "caught"
    BY <1>1, <1>2 DEF Recovery!Goto, Request, Recovery!Step
  <2>2. i \in DOMAIN rows
    BY <1>1 DEF RecoveryFits, RequestFits, Working
  <2>3. RecoveryTypes'
    BY <1>1, <1>2, <2>1, StepTyped
  <2>4. RequestFits(c)'
    BY <1>2, <2>1, <2>2 DEF RequestFits, Unsettled
  <2> QED BY <1>1, <1>2, <2>1, <2>3, <2>4, StepFits DEF Working
<1>3. CASE ~(Recovery!Goto(c, "caught") /\ UNCHANGED rows)
  <2>1. PICK outcome \in Recovery!Outcomes(e) :
          /\ Recovery!Settles(e, outcome) /\ outcome = "done"
          /\ rotation.sequence = call[c].seen.sequence
          /\ rows' = IF Recovery!MaySettle(i)
                     THEN [rows EXCEPT ![i].own = call[c].seen.sequence] ELSE rows
          /\ call' = [call EXCEPT ![c].step = "conclude", ![c].status = "reconciled"]
    BY <1>3 DEF Recovery!AppendEvent
  <2>2. s \in Recovery!Terminal
    BY DEF Recovery!Resolution, Recovery!Terminal
  <2>3. call[c].held \in Nat
    BY <1>1 DEF RecoveryFits, RequestFits
  <2>4. e.state = s /\ e.sequence = rotation.sequence
    BY <1>1, <2>2, <2>3, EventTyped
  <2>5. rotation' = e /\ Recovery!Follows(rotation, e)
    BY <2>1, RecoveryAssumption DEF Recovery!Settles, Recovery!AppendLine, Recovery!Outcomes
  <2> HIDE DEF e
  <2>6. rotation.state \notin Recovery!Terminal
    BY <2>2, <2>4, <2>5 DEF Recovery!Follows, Recovery!Terminal, Recovery!NextStates
  <2> QED BY <1>1, <2>1, <2>2, <2>4, <2>5, <2>6, AppendedFits
<1> QED BY <1>2, <1>3

LEMMA ConcludeFits ==
  ASSUME RecoveryFits, JournalGoesOn, NEW c \in Call, Recovery!Conclude(c)
  PROVE  RecoveryFits'
<1> DEFINE i == call[c].row
<1>1. /\ now' = now /\ credential' = credential /\ UNCHANGED <<rotation, file, readable>>
      /\ UNCHANGED <<now, Recovery!rotationVars>>
      /\ call[c].step = "conclude" /\ RecoveryTypes /\ call \in [Call -> Request]
      /\ now \in Nat /\ credential \in Nat /\ rows \in Seq(Operation)
  BY DEF Recovery!Conclude, Recovery!At, Recovery!rotationVars, Recovery!journalVars,
     RecoveryFits, RecoveryTypes
<1>2. /\ i \in DOMAIN rows
      /\ \/ call[c].status = "reconciled" /\ Recovery!Ended > rows[i].ended
         \/ call[c].status = "still_required" /\ rows[i].own = None
  BY <1>1 DEF RecoveryFits, RequestFits, Working
<1>3. CASE Recovery!Goto(c, "caught") /\ UNCHANGED rows
  <2>1. /\ call' \in [Call -> Request] /\ \A d \in Call \ {c} : call'[d] = call[d]
        /\ call'[c].row = i /\ call'[c].step = "caught"
    BY <1>1, <1>3 DEF Recovery!Goto, Request, Recovery!Step
  <2> QED BY <1>1, <1>3, <2>1, OwnStepFits DEF Working, Unsettled
<1>4. ASSUME Recovery!Answer(c) PROVE /\ call' \in [Call -> Request]
                                      /\ \A d \in Call : call'[d] = call[d] \/ Idle(d)
  BY <1>1, <1>4, AnswerTyped DEF Recovery!Answer, Recovery!NoCall, Idle
<1>5. CASE Recovery!Answer(c) /\ Recovery!SettleConnectorMaintenance(i, call[c].status)
  <2>1. call[c].status \in Recovery!Result
    BY <1>2 DEF Recovery!Result
  <2>2. rows' \in Seq(Operation)
    BY <1>1, <1>2, <1>5, <2>1, SettledRow
  <2>3. RecoveryTypes'
    BY <1>1, <1>4, <1>5, <2>2, StepTyped
  <2>4. call[c].status # "reconciled" => rows[i].own = None
    BY <1>2
  <2> QED BY <1>1, <1>2, <1>4, <1>5, <2>1, <2>3, <2>4, SettlementFits
<1>6. CASE Recovery!Answer(c) /\ UNCHANGED rows
  <2>1. RecoveryTypes'
    BY <1>1, <1>4, <1>6, StepTyped
  <2> QED BY <1>4, <1>6, <2>1, ElsewhereFits DEF SameRequest
<1> QED BY <1>3, <1>5, <1>6 DEF Recovery!Conclude

LEMMA CaughtFits ==
  ASSUME RecoveryFits, JournalGoesOn, NEW c \in Call, Recovery!Caught(c)
  PROVE  RecoveryFits'
<1> DEFINE i == call[c].row
<1> DEFINE result == IF Recovery!TerminalAfterRequest(i) THEN "reconciled"
                     ELSE IF call[c].aborted THEN "cancelled" ELSE "failed"
<1>1. /\ now' = now /\ credential' = credential /\ UNCHANGED <<rotation, file, readable>>
      /\ call[c].step = "caught" /\ RecoveryTypes /\ Recovery!Answer(c)
      /\ now \in Nat /\ credential \in Nat /\ rows \in Seq(Operation)
  BY DEF Recovery!Caught, Recovery!At, Recovery!rotationVars, Recovery!journalVars,
     RecoveryFits, RecoveryTypes
<1>2. i \in DOMAIN rows
  BY <1>1 DEF RecoveryFits, RequestFits, Working
<1>3. call' \in [Call -> Request] /\ \A d \in Call : call'[d] = call[d] \/ Idle(d)
  BY <1>1, AnswerTyped DEF Recovery!Answer, Recovery!NoCall, Idle, RecoveryTypes
<1>4. CASE Recovery!SettleConnectorMaintenance(i, result)
  <2>1. result \in Recovery!Result /\ (result = "reconciled" <=> Recovery!TerminalAfterRequest(i))
    BY DEF Recovery!Result
  <2> HIDE DEF result
  <2>2. RecoveryTypes'
    BY <1>1, <1>2, <1>3, <1>4, <2>1, SettledRow, StepTyped
  <2>3. /\ result = "reconciled" => Recovery!Ended > rows[i].ended
        /\ result # "reconciled" /\ rows[i].own # None => Excused(i)
    BY <1>2, <2>1, EvidenceIsTrue
  <2> QED BY <1>1, <1>2, <1>3, <1>4, <2>1, <2>2, <2>3, SettlementFits
<1>5. CASE UNCHANGED rows
  <2>1. RecoveryTypes'
    BY <1>1, <1>3, <1>5, StepTyped
  <2> QED BY <1>3, <1>5, <2>1, ElsewhereFits DEF SameRequest
<1> QED BY <1>4, <1>5 DEF Recovery!Caught

(***************************************************************************)
(* Starting, closing, and the rest of the system                           *)
(***************************************************************************)

LEMMA RecoverPendingFits ==
  ASSUME RecoveryFits, JournalGoesOn, Recovery!RecoverPending
  PROVE  RecoveryFits'
<1>1. /\ now' = now /\ UNCHANGED <<rotation, file, readable>> /\ credential' = credential
      /\ call' = call /\ RecoveryTypes /\ call \in [Call -> Request]
      /\ now \in Nat /\ credential \in Nat /\ rows \in Seq(Operation)
  BY DEF Recovery!RecoverPending, RecoveryFits, RecoveryTypes
<1>2. CASE UNCHANGED rows
  <2>1. RecoveryTypes'
    BY <1>1, <1>2, StepTyped
  <2> QED BY <1>1, <1>2, <2>1, ElsewhereFits DEF SameRequest
<1>3. ASSUME NEW i \in Recovery!Pending, Recovery!RepairPending(i) PROVE RecoveryFits'
  <2>1. i \in DOMAIN rows
    BY DEF Recovery!Pending
  <2>2. RecoveryTypes'
    BY <1>1, <1>3, <2>1, RepairTyped, StepTyped
  <2> QED BY <1>1, <1>3, <2>1, <2>2, RepairFits
<1> QED BY <1>2, <1>3 DEF Recovery!RecoverPending

LEMMA ClosingFits ==
  ASSUME RecoveryFits, JournalGoesOn,
         Recovery!Start \/ Recovery!Close \/ Recovery!Closed \/ Recovery!Crash
  PROVE  RecoveryFits'
<1>1. /\ now' = now /\ credential' = credential /\ rows' = rows /\ RecoveryTypes
      /\ now \in Nat /\ credential \in Nat /\ rows \in Seq(Operation)
  BY DEF Recovery!Start, Recovery!Close, Recovery!Closed, Recovery!Crash,
     Recovery!rotationVars, RecoveryFits, RecoveryTypes
<1>2. call' \in [Call -> Request] /\ \A c \in Call : Idle(c) \/ SameRequest(c)
  <2>1. CASE call' = call
    BY <1>1, <2>1 DEF RecoveryTypes, SameRequest
  <2>2. CASE Recovery!Close
    <3>1. \A c \in Call : call[c] \in Request
      BY <1>1 DEF RecoveryTypes
    <3>2. call' = [c \in Call |-> IF Recovery!At(c, "idle") THEN call[c]
                                  ELSE [call[c] EXCEPT !.aborted = TRUE]]
      BY <2>2 DEF Recovery!Close
    <3> QED BY <3>1, <3>2 DEF Request, SameRequest
  <2>3. CASE Recovery!Crash
    BY <2>3 DEF Recovery!Crash, Recovery!NoCall, Request, Recovery!Step, Idle
  <2> QED BY <2>1, <2>2, <2>3 DEF Recovery!Start, Recovery!Closed
<1>3. RecoveryTypes'
  BY <1>1, <1>2, StepTyped
<1> QED BY <1>1, <1>2, <1>3, ElsewhereFits

LEMMA RenewalFits ==
  ASSUME RecoveryFits, JournalGoesOn, Renewal
  PROVE  RecoveryFits'
<1>1. /\ RecoveryTypes /\ now \in Nat /\ credential \in Nat /\ rows \in Seq(Operation)
      /\ call \in [Call -> Request] /\ Recovery!Time \subseteq Nat
  BY DEF RecoveryFits, RecoveryTypes, Recovery!Time
<1> USE DEF Renewal, Recovery!Reserve, Recovery!RotationEnds, Recovery!CredentialLands,
            Recovery!RefreshResolves, Recovery!ReserveReplacement, Recovery!Replace,
            Recovery!ReplaceFails, Recovery!RestoreBlockedState, Recovery!SetClock
<1>2. rows' = rows /\ call' = call
  OBVIOUS
<1>3. now' \in Nat /\ credential' \in Nat
  BY <1>1 DEF Recovery!rotationVars
<1>4. RecoveryTypes'
  BY <1>1, <1>2, <1>3, StepTyped
<1> QED BY <1>2, <1>4, ElsewhereFits DEF SameRequest

LEMMA RecoveryBegins == Recovery!Init => RecoveryFits
<1> SUFFICES ASSUME Recovery!Init PROVE RecoveryFits
  OBVIOUS
<1>1. rows \in Seq(Operation) /\ DOMAIN rows = {}
  BY EmptySeq DEF Recovery!Init
<1>2. \A c \in Call : call[c] = Recovery!NoCall
  BY DEF Recovery!Init
<1>3. /\ rotation \in JournalEvent /\ rotation.state = "uncertain"
      /\ file.latest = rotation /\ file \in JournalFile /\ readable
  BY DEF Recovery!Init, JournalEvent, JournalFile, Recovery!Unresolved, Recovery!Unproven
<1>4. RecoveryTypes
  BY <1>1, <1>3 DEF Recovery!Init, RecoveryTypes, Request, Recovery!NoCall, Recovery!Step
<1>5. FileFits
  BY <1>3 DEF FileFits, ResultIsNewer, Recovery!Terminal
<1> QED BY <1>1, <1>2, <1>4, <1>5
        DEF RecoveryFits, RequestFits, OwnRows, Recovery!NoCall, Working, Unsettled

LEMMA RecoveryGoesOn ==
  ASSUME RecoveryFits, [Recovery!Next]_(Recovery!vars)
  PROVE  RecoveryFits'
<1>1. JournalGoesOn
  BY JournalAlwaysGoesOn
<1>2. ASSUME NEW c \in Call, Recovery!Handle(c) PROVE RecoveryFits'
  BY <1>1, <1>2, ServeMutationFits, ReconcileFits, RepairStepFits, InspectFits,
     ReadEvidenceFits, CompareFits, AppendEventFits, ConcludeFits, CaughtFits
     DEF Recovery!Handle
<1>3. CASE UNCHANGED Recovery!vars
  <2>1. rows' = rows /\ call' = call /\ now' = now /\ credential' = credential
    BY <1>3 DEF Recovery!vars, Recovery!rotationVars
  <2>2. RecoveryTypes'
    BY <1>1, <2>1, StepTyped DEF RecoveryFits, RecoveryTypes
  <2> QED BY <1>1, <2>1, <2>2, ElsewhereFits DEF SameRequest
<1> QED BY <1>1, <1>2, <1>3, RecoverPendingFits, ClosingFits, RenewalFits
        DEF Recovery!Next, Renewal

\* The inductive invariant of the check of the stored credential: its operations,
\* the last event of the journal, in memory and in the file, and the requests at
\* work fit together, for any number of requests, operations, rotations and stops,
\* whatever appends fail and however the clock is set.
THEOREM RecoveryAlwaysFits == Recovery!Spec => []RecoveryFits
<1>1. RecoveryFits /\ [Recovery!Next]_(Recovery!vars) => RecoveryFits'
  BY RecoveryGoesOn
<1> QED BY <1>1, RecoveryBegins, PTL DEF Recovery!Spec

\* Each part of the application in the browser behaves as on its own: what it
\* promises holds whichever page is shown (routes.ts).
THEOREM PagesAreTheirParts ==
  RouteSpec => Inbox!Spec /\ Settings!Spec /\ Recovery!Spec /\ Spec
<1>1. RouteInit => Inbox!Init /\ Settings!Init /\ Recovery!Init /\ Init
  BY DEF RouteInit
<1> DEFINE route == <<part, inboxPage, connectors, recovery, vars>>
<1>2. [RouteNext]_route => [Inbox!Next]_(Inbox!vars)
  BY DEF RouteNext, inboxPage, Inbox!vars, Inbox!page, Inbox!inbox, Inbox!results,
         Inbox!restoration
<1>3. [RouteNext]_route => [Settings!Next]_(Settings!vars)
  BY DEF RouteNext, connectors, Settings!vars, Settings!files, Settings!host, Settings!page
<1>4. [RouteNext]_route => [Recovery!Next]_(Recovery!vars)
  BY DEF RouteNext, recovery, Recovery!vars, Recovery!rotationVars, Recovery!journalVars
<1>5. [RouteNext]_route => [Next]_vars
  BY DEF RouteNext
<1> QED
  BY <1>1, <1>2, <1>3, <1>4, <1>5, PTL
  DEF RouteSpec, Inbox!Spec, Settings!Spec, Recovery!Spec, Spec

\* The audits of the credential checks are true as far as the stamps allow: none
\* credits an operation with a rotation whose end is stamped before its request, and
\* an operation that resolved the journal is audited as "reconciled" unless the next
\* rotation is recorded already, the clock was set back behind the request, or
\* another request had settled the operation before it resolved the journal.
\* (terminalAfterRequest, repairPending; whatever appends leave in the file and
\* however the clock is set.)
THEOREM ResultsAreAlwaysTrue == RouteSpec => []ResultsAreTrue
<1>1. RecoveryFits => ResultsAreTrue
  BY DEF RecoveryFits, ResultIsTrue, Excused, ResultsAreTrue, Recovery!ResultsAreTrue
<1> QED BY <1>1, PagesAreTheirParts, RecoveryAlwaysFits, PTL

(***************************************************************************)
(* The rotations around a check implement RotationJournal                  *)
(***************************************************************************)

Journal == INSTANCE RotationJournal
           WITH number <- IF readable THEN rotation.sequence ELSE 0,
                state <- IF readable THEN rotation.state ELSE "none",
                source <- IF readable THEN rotation.source ELSE 0,
                readable <- readable, Time <- Nat

\* An event that may follow is a step of the abstract journal.
LEMMA FollowingRecords ==
  ASSUME JournalTyped, JournalTyped', ResultIsNewer(rotation),
         readable, readable', Recovery!Follows(rotation, rotation')
  PROVE  Journal!Record
<1> DEFINE e == rotation'
<1>1. /\ rotation.source \in Nat /\ e.source \in Nat
      /\ rotation.state \in Recovery!Terminal \cup Recovery!Unresolved
  BY DEF JournalTyped, JournalEvent
<1>2. CASE /\ rotation.state \in Recovery!Terminal
           /\ e.state = "reserved" /\ e.sequence = rotation.sequence + 1
           /\ e.source >= rotation.result
  <2>1. e.source > rotation.source
    BY <1>1, <1>2 DEF ResultIsNewer
  <2> QED
    BY <1>1, <1>2, <2>1
    DEF Journal!Record, Journal!Begin, Journal!Resolved, Recovery!Terminal
<1>3. CASE /\ e.state \in Recovery!NextStates(rotation.state)
           /\ e.sequence = rotation.sequence /\ e.source = rotation.source
  BY <1>3 DEF Journal!Record, Journal!Advance, Journal!NextStates, Recovery!NextStates
<1> QED BY <1>2, <1>3 DEF Recovery!Follows

\* Polling, an authorization, the credential that arrives late and the check
\* itself move the rotations as RotationJournal allows: none is settled twice or
\* reopened, and each is of a newer credential than the one before, also when the
\* check has compared a credential with a rotation that others resolve meanwhile,
\* when a failing append leaves its line to the next start, or none can be read any
\* more (reconcile, #append, validateTransition).
THEOREM RotationsKeepPromise == Recovery!Spec => [][Journal!Next]_(Journal!vars)
<1>1. RecoveryFits /\ RecoveryFits' /\ [Recovery!Next]_(Recovery!vars) =>
        [Journal!Next]_(Journal!vars)
  <2> SUFFICES ASSUME RecoveryFits, RecoveryFits', [Recovery!Next]_(Recovery!vars)
               PROVE  [Journal!Next]_(Journal!vars)
    OBVIOUS
  <2>1. JournalTyped /\ JournalTyped' /\ ResultIsNewer(rotation)
    BY DEF RecoveryFits, RecoveryTypes, JournalTyped, FileFits
  <2>2. CASE UNCHANGED <<rotation, readable>>
    BY <2>2 DEF Journal!vars
  <2>3. CASE readable /\ readable' /\ Recovery!Follows(rotation, rotation')
    BY <2>1, <2>3, FollowingRecords DEF Journal!Next
  <2>4. CASE readable /\ ~readable'
    BY <2>4 DEF Journal!Next, Journal!Lose, Journal!Nothing
  <2>5. JournalMoves
    BY JournalAlwaysGoesOn DEF JournalGoesOn
  <2> QED BY <2>2, <2>3, <2>4, <2>5 DEF JournalMoves
<1> QED BY <1>1, RecoveryAlwaysFits, PTL DEF Recovery!Spec

(***************************************************************************)
(* Saving the settings of the connection                                   *)
(***************************************************************************)

USE SettingsAssumption

SettingsTypes ==
  /\ identity \in Settings!IdentityFile \cup {None} /\ oauth \in Settings!OAuthFile \cup {None}
  /\ waiting \in Seq(Page) /\ token \in 0..MaxRestarts
  /\ save \in [Page -> Settings!Save \cup {None}] /\ reads \subseteq Settings!Load
  /\ shown \in [Page -> Settings!Answer \cup {None}]
  /\ said \in [Page -> Settings!Kind \cup {None}]

\* What page p saved is in the files.
InFiles(p, k) ==
  /\ k \in Settings!Identities => identity # None /\ identity[k] = p
  /\ k = "oauth" =>
       oauth # None /\ Settings!Holds(identity, "user") /\ oauth.app = identity.app

\* And the runtime was told of it.
Kept(p, k) == InFiles(p, k) /\ <<p, k>> \notin untold

\* The save whose turn it is knows the identities as they are.
SaveFits(p) ==
  /\ save[p] # None => said[p] = None
  /\ Settings!At(p, "read") =>
       /\ Settings!Turn(p) /\ save[p].seen = identity
       /\ \/ Settings!MayCreate(save[p].update, identity)
          \/ Settings!MayUpdate(save[p].update, identity)
  /\ Settings!At(p, "written") => Settings!Turn(p) /\ InFiles(p, save[p].update.kind)
  /\ Settings!At(p, "answered") /\ save[p].answer # None => Kept(p, save[p].update.kind)
  /\ said[p] # None => Kept(p, said[p])

\* Saves wait once.
QueueFits ==
  /\ \A i, j \in 1..Len(waiting) : waiting[i] = waiting[j] => i = j
  /\ \A i \in 1..Len(waiting) :
       save[waiting[i]] # None /\ save[waiting[i]].step \in {"waiting", "read", "written"}

SettingsFit == SettingsTypes /\ QueueFits /\ \A p \in Page : SaveFits(p)

(***************************************************************************)
(* Types                                                                   *)
(***************************************************************************)

LEMMA SettingsOfType ==
  ASSUME NEW f, NEW a PROVE Settings!SettingsOf(f, a) \in Settings!Snapshot
BY DEF Settings!SettingsOf, Settings!Snapshot, Settings!OAuthView

LEMMA AnswerWithType ==
  ASSUME token \in 0..MaxRestarts, NEW s \in Settings!Snapshot
  PROVE  Settings!AnswerWith(s) \in Settings!Answer
<1>1. \A k : Settings!CreationMode(k, s) \in Settings!Mode
  BY DEF Settings!CreationMode, Settings!Mode
<1> QED BY <1>1 DEF Settings!AnswerWith, Settings!Answer

\* A save of p takes a step, or ends.
LEMMA SaveType ==
  ASSUME SettingsTypes, NEW p \in Page, save[p] # None,
         NEW step \in {"posted", "waiting", "read", "written", "answered"},
         NEW seen \in Settings!IdentityFile \cup {None}, NEW answer \in Settings!Answer \cup {None}
  PROVE  /\ save[p] \in Settings!Save
         /\ [save[p] EXCEPT !.step = step, !.seen = seen, !.answer = answer] \in Settings!Save
<1>1. save[p] \in Settings!Save
  BY DEF SettingsTypes
<1>2. [save[p] EXCEPT !.step = step, !.seen = seen, !.answer = answer] \in Settings!Save
  BY <1>1 DEF Settings!Save
<1> QED BY <1>1, <1>2

LEMMA GoesType ==
  ASSUME SettingsTypes, NEW p \in Page, save[p] # None,
         NEW step \in {"posted", "waiting", "read", "written", "answered"},
         NEW seen \in Settings!IdentityFile \cup {None}, Settings!Goes(p, step, seen)
  PROVE  /\ save' \in [Page -> Settings!Save \cup {None}]
         /\ \A q \in Page \ {p} : save'[q] = save[q]
         /\ save'[p] # None /\ save'[p].step = step /\ save'[p].seen = seen
         /\ save'[p].update = save[p].update /\ save'[p].answer = save[p].answer
<1> DEFINE new == [save[p] EXCEPT !.step = step, !.seen = seen]
<1>1. save[p] \in Settings!Save
  BY DEF SettingsTypes
<1>2. new \in Settings!Save
  BY <1>1 DEF Settings!Save
<1>3. /\ new.step = step /\ new.seen = seen /\ new.update = save[p].update
      /\ new.answer = save[p].answer
  BY <1>1 DEF Settings!Save
<1>4. save' = [save EXCEPT ![p] = new]
  BY DEF Settings!Goes
<1> HIDE DEF new
<1> QED BY <1>2, <1>3, <1>4 DEF SettingsTypes

LEMMA FailsType ==
  ASSUME SettingsTypes, NEW p \in Page, save[p] # None, Settings!Fails(p)
  PROVE  /\ save' \in [Page -> Settings!Save \cup {None}]
         /\ \A q \in Page \ {p} : save'[q] = save[q]
         /\ save'[p] # None /\ save'[p].step = "answered" /\ save'[p].answer = None
<1> DEFINE new == [save[p] EXCEPT !.step = "answered", !.answer = None]
<1>1. save[p] \in Settings!Save
  BY DEF SettingsTypes
<1>2. new \in Settings!Save /\ new.step = "answered" /\ new.answer = None
  BY <1>1 DEF Settings!Save
<1>3. save' = [save EXCEPT ![p] = new]
  BY DEF Settings!Fails
<1> HIDE DEF new
<1> QED BY <1>2, <1>3 DEF SettingsTypes

(***************************************************************************)
(* The queue                                                               *)
(***************************************************************************)

\* The first save leaves; those behind it only wait.
LEMMA LeavesFits ==
  ASSUME SettingsFit, NEW p \in Page, Settings!Turn(p), Settings!Leaves,
         \A q \in Page \ {p} : save'[q] = save[q]
  PROVE  waiting' \in Seq(Page) /\ QueueFits'
<1>1. /\ waiting \in Seq(Page) /\ waiting # <<>> /\ waiting' = Tail(waiting)
      /\ Head(waiting) = p
  BY DEF SettingsFit, SettingsTypes, Settings!Turn, Settings!Leaves
<1>2. /\ waiting' \in Seq(Page) /\ Len(waiting') = Len(waiting) - 1 /\ Len(waiting) \in Nat
      /\ \A i \in 1..Len(waiting') : waiting'[i] = waiting[i+1]
  BY <1>1, HeadTailProperties, LenProperties
<1>3. waiting[1] = p /\ 1 \in 1..Len(waiting)
  BY <1>1, HeadTailProperties, LenProperties
<1>4. \A i \in 1..Len(waiting') :
        /\ i + 1 \in 1..Len(waiting) /\ waiting[i+1] \in Page \ {p}
  <2> TAKE i \in 1..Len(waiting')
  <2>1. i + 1 \in 1..Len(waiting) /\ i + 1 # 1
    BY <1>2
  <2>2. waiting[i+1] \in Page
    BY <1>1, <2>1, ElementOfSeq
  <2> QED BY <1>3, <2>1, <2>2 DEF SettingsFit, QueueFits
<1>5. \A i, j \in 1..Len(waiting') : waiting'[i] = waiting'[j] => i = j
  <2> TAKE i, j \in 1..Len(waiting')
  <2>1. waiting'[i] = waiting'[j] => i + 1 = j + 1
    BY <1>2, <1>4 DEF SettingsFit, QueueFits
  <2> QED BY <1>2, <2>1
<1>6. \A i \in 1..Len(waiting') :
        save'[waiting'[i]] # None /\ save'[waiting'[i]].step \in {"waiting", "read", "written"}
  BY <1>2, <1>4 DEF SettingsFit, QueueFits
<1> QED BY <1>2, <1>5, <1>6 DEF QueueFits

\* A save is appended.
LEMMA AppendFits ==
  ASSUME SettingsFit, NEW p \in Page, Settings!At(p, "posted"), waiting' = Append(waiting, p),
         \A q \in Page \ {p} : save'[q] = save[q],
         save'[p] # None, save'[p].step = "waiting"
  PROVE  waiting' \in Seq(Page) /\ QueueFits' /\ \A q \in Page : Settings!Turn(q) => Settings!Turn(q)'
<1>1. waiting \in Seq(Page)
  BY DEF SettingsFit, SettingsTypes
<1>2. /\ waiting' \in Seq(Page) /\ Len(waiting') = Len(waiting) + 1 /\ Len(waiting) \in Nat
      /\ \A i \in 1..Len(waiting) : waiting'[i] = waiting[i]
      /\ waiting'[Len(waiting) + 1] = p
  BY <1>1, AppendProperties, LenProperties
<1>3. \A i \in 1..Len(waiting) : waiting[i] \in Page \ {p}
  <2> TAKE i \in 1..Len(waiting)
  <2>1. waiting[i] \in Page
    BY <1>1, ElementOfSeq
  <2>2. save[waiting[i]].step # "posted"
    BY DEF SettingsFit, QueueFits
  <2> QED BY <2>1, <2>2 DEF Settings!At
<1> DEFINE n == Len(waiting)
<1>4. \A i \in 1..Len(waiting') : i \in 1..n \/ i = n + 1
  BY <1>2
<1>5. \A i, j \in 1..Len(waiting') : waiting'[i] = waiting'[j] => i = j
  BY <1>2, <1>3, <1>4 DEF SettingsFit, QueueFits
<1>6. \A i \in 1..Len(waiting') :
        save'[waiting'[i]] # None /\ save'[waiting'[i]].step \in {"waiting", "read", "written"}
  BY <1>2, <1>3, <1>4 DEF SettingsFit, QueueFits
<1>7. ASSUME NEW q \in Page, Settings!Turn(q) PROVE Settings!Turn(q)'
  <2>1. waiting # <<>> /\ Head(waiting) = q
    BY <1>7 DEF Settings!Turn
  <2>2. waiting[1] = q /\ 1 \in 1..n
    BY <1>1, <2>1, HeadTailProperties, LenProperties
  <2>3. waiting'[1] = q /\ waiting' # <<>>
    BY <1>2, <2>2, EmptySeq
  <2>4. Head(waiting') = waiting'[1]
    BY <1>2, <2>3, HeadTailProperties
  <2> QED BY <2>3, <2>4 DEF Settings!Turn
<1> QED BY <1>2, <1>5, <1>6, <1>7 DEF QueueFits

\* The save whose turn it is goes on.
LEMMA QueueStays ==
  ASSUME SettingsFit, NEW p \in Page, waiting' = waiting,
         \A q \in Page \ {p} : save'[q] = save[q],
         \/ save'[p] # None /\ save'[p].step \in {"waiting", "read", "written"}
         \/ save[p] = None
         \/ save[p].step \in {"posted", "answered"}
  PROVE  QueueFits'
<1>1. \A i \in 1..Len(waiting) : waiting[i] \in Page
  BY ElementOfSeq DEF SettingsFit, SettingsTypes
<1>2. \A i \in 1..Len(waiting) :
        save'[waiting[i]] # None /\ save'[waiting[i]].step \in {"waiting", "read", "written"}
  BY <1>1 DEF SettingsFit, QueueFits
<1> QED BY <1>2 DEF SettingsFit, QueueFits

(***************************************************************************)
(* The files                                                               *)
(***************************************************************************)

\* The page of a save or of a load does not disturb those of others.
LEMMA OthersFit ==
  ASSUME SettingsFit, NEW p \in Page,
         \A q \in Page \ {p} : save'[q] = save[q] /\ said'[q] = said[q],
         \A q \in Page, k \in Settings!Kind : InFiles(q, k) => InFiles(q, k)',
         \A q \in Page \ {p}, k \in Settings!Kind : <<q, k>> \in untold' => <<q, k>> \in untold,
         \/ Settings!Turn(p)
         \/ /\ identity' = identity
            /\ \A q \in Page : Settings!Turn(q) => Settings!Turn(q)'
  PROVE  \A q \in Page \ {p} : SaveFits(q)'
<1> TAKE q \in Page \ {p}
<1>1. SaveFits(q) /\ save'[q] = save[q] /\ said'[q] = said[q]
  BY DEF SettingsFit
<1>2. /\ said[q] # None => said[q] \in Settings!Kind
      /\ save[q] # None => save[q].update.kind \in Settings!Kind
  BY DEF SettingsFit, SettingsTypes, Settings!Save, Settings!IdentityCreate, Settings!OAuthUpdate,
         Settings!Kind
<1>3. \A k \in Settings!Kind : Kept(q, k) => Kept(q, k)'
  BY DEF Kept
<1>4. \A step : Settings!At(q, step)' = Settings!At(q, step)
  BY <1>1 DEF Settings!At
<1>5. Settings!At(q, "read") \/ Settings!At(q, "written") =>
        Settings!Turn(q)' /\ identity' = identity
  BY <1>1 DEF SaveFits, Settings!Turn
<1>6. Settings!At(q, "read")' =>
       /\ Settings!Turn(q)' /\ save'[q].seen = identity'
       /\ \/ Settings!MayCreate(save'[q].update, identity')
          \/ Settings!MayUpdate(save'[q].update, identity')
  BY <1>1, <1>4, <1>5 DEF SaveFits
<1>7. Settings!At(q, "written")' => Settings!Turn(q)' /\ InFiles(q, save[q].update.kind)'
  <2>1. Settings!At(q, "written") => save[q].update.kind \in Settings!Kind
    BY <1>2 DEF Settings!At
  <2>2. ASSUME NEW k \in Settings!Kind, InFiles(q, k) PROVE InFiles(q, k)'
    BY <2>2
  <2>3. ASSUME Settings!At(q, "written") PROVE InFiles(q, save[q].update.kind)'
    <3>1. PICK k \in Settings!Kind : k = save[q].update.kind
      BY <2>1, <2>3
    <3>2. InFiles(q, k)'
      BY <1>1, <2>2, <2>3, <3>1 DEF SaveFits
    <3> QED BY <1>1, <3>1, <3>2 DEF InFiles
  <2> QED BY <1>4, <1>5, <2>3
<1>8. Settings!At(q, "answered")' /\ save'[q].answer # None => Kept(q, save[q].update.kind)'
  <2>1. ASSUME Settings!At(q, "answered"), save[q].answer # None
        PROVE  Kept(q, save[q].update.kind)'
    <3>1. PICK k \in Settings!Kind : k = save[q].update.kind
      BY <1>2, <2>1 DEF Settings!At
    <3>2. Kept(q, k)'
      BY <1>1, <1>3, <2>1, <3>1 DEF SaveFits
    <3> QED BY <1>1, <3>1, <3>2 DEF Kept, InFiles
  <2> QED BY <1>1, <1>4, <2>1
<1>9. said'[q] # None => Kept(q, said[q])'
  <2>1. ASSUME said[q] # None PROVE Kept(q, said[q])'
    <3>1. PICK k \in Settings!Kind : k = said[q]
      BY <1>2, <2>1
    <3>2. Kept(q, k)'
      BY <1>1, <1>3, <2>1, <3>1 DEF SaveFits
    <3> QED BY <1>1, <3>1, <3>2 DEF Kept, InFiles
  <2> QED BY <1>1, <2>1
<1> QED BY <1>1, <1>6, <1>7, <1>8, <1>9 DEF SaveFits

LEMMA FilesStay ==
  ASSUME UNCHANGED <<identity, oauth>>
  PROVE  \A q \in Page, k \in Settings!Kind : InFiles(q, k) => InFiles(q, k)'
BY DEF InFiles, Settings!Holds

\* A new identity is added to those that are there.
LEMMA CreatedKeeps ==
  ASSUME SettingsTypes, NEW p \in Page, NEW k \in Settings!Identities,
         ~Settings!Holds(identity, k),
         identity' = Settings!Created(k, p, identity), oauth' = oauth
  PROVE  /\ identity' \in Settings!IdentityFile /\ InFiles(p, k)'
         /\ \A q \in Page, j \in Settings!Kind : InFiles(q, j) => InFiles(q, j)'
<1>1. k \in {"user", "bot"}
  BY DEF Settings!Identities
<1>2. CASE identity = None
  <2>1. /\ identity' \in Settings!IdentityFile /\ identity'[k] = p
    BY <1>1, <1>2 DEF Settings!Created, Settings!IdentityFile
  <2>2. InFiles(p, k)'
    BY <1>1, <2>1 DEF InFiles
  <2>3. \A q \in Page, j \in Settings!Kind : ~InFiles(q, j)
    BY <1>2 DEF InFiles, Settings!Holds, Settings!Kind
  <2> QED BY <2>1, <2>2, <2>3
<1>3. CASE identity # None
  <2>1. identity \in Settings!IdentityFile /\ identity' = [identity EXCEPT ![k] = p]
    BY <1>3 DEF Settings!Created, SettingsTypes
  <2>2. identity' \in Settings!IdentityFile /\ identity'[k] = p /\ identity'.app = identity.app
    BY <1>1, <2>1 DEF Settings!IdentityFile
  <2>3. identity' # None /\ p # None
    BY <2>2
  <2>4. \A j \in {"user", "bot"} : identity[j] # None => identity'[j] = identity[j]
    BY <1>1, <1>3, <2>1 DEF Settings!Holds, Settings!IdentityFile
  <2>5. InFiles(p, k)'
    BY <1>1, <2>2, <2>3 DEF InFiles
  <2>6. ASSUME NEW q \in Page, NEW j \in Settings!Kind, InFiles(q, j) PROVE InFiles(q, j)'
    <3>1. q # None
      BY SettingsAssumption
    <3> QED BY <2>2, <2>3, <2>4, <2>6, <3>1 DEF InFiles, Settings!Holds, Settings!Identities
  <2> QED BY <2>2, <2>5, <2>6
<1> QED BY <1>2, <1>3

LEMMA UpdatedKeeps ==
  ASSUME SettingsTypes, NEW p \in Page, Settings!Holds(identity, "user"),
         oauth' = Settings!Updated(p, identity), identity' = identity
  PROVE  /\ oauth' \in Settings!OAuthFile /\ InFiles(p, "oauth")'
         /\ \A q \in Page, j \in Settings!Kind : InFiles(q, j) => InFiles(q, j)'
<1>1. identity \in Settings!IdentityFile
  BY DEF Settings!Holds, SettingsTypes
<1>2. oauth' \in Settings!OAuthFile /\ oauth'.app = identity.app
  BY <1>1 DEF Settings!Updated, Settings!OAuthFile, Settings!IdentityFile
<1>3. oauth' # None
  BY <1>2
<1> QED BY <1>2, <1>3 DEF InFiles, Settings!Holds, Settings!Identities
(***************************************************************************)
(* The steps of a save                                                     *)
(***************************************************************************)

\* What a save of p at the host leaves alone, and what remains to be shown of it.
LEMMA SaveStepFits ==
  ASSUME SettingsFit, NEW p \in Page, save[p] # None,
         UNCHANGED <<token, reads, Settings!page>>,
         identity' \in Settings!IdentityFile \cup {None}, oauth' \in Settings!OAuthFile \cup {None},
         waiting' \in Seq(Page), QueueFits',
         save' \in [Page -> Settings!Save \cup {None}],
         \A q \in Page \ {p} : save'[q] = save[q],
         \A q \in Page, k \in Settings!Kind : InFiles(q, k) => InFiles(q, k)',
         \A q \in Page \ {p}, k \in Settings!Kind : <<q, k>> \in untold' => <<q, k>> \in untold,
         \/ Settings!Turn(p)
         \/ /\ identity' = identity
            /\ \A q \in Page : Settings!Turn(q) => Settings!Turn(q)',
         Settings!At(p, "read")' =>
           /\ Settings!Turn(p)' /\ save'[p].seen = identity'
           /\ \/ Settings!MayCreate(save[p].update, identity)'
              \/ Settings!MayUpdate(save[p].update, identity)',
         Settings!At(p, "written")' => Settings!Turn(p)' /\ InFiles(p, save[p].update.kind)',
         Settings!At(p, "answered")' /\ save'[p].answer # None => Kept(p, save[p].update.kind)'
  PROVE  SettingsFit'
<1>1. UNCHANGED <<shown, said, token, reads>>
  BY DEF Settings!page
<1>2. SettingsTypes'
  BY <1>1 DEF SettingsFit, SettingsTypes
<1>3. \A q \in Page \ {p} : SaveFits(q)'
  BY <1>1, OthersFit
<1>4. said'[p] = None
  BY <1>1 DEF SettingsFit, SaveFits
<1>5. SaveFits(p)'
  BY <1>4 DEF SaveFits
<1> QED BY <1>2, <1>3, <1>5 DEF SettingsFit

\* A save that fails while it has its turn leaves the queue; what it wrote stays.
LEMMA FailsAndLeavesFits ==
  ASSUME SettingsFit, NEW p \in Page, save[p] # None, Settings!Turn(p),
         Settings!FailsAndLeaves(p), UNCHANGED <<token, reads, Settings!page>>,
         identity' \in Settings!IdentityFile \cup {None}, oauth' \in Settings!OAuthFile \cup {None},
         \A q \in Page, k \in Settings!Kind : InFiles(q, k) => InFiles(q, k)',
         \A q \in Page \ {p}, k \in Settings!Kind : <<q, k>> \in untold' => <<q, k>> \in untold
  PROVE  SettingsFit'
<1>1. /\ save' \in [Page -> Settings!Save \cup {None}]
      /\ \A q \in Page \ {p} : save'[q] = save[q]
      /\ save'[p] # None /\ save'[p].step = "answered" /\ save'[p].answer = None
  BY FailsType DEF SettingsFit, Settings!FailsAndLeaves
<1>2. waiting' \in Seq(Page) /\ QueueFits'
  BY <1>1, LeavesFits DEF Settings!FailsAndLeaves
<1>3. ~Settings!At(p, "read")' /\ ~Settings!At(p, "written")'
  BY <1>1 DEF Settings!At
<1> QED BY <1>1, <1>2, <1>3, SaveStepFits

LEMMA ServeSaveFits ==
  ASSUME SettingsFit, NEW p \in Page, Settings!ServeSave(p)
  PROVE  SettingsFit'
<1>1. /\ Settings!At(p, "posted") /\ save[p] # None
      /\ UNCHANGED <<identity, oauth, untold, token, reads, Settings!page>>
      /\ identity' \in Settings!IdentityFile \cup {None} /\ oauth' \in Settings!OAuthFile \cup {None}
      /\ waiting \in Seq(Page)
  BY DEF Settings!ServeSave, Settings!At, Settings!files, SettingsFit, SettingsTypes
<1>2. \A q \in Page, k \in Settings!Kind : InFiles(q, k) => InFiles(q, k)'
  BY <1>1, FilesStay
<1>3. CASE Settings!Goes(p, "waiting", None) /\ waiting' = Append(waiting, p)
  <2>1. /\ save' \in [Page -> Settings!Save \cup {None}]
        /\ \A q \in Page \ {p} : save'[q] = save[q]
        /\ save'[p] # None /\ save'[p].step = "waiting"
    BY <1>1, <1>3, GoesType DEF SettingsFit
  <2>2. /\ waiting' \in Seq(Page) /\ QueueFits'
        /\ \A q \in Page : Settings!Turn(q) => Settings!Turn(q)'
    BY <1>1, <1>3, <2>1, AppendFits
  <2>3. /\ ~Settings!At(p, "read")' /\ ~Settings!At(p, "written")'
        /\ ~Settings!At(p, "answered")'
    BY <2>1 DEF Settings!At
  <2> QED BY <1>1, <1>2, <2>1, <2>2, <2>3, SaveStepFits
<1>4. CASE Settings!Fails(p) /\ waiting' = waiting
  <2>1. /\ save' \in [Page -> Settings!Save \cup {None}]
        /\ \A q \in Page \ {p} : save'[q] = save[q]
        /\ save'[p] # None /\ save'[p].step = "answered" /\ save'[p].answer = None
    BY <1>1, <1>4, FailsType DEF SettingsFit
  <2>2. QueueFits'
    BY <1>1, <1>4, <2>1, QueueStays DEF Settings!At
  <2>3. ~Settings!At(p, "read")' /\ ~Settings!At(p, "written")'
    BY <2>1 DEF Settings!At
  <2>4. \A q \in Page : Settings!Turn(q) => Settings!Turn(q)'
    BY <1>4 DEF Settings!Turn
  <2> QED BY <1>1, <1>2, <1>4, <2>1, <2>2, <2>3, <2>4, SaveStepFits
<1> QED BY <1>3, <1>4 DEF Settings!ServeSave

LEMMA ReadExistingFits ==
  ASSUME SettingsFit, NEW p \in Page, Settings!ReadExisting(p)
  PROVE  SettingsFit'
<1>1. /\ Settings!At(p, "waiting") /\ save[p] # None /\ Settings!Turn(p)
      /\ UNCHANGED <<identity, oauth, untold, token, reads, Settings!page>>
      /\ identity \in Settings!IdentityFile \cup {None} /\ oauth \in Settings!OAuthFile \cup {None}
      /\ waiting \in Seq(Page)
  BY DEF Settings!ReadExisting, Settings!At, Settings!files, SettingsFit, SettingsTypes
<1>2. \A q \in Page, k \in Settings!Kind : InFiles(q, k) => InFiles(q, k)'
  BY <1>1, FilesStay
<1>3. CASE /\ \/ Settings!MayCreate(save[p].update, identity)
              \/ Settings!MayUpdate(save[p].update, identity)
           /\ Settings!Goes(p, "read", identity) /\ waiting' = waiting
  <2>1. /\ save' \in [Page -> Settings!Save \cup {None}]
        /\ \A q \in Page \ {p} : save'[q] = save[q]
        /\ save'[p] # None /\ save'[p].step = "read" /\ save'[p].seen = identity
        /\ save'[p].update = save[p].update
    BY <1>1, <1>3, GoesType DEF SettingsFit
  <2>2. QueueFits'
    BY <1>1, <1>3, <2>1, QueueStays
  <2>3. ~Settings!At(p, "answered")' /\ ~Settings!At(p, "written")'
    BY <2>1 DEF Settings!At
  <2>4. Settings!Turn(p)'
    BY <1>1, <1>3 DEF Settings!Turn
  <2>5. \/ Settings!MayCreate(save[p].update, identity)'
        \/ Settings!MayUpdate(save[p].update, identity)'
    BY <1>1, <1>3, <2>1
    DEF Settings!MayCreate, Settings!MayUpdate, Settings!Holds
  <2> QED BY <1>1, <1>2, <1>3, <2>1, <2>2, <2>3, <2>4, <2>5, SaveStepFits
<1>4. CASE Settings!FailsAndLeaves(p)
  BY <1>1, <1>2, <1>4, FailsAndLeavesFits
<1> QED BY <1>3, <1>4 DEF Settings!ReadExisting

LEMMA WriteIdentityFits ==
  ASSUME SettingsFit, NEW p \in Page, Settings!WriteIdentity(p)
  PROVE  SettingsFit'
<1> DEFINE k == save[p].update.kind
<1>1. /\ Settings!At(p, "read") /\ save[p] # None /\ k \in Settings!Identities
      /\ UNCHANGED <<token, reads, Settings!page>>
      /\ identity \in Settings!IdentityFile \cup {None} /\ oauth \in Settings!OAuthFile \cup {None}
      /\ waiting \in Seq(Page)
  BY DEF Settings!WriteIdentity, Settings!At, SettingsFit, SettingsTypes
<1>2. /\ Settings!Turn(p) /\ save[p].seen = identity /\ ~Settings!Holds(identity, k)
  BY <1>1 DEF SettingsFit, SaveFits, Settings!MayCreate, Settings!MayUpdate, Settings!OAuthUpdate,
              Settings!Identities
<1>3. CASE /\ identity' = Settings!Created(k, p, save[p].seen)
           /\ untold' = untold \cup {<<p, k>>}
           /\ Settings!Goes(p, "written", None) /\ UNCHANGED <<oauth, waiting>>
  <2>1. /\ save' \in [Page -> Settings!Save \cup {None}]
        /\ \A q \in Page \ {p} : save'[q] = save[q]
        /\ save'[p] # None /\ save'[p].step = "written" /\ save'[p].update = save[p].update
    BY <1>1, <1>3, GoesType DEF SettingsFit
  <2>2. QueueFits'
    BY <1>1, <1>3, <2>1, QueueStays
  <2>3. PICK j \in Settings!Identities : j = k
    BY <1>1
  <2>4. /\ identity' \in Settings!IdentityFile /\ InFiles(p, j)'
        /\ \A q \in Page, i \in Settings!Kind : InFiles(q, i) => InFiles(q, i)'
    BY <1>2, <1>3, <2>3, CreatedKeeps DEF SettingsFit
  <2>5. InFiles(p, save[p].update.kind)'
    BY <2>1, <2>3, <2>4 DEF InFiles
  <2>6. Settings!Turn(p)' /\ ~Settings!At(p, "read")' /\ ~Settings!At(p, "answered")'
    BY <1>2, <1>3, <2>1 DEF Settings!Turn, Settings!At
  <2>7. \A q \in Page \ {p}, i \in Settings!Kind : <<q, i>> \in untold' => <<q, i>> \in untold
    BY <1>3
  <2> HIDE DEF k
  <2> QED BY <1>1, <1>2, <1>3, <2>1, <2>2, <2>4, <2>5, <2>6, <2>7, SaveStepFits
<1>4. CASE Settings!Unsafe(p)
  <2>1. Settings!FailsAndLeaves(p) /\ UNCHANGED <<identity, oauth, untold>>
    BY <1>4 DEF Settings!Unsafe
  <2> QED BY <1>1, <1>2, <2>1, FilesStay, FailsAndLeavesFits
<1> QED BY <1>3, <1>4 DEF Settings!WriteIdentity

LEMMA WriteOAuthFits ==
  ASSUME SettingsFit, NEW p \in Page, Settings!WriteOAuth(p)
  PROVE  SettingsFit'
<1>1. /\ Settings!At(p, "read") /\ save[p] # None /\ save[p].update.kind = "oauth"
      /\ UNCHANGED <<token, reads, Settings!page>>
      /\ identity \in Settings!IdentityFile \cup {None} /\ oauth \in Settings!OAuthFile \cup {None}
      /\ waiting \in Seq(Page)
  BY DEF Settings!WriteOAuth, Settings!At, SettingsFit, SettingsTypes
<1>2. /\ Settings!Turn(p) /\ save[p].seen = identity /\ Settings!Holds(identity, "user")
  BY <1>1 DEF SettingsFit, SaveFits, Settings!MayCreate, Settings!MayUpdate,
              Settings!IdentityCreate, Settings!Identities
<1>3. CASE /\ oauth' = Settings!Updated(p, save[p].seen)
           /\ untold' = untold \cup {<<p, "oauth">>}
           /\ \/ Settings!Goes(p, "written", None) /\ UNCHANGED waiting
              \/ Settings!FailsAndLeaves(p)
           /\ UNCHANGED identity
  <2>1. /\ oauth' \in Settings!OAuthFile /\ InFiles(p, "oauth")'
        /\ \A q \in Page, i \in Settings!Kind : InFiles(q, i) => InFiles(q, i)'
    BY <1>2, <1>3, UpdatedKeeps DEF SettingsFit
  <2>2. \A q \in Page \ {p}, i \in Settings!Kind : <<q, i>> \in untold' => <<q, i>> \in untold
    BY <1>3
  <2>3. CASE Settings!Goes(p, "written", None) /\ UNCHANGED waiting
    <3>1. /\ save' \in [Page -> Settings!Save \cup {None}]
          /\ \A q \in Page \ {p} : save'[q] = save[q]
          /\ save'[p] # None /\ save'[p].step = "written" /\ save'[p].update = save[p].update
      BY <1>1, <2>3, GoesType DEF SettingsFit
    <3>2. QueueFits'
      BY <1>1, <2>3, <3>1, QueueStays
    <3>3. InFiles(p, save[p].update.kind)'
      BY <1>1, <2>1, <3>1 DEF InFiles
    <3>4. Settings!Turn(p)' /\ ~Settings!At(p, "read")' /\ ~Settings!At(p, "answered")'
      BY <1>2, <2>3, <3>1 DEF Settings!Turn, Settings!At
    <3> QED BY <1>1, <1>2, <1>3, <2>1, <2>2, <2>3, <3>1, <3>2, <3>3, <3>4, SaveStepFits
  <2>4. CASE Settings!FailsAndLeaves(p)
    BY <1>1, <1>2, <1>3, <2>1, <2>2, <2>4, FailsAndLeavesFits
  <2> QED BY <1>3, <2>3, <2>4
<1>4. CASE Settings!Unsafe(p)
  <2>1. Settings!FailsAndLeaves(p) /\ UNCHANGED <<identity, oauth, untold>>
    BY <1>4 DEF Settings!Unsafe
  <2> QED BY <1>1, <1>2, <2>1, FilesStay, FailsAndLeavesFits
<1> QED BY <1>3, <1>4 DEF Settings!WriteOAuth

LEMMA TellAndReadBackFits ==
  ASSUME SettingsFit, NEW p \in Page, Settings!TellAndReadBack(p)
  PROVE  SettingsFit'
<1> DEFINE settings == Settings!SettingsOf(identity, oauth)
<1>1. /\ Settings!At(p, "written") /\ save[p] # None /\ Settings!Leaves /\ untold' = {}
      /\ UNCHANGED <<identity, oauth, token, reads, Settings!page>>
      /\ identity \in Settings!IdentityFile \cup {None} /\ oauth \in Settings!OAuthFile \cup {None}
  BY DEF Settings!TellAndReadBack, Settings!At, SettingsFit, SettingsTypes
<1>2. Settings!Turn(p) /\ InFiles(p, save[p].update.kind)
  BY <1>1 DEF SettingsFit, SaveFits
<1>3. \A q \in Page, k \in Settings!Kind : InFiles(q, k) => InFiles(q, k)'
  BY <1>1, FilesStay
<1>4. CASE Settings!Fails(p)
  BY <1>1, <1>2, <1>3, <1>4, FailsAndLeavesFits DEF Settings!FailsAndLeaves
<1>5. CASE save' = [save EXCEPT ![p] = [@ EXCEPT !.step = "answered",
                                                 !.answer = Settings!AnswerWith(settings)]]
  <2> DEFINE new == [save[p] EXCEPT !.step = "answered",
                                    !.answer = Settings!AnswerWith(settings)]
  <2>1. settings \in Settings!Snapshot
    BY SettingsOfType
  <2>2. Settings!AnswerWith(settings) \in Settings!Answer
    BY <2>1, AnswerWithType DEF SettingsFit, SettingsTypes
  <2>3. save[p] \in Settings!Save
    BY <1>1 DEF SettingsFit, SettingsTypes
  <2>4. new \in Settings!Save
    BY <2>2, <2>3 DEF Settings!Save
  <2>5. new.step = "answered" /\ new.update = save[p].update
    BY <2>3 DEF Settings!Save
  <2>6. save' = [save EXCEPT ![p] = new]
    BY <1>5
  <2> HIDE DEF new
  <2>7. /\ save' \in [Page -> Settings!Save \cup {None}]
        /\ \A q \in Page \ {p} : save'[q] = save[q]
        /\ save'[p] = new /\ new # None
    BY <2>4, <2>6 DEF SettingsFit, SettingsTypes
  <2>8. waiting' \in Seq(Page) /\ QueueFits'
    BY <1>1, <1>2, <2>7, LeavesFits
  <2>9. Kept(p, save[p].update.kind)'
    BY <1>1, <1>2, <2>5, <2>7 DEF Kept, InFiles, Settings!Holds
  <2>10. ~Settings!At(p, "read")' /\ ~Settings!At(p, "written")'
    BY <2>5, <2>7 DEF Settings!At
  <2>11. \A q \in Page \ {p}, k \in Settings!Kind : <<q, k>> \in untold' => <<q, k>> \in untold
    BY <1>1
  <2> QED BY <1>1, <1>2, <1>3, <2>7, <2>8, <2>9, <2>10, <2>11, SaveStepFits
<1> QED BY <1>4, <1>5 DEF Settings!TellAndReadBack

(***************************************************************************)
(* The pages                                                               *)
(***************************************************************************)

LEMMA PostFits ==
  ASSUME SettingsFit, NEW p \in Page,
         NEW update \in Settings!IdentityCreate \cup Settings!OAuthUpdate, Settings!Post(p, update)
  PROVE  SettingsFit'
<1> DEFINE new == [update |-> update, token |-> shown[p].token, step |-> "posted",
                   seen |-> None, answer |-> None]
<1>1. /\ save[p] = None /\ shown[p] \in Settings!Answer
      /\ save' = [save EXCEPT ![p] = new] /\ said' = [said EXCEPT ![p] = None]
      /\ UNCHANGED <<identity, oauth, untold, waiting, token, reads, shown>>
  BY DEF Settings!Post, Settings!CanSave, Settings!files, Settings!host, SettingsFit, SettingsTypes
<1>2. new \in Settings!Save /\ new.step = "posted"
  BY <1>1 DEF Settings!Save, Settings!Answer
<1> HIDE DEF new
<1>3. /\ save' \in [Page -> Settings!Save \cup {None}] /\ save'[p] = new
      /\ said' \in [Page -> Settings!Kind \cup {None}] /\ said'[p] = None
      /\ \A q \in Page \ {p} : save'[q] = save[q] /\ said'[q] = said[q]
  BY <1>1, <1>2 DEF SettingsFit, SettingsTypes
<1>4. SettingsTypes'
  BY <1>1, <1>3 DEF SettingsFit, SettingsTypes
<1>5. QueueFits'
  BY <1>1, <1>3, QueueStays
<1>6. \A q \in Page : Settings!Turn(q) => Settings!Turn(q)'
  BY <1>1 DEF Settings!Turn
<1>7. \A q \in Page \ {p} : SaveFits(q)'
  BY <1>1, <1>3, <1>6, FilesStay, OthersFit
<1>8. SaveFits(p)'
  BY <1>2, <1>3 DEF SaveFits, Settings!At
<1> QED BY <1>4, <1>5, <1>7, <1>8 DEF SettingsFit

LEMMA SubmitFits ==
  ASSUME SettingsFit, NEW p \in Page,
         \/ \E k \in Settings!Identities : Settings!Submit(p, k)
         \/ Settings!SaveFeishuOAuthSettings(p)
  PROVE  SettingsFit'
<1>1. ASSUME NEW k \in Settings!Identities, Settings!Submit(p, k) PROVE SettingsFit'
  <2>1. shown[p] \in Settings!Answer /\ shown[p][k] # None /\ k \in {"user", "bot"}
    BY <1>1 DEF Settings!Submit, Settings!CanSave, Settings!Identities, SettingsFit, SettingsTypes
  <2>2. shown[p][k] \in {"new", "existing"}
    BY <2>1 DEF Settings!Answer, Settings!Mode
  <2>3. [kind |-> k, mode |-> shown[p][k]] \in Settings!IdentityCreate
    BY <2>2 DEF Settings!IdentityCreate
  <2> QED BY <1>1, <2>3, PostFits DEF Settings!Submit
<1>2. CASE Settings!SaveFeishuOAuthSettings(p)
  <2>1. [kind |-> "oauth", mode |-> None] \in Settings!OAuthUpdate
    BY DEF Settings!OAuthUpdate
  <2> QED BY <1>2, <2>1, PostFits DEF Settings!SaveFeishuOAuthSettings
<1> QED BY <1>1, <1>2

LEMMA SaveAnsweredFits ==
  ASSUME SettingsFit, NEW p \in Page, Settings!SaveAnswered(p)
  PROVE  SettingsFit'
<1> DEFINE k == save[p].update.kind
<1>1. /\ Settings!At(p, "answered") /\ save[p] \in Settings!Save
      /\ save' = [save EXCEPT ![p] = None]
      /\ UNCHANGED <<identity, oauth, untold, waiting, token, reads>>
  BY DEF Settings!SaveAnswered, Settings!At, Settings!files, Settings!host, SettingsFit,
         SettingsTypes
<1>2. k \in Settings!Kind /\ save[p].answer \in Settings!Answer \cup {None}
  BY <1>1 DEF Settings!Save, Settings!IdentityCreate, Settings!OAuthUpdate, Settings!Kind
<1>3. \/ /\ save[p].answer # None
         /\ shown' = [shown EXCEPT ![p] = save[p].answer] /\ said' = [said EXCEPT ![p] = k]
      \/ UNCHANGED <<shown, said>>
  BY DEF Settings!SaveAnswered, Settings!ApplyFeishuSettings
<1>4. /\ save' \in [Page -> Settings!Save \cup {None}] /\ save'[p] = None
      /\ shown' \in [Page -> Settings!Answer \cup {None}]
      /\ said' \in [Page -> Settings!Kind \cup {None}]
      /\ \A q \in Page \ {p} : save'[q] = save[q] /\ said'[q] = said[q]
  BY <1>1, <1>2, <1>3 DEF SettingsFit, SettingsTypes
<1>5. SettingsTypes'
  BY <1>1, <1>4 DEF SettingsFit, SettingsTypes
<1>6. QueueFits'
  BY <1>1, <1>4, QueueStays DEF Settings!At
<1>7. \A q \in Page : Settings!Turn(q) => Settings!Turn(q)'
  BY <1>1 DEF Settings!Turn
<1>8. \A q \in Page \ {p} : SaveFits(q)'
  BY <1>1, <1>4, <1>7, FilesStay, OthersFit
<1>9. said'[p] # None => Kept(p, said[p])'
  <2>1. CASE UNCHANGED <<shown, said>>
    <3>1. said[p] = None
      BY <1>1 DEF SettingsFit, SaveFits, Settings!At
    <3> QED BY <2>1, <3>1
  <2>2. CASE save[p].answer # None /\ said' = [said EXCEPT ![p] = k]
    <3>1. Kept(p, k)
      BY <1>1, <2>2 DEF SettingsFit, SaveFits
    <3>2. said'[p] = k
      BY <2>2 DEF SettingsFit, SettingsTypes
    <3> HIDE DEF k
    <3> QED BY <1>1, <3>1, <3>2 DEF Kept, InFiles, Settings!Holds
  <2> QED BY <1>3, <2>1, <2>2
<1>10. SaveFits(p)'
  BY <1>4, <1>9 DEF SaveFits, Settings!At
<1> QED BY <1>5, <1>6, <1>8, <1>10 DEF SettingsFit

\* Loads change what is shown, and nothing else of what matters.
LEMMA ShownFits ==
  ASSUME SettingsFit,
         UNCHANGED <<Settings!files, Settings!host, save, said>>,
         reads' \subseteq Settings!Load, shown' \in [Page -> Settings!Answer \cup {None}]
  PROVE  SettingsFit'
<1>1. UNCHANGED <<identity, oauth, untold, waiting, token, save, said>>
  BY DEF Settings!files, Settings!host
<1>2. SettingsTypes'
  BY <1>1 DEF SettingsFit, SettingsTypes
<1>3. QueueFits'
  BY <1>1 DEF SettingsFit, QueueFits
<1>4. ASSUME NEW p \in Page PROVE SaveFits(p)'
  <2>1. SaveFits(p)
    BY DEF SettingsFit
  <2> QED BY <1>1, <2>1 DEF SaveFits, Kept, InFiles, Settings!At, Settings!Turn, Settings!Holds,
                            Settings!MayCreate, Settings!MayUpdate
<1> QED BY <1>2, <1>3, <1>4 DEF SettingsFit

LEMMA LoadSettingsFits ==
  ASSUME SettingsFit, NEW p \in Page, Settings!LoadSettings(p)
  PROVE  SettingsFit'
<1> DEFINE new == [page |-> p, newest |-> TRUE, step |-> "asked",
                   left |-> {"identity", "oauth"}, identity |-> None, oauth |-> None,
                   answer |-> None]
<1>1. new \in Settings!Load
  BY DEF Settings!Load
<1>2. \A l \in reads : [l EXCEPT !.newest = FALSE] \in Settings!Load /\ l \in Settings!Load
  <2> HIDE SettingsAssumption
  <2>1. reads \subseteq Settings!Load
    BY DEF SettingsFit, SettingsTypes
  <2> QED BY <2>1 DEF Settings!Load
<1>3. reads' = {IF l.page = p THEN [l EXCEPT !.newest = FALSE] ELSE l : l \in reads} \cup {new}
  BY DEF Settings!LoadSettings
<1> HIDE DEF new
<1>4. reads' \subseteq Settings!Load
  BY <1>1, <1>2, <1>3
<1> QED BY <1>4, ShownFits DEF Settings!LoadSettings, SettingsFit, SettingsTypes

LEMMA ServeLoadFits ==
  ASSUME SettingsFit, NEW l \in reads,
         Settings!ServeLoad(l) \/ Settings!LoadAnswered(l)
  PROVE  SettingsFit'
<1>1. l \in Settings!Load /\ SettingsTypes
  BY DEF SettingsFit, SettingsTypes
<1>2. CASE Settings!ServeLoad(l)
  <2>1. ASSUME NEW changed \in Settings!Load, Settings!Becomes(l, changed)
        PROVE  reads' \subseteq Settings!Load
    BY <1>1, <2>1 DEF Settings!Becomes, SettingsTypes
  <2>2. ASSUME NEW answer \in Settings!Answer \cup {None}, Settings!Answers(l, answer)
        PROVE  reads' \subseteq Settings!Load
    <3>1. [l EXCEPT !.step = "answered", !.left = {}, !.identity = None, !.oauth = None,
                    !.answer = answer] \in Settings!Load
      BY <1>1 DEF Settings!Load
    <3> QED BY <2>1, <2>2, <3>1 DEF Settings!Answers
  <2>3. CASE Settings!ReadIdentityFile(l)
    <3>1. [l EXCEPT !.left = @ \ {"identity"}, !.identity = identity] \in Settings!Load
      BY <1>1 DEF Settings!Load, SettingsTypes
    <3> QED BY <1>1, <1>2, <2>1, <2>3, <3>1, ShownFits
            DEF Settings!ServeLoad, Settings!ReadIdentityFile, Settings!page, SettingsTypes
  <2>4. CASE Settings!ReadOAuthFile(l)
    <3>1. [l EXCEPT !.left = @ \ {"oauth"}, !.oauth = oauth] \in Settings!Load
      BY <1>1 DEF Settings!Load, SettingsTypes
    <3> QED BY <1>1, <1>2, <2>1, <2>4, <3>1, ShownFits
            DEF Settings!ServeLoad, Settings!ReadOAuthFile, Settings!page, SettingsTypes
  <2>5. CASE \/ Settings!Answers(l, Settings!AnswerWith(Settings!SettingsOf(l.identity, l.oauth)))
             \/ Settings!Answers(l, None)
    <3>1. Settings!AnswerWith(Settings!SettingsOf(l.identity, l.oauth)) \in Settings!Answer
      BY <1>1, SettingsOfType, AnswerWithType DEF SettingsTypes
    <3>2. reads' \subseteq Settings!Load
      BY <2>2, <2>5, <3>1
    <3> QED BY <1>1, <1>2, <3>2, ShownFits DEF Settings!ServeLoad, Settings!page, SettingsTypes
  <2> QED BY <1>2, <2>3, <2>4, <2>5 DEF Settings!ServeLoad
<1>3. CASE Settings!LoadAnswered(l)
  <2>1. reads' \subseteq Settings!Load
    BY <1>1, <1>3 DEF Settings!LoadAnswered, SettingsTypes
  <2>2. shown' \in [Page -> Settings!Answer \cup {None}]
    BY <1>1, <1>3 DEF Settings!LoadAnswered, Settings!ApplyFeishuSettings, SettingsTypes,
                      Settings!Load
  <2> QED BY <1>3, <2>1, <2>2, ShownFits DEF Settings!LoadAnswered
<1> QED BY <1>2, <1>3

\* A restart of the host ends every save; the files stay.
LEMMA HostRestartFits ==
  ASSUME SettingsFit, Settings!Restart
  PROVE  SettingsFit'
<1>1. /\ token' \in 0..MaxRestarts /\ waiting' = <<>> /\ untold' = {}
      /\ UNCHANGED <<identity, oauth, shown, said>>
  <2>1. token \in 0..MaxRestarts /\ token < MaxRestarts /\ token' = token + 1 /\ MaxRestarts \in Nat
    BY DEF Settings!Restart, SettingsFit, SettingsTypes
  <2>2. token' \in 0..MaxRestarts
    BY <2>1
  <2> QED BY <2>2 DEF Settings!Restart, Settings!page
<1>2. save' = [p \in Page |-> IF save[p] = None \/ Settings!At(p, "answered") THEN save[p]
                              ELSE [save[p] EXCEPT !.step = "answered", !.answer = None]]
  BY DEF Settings!Restart
<1>3. ASSUME NEW p \in Page
      PROVE  /\ save'[p] \in Settings!Save \cup {None}
             /\ \/ save'[p] = save[p] /\ (save[p] # None => Settings!At(p, "answered"))
                \/ /\ save'[p] # None /\ save[p] # None
                   /\ save'[p].step = "answered" /\ save'[p].answer = None
  <2>1. CASE save[p] = None \/ Settings!At(p, "answered")
    BY <1>2, <2>1 DEF SettingsFit, SettingsTypes
  <2>2. CASE ~(save[p] = None \/ Settings!At(p, "answered"))
    <3> DEFINE new == [save[p] EXCEPT !.step = "answered", !.answer = None]
    <3>1. save[p] \in Settings!Save
      BY <2>2 DEF SettingsFit, SettingsTypes
    <3>2. new \in Settings!Save /\ new.step = "answered" /\ new.answer = None
      BY <3>1 DEF Settings!Save
    <3>3. save'[p] = new
      BY <1>2, <2>2
    <3> HIDE DEF new
    <3> QED BY <2>2, <3>2, <3>3
  <2> QED BY <2>1, <2>2
<1>4. save' \in [Page -> Settings!Save \cup {None}]
  BY <1>2, <1>3
<1>5. reads' \subseteq Settings!Load
  <2>1. ASSUME NEW l \in reads
        PROVE  /\ l \in Settings!Load
               /\ [l EXCEPT !.step = "answered", !.left = {}, !.identity = None, !.oauth = None]
                    \in Settings!Load
    <3> HIDE SettingsAssumption
    <3>1. l \in Settings!Load
      BY DEF SettingsFit, SettingsTypes
    <3> QED BY <3>1 DEF Settings!Load
  <2> QED BY <2>1 DEF Settings!Restart
<1>6. waiting' \in Seq(Page) /\ QueueFits'
  BY <1>1, EmptySeq DEF QueueFits
<1>7. SettingsTypes'
  BY <1>1, <1>4, <1>5, <1>6 DEF SettingsFit, SettingsTypes
<1>8. ASSUME NEW p \in Page PROVE SaveFits(p)'
  <2>1. SaveFits(p)
    BY DEF SettingsFit
  <2>2. \A k : InFiles(p, k) => Kept(p, k)'
    BY <1>1 DEF Kept, InFiles, Settings!Holds
  <2>3. ~Settings!At(p, "read")' /\ ~Settings!At(p, "written")'
    BY <1>3 DEF Settings!At
  <2>4. said'[p] # None => Kept(p, said[p])'
    BY <1>1, <2>1 DEF SaveFits, Kept, InFiles, Settings!Holds
  <2>5. Settings!At(p, "answered")' /\ save'[p].answer # None => Kept(p, save[p].update.kind)'
    <3>1. CASE save'[p] = save[p] /\ (save[p] # None => Settings!At(p, "answered"))
      BY <1>1, <2>1, <3>1 DEF SaveFits, Kept, InFiles, Settings!Holds, Settings!At
    <3>2. CASE save'[p].answer = None
      BY <3>2
    <3> QED BY <1>3, <3>1, <3>2
  <2>6. save'[p] # None => said'[p] = None
    BY <1>1, <1>3, <2>1 DEF SaveFits
  <2> QED BY <2>3, <2>4, <2>5, <2>6 DEF SaveFits
<1> QED BY <1>6, <1>7, <1>8 DEF SettingsFit

LEMMA SettingsBegin == ASSUME Settings!Init PROVE SettingsFit
<1>1. /\ identity = None /\ oauth = None /\ waiting = <<>> /\ token = 0 /\ reads = {}
      /\ save = [p \in Page |-> None] /\ shown = [p \in Page |-> None]
      /\ said = [p \in Page |-> None]
  BY DEF Settings!Init
<1>2. waiting \in Seq(Page) /\ Len(waiting) = 0
  BY <1>1, EmptySeq
<1>3. SettingsTypes
  BY <1>1, <1>2 DEF SettingsTypes
<1>4. QueueFits
  BY <1>2 DEF QueueFits
<1>5. \A p \in Page : SaveFits(p)
  BY <1>1 DEF SaveFits, Settings!At
<1> QED BY <1>3, <1>4, <1>5 DEF SettingsFit

LEMMA SettingsGoOn ==
  ASSUME SettingsFit, [Settings!Next]_(Settings!vars)
  PROVE  SettingsFit'
<1>1. ASSUME NEW p \in Page,
             \/ Settings!SaveFeishuUserIdentity(p) \/ Settings!SaveFeishuBotIdentity(p)
             \/ Settings!SaveFeishuOAuthSettings(p)
      PROVE  SettingsFit'
  BY <1>1, SubmitFits
  DEF Settings!SaveFeishuUserIdentity, Settings!SaveFeishuBotIdentity, Settings!Identities
<1>2. ASSUME NEW p \in Page, Settings!Served(p) PROVE SettingsFit'
  BY <1>2, ServeSaveFits, ReadExistingFits, WriteIdentityFits, WriteOAuthFits, TellAndReadBackFits
  DEF Settings!Served
<1>3. ASSUME NEW p \in Page, Settings!SaveAnswered(p) \/ Settings!LoadSettings(p)
      PROVE  SettingsFit'
  BY <1>3, SaveAnsweredFits, LoadSettingsFits
<1>4. ASSUME NEW l \in reads, Settings!ServeLoad(l) \/ Settings!LoadAnswered(l)
      PROVE  SettingsFit'
  BY <1>4, ServeLoadFits
<1>5. CASE UNCHANGED Settings!vars
  <2>1. UNCHANGED <<Settings!files, Settings!host, save, said, reads, shown>>
    BY <1>5 DEF Settings!vars, Settings!page
  <2> QED BY <2>1, ShownFits DEF SettingsFit, SettingsTypes
<1> QED BY <1>1, <1>2, <1>3, <1>4, <1>5, HostRestartFits DEF Settings!Next

\* The inductive invariant of the settings: the queue of saves, the files and what
\* the pages wait for fit together, for any number of pages, saves, loads and restarts.
THEOREM SettingsAlwaysFit == Settings!Spec => []SettingsFit
<1>1. SettingsFit /\ [Settings!Next]_(Settings!vars) => SettingsFit'
  BY SettingsGoOn
<1>2. Settings!Init => SettingsFit
  BY SettingsBegin
<1> QED BY <1>1, <1>2, PTL DEF Settings!Spec

\* What a page calls saved is in the files, and the runtime was told of it, whatever
\* other pages save in between or afterwards (pendingSettingsUpdate).
THEOREM SavedIsAlwaysStored == RouteSpec => []SavedIsStored
<1>1. SettingsFit => SavedIsStored
  BY DEF SettingsFit, SaveFits, Kept, InFiles, SavedIsStored, Settings!SavedIsStored
<1> QED BY <1>1, PagesAreTheirParts, SettingsAlwaysFit, PTL

(***************************************************************************)
(* The Inbox page                                                          *)
(***************************************************************************)

\* No answer is awaited that replaces the preview.
PreviewStays == posts["create"] = None /\ posts["edit"] = None /\ posts["preview"] = None

\* The list is not there to be clicked at while it is loaded.
NothingIsSelected == loading => selected = None

\* The page says that it restores while the newest restoration waits.
RestoresFit ==
  /\ \A r \in restores : r.number <= flowRequest /\ (r.number = flowRequest => flowLoading)
  /\ \A r, s \in restores : r.number = s.number => r = s

\* A preview beside an approval is that of the selected item; if they belong
\* together, and as long as the approval locks the draft, so it stays.
ApprovalFits ==
  approval # None /\ proposal # None =>
    /\ Inbox!Locks(approval.decision) => PreviewStays
    /\ proposal.item = selected
    /\ approval.item = proposal.item /\ approval.decision = "pending" =>
         approval.revision = proposal.revision

\* While an approval is posted, its item keeps the revision that it has, which
\* is that of the approval if it was taken.
PostedFits ==
  posts["approval"] # None =>
    LET p == posts["approval"] IN
    /\ PreviewStays
    /\ p.click \in Inbox!Decision \cup {"request"}
    /\ p.answer # None => p.answer.stage \in {"pending", "approved", "rejected"}
    /\ proposal # None => proposal.item = selected
    /\ proposal # None /\ proposal.item = p.item =>
         proposal.revision \in {p.revision, flows[p.item].revision}
    /\ p.answer # None =>
         p.answer.revision = p.revision /\ p.revision = flows[p.item].revision
    /\ \A r \in restores : r.number = flowRequest /\ r.item = p.item /\ r.answer # None =>
         r.answer.revision = flows[p.item].revision

InboxFits ==
  Inbox!TypeOK /\ NothingIsSelected /\ RestoresFit /\ ApprovalFits /\ PostedFits

HIDE SettingsAssumption
USE InboxAssumption
    DEF Inbox!Revision, Inbox!Draft, Inbox!Preview, Inbox!Approval, Inbox!Execution,
        Inbox!Restoration, Inbox!Service, Inbox!Decision, Inbox!Click, Inbox!Kind,
        Inbox!Stages

LEMMA InboxBegins ==
  ASSUME Inbox!Init
  PROVE  InboxFits
<1>1. Inbox!TypeOK
  <2>1. flows \in [Item -> Inbox!Flow]
    BY DEF Inbox!Init, Inbox!Flow
  <2>2. posts \in [Inbox!Kind -> Inbox!Post \cup {None}]
    BY DEF Inbox!Init
  <2>3. loads \in 0..MaxLoads /\ flowRequest \in 0..MaxRestores
    BY DEF Inbox!Init
  <2> QED BY <2>1, <2>2, <2>3 DEF Inbox!Init, Inbox!TypeOK
<1>2. NothingIsSelected /\ RestoresFit /\ ApprovalFits /\ PostedFits
  BY DEF Inbox!Init, NothingIsSelected, RestoresFit, ApprovalFits, PostedFits
<1> QED BY <1>1, <1>2 DEF InboxFits

\* A click that is enabled: what it posts, and what it must find to be posted.
LEMMA AskFits ==
  ASSUME InboxFits,
         NEW k \in Inbox!Kind, NEW click \in Inbox!Click, NEW subject,
         subject.item \in Item, subject.revision \in Inbox!Revision,
         Inbox!Ask(k, click, subject),
         k \in {"create", "edit", "preview"} =>
           /\ posts["approval"] = None
           /\ approval # None => ~Inbox!Locks(approval.decision),
         k = "approval" =>
           /\ PreviewStays /\ ~flowLoading
           /\ click \in Inbox!Decision \cup {"request"}
           /\ proposal = subject /\ proposal.item = selected
  PROVE  InboxFits'
<1> DEFINE post == [click |-> click, item |-> subject.item, revision |-> subject.revision,
                    answer |-> None]
<1>1. post \in Inbox!Post
  BY DEF Inbox!Post
<1>2. posts' = [posts EXCEPT ![k] = post]
  BY DEF Inbox!Ask
<1>3. UNCHANGED <<flows, listed, loading, loads, asked, ready, selected, draft, proposal,
                  approval, execution, flowRequest, flowLoading, restores>>
  BY DEF Inbox!Ask, Inbox!page, Inbox!inbox, Inbox!results, Inbox!restoration
<1>4. posts \in [Inbox!Kind -> Inbox!Post \cup {None}] /\ Inbox!TypeOK
  BY DEF InboxFits, Inbox!TypeOK
<1>5. posts' \in [Inbox!Kind -> Inbox!Post \cup {None}]
  BY <1>1, <1>2, <1>4
<1>6. Inbox!TypeOK'
  BY <1>3, <1>4, <1>5 DEF Inbox!TypeOK
<1>7. \A j \in Inbox!Kind : posts'[j] = IF j = k THEN post ELSE posts[j]
  BY <1>2, <1>4
<1>8. NothingIsSelected' /\ RestoresFit'
  BY <1>3 DEF InboxFits, NothingIsSelected, RestoresFit
<1>9. ApprovalFits'
  <2>1. CASE k \in {"create", "edit", "preview"}
    BY <2>1, <1>3 DEF InboxFits, ApprovalFits
  <2>2. CASE k \notin {"create", "edit", "preview"}
    <3>1. PreviewStays => PreviewStays'
      BY <2>2, <1>7 DEF PreviewStays
    <3> QED BY <3>1, <1>3 DEF InboxFits, ApprovalFits, Inbox!Locks
  <2> QED BY <2>1, <2>2
<1>10. PostedFits'
  <2>1. CASE k \in {"create", "edit", "preview"}
    BY <2>1, <1>7 DEF PostedFits
  <2>2. CASE k = "execute"
    <3>1. PreviewStays => PreviewStays'
      BY <2>2, <1>7 DEF PreviewStays
    <3>2. posts'["approval"] = posts["approval"]
      BY <2>2, <1>7
    <3> QED BY <3>1, <3>2, <1>3 DEF InboxFits, PostedFits
  <2>3. CASE k = "approval"
    <3>1. PreviewStays'
      BY <2>3, <1>7 DEF PreviewStays
    <3>2. posts'["approval"] = post
      BY <2>3, <1>7
    <3>3. \A r \in restores : r.number # flowRequest
      BY <2>3 DEF InboxFits, RestoresFit
    <3> QED BY <2>3, <3>1, <3>2, <3>3, <1>3 DEF PostedFits
  <2> QED BY <2>1, <2>2, <2>3
<1> HIDE DEF post
<1> QED BY <1>6, <1>8, <1>9, <1>10 DEF InboxFits

\* What a click makes of a stored flow keeps the revision, but for the clicks
\* at the draft.
LEMMA OutcomesKeepTheRevision ==
  ASSUME NEW flow, NEW decision, flow \in Inbox!Flow,
         NEW f \in Inbox!Previewed(flow) \cup Inbox!Requested(flow)
                   \cup Inbox!Decided(flow, decision) \cup Inbox!Executed(flow)
  PROVE  f.revision = flow.revision
BY DEF Inbox!Previewed, Inbox!Requested, Inbox!Decided, Inbox!Executed, Inbox!To, Inbox!Flow

\* The handler of a click.
LEMMA ServeFits ==
  ASSUME InboxFits,
         NEW k \in Inbox!Kind, NEW outcomes,
         Inbox!Unanswered(k), Inbox!Serve(k, outcomes),
         \/ k \in {"create", "edit"}
         \/ \A f \in outcomes : f.revision = flows[posts[k].item].revision,
         k = "approval" => \A f \in outcomes : f.stage \in {"pending", "approved", "rejected"}
  PROVE  InboxFits'
<1> DEFINE p == posts[k]
<1>1. /\ posts \in [Inbox!Kind -> Inbox!Post \cup {None}]
      /\ flows \in [Item -> Inbox!Flow] /\ Inbox!TypeOK
  BY DEF InboxFits, Inbox!TypeOK
<1>2. p \in Inbox!Post /\ p.item \in Item /\ p.answer = None
  BY <1>1 DEF Inbox!Unanswered, Inbox!Post
<1>3. UNCHANGED <<listed, loading, loads, asked, ready, selected, draft, proposal,
                  approval, execution, flowRequest, flowLoading, restores>>
  BY DEF Inbox!Serve, Inbox!page, Inbox!inbox, Inbox!results, Inbox!restoration
<1>4. PICK f \in Inbox!Flow, post \in Inbox!Post \cup {None} :
        /\ flows' = [flows EXCEPT ![p.item] = f]
        /\ posts' = [posts EXCEPT ![k] = post]
        /\ k \notin {"create", "edit"} => f.revision = flows[p.item].revision
        /\ post # None => /\ post.item = p.item /\ post.revision = p.revision
                          /\ post.answer = f /\ post.click = p.click
                          /\ k = "approval" => f.stage \in {"pending", "approved", "rejected"}
                          /\ k # "create" => p.revision = flows[p.item].revision
  <2> DEFINE after == {f \in outcomes : f \in Inbox!Flow /\ (k # "create" =>
                                          p.revision = flows[p.item].revision)}
  <2>1. CASE \E f \in after : /\ flows' = [flows EXCEPT ![p.item] = f]
                              /\ posts' = [posts EXCEPT ![k] = [@ EXCEPT !.answer = f]]
    <3>1. PICK f \in after : /\ flows' = [flows EXCEPT ![p.item] = f]
                             /\ posts' = [posts EXCEPT ![k] = [@ EXCEPT !.answer = f]]
      BY <2>1
    <3> DEFINE post == [p EXCEPT !.answer = f]
    <3>2. posts' = [posts EXCEPT ![k] = post]
      BY <3>1
    <3>3. f \in Inbox!Flow /\ (k # "create" => p.revision = flows[p.item].revision)
          /\ (k \notin {"create", "edit"} => f.revision = flows[p.item].revision)
          /\ (k = "approval" => f.stage \in {"pending", "approved", "rejected"})
      BY <3>1
    <3>4. /\ post \in Inbox!Post /\ post.item = p.item /\ post.revision = p.revision
          /\ post.answer = f /\ post.click = p.click
      BY <1>2, <3>3 DEF Inbox!Post
    <3> HIDE DEF post, p, after
    <3> QED BY <3>1, <3>2, <3>3, <3>4
  <2>2. CASE \E f \in after \cup {flows[p.item]} :
                /\ flows' = [flows EXCEPT ![p.item] = f]
                /\ posts' = [posts EXCEPT ![k] = None]
    <3>1. PICK f \in after \cup {flows[p.item]} :
             /\ flows' = [flows EXCEPT ![p.item] = f]
             /\ posts' = [posts EXCEPT ![k] = None]
      BY <2>2
    <3>2. f \in Inbox!Flow /\ (k \notin {"create", "edit"} => f.revision = flows[p.item].revision)
      BY <3>1, <1>1, <1>2
    <3> HIDE DEF p, after
    <3> QED BY <3>1, <3>2
  <2> QED BY <2>1, <2>2 DEF Inbox!Serve
<1> HIDE DEF p
<1>5. Inbox!TypeOK'
  <2>1. /\ posts' \in [Inbox!Kind -> Inbox!Post \cup {None}]
        /\ flows' \in [Item -> Inbox!Flow]
    BY <1>1, <1>4
  <2> QED BY <2>1, <1>1, <1>3 DEF Inbox!TypeOK
<1>6. \A j \in Inbox!Kind : posts'[j] = IF j = k THEN post ELSE posts[j]
  BY <1>1, <1>4
<1>7. PreviewStays => PreviewStays'
  BY <1>6, <1>2, Zenon DEF PreviewStays, p, Inbox!Unanswered
<1>8. NothingIsSelected' /\ RestoresFit'
  BY <1>3 DEF InboxFits, NothingIsSelected, RestoresFit
<1>9. ApprovalFits'
  BY <1>3, <1>7 DEF InboxFits, ApprovalFits, Inbox!Locks
<1>10. PostedFits'
  <2>1. CASE k \in {"create", "edit"}
    <3>1. ~PreviewStays
      BY <2>1 DEF PreviewStays, Inbox!Unanswered
    <3>2. posts["approval"] = None
      BY <3>1 DEF InboxFits, PostedFits
    <3> QED BY <3>2, <2>1, <1>6 DEF PostedFits
  <2>2. CASE k \notin {"create", "edit"}
    <3>1. \A i \in Item : flows'[i].revision = flows[i].revision
      BY <2>2, <1>1, <1>2, <1>4
    <3>2. CASE k # "approval"
      <4>1. posts'["approval"] = posts["approval"]
        BY <3>2, <1>6
      <4>2. posts["approval"] # None => posts["approval"].item \in Item
        BY <1>1 DEF Inbox!Post
      <4> QED BY <4>1, <4>2, <3>1, <1>3, <1>7 DEF InboxFits, PostedFits
    <3>3. CASE k = "approval" /\ post # None
      <4>1. /\ posts'["approval"] = post /\ posts["approval"] = p
            /\ posts["approval"] # None /\ post.item = p.item /\ post.revision = p.revision
            /\ post.answer = f /\ p.item \in Item /\ post.click = p.click
            /\ f.stage \in {"pending", "approved", "rejected"}
            /\ f.revision = flows[p.item].revision /\ p.revision = flows[p.item].revision
        BY <3>3, <1>2, <1>4, <1>6 DEF p, Inbox!Unanswered
      <4> QED BY <4>1, <3>1, <1>3, <1>7 DEF InboxFits, PostedFits
    <3>4. CASE k = "approval" /\ post = None
      BY <3>4, <1>6 DEF PostedFits
    <3> QED BY <3>2, <3>3, <3>4
  <2> QED BY <2>1, <2>2
<1> QED BY <1>5, <1>8, <1>9, <1>10 DEF InboxFits

\* A step that only changes what the page knows of the services.
LEMMA InboxStays ==
  ASSUME InboxFits, asked' \subseteq Slow, ready' \subseteq Inbox!Service,
         UNCHANGED <<flows, listed, loading, loads, selected, draft, proposal, approval,
                     execution, flowRequest, flowLoading, restores, posts>>
  PROVE  InboxFits'
<1>1. Inbox!TypeOK'
  BY DEF InboxFits, Inbox!TypeOK
<1>2. NothingIsSelected' /\ RestoresFit' /\ ApprovalFits' /\ PostedFits'
  BY DEF InboxFits, NothingIsSelected, RestoresFit, ApprovalFits, PostedFits, PreviewStays
<1> QED BY <1>1, <1>2 DEF InboxFits

\* A new restoration is the newest, and nothing is known of its flow yet.
LEMMA RestoreBegins ==
  ASSUME InboxFits, NEW i \in Item, Inbox!RestoreFeishuReplyFlow(i)
  PROVE  /\ restores' \subseteq Inbox!Restoration
         /\ flowRequest' \in 0..MaxRestores /\ flowLoading' = TRUE
         /\ RestoresFit'
         /\ \A r \in restores' : r.number = flowRequest' => r.answer = None
<1> DEFINE new == [number |-> flowRequest + 1, item |-> i, answer |-> None]
<1>1. /\ flowRequest \in Nat /\ flowRequest < MaxRestores
      /\ flowRequest' = flowRequest + 1 /\ flowLoading' = TRUE
      /\ restores' = restores \cup {new} /\ restores \subseteq Inbox!Restoration
  BY DEF InboxFits, Inbox!TypeOK, Inbox!RestoreFeishuReplyFlow
<1>2. new \in Inbox!Restoration /\ new.number = flowRequest + 1 /\ new.answer = None
  BY <1>1
<1>3. \A r \in restores : r.number \in Nat /\ r.number <= flowRequest
  BY <1>1 DEF InboxFits, RestoresFit
<1>4. \A r, s \in restores : r.number = s.number => r = s
  BY DEF InboxFits, RestoresFit
<1> HIDE DEF new
<1>5. RestoresFit'
  BY <1>1, <1>2, <1>3, <1>4 DEF RestoresFit
<1>6. \A r \in restores' : r.number = flowRequest' => r.answer = None
  BY <1>1, <1>2, <1>3
<1>7. restores' \subseteq Inbox!Restoration /\ flowRequest' \in 0..MaxRestores
  BY <1>1, <1>2
<1> QED BY <1>1, <1>5, <1>6, <1>7

LEMMA SelectFits ==
  ASSUME InboxFits, NEW i \in Item, Inbox!Select(i)
  PROVE  InboxFits'
<1>1. /\ ~loading /\ selected' = i /\ Inbox!RestoreFeishuReplyFlow(i)
      /\ draft' = None /\ proposal' = None /\ approval' = None /\ execution' = None
      /\ UNCHANGED <<flows, listed, loading, loads, asked, ready, posts>>
  BY DEF Inbox!Select, Inbox!Offered, Inbox!Clear, Inbox!inbox
<1>2. Inbox!TypeOK'
  BY <1>1, RestoreBegins DEF InboxFits, Inbox!TypeOK
<1>3. NothingIsSelected' /\ ApprovalFits'
  BY <1>1 DEF NothingIsSelected, ApprovalFits
<1>4. PostedFits'
  BY <1>1, RestoreBegins DEF InboxFits, PostedFits, PreviewStays
<1> QED BY <1>1, <1>2, <1>3, <1>4, RestoreBegins DEF InboxFits

LEMMA LoadInboxFits ==
  ASSUME InboxFits, NEW newAsked \in SUBSET Slow, Inbox!LoadInbox(newAsked)
  PROVE  InboxFits'
<1>1. /\ loads < MaxLoads /\ flowRequest < MaxRestores
      /\ loads' = loads + 1 /\ loading' = TRUE
      /\ flowRequest' = flowRequest + 1 /\ flowLoading' = FALSE
      /\ selected' = None /\ asked' = newAsked
      /\ draft' = None /\ proposal' = None /\ approval' = None /\ execution' = None
      /\ UNCHANGED <<flows, listed, ready, restores, posts>>
  BY DEF Inbox!LoadInbox, Inbox!Clear
<1>2. Inbox!TypeOK'
  <2>1. loads' \in 0..MaxLoads /\ flowRequest' \in 0..MaxRestores
    BY <1>1 DEF InboxFits, Inbox!TypeOK
  <2> QED BY <1>1, <2>1 DEF InboxFits, Inbox!TypeOK
<1>3. \A r \in restores : r.number \in Nat /\ r.number < flowRequest'
  BY <1>1 DEF InboxFits, RestoresFit, Inbox!TypeOK
<1>4. RestoresFit'
  <2> HIDE InboxAssumption
  <2>1. RestoresFit
    BY DEF InboxFits
  <2>2. \A r \in restores : r.number <= flowRequest' /\ r.number # flowRequest'
    BY <1>1, <1>3, InboxAssumption DEF InboxFits, Inbox!TypeOK
  <2> QED BY <1>1, <2>1, <2>2 DEF RestoresFit
<1>5. NothingIsSelected' /\ ApprovalFits'
  BY <1>1 DEF NothingIsSelected, ApprovalFits
<1>6. PostedFits'
  BY <1>1, <1>3 DEF InboxFits, PostedFits, PreviewStays
<1> QED BY <1>2, <1>4, <1>5, <1>6 DEF InboxFits

LEMMA InboxAnsweredFits ==
  ASSUME InboxFits, Inbox!InboxAnswered
  PROVE  InboxFits'
<1>1. /\ loading /\ loading' = FALSE /\ selected = None /\ listed' \in BOOLEAN
      /\ UNCHANGED <<flows, loads, asked, ready, draft, proposal, approval, execution, posts>>
  BY DEF Inbox!InboxAnswered, Inbox!results, InboxFits, NothingIsSelected
<1>2. NothingIsSelected'
  BY <1>1 DEF NothingIsSelected
<1>3. ~(approval # None /\ proposal # None) /\ (posts["approval"] # None => proposal = None)
  BY <1>1 DEF InboxFits, ApprovalFits, PostedFits, Inbox!TypeOK
<1>4. ApprovalFits'
  BY <1>1, <1>3 DEF ApprovalFits
<1>5. CASE listed'
  <2>1. PICK i \in Item : selected' = i /\ Inbox!RestoreFeishuReplyFlow(i)
    BY <1>5 DEF Inbox!InboxAnswered
  <2>2. Inbox!TypeOK'
    BY <1>1, <2>1, RestoreBegins DEF InboxFits, Inbox!TypeOK
  <2>3. PostedFits'
    BY <1>1, <1>3, <2>1, RestoreBegins DEF InboxFits, PostedFits, PreviewStays
  <2> QED BY <1>2, <1>4, <2>1, <2>2, <2>3, RestoreBegins DEF InboxFits
<1>6. CASE ~listed'
  <2>1. UNCHANGED <<selected, flowRequest, flowLoading, restores>>
    BY <1>6 DEF Inbox!InboxAnswered, Inbox!restoration
  <2>2. Inbox!TypeOK'
    BY <1>1, <2>1 DEF InboxFits, Inbox!TypeOK
  <2>3. RestoresFit' /\ PostedFits'
    BY <1>1, <2>1 DEF InboxFits, RestoresFit, PostedFits, PreviewStays
  <2> QED BY <1>2, <1>4, <2>2, <2>3 DEF InboxFits
<1> QED BY <1>5, <1>6

LEMMA ServeRestorationFits ==
  ASSUME InboxFits, NEW r \in restores, Inbox!ServeFeishuReplyFlow(r)
  PROVE  InboxFits'
<1> DEFINE new == [r EXCEPT !.answer = flows[r.item]]
<1>1. /\ restores' = (restores \ {r}) \cup {new}
      /\ UNCHANGED <<flows, listed, loading, loads, asked, ready, selected, draft, proposal,
                     approval, execution, flowRequest, flowLoading, posts>>
  BY DEF Inbox!ServeFeishuReplyFlow, Inbox!inbox, Inbox!results
<1>2. restores \subseteq Inbox!Restoration /\ flows \in [Item -> Inbox!Flow]
  BY DEF InboxFits, Inbox!TypeOK
<1>3. /\ new \in Inbox!Restoration /\ new.number = r.number /\ new.item = r.item
      /\ new.answer = flows[new.item]
  BY <1>2
<1> HIDE DEF new
<1>4. Inbox!TypeOK'
  BY <1>1, <1>2, <1>3 DEF InboxFits, Inbox!TypeOK
<1>5. RestoresFit'
  BY <1>1, <1>3 DEF InboxFits, RestoresFit
<1>6. NothingIsSelected' /\ ApprovalFits'
  BY <1>1 DEF InboxFits, NothingIsSelected, ApprovalFits, PreviewStays
<1>7. PostedFits'
  BY <1>1, <1>3 DEF InboxFits, PostedFits, PreviewStays
<1> QED BY <1>4, <1>5, <1>6, <1>7 DEF InboxFits

\* An answer of a restoration leaves a preview or an approval, but not both.
LEMMA RestoredFits ==
  ASSUME InboxFits, NEW r \in restores, Inbox!FeishuReplyFlowRestored(r)
  PROVE  InboxFits'
<1>1. /\ restores' = restores \ {r}
      /\ flowLoading' = IF r.number = flowRequest THEN FALSE ELSE flowLoading
      /\ UNCHANGED <<flows, listed, loading, loads, asked, ready, selected, flowRequest, posts>>
  BY DEF Inbox!FeishuReplyFlowRestored, Inbox!inbox
<1>2. restores \subseteq Inbox!Restoration
  BY DEF InboxFits, Inbox!TypeOK
<1>3. RestoresFit'
  BY <1>1 DEF InboxFits, RestoresFit
<1>4. NothingIsSelected'
  BY <1>1 DEF InboxFits, NothingIsSelected
<1>5. CASE UNCHANGED <<draft, proposal, approval, execution>>
  <2>1. Inbox!TypeOK'
    BY <1>1, <1>5 DEF InboxFits, Inbox!TypeOK
  <2>2. ApprovalFits' /\ PostedFits'
    BY <1>1, <1>5 DEF InboxFits, ApprovalFits, PostedFits, PreviewStays
  <2> QED BY <1>3, <1>4, <2>1, <2>2 DEF InboxFits
<1>6. CASE Inbox!Clear
  <2>1. Inbox!TypeOK'
    BY <1>1, <1>6 DEF InboxFits, Inbox!TypeOK, Inbox!Clear
  <2>2. ApprovalFits' /\ PostedFits'
    BY <1>1, <1>6 DEF InboxFits, ApprovalFits, PostedFits, PreviewStays, Inbox!Clear
  <2> QED BY <1>3, <1>4, <2>1, <2>2 DEF InboxFits
<1>7. CASE /\ r.number = flowRequest /\ r.item = selected /\ r.answer # None
           /\ Inbox!Restored(r.item, r.answer)
  <2>1. r.item \in Item /\ r.answer \in Inbox!Flow
    BY <1>2, <1>7
  <2>2. r.answer.stage \in Inbox!Stages /\ r.answer.revision \in Inbox!Revision
    BY <2>1 DEF Inbox!Flow
  <2>3. draft' \in Inbox!Draft \cup {None}
    BY <1>7, <2>1, <2>2 DEF Inbox!Restored, Inbox!DraftOf
  <2>4. proposal' \in Inbox!Preview \cup {None}
        /\ (proposal' # None => proposal'.item = r.item /\ proposal'.revision = r.answer.revision)
    BY <1>7, <2>1, <2>2 DEF Inbox!Restored, Inbox!ProposalOf
  <2>5. approval' \in Inbox!Approval \cup {None} /\ (proposal' # None => approval' = None)
    BY <1>7, <2>1, <2>2 DEF Inbox!Restored, Inbox!ApprovalOf
  <2>6. execution' \in Inbox!Execution \cup {None}
    BY <1>7, <2>1, <2>2 DEF Inbox!Restored, Inbox!ExecutionOf
  <2>7. Inbox!TypeOK'
    BY <1>1, <2>3, <2>4, <2>5, <2>6 DEF InboxFits, Inbox!TypeOK
  <2>8. ApprovalFits'
    BY <2>5 DEF ApprovalFits
  <2>9. PostedFits'
    BY <1>1, <1>7, <2>4 DEF InboxFits, PostedFits, PreviewStays
  <2> QED BY <1>3, <1>4, <2>7, <2>8, <2>9 DEF InboxFits
<1> QED BY <1>5, <1>6, <1>7 DEF Inbox!FeishuReplyFlowRestored, Inbox!results

\* What every answer to a click has in common.
LEMMA TakeFits ==
  ASSUME InboxFits, NEW k \in Inbox!Kind, Inbox!Answered(k), Inbox!Take(k)
  PROVE  /\ UNCHANGED <<flows, listed, loading, loads, asked, ready, selected, flowRequest,
                        flowLoading, restores>>
         /\ posts[k] \in Inbox!Post /\ posts[k].item \in Item
         /\ posts[k].answer \in Inbox!Flow /\ posts[k].answer.revision \in Inbox!Revision
         /\ posts[k].answer.stage \in Inbox!Stages
         /\ posts' \in [Inbox!Kind -> Inbox!Post \cup {None}]
         /\ \A j \in Inbox!Kind : posts'[j] = IF j = k THEN None ELSE posts[j]
         /\ PreviewStays => PreviewStays'
         /\ NothingIsSelected' /\ RestoresFit'
<1>1. posts \in [Inbox!Kind -> Inbox!Post \cup {None}]
  BY DEF InboxFits, Inbox!TypeOK
<1>2. UNCHANGED <<flows, listed, loading, loads, asked, ready, selected, flowRequest,
                  flowLoading, restores>>
  BY DEF Inbox!Take, Inbox!inbox, Inbox!restoration
<1>3. posts' = [posts EXCEPT ![k] = None]
  BY DEF Inbox!Take
<1>4. /\ posts' \in [Inbox!Kind -> Inbox!Post \cup {None}]
      /\ \A j \in Inbox!Kind : posts'[j] = IF j = k THEN None ELSE posts[j]
  BY <1>1, <1>3
<1>5. posts[k] \in Inbox!Post /\ posts[k].item \in Item /\ posts[k].answer \in Inbox!Flow
  BY <1>1 DEF Inbox!Answered, Inbox!Post
<1>6. posts[k].answer.revision \in Inbox!Revision /\ posts[k].answer.stage \in Inbox!Stages
  BY <1>5 DEF Inbox!Flow
<1>7. PreviewStays => PreviewStays'
  BY <1>4 DEF PreviewStays
<1>8. NothingIsSelected' /\ RestoresFit'
  BY <1>2 DEF InboxFits, NothingIsSelected, RestoresFit
<1> QED BY <1>2, <1>4, <1>5, <1>6, <1>7, <1>8

\* An answer that leaves no preview, or no approval while none is posted.
LEMMA DraftTakenFits ==
  ASSUME InboxFits, Inbox!ModelDraftCreated \/ Inbox!ModelDraftEdited
  PROVE  InboxFits'
<1>1. PICK k \in {"create", "edit"} :
        /\ Inbox!Answered(k) /\ Inbox!Take(k)
        /\ draft' = Inbox!DraftOf(posts[k].item, posts[k].answer)
        /\ proposal' = None /\ approval' = None /\ execution' = None
  BY DEF Inbox!ModelDraftCreated, Inbox!ModelDraftEdited
<1>2. k \in Inbox!Kind
  BY <1>1
<1>3. draft' \in Inbox!Draft
  BY <1>1, <1>2, TakeFits DEF Inbox!DraftOf
<1>4. Inbox!TypeOK'
  BY <1>1, <1>2, <1>3, TakeFits DEF InboxFits, Inbox!TypeOK
<1>5. ApprovalFits'
  BY <1>1 DEF ApprovalFits
<1>6. posts'["approval"] = None
  <2>1. posts["approval"] = None
    BY <1>1 DEF InboxFits, PostedFits, PreviewStays, Inbox!Answered
  <2> QED BY <1>1, <1>2, <2>1, TakeFits
<1>7. PostedFits'
  BY <1>6 DEF PostedFits
<1> QED BY <1>1, <1>2, <1>4, <1>5, <1>7, TakeFits DEF InboxFits

LEMMA PreviewTakenFits ==
  ASSUME InboxFits, Inbox!FeishuReplyProposalCreated
  PROVE  InboxFits'
<1>1. /\ Inbox!Answered("preview") /\ Inbox!Take("preview")
      /\ proposal' = Inbox!ProposalOf(posts["preview"].item, posts["preview"].answer)
      /\ approval' = None /\ execution' = None /\ UNCHANGED draft
  BY DEF Inbox!FeishuReplyProposalCreated
<1>2. proposal' \in Inbox!Preview
  BY <1>1, TakeFits DEF Inbox!ProposalOf
<1>3. Inbox!TypeOK'
  BY <1>1, <1>2, TakeFits DEF InboxFits, Inbox!TypeOK
<1>4. ApprovalFits'
  BY <1>1 DEF ApprovalFits
<1>5. posts'["approval"] = None
  <2>1. posts["approval"] = None
    BY <1>1 DEF InboxFits, PostedFits, PreviewStays, Inbox!Answered
  <2> QED BY <1>1, <2>1, TakeFits
<1>6. PostedFits'
  BY <1>5 DEF PostedFits
<1> QED BY <1>1, <1>3, <1>4, <1>6, TakeFits DEF InboxFits

\* The preview that is shown when the answer arrives has its revision, or is
\* that of another item.
LEMMA ApprovalTakenFits ==
  ASSUME InboxFits, Inbox!FeishuReplyApprovalMutated
  PROVE  InboxFits'
<1> DEFINE p == posts["approval"]
<1>1. /\ Inbox!Answered("approval") /\ Inbox!Take("approval")
      /\ approval' = Inbox!ApprovalOf(p.item, p.answer)
      /\ execution' = None /\ UNCHANGED <<draft, proposal>>
  BY DEF Inbox!FeishuReplyApprovalMutated
<1>2. /\ PreviewStays /\ p # None /\ p.answer # None
      /\ p.answer.stage \in {"pending", "approved", "rejected"}
      /\ proposal # None => proposal.item = selected
      /\ proposal # None /\ proposal.item = p.item => proposal.revision = p.answer.revision
  BY <1>1 DEF InboxFits, PostedFits, Inbox!Answered
<1>4. approval' \in Inbox!Approval /\ approval'.item = p.item
      /\ approval'.revision = p.answer.revision
  BY <1>1, <1>2, TakeFits DEF Inbox!ApprovalOf
<1>5. posts'["approval"] = None
  BY <1>1, TakeFits
<1>6. Inbox!TypeOK'
  BY <1>1, <1>4, TakeFits DEF InboxFits, Inbox!TypeOK
<1>7. ApprovalFits'
  BY <1>1, <1>2, <1>4, TakeFits DEF ApprovalFits
<1>8. PostedFits'
  BY <1>5 DEF PostedFits
<1> QED BY <1>1, <1>6, <1>7, <1>8, TakeFits DEF InboxFits

LEMMA ExecutionTakenFits ==
  ASSUME InboxFits, Inbox!FeishuReplyExecuted
  PROVE  InboxFits'
<1>1. /\ Inbox!Answered("execute") /\ Inbox!Take("execute")
      /\ execution' = Inbox!ExecutionOf(posts["execute"].item, posts["execute"].answer)
      /\ UNCHANGED <<draft, proposal, approval>>
  BY DEF Inbox!FeishuReplyExecuted
<1>2. execution' \in Inbox!Execution
  BY <1>1, TakeFits DEF Inbox!ExecutionOf
<1>3. Inbox!TypeOK'
  BY <1>1, <1>2, TakeFits DEF InboxFits, Inbox!TypeOK
<1>4. ApprovalFits'
  BY <1>1, TakeFits DEF InboxFits, ApprovalFits
<1>5. posts'["approval"] = posts["approval"]
  BY <1>1, TakeFits
<1>6. PostedFits'
  BY <1>1, <1>5, TakeFits DEF InboxFits, PostedFits
<1> QED BY <1>1, <1>3, <1>4, <1>6, TakeFits DEF InboxFits

\* What a click finds on the screen is what it posts.
LEMMA ClickShowsWhatItPosts ==
  ASSUME InboxFits, Inbox!Next,
         NEW k \in Inbox!Kind, posts[k] = None, posts'[k] # None
  PROVE  /\ posts'[k].item = selected
         /\ posts'[k].click \in Inbox!Decision \cup {"execute"} =>
              /\ approval # None /\ approval.item = selected
              /\ posts'[k].revision = approval.revision
<1>1. posts \in [Inbox!Kind -> Inbox!Post \cup {None}]
  BY DEF InboxFits, Inbox!TypeOK
<1>2. \A j \in Inbox!Kind : \A click, subject : Inbox!Ask(j, click, subject) =>
        k = j /\ posts'[k].click = click /\ posts'[k].item = subject.item
        /\ posts'[k].revision = subject.revision
  BY <1>1 DEF Inbox!Ask
<1>3. ~Inbox!Served
  <2>1. \A j \in Inbox!Kind : \A outcomes : Inbox!Unanswered(j) => ~Inbox!Serve(j, outcomes)
    BY <1>1 DEF Inbox!Unanswered, Inbox!Serve
  <2> QED
    BY <2>1 DEF Inbox!Served, Inbox!ServeModelDraftCreate, Inbox!ServeModelDraftEdit,
                Inbox!ServeFeishuReplyProposalCreate, Inbox!ServeFeishuReplyApprovalMutation,
                Inbox!ServeFeishuReplyExecution, Inbox!ServeFeishuReplyFlow
<1>4. ~Inbox!Taken
  <2>1. \A j \in Inbox!Kind : ~Inbox!Take(j)
    BY <1>1 DEF Inbox!Take
  <2> QED
    BY <2>1 DEF Inbox!Taken, Inbox!ModelDraftCreated, Inbox!ModelDraftEdited,
                Inbox!FeishuReplyProposalCreated, Inbox!FeishuReplyApprovalMutated,
                Inbox!FeishuReplyExecuted, Inbox!FeishuReplyFlowRestored,
                Inbox!StatusAnswered, Inbox!InboxAnswered
<1>5. ~(\E i \in Item : Inbox!Select(i)) /\ ~Inbox!SelectState /\ ~Inbox!RenderRouteAndLoad
  BY DEF Inbox!Select, Inbox!SelectState, Inbox!RenderRouteAndLoad, Inbox!LoadInbox
<1>6. CASE Inbox!CreateModelDraft
  BY <1>2, <1>6 DEF Inbox!CreateModelDraft
<1>7. CASE \E c \in {"save", "review"} : Inbox!EditModelDraft(c)
  BY <1>2, <1>7 DEF Inbox!EditModelDraft, Inbox!CanEdit, Inbox!Shown
<1>8. CASE Inbox!CreateFeishuReplyProposal
  BY <1>2, <1>8 DEF Inbox!CreateFeishuReplyProposal, Inbox!CanCreateReplyPreview, Inbox!Shown
<1>9. CASE Inbox!RequestFeishuReplyApproval
  BY <1>2, <1>9 DEF Inbox!RequestFeishuReplyApproval, Inbox!CanRequestReplyApproval, Inbox!Shown
<1>10. CASE \E d \in Inbox!Decision : Inbox!DecideFeishuReplyApproval(d)
  <2>1. PICK d \in Inbox!Decision : Inbox!DecideFeishuReplyApproval(d)
    BY <1>10
  <2>2. /\ posts'[k].item = proposal.item /\ posts'[k].revision = proposal.revision
        /\ proposal # None /\ approval # None /\ approval.item = selected
        /\ approval.decision = "pending"
    BY <1>2, <2>1 DEF Inbox!DecideFeishuReplyApproval, Inbox!CanDecideReplyApproval,
                      Inbox!MayMutateApproval, Inbox!Shown
  <2> QED BY <2>2 DEF InboxFits, ApprovalFits
<1>11. CASE Inbox!ExecuteFeishuReply
  BY <1>2, <1>11 DEF Inbox!ExecuteFeishuReply, Inbox!CanExecuteReply, Inbox!Shown
<1> QED BY <1>3, <1>4, <1>5, <1>6, <1>7, <1>8, <1>9, <1>10, <1>11 DEF Inbox!Next, Inbox!Clicked

\* The buttons.
LEMMA ClickedFits ==
  ASSUME InboxFits, Inbox!Clicked
  PROVE  InboxFits'
<1>1. /\ posts \in [Inbox!Kind -> Inbox!Post \cup {None}] /\ flows \in [Item -> Inbox!Flow]
      /\ selected \in Item \cup {None}
      /\ draft \in Inbox!Draft \cup {None} /\ proposal \in Inbox!Preview \cup {None}
      /\ approval \in Inbox!Approval \cup {None}
  BY DEF InboxFits, Inbox!TypeOK
<1>2. \A k \in Inbox!Kind : ~Inbox!Busy({"create", "edit", "preview", "approval"}) =>
        PreviewStays /\ posts["approval"] = None
  BY DEF Inbox!Busy, PreviewStays
<1>3. CASE Inbox!CreateModelDraft
  <2>1. posts["approval"] = None /\ selected \in Item
    BY <1>1, <1>3 DEF Inbox!CreateModelDraft, Inbox!CanCreate, Inbox!Busy
  <2> DEFINE subject == [item |-> selected, revision |-> 0]
  <2>2. Inbox!Ask("create", "create", subject) /\ (approval # None => ~Inbox!Locks(approval.decision))
    BY <1>3 DEF Inbox!CreateModelDraft
  <2>3. subject.item \in Item /\ subject.revision \in Inbox!Revision
    BY <2>1
  <2> HIDE DEF subject
  <2> QED BY <2>1, <2>2, <2>3, AskFits
<1>4. ASSUME NEW click \in {"save", "review"}, Inbox!EditModelDraft(click)
      PROVE  InboxFits'
  <2>1. posts["approval"] = None /\ draft.item \in Item /\ draft.revision \in Inbox!Revision
    BY <1>1, <1>4 DEF Inbox!EditModelDraft, Inbox!CanEdit, Inbox!Busy, Inbox!Shown
  <2>2. Inbox!Ask("edit", click, draft) /\ (approval # None => ~Inbox!Locks(approval.decision))
    BY <1>4 DEF Inbox!EditModelDraft
  <2> QED BY <2>1, <2>2, AskFits
<1>5. CASE Inbox!CreateFeishuReplyProposal
  <2>1. posts["approval"] = None /\ draft.item \in Item /\ draft.revision \in Inbox!Revision
    BY <1>1, <1>5
    DEF Inbox!CreateFeishuReplyProposal, Inbox!CanCreateReplyPreview, Inbox!Busy, Inbox!Shown
  <2>2. Inbox!Ask("preview", "preview", draft) /\ approval = None
    BY <1>5 DEF Inbox!CreateFeishuReplyProposal
  <2> QED BY <2>1, <2>2, AskFits
<1>6. CASE Inbox!RequestFeishuReplyApproval
  <2>1. PreviewStays /\ ~flowLoading /\ proposal.item = selected
        /\ proposal.item \in Item /\ proposal.revision \in Inbox!Revision
    BY <1>1, <1>2, <1>6
    DEF Inbox!RequestFeishuReplyApproval, Inbox!CanRequestReplyApproval, Inbox!Shown
  <2>2. Inbox!Ask("approval", "request", proposal)
    BY <1>6 DEF Inbox!RequestFeishuReplyApproval
  <2> QED BY <2>1, <2>2, AskFits
<1>7. ASSUME NEW d \in Inbox!Decision, Inbox!DecideFeishuReplyApproval(d)
      PROVE  InboxFits'
  <2>1. ~flowLoading /\ proposal # None /\ approval # None /\ approval.decision = "pending"
    BY <1>7 DEF Inbox!DecideFeishuReplyApproval, Inbox!CanDecideReplyApproval,
                Inbox!MayMutateApproval, Inbox!Shown
  <2>2. PreviewStays /\ proposal.item = selected
        /\ proposal.item \in Item /\ proposal.revision \in Inbox!Revision
    BY <1>1, <2>1 DEF InboxFits, ApprovalFits, Inbox!Locks
  <2>3. Inbox!Ask("approval", d, proposal)
    BY <1>7 DEF Inbox!DecideFeishuReplyApproval
  <2> QED BY <2>1, <2>2, <2>3, AskFits
<1>8. CASE Inbox!ExecuteFeishuReply
  <2>1. approval.item \in Item /\ approval.revision \in Inbox!Revision
    BY <1>1, <1>8 DEF Inbox!ExecuteFeishuReply, Inbox!CanExecuteReply, Inbox!Shown
  <2>2. Inbox!Ask("execute", "execute", approval)
    BY <1>8 DEF Inbox!ExecuteFeishuReply
  <2> QED BY <2>1, <2>2, AskFits
<1>9. ASSUME NEW i \in Item, Inbox!Select(i)
      PROVE  InboxFits'
  BY <1>9, SelectFits
<1>10. CASE Inbox!SelectState \/ Inbox!RenderRouteAndLoad
  <2>1. PICK newAsked \in SUBSET Slow : Inbox!LoadInbox(newAsked)
    BY <1>1, <1>10
    DEF InboxFits, Inbox!TypeOK, Inbox!SelectState, Inbox!RenderRouteAndLoad,
        Inbox!LoadModelDraftStatus, Inbox!LoadFeishuReplyProposalStatus,
        Inbox!LoadFeishuReplyApprovalStatus, Inbox!LoadFeishuReplyExecutionStatus
  <2> QED BY <2>1, LoadInboxFits
<1> QED BY <1>3, <1>4, <1>5, <1>6, <1>7, <1>8, <1>9, <1>10 DEF Inbox!Clicked

\* The handlers.
LEMMA ServedFits ==
  ASSUME InboxFits, Inbox!Served
  PROVE  InboxFits'
<1>1. posts \in [Inbox!Kind -> Inbox!Post \cup {None}] /\ flows \in [Item -> Inbox!Flow]
  BY DEF InboxFits, Inbox!TypeOK
<1>2. \A k \in Inbox!Kind : Inbox!Unanswered(k) => flows[posts[k].item] \in Inbox!Flow
  BY <1>1 DEF Inbox!Unanswered, Inbox!Post
<1>3. CASE Inbox!ServeModelDraftCreate
  BY <1>3, ServeFits DEF Inbox!ServeModelDraftCreate
<1>4. CASE Inbox!ServeModelDraftEdit
  BY <1>4, ServeFits DEF Inbox!ServeModelDraftEdit
<1>5. CASE Inbox!ServeFeishuReplyProposalCreate
  <2>1. \A f \in Inbox!Previewed(flows[posts["preview"].item]) :
          f.revision = flows[posts["preview"].item].revision
    BY <1>2, <1>5, OutcomesKeepTheRevision DEF Inbox!ServeFeishuReplyProposalCreate
  <2> QED BY <2>1, <1>5, ServeFits DEF Inbox!ServeFeishuReplyProposalCreate
<1>6. CASE Inbox!ServeFeishuReplyApprovalMutation
  <2> DEFINE p == posts["approval"]
             outcomes == IF p.click = "request" THEN Inbox!Requested(flows[p.item])
                         ELSE Inbox!Decided(flows[p.item], p.click)
  <2>1. \A f \in outcomes : f.revision = flows[p.item].revision
    BY <1>2, <1>6, OutcomesKeepTheRevision DEF Inbox!ServeFeishuReplyApprovalMutation
  <2>2. Inbox!Unanswered("approval") /\ Inbox!Serve("approval", outcomes)
    BY <1>6 DEF Inbox!ServeFeishuReplyApprovalMutation
  <2>3. p.click \in Inbox!Decision \cup {"request"}
    BY <2>2 DEF InboxFits, PostedFits, Inbox!Unanswered
  <2>4. flows[p.item] \in Inbox!Flow
    BY <1>2, <2>2
  <2>5. \A f \in outcomes : f.stage \in {"pending", "approved", "rejected"}
    BY <2>3, <2>4 DEF Inbox!Requested, Inbox!Decided, Inbox!To, Inbox!Flow
  <2> HIDE DEF outcomes
  <2> QED BY <2>1, <2>2, <2>5, ServeFits
<1>7. CASE Inbox!ServeFeishuReplyExecution
  <2>1. \A f \in Inbox!Executed(flows[posts["execute"].item]) :
          f.revision = flows[posts["execute"].item].revision
    BY <1>2, <1>7, OutcomesKeepTheRevision DEF Inbox!ServeFeishuReplyExecution
  <2> QED BY <2>1, <1>7, ServeFits DEF Inbox!ServeFeishuReplyExecution
<1>8. ASSUME NEW r \in restores, Inbox!ServeFeishuReplyFlow(r)
      PROVE  InboxFits'
  BY <1>8, ServeRestorationFits
<1> QED BY <1>3, <1>4, <1>5, <1>6, <1>7, <1>8 DEF Inbox!Served

\* The answers.
LEMMA TakenFits ==
  ASSUME InboxFits, Inbox!Taken
  PROVE  InboxFits'
<1>1. ASSUME NEW r \in restores, Inbox!FeishuReplyFlowRestored(r)
      PROVE  InboxFits'
  BY <1>1, RestoredFits
<1>2. ASSUME NEW s \in Inbox!Service, Inbox!StatusAnswered(s)
      PROVE  InboxFits'
  <2>1. UNCHANGED <<flows, listed, loading, loads, selected, draft, proposal, approval,
                    execution, flowRequest, flowLoading, restores, posts>>
    BY <1>2 DEF Inbox!StatusAnswered, Inbox!results, Inbox!restoration
  <2>2. asked' \subseteq Slow /\ ready' \subseteq Inbox!Service
    BY <1>2 DEF InboxFits, Inbox!TypeOK, Inbox!StatusAnswered
  <2> QED BY <2>1, <2>2, InboxStays
<1>3. CASE Inbox!InboxAnswered
  BY <1>3, InboxAnsweredFits
<1>4. CASE Inbox!ModelDraftCreated
  BY <1>4, DraftTakenFits
<1>5. CASE Inbox!ModelDraftEdited
  BY <1>5, DraftTakenFits
<1>6. CASE Inbox!FeishuReplyProposalCreated
  BY <1>6, PreviewTakenFits
<1>7. CASE Inbox!FeishuReplyApprovalMutated
  BY <1>7, ApprovalTakenFits
<1>8. CASE Inbox!FeishuReplyExecuted
  BY <1>8, ExecutionTakenFits
<1> QED BY <1>1, <1>2, <1>3, <1>4, <1>5, <1>6, <1>7, <1>8 DEF Inbox!Taken

LEMMA InboxGoesOn ==
  ASSUME InboxFits, [Inbox!Next]_(Inbox!vars)
  PROVE  InboxFits'
<1>1. CASE UNCHANGED Inbox!vars
  <2>1. UNCHANGED <<flows, listed, loading, loads, asked, ready, selected, draft, proposal,
                    approval, execution, flowRequest, flowLoading, restores, posts>>
    BY <1>1 DEF Inbox!vars, Inbox!page, Inbox!inbox, Inbox!results, Inbox!restoration
  <2>2. asked' \subseteq Slow /\ ready' \subseteq Inbox!Service
    BY <2>1 DEF InboxFits, Inbox!TypeOK
  <2> QED BY <2>1, <2>2, InboxStays
<1> QED BY <1>1, ClickedFits, ServedFits, TakenFits DEF Inbox!Next

\* Types, the list, the restorations and the posts fit together
\* (app.ts, what a click and an answer find).
THEOREM InboxAlwaysFits == Inbox!Spec => []InboxFits
<1>1. Inbox!Init => InboxFits
  BY InboxBegins
<1>2. InboxFits /\ [Inbox!Next]_(Inbox!vars) => InboxFits'
  BY InboxGoesOn
<1> QED BY <1>1, <1>2, PTL DEF Inbox!Spec

\* A click posts the item that is on the screen, a decision the revision whose
\* approval is on the screen (createModelDraft to executeFeishuReply).
THEOREM PostedIsAlwaysShown == RouteSpec => PostedIsShown
<1> DEFINE PostsShown ==
      \A k \in Inbox!Kind : posts[k] = None /\ posts'[k] # None =>
        /\ posts'[k].item = selected
        /\ posts'[k].click \in Inbox!Decision \cup {"execute"} =>
             /\ approval # None /\ approval.item = selected
             /\ posts'[k].revision = approval.revision
<1>1. InboxFits /\ [Inbox!Next]_(Inbox!vars) => [PostsShown]_(Inbox!vars)
  BY ClickShowsWhatItPosts
<1> QED
  BY <1>1, PagesAreTheirParts, InboxAlwaysFits, PTL
  DEF Inbox!Spec, PostedIsShown, Inbox!PostedIsShown
=============================================================================
