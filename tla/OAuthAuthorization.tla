-------------------------- MODULE OAuthAuthorization --------------------------
(***************************************************************************)
(* How a person authorizes TwinDesk in the browser: the first time, and    *)
(* again after the rotation journal asked for it.  An attempt holds the    *)
(* Feishu lease, listens on the registered loopback address, shows an      *)
(* authorization URL, exchanges the one code that answers it, verifies     *)
(* whose code it was and writes the credential to the Keychain.            *)
(*                                                                         *)
(* The person may cancel at any moment and may answer an old browser tab;  *)
(* the lease may be lost, the process may stop, and the `security` child   *)
(* that writes the Keychain may outlive the attempt that started it.       *)
(***************************************************************************)
EXTENDS Naturals

CONSTANTS
  None,         \* nobody, nothing
  Other,        \* another owner of the Feishu lease
  MaxAttempts,  \* bound: authorization URLs that are shown
  MaxCrashes    \* bound: how often the process stops

ASSUME BoundsAssumption == MaxAttempts \in Nat /\ MaxCrashes \in Nat

\* The two controllers.
Flow == {"initial", "again"}

\* An authorization URL, its state, its verifier, the code that answers it and
\* the credential that code buys are known by the attempt's number.
Number == 1..MaxAttempts

\* A credential that no attempt of this process wrote.
Foreign == 0

\* How an attempt may end.
Verdicts == {"succeeded", "failed", "reconcile"}

ASSUME NamesAssumption ==
  /\ None \notin Number \cup {Foreign} /\ None \notin Verdicts
  /\ None # Other /\ Other \notin Flow /\ None \notin Flow

VARIABLES
  status,    \* what each controller tells the page
  attempt,   \* each controller's active attempt
  issued,    \* number of URLs shown so far
  sent,      \* pairs of a code and the verifier it was sent with
  lease,     \* who holds the Feishu lease
  listener,  \* whose loopback listener is open
  keychain,  \* the stored credential
  flying,    \* writes of `security` children nobody waits for any more
  stored,    \* credentials of attempts that ever reached the Keychain
  journal,   \* the state of the rotation journal
  crashes

keychainVars == <<keychain, flying, stored>>
vars == <<status, attempt, issued, sent, lease, listener, keychainVars, journal, crashes>>

Off == [step |-> "off", own |-> None, answer |-> None, aborted |-> FALSE, verdict |-> None]

Steps == {"off", "load", "lease", "listen", "check", "present", "wait", "recheck",
          "submit", "exchange", "verify", "write", "settle", "restore", "close", "release"}
Statuses == Verdicts \cup {"idle", "starting", "waiting", "cancelled"}

At(f, step) == attempt[f].step = step
Active(f) == ~At(f, "off")
Goto(f, step) == attempt' = [attempt EXCEPT ![f].step = step]
End(f, verdict) == attempt' = [attempt EXCEPT ![f].step = "close", ![f].verdict = verdict]
Aborted(f) == attempt[f].aborted
AssertHeld(f) == lease = f

(***************************************************************************)
(* The controller                                                          *)
(***************************************************************************)

\* What the server makes of the state of the journal before it starts a flow; the
\* flow looks again, under the lease.
AuthorizationAllowed == journal = "settled"
ReauthorizationAllowed == journal = "reauthorization_required"

Start(f) ==
  /\ ~Active(f)
  /\ status' = [status EXCEPT ![f] = "starting"]
  /\ attempt' = [attempt EXCEPT ![f] = [Off EXCEPT !.step = "load"]]
  /\ UNCHANGED <<issued, sent, lease, listener, keychainVars, journal, crashes>>

Cancel(f) ==
  /\ Active(f) /\ ~Aborted(f)
  /\ attempt' = [attempt EXCEPT ![f].aborted = TRUE]
  /\ UNCHANGED <<status, issued, sent, lease, listener, keychainVars, journal, crashes>>

\* The page's buttons of the two controllers.
StartFeishuAuthorization == AuthorizationAllowed /\ Start("initial")
StartFeishuReauthorization == ReauthorizationAllowed /\ Start("again")
CancelFeishuAuthorization == Cancel("initial")
CancelFeishuReauthorization == Cancel("again")

\* loadHost: the settings are read.
Load(f) ==
  /\ At(f, "load")
  /\ \/ ~Aborted(f) /\ Goto(f, "lease")
     \/ End(f, "failed")
  /\ UNCHANGED <<status, issued, sent, lease, listener, keychainVars, journal, crashes>>

\* The last thing an attempt does.  Success stands even if it was cancelled; any
\* other verdict of the host is lost then, also that the Keychain is to be reconciled.
Conclusion(f) ==
  IF attempt[f].verdict # "succeeded" /\ Aborted(f) THEN "cancelled" ELSE attempt[f].verdict

Release(f) ==
  /\ At(f, "release")
  /\ lease' = IF lease = f THEN None ELSE lease
  /\ status' = [status EXCEPT ![f] = Conclusion(f)]
  /\ attempt' = [attempt EXCEPT ![f] = [Off EXCEPT !.own = attempt[f].own,
                                                  !.verdict = attempt[f].verdict]]
  /\ UNCHANGED <<issued, sent, listener, keychainVars, journal, crashes>>

(***************************************************************************)
(* The host: up to the authorization URL                                   *)
(***************************************************************************)

Acquire(f) ==
  /\ At(f, "lease")
  /\ \/ /\ ~Aborted(f) /\ lease = None
        /\ lease' = f
        /\ Goto(f, IF f = "initial" THEN "listen" ELSE "check")
     \/ End(f, "failed") /\ UNCHANGED lease
  /\ UNCHANGED <<status, issued, sent, listener, keychainVars, journal, crashes>>

\* The first authorization wants no credential.  The lookup can be aborted.
CredentialMissing == keychain = None /\ ~Aborted("initial")

\* A renewed one wants a journal that asks for it.
ReauthorizationPending == journal = "reauthorization_required"

Wanted(f) == IF f = "initial" THEN CredentialMissing ELSE ReauthorizationPending

Check(f) ==
  /\ At(f, "check")
  /\ \/ Wanted(f) /\ Goto(f, IF f = "initial" THEN "present" ELSE "listen")
     \/ End(f, "failed")
  /\ UNCHANGED <<status, issued, sent, lease, listener, keychainVars, journal, crashes>>

Listen(f) ==
  /\ At(f, "listen")
  /\ \/ /\ AssertHeld(f) /\ ~Aborted(f) /\ listener = None
        /\ listener' = f
        /\ Goto(f, IF f = "initial" THEN "check" ELSE "present")
     \/ End(f, "failed") /\ UNCHANGED listener
  /\ UNCHANGED <<status, issued, sent, lease, keychainVars, journal, crashes>>

Present(f) ==
  /\ At(f, "present")
  /\ \/ /\ AssertHeld(f) /\ ~Aborted(f) /\ issued < MaxAttempts
        /\ issued' = issued + 1
        /\ attempt' = [attempt EXCEPT ![f].step = "wait", ![f].own = issued + 1]
        /\ status' = [status EXCEPT ![f] = "waiting"]
     \/ End(f, "failed") /\ UNCHANGED <<issued, status>>
  /\ UNCHANGED <<sent, lease, listener, keychainVars, journal, crashes>>

(***************************************************************************)
(* The loopback listener                                                   *)
(***************************************************************************)

\* Mutated form: the state of the callback is not compared.
AnyState(f, n) == attempt[f].own # None

StateMatches(f, n) == attempt[f].own = n

\* What the target of the callback holds: the code bought with URL n, or a denial.
CallbackResult(n, answer) == IF answer = "code" THEN n ELSE None

\* A browser tab brings the answer to URL n, the newest or an older one.  The
\* listener takes one answer to its own URL and answers anything else with 404.
Callback(f, n, answer) ==
  /\ At(f, "wait") /\ listener = f /\ ~Aborted(f)
  /\ n <= issued /\ StateMatches(f, n)
  /\ listener' = None
  /\ attempt' = [attempt EXCEPT ![f].step = "recheck",
                                ![f].answer = CallbackResult(n, answer)]
  /\ UNCHANGED <<status, issued, sent, lease, keychainVars, journal, crashes>>

\* Mutated form: nothing ends the wait but a cancellation.
StopWaitingIfAborted(f) ==
  /\ At(f, "wait") /\ Aborted(f)
  /\ listener' = IF listener = f THEN None ELSE listener
  /\ End(f, "failed")
  /\ UNCHANGED <<status, issued, sent, lease, keychainVars, journal, crashes>>

\* The timer fires, the attempt is cancelled, or the listener or the presenter
\* fails.
StopWaiting(f) ==
  /\ At(f, "wait")
  /\ listener' = IF listener = f THEN None ELSE listener
  /\ End(f, "failed")
  /\ UNCHANGED <<status, issued, sent, lease, keychainVars, journal, crashes>>

Close(f) ==
  /\ At(f, "close")
  /\ listener' = IF listener = f THEN None ELSE listener
  /\ Goto(f, "release")
  /\ UNCHANGED <<status, issued, sent, lease, keychainVars, journal, crashes>>

(***************************************************************************)
(* The host: from the code to the Keychain                                 *)
(***************************************************************************)

Recheck(f) ==
  /\ At(f, "recheck")
  /\ \/ AssertHeld(f) /\ Wanted(f) /\ Goto(f, "submit")
     \/ End(f, "failed")
  /\ UNCHANGED <<status, issued, sent, lease, listener, keychainVars, journal, crashes>>

\* session.complete, up to the request to Feishu.
Submit(f) ==
  /\ At(f, "submit")
  /\ \/ /\ AssertHeld(f) /\ ~Aborted(f)
        /\ attempt[f].answer # None /\ StateMatches(f, attempt[f].answer)
        /\ sent' = sent \cup {<<attempt[f].answer, attempt[f].own>>}
        /\ Goto(f, "exchange")
     \/ End(f, "failed") /\ UNCHANGED sent
  /\ UNCHANGED <<status, issued, lease, listener, keychainVars, journal, crashes>>

\* session.complete, from the response on.  A renewed authorization reserves
\* the replacement in the journal before anything else.
Exchange(f) ==
  /\ At(f, "exchange")
  /\ \/ /\ AssertHeld(f) /\ ~Aborted(f)
        /\ f = "again" => Wanted(f)
        /\ journal' = IF f = "again" THEN "reauthorization_reserved" ELSE journal
        /\ Goto(f, "verify")
     \/ End(f, "failed") /\ UNCHANGED journal
  /\ UNCHANGED <<status, issued, sent, lease, listener, keychainVars, crashes>>

\* Nothing was written.
GiveUp(f) == IF f = "again" THEN Goto(f, "restore") ELSE End(f, "failed")

\* Mutated form: the lease is not looked at again before the write.
VerifyWithoutLease(f) ==
  /\ At(f, "verify")
  /\ \/ ~Aborted(f) /\ Goto(f, "write")
     \/ GiveUp(f)
  /\ UNCHANGED <<status, issued, sent, lease, listener, keychainVars, journal, crashes>>

\* Whose token it is, and the last look before the write begins.  A renewed
\* authorization is written without a last look at the lease.
Verify(f) ==
  /\ At(f, "verify")
  /\ \/ ~Aborted(f) /\ (f = "initial" => AssertHeld(f)) /\ Goto(f, "write")
     \/ GiveUp(f)
  /\ UNCHANGED <<status, issued, sent, lease, listener, keychainVars, journal, crashes>>

Written(n) == keychain' = n /\ stored' = stored \cup {n} /\ UNCHANGED flying

\* The child was killed or failed, or its success came after a cancellation.
WriteUncertain(n) ==
  \/ Written(n)
  \/ UNCHANGED keychainVars
  \/ flying' = flying \cup {n} /\ UNCHANGED <<keychain, stored>>

\* Mutated form: a write that fails counts as not done.
PersistOrFail ==
  LET n == attempt["initial"].own IN
  /\ At("initial", "write")
  /\ \/ ~Aborted("initial") /\ Written(n) /\ End("initial", "succeeded")
     \/ WriteUncertain(n) /\ End("initial", "failed")
  /\ UNCHANGED <<status, issued, sent, lease, listener, journal, crashes>>

\* The first credential.
Persist ==
  LET n == attempt["initial"].own IN
  /\ At("initial", "write")
  /\ \/ ~Aborted("initial") /\ Written(n) /\ End("initial", "succeeded")
     \/ WriteUncertain(n) /\ End("initial", "reconcile")
  /\ UNCHANGED <<status, issued, sent, lease, listener, journal, crashes>>

\* The credential that replaces the blocked one.
Replace ==
  LET n == attempt["again"].own IN
  /\ At("again", "write")
  /\ \/ ~Aborted("again") /\ Written(n) /\ Goto("again", "settle")
     \/ WriteUncertain(n) /\ End("again", "reconcile")
  /\ UNCHANGED <<status, issued, sent, lease, listener, journal, crashes>>

\* The replacement is recorded, or taken back, if the journal can be written.
Settle(f) ==
  /\ At(f, "settle")
  /\ \/ journal' = "settled" /\ End(f, "succeeded")
     \/ UNCHANGED journal /\ End(f, "reconcile")
  /\ UNCHANGED <<status, issued, sent, lease, listener, keychainVars, crashes>>

Restore(f) ==
  /\ At(f, "restore")
  /\ \/ journal' = "reauthorization_required" /\ End(f, "failed")
     \/ UNCHANGED journal /\ End(f, "reconcile")
  /\ UNCHANGED <<status, issued, sent, lease, listener, keychainVars, crashes>>

(***************************************************************************)
(* What happens around the attempts                                        *)
(***************************************************************************)

Land(n) ==
  /\ n \in flying
  /\ flying' = flying \ {n} /\ keychain' = n /\ stored' = stored \cup {n}
  /\ UNCHANGED <<status, attempt, issued, sent, lease, listener, journal, crashes>>

\* The lease's socket fails.
LoseLease ==
  /\ lease \in Flow /\ lease' = None
  /\ UNCHANGED <<status, attempt, issued, sent, listener, keychainVars, journal, crashes>>

OtherTakesLease ==
  /\ lease = None /\ lease' = Other
  /\ UNCHANGED <<status, attempt, issued, sent, listener, keychainVars, journal, crashes>>

OtherReleasesLease ==
  /\ lease = Other /\ lease' = None
  /\ UNCHANGED <<status, attempt, issued, sent, listener, keychainVars, journal, crashes>>

\* Another owner writes a credential and settles the journal; or it finds that
\* the refresh token no longer works.
OtherRotates ==
  /\ lease = Other
  /\ \/ keychain' = Foreign /\ journal' = "settled"
     \/ /\ keychain # None /\ journal = "settled"
        /\ journal' = "reauthorization_required" /\ UNCHANGED keychain
  /\ UNCHANGED <<status, attempt, issued, sent, lease, listener, flying, stored, crashes>>

\* A child that is writing goes on.
Crash ==
  /\ crashes < MaxCrashes /\ crashes' = crashes + 1
  /\ flying' = flying \cup {attempt[f].own : f \in {g \in Flow : At(g, "write")}}
  /\ status' = [f \in Flow |-> "idle"]
  /\ attempt' = [f \in Flow |-> Off]
  /\ lease' = IF lease \in Flow THEN None ELSE lease
  /\ listener' = None
  /\ UNCHANGED <<issued, sent, keychain, stored, journal>>

Init ==
  /\ status = [f \in Flow |-> "idle"]
  /\ attempt = [f \in Flow |-> Off]
  /\ issued = 0 /\ sent = {}
  /\ lease = None /\ listener = None
  /\ flying = {} /\ stored = {} /\ crashes = 0
  /\ \/ keychain = None /\ journal = "settled"
     \/ keychain = Foreign /\ journal \in {"settled", "reauthorization_required"}

Proceed(f) ==
  \/ Load(f) \/ Acquire(f) \/ Check(f) \/ Listen(f) \/ Present(f) \/ StopWaiting(f)
  \/ Recheck(f) \/ Submit(f) \/ Exchange(f) \/ Verify(f)
  \/ (f = "initial" /\ Persist) \/ (f = "again" /\ Replace) \/ Settle(f) \/ Restore(f) \/ Close(f) \/ Release(f)

Next ==
  \/ StartFeishuAuthorization \/ CancelFeishuAuthorization
  \/ StartFeishuReauthorization \/ CancelFeishuReauthorization
  \/ \E f \in Flow : Proceed(f)
  \/ \E f \in Flow, n \in Number, answer \in {"code", "denied"} : Callback(f, n, answer)
  \/ \E n \in Number : Land(n)
  \/ LoseLease \/ OtherTakesLease \/ OtherReleasesLease \/ OtherRotates \/ Crash

Spec == Init /\ [][Next]_vars

\* Every request and every child process is bounded in time and gives up when
\* it is aborted; the wait for the browser ends after five minutes.
Fairness == \A f \in Flow : WF_vars(Proceed(f))

FairSpec == Spec /\ Fairness

(***************************************************************************)
(* Properties                                                              *)
(***************************************************************************)

TypeOK ==
  /\ status \in [Flow -> Statuses]
  /\ attempt \in [Flow -> [step : Steps, own : Number \cup {None}, answer : Number \cup {None},
                           aborted : BOOLEAN, verdict : Verdicts \cup {None}]]
  /\ issued \in 0..MaxAttempts
  /\ sent \subseteq Number \X Number
  /\ lease \in Flow \cup {None, Other} /\ listener \in Flow \cup {None}
  /\ keychain \in Number \cup {None, Foreign}
  /\ flying \subseteq Number /\ stored \subseteq Number
  /\ journal \in {"settled", "reauthorization_required", "reauthorization_reserved"}
  /\ crashes \in 0..MaxCrashes

\* A code is only ever exchanged by the attempt whose URL it answers, whatever
\* tab of an earlier attempt answers while a later one listens.
CodesAreTheirOwn == \A x \in sent : x[1] = x[2]

\* What a controller says of a finished attempt is true of the Keychain:
\* "succeeded" means that the credential got there; "failed" that it did not and
\* never will, and so does "cancelled", unless the host's own verdict, which the
\* controller then drops, was "reconcile".
StatusIsTrue ==
  \A f \in Flow : ~Active(f) =>
    LET n == attempt[f].own IN
    /\ status[f] = "succeeded" => n \in stored
    /\ status[f] = "failed" \/ (status[f] = "cancelled" /\ attempt[f].verdict # "reconcile")
         => n \notin stored \cup flying

\* What the documentation says: a credential that got to the Keychain, or may
\* still get there, is never called failed or cancelled; the page is sent to
\* reconciliation instead.
UncertainWritesAreReported ==
  \A f \in Flow : ~Active(f) /\ attempt[f].own \in stored \cup flying
    => status[f] \in {"succeeded", "reconcile"}

\* The first authorization never begins to write over a credential another
\* owner stored: the lookups and the lease together leave no gap between the
\* check and the write.  (A write of unknown outcome may still land in between.)
InitialKeepsCredentials ==
  [][At("initial", "verify") /\ attempt'["initial"].step = "write" => keychain # Foreign]_vars

\* Whatever the browser, Feishu, the Keychain or the lease do, every attempt
\* ends and gives up the listener and the lease.
AttemptsEnd == \A f \in Flow : []<>(listener # f /\ lease # f /\ ~Active(f))
==============================================================================
