-------------------------- MODULE OAuthRotationProofs --------------------------
(***************************************************************************)
(* For any number of operations, crashes and failed appends, a refresh     *)
(* token is sent to Feishu at most once, the Keychain only ever gets newer *)
(* credentials, and an unblocked journal knows the one that is in it.      *)
(***************************************************************************)
EXTENDS OAuthRotation, TLAPS

Inv == TypeOK /\ TokensCovered /\ TokenUsedOnce

EventOrNone == Event \cup {None}

\* An event that follows one which covers a token covers it too.
LEMMA FollowsCovers ==
  ASSUME NEW last \in EventOrNone, NEW e \in Event, NEW c \in Credential,
         Covers(last, c), Follows(last, e), e.state \in Terminal => e.source < e.result
  PROVE  Covers(e, c)
<1>1. last \in Event /\ None \notin Event /\ None \notin Time
  BY NoneAssumption DEF EventOrNone, Covers
<1>2. c.obtainedAt \in Nat /\ last.source \in Nat /\ e.source \in Nat
  BY <1>1, BoundsAssumption DEF Credential, Event, Time
<1>3. CASE last.state \in Terminal
  <2>1. e.state = "reserved" /\ e.source >= last.result
    BY <1>1, <1>3 DEF Follows, NextStates, Terminal
  <2>2. last.result \in Nat
    BY <1>1, <1>3, BoundsAssumption DEF Event, Time, Terminal, Unresolved
  <2>3. c.obtainedAt < last.result
    BY <1>3 DEF Covers
  <2>4. c.obtainedAt <= e.source
    BY <1>2, <2>1, <2>2, <2>3
  <2> QED  BY <1>1, <2>1, <2>4 DEF Covers, Terminal
<1>4. CASE last.state \notin Terminal
  <2>1. e.source = last.source /\ c.obtainedAt <= e.source
    BY <1>1, <1>4 DEF Covers, Follows
  <2>2. CASE e.state \in Terminal
    <3>1. e.result \in Nat
      BY <2>2, BoundsAssumption DEF Event, Time, Terminal, Unresolved
    <3> QED  BY <1>1, <1>2, <2>1, <2>2, <3>1 DEF Covers
  <2> QED  BY <1>1, <2>1, <2>2 DEF Covers
<1> QED  BY <1>3, <1>4

\* Whatever becomes of an append, memory and file keep their types and go on
\* covering what they covered.
LEMMA AppendKeepsCover ==
  ASSUME TypeOK, NEW e, NEW recordedAt, NEW outcome \in Outcomes(e, recordedAt),
         Follows(latest, e) /\ Chronological(e, recordedAt) => e \in Event,
         Append(e, outcome)
  PROVE  /\ latest' \in EventOrNone
         /\ disk' \in [latest : EventOrNone, tail : {"clean", "torn", "unreadable"}]
         /\ loaded' = loaded
         /\ \A c \in Credential : Covers(latest, c) => Covers(latest', c)
         /\ \A c \in Credential :
              (disk.tail # "unreadable" => Covers(disk.latest, c))
                => (disk'.tail # "unreadable" => Covers(disk'.latest, c))
         /\ outcome = "done" => latest' = e /\ e \in Event /\ Follows(latest, e)
<1> USE DEF EventOrNone
<1>1. latest \in EventOrNone /\ disk \in [latest : EventOrNone, tail : {"clean", "torn", "unreadable"}]
  BY DEF TypeOK
<1>2. loaded' = loaded
  BY DEF Append
<1>3. CASE outcome = "refused" \/ outcome = "lost"
  <2>1. latest' = latest /\ disk' = disk
    BY <1>3 DEF Append
  <2> QED  BY <1>1, <1>2, <1>3, <2>1
<1>4. CASE outcome = "torn"
  <2>1. latest' = latest /\ disk' = WithTornLine
    BY <1>4 DEF Append
  <2>2. /\ disk'.latest = disk.latest
        /\ disk' \in [latest : EventOrNone, tail : {"clean", "torn", "unreadable"}]
        /\ disk'.tail = "unreadable" <=> disk.tail = "unreadable"
    BY <1>1, <2>1 DEF WithTornLine
  <2> QED  BY <1>1, <1>2, <1>4, <2>1, <2>2
<1>5. CASE outcome \in {"done", "whole"}
  <2>1. Follows(latest, e) /\ e \in Event /\ (e.state \in Terminal => e.source < e.result)
    BY <1>5 DEF Outcomes, Chronological
  <2>2. latest' \in {e, latest} /\ (outcome = "done" => latest' = e) /\ disk' = WithLine(e)
    BY <1>5 DEF Append
  <2>3. \A c \in Credential : Covers(latest, c) => Covers(e, c)
    BY <1>1, <2>1, FollowsCovers
  <2>4. CASE disk.tail = "clean" /\ Follows(disk.latest, e)
    <3>1. disk' = [latest |-> e, tail |-> "clean"]
      BY <2>2, <2>4 DEF WithLine
    <3>2. \A c \in Credential : Covers(disk.latest, c) => Covers(e, c)
      BY <1>1, <2>1, <2>4, FollowsCovers
    <3> QED  BY <1>1, <1>2, <2>1, <2>2, <2>3, <2>4, <3>1, <3>2
  <2>5. CASE ~(disk.tail = "clean" /\ Follows(disk.latest, e))
    <3>1. disk' = [disk EXCEPT !.tail = "unreadable"]
      BY <2>2, <2>5 DEF WithLine
    <3>2. disk' \in [latest : EventOrNone, tail : {"clean", "torn", "unreadable"}] /\ disk'.tail = "unreadable"
      BY <1>1, <3>1
    <3> QED  BY <1>1, <1>2, <2>1, <2>2, <2>3, <3>2
  <2> QED  BY <2>4, <2>5
<1>6. outcome \in {"done", "refused", "lost", "torn", "whole"}
  BY FailuresAssumption DEF Outcomes
<1> QED  BY <1>3, <1>4, <1>5, <1>6

JournalKeepsCover ==
  /\ loaded' = loaded
  /\ \A c \in Credential : Covers(latest, c) => Covers(latest', c)
  /\ \A c \in Credential :
       (disk.tail # "unreadable" => Covers(disk.latest, c))
         => (disk'.tail # "unreadable" => Covers(disk'.latest, c))

LEMMA IdleJournal == UNCHANGED journalVars => JournalKeepsCover
BY DEF journalVars, JournalKeepsCover

LEMMA SpentType == TypeOK /\ TokensCovered => Spent \subseteq Credential
BY DEF TypeOK, TokensCovered, Spent, Run, At, RunFits

OnlyRun(o) == run' \in [Op -> Run] /\ \A p \in Op \ {o} : run'[p] = run[p]

\* One operation takes a step after which it is not about to send a token; if
\* it was, the token may have been sent.
LEMMA OneRunStep ==
  ASSUME Inv, NEW o \in Op, OnlyRun(o), RunFits(run'[o]), run'[o].step # "submit",
         JournalKeepsCover,
         \/ submitted' = submitted
         \/ At(o, "submit") /\ submitted' = submitted \cup {run[o].held}
  PROVE  TokensCovered' /\ TokenUsedOnce'
<1> USE DEF Inv
<1>1. run \in [Op -> Run] /\ submitted \subseteq Credential
  BY DEF TypeOK
<1>3. \A p \in Op : At(p, "submit")' => p # o /\ At(p, "submit") /\ run'[p] = run[p]
  BY DEF At, OnlyRun
<1>4. Spent' \subseteq Spent
  BY <1>3 DEF Spent
<1>5. \A p \in Op : RunFits(run'[p])
  BY DEF TokensCovered, OnlyRun
<1>6. \A c \in Spent' : /\ loaded' => Covers(latest', c)
                        /\ disk'.tail # "unreadable" => Covers(disk'.latest, c)
  BY <1>4, SpentType DEF TokensCovered, JournalKeepsCover
<1>7. TokensCovered'
  BY <1>3, <1>5, <1>6 DEF TokensCovered, JournalKeepsCover
<1>8. TokenUsedOnce'
  BY <1>3 DEF TokenUsedOnce, TokensCovered
<1> QED  BY <1>7, <1>8

\* What the helpers do to the run of an operation.
LEMMA RunUpdates ==
  ASSUME TypeOK, NEW o \in Op
  PROVE  /\ \A s \in Step : Goto(o, s) =>
              OnlyRun(o) /\ run'[o].step = s /\ run'[o].seen = run[o].seen
              /\ run'[o].held = run[o].held /\ run'[o].verdict = run[o].verdict
         /\ \A v \in Terminal \cup Unresolved : ToSettle(o, v) =>
              OnlyRun(o) /\ run'[o].step = "settle" /\ run'[o].seen = run[o].seen
              /\ run'[o].held = run[o].held /\ run'[o].verdict = v
         /\ Finish(o) => OnlyRun(o) /\ run'[o] = NoRun
<1>1. run \in [Op -> Run] /\ run[o] \in Run
  BY DEF TypeOK
<1>2. ASSUME NEW s \in Step, Goto(o, s)
      PROVE  OnlyRun(o) /\ run'[o].step = s /\ run'[o].seen = run[o].seen
              /\ run'[o].held = run[o].held /\ run'[o].verdict = run[o].verdict
  BY <1>1, <1>2 DEF Goto, OnlyRun, Run
<1>3. ASSUME NEW v \in Terminal \cup Unresolved, ToSettle(o, v)
      PROVE  OnlyRun(o) /\ run'[o].step = "settle" /\ run'[o].seen = run[o].seen
              /\ run'[o].held = run[o].held /\ run'[o].verdict = v
  BY <1>1, <1>3 DEF ToSettle, OnlyRun, Run, Step
<1>4. Finish(o) => OnlyRun(o) /\ run'[o] = NoRun
  BY <1>1 DEF Finish, Set, OnlyRun, Run, NoRun, Step
<1> QED  BY <1>2, <1>3, <1>4

LEMMA NoRunFits == NoRun \in Run /\ RunFits(NoRun) /\ NoRun.step # "submit"
BY DEF NoRun, Run, Step, RunFits

(***************************************************************************)
(* The steps of a refresh, a reauthorization and a reconciliation          *)
(***************************************************************************)

\* A step that changes nothing but the local variables of one operation.
LEMMA QuietStep ==
  ASSUME Inv, NEW o \in Op, OnlyRun(o), RunFits(run'[o]), run'[o].step # "submit",
         UNCHANGED <<now, keychainVars, feishuVars, journalVars, queue, crashes>>
  PROVE  Inv'
<1>1. TokensCovered' /\ TokenUsedOnce'
  <2>1. JournalKeepsCover
    BY IdleJournal
  <2>2. submitted' = submitted
    BY DEF feishuVars
  <2> QED  BY <2>1, <2>2, OneRunStep
<1>2. TypeOK'
  BY DEF Inv, TypeOK, OnlyRun, keychainVars, feishuVars, journalVars
<1> QED  BY <1>1, <1>2 DEF Inv

LEMMA FinishStep ==
  ASSUME Inv, NEW o \in Op, Finish(o)
  PROVE  OnlyRun(o) /\ RunFits(run'[o]) /\ run'[o].step # "submit"
BY RunUpdates, NoRunFits DEF Inv

LEMMA StartSteps ==
  ASSUME Inv, NEW o \in Op, Start(o)
  PROVE  Inv'
<1>1. run \in [Op -> Run] /\ latest \in EventOrNone
  BY DEF Inv, TypeOK, EventOrNone
<1>2. CASE StartRefresh(o)
  <2>1. OnlyRun(o) /\ run'[o].step = "read"
    BY <1>1, <1>2 DEF StartRefresh, Set, OnlyRun, NoRun, Run, Step, EventOrNone
  <2> QED  BY <1>2, <2>1, QuietStep DEF StartRefresh, RunFits
<1>3. CASE StartReauthorization(o)
  <2>1. OnlyRun(o) /\ run'[o].step = "exchange"
    BY <1>3, RunUpdates DEF StartReauthorization, Step, Inv
  <2> QED  BY <1>3, <2>1, QuietStep DEF StartReauthorization, RunFits
<1>4. CASE StartReconciliation(o)
  <2>1. OnlyRun(o) /\ run'[o].step = "evidence" /\ run'[o].seen # None
    BY <1>1, <1>4 DEF StartReconciliation, Set, OnlyRun, NoRun, Run, Step, EventOrNone, Blocked
  <2> QED  BY <1>4, <2>1, QuietStep DEF StartReconciliation, RunFits
<1> QED  BY <1>2, <1>3, <1>4 DEF Start

LEMMA ReadSteps ==
  ASSUME Inv, NEW o \in Op,
         ReadCredential(o) \/ Decide(o) \/ ReadEvidence(o) \/ Recheck(o) \/ Restore(o) \/ GiveUp(o)
  PROVE  Inv'
<1>1. /\ TypeOK /\ run[o] \in Run /\ RunFits(run[o])
      /\ keychain \in Credential /\ None \notin Credential
  BY NoneAssumption DEF Inv, TypeOK, TokensCovered
<1>2. CASE ReadCredential(o)
  <2>1. OnlyRun(o) /\ run'[o].step = "decide" /\ run'[o].held = keychain
    BY <1>1, <1>2 DEF ReadCredential, OnlyRun, Run, Step, TypeOK
  <2> QED  BY <1>1, <1>2, <2>1, QuietStep DEF ReadCredential, RunFits
<1>3. CASE Decide(o)
  <2>1. run[o].held # None
    BY <1>1, <1>3 DEF Decide, At, RunFits
  <2>2. /\ \A v \in {"uncertain"} \cup Terminal : Blocked(run[o].seen) /\ ToSettle(o, v) =>
             OnlyRun(o) /\ RunFits(run'[o]) /\ run'[o].step # "submit"
        /\ Goto(o, "reserve") => OnlyRun(o) /\ RunFits(run'[o]) /\ run'[o].step # "submit"
    BY <1>1, <2>1, RunUpdates DEF RunFits, Terminal, Unresolved, Step, Blocked
  <2>3. Resolution(run[o].seen) \in Terminal
    BY DEF Resolution, Terminal
  <2>4. OnlyRun(o) /\ RunFits(run'[o]) /\ run'[o].step # "submit"
    BY <1>3, <2>2, <2>3, FinishStep DEF Decide
  <2> QED  BY <1>3, <2>4, QuietStep DEF Decide
<1>4. CASE ReadEvidence(o)
  <2>1. run[o].seen # None
    BY <1>1, <1>4 DEF ReadEvidence, At, RunFits
  <2>2. CASE run' = [run EXCEPT ![o].step = "recheck", ![o].held = keychain]
    <3>1. OnlyRun(o) /\ run'[o].step = "recheck" /\ run'[o].seen = run[o].seen /\ run'[o].held = keychain
      BY <1>1, <2>2 DEF OnlyRun, Run, Step, TypeOK
    <3>2. RunFits(run'[o])
      BY <1>1, <2>1, <3>1 DEF RunFits
    <3> QED  BY <1>4, <3>1, <3>2, QuietStep DEF ReadEvidence
  <2> QED  BY <1>4, <2>2, FinishStep, QuietStep DEF ReadEvidence
<1>5. CASE Recheck(o)
  <2>1. run[o].seen # None /\ run[o].held # None
    BY <1>1, <1>5 DEF Recheck, At, RunFits
  <2>2. Resolution(latest) \in Terminal
    BY DEF Resolution, Terminal
  <2>3. ToSettle(o, Resolution(latest)) =>
          OnlyRun(o) /\ RunFits(run'[o]) /\ run'[o].step # "submit"
    BY <1>1, <2>1, <2>2, RunUpdates DEF RunFits
  <2> QED  BY <1>5, <2>3, FinishStep, QuietStep DEF Recheck
<1>6. CASE Restore(o)
  <2>1. run[o].seen # None
    BY <1>1, <1>6 DEF Restore, At, RunFits
  <2>2. ToSettle(o, "reauthorization_required") =>
          OnlyRun(o) /\ RunFits(run'[o]) /\ run'[o].step # "submit"
    BY <1>1, <2>1, RunUpdates DEF RunFits, Terminal, Unresolved
  <2> QED  BY <1>6, <2>2, FinishStep, QuietStep DEF Restore
<1>7. CASE GiveUp(o)
  BY <1>7, FinishStep, QuietStep DEF GiveUp
<1> QED  BY <1>2, <1>3, <1>4, <1>5, <1>6, <1>7

\* An operation appends an event and is not about to send a token afterwards.
LEMMA JournalStep ==
  ASSUME Inv, NEW o \in Op, OnlyRun(o), RunFits(run'[o]), run'[o].step # "submit",
         submitted' = submitted,
         NEW e, NEW recordedAt, NEW outcome \in Outcomes(e, recordedAt),
         Follows(latest, e) /\ Chronological(e, recordedAt) => e \in Event,
         Append(e, outcome),
         now' = now, issued' = issued, crashes' = crashes,
         keychain' = keychain, flying' = flying,
         active' \in Nat \cup {None}, queue' \in Op \cup {None}
  PROVE  Inv'
<1>1. TypeOK
  BY DEF Inv
<1>2. /\ latest' \in EventOrNone
      /\ disk' \in [latest : EventOrNone, tail : {"clean", "torn", "unreadable"}]
      /\ JournalKeepsCover
  BY <1>1, AppendKeepsCover DEF JournalKeepsCover
<1>3. TokensCovered' /\ TokenUsedOnce'
  BY <1>2, OneRunStep
<1>4. TypeOK'
  BY <1>1, <1>2 DEF TypeOK, OnlyRun, EventOrNone, JournalKeepsCover
<1> QED  BY <1>3, <1>4 DEF Inv

\* What an operation settles or reserves is an event, if it may follow.
LEMMA SettlementIsEvent ==
  ASSUME Inv, NEW o \in Op, run[o].step = "settle", Follows(latest, SettlementOf(o))
  PROVE  SettlementOf(o) \in Event
<1> DEFINE e == SettlementOf(o)
<1>1. latest \in EventOrNone /\ run[o] \in Run /\ RunFits(run[o])
  BY DEF Inv, TypeOK, TokensCovered, EventOrNone
<1>2. run[o].verdict \in {"uncertain", "reauthorization_required"} \cup Terminal
  BY <1>1 DEF RunFits
<1>3. run[o].verdict \in Terminal => run[o].held.obtainedAt \in Time
  BY <1>1, NoneAssumption DEF RunFits, Run, Credential
<1>4. e.state = run[o].verdict /\ e.sequence = run[o].seen.sequence /\ e.source = latest.source
  BY DEF SettlementOf
<1>5. e.state # "reserved"
  BY <1>2, <1>4 DEF Terminal
<1>6. latest \in Event /\ e.sequence = latest.sequence
  BY <1>1, <1>5 DEF Follows, EventOrNone
<1>7. latest.sequence \in Nat \ {0} /\ latest.source \in Time
  BY <1>6 DEF Event
<1>8. CASE run[o].verdict \in Terminal
  BY <1>3, <1>4, <1>6, <1>7, <1>8 DEF SettlementOf, Event
<1>9. CASE run[o].verdict \notin Terminal
  BY <1>2, <1>4, <1>6, <1>7, <1>9 DEF SettlementOf, Event, Unresolved
<1> QED  BY <1>8, <1>9

LEMMA ReservationIsEvent ==
  ASSUME Inv, NEW c \in Credential
  PROVE  LET e == ReservationOf(c) IN
         e \in Event /\ e.state = "reserved" /\ e.source = c.obtainedAt
<1>1. latest \in EventOrNone /\ c.obtainedAt \in Time
  BY DEF Inv, TypeOK, EventOrNone, Credential
<1>2. ReservationOf(c).sequence \in Nat \ {0}
  BY <1>1 DEF ReservationOf, Event, EventOrNone
<1> QED  BY <1>1, <1>2 DEF ReservationOf, Event, Unresolved

LEMMA SettleStep ==
  ASSUME Inv, NEW o \in Op, Settle(o)
  PROVE  Inv'
<1> DEFINE e == SettlementOf(o)
<1>1. /\ latest \in EventOrNone /\ run[o] \in Run /\ RunFits(run[o]) /\ run[o].step = "settle"
      /\ active \in Nat \cup {None} /\ queue \in Op \cup {None} /\ None \notin Event
  BY NoneAssumption DEF Inv, TypeOK, TokensCovered, Settle, At, EventOrNone
<1>4. Follows(latest, e) => e \in Event
  BY <1>1, SettlementIsEvent
<1>5. PICK outcome \in Outcomes(e, now) :
        /\ Append(e, outcome)
        /\ active' = IF outcome = "done" THEN None ELSE active
  BY DEF Settle
<1>6. /\ now' = now /\ issued' = issued /\ crashes' = crashes /\ submitted' = submitted
      /\ keychain' = keychain /\ flying' = flying /\ queue' = queue
  BY DEF Settle, keychainVars, feishuVars
<1>7. OnlyRun(o) /\ RunFits(run'[o]) /\ run'[o].step # "submit"
  BY FinishStep DEF Settle
<1>8. active' \in Nat \cup {None} /\ queue' \in Op \cup {None}
  BY <1>1, <1>5, <1>6
<1> HIDE DEF e
<1> QED  BY <1>4, <1>5, <1>6, <1>7, <1>8, JournalStep

LEMMA ReplaceStep ==
  ASSUME Inv, NEW o \in Op, Replace(o)
  PROVE  Inv'
<1> DEFINE e == [latest EXCEPT !.state = "reauthorization_reserved"]
<1>1. /\ TypeOK /\ latest \in EventOrNone /\ run[o] \in Run /\ RunFits(run[o])
      /\ active \in Nat \cup {None} /\ queue \in Op \cup {None} /\ None \notin Event
      /\ run[o].held # None
  BY NoneAssumption DEF Inv, TypeOK, TokensCovered, EventOrNone, RunFits, Replace, At
<1>2. /\ now' = now /\ issued' = issued /\ crashes' = crashes /\ submitted' = submitted
      /\ keychain' = keychain /\ flying' = flying /\ active' = active
  BY DEF Replace, keychainVars, feishuVars
<1>3. CASE AwaitsReauthorization
  <2>1. latest \in Event /\ latest.state = "reauthorization_required"
    BY <1>1, <1>3 DEF AwaitsReauthorization, EventOrNone
  <2>2. e \in Event /\ e.state = "reauthorization_reserved"
    BY <2>1 DEF Event, Unresolved, Terminal
  <2>3. PICK outcome \in Outcomes(e, now) :
          /\ Append(e, outcome)
          /\ IF outcome = "done"
             THEN queue' = o /\ run' = [run EXCEPT ![o].step = "verify", ![o].seen = e]
             ELSE UNCHANGED queue /\ Finish(o)
    BY <1>3 DEF Replace
  <2> HIDE DEF e
  <2>4. CASE outcome = "done"
    <3>1. OnlyRun(o) /\ run'[o].step = "verify" /\ run'[o].seen = e /\ run'[o].held = run[o].held
      BY <1>1, <2>2, <2>3, <2>4 DEF OnlyRun, Run, Step, TypeOK
    <3>2. RunFits(run'[o])
      BY <1>1, <2>2, <3>1 DEF RunFits
    <3> QED  BY <1>1, <1>2, <2>2, <2>3, <2>4, <3>1, <3>2, JournalStep
  <2>5. CASE outcome # "done"
    <3>1. OnlyRun(o) /\ RunFits(run'[o]) /\ run'[o].step # "submit"
      BY <2>3, <2>5, FinishStep
    <3> QED  BY <1>1, <1>2, <2>2, <2>3, <2>5, <3>1, JournalStep
  <2> QED  BY <2>4, <2>5
<1>4. CASE ~AwaitsReauthorization
  <2>1. Finish(o) /\ UNCHANGED <<disk, latest, loaded, queue>>
    BY <1>4 DEF Replace
  <2>2. UNCHANGED <<now, keychainVars, feishuVars, journalVars, queue, crashes>>
    BY <1>2, <2>1 DEF keychainVars, feishuVars, journalVars
  <2> QED  BY <2>1, <2>2, FinishStep, QuietStep
<1> QED  BY <1>3, <1>4

LEMMA ConfirmStep ==
  ASSUME Inv, NEW o \in Op, Confirm(o)
  PROVE  Inv'
<1> DEFINE e == [run[o].seen EXCEPT !.state = "reauthorized", !.result = run[o].held.obtainedAt]
<1>1. /\ run[o] \in Run /\ RunFits(run[o]) /\ run[o].step = "confirm"
      /\ active \in Nat \cup {None} /\ queue \in Op \cup {None}
  BY DEF Inv, TypeOK, TokensCovered, Confirm, At
<1>2. run[o].seen \in Event /\ run[o].held.obtainedAt \in Time
  BY <1>1 DEF RunFits, Run, Credential
<1>3. e \in Event
  BY <1>2 DEF Event, Terminal
<1>4. PICK outcome \in Outcomes(e, run[o].held.obtainedAt) :
        /\ Append(e, outcome)
        /\ active' = IF outcome = "done" THEN None ELSE active
  BY DEF Confirm
<1>5. /\ now' = now /\ issued' = issued /\ crashes' = crashes /\ submitted' = submitted
      /\ keychain' = keychain /\ flying' = flying /\ queue' = None
  BY DEF Confirm, keychainVars, feishuVars
<1>6. OnlyRun(o) /\ RunFits(run'[o]) /\ run'[o].step # "submit"
  BY FinishStep DEF Confirm
<1>7. active' \in Nat \cup {None} /\ queue' \in Op \cup {None}
  BY <1>1, <1>4, <1>5
<1> HIDE DEF e
<1> QED  BY <1>3, <1>4, <1>5, <1>6, <1>7, JournalStep

\* A token that is about to be sent is covered by its own reservation and, the
\* reservation being accepted, by no earlier event.
LEMMA ReserveStep ==
  ASSUME Inv, NEW o \in Op, Reserve(o)
  PROVE  Inv'
<1> DEFINE c == run[o].held
           e == ReservationOf(c)
<1>1. /\ TypeOK /\ latest \in EventOrNone /\ run[o] \in Run /\ RunFits(run[o])
      /\ active \in Nat \cup {None} /\ queue \in Op \cup {None}
      /\ None \notin Event /\ None \notin Time
  BY NoneAssumption DEF Inv, TypeOK, TokensCovered, EventOrNone
<1>2. c \in Credential /\ c.obtainedAt \in Time
  BY <1>1 DEF Reserve, At, RunFits, Run, Credential
<1>3. e \in Event /\ e.state = "reserved" /\ e.source = c.obtainedAt
  BY <1>2, ReservationIsEvent
<1>4. PICK outcome \in Outcomes(e, now) :
        /\ Append(e, outcome)
        /\ IF outcome = "done"
           THEN /\ active' = e.sequence
                /\ run' = [run EXCEPT ![o].step = "submit", ![o].seen = e]
           ELSE UNCHANGED active /\ Finish(o)
  BY DEF Reserve
<1>5. /\ now' = now /\ issued' = issued /\ crashes' = crashes /\ submitted' = submitted
      /\ keychain' = keychain /\ flying' = flying /\ queue' = queue /\ loaded
  BY DEF Reserve, keychainVars, feishuVars, JournalFree
<1> HIDE DEF e
<1>6. CASE outcome # "done"
  <2>1. OnlyRun(o) /\ RunFits(run'[o]) /\ run'[o].step # "submit"
    BY <1>4, <1>6, FinishStep
  <2> QED  BY <1>1, <1>3, <1>4, <1>5, <1>6, <2>1, JournalStep
<1>7. CASE outcome = "done"
  <2>1. /\ latest' = e /\ Follows(latest, e) /\ JournalKeepsCover
        /\ disk' \in [latest : EventOrNone, tail : {"clean", "torn", "unreadable"}]
    BY <1>1, <1>3, <1>4, <1>7, AppendKeepsCover DEF JournalKeepsCover
  <2>2. OnlyRun(o) /\ run'[o].step = "submit" /\ run'[o].seen = e /\ run'[o].held = c
    BY <1>1, <1>3, <1>4, <1>7 DEF OnlyRun, Run, Step, TypeOK
  <2>3. Spent' \subseteq Spent \cup {c}
    BY <1>5, <2>2 DEF Spent, At, OnlyRun
  <2>4. \A d \in Spent : d # c
    <3> SUFFICES ASSUME c \in Spent PROVE FALSE
      OBVIOUS
    <3>1. Covers(latest, c)
      BY <1>5 DEF Inv, TokensCovered
    <3>2. latest \in Event /\ latest.state \in Terminal /\ e.source >= latest.result
      BY <1>1, <1>3, <2>1, <3>1 DEF Covers, Follows, EventOrNone, NextStates
    <3>3. c.obtainedAt < latest.result /\ latest.result \in Time
      BY <3>1, <3>2 DEF Covers, Event, Terminal, Unresolved
    <3> QED  BY <1>2, <1>3, <3>2, <3>3, BoundsAssumption DEF Time
  <2>5. Covers(e, c)
    BY <1>1, <1>2, <1>3, BoundsAssumption DEF Covers, Terminal, Time
  <2>6. disk'.tail # "unreadable" => Covers(disk'.latest, c)
    <3>1. disk' = WithLine(e)
      BY <1>4, <1>7 DEF Append
    <3> QED  BY <1>1, <2>5, <3>1 DEF WithLine, TypeOK
  <2>7. \A d \in Spent' : /\ loaded' => Covers(latest', d)
                          /\ disk'.tail # "unreadable" => Covers(disk'.latest, d)
    <3>1. \A d \in Spent : /\ Covers(latest', d)
                           /\ disk'.tail # "unreadable" => Covers(disk'.latest, d)
      BY <1>5, <2>1, SpentType DEF Inv, TokensCovered, JournalKeepsCover
    <3> QED  BY <2>1, <2>3, <2>5, <2>6, <3>1
  <2>8. RunFits(run'[o])
    BY <1>1, <1>2, <1>3, <2>2, NoneAssumption DEF RunFits
  <2>9. TokensCovered'
    <3>1. \A p \in Op : RunFits(run'[p])
      BY <2>2, <2>8 DEF OnlyRun, Inv, TokensCovered
    <3>2. \A p \in Op : At(p, "submit")' => loaded'
      BY <1>5, <2>1 DEF JournalKeepsCover
    <3>3. ASSUME NEW p \in Op, NEW q \in Op, At(p, "submit")', At(q, "submit")', p # q
          PROVE  run'[p].held # run'[q].held
      <4>1. \A r \in Op \ {o} : At(r, "submit")' => run'[r] = run[r] /\ At(r, "submit") /\ run[r].held \in Spent
        BY <2>2 DEF OnlyRun, At, Spent
      <4>2. CASE p # o /\ q # o
        BY <3>3, <4>1, <4>2 DEF Inv, TokensCovered
      <4>3. CASE p = o \/ q = o
        BY <2>2, <2>4, <3>3, <4>1, <4>3
      <4> QED  BY <4>2, <4>3
    <3> QED  BY <2>7, <3>1, <3>2, <3>3 DEF TokensCovered
  <2>10. TokenUsedOnce'
    <3>1. c \notin submitted
      BY <2>4 DEF Spent
    <3> QED  BY <1>5, <2>2, <3>1 DEF TokenUsedOnce, Inv, At, OnlyRun
  <2>11. TypeOK'
    BY <1>1, <1>3, <1>4, <1>5, <1>7, <2>1, <2>2 DEF TypeOK, OnlyRun, EventOrNone, JournalKeepsCover, Event
  <2> QED  BY <2>9, <2>10, <2>11 DEF Inv
<1> QED  BY <1>6, <1>7

LEMMA IssuedType ==
  ASSUME TypeOK, Issue
  PROVE  Issued \in Credential /\ issued' \in 1..MaxTokens
<1>1. issued \in 1..MaxTokens /\ now \in Time /\ MaxTokens \in Nat
  BY BoundsAssumption DEF TypeOK
<1>2. issued + 1 \in 1..MaxTokens
  BY <1>1 DEF Issue
<1> QED  BY <1>1, <1>2 DEF Issue, Issued, Credential

\* The token is sent: it moves from those about to be sent to those sent.
LEMMA SubmitStep ==
  ASSUME Inv, NEW o \in Op, Submit(o)
  PROVE  Inv'
<1>1. /\ TypeOK /\ run[o] \in Run /\ RunFits(run[o]) /\ At(o, "submit")
      /\ issued \in 1..MaxTokens /\ None \notin Credential
  BY NoneAssumption DEF Inv, TypeOK, TokensCovered, Submit
<1>2. run[o].held # None /\ run[o].seen # None /\ run[o].held \in Credential
  BY <1>1 DEF RunFits, At, Run
<1>3. OnlyRun(o) /\ RunFits(run'[o]) /\ run'[o].step # "submit" /\ issued' \in 1..MaxTokens
  <2>1. CASE /\ Issue
             /\ run' = [run EXCEPT ![o].step = "store", ![o].held = Issued]
    <3>1. Issued \in Credential /\ issued' \in 1..MaxTokens
      BY <1>1, <2>1, IssuedType
    <3>2. OnlyRun(o) /\ run'[o].step = "store" /\ run'[o].seen = run[o].seen /\ run'[o].held = Issued
      BY <1>1, <2>1, <3>1 DEF OnlyRun, Run, Step, TypeOK
    <3> QED  BY <1>1, <1>2, <3>1, <3>2 DEF RunFits
  <2>2. CASE /\ UNCHANGED issued
             /\ \E verdict \in Endpoint!Settlements : ToSettle(o, verdict)
    <3>1. OnlyRun(o) /\ run'[o].step = "settle" /\ run'[o].seen = run[o].seen
          /\ run'[o].held = run[o].held
          /\ run'[o].verdict \in {"uncertain", "reauthorization_required"}
      <4>1. Endpoint!Settlements \subseteq {"uncertain", "reauthorization_required"}
        BY DEF Endpoint!Settlements, Endpoint!Settlement
      <4>2. PICK verdict \in {"uncertain", "reauthorization_required"} : ToSettle(o, verdict)
        BY <2>2, <4>1
      <4> QED  BY <1>1, <4>2, RunUpdates DEF Unresolved
    <3> QED  BY <1>1, <1>2, <2>2, <3>1 DEF RunFits
  <2> QED  BY <2>1, <2>2 DEF Submit
<1>4. submitted' = submitted \cup {run[o].held} /\ JournalKeepsCover
  BY IdleJournal DEF Submit
<1>5. TokensCovered' /\ TokenUsedOnce'
  BY <1>1, <1>3, <1>4, OneRunStep
<1>6. TypeOK'
  BY <1>1, <1>2, <1>3, <1>4 DEF Submit, TypeOK, OnlyRun, keychainVars, journalVars
<1> QED  BY <1>5, <1>6 DEF Inv

LEMMA WithholdStep ==
  ASSUME Inv, NEW o \in Op, Withhold(o)
  PROVE  Inv'
<1>1. TypeOK /\ RunFits(run[o]) /\ run[o].step = "submit"
  BY DEF Inv, TokensCovered, Withhold, At
<1>2. OnlyRun(o) /\ run'[o].step = "settle" /\ run'[o].seen = run[o].seen
      /\ run'[o].held = run[o].held /\ run'[o].verdict = "uncertain"
  BY <1>1, RunUpdates DEF Withhold, Unresolved
<1>3. RunFits(run'[o])
  BY <1>1, <1>2 DEF RunFits
<1> QED  BY <1>2, <1>3, QuietStep DEF Withhold

\* A step that leaves the journal and what was sent alone.
LEMMA OutsideStep ==
  ASSUME Inv, NEW o \in Op, OnlyRun(o), RunFits(run'[o]), run'[o].step # "submit",
         UNCHANGED <<now, submitted, journalVars, crashes>>,
         keychain' \in Credential, flying' \subseteq Credential,
         issued' \in 1..MaxTokens, queue' \in Op \cup {None}
  PROVE  Inv'
<1>1. JournalKeepsCover
  BY IdleJournal
<1>2. TokensCovered' /\ TokenUsedOnce'
  BY <1>1, OneRunStep
<1>3. TypeOK'
  BY DEF Inv, TypeOK, OnlyRun, journalVars
<1> QED  BY <1>2, <1>3 DEF Inv

LEMMA WriteType ==
  ASSUME TypeOK, NEW c \in Credential, Written(c) \/ NotWritten \/ WriteUncertain(c)
  PROVE  keychain' \in Credential /\ flying' \subseteq Credential
BY DEF TypeOK, Written, NotWritten, MayBeWritten, WriteUncertain, keychainVars

LEMMA StoreStep ==
  ASSUME Inv, NEW o \in Op, Store(o)
  PROVE  Inv'
<1>1. /\ TypeOK /\ RunFits(run[o]) /\ run[o].step = "store" /\ run[o] \in Run
      /\ issued \in 1..MaxTokens /\ queue \in Op \cup {None}
  BY DEF Inv, TypeOK, TokensCovered, Store, At
<1>2. run[o].held \in Credential /\ run[o].held # None /\ run[o].seen # None
  BY <1>1 DEF RunFits, Run
<1>3. keychain' \in Credential /\ flying' \subseteq Credential
  BY <1>1, <1>2, WriteType DEF Store
<1>4. OnlyRun(o) /\ run'[o].step = "settle" /\ run'[o].seen = run[o].seen
      /\ run'[o].held = run[o].held /\ run'[o].verdict \in {"completed", "uncertain"}
  BY <1>1, RunUpdates DEF Store, Terminal, Unresolved
<1>5. RunFits(run'[o])
  BY <1>2, <1>4 DEF RunFits, Terminal
<1> QED  BY <1>1, <1>3, <1>4, <1>5, OutsideStep DEF Store, feishuVars

LEMMA ExchangeStep ==
  ASSUME Inv, NEW o \in Op, Exchange(o)
  PROVE  Inv'
<1>1. /\ TypeOK /\ run[o] \in Run /\ RunFits(run[o]) /\ None \notin Credential
      /\ keychain \in Credential /\ flying \subseteq Credential
      /\ issued \in 1..MaxTokens /\ queue \in Op \cup {None}
  BY NoneAssumption DEF Inv, TypeOK, TokensCovered
<1>2. OnlyRun(o) /\ RunFits(run'[o]) /\ run'[o].step # "submit" /\ issued' \in 1..MaxTokens
  <2>1. CASE Issue /\ run' = [run EXCEPT ![o].step = "replace", ![o].held = Issued]
    <3>1. Issued \in Credential /\ issued' \in 1..MaxTokens
      BY <1>1, <2>1, IssuedType
    <3>2. OnlyRun(o) /\ run'[o].step = "replace" /\ run'[o].held = Issued
      BY <1>1, <2>1, <3>1 DEF OnlyRun, Run, Step, TypeOK
    <3> QED  BY <1>1, <3>1, <3>2 DEF RunFits
  <2>2. CASE Finish(o) /\ UNCHANGED issued
    BY <1>1, <2>2, FinishStep
  <2> QED  BY <2>1, <2>2 DEF Exchange
<1> QED  BY <1>1, <1>2, OutsideStep DEF Exchange, keychainVars

LEMMA VerifyStep ==
  ASSUME Inv, NEW o \in Op, Verify(o) \/ Write(o)
  PROVE  Inv'
<1>1. /\ TypeOK /\ run[o] \in Run /\ RunFits(run[o]) /\ run[o].step \in {"verify", "write"}
      /\ keychain \in Credential /\ flying \subseteq Credential
      /\ issued \in 1..MaxTokens /\ queue \in Op \cup {None}
  BY DEF Inv, TypeOK, TokensCovered, Verify, Write, At
<1>2. /\ run[o].held \in Credential /\ run[o].held # None /\ run[o].seen # None
      /\ run[o].seen.state = "reauthorization_reserved"
  BY <1>1 DEF RunFits, Run
<1>3. ASSUME NEW s \in {"write", "confirm", "restore"}, Goto(o, s)
      PROVE  OnlyRun(o) /\ RunFits(run'[o]) /\ run'[o].step # "submit"
  <2>1. OnlyRun(o) /\ run'[o].step = s /\ run'[o].seen = run[o].seen /\ run'[o].held = run[o].held
    BY <1>1, <1>3 DEF Goto, OnlyRun, Run, Step, TypeOK
  <2> QED  BY <1>2, <2>1 DEF RunFits
<1>4. OnlyRun(o) /\ RunFits(run'[o]) /\ run'[o].step # "submit" /\ queue' \in Op \cup {None}
  BY <1>1, <1>3, FinishStep DEF Verify, Write, GiveWay
<1>5. keychain' \in Credential /\ flying' \subseteq Credential
  <2>1. CASE Verify(o)
    BY <1>1, <2>1 DEF Verify, keychainVars
  <2>2. CASE Write(o)
    BY <1>1, <1>2, <2>2, WriteType DEF Write
  <2> QED  BY <2>1, <2>2
<1>6. UNCHANGED <<now, submitted, journalVars, crashes>> /\ issued' = issued
  BY DEF Verify, Write, feishuVars
<1> QED  BY <1>1, <1>4, <1>5, <1>6, OutsideStep

(***************************************************************************)
(* The environment, and the theorems                                       *)
(***************************************************************************)

LEMMA LandStep ==
  ASSUME Inv, NEW c \in flying, Land(c)
  PROVE  Inv'
<1>1. keychain' \in Credential /\ flying' \subseteq Credential
  BY DEF Inv, TypeOK, Land
<1>2. UNCHANGED <<now, submitted, issued, disk, latest, active, loaded, queue, run, crashes>>
  BY DEF Land, feishuVars, journalVars
<1> QED  BY <1>1, <1>2 DEF Inv, TypeOK, TokensCovered, TokenUsedOnce, Spent, At

LEMMA ClockStep ==
  ASSUME Inv, SetClock
  PROVE  Inv'
<1>1. now' \in Time
  BY DEF SetClock
<1>2. UNCHANGED <<keychain, flying, submitted, issued, disk, latest, active, loaded, queue, run, crashes>>
  BY DEF SetClock, keychainVars, feishuVars, journalVars
<1> QED  BY <1>1, <1>2 DEF Inv, TypeOK, TokensCovered, TokenUsedOnce, Spent, At

\* What the next process loads covers every token that was sent.
LEMMA CrashStep ==
  ASSUME Inv, Crash
  PROVE  Inv'
<1>1. /\ run \in [Op -> Run] /\ disk \in [latest : EventOrNone, tail : {"clean", "torn", "unreadable"}]
      /\ flying \subseteq Credential /\ crashes \in 0..MaxCrashes /\ MaxCrashes \in Nat
      /\ \A o \in Op : RunFits(run[o])
  BY BoundsAssumption DEF Inv, TypeOK, TokensCovered, EventOrNone
<1>2. run' \in [Op -> Run] /\ \A o \in Op : run'[o] = NoRun
  BY NoRunFits DEF Crash
<1>3. Spent' = submitted /\ submitted \subseteq Spent
  BY <1>2, NoRunFits DEF Spent, At, Crash, feishuVars
<1>4. /\ latest' \in EventOrNone /\ loaded' \in BOOLEAN
      /\ disk' \in [latest : EventOrNone, tail : {"clean", "torn", "unreadable"}]
      /\ loaded' => disk.tail # "unreadable" /\ latest' = disk.latest
      /\ disk'.latest = disk.latest
      /\ disk'.tail # "unreadable" => disk.tail # "unreadable"
  BY <1>1 DEF Crash, Load, EventOrNone
<1>5. TokensCovered'
  <2>1. \A c \in Spent' : /\ loaded' => Covers(latest', c)
                          /\ disk'.tail # "unreadable" => Covers(disk'.latest, c)
    BY <1>3, <1>4 DEF Inv, TokensCovered
  <2>2. \A o \in Op : RunFits(run'[o]) /\ ~At(o, "submit")'
    BY <1>2, NoRunFits DEF At
  <2> QED  BY <2>1, <2>2 DEF TokensCovered
<1>6. TokenUsedOnce'
  BY <1>2, NoRunFits DEF TokenUsedOnce, At
<1>7. flying' \subseteq Credential
  BY <1>1 DEF Crash, At, RunFits, Run
<1>8. TypeOK'
  <2>1. crashes' \in 0..MaxCrashes
    BY <1>1 DEF Crash
  <2> QED  BY <1>2, <1>4, <1>7, <2>1 DEF Crash, Inv, TypeOK, feishuVars, EventOrNone
<1> QED  BY <1>5, <1>6, <1>8 DEF Inv

LEMMA InitInv == Init => Inv
<1> SUFFICES ASSUME Init PROVE Inv
  OBVIOUS
<1>1. run \in [Op -> Run] /\ \A o \in Op : run[o] = NoRun
  BY NoRunFits DEF Init
<1>2. keychain \in Credential
  BY BoundsAssumption DEF Init, Credential, Time
<1>3. TypeOK
  BY <1>1, <1>2, BoundsAssumption DEF Init, TypeOK, Time
<1>4. Spent = {}
  BY <1>1, NoRunFits DEF Spent, At, Init
<1>5. TokensCovered /\ TokenUsedOnce
  BY <1>1, <1>4, NoRunFits DEF TokensCovered, TokenUsedOnce, At
<1> QED  BY <1>3, <1>5 DEF Inv

LEMMA InvStep == Inv /\ [Next]_vars => Inv'
<1> SUFFICES ASSUME Inv, [Next]_vars PROVE Inv'
  OBVIOUS
<1>1. ASSUME NEW o \in Op, Proceed(o) PROVE Inv'
  BY <1>1, ReadSteps, ReserveStep, SubmitStep, WithholdStep, StoreStep, ExchangeStep,
     ReplaceStep, VerifyStep, ConfirmStep, SettleStep DEF Proceed
<1>2. CASE UNCHANGED vars
  BY <1>2 DEF vars, Inv, TypeOK, TokensCovered, TokenUsedOnce, Spent, At
<1> QED  BY <1>1, <1>2, StartSteps, LandStep, CrashStep, ClockStep DEF Next

\* Every variable of the rotation keeps its type.
THEOREM TypeCorrect == Spec => []TypeOK
BY InitInv, InvStep, PTL DEF Spec, Inv

\* The journal covers every token that was or is about to be sent: the
\* inductive invariant.
THEOREM AlwaysCovered == Spec => []TokensCovered
BY InitInv, InvStep, PTL DEF Spec, Inv

\* However many operations run, whenever the process stops, wherever the
\* clock is set and whatever a failed append leaves in the file, no refresh
\* token is sent twice.
THEOREM NeverSentTwice == Spec => []TokenUsedOnce
BY InitInv, InvStep, PTL DEF Spec, Inv

(***************************************************************************)
(* The Keychain                                                            *)
(***************************************************************************)

Writing == {"store", "write"}

\* Credentials that are being written, or may still be.
Pending == flying \cup {run[o].held : o \in {p \in Op : run[p].step \in Writing}}

InProgress == {"reserved", "uncertain", "reauthorization_reserved"}

\* What an event of the journal says of the Keychain: a resolved rotation has
\* left the credential it names there, and nothing else is on its way; while a
\* rotation is in progress, one newer credential may be on its way or arrive.
KeychainFits(e) ==
  /\ e = None => keychain.obtainedAt = 0
  /\ e # None /\ e.state \in Terminal => keychain.obtainedAt = e.result
  /\ Blocked(e) => keychain.obtainedAt >= e.source
  /\ e # None /\ e.state = "reauthorization_required" => keychain.obtainedAt = e.source
  /\ Pending # {} => e # None /\ e.state \in InProgress /\ keychain.obtainedAt = e.source

Replacing == {"verify", "write", "confirm"}

\* An operation on whose work the state of the latest event depends.
Owner(o) ==
  \/ run[o].step \in {"submit", "store", "restore"} \cup Replacing
  \/ run[o].step = "settle" /\ run[o].verdict = "reauthorization_required"

SameRotation(e, o) ==
  e # None /\ e.sequence = run[o].seen.sequence /\ e.source = run[o].seen.source

\* How far an owner is: what the journal holds of its rotation, in memory and,
\* before something is written, in the file, and what the Keychain holds.
OwnerFits(o) ==
  /\ flying = {} /\ SameRotation(latest, o) /\ latest.state \in InProgress
  /\ run[o].step \in {"submit", "store"} => latest.state \in {"reserved", "uncertain"}
  /\ run[o].step = "submit" =>
       /\ run[o].held.obtainedAt = latest.source
       /\ disk.tail # "unreadable" =>
            SameRotation(disk.latest, o) /\ disk.latest.state \in {"reserved", "uncertain"}
  /\ run[o].step \in Replacing =>
       /\ queue = o /\ latest.state = "reauthorization_reserved" /\ latest = run[o].seen
       /\ disk.tail # "unreadable" => disk.latest = latest
  /\ run[o].step = "restore" => latest.state = "reauthorization_reserved"
  /\ run[o].step \in {"submit", "verify", "restore", "settle"} =>
       keychain.obtainedAt = latest.source
  /\ run[o].step = "confirm" => keychain = run[o].held

\* A credential that was read from the Keychain, or written to it, is in there
\* or not newer than the latest rotation.
WasStored(c) ==
  /\ c.obtainedAt <= keychain.obtainedAt
  /\ Blocked(latest) => c.obtainedAt <= latest.source \/ c.obtainedAt = keychain.obtainedAt

Relies(o) ==
  \/ run[o].step \in {"decide", "reserve", "recheck"}
  \/ run[o].step = "settle" /\ run[o].verdict \in Terminal

JournalFits ==
  /\ loaded => KeychainFits(latest)
  /\ disk.tail # "unreadable" => KeychainFits(disk.latest)

WritesFit == \A c, d \in Pending : c = d /\ c.obtainedAt > keychain.obtainedAt

OwnersFit ==
  /\ \A o \in Op : Owner(o) => OwnerFits(o)
  /\ \A o, p \in Op : Owner(o) /\ Owner(p) => o = p
  /\ \A o \in Op : queue = o => run[o].step \in Replacing

ReadsFit ==
  /\ \A o \in Op : run[o].step # "idle" => loaded
  /\ \A o \in Op : Relies(o) => WasStored(run[o].held)

\* The inductive invariant of the Keychain.
RotationsFit == JournalFits /\ WritesFit /\ OwnersFit /\ ReadsFit

KInv == Inv /\ RotationsFit

LEMMA Types ==
  ASSUME KInv
  PROVE  /\ TypeOK /\ latest \in EventOrNone /\ disk.latest \in EventOrNone
         /\ keychain \in Credential /\ keychain.obtainedAt \in Nat
         /\ flying \subseteq Credential /\ None \notin Event /\ None \notin Credential
         /\ None \notin Time /\ None \notin Op
         /\ run \in [Op -> Run] /\ \A o \in Op : run[o] \in Run /\ RunFits(run[o])
<1>1. TypeOK /\ TokensCovered
  BY DEF KInv, Inv
<1>2. keychain \in Credential /\ keychain.obtainedAt \in Nat
  BY <1>1, BoundsAssumption DEF TypeOK, Credential, Time
<1> QED BY <1>1, <1>2, NoneAssumption DEF TypeOK, TokensCovered, EventOrNone

\* The numbers of an event and of a credential.
LEMMA EventNumbers ==
  /\ \A e \in Event : /\ e.source \in Nat /\ e.sequence \in Nat /\ e.state \in Terminal \cup Unresolved
                      /\ e.state \in Terminal => e.result \in Nat
  /\ \A c \in Credential : c.obtainedAt \in Nat
  /\ Terminal \cap Unresolved = {} /\ InProgress \subseteq Unresolved
<1>1. Terminal \cap Unresolved = {} /\ InProgress \subseteq Unresolved
  BY DEF Terminal, Unresolved, InProgress
<1> QED BY <1>1, BoundsAssumption DEF Event, Credential, Time

\* A credential stays pending unless an operation begins or ends a write.
LEMMA PendingStays ==
  ASSUME KInv, NEW o \in Op, OnlyRun(o), flying' = flying,
         run[o].step \notin Writing, run'[o].step \notin Writing
  PROVE  Pending' = Pending
<1>1. \A p \in Op : /\ run'[p].step \in Writing <=> run[p].step \in Writing
                    /\ run[p].step \in Writing => run'[p].held = run[p].held
  BY DEF OnlyRun
<1> QED BY <1>1 DEF Pending

\* A step of one operation that is not about to write, which changes neither
\* the journal nor the Keychain.
LEMMA LocalFits ==
  ASSUME KInv, NEW o \in Op, OnlyRun(o),
         UNCHANGED <<keychain, flying, disk, latest, loaded, queue>>,
         run[o].step \notin Writing \cup Replacing, run'[o].step \notin Writing \cup Replacing,
         run'[o].step # "submit", loaded,
         Owner(o)' => Owner(o) /\ OwnerFits(o)',
         Relies(o)' => WasStored(run'[o].held)
  PROVE  RotationsFit'
<1> USE DEF KInv, RotationsFit
<1>1. Pending' = Pending
  BY PendingStays DEF Replacing
<1>2. JournalFits' /\ WritesFit'
  BY <1>1 DEF JournalFits, WritesFit, KeychainFits
<1>3. \A p \in Op \ {o} : /\ Owner(p)' <=> Owner(p)
                          /\ OwnerFits(p) => OwnerFits(p)'
                          /\ Relies(p)' <=> Relies(p)
                          /\ run'[p] = run[p]
  BY DEF OnlyRun, Owner, OwnerFits, Relies, SameRotation
<1>4. OwnersFit'
  BY <1>3 DEF OwnersFit
<1>5. ReadsFit'
  BY <1>3 DEF ReadsFit, WasStored
<1> QED BY <1>2, <1>4, <1>5

LEMMA FinishLocal ==
  ASSUME KInv, NEW o \in Op, Finish(o)
  PROVE  OnlyRun(o) /\ run'[o].step = "idle" /\ ~Owner(o)' /\ ~Relies(o)'
<1>1. OnlyRun(o) /\ run'[o] = NoRun
  BY RunUpdates, Types
<1> QED BY <1>1 DEF NoRun, Owner, Relies, Replacing

\* What obtaining or reading a credential does to the run of an operation.
LEMMA TakesCredential ==
  ASSUME TypeOK, NEW o \in Op, NEW s \in Step, NEW c \in Credential,
         run' = [run EXCEPT ![o].step = s, ![o].held = c]
  PROVE  OnlyRun(o) /\ run'[o].step = s /\ run'[o].held = c /\ run'[o].seen = run[o].seen
<1>1. run \in [Op -> Run] /\ run[o] \in Run
  BY DEF TypeOK
<1>2. run'[o] = [run[o] EXCEPT !.step = s, !.held = c] /\ \A p \in Op \ {o} : run'[p] = run[p]
  BY <1>1
<1>3. run'[o] \in Run /\ run'[o].step = s /\ run'[o].held = c /\ run'[o].seen = run[o].seen
  BY <1>1, <1>2 DEF Run
<1> QED BY <1>1, <1>2, <1>3 DEF OnlyRun

LEMMA StartFits ==
  ASSUME KInv, NEW o \in Op, Start(o)
  PROVE  RotationsFit'
<1>1. /\ run[o].step = "idle" /\ loaded
      /\ UNCHANGED <<keychain, flying, disk, latest, loaded, queue>>
  BY DEF Start, StartRefresh, StartReauthorization, StartReconciliation, At, JournalFree,
         keychainVars, journalVars
<1>2. OnlyRun(o) /\ run'[o].step \in {"read", "exchange", "evidence"}
  <2>1. ASSUME NEW s \in {"read", "evidence"}, Set(o, [NoRun EXCEPT !.step = s, !.seen = latest])
        PROVE  OnlyRun(o) /\ run'[o].step = s
    <3>1. run \in [Op -> Run] /\ latest \in EventOrNone
      BY Types
    <3>2. [NoRun EXCEPT !.step = s, !.seen = latest] \in Run
      BY <3>1 DEF NoRun, Run, Step, EventOrNone
    <3>3. [NoRun EXCEPT !.step = s, !.seen = latest].step = s
      BY DEF NoRun
    <3> QED BY <2>1, <3>1, <3>2, <3>3 DEF Set, OnlyRun
  <2>2. CASE StartReauthorization(o)
    BY <2>2, RunUpdates, Types DEF StartReauthorization, Step
  <2> QED BY <2>1, <2>2 DEF Start, StartRefresh, StartReconciliation
<1> QED BY <1>1, <1>2, LocalFits DEF Owner, Relies, Writing, Replacing

LEMMA ReadFits ==
  ASSUME KInv, NEW o \in Op,
         ReadCredential(o) \/ Decide(o) \/ ReadEvidence(o) \/ Recheck(o) \/ Restore(o) \/ GiveUp(o)
  PROVE  RotationsFit'
<1>1. /\ UNCHANGED <<keychain, flying, disk, latest, loaded, queue>>
      /\ run[o].step \in {"read", "decide", "evidence", "recheck", "restore", "exchange", "replace"}
  BY DEF ReadCredential, Decide, ReadEvidence, Recheck, Restore, GiveUp, At, keychainVars, journalVars
<1>2. loaded /\ TypeOK /\ run \in [Op -> Run] /\ run[o] \in Run /\ keychain \in Credential
  BY <1>1, Types DEF KInv, RotationsFit, ReadsFit
<1>3. ASSUME OnlyRun(o), run'[o].step \in {"idle", "decide", "reserve", "recheck", "settle"},
             run'[o].step = "settle" /\ run[o].step # "restore" => run'[o].verdict \in {"uncertain"} \cup Terminal,
             run'[o].step = "settle" /\ run[o].step = "restore" =>
               run'[o].verdict = "reauthorization_required" /\ run'[o].seen = run[o].seen,
             Relies(o)' => run'[o].held = keychain \/ (Relies(o) /\ run'[o].held = run[o].held)
      PROVE  RotationsFit'
  <2>1. WasStored(keychain)
    BY Types DEF WasStored
  <2>2. Relies(o)' => WasStored(run'[o].held)
    BY <1>3, <2>1 DEF KInv, RotationsFit, ReadsFit
  <2>3. Owner(o)' => Owner(o) /\ OwnerFits(o)'
    <3>1. SUFFICES ASSUME Owner(o)' PROVE Owner(o) /\ OwnerFits(o)'
      OBVIOUS
    <3>2. run'[o].step = "settle" /\ run[o].step = "restore" /\ run'[o].seen = run[o].seen
      BY <1>3, <3>1 DEF Owner, Replacing, Terminal
    <3>3. Owner(o) /\ OwnerFits(o)
      BY <3>2 DEF Owner, KInv, RotationsFit, OwnersFit
    <3> QED BY <1>1, <3>2, <3>3 DEF OwnerFits, SameRotation, Replacing
  <2> QED BY <1>1, <1>2, <1>3, <2>2, <2>3, LocalFits DEF Writing, Replacing
<1>4. CASE ReadCredential(o)
  <2>1. OnlyRun(o) /\ run'[o].step = "decide" /\ run'[o].held = keychain
    BY <1>2, <1>4, TakesCredential DEF ReadCredential, Step
  <2> QED BY <1>3, <2>1
<1>5. Finish(o) => RotationsFit'
  BY <1>3, FinishLocal
<1>6. CASE ReadEvidence(o) /\ ~Finish(o)
  <2>1. OnlyRun(o) /\ run'[o].step = "recheck" /\ run'[o].held = keychain
    <3>1. run' = [run EXCEPT ![o].step = "recheck", ![o].held = keychain]
      BY <1>6 DEF ReadEvidence
    <3>2. "recheck" \in Step
      BY DEF Step
    <3> QED BY <1>2, <3>1, <3>2, TakesCredential
  <2> QED BY <1>3, <2>1
<1>7. \A e : Resolution(e) \in Terminal
  BY DEF Resolution, Terminal
<1>8. CASE run[o].step \in {"decide", "recheck"} /\ \E v \in {"uncertain"} \cup Terminal : ToSettle(o, v)
  <2>1. PICK v \in {"uncertain"} \cup Terminal : ToSettle(o, v)
    BY <1>8
  <2>2. OnlyRun(o) /\ run'[o].step = "settle" /\ run'[o].verdict = v /\ run'[o].held = run[o].held
    BY <1>2, <2>1, RunUpdates DEF Unresolved
  <2> QED BY <1>3, <1>8, <2>2 DEF Relies
<1>9. CASE run[o].step = "decide" /\ Goto(o, "reserve")
  <2>1. OnlyRun(o) /\ run'[o].step = "reserve" /\ run'[o].held = run[o].held
    BY <1>2, <1>9, RunUpdates DEF Step
  <2> QED BY <1>3, <1>9, <2>1 DEF Relies
<1>10. CASE run[o].step = "restore" /\ ToSettle(o, "reauthorization_required")
  <2>1. OnlyRun(o) /\ run'[o].step = "settle" /\ run'[o].verdict = "reauthorization_required"
        /\ run'[o].seen = run[o].seen
    BY <1>2, <1>10, RunUpdates DEF Unresolved
  <2>2. ~Relies(o)'
    BY <2>1 DEF Relies, Terminal
  <2> QED BY <1>3, <1>10, <2>1, <2>2
<1>11. CASE Decide(o) \/ Recheck(o)
  <2>1. Finish(o) \/ (\E v \in {"uncertain"} \cup Terminal : ToSettle(o, v)) \/ (At(o, "decide") /\ Goto(o, "reserve"))
    BY <1>7, <1>11 DEF Decide, Recheck
  <2> QED BY <1>5, <1>8, <1>9, <1>11, <2>1 DEF Decide, Recheck, At
<1>12. CASE Restore(o)
  BY <1>5, <1>10, <1>12 DEF Restore, At
<1> QED BY <1>4, <1>5, <1>6, <1>11, <1>12 DEF GiveUp

\* The request is withheld, or sent without an answer that brings a credential.
LEMMA UnansweredFits ==
  ASSUME KInv, NEW o \in Op, Submit(o) \/ Withhold(o), run'[o].step # "store"
  PROVE  RotationsFit'
<1>1. /\ UNCHANGED <<keychain, flying, disk, latest, loaded, queue>>
      /\ run[o].step = "submit"
  BY DEF Submit, Withhold, At, keychainVars, journalVars
<1>2. loaded /\ TypeOK /\ run \in [Op -> Run] /\ run[o] \in Run
  BY <1>1, Types DEF KInv, RotationsFit, ReadsFit
<1>3. PICK v \in {"uncertain", "reauthorization_required"} : ToSettle(o, v)
  <2>1. Endpoint!Settlements \subseteq {"uncertain", "reauthorization_required"}
    BY DEF Endpoint!Settlements, Endpoint!Settlement
  <2>2. run' = [run EXCEPT ![o].step = "store", ![o].held = Issued] => run'[o].step = "store"
    <3> SUFFICES ASSUME run' = [run EXCEPT ![o].step = "store", ![o].held = Issued]
                 PROVE  run'[o].step = "store"
      OBVIOUS
    <3>1. run'[o] = [run[o] EXCEPT !.step = "store", !.held = Issued]
      BY <1>2
    <3> QED BY <1>2, <3>1 DEF Run
  <2> QED BY <2>1, <2>2 DEF Submit, Withhold
<1>4. OnlyRun(o) /\ run'[o].step = "settle" /\ run'[o].seen = run[o].seen /\ run'[o].verdict = v
  BY <1>2, <1>3, RunUpdates DEF Unresolved
<1>5. Owner(o) /\ OwnerFits(o)
  BY <1>1 DEF Owner, KInv, RotationsFit, OwnersFit
<1>6. OwnerFits(o)'
  BY <1>1, <1>4, <1>5 DEF OwnerFits, SameRotation, Replacing
<1>7. ~Relies(o)'
  BY <1>4 DEF Relies, Terminal
<1> QED BY <1>1, <1>2, <1>4, <1>5, <1>6, <1>7, LocalFits DEF Writing, Replacing

(***************************************************************************)
(* Writing to the Keychain                                                 *)
(***************************************************************************)

LEMMA OwnersHold ==
  ASSUME KInv, NEW o \in Op, Owner(o)
  PROVE  /\ OwnerFits(o) /\ loaded /\ KeychainFits(latest) /\ latest \in Event /\ latest.source \in Nat
         /\ \A p \in Op : Owner(p) => p = o
         /\ Pending \subseteq {run[o].held} /\ (run[o].step \notin Writing => Pending = {})
         /\ queue = IF run[o].step \in Replacing THEN o ELSE None
<1>1. OwnerFits(o) /\ \A p \in Op : Owner(p) => p = o
  BY DEF KInv, RotationsFit, OwnersFit
<1>2. run[o].step # "idle"
  BY DEF Owner, Replacing
<1>3. loaded /\ KeychainFits(latest)
  BY <1>2 DEF KInv, RotationsFit, ReadsFit, JournalFits
<1>4. latest \in Event /\ latest.source \in Nat
  BY <1>1, Types, EventNumbers DEF OwnerFits, SameRotation, EventOrNone
<1>5. \A p \in Op : run[p].step \in Writing => Owner(p)
  BY DEF Writing, Owner, Replacing
<1>6. flying = {}
  BY <1>1 DEF OwnerFits
<1>7. queue = IF run[o].step \in Replacing THEN o ELSE None
  <2>1. \A p \in Op : queue = p => run[p].step \in Replacing /\ Owner(p)
    BY DEF KInv, RotationsFit, OwnersFit, Owner
  <2>2. queue \in Op \cup {None} /\ None \notin Op
    BY Types DEF TypeOK
  <2>3. run[o].step \in Replacing => queue = o
    BY <1>1 DEF OwnerFits
  <2> QED BY <1>1, <2>1, <2>2, <2>3
<1> QED BY <1>1, <1>3, <1>4, <1>5, <1>6, <1>7 DEF Pending

\* The only pending credential of an owner is the one it writes, a newer one.
LEMMA OwnersWrite ==
  ASSUME KInv, NEW o \in Op, run[o].step \in Writing
  PROVE  /\ Owner(o) /\ run[o].held \in Credential /\ Pending = {run[o].held} /\ flying = {}
         /\ run[o].held.obtainedAt > keychain.obtainedAt
<1>1. Owner(o)
  BY DEF Owner, Writing, Replacing
<1>2. run[o].held \in Pending
  BY DEF Pending
<1>3. run[o].held \in Credential
  BY Types DEF RunFits, Run, Writing
<1> QED BY <1>1, <1>2, <1>3, OwnersHold DEF OwnerFits, KInv, RotationsFit, WritesFit

\* Once a newer credential is on its way, the events that allow that stay true.
LEMMA WriteBegins ==
  ASSUME KInv, NEW o \in Op, Owner(o), OnlyRun(o), run[o].step \in {"submit", "verify"},
         run'[o].step \in Writing, run'[o].held.obtainedAt > keychain.obtainedAt,
         UNCHANGED <<keychain, flying, disk, latest, loaded>>
  PROVE  JournalFits' /\ WritesFit' /\ Pending' = {run'[o].held}
<1>1. OwnerFits(o) /\ Pending = {} /\ flying = {} /\ KeychainFits(latest) /\ latest.source = keychain.obtainedAt
  BY OwnersHold DEF Writing, OwnerFits
<1>2. Pending' = {run'[o].held}
  <2>1. \A p \in Op : run'[p].step \in Writing <=> p = o
    BY <1>1 DEF OnlyRun, Pending
  <2> QED BY <1>1, <2>1 DEF Pending
<1>3. WritesFit'
  BY <1>2 DEF WritesFit
<1>4. KeychainFits(latest)'
  BY <1>1, <1>2 DEF OwnerFits, SameRotation, KeychainFits
<1>5. disk.tail # "unreadable" => KeychainFits(disk.latest)'
  <2> SUFFICES ASSUME disk.tail # "unreadable" PROVE KeychainFits(disk.latest)'
    OBVIOUS
  <2>1. KeychainFits(disk.latest)
    BY DEF KInv, RotationsFit, JournalFits
  <2>2. /\ disk.latest # None /\ disk.latest.state \in InProgress
        /\ disk.latest.source = keychain.obtainedAt
    BY <1>1 DEF OwnerFits, SameRotation, Replacing, InProgress
  <2> QED BY <1>2, <2>1, <2>2 DEF KeychainFits
<1> QED BY <1>2, <1>3, <1>4, <1>5 DEF JournalFits

\* The owner is the only one whose state must still be shown to fit.
LEMMA OthersFit ==
  ASSUME KInv, NEW o \in Op, Owner(o), OnlyRun(o), OwnerFits(o)' \/ ~Owner(o)',
         queue' = IF run'[o].step \in Replacing THEN o ELSE None,
         loaded' = loaded
  PROVE  OwnersFit' /\ \A p \in Op : run'[p].step # "idle" => loaded'
<1>1. \A p \in Op \ {o} : ~Owner(p)' /\ run'[p] = run[p]
  BY OwnersHold DEF OnlyRun, Owner
<1>2. loaded
  BY OwnersHold
<1> QED BY <1>1, <1>2, Types DEF OwnersFit

\* A credential read before goes on to be in the Keychain, or old.
LEMMA StoredStays ==
  ASSUME KInv, NEW o \in Op, OnlyRun(o), latest' = latest, loaded' = loaded, loaded,
         UNCHANGED keychain \/ (Pending # {} /\ keychain'.obtainedAt > keychain.obtainedAt
                                  /\ keychain' \in Credential),
         Relies(o)' => WasStored(run[o].held)'
  PROVE  \A p \in Op : Relies(p)' => WasStored(run[p].held)'
<1>1. ASSUME NEW c \in Credential, WasStored(c)
      PROVE  WasStored(c)'
  <2>1. c.obtainedAt \in Nat /\ KeychainFits(latest)
    BY EventNumbers DEF KInv, RotationsFit, JournalFits
  <2>2. CASE UNCHANGED keychain
    BY <1>1, <2>2 DEF WasStored
  <2>3. CASE /\ Pending # {} /\ keychain'.obtainedAt > keychain.obtainedAt
             /\ keychain' \in Credential
    <3>1. keychain.obtainedAt = latest.source
      BY <2>1, <2>3 DEF KeychainFits
    <3>2. keychain.obtainedAt \in Nat /\ keychain'.obtainedAt \in Nat
      BY <2>3, Types, EventNumbers
    <3> QED BY <1>1, <2>1, <2>3, <3>1, <3>2 DEF WasStored
  <2> QED BY <2>2, <2>3
<1>2. \A p \in Op : Relies(p) => run[p].held \in Credential
  BY Types DEF Relies, RunFits, Run
<1>3. \A p \in Op \ {o} : run'[p] = run[p] /\ (Relies(p)' <=> Relies(p))
  BY DEF OnlyRun, Relies
<1>4. \A p \in Op : Relies(p) => WasStored(run[p].held)
  BY DEF KInv, RotationsFit, ReadsFit
<1> QED BY <1>1, <1>2, <1>3, <1>4 DEF WasStored

LEMMA AnsweredFits ==
  ASSUME KInv, NEW o \in Op, Submit(o), run'[o].step = "store"
  PROVE  RotationsFit'
<1>1. /\ UNCHANGED <<keychain, flying, disk, latest, loaded, queue>>
      /\ run[o].step = "submit" /\ TypeOK
  BY Types DEF Submit, At, keychainVars, journalVars
<1>2. /\ Issue /\ now > run[o].held.obtainedAt
      /\ run' = [run EXCEPT ![o].step = "store", ![o].held = Issued]
  <2>1. \A v \in Endpoint!Settlements : ToSettle(o, v) => run'[o].step # "store"
    <3>1. Endpoint!Settlements \subseteq Terminal \cup Unresolved
      BY DEF Endpoint!Settlements, Endpoint!Settlement, Unresolved
    <3> QED BY <1>1, <3>1, RunUpdates
  <2> QED BY <2>1 DEF Submit
<1>3. /\ OnlyRun(o) /\ run'[o].step = "store" /\ run'[o].held = Issued
      /\ run'[o].seen = run[o].seen
  <2>1. Issued \in Credential /\ "store" \in Step
    BY <1>1, <1>2, IssuedType DEF Step
  <2> QED BY <1>1, <1>2, <2>1, TakesCredential
<1>4. Owner(o) /\ OwnerFits(o)
  BY <1>1, OwnersHold DEF Owner
<1>5. run'[o].held.obtainedAt > keychain.obtainedAt
  BY <1>1, <1>2, <1>3, <1>4 DEF OwnerFits, Issued
<1>6. JournalFits' /\ WritesFit'
  BY <1>1, <1>3, <1>4, <1>5, WriteBegins DEF Writing
<1>7. OwnerFits(o)'
  BY <1>1, <1>3, <1>4 DEF OwnerFits, SameRotation, Replacing
<1>8. queue = None /\ loaded
  BY <1>1, <1>4, OwnersHold DEF Replacing
<1>9. OwnersFit' /\ \A p \in Op : run'[p].step # "idle" => loaded'
  BY <1>1, <1>3, <1>4, <1>7, <1>8, OthersFit DEF Replacing
<1>10. \A p \in Op : Relies(p)' => WasStored(run[p].held)'
  <2>1. ~Relies(o)'
    BY <1>3 DEF Relies
  <2> QED BY <1>1, <1>3, <1>8, <2>1, StoredStays
<1> QED BY <1>6, <1>9, <1>10 DEF RotationsFit, ReadsFit

LEMMA ExchangeFits ==
  ASSUME KInv, NEW o \in Op, Exchange(o)
  PROVE  RotationsFit'
<1>1. /\ UNCHANGED <<keychain, flying, disk, latest, loaded, queue>>
      /\ run[o].step = "exchange" /\ TypeOK /\ loaded
  BY Types DEF Exchange, At, JournalFree, keychainVars, journalVars
<1>2. OnlyRun(o) /\ run'[o].step \in {"idle", "replace"}
  <2>1. CASE Issue /\ run' = [run EXCEPT ![o].step = "replace", ![o].held = Issued]
    <3>1. Issued \in Credential /\ "replace" \in Step
      BY <1>1, <2>1, IssuedType DEF Step
    <3> QED BY <1>1, <2>1, <3>1, TakesCredential
  <2> QED BY <2>1, FinishLocal DEF Exchange
<1> QED BY <1>1, <1>2, LocalFits DEF Owner, Relies, Writing, Replacing

LEMMA VerifyFits ==
  ASSUME KInv, NEW o \in Op, Verify(o)
  PROVE  RotationsFit'
<1>1. /\ UNCHANGED <<keychain, flying, disk, latest, loaded>>
      /\ run[o].step = "verify" /\ TypeOK
  BY Types DEF Verify, At, keychainVars, journalVars
<1>2. /\ Owner(o) /\ OwnerFits(o) /\ loaded /\ Pending = {} /\ queue = o
      /\ keychain.obtainedAt = latest.source /\ latest = run[o].seen
  BY <1>1, OwnersHold DEF Owner, Replacing, Writing, OwnerFits
<1>3. ASSUME NEW s \in {"write", "restore"}, Goto(o, s)
      PROVE  /\ OnlyRun(o) /\ run'[o].step = s /\ run'[o].seen = run[o].seen
             /\ run'[o].held = run[o].held /\ ~Relies(o)'
  BY <1>1, <1>3, RunUpdates DEF Step, Relies
<1>4. CASE Replaceable(run[o].held, run[o].seen) /\ Goto(o, "write") /\ UNCHANGED queue
  <2>1. run'[o].held.obtainedAt > keychain.obtainedAt
    <3>1. latest.source < run[o].held.obtainedAt /\ run'[o].held = run[o].held
      BY <1>2, <1>3, <1>4 DEF Replaceable
    <3>2. latest.source \in Nat /\ run[o].held.obtainedAt \in Nat
      BY <1>1, <1>2, Types, OwnersHold, EventNumbers DEF RunFits, Run
    <3> QED BY <1>2, <3>1, <3>2
  <2>2. JournalFits' /\ WritesFit'
    BY <1>1, <1>2, <1>3, <1>4, <2>1, WriteBegins DEF Writing
  <2>3. OwnerFits(o)'
    BY <1>1, <1>2, <1>3, <1>4 DEF OwnerFits, SameRotation, Replacing
  <2>4. OwnersFit' /\ \A p \in Op : run'[p].step # "idle" => loaded'
    BY <1>1, <1>2, <1>3, <1>4, <2>3, OthersFit DEF Replacing
  <2>5. \A p \in Op : Relies(p)' => WasStored(run[p].held)'
    BY <1>1, <1>2, <1>3, <1>4, StoredStays
  <2> QED BY <2>2, <2>4, <2>5 DEF RotationsFit, ReadsFit
<1>5. CASE GiveWay(o)
  <2>1. Goto(o, "restore") /\ queue' = None
    BY <1>5 DEF GiveWay
  <2>2. Pending' = Pending
    BY <1>1, <1>3, <2>1, PendingStays DEF Writing
  <2>3. JournalFits' /\ WritesFit'
    BY <1>1, <2>2 DEF JournalFits, WritesFit, KeychainFits, KInv, RotationsFit
  <2>4. OwnerFits(o)'
    BY <1>1, <1>2, <1>3, <2>1 DEF OwnerFits, SameRotation, Replacing
  <2>5. OwnersFit' /\ \A p \in Op : run'[p].step # "idle" => loaded'
    BY <1>1, <1>2, <1>3, <2>1, <2>4, OthersFit DEF Replacing
  <2>6. \A p \in Op : Relies(p)' => WasStored(run[p].held)'
    BY <1>1, <1>2, <1>3, <2>1, StoredStays
  <2> QED BY <2>3, <2>5, <2>6 DEF RotationsFit, ReadsFit
<1> QED BY <1>4, <1>5 DEF Verify

\* A write ends: the credential is in the Keychain, or it is not and may still
\* arrive, or it never will.
LEMMA WriteEnds ==
  ASSUME KInv, NEW o \in Op, run[o].step \in Writing, OnlyRun(o), run'[o].step \notin Writing,
         WriteUncertain(run[o].held),
         UNCHANGED <<disk, latest, loaded>>
  PROVE  /\ JournalFits' /\ WritesFit'
         /\ UNCHANGED keychain \/ (Pending # {} /\ keychain' = run[o].held
                                     /\ keychain'.obtainedAt > keychain.obtainedAt
                                     /\ keychain' \in Credential)
<1> DEFINE c == run[o].held
<1>1. /\ Owner(o) /\ c \in Credential /\ Pending = {c} /\ flying = {}
      /\ c.obtainedAt > keychain.obtainedAt /\ c.obtainedAt \in Nat /\ keychain.obtainedAt \in Nat
  BY OwnersWrite, EventNumbers, Types
<1>2. Pending' = flying'
  <2>1. \A p \in Op : run'[p].step \notin Writing
    <3>1. \A p \in Op \ {o} : run'[p] = run[p] /\ ~Owner(p)
      BY <1>1, OwnersHold DEF OnlyRun
    <3>2. \A p \in Op \ {o} : run[p].step \notin Writing
      BY <3>1 DEF Owner, Writing, Replacing
    <3> QED BY <3>1, <3>2
  <2> QED BY <2>1 DEF Pending
<1>3. \/ keychain' = c /\ flying' = {}
      \/ keychain' = keychain /\ flying' = {}
      \/ keychain' = keychain /\ flying' = {c}
  BY <1>1 DEF WriteUncertain, Written, NotWritten, MayBeWritten, keychainVars
<1>4. WritesFit'
  BY <1>1, <1>2, <1>3 DEF WritesFit
<1>5. ASSUME NEW e, KeychainFits(e), e \in Event \cup {None}
      PROVE  KeychainFits(e)'
  <2>1. /\ e # None /\ e.state \in InProgress /\ keychain.obtainedAt = e.source
        /\ keychain.obtainedAt >= e.source
    BY <1>1, <1>5 DEF KeychainFits
  <2>2. e.state \notin Terminal /\ e.state # "reauthorization_required"
    BY <2>1 DEF InProgress, Terminal
  <2>3. keychain'.obtainedAt >= e.source /\ (flying' # {} => keychain'.obtainedAt = e.source)
    BY <1>1, <1>3, <2>1
  <2> QED BY <1>2, <2>1, <2>2, <2>3 DEF KeychainFits
<1>6. JournalFits'
  <2>1. ASSUME loaded PROVE KeychainFits(latest)'
    <3>1. KeychainFits(latest) /\ latest \in Event \cup {None}
      BY <2>1, Types DEF KInv, RotationsFit, JournalFits, EventOrNone
    <3>2. PICK e \in Event \cup {None} : e = latest
      BY <3>1
    <3>3. KeychainFits(e)'
      BY <1>5, <3>1, <3>2
    <3> QED BY <3>2, <3>3
  <2>2. ASSUME disk.tail # "unreadable" PROVE KeychainFits(disk.latest)'
    <3>1. KeychainFits(disk.latest) /\ disk.latest \in Event \cup {None}
      BY <2>2, Types DEF KInv, RotationsFit, JournalFits, EventOrNone
    <3>2. PICK e \in Event \cup {None} : e = disk.latest
      BY <3>1
    <3>3. KeychainFits(e)'
      BY <1>5, <3>1, <3>2
    <3> QED BY <3>2, <3>3
  <2> QED BY <2>1, <2>2 DEF JournalFits
<1> QED BY <1>1, <1>3, <1>4, <1>6

LEMMA StoreFits ==
  ASSUME KInv, NEW o \in Op, Store(o)
  PROVE  RotationsFit'
<1>1. run[o].step = "store" /\ TypeOK /\ UNCHANGED <<disk, latest, loaded, queue>>
  BY Types DEF Store, At, journalVars
<1>2. PICK v \in {"completed", "uncertain"} :
        /\ ToSettle(o, v) /\ WriteUncertain(run[o].held)
        /\ v = "completed" => Written(run[o].held)
  BY DEF Store, WriteUncertain
<1>3. /\ OnlyRun(o) /\ run'[o].step = "settle" /\ run'[o].held = run[o].held
      /\ run'[o].verdict = v
  BY <1>1, <1>2, RunUpdates DEF Terminal, Unresolved
<1>4. JournalFits' /\ WritesFit' /\ (UNCHANGED keychain \/ (Pending # {} /\ keychain' = run[o].held
        /\ keychain'.obtainedAt > keychain.obtainedAt /\ keychain' \in Credential))
  BY <1>1, <1>2, <1>3, WriteEnds DEF Writing
<1>5. Owner(o) /\ queue = None /\ loaded
  BY <1>1, OwnersHold DEF Owner, Replacing
<1>6. ~Owner(o)'
  BY <1>3 DEF Owner, Replacing
<1>7. OwnersFit' /\ \A p \in Op : run'[p].step # "idle" => loaded'
  BY <1>1, <1>3, <1>5, <1>6, OthersFit DEF Replacing
<1>8. Relies(o)' => WasStored(run[o].held)'
  <2> SUFFICES ASSUME Relies(o)' PROVE WasStored(run[o].held)'
    OBVIOUS
  <2>1. v = "completed"
    BY <1>3 DEF Relies, Terminal
  <2>2. keychain' = run'[o].held /\ keychain' \in Credential
    BY <1>1, <1>2, <1>3, <2>1, OwnersWrite DEF Written, Writing
  <2>3. keychain'.obtainedAt <= keychain'.obtainedAt
    BY <2>2, EventNumbers
  <2> QED BY <2>2, <2>3 DEF WasStored
<1>9. \A p \in Op : Relies(p)' => WasStored(run[p].held)'
  BY <1>1, <1>3, <1>4, <1>5, <1>8, StoredStays
<1> QED BY <1>4, <1>7, <1>9 DEF RotationsFit, ReadsFit

LEMMA WriteFits ==
  ASSUME KInv, NEW o \in Op, Write(o)
  PROVE  RotationsFit'
<1>1. run[o].step = "write" /\ TypeOK /\ UNCHANGED <<disk, latest, loaded>>
  BY Types DEF Write, At, journalVars
<1>2. Owner(o) /\ OwnerFits(o) /\ loaded /\ keychain.obtainedAt = latest.source /\ queue = o
      /\ flying = {}
  <2>1. Owner(o)
    BY <1>1 DEF Owner, Replacing
  <2>2. Pending # {}
    BY <1>1, OwnersWrite DEF Writing
  <2> QED BY <1>1, <2>1, <2>2, OwnersHold DEF KeychainFits, OwnerFits, Replacing
<1>3. ASSUME OnlyRun(o), run'[o].step \in {"idle", "confirm", "restore"},
             WriteUncertain(run[o].held), OwnerFits(o)' \/ ~Owner(o)', ~Relies(o)',
             queue' = IF run'[o].step \in Replacing THEN o ELSE None
      PROVE  RotationsFit'
  <2>1. JournalFits' /\ WritesFit' /\ (UNCHANGED keychain \/ (Pending # {}
          /\ keychain'.obtainedAt > keychain.obtainedAt /\ keychain' \in Credential))
    BY <1>1, <1>3, WriteEnds DEF Writing
  <2>2. OwnersFit' /\ \A p \in Op : run'[p].step # "idle" => loaded'
    BY <1>1, <1>2, <1>3, OthersFit
  <2>3. \A p \in Op : Relies(p)' => WasStored(run[p].held)'
    BY <1>1, <1>2, <1>3, <2>1, StoredStays
  <2> QED BY <2>1, <2>2, <2>3 DEF RotationsFit, ReadsFit
<1>4. ASSUME NEW s \in {"confirm", "restore"}, Goto(o, s)
      PROVE  /\ OnlyRun(o) /\ run'[o].step = s /\ run'[o].seen = run[o].seen
             /\ run'[o].held = run[o].held /\ ~Relies(o)'
  BY <1>1, <1>4, RunUpdates DEF Step, Relies
<1>5. CASE Written(run[o].held) /\ Goto(o, "confirm") /\ UNCHANGED queue
  <2>1. keychain' = run'[o].held /\ flying' = {}
    BY <1>2, <1>4, <1>5 DEF Written
  <2>2. OwnerFits(o)'
    BY <1>1, <1>2, <1>4, <1>5, <2>1 DEF OwnerFits, SameRotation, Replacing
  <2> QED BY <1>2, <1>3, <1>4, <1>5, <2>2 DEF WriteUncertain, Replacing
<1>6. CASE WriteUncertain(run[o].held) /\ Finish(o) /\ queue' = None
  BY <1>3, <1>6, FinishLocal DEF Replacing
<1>7. CASE NotWritten /\ GiveWay(o)
  <2>1. Goto(o, "restore") /\ queue' = None /\ flying' = {} /\ keychain' = keychain
    BY <1>2, <1>7 DEF GiveWay, NotWritten, keychainVars
  <2>2. OwnerFits(o)'
    BY <1>1, <1>2, <1>4, <2>1 DEF OwnerFits, SameRotation, Replacing
  <2> QED BY <1>3, <1>4, <1>7, <2>1, <2>2 DEF WriteUncertain, Replacing
<1> QED BY <1>5, <1>6, <1>7 DEF Write

\* A write of a child nobody waits for arrives: no operation is at work.
LEMMA LandFits ==
  ASSUME KInv, NEW c \in flying, Land(c)
  PROVE  RotationsFit'
<1>1. /\ c \in Pending /\ c \in Credential /\ c.obtainedAt > keychain.obtainedAt
      /\ \A o \in Op : ~Owner(o)
  BY Types DEF Pending, KInv, RotationsFit, WritesFit, OwnersFit, OwnerFits
<1>2. Pending = {c} /\ flying' = {} /\ keychain' = c
      /\ UNCHANGED <<disk, latest, loaded, queue, run>>
  <2>1. \A d \in Pending : d = c
    BY <1>1 DEF KInv, RotationsFit, WritesFit
  <2>2. flying \subseteq Pending
    BY DEF Pending
  <2> QED BY <1>1, <2>1, <2>2 DEF Land, journalVars
<1>3. Pending' = {}
  <2>1. \A o \in Op : run[o].step \notin Writing
    BY <1>1 DEF Owner, Writing, Replacing
  <2> QED BY <1>2, <2>1 DEF Pending
<1>4. JournalFits'
  <2>1. ASSUME NEW e \in Event \cup {None}, KeychainFits(e) PROVE KeychainFits(e)'
    <3>1. /\ e # None /\ e.state \in InProgress /\ keychain.obtainedAt = e.source
      BY <1>1, <2>1 DEF KeychainFits
    <3>2. e.state \notin Terminal /\ e.state # "reauthorization_required"
      BY <3>1 DEF InProgress, Terminal
    <3>3. keychain'.obtainedAt >= e.source
      BY <1>1, <1>2, <3>1, Types, EventNumbers
    <3> QED BY <1>3, <3>1, <3>2, <3>3 DEF KeychainFits
  <2>2. PICK e \in Event \cup {None}, d \in Event \cup {None} : e = latest /\ d = disk.latest
    BY Types DEF EventOrNone
  <2>3. (loaded => KeychainFits(e)) /\ (disk.tail # "unreadable" => KeychainFits(d))
    BY <2>2 DEF KInv, RotationsFit, JournalFits
  <2> QED BY <1>2, <2>1, <2>2, <2>3 DEF JournalFits
<1>5. WritesFit'
  BY <1>3 DEF WritesFit
<1>6. OwnersFit'
  BY <1>1, <1>2 DEF OwnersFit, Owner, KInv, RotationsFit
<1>7. ReadsFit'
  <2>1. SUFFICES ASSUME NEW o \in Op, Relies(o) PROVE WasStored(run[o].held)'
    BY <1>2 DEF ReadsFit, Relies, KInv, RotationsFit
  <2>2. /\ WasStored(run[o].held) /\ run[o].held \in Credential /\ loaded
    BY <2>1, Types DEF KInv, RotationsFit, ReadsFit, Relies, RunFits, Run
  <2>3. keychain.obtainedAt = latest.source
    BY <1>1, <2>2 DEF KInv, RotationsFit, JournalFits, KeychainFits
  <2>4. run[o].held.obtainedAt <= latest.source /\ run[o].held.obtainedAt <= keychain'.obtainedAt
    BY <1>1, <1>2, <2>2, <2>3, Types, EventNumbers DEF WasStored
  <2> QED BY <1>2, <2>4 DEF WasStored
<1> QED BY <1>4, <1>5, <1>6, <1>7 DEF RotationsFit

(***************************************************************************)
(* Appending to the journal                                                *)
(***************************************************************************)

\* What an append leaves in memory, and in a file that can be read back.
LEMMA AppendLeaves ==
  ASSUME TypeOK, NEW e, NEW recordedAt, NEW outcome \in Outcomes(e, recordedAt), Append(e, outcome)
  PROVE  /\ loaded' = loaded
         /\ \/ latest' = latest /\ outcome # "done"
            \/ latest' = e /\ Follows(latest, e) /\ Chronological(e, recordedAt)
         /\ disk'.tail # "unreadable" =>
              /\ disk.tail # "unreadable"
              /\ \/ disk'.latest = disk.latest /\ outcome # "done"
                 \/ disk'.latest = e /\ Follows(latest, e) /\ Chronological(e, recordedAt)
<1>1. disk \in [latest : EventOrNone, tail : {"clean", "torn", "unreadable"}]
  BY DEF TypeOK, EventOrNone
<1>2. outcome \in {"done", "refused", "lost", "torn", "whole"}
      /\ (outcome # "refused" => Follows(latest, e) /\ Chronological(e, recordedAt))
  BY FailuresAssumption DEF Outcomes
<1>3. CASE outcome \in {"refused", "lost"}
  BY <1>3 DEF Append
<1>4. CASE outcome = "torn"
  BY <1>1, <1>4 DEF Append, WithTornLine
<1>5. CASE outcome \in {"done", "whole"}
  <2>1. disk' = WithLine(e) /\ latest' = IF outcome = "done" THEN e ELSE latest
    BY <1>5 DEF Append
  <2>2. disk'.tail # "unreadable" => disk.tail = "clean" /\ disk'.latest = e
    BY <1>1, <2>1 DEF WithLine
  <2> QED BY <1>2, <1>5, <2>1, <2>2 DEF Append
<1> QED BY <1>2, <1>3, <1>4, <1>5

\* If the appended event fits the Keychain, the journal goes on fitting it.
LEMMA AppendFits ==
  ASSUME KInv, NEW o \in Op, OnlyRun(o), UNCHANGED <<keychain, flying>>,
         run[o].step \notin Writing, run'[o].step \notin Writing, loaded,
         NEW e, NEW recordedAt, NEW outcome \in Outcomes(e, recordedAt), Append(e, outcome),
         Follows(latest, e) /\ Chronological(e, recordedAt) =>
           /\ KeychainFits(e)
           /\ \/ ~Blocked(e) \/ e.source = keychain.obtainedAt
              \/ Blocked(latest) /\ e.source = latest.source,
         ~Relies(o)'
  PROVE  JournalFits' /\ WritesFit' /\ ReadsFit'
<1>1. Pending' = Pending /\ TypeOK
  BY PendingStays, Types
<1>2. \A x : KeychainFits(x) => KeychainFits(x)'
  BY <1>1 DEF KeychainFits
<1>3. WritesFit'
  BY <1>1 DEF WritesFit, KInv, RotationsFit
<1>4. JournalFits'
  <2>1. KeychainFits(latest) /\ (disk.tail # "unreadable" => KeychainFits(disk.latest))
    BY DEF KInv, RotationsFit, JournalFits
  <2>2. PICK l, d, x, y : l = latest /\ d = disk.latest /\ x = latest' /\ y = disk'.latest
    OBVIOUS
  <2>3. KeychainFits(x)
    <3>1. x = l \/ (x = e /\ Follows(latest, e) /\ Chronological(e, recordedAt))
      BY <1>1, <2>2, AppendLeaves
    <3>2. KeychainFits(l)
      BY <2>1, <2>2
    <3> QED BY <3>1, <3>2
  <2>4. disk'.tail # "unreadable" => KeychainFits(y)
    BY <1>1, <2>1, <2>2, AppendLeaves
  <2>5. KeychainFits(x)' /\ (disk'.tail # "unreadable" => KeychainFits(y)')
    BY <1>2, <2>3, <2>4
  <2>6. KeychainFits(latest)' /\ (disk'.tail # "unreadable" => KeychainFits(disk.latest)')
    BY <2>2, <2>5 DEF KeychainFits
  <2> QED BY <2>6 DEF JournalFits
<1>5. ASSUME NEW c \in Credential, WasStored(c)
      PROVE  WasStored(c)'
  <2>1. /\ c.obtainedAt <= keychain.obtainedAt
        /\ Blocked(latest) => c.obtainedAt <= latest.source \/ c.obtainedAt = keychain.obtainedAt
    BY <1>5 DEF WasStored
  <2>2. latest' = latest \/ (Follows(latest, e) /\ Chronological(e, recordedAt) /\ latest' = e)
    BY <1>1, AppendLeaves
  <2> QED BY <2>1, <2>2 DEF WasStored, Blocked
<1>6. ReadsFit'
  <2>1. \A p \in Op \ {o} : run'[p] = run[p] /\ (Relies(p)' <=> Relies(p))
    BY DEF OnlyRun, Relies
  <2>2. \A p \in Op : Relies(p) => WasStored(run[p].held) /\ run[p].held \in Credential
    BY Types DEF KInv, RotationsFit, ReadsFit, Relies, RunFits, Run
  <2>3. loaded'
    BY <1>1, AppendLeaves
  <2>4. \A p \in Op : Relies(p)' => WasStored(run[p].held)'
    BY <1>5, <2>1, <2>2 DEF WasStored
  <2> QED BY <2>3, <2>4 DEF ReadsFit
<1> QED BY <1>3, <1>4, <1>6

LEMMA SettleFits ==
  ASSUME KInv, NEW o \in Op, Settle(o)
  PROVE  RotationsFit'
<1> DEFINE e == SettlementOf(o)
<1>1. /\ run[o].step = "settle" /\ loaded /\ queue = None /\ queue' = None /\ TypeOK
      /\ UNCHANGED <<keychain, flying>> /\ OnlyRun(o) /\ run'[o].step = "idle"
      /\ ~Owner(o)' /\ ~Relies(o)'
  BY Types, FinishLocal DEF Settle, At, JournalFree, keychainVars
<1>2. PICK outcome \in Outcomes(e, now) : Append(e, outcome)
  BY DEF Settle
<1>3. /\ run[o].verdict \in {"uncertain", "reauthorization_required"} \cup Terminal
      /\ e.state = run[o].verdict /\ e.source = latest.source /\ e.sequence = run[o].seen.sequence
      /\ run[o].verdict \in Terminal => run[o].held \in Credential /\ e.result = run[o].held.obtainedAt
  BY <1>1, Types DEF RunFits, Run, SettlementOf
<1>4. ASSUME Follows(latest, e)
      PROVE  /\ latest \in Event /\ latest.state \in Unresolved /\ e.state \in NextStates(latest.state)
             /\ e.sequence = latest.sequence /\ latest.source \in Nat /\ KeychainFits(latest)
             /\ e.state = "uncertain" => latest.state = "reserved"
             /\ e # None
  <2>1. e.state # "reserved"
    BY <1>3 DEF Terminal
  <2>2. latest # None /\ e.state \in NextStates(latest.state) /\ e.sequence = latest.sequence
    BY <1>4, <2>1 DEF Follows
  <2>3. latest \in Event /\ latest.source \in Nat
    BY <2>2, Types, EventNumbers DEF EventOrNone
  <2>4. latest.state \in Unresolved /\ (e.state = "uncertain" => latest.state = "reserved")
    BY <2>2, <2>3 DEF NextStates, Unresolved, Terminal
  <2>5. KeychainFits(latest)
    BY <1>1 DEF KInv, RotationsFit, JournalFits
  <2>6. e # None
    <3>1. e \in Event
      BY <1>3, <2>2, <2>3, <2>4, Types DEF Event, SettlementOf, Unresolved, Terminal, Credential
    <3> QED BY <3>1, Types
  <2> QED BY <2>2, <2>3, <2>4, <2>5, <2>6
<1> HIDE DEF e
<1>5. ASSUME Follows(latest, e), Chronological(e, now), run[o].verdict \in Terminal
      PROVE  /\ keychain.obtainedAt = e.result /\ Pending = {} /\ keychain.obtainedAt > latest.source
  <2>1. WasStored(run[o].held)
    BY <1>1, <1>5 DEF KInv, RotationsFit, ReadsFit, Relies
  <2>2. e.source < e.result
    BY <1>3, <1>5 DEF Chronological
  <2>3. latest.source \in Nat /\ e.result \in Nat
    BY <1>3, <1>4, <1>5, EventNumbers
  <2>4. Blocked(latest)
    BY <1>4, <1>5, Types DEF Blocked
  <2>5. keychain.obtainedAt = e.result /\ keychain.obtainedAt > latest.source
    BY <1>3, <1>5, <2>1, <2>2, <2>3, <2>4 DEF WasStored
  <2>6. Pending = {}
    BY <1>4, <1>5, <2>3, <2>5 DEF KeychainFits
  <2> QED BY <2>5, <2>6
<1>6. ASSUME Follows(latest, e), Chronological(e, now)
      PROVE  KeychainFits(e) /\ (~Blocked(e) \/ (Blocked(latest) /\ e.source = latest.source))
  <2>1. CASE run[o].verdict \in Terminal
    BY <1>3, <1>4, <1>5, <1>6, <2>1 DEF KeychainFits, Blocked, Terminal, Unresolved
  <2>2. CASE run[o].verdict = "uncertain"
    <3>1. latest.state = "reserved" /\ latest # None /\ Blocked(latest) /\ KeychainFits(latest)
      BY <1>3, <1>4, <1>6, <2>2, Types DEF Blocked, Unresolved
    <3> QED BY <1>3, <1>4, <1>6, <2>2, <3>1 DEF KeychainFits, Blocked, Terminal, Unresolved, InProgress
  <2>3. CASE run[o].verdict = "reauthorization_required"
    <3>1. Owner(o)
      BY <1>1, <2>3 DEF Owner
    <3>2. Pending = {} /\ keychain.obtainedAt = latest.source
      BY <1>1, <3>1, OwnersHold DEF Writing, OwnerFits
    <3>3. Blocked(latest)
      BY <1>4, <1>6, Types DEF Blocked
    <3> QED BY <1>3, <1>4, <1>6, <2>3, <3>2, <3>3 DEF KeychainFits, Blocked, Terminal, Unresolved
  <2> QED BY <1>3, <2>1, <2>2, <2>3
<1>7. JournalFits' /\ WritesFit' /\ ReadsFit'
  BY <1>1, <1>2, <1>6, AppendFits DEF Writing
<1>8. ASSUME NEW p \in Op, Owner(p), p # o
      PROVE  OwnerFits(p)'
  <2>1. /\ OwnerFits(p) /\ ~Owner(o) /\ run[p].step \notin Replacing /\ run'[p] = run[p]
        /\ (run[p].step \notin Writing => Pending = {})
    BY <1>1, <1>8, OwnersHold, Types DEF OnlyRun
  <2>2. run[o].verdict # "reauthorization_required"
    BY <1>1, <2>1 DEF Owner
  <2>3. ~(Follows(latest, e) /\ Chronological(e, now) /\ run[o].verdict \in Terminal)
    <3> SUFFICES ASSUME Follows(latest, e), Chronological(e, now), run[o].verdict \in Terminal
                 PROVE  FALSE
      OBVIOUS
    <3>1. keychain.obtainedAt # latest.source /\ Pending = {}
      BY <1>4, <1>5
    <3>2. run[p].step \notin Writing
      BY <3>1 DEF Pending
    <3> QED BY <1>8, <2>1, <3>1, <3>2 DEF Owner, OwnerFits, Writing
  <2>4. Follows(latest, e) /\ Chronological(e, now) =>
          /\ e.state = "uncertain" /\ latest.state = "reserved" /\ SameRotation(e, p)
    BY <1>3, <1>4, <2>1, <2>2, <2>3 DEF OwnerFits, SameRotation
  <2>5. /\ latest' = latest \/ (latest' = e /\ e.state = "uncertain" /\ latest.state = "reserved"
                                  /\ SameRotation(e, p))
        /\ disk'.tail # "unreadable" =>
             /\ disk.tail # "unreadable"
             /\ disk'.latest = disk.latest
                  \/ (disk'.latest = e /\ e.state = "uncertain" /\ SameRotation(e, p))
    BY <1>1, <1>2, <2>4, AppendLeaves
  <2>6. SameRotation(latest', p) /\ latest'.source = latest.source
    BY <1>3, <2>1, <2>5 DEF OwnerFits
  <2>7. CASE run[p].step = "restore"
    BY <1>1, <2>1, <2>5, <2>6, <2>7 DEF OwnerFits, SameRotation, Replacing
  <2>8. CASE run[p].step # "restore"
    BY <1>1, <2>1, <2>5, <2>6, <2>8 DEF OwnerFits, SameRotation, Replacing, InProgress
  <2> QED BY <2>7, <2>8
<1>9. OwnersFit'
  <2>1. \A p \in Op : Owner(p)' => p # o /\ Owner(p)
    BY <1>1 DEF OnlyRun, Owner
  <2> QED BY <1>1, <1>8, <2>1, Types DEF OwnersFit, KInv, RotationsFit
<1> QED BY <1>7, <1>9 DEF RotationsFit

LEMMA ReserveFits ==
  ASSUME KInv, NEW o \in Op, Reserve(o)
  PROVE  RotationsFit'
<1> DEFINE c == run[o].held
           e == ReservationOf(c)
<1>1. /\ run[o].step = "reserve" /\ loaded /\ queue = None /\ queue' = None /\ TypeOK
      /\ UNCHANGED <<keychain, flying>>
  BY Types DEF Reserve, At, JournalFree, keychainVars
<1>2. PICK outcome \in Outcomes(e, now) :
        /\ Append(e, outcome)
        /\ IF outcome = "done"
           THEN run' = [run EXCEPT ![o].step = "submit", ![o].seen = e]
           ELSE Finish(o)
  BY DEF Reserve
<1>3. /\ c \in Credential /\ c.obtainedAt \in Nat /\ WasStored(c) /\ KeychainFits(latest)
      /\ keychain.obtainedAt \in Nat /\ latest \in EventOrNone
  <2>1. c # None /\ c \in Credential
    BY <1>1, Types DEF RunFits, Run
  <2>2. WasStored(c) /\ KeychainFits(latest)
    BY <1>1 DEF KInv, RotationsFit, ReadsFit, JournalFits, Relies
  <2> QED BY <2>1, <2>2, Types, EventNumbers
<1>4. e.state = "reserved" /\ e.source = c.obtainedAt
  BY DEF ReservationOf
<1>5. e \in Event /\ e # None
  <2>1. e.sequence \in Nat \ {0} /\ c.obtainedAt \in Time
    BY <1>3 DEF ReservationOf, Event, EventOrNone, Credential
  <2>2. e \in Event
    BY <1>3, <2>1, Types DEF ReservationOf, Event, Unresolved
  <2> QED BY <2>2, Types
<1> HIDE DEF c, e
<1>6. ASSUME Follows(latest, e)
      PROVE  /\ ~Blocked(latest) /\ Pending = {} /\ keychain.obtainedAt = e.source /\ KeychainFits(e)
             /\ \A p \in Op : ~Owner(p)
  <2>1. latest = None \/ (latest # None /\ latest \in Event /\ latest.state \in Terminal
                            /\ e.source >= latest.result)
    <3>1. \A s : "reserved" \notin NextStates(s)
      BY DEF NextStates
    <3> QED BY <1>3, <1>4, <1>6, <3>1 DEF Follows, EventOrNone
  <2>2. Pending = {} /\ ~Blocked(latest) /\ (latest = None \/ latest.state \notin InProgress)
    BY <1>3, <2>1, EventNumbers DEF KeychainFits, Blocked, InProgress
  <2>3. keychain.obtainedAt = e.source
    <3>1. CASE latest = None
      BY <1>3, <1>4, <3>1 DEF KeychainFits, WasStored
    <3>2. CASE latest # None
      <4>1. keychain.obtainedAt = latest.result
        BY <1>3, <2>1, <3>2 DEF KeychainFits
      <4> QED BY <1>3, <1>4, <2>1, <3>2, <4>1 DEF WasStored
    <3> QED BY <3>1, <3>2
  <2>4. KeychainFits(e)
    BY <1>3, <1>4, <1>5, <2>2, <2>3 DEF KeychainFits, Terminal
  <2>5. \A p \in Op : ~Owner(p)
    BY <2>2, OwnersHold DEF OwnerFits, SameRotation
  <2> QED BY <2>2, <2>3, <2>4, <2>5
<1>7. OnlyRun(o) /\ run'[o].step \notin Writing /\ ~Relies(o)'
      /\ (outcome = "done" => run'[o].step = "submit" /\ run'[o].seen = e /\ run'[o].held = c)
      /\ (outcome # "done" => ~Owner(o)')
  <2>1. CASE outcome = "done"
    <3>2. run' = [run EXCEPT ![o].step = "submit", ![o].seen = e] /\ run \in [Op -> Run] /\ run[o] \in Run
      BY <1>2, <2>1, Types
    <3>3. run'[o] = [run[o] EXCEPT !.step = "submit", !.seen = e] /\ \A p \in Op \ {o} : run'[p] = run[p]
      BY <3>2
    <3>4. /\ run'[o] \in Run /\ run'[o].step = "submit" /\ run'[o].seen = e
          /\ run'[o].held = run[o].held
      BY <1>5, <3>2, <3>3 DEF Run, Step
    <3>5. run' \in [Op -> Run]
      BY <3>2, <3>4
    <3> QED BY <2>1, <3>3, <3>4, <3>5 DEF OnlyRun, Relies, Writing, c
  <2>2. CASE outcome # "done"
    BY <1>2, <2>2, FinishLocal DEF Writing
  <2> QED BY <2>1, <2>2
<1>8. JournalFits' /\ WritesFit' /\ ReadsFit'
  BY <1>1, <1>2, <1>6, <1>7, AppendFits DEF Writing
<1>9. OwnersFit'
  <2>1. CASE outcome = "done"
    <3>1. Follows(latest, e) /\ latest' = e /\ (disk'.tail # "unreadable" => disk'.latest = e)
      BY <1>1, <1>2, <2>1, AppendLeaves
    <3>2. \A p \in Op : Owner(p)' => p = o
      BY <1>6, <1>7, <3>1 DEF OnlyRun, Owner
    <3>3. flying' = {} /\ keychain'.obtainedAt = e.source
      BY <1>1, <1>6, <3>1 DEF Pending
    <3>4. OwnerFits(o)'
      BY <1>4, <1>5, <1>7, <2>1, <3>1, <3>3 DEF OwnerFits, SameRotation, Replacing, InProgress, c
    <3> QED BY <1>1, <3>2, <3>4, Types DEF OwnersFit
  <2>2. CASE outcome # "done"
    <3>1. SUFFICES ASSUME NEW p \in Op, Owner(p) PROVE OwnerFits(p)'
      <4>1. \A p \in Op : Owner(p)' => Owner(p)
        BY <1>7, <2>2 DEF OnlyRun, Owner
      <4> QED BY <1>1, <3>1, <4>1, Types DEF OwnersFit, KInv, RotationsFit
    <3>2. /\ OwnerFits(p) /\ run[p].step \notin Replacing /\ ~Follows(latest, e) /\ p # o
      BY <1>1, <1>6, <3>1, OwnersHold, Types DEF Owner, Replacing
    <3>3. /\ latest' = latest /\ run'[p] = run[p]
          /\ disk'.tail # "unreadable" => disk.tail # "unreadable" /\ disk'.latest = disk.latest
      BY <1>1, <1>2, <1>7, <3>2, AppendLeaves DEF OnlyRun
    <3> QED BY <1>1, <3>2, <3>3 DEF OwnerFits, SameRotation, Replacing
  <2> QED BY <2>1, <2>2
<1> QED BY <1>8, <1>9 DEF RotationsFit

LEMMA ReplaceFits ==
  ASSUME KInv, NEW o \in Op, Replace(o)
  PROVE  RotationsFit'
<1> DEFINE e == [latest EXCEPT !.state = "reauthorization_reserved"]
<1>1. /\ run[o].step = "replace" /\ loaded /\ queue = None /\ TypeOK
      /\ UNCHANGED <<keychain, flying>> /\ KeychainFits(latest)
  BY Types DEF Replace, At, JournalFree, keychainVars, KInv, RotationsFit, JournalFits
<1>2. CASE ~AwaitsReauthorization
  <2>1. Finish(o) /\ UNCHANGED <<disk, latest, loaded, queue>>
    BY <1>2 DEF Replace
  <2> QED BY <1>1, <2>1, FinishLocal, LocalFits DEF Writing, Replacing
<1>3. CASE AwaitsReauthorization
  <2>1. PICK outcome \in Outcomes(e, now) :
          /\ Append(e, outcome)
          /\ IF outcome = "done"
             THEN /\ queue' = o
                  /\ run' = [run EXCEPT ![o].step = "verify", ![o].seen = e]
             ELSE UNCHANGED queue /\ Finish(o)
    BY <1>3 DEF Replace
  <2>2. latest \in Event /\ latest # None /\ latest.state = "reauthorization_required"
    BY <1>3, Types DEF AwaitsReauthorization, EventOrNone
  <2>3. /\ e \in Event /\ e # None /\ e.state = "reauthorization_reserved"
        /\ e.source = latest.source /\ e.source \in Nat
    <3>1. latest.state \notin Terminal
      BY <2>2 DEF Terminal
    <3>2. e \in Event /\ e.state = "reauthorization_reserved" /\ e.source = latest.source
      BY <2>2, <3>1 DEF Event, Unresolved
    <3> QED BY <3>2, Types, EventNumbers
  <2> HIDE DEF e
  <2>4. Pending = {} /\ keychain.obtainedAt = e.source /\ \A p \in Op : ~Owner(p)
    <3>1. latest.state \notin InProgress
      BY <2>2 DEF InProgress
    <3> QED BY <1>1, <2>2, <2>3, <3>1, OwnersHold DEF KeychainFits, OwnerFits
  <2>5. KeychainFits(e)
    BY <2>3, <2>4 DEF KeychainFits, Terminal
  <2>6. OnlyRun(o) /\ run'[o].step \notin Writing /\ ~Relies(o)'
        /\ (outcome = "done" => run'[o].step = "verify" /\ run'[o].seen = e)
        /\ (outcome # "done" => ~Owner(o)')
    <3>1. CASE outcome = "done"
      <4>1. run' = [run EXCEPT ![o].step = "verify", ![o].seen = e] /\ run \in [Op -> Run] /\ run[o] \in Run
        BY <2>1, <3>1, Types
      <4>2. run'[o] = [run[o] EXCEPT !.step = "verify", !.seen = e] /\ \A p \in Op \ {o} : run'[p] = run[p]
        BY <4>1
      <4>3. run'[o] \in Run /\ run'[o].step = "verify" /\ run'[o].seen = e
        BY <2>3, <4>1, <4>2 DEF Run, Step
      <4>4. run' \in [Op -> Run]
        BY <4>1, <4>3
      <4> QED BY <3>1, <4>2, <4>3, <4>4 DEF OnlyRun, Relies, Writing
    <3>2. CASE outcome # "done"
      BY <2>1, <3>2, FinishLocal DEF Writing
    <3> QED BY <3>1, <3>2
  <2>7. JournalFits' /\ WritesFit' /\ ReadsFit'
    BY <1>1, <2>1, <2>4, <2>5, <2>6, AppendFits DEF Writing
  <2>8. \A p \in Op : Owner(p)' => p = o /\ outcome = "done"
    BY <2>4, <2>6 DEF OnlyRun, Owner
  <2>9. OwnersFit'
    <3>1. CASE outcome = "done"
      <4>1. latest' = e /\ (disk'.tail # "unreadable" => disk'.latest = e)
        BY <1>1, <2>1, <3>1, AppendLeaves
      <4>2. flying' = {} /\ keychain'.obtainedAt = e.source
        BY <1>1, <2>4 DEF Pending
      <4>3. OwnerFits(o)'
        BY <2>1, <2>3, <2>6, <3>1, <4>1, <4>2 DEF OwnerFits, SameRotation, Replacing, InProgress
      <4>4. queue' = o
        BY <2>1, <3>1
      <4> QED BY <2>6, <2>8, <3>1, <4>3, <4>4, Types DEF OwnersFit, Replacing
    <3>2. CASE outcome # "done"
      BY <1>1, <2>1, <2>8, <3>2, Types DEF OwnersFit
    <3> QED BY <3>1, <3>2
  <2> QED BY <2>7, <2>9 DEF RotationsFit
<1> QED BY <1>2, <1>3

LEMMA ConfirmFits ==
  ASSUME KInv, NEW o \in Op, Confirm(o)
  PROVE  RotationsFit'
<1> DEFINE result == run[o].held.obtainedAt
           e == [run[o].seen EXCEPT !.state = "reauthorized", !.result = result]
<1>1. /\ run[o].step = "confirm" /\ queue' = None /\ TypeOK
      /\ UNCHANGED <<keychain, flying>>
      /\ OnlyRun(o) /\ run'[o].step = "idle" /\ ~Owner(o)' /\ ~Relies(o)'
  BY Types, FinishLocal DEF Confirm, At, keychainVars
<1>2. /\ Owner(o) /\ Pending = {} /\ loaded /\ keychain = run[o].held
      /\ latest \in Event /\ latest = run[o].seen
  BY <1>1, OwnersHold DEF Owner, Replacing, Writing, OwnerFits
<1>3. PICK outcome \in Outcomes(e, result) : Append(e, outcome)
  BY DEF Confirm
<1>4. e.state = "reauthorized" /\ e.result = keychain.obtainedAt /\ e # None
  <2>1. run[o].seen \in Event /\ result \in Time /\ result = keychain.obtainedAt
    BY <1>2, Types DEF Credential
  <2>2. e.state = "reauthorized" /\ e.result = result
    BY <2>1 DEF Event
  <2>3. e \in Event
    BY <2>1, <2>2 DEF Event, Terminal
  <2> QED BY <2>1, <2>2, <2>3, Types
<1> HIDE DEF e, result
<1>5. KeychainFits(e) /\ ~Blocked(e)
  BY <1>2, <1>4 DEF KeychainFits, Blocked, Terminal, Unresolved
<1>6. JournalFits' /\ WritesFit' /\ ReadsFit'
  BY <1>1, <1>2, <1>3, <1>5, AppendFits DEF Writing
<1>7. OwnersFit'
  <2>1. \A p \in Op : ~Owner(p)'
    BY <1>1, <1>2, OwnersHold DEF OnlyRun, Owner
  <2> QED BY <1>1, <2>1, Types DEF OwnersFit
<1> QED BY <1>6, <1>7 DEF RotationsFit

(***************************************************************************)
(* The environment, and the theorems                                       *)
(***************************************************************************)

LEMMA CrashFits ==
  ASSUME KInv, Crash
  PROVE  RotationsFit'
<1>1. \A o \in Op : run'[o] = NoRun
  BY DEF Crash
<1>2. \A o \in Op : run'[o].step = "idle" /\ ~Owner(o)' /\ ~Relies(o)'
  BY <1>1 DEF NoRun, Owner, Relies, Replacing
<1>3. Pending' = Pending /\ keychain' = keychain
  <2>1. Pending' = flying'
    BY <1>2 DEF Pending, Writing
  <2>2. flying' = Pending
    BY DEF Crash, Pending, Writing, At
  <2> QED BY <2>1, <2>2 DEF Crash
<1>4. WritesFit'
  BY <1>3 DEF WritesFit, KInv, RotationsFit
<1>5. JournalFits'
  <2>1. /\ loaded' => disk.tail # "unreadable" /\ latest' = disk.latest
        /\ disk'.tail # "unreadable" => disk.tail # "unreadable" /\ disk'.latest = disk.latest
    BY Types DEF Crash, Load, TypeOK
  <2>2. disk.tail # "unreadable" => KeychainFits(disk.latest)
    BY DEF KInv, RotationsFit, JournalFits
  <2> QED BY <1>3, <2>1, <2>2 DEF JournalFits, KeychainFits
<1>6. OwnersFit'
  BY <1>2, Types DEF OwnersFit, Crash
<1>7. ReadsFit'
  BY <1>2 DEF ReadsFit
<1> QED BY <1>4, <1>5, <1>6, <1>7 DEF RotationsFit

LEMMA InitRotations == Init => RotationsFit
<1> SUFFICES ASSUME Init PROVE RotationsFit
  OBVIOUS
<1>1. \A o \in Op : run[o].step = "idle" /\ ~Owner(o) /\ ~Relies(o)
  BY DEF Init, NoRun, Owner, Relies, Replacing
<1>2. Pending = {}
  BY <1>1 DEF Init, Pending, Writing
<1>3. keychain.obtainedAt = 0 /\ latest = None /\ disk.latest = None /\ queue = None
  BY DEF Init
<1>4. JournalFits /\ WritesFit
  BY <1>2, <1>3 DEF JournalFits, WritesFit, KeychainFits, Blocked
<1>5. OwnersFit /\ ReadsFit
  BY <1>1, <1>3, NoneAssumption DEF OwnersFit, ReadsFit
<1> QED BY <1>4, <1>5 DEF RotationsFit

LEMMA RotationsStep == KInv /\ [Next]_vars => RotationsFit'
<1> SUFFICES ASSUME KInv, [Next]_vars PROVE RotationsFit'
  OBVIOUS
<1>1. ASSUME NEW o \in Op, Proceed(o) PROVE RotationsFit'
  <2>1. CASE Submit(o) \/ Withhold(o)
    <3>1. Withhold(o) => run'[o].step # "store"
      BY RunUpdates, Types DEF Withhold, Unresolved
    <3> QED BY <2>1, <3>1, UnansweredFits, AnsweredFits
  <2>2. CASE \/ ReadCredential(o) \/ Decide(o) \/ ReadEvidence(o) \/ Recheck(o)
             \/ Restore(o) \/ GiveUp(o)
    BY <2>2, ReadFits
  <2>3. CASE Store(o) \/ Exchange(o) \/ Verify(o) \/ Write(o)
    BY <2>3, StoreFits, ExchangeFits, VerifyFits, WriteFits
  <2>4. CASE Reserve(o) \/ Replace(o) \/ Confirm(o) \/ Settle(o)
    BY <2>4, ReserveFits, ReplaceFits, ConfirmFits, SettleFits
  <2> QED BY <1>1, <2>1, <2>2, <2>3, <2>4 DEF Proceed
<1>2. CASE SetClock \/ UNCHANGED vars
  <2>1. UNCHANGED <<keychain, flying, disk, latest, loaded, queue, run>>
    BY <1>2 DEF SetClock, keychainVars, journalVars, vars
  <2>2. Pending' = Pending
    BY <2>1 DEF Pending
  <2>3. JournalFits' /\ WritesFit'
    BY <2>1, <2>2 DEF KInv, RotationsFit, JournalFits, WritesFit, KeychainFits
  <2>4. OwnersFit' /\ ReadsFit'
    BY <2>1 DEF KInv, RotationsFit, OwnersFit, ReadsFit, Owner, OwnerFits, SameRotation, Relies, WasStored
  <2> QED BY <2>3, <2>4 DEF RotationsFit
<1> QED BY <1>1, <1>2, StartFits, LandFits, CrashFits DEF Next

\* A journal that lets a refresh start knows the credential in the Keychain.
LEMMA FreshWhenUnblocked == KInv => UnblockedIsFresh
<1> SUFFICES ASSUME KInv, loaded, ~Blocked(latest)
             PROVE  keychain \notin submitted /\ ~Regressed(keychain, latest)
  BY DEF UnblockedIsFresh
<1>1. latest = None \/ (latest # None /\ latest \in Event /\ latest.state \in Terminal
                          /\ latest.result \in Nat)
  BY Types, EventNumbers DEF EventOrNone, Blocked
<1>2. KeychainFits(latest)
  BY DEF KInv, RotationsFit, JournalFits
<1>3. ~Regressed(keychain, latest)
  BY <1>1, <1>2, Types DEF Regressed, KeychainFits
<1>4. \A c \in submitted : Covers(latest, c)
  BY DEF KInv, Inv, TokensCovered, Spent
<1>5. keychain \notin submitted
  BY <1>1, <1>2, <1>4, Types DEF Covers, KeychainFits
<1> QED BY <1>3, <1>5

\* Only a pending credential reaches the Keychain.
LEMMA NewestStep == KInv /\ [Next]_vars => [keychain'.obtainedAt > keychain.obtainedAt]_keychain
<1> SUFFICES ASSUME KInv, Next, keychain' # keychain
             PROVE  keychain'.obtainedAt > keychain.obtainedAt
  BY DEF vars
<1>1. \A o \in Op : ~Start(o)
  BY DEF Start, StartRefresh, StartReauthorization, StartReconciliation, keychainVars
<1>2. ~Crash /\ ~SetClock
  BY DEF Crash, SetClock, keychainVars
<1>3. ASSUME NEW o \in Op, Proceed(o) PROVE keychain' \in Pending
  <2>1. Store(o) \/ Write(o)
    BY <1>3 DEF Proceed, ReadCredential, Decide, Reserve, Submit, Withhold, Exchange, Replace, Verify,
       Confirm, Restore, ReadEvidence, Recheck, Settle, GiveUp, keychainVars
  <2>2. run[o].held \in Pending
    BY <2>1 DEF Store, Write, At, Pending, Writing
  <2>3. keychain' = run[o].held
    BY <2>1 DEF Store, Write, WriteUncertain, Written, NotWritten, MayBeWritten, keychainVars
  <2> QED BY <2>2, <2>3
<1>4. ASSUME NEW c \in flying, Land(c) PROVE keychain' \in Pending
  BY <1>4 DEF Land, Pending
<1> QED BY <1>1, <1>2, <1>3, <1>4 DEF Next, KInv, RotationsFit, WritesFit

\* The journal, in memory and in the file, always tells what the Keychain
\* holds and whether a newer credential may still reach it: the inductive
\* invariant of the Keychain.
THEOREM RotationsAlwaysFit == Spec => []RotationsFit
BY InitInv, InvStep, InitRotations, RotationsStep, PTL DEF Spec, KInv

\* When the journal lets a refresh start, the refresh token in the Keychain is
\* an unused one and at least as new as the journal says, however many
\* operations ran, stopped or failed to append before.
THEOREM AlwaysFreshWhenUnblocked == Spec => []UnblockedIsFresh
BY InitInv, InvStep, InitRotations, RotationsStep, FreshWhenUnblocked, PTL DEF Spec, KInv

\* No write to the Keychain, not even one that arrives after its process was
\* stopped, replaces a credential by one that is not newer.
THEOREM NewestIsAlwaysKept == Spec => NewestIsKept
BY InitInv, InvStep, InitRotations, RotationsStep, NewestStep, PTL DEF Spec, KInv, NewestIsKept

(***************************************************************************)
(* The journal implements RotationJournal                                  *)
(***************************************************************************)

NumberOf(e) == IF e = None THEN 0 ELSE e.sequence
StateOf(e) == IF e = None THEN "none" ELSE e.state
SourceOf(e) == IF e = None THEN 0 ELSE e.source

Journal == INSTANCE RotationJournal
           WITH number <- NumberOf(latest), state <- StateOf(latest),
                source <- SourceOf(latest), readable <- loaded

\* A result is newer than the credential that was renewed.
ResultIsNewer(e) == e # None /\ e.state \in Terminal => e.source < e.result

OneAhead == disk.latest # None /\ Follows(latest, disk.latest)

\* The file is at most one event ahead of the memory: one that was written
\* although the append failed.  A file that cannot be read stays so.
FileFits ==
  /\ ResultIsNewer(latest) /\ ResultIsNewer(disk.latest)
  /\ loaded /\ disk.tail # "unreadable" => disk.latest = latest \/ OneAhead
  /\ ~loaded => latest = None /\ disk.tail = "unreadable"

\* An event that may follow is a step of the abstract journal.
LEMMA FollowsRecords ==
  ASSUME latest \in EventOrNone, latest' \in Event, Follows(latest, latest'),
         ResultIsNewer(latest), loaded, loaded'
  PROVE  Journal!Record
<1> DEFINE e == latest'
<1>1. e # None /\ e.source \in Time /\ e.state \in Terminal \cup Unresolved
  BY NoneAssumption DEF Event
<1>2. /\ NumberOf(latest)' = e.sequence /\ StateOf(latest)' = e.state
      /\ SourceOf(latest)' = e.source
  BY <1>1 DEF NumberOf, StateOf, SourceOf
<1>3. CASE latest = None
  <2>1. e.state = "reserved" /\ e.sequence = 1
    BY <1>3 DEF Follows
  <2>2. NumberOf(latest) = 0 /\ StateOf(latest) = "none"
    BY <1>3 DEF NumberOf, StateOf
  <2> QED BY <1>1, <1>2, <2>1, <2>2 DEF Journal!Record, Journal!Begin
<1>4. CASE latest # None
  <2>1. /\ NumberOf(latest) = latest.sequence /\ StateOf(latest) = latest.state
        /\ SourceOf(latest) = latest.source
    BY <1>4 DEF NumberOf, StateOf, SourceOf
  <2>2. latest \in Event /\ latest.state # "none"
    BY <1>4 DEF EventOrNone, Event, Terminal, Unresolved
  <2>3. CASE /\ latest.state \in Terminal
             /\ e.state = "reserved" /\ e.sequence = latest.sequence + 1
             /\ e.source >= latest.result
    <3>1. latest.source < latest.result
      BY <1>4, <2>3 DEF ResultIsNewer
    <3>2. latest.source \in Nat /\ latest.result \in Nat /\ e.source \in Nat
      BY <1>1, <2>2, <2>3, EventNumbers
    <3>3. e.source > latest.source
      BY <2>3, <3>1, <3>2
    <3> QED
      BY <1>1, <1>2, <2>1, <2>3, <3>3
      DEF Journal!Record, Journal!Begin, Journal!Resolved, Terminal
  <2>4. CASE /\ e.state \in NextStates(latest.state)
             /\ e.sequence = latest.sequence /\ e.source = latest.source
    BY <1>2, <2>1, <2>4
    DEF Journal!Record, Journal!Advance, Journal!NextStates, NextStates
  <2> QED BY <1>4, <2>3, <2>4 DEF Follows
<1> QED BY <1>3, <1>4

\* Whatever becomes of an append, the file is at most one event ahead.
LEMMA AppendImplements ==
  ASSUME TypeOK, TypeOK', FileFits, loaded,
         NEW e, NEW recordedAt, NEW outcome \in Outcomes(e, recordedAt),
         Follows(latest, e) /\ Chronological(e, recordedAt) => e \in Event,
         Append(e, outcome)
  PROVE  FileFits' /\ [Journal!Next]_(Journal!vars)
<1>1. /\ latest \in EventOrNone /\ latest' \in EventOrNone /\ loaded'
      /\ disk \in [latest : EventOrNone, tail : {"clean", "torn", "unreadable"}]
      /\ disk' \in [latest : EventOrNone, tail : {"clean", "torn", "unreadable"}]
  BY DEF TypeOK, EventOrNone, Append
<1>2. CASE outcome \in {"refused", "lost"}
  <2>1. latest' = latest /\ disk' = disk /\ loaded' = loaded
    BY <1>2 DEF Append
  <2> QED
    BY <2>1 DEF FileFits, ResultIsNewer, OneAhead, Journal!vars, NumberOf, StateOf, SourceOf
<1>3. CASE outcome = "torn"
  <2>1. latest' = latest /\ disk' = WithTornLine /\ loaded' = loaded
    BY <1>3 DEF Append
  <2>2. disk'.latest = disk.latest /\ (disk'.tail = "unreadable" <=> disk.tail = "unreadable")
    BY <1>1, <2>1 DEF WithTornLine
  <2>3. FileFits'
    BY <1>1, <2>1, <2>2 DEF FileFits, ResultIsNewer, OneAhead
  <2> QED BY <2>1, <2>3 DEF Journal!vars, NumberOf, StateOf, SourceOf
<1>4. CASE outcome \in {"done", "whole"}
  <2>1. Follows(latest, e) /\ e \in Event /\ (e.state \in Terminal => e.source < e.result)
    BY <1>4 DEF Outcomes, Chronological
  <2>2. ResultIsNewer(e) /\ ResultIsNewer(latest) /\ ResultIsNewer(disk.latest)
    BY <2>1 DEF ResultIsNewer, FileFits
  <2>3. /\ latest' = IF outcome = "done" THEN e ELSE latest
        /\ disk' = WithLine(e)
    BY <1>4 DEF Append
  <2>4. \/ disk'.latest = e /\ disk'.tail = "clean"
        \/ disk'.latest = disk.latest /\ disk'.tail = "unreadable"
    BY <1>1, <2>3 DEF WithLine
  <2>5. ResultIsNewer(latest)' /\ ResultIsNewer(disk.latest)'
    BY <2>2, <2>3, <2>4 DEF ResultIsNewer
  <2>6. CASE outcome = "done"
    <3>1. latest' = e
      BY <2>3, <2>6
    <3>2. FileFits'
      BY <1>1, <2>4, <2>5, <3>1 DEF FileFits
    <3> QED BY <1>1, <2>1, <2>2, <3>1, <3>2, FollowsRecords DEF Journal!Next
  <2>7. CASE outcome = "whole"
    <3>1. latest' = latest /\ UNCHANGED loaded
      BY <2>3, <2>7 DEF Append
    <3>2. disk'.tail # "unreadable" => disk'.latest = latest' \/ OneAhead'
      BY <2>1, <2>4, <3>1, NoneAssumption DEF OneAhead
    <3>3. FileFits'
      BY <1>1, <2>5, <3>2 DEF FileFits
    <3> QED BY <3>1, <3>3 DEF Journal!vars, NumberOf, StateOf, SourceOf
  <2> QED BY <1>4, <2>6, <2>7
<1>5. outcome \in {"done", "refused", "lost", "torn", "whole"}
  BY FailuresAssumption DEF Outcomes
<1> QED BY <1>2, <1>3, <1>4, <1>5

\* A process that starts takes over what the file holds, or loses the journal.
LEMMA LoadImplements ==
  ASSUME TypeOK, TypeOK', FileFits, Load
  PROVE  FileFits' /\ [Journal!Next]_(Journal!vars)
<1>1. /\ latest \in EventOrNone /\ disk.latest \in EventOrNone /\ loaded \in BOOLEAN
      /\ disk \in [latest : EventOrNone, tail : {"clean", "torn", "unreadable"}]
  BY DEF TypeOK, EventOrNone
<1>2. CASE disk.tail = "unreadable"
  <2>1. latest' = None /\ ~loaded' /\ disk' = disk
    BY <1>2 DEF Load
  <2>2. FileFits'
    BY <1>2, <2>1 DEF FileFits, ResultIsNewer
  <2>3. NumberOf(latest)' = 0 /\ StateOf(latest)' = "none" /\ SourceOf(latest)' = 0
    BY <2>1 DEF NumberOf, StateOf, SourceOf
  <2>4. CASE loaded
    BY <2>1, <2>2, <2>3, <2>4 DEF Journal!Next, Journal!Lose, Journal!Nothing
  <2>5. CASE ~loaded
    <3>1. latest = None
      BY <2>5 DEF FileFits
    <3> QED
      BY <1>1, <2>1, <2>2, <2>5, <3>1 DEF TypeOK, Journal!vars, NumberOf, StateOf, SourceOf
  <2> QED BY <2>4, <2>5
<1>3. CASE disk.tail # "unreadable"
  <2>1. latest' = disk.latest /\ loaded' /\ disk'.latest = disk.latest
    BY <1>1, <1>3 DEF Load
  <2>2. FileFits'
    BY <2>1 DEF FileFits, ResultIsNewer
  <2>3. loaded
    BY <1>1, <1>3 DEF FileFits
  <2>4. CASE disk.latest = latest
    BY <2>1, <2>2, <2>3, <2>4 DEF TypeOK, Load, Journal!vars, NumberOf, StateOf, SourceOf
  <2>5. CASE OneAhead
    <3>1. latest' \in Event /\ Follows(latest, latest') /\ ResultIsNewer(latest)
      BY <1>1, <2>1, <2>5 DEF OneAhead, EventOrNone, FileFits
    <3> QED BY <1>1, <2>1, <2>2, <2>3, <3>1, FollowsRecords DEF Journal!Next
  <2> QED BY <1>3, <2>3, <2>4, <2>5 DEF FileFits
<1> QED BY <1>2, <1>3

\* Only appends and restarts touch the journal.
LEMMA JournalMoves ==
  ASSUME KInv, [Next]_vars
  PROVE  \/ UNCHANGED <<disk, latest, loaded>> \/ Load
         \/ /\ loaded
            /\ \E e, recordedAt : \E outcome \in Outcomes(e, recordedAt) :
                 /\ Follows(latest, e) /\ Chronological(e, recordedAt) => e \in Event
                 /\ Append(e, outcome)
<1> DEFINE Appends ==
             /\ loaded
             /\ \E e, recordedAt : \E outcome \in Outcomes(e, recordedAt) :
                  /\ Follows(latest, e) /\ Chronological(e, recordedAt) => e \in Event
                  /\ Append(e, outcome)
<1>1. Inv
  BY DEF KInv
<1>2. ASSUME NEW o \in Op, Settle(o) PROVE Appends
  <2>1. run[o].step = "settle" /\ loaded
    BY <1>2 DEF Settle, At, JournalFree
  <2>2. PICK outcome \in Outcomes(SettlementOf(o), now) : Append(SettlementOf(o), outcome)
    BY <1>2 DEF Settle
  <2>3. Follows(latest, SettlementOf(o)) => SettlementOf(o) \in Event
    BY <1>1, <2>1, SettlementIsEvent
  <2> QED BY <2>1, <2>2, <2>3
<1>3. ASSUME NEW o \in Op, Reserve(o) PROVE Appends
  <2>1. run[o].held \in Credential /\ loaded
    BY <1>3, Types DEF Reserve, At, JournalFree, RunFits, Run
  <2>2. PICK outcome \in Outcomes(ReservationOf(run[o].held), now) :
          Append(ReservationOf(run[o].held), outcome)
    BY <1>3 DEF Reserve
  <2>3. ReservationOf(run[o].held) \in Event
    BY <1>1, <2>1, ReservationIsEvent
  <2> QED BY <2>1, <2>2, <2>3
<1>4. ASSUME NEW o \in Op, Replace(o) PROVE Appends \/ UNCHANGED <<disk, latest, loaded>>
  <2> DEFINE e == [latest EXCEPT !.state = "reauthorization_reserved"]
  <2>1. loaded
    BY <1>4 DEF Replace, JournalFree
  <2>2. CASE AwaitsReauthorization
    <3>1. latest \in Event /\ latest.state = "reauthorization_required"
      BY <2>2, Types DEF AwaitsReauthorization, EventOrNone
    <3>2. e \in Event
      BY <3>1 DEF Event, Unresolved, Terminal
    <3>3. PICK outcome \in Outcomes(e, now) : Append(e, outcome)
      BY <1>4, <2>2 DEF Replace
    <3> QED BY <2>1, <3>2, <3>3
  <2>3. CASE ~AwaitsReauthorization
    BY <1>4, <2>3 DEF Replace
  <2> QED BY <2>2, <2>3
<1>5. ASSUME NEW o \in Op, Confirm(o) PROVE Appends
  <2> DEFINE result == run[o].held.obtainedAt
             e == [run[o].seen EXCEPT !.state = "reauthorized", !.result = result]
  <2>1. run[o].seen \in Event /\ result \in Time /\ loaded
    BY <1>5, Types DEF Confirm, At, RunFits, Run, Credential, KInv, RotationsFit, ReadsFit
  <2>2. e \in Event
    BY <2>1 DEF Event, Terminal
  <2>3. PICK outcome \in Outcomes(e, result) : Append(e, outcome)
    BY <1>5 DEF Confirm
  <2> QED BY <2>1, <2>2, <2>3
<1>6. ASSUME NEW o \in Op, Start(o) PROVE UNCHANGED <<disk, latest, loaded>>
  BY <1>6 DEF Start, StartRefresh, StartReauthorization, StartReconciliation, journalVars
<1>7. ASSUME NEW o \in Op,
             \/ ReadCredential(o) \/ Decide(o) \/ Submit(o) \/ Withhold(o) \/ Store(o)
             \/ Exchange(o) \/ Verify(o) \/ Write(o) \/ Restore(o)
             \/ ReadEvidence(o) \/ Recheck(o) \/ GiveUp(o)
      PROVE  UNCHANGED <<disk, latest, loaded>>
  BY <1>7 DEF ReadCredential, Decide, Submit, Withhold, Store, Exchange, Verify, Write,
              Restore, ReadEvidence, Recheck, GiveUp, journalVars
<1>8. ASSUME NEW o \in Op, Start(o) \/ Proceed(o)
      PROVE  Appends \/ UNCHANGED <<disk, latest, loaded>>
  BY <1>2, <1>3, <1>4, <1>5, <1>6, <1>7, <1>8 DEF Proceed
<1>9. CASE (\E c \in flying : Land(c)) \/ SetClock \/ UNCHANGED vars
  BY <1>9 DEF Land, SetClock, journalVars, vars
<1>10. CASE Crash
  BY <1>10 DEF Crash
<1> QED BY <1>8, <1>9, <1>10 DEF Next

\* The rotation journal keeps its promise whatever appends fail, wholly, in part
\* or after the line was written, whenever the process stops and whatever
\* operations run at the same time: the file that the next process loads goes on
\* where the memory of the last one was, or one event further, and never back
\* (append, load and assertNextEvent).
THEOREM JournalKeepsPromise == Spec => Journal!Spec
<1>1. Init => FileFits /\ Journal!Init
  BY DEF Init, FileFits, ResultIsNewer, Journal!Init, Journal!Nothing,
         NumberOf, StateOf, SourceOf
<1>2. KInv /\ KInv' /\ FileFits /\ [Next]_vars => FileFits' /\ [Journal!Next]_(Journal!vars)
  <2> SUFFICES ASSUME KInv, KInv', FileFits, [Next]_vars
               PROVE  FileFits' /\ [Journal!Next]_(Journal!vars)
    OBVIOUS
  <2>1. TypeOK /\ TypeOK'
    BY DEF KInv, Inv
  <2>2. CASE UNCHANGED <<disk, latest, loaded>>
    BY <2>2 DEF FileFits, ResultIsNewer, OneAhead, Journal!vars, NumberOf, StateOf, SourceOf
  <2>3. CASE Load
    BY <2>1, <2>3, LoadImplements
  <2> QED BY <2>1, <2>2, <2>3, AppendImplements, JournalMoves
<1>3. Spec => []KInv
  BY InitInv, InvStep, InitRotations, RotationsStep, PTL DEF Spec, KInv
<1> QED BY <1>1, <1>2, <1>3, PTL DEF Spec, Journal!Spec
=============================================================================
