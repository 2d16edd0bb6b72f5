------------------------------- MODULE WebPages -------------------------------
(***************************************************************************)
(* The application in the browser: the Inbox page, or the Connectors page  *)
(* with the settings, the authorization and the check of the stored        *)
(* credential.  Leaving one page for the other loads the other anew.  The  *)
(* parts have no variables in common: what others do to the Keychain and   *)
(* to the rotation journal are steps of the surroundings in                *)
(* OAuthAuthorization and in Reconciliation.  So a behaviour is one of a   *)
(* single part; tabs that show the same page meet in what the host keeps   *)
(* for it.                                                                 *)
(***************************************************************************)
EXTENDS OAuthAuthorization

CONSTANTS Part,                                            \* bound: the parts that are used
          Item, Slow, MaxRevision, MaxRestores, MaxLoads,  \* of InboxPage
          Page, MaxSaves, MaxSettingsLoads, MaxRestarts,   \* of ConnectorSettings
          Call, MaxTime, MaxRows, MaxSequence, MaxStops,   \* of Reconciliation
          AppendFailures

VARIABLES
  part,  \* the part of the application that is used
  flows, listed, loading, loads, asked, ready, selected, draft, proposal, approval,
  execution, flowRequest, flowLoading, restores, posts,
  identity, oauth, untold, waiting, token, save, reads, shown, said, saves, loaded,
  now, rotation, file, readable, active, renewing, credential, rows, phase, call, stops

inboxPage == <<flows, listed, loading, loads, asked, ready, selected, draft, proposal,
               approval, execution, flowRequest, flowLoading, restores, posts>>
connectors == <<identity, oauth, untold, waiting, token, save, reads, shown, said,
                saves, loaded>>
recovery == <<now, rotation, file, readable, active, renewing, credential, rows, phase,
              call, stops>>

Inbox == INSTANCE InboxPage WITH stored <- flows
Settings == INSTANCE ConnectorSettings
Recovery == INSTANCE Reconciliation
              WITH journal <- rotation, keychain <- credential, crashes <- stops,
                   MaxCrashes <- MaxStops

\* The page's bounds, and nothing is no item, no result and no click.
ASSUME InboxAssumption ==
  /\ Slow \subseteq Inbox!Service
  /\ MaxRevision \in Nat \ {0} /\ MaxRestores \in Nat /\ MaxLoads \in Nat
  /\ None \notin Item \cup Inbox!Flow \cup Inbox!Post \cup Inbox!Draft \cup Inbox!Preview
                 \cup Inbox!Approval \cup Inbox!Execution

\* Nobody and nothing is no tab, no file and no save.
ASSUME SettingsAssumption ==
  /\ MaxSaves \in Nat /\ MaxSettingsLoads \in Nat /\ MaxRestarts \in Nat
  /\ None \notin Page \cup Settings!IdentityFile \cup Settings!OAuthFile \cup Settings!Save

\* The bounds are numbers, and nothing is no result.
ASSUME RecoveryAssumption ==
  /\ MaxTime \in Nat /\ MaxRows \in Nat /\ MaxSequence \in Nat \ {0} /\ MaxStops \in Nat
  /\ None \notin Recovery!Result
  /\ AppendFailures \subseteq {"lost", "torn", "whole"}

\* What is stored before an authorization matters to that part only.
RouteInit ==
  /\ part \in Part \cap {"inbox", "settings", "authorization", "recovery"}
  /\ Inbox!Init /\ Settings!Init /\ Recovery!Init /\ Init
  /\ part # "authorization" => keychain = None

RouteNext ==
  \/ part = "inbox" /\ Inbox!Next /\ UNCHANGED <<part, connectors, recovery, vars>>
  \/ part = "settings" /\ Settings!Next /\ UNCHANGED <<part, inboxPage, recovery, vars>>
  \/ part = "authorization" /\ Next /\ UNCHANGED <<part, inboxPage, connectors, recovery>>
  \/ part = "recovery" /\ Recovery!Next /\ UNCHANGED <<part, inboxPage, connectors, vars>>

RouteSpec == RouteInit /\ [][RouteNext]_<<part, inboxPage, connectors, recovery, vars>>

FairRouteSpec == RouteSpec /\ Inbox!Fairness /\ Settings!Fairness /\ Fairness

(***************************************************************************)
(* Properties                                                              *)
(***************************************************************************)

\* What the Connectors page calls saved is in the files of the host, whatever
\* is saved from other tabs, and the runtime was told of it
\* (ConnectorSettings!SavedIsStored).
SavedIsStored == Settings!SavedIsStored

\* Whatever answers arrive late, a click posts what is on the screen
\* (InboxPage!PostedIsShown).
PostedIsShown == Inbox!PostedIsShown

\* The audits of the checks of the stored credential are true, whoever ends
\* rotations and whoever settles the operation (Reconciliation!ResultsAreTrue).
ResultsAreTrue == Recovery!ResultsAreTrue

\* Neither page waits for ever: the Inbox stops saying that it restores the
\* flow, and a save of the settings is answered.
PagesSettle == Inbox!PageSettles /\ Settings!SavesAreAnswered
===============================================================================
