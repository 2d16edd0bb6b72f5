--------------------------- MODULE ConnectorSettings ---------------------------
(***************************************************************************)
(* The Feishu settings on the Connectors page, and the host that keeps     *)
(* them in two files: the identities of one app, which are only ever       *)
(* added, and the OAuth settings.  Every save reads the identities, writes *)
(* a whole file and reads the settings back, over several awaits; pages in *)
(* several tabs save and load at any time, with capabilities that may be   *)
(* out of date, and the host may be started anew in between.               *)
(*                                                                         *)
(* What a page enters is told apart by the page, so that a file shows      *)
(* whose save it holds; names, principals, ports and scopes are left out.  *)
(***************************************************************************)
EXTENDS Naturals, Sequences

CONSTANTS
  None,
  Page,        \* open tabs of the Connectors page
  MaxSaves,    \* bound: saves
  MaxSettingsLoads,    \* bound: loads
  MaxRestarts  \* bound: restarts of the host

Identities == {"user", "bot"}
Kind == Identities \cup {"oauth"}

VARIABLES
  identity, \* the file of identities: its app, and who entered each of them
  oauth,    \* the file of OAuth settings: the app they are for, who entered them
  waiting,  \* the host's saves, one after the other
  untold,   \* saves in the files of which the runtime was not told
  token,    \* the write token of the running host
  save,     \* the save each page waits for
  reads,    \* loads under way
  shown,    \* what each page has of the settings, and what it may do
  said,     \* the save of which a page says that it is stored
  saves, loaded  \* number of saves and of loads

files == <<identity, oauth, untold>>
host == <<waiting, token>>
page == <<shown, said, saves, loaded>>
vars == <<files, host, save, reads, page>>

\* What is entered: an identity, with whether it is the first one of a new
\* connection, or the settings of the authorization.
IdentityCreate == [kind : Identities, mode : {"new", "existing"}]
OAuthUpdate == [kind : {"oauth"}, mode : {None}]

\* The files, and what the page is told of them.
IdentityFile ==
  {f \in [app : Page, user : Page \cup {None}, bot : Page \cup {None}] :
     f.user # None \/ f.bot # None}
OAuthFile == [app : Page, by : Page]
OAuthView == {None, "matches", "differs"}
Snapshot == [identities : SUBSET Identities, oauth : OAuthView]

Mode == {"new", "existing", None}
Answer == [settings : Snapshot, user : Mode, bot : Mode, token : 0..MaxRestarts]

Save == [update : IdentityCreate \cup OAuthUpdate, token : 0..MaxRestarts,
         step : {"posted", "waiting", "read", "written", "answered"},
         seen : IdentityFile \cup {None}, answer : Answer \cup {None}]

\* A load reads both files, in any order.
Load == [page : Page, newest : BOOLEAN, step : {"asked", "answered"},
         left : SUBSET {"identity", "oauth"},
         identity : IdentityFile \cup {None}, oauth : OAuthFile \cup {None},
         answer : Answer \cup {None}]

TypeOK ==
  /\ identity \in IdentityFile \cup {None} /\ oauth \in OAuthFile \cup {None}
  /\ untold \subseteq Page \X Kind
  /\ waiting \in Seq(Page) /\ token \in 0..MaxRestarts
  /\ save \in [Page -> Save \cup {None}] /\ reads \subseteq Load
  /\ shown \in [Page -> Answer \cup {None}] /\ said \in [Page -> Kind \cup {None}]
  /\ saves \in 0..MaxSaves /\ loaded \in 0..MaxSettingsLoads

Init ==
  /\ identity = None /\ oauth = None /\ untold = {}
  /\ waiting = <<>> /\ token = 0
  /\ save = [p \in Page |-> None] /\ reads = {}
  /\ shown = [p \in Page |-> None] /\ said = [p \in Page |-> None]
  /\ saves = 0 /\ loaded = 0

(***************************************************************************)
(* The files                                                               *)
(***************************************************************************)

Holds(file, k) == file # None /\ file[k] # None

\* An identity is created once.  The first one brings the app, and the page must
\* have known whether it was the first.
MayCreate(create, file) ==
  /\ create \in IdentityCreate
  /\ ~Holds(file, create.kind)
  /\ create.mode = (IF file = None THEN "new" ELSE "existing")

\* The new file is what was read of the old one, with the new identity.
Created(k, p, file) ==
  IF file = None THEN [[app |-> p, user |-> None, bot |-> None] EXCEPT ![k] = p]
  ELSE [file EXCEPT ![k] = p]

\* OAuth settings are those of the app of a User identity.
MayUpdate(update, file) == update \in OAuthUpdate /\ Holds(file, "user")

Updated(p, file) == [app |-> file.app, by |-> p]

\* What the page is told of the two files.
SettingsOf(file, authorization) ==
  [identities |-> {k \in Identities : Holds(file, k)},
   oauth |-> IF authorization = None THEN None
             ELSE IF file # None /\ file.app = authorization.app THEN "matches" ELSE "differs"]

\* How the page may create an identity that is missing.
CreationMode(k, settings) ==
  IF k \in settings.identities THEN None
  ELSE IF settings.identities = {} THEN "new" ELSE "existing"

AnswerWith(settings) ==
  [settings |-> settings, user |-> CreationMode("user", settings),
   bot |-> CreationMode("bot", settings), token |-> token]

(***************************************************************************)
(* A save at the host                                                      *)
(***************************************************************************)

At(p, step) == save[p] # None /\ save[p].step = step

\* The save whose turn it is has ended, and the next one has its turn.
Leaves == waiting' = Tail(waiting)

\* Failing, a save is answered with 503, whatever it wrote.
Fails(p) == save' = [save EXCEPT ![p] = [@ EXCEPT !.step = "answered", !.answer = None]]

Goes(p, step, file) == save' = [save EXCEPT ![p] = [@ EXCEPT !.step = step, !.seen = file]]

\* The token must be that of the running host.
MayWrite(p) == save[p].token = token

ServeSave(p) ==
  /\ At(p, "posted")
  /\ IF MayWrite(p) /\ save[p].update \in IdentityCreate \cup OAuthUpdate
     THEN Goes(p, "waiting", None) /\ waiting' = Append(waiting, p)
     ELSE Fails(p) /\ UNCHANGED waiting
  /\ UNCHANGED <<files, token, reads, page>>

\* Mutated form: saves of different kinds do not wait for each other.
TurnOfItsKind(p) == \A q \in Page \ {p} : save[q] # None => save[q].update.kind # save[p].update.kind

\* The host runs its saves one after the other, in the order of their requests.
Turn(p) == waiting # <<>> /\ Head(waiting) = p

FailsAndLeaves(p) == Fails(p) /\ Leaves

\* No file is no failure; one that is a link, too large or unreadable is.
ReadExisting(p) ==
  /\ At(p, "waiting") /\ Turn(p)
  /\ \/ /\ MayCreate(save[p].update, identity) \/ MayUpdate(save[p].update, identity)
        /\ Goes(p, "read", identity) /\ UNCHANGED waiting
     \/ FailsAndLeaves(p)
  /\ UNCHANGED <<files, token, reads, page>>

\* What is in the file's place must not be something else.
Unsafe(p) == FailsAndLeaves(p) /\ UNCHANGED <<identity, oauth, untold>>

\* The file is replaced by a rename; before it, nothing has changed.
WriteIdentity(p) ==
  /\ At(p, "read") /\ save[p].update.kind \in Identities
  /\ \/ /\ identity' = Created(save[p].update.kind, p, save[p].seen)
        /\ untold' = untold \cup {<<p, save[p].update.kind>>}
        /\ Goes(p, "written", None) /\ UNCHANGED <<oauth, waiting>>
     \/ Unsafe(p)
  /\ UNCHANGED <<token, reads, page>>

\* After the rename the directory is synchronised, which may fail as well.
WriteOAuth(p) ==
  /\ At(p, "read") /\ save[p].update.kind = "oauth"
  /\ \/ /\ oauth' = Updated(p, save[p].seen)
        /\ untold' = untold \cup {<<p, "oauth">>}
        /\ \/ Goes(p, "written", None) /\ UNCHANGED waiting
           \/ FailsAndLeaves(p)
        /\ UNCHANGED identity
     \/ Unsafe(p)
  /\ UNCHANGED <<token, reads, page>>

\* The settings that are read back must show the save.
Shows(settings, k) ==
  IF k \in Identities THEN k \in settings.identities
  ELSE "user" \in settings.identities /\ settings.oauth = "matches"

\* The runtime is told, which reads both files anew, and the settings are read back.
TellAndReadBack(p) ==
  LET settings == SettingsOf(identity, oauth) IN
  /\ At(p, "written")
  /\ untold' = {}
  /\ \/ /\ Shows(settings, save[p].update.kind)
        /\ save' = [save EXCEPT ![p] = [@ EXCEPT !.step = "answered", !.answer = AnswerWith(settings)]]
     \/ Fails(p)
  /\ Leaves
  /\ UNCHANGED <<identity, oauth, token, reads, page>>

(***************************************************************************)
(* The page                                                                *)
(***************************************************************************)

\* One save of a page at a time.
CanSave(p) == save[p] = None /\ shown[p] # None

Post(p, update) ==
  /\ CanSave(p) /\ saves < MaxSaves
  /\ save' = [save EXCEPT ![p] =
       [update |-> update, token |-> shown[p].token, step |-> "posted", seen |-> None,
        answer |-> None]]
  /\ said' = [said EXCEPT ![p] = None]
  /\ saves' = saves + 1
  /\ UNCHANGED <<files, host, reads, shown, loaded>>

\* An identity is entered in the form for it, which the page shows as far as it
\* knows that the identity is missing.
Submit(p, k) ==
  /\ CanSave(p) /\ shown[p][k] # None
  /\ Post(p, [kind |-> k, mode |-> shown[p][k]])

SaveFeishuUserIdentity(p) == Submit(p, "user")
SaveFeishuBotIdentity(p) == Submit(p, "bot")
SaveFeishuOAuthSettings(p) == Post(p, [kind |-> "oauth", mode |-> None])

\* The capabilities of an answer must fit its settings.
ModeFits(k, mode, settings) ==
  mode # None =>
    /\ k \notin settings.identities
    /\ mode = "new" <=> settings.identities = {}

Fits(answer) == \A k \in Identities : ModeFits(k, answer[k], answer.settings)

ApplyFeishuSettings(p, answer) == shown' = [shown EXCEPT ![p] = answer]

\* A save that failed says so and leaves what is shown.
SaveAnswered(p) ==
  /\ At(p, "answered")
  /\ LET answer == save[p].answer IN
     IF answer # None /\ Fits(answer) /\ Shows(answer.settings, save[p].update.kind)
     THEN /\ ApplyFeishuSettings(p, answer)
          /\ said' = [said EXCEPT ![p] = save[p].update.kind]
     ELSE UNCHANGED <<shown, said>>
  /\ save' = [save EXCEPT ![p] = None]
  /\ UNCHANGED <<files, host, reads, saves, loaded>>

LoadSettings(p) ==
  /\ loaded < MaxSettingsLoads /\ loaded' = loaded + 1
  /\ reads' = {IF l.page = p THEN [l EXCEPT !.newest = FALSE] ELSE l : l \in reads}
              \cup {[page |-> p, newest |-> TRUE, step |-> "asked",
                left |-> {"identity", "oauth"}, identity |-> None, oauth |-> None,
                answer |-> None]}
  /\ UNCHANGED <<files, host, save, shown, said, saves>>

Becomes(l, changed) == reads' = (reads \ {l}) \cup {changed}

Answers(l, answer) ==
  Becomes(l, [l EXCEPT !.step = "answered", !.left = {}, !.identity = None, !.oauth = None,
                       !.answer = answer])

\* A load does not wait for saves, which may come between the two files.
ReadIdentityFile(l) ==
  "identity" \in l.left /\ Becomes(l, [l EXCEPT !.left = @ \ {"identity"}, !.identity = identity])

ReadOAuthFile(l) ==
  "oauth" \in l.left /\ Becomes(l, [l EXCEPT !.left = @ \ {"oauth"}, !.oauth = oauth])

ServeLoad(l) ==
  /\ l.step = "asked"
  /\ \/ ReadIdentityFile(l) \/ ReadOAuthFile(l)
     \/ l.left = {} /\ Answers(l, AnswerWith(SettingsOf(l.identity, l.oauth)))
     \/ Answers(l, None)
  /\ UNCHANGED <<files, host, save, page>>

\* Only the newest load counts; a save that was answered meanwhile does not matter.
LoadAnswered(l) ==
  /\ l.step = "answered"
  /\ IF ~l.newest THEN UNCHANGED shown
     ELSE ApplyFeishuSettings(l.page,
            IF l.answer # None /\ Fits(l.answer) THEN l.answer ELSE None)
  /\ reads' = reads \ {l}
  /\ UNCHANGED <<files, host, save, said, saves, loaded>>

\* The host stops and starts: its requests fail, its token is another one, and
\* the runtime begins with what is stored.
Restart ==
  /\ token < MaxRestarts /\ token' = token + 1
  /\ waiting' = <<>> /\ untold' = {}
  /\ save' = [p \in Page |-> IF save[p] = None \/ At(p, "answered") THEN save[p]
                             ELSE [save[p] EXCEPT !.step = "answered", !.answer = None]]
  /\ reads' = {IF l.step = "answered" THEN l
               ELSE [l EXCEPT !.step = "answered", !.left = {}, !.identity = None,
                              !.oauth = None] : l \in reads}
  /\ UNCHANGED <<identity, oauth, page>>

Served(p) ==
  \/ ServeSave(p) \/ ReadExisting(p) \/ WriteIdentity(p) \/ WriteOAuth(p)
  \/ TellAndReadBack(p)

Next ==
  \/ \E p \in Page :
       \/ SaveFeishuUserIdentity(p) \/ SaveFeishuBotIdentity(p) \/ SaveFeishuOAuthSettings(p)
       \/ Served(p) \/ SaveAnswered(p) \/ LoadSettings(p)
  \/ \E l \in reads : ServeLoad(l) \/ LoadAnswered(l)
  \/ Restart

Spec == Init /\ [][Next]_vars

\* File operations and local requests end, if only by failing.
Fairness == \A p \in Page : WF_vars(Served(p)) /\ WF_vars(SaveAnswered(p))

FairSpec == Spec /\ Fairness

(***************************************************************************)
(* Properties                                                              *)
(***************************************************************************)

\* What a page calls saved is in the files, whatever is saved from other pages
\* in between or afterwards, and the runtime was told of it: no save undoes an
\* earlier one by writing back what it read before (pendingSettingsUpdate).
SavedIsStored ==
  \A p \in Page : said[p] # None =>
    /\ <<p, said[p]>> \notin untold
    /\ said[p] \in Identities => identity # None /\ identity[said[p]] = p
    /\ said[p] = "oauth" =>
         oauth # None /\ Holds(identity, "user") /\ oauth.app = identity.app

\* A save is answered, also after one that failed.
SavesAreAnswered == \A p \in Page : []<>(save[p] = None)
=============================================================================
