----------------------------- MODULE UserPolling -----------------------------
(***************************************************************************)
(* How messages reach the inbox.  The polling loop searches Feishu with    *)
(* the User's credential, one page at a time: it reads the cursor and the  *)
(* clock, asks for a page, and commits what it got with the next cursor.   *)
(* While it waits for the page, callbacks commit messages that Feishu      *)
(* sends to the Bot, and people go on writing, editing and recalling.      *)
(*                                                                         *)
(* Normalization and commit are synchronous in the code, so that each page *)
(* and each callback is one step.  Receipts of callbacks only suppress     *)
(* replays that would change nothing here.                                 *)
(***************************************************************************)
EXTENDS InboxStore

CONSTANTS
  InitialLookback, Overlap, IndexingDelay,  \* options of the discoverer
  MaxIndexing,     \* how long Feishu takes to index a message
  MaxBehind,       \* bound: how far the local clock lags behind Feishu's
  MaxTime,         \* bound: the last instant
  BotIsAdded,      \* whether a Bot identity is added to the User's
  Delivered,       \* bound: the messages that Feishu sends to the Bot
  Edited           \* bound: the messages that people edit or recall

ASSUME OptionsAssumption ==
  /\ {InitialLookback, Overlap, IndexingDelay, MaxIndexing, MaxBehind, MaxTime} \subseteq Nat
  /\ Overlap < InitialLookback /\ MaxIndexing <= IndexingDelay + Overlap
  /\ BotIsAdded \in BOOLEAN
  /\ Delivered \subseteq Msg /\ Edited \subseteq Msg

VARIABLES
  now, behind,  \* Feishu's clock, and the lag of the local one
  feishu,       \* the messages at Feishu
  bot,          \* whether the settings hold a Bot identity
  uses,         \* whether the loop was started with a Bot identity
  search,       \* the search the loop is waiting for
  stopped,      \* why the loop has stopped, or None
  since         \* history: the start of the first window

vars == <<store, now, behind, feishu, bot, uses, search, stopped, since>>
environment == <<now, behind, feishu>>
configuration == <<bot, uses>>

Client == INSTANCE MessageSearch

Message == [created : Nat, type : Type, at : Nat, indexed : BOOLEAN]
Search == [observedAt : Nat, start : Nat, end : Nat, token : Nat]
Reason == {"observed_early", "event_conflict", "projection_conflict",
           "cursor_regression", "invalid_cursor", "search_failed"}

ASSUME NoneAssumption ==
  /\ None \notin Nat \cup Cursor \cup Window \cup Thread
  /\ None \notin Message \cup Search \cup Reason

Minus(a, b) == IF a > b THEN a - b ELSE 0
Clock == Minus(now, behind)
Searchable == Minus(Clock, IndexingDelay)
Exists(m) == feishu[m] # None

(***************************************************************************)
(* The polling loop                                                        *)
(***************************************************************************)

\* Mutated form: a new window starts where the last one ended.
WindowStartAtWatermark ==
  IF cursor = None \/ cursor.watermark = None
    THEN Minus(Searchable, InitialLookback)
    ELSE cursor.watermark

\* A new window: the initial lookback, or from shortly before the watermark.
WindowStart ==
  IF cursor = None \/ cursor.watermark = None
    THEN Minus(Searchable, InitialLookback)
    ELSE Minus(cursor.watermark, Overlap)

InWindow == cursor # None /\ cursor.window # None
CaughtUp == /\ cursor # None /\ cursor.window = None
            /\ cursor.watermark # None /\ Searchable <= cursor.watermark

CursorIsNewer == cursor # None /\ cursor.updatedAt > Clock

\* The clock has passed the first lookback after the epoch.
ClockIsSet == Searchable >= InitialLookback

Waiting == stopped = None /\ search # None
Idle == stopped = None /\ search = None /\ ClockIsSet

\* discover() up to the request; a caught-up loop only waits.
BeginSearch ==
  /\ Idle /\ ~CursorIsNewer /\ ~CaughtUp
  /\ search' = IF InWindow
                 THEN [observedAt |-> Clock, start |-> cursor.window.start,
                       end |-> cursor.window.end, token |-> cursor.window.token]
                 ELSE [observedAt |-> Clock, start |-> WindowStart,
                       end |-> Searchable, token |-> 0]
  /\ UNCHANGED <<store, environment, configuration, stopped, since>>

\* The local clock is behind the cursor.
RejectCursor ==
  /\ Idle /\ CursorIsNewer
  /\ stopped' = "invalid_cursor"
  /\ UNCHANGED <<store, environment, configuration, search, since>>

ClientFailure(code) == IF Client!Retryable(code) THEN None ELSE "search_failed"

SearchErrors == [hasPageToken \in BOOLEAN |-> Client!SearchErrors(hasPageToken)]

SearchFailures ==
  [hasPageToken \in BOOLEAN |->
     {ClientFailure(code) : code \in SearchErrors[hasPageToken] \ {"invalid_page_token"}}]

\* The search fails: it is retried after a delay, or the loop stops.
SearchFails ==
  /\ Waiting
  /\ search' = None
  /\ stopped' \in SearchFailures[search.token # 0]
  /\ UNCHANGED <<store, environment, configuration, since>>

\* Feishu rejects the page token; the same window is searched from its start.
TokenExpires ==
  /\ Waiting /\ search.token # 0
  /\ "invalid_page_token" \in SearchErrors[TRUE]
  /\ search' = [search EXCEPT !.token = 0]
  /\ UNCHANGED <<store, environment, configuration, stopped, since>>

\* What the search has still to list; Feishu searches by the time of creation.
Found ==
  {m \in Msg : /\ Exists(m) /\ feishu[m].indexed
               /\ feishu[m].created \in search.start .. search.end
               /\ m > search.token}

\* A page lists what is found up to some message, at least one if there are any.
LastOnPage == IF Found = {} THEN {search.token} ELSE Found
Page(last) == {m \in Found : m <= last}
UnavailableOn(last) ==
  {U \in SUBSET Page(last) : U = {} \/ "unavailable" \in Client!ItemOutcomes}

\* Mutated form: an unfinished window already counts as searched.
CandidateAhead(last, unavailable) ==
  IF unavailable # {} THEN None
  ELSE [watermark |-> search.end,
        window |-> IF Page(last) = Found THEN None
                   ELSE [start |-> search.start, end |-> search.end, token |-> last],
        updatedAt |-> search.observedAt]

\* The cursor after a page, or None when details of some message are missing.
Candidate(last, unavailable) ==
  IF unavailable # {} THEN None
  ELSE [watermark |-> IF Page(last) = Found THEN search.end
                      ELSE IF cursor = None THEN None ELSE cursor.watermark,
        window |-> IF Page(last) = Found THEN None
                   ELSE [start |-> search.start, end |-> search.end, token |-> last],
        updatedAt |-> search.observedAt]

Batch(last, unavailable) ==
  {NormalizeMessage(m, feishu[m], uses) : m \in Page(last) \ unavailable}

\* The page arrives, is normalized and committed; a refused batch stops the loop.
CommitPage ==
  /\ Waiting
  /\ search' = None
  /\ \E last \in LastOnPage : \E unavailable \in UnavailableOn(last) :
       LET batch == Batch(last, unavailable)
           candidate == Candidate(last, unavailable)
           refusal == Refusal(batch, search.observedAt, candidate)
       IN  /\ stopped' = refusal
           /\ IF refusal = None
                THEN CommitConnectorSyncBatch(batch, search.observedAt, candidate)
                ELSE UNCHANGED store
           /\ since' = IF cursor = None /\ refusal = None /\ candidate # None
                         THEN search.start ELSE since
  /\ UNCHANGED <<environment, configuration>>

(***************************************************************************)
(* Bot callbacks                                                           *)
(***************************************************************************)

\* Feishu delivers a message to the Bot, at least once and at any later time.
\* A refused callback changes nothing, and Feishu sends it again.
Callback(m) ==
  LET state == [type |-> "message.received", at |-> feishu[m].created]
      batch == {NormalizeMessage(m, state, TRUE)}
  IN  /\ bot /\ m \in Delivered /\ Exists(m)
      /\ Refusal(batch, Clock, None) = None
      /\ CommitConnectorSyncBatch(batch, Clock, None)
      /\ UNCHANGED <<environment, configuration, search, stopped, since>>

(***************************************************************************)
(* Settings, restarts and the environment                                  *)
(***************************************************************************)

\* A Bot identity is added to the connection of the User.
AddBot ==
  /\ BotIsAdded /\ ~bot
  /\ bot' = TRUE
  /\ UNCHANGED <<store, environment, uses, search, stopped, since>>

\* The loop is started anew, by the supervisor or with the host.
Restart ==
  /\ uses' = bot /\ search' = None /\ stopped' = None
  /\ UNCHANGED <<store, environment, bot, since>>

Create(m) ==
  /\ ~Exists(m)
  /\ feishu' = [feishu EXCEPT ![m] =
       [created |-> now, type |-> "message.received", at |-> now, indexed |-> FALSE]]
  /\ UNCHANGED <<store, now, behind, configuration, search, stopped, since>>

Index(m) ==
  /\ Exists(m) /\ ~feishu[m].indexed
  /\ feishu' = [feishu EXCEPT ![m].indexed = TRUE]
  /\ UNCHANGED <<store, now, behind, configuration, search, stopped, since>>

\* One edit, and a recall.
Edit(m) ==
  /\ m \in Edited /\ Exists(m)
  /\ \/ feishu[m].type = "message.received"
        /\ feishu' = [feishu EXCEPT ![m].type = "message.updated", ![m].at = now]
     \/ feishu[m].type # "message.deleted"
        /\ feishu' = [feishu EXCEPT ![m].type = "message.deleted", ![m].at = now]
  /\ UNCHANGED <<store, now, behind, configuration, search, stopped, since>>

Tick ==
  /\ now < MaxTime
  /\ \A m \in Msg : Exists(m) => feishu[m].indexed \/ now < feishu[m].created + MaxIndexing
  /\ now' = now + 1
  /\ UNCHANGED <<store, behind, feishu, configuration, search, stopped, since>>

SetClock ==
  /\ behind' \in 0 .. MaxBehind
  /\ UNCHANGED <<store, now, feishu, configuration, search, stopped, since>>

Init ==
  /\ StoreInit
  /\ now = 0 /\ behind = 0
  /\ feishu = [m \in Msg |-> None]
  /\ bot \in {FALSE, ~BotIsAdded} /\ uses = bot
  /\ search = None /\ stopped = None /\ since = None

Next ==
  \/ BeginSearch \/ RejectCursor \/ SearchFails \/ TokenExpires \/ CommitPage
  \/ AddBot \/ Restart \/ Tick \/ SetClock
  \/ \E m \in Msg : Callback(m) \/ Create(m) \/ Index(m) \/ Edit(m)

Spec == Init /\ [][Next]_vars

(***************************************************************************)
(* Properties                                                              *)
(***************************************************************************)

TypeOK ==
  /\ StoreTypeOK
  /\ now \in 0 .. MaxTime /\ behind \in 0 .. MaxBehind
  /\ feishu \in [Msg -> Message \cup {None}]
  /\ bot \in BOOLEAN /\ uses \in BOOLEAN
  /\ search \in Search \cup {None}
  /\ stopped \in Reason \cup {None}
  /\ since \in Nat \cup {None}

\* A message that can be found late is only searched for by a later window.
Slack == Minus(MaxIndexing, IndexingDelay)

\* Every message created since the first window began and, by the time it takes to be
\* indexed, before the watermark is stored: no order of late indexing, expired tokens,
\* missing details, failures, edits, restarts and clock changes makes the windows skip
\* one (FeishuUserMessageDiscoverer.discover with commitConnectorSyncBatch).
NothingSkipped ==
  cursor # None /\ cursor.watermark # None =>
    \A m \in Msg :
      Exists(m) /\ feishu[m].created >= since
        /\ feishu[m].created + Slack < cursor.watermark
      => \E e \in event : e.message = m

\* A message state has one event, whichever of the two paths, and however many pages,
\* have brought it (ingestExternalEventsInTransaction).
OneEventPerState == \A e, f \in event : SameState(e, f) => e = f

\* A thread has exactly the stored events of its conversation, and its work item shows
\* a newest one, although edits, recalls and first versions arrive in any order
\* (projectionGroups with putWorkItemProjectionInTransaction).
ThreadsShowTheNewest ==
  \A c \in Conversations :
    LET events == {e \in event : Conversation[e.message] = c}
    IN  IF thread[c] = None THEN events = {}
        ELSE thread[c].events = events /\ thread[c].shown \in Newest(events)

\* The storage's protection against cursors that go back never fires: the discoverer
\* compares the cursor with the clock first (discover, assertForwardCursor).
CursorIsNeverRefused == stopped # "cursor_regression"

Position(c) == IF c = None \/ c.watermark = None THEN 0 ELSE c.watermark

\* The watermark never goes back, and it only advances to the end of a window of which
\* every page is committed: to the end of the unfinished window, if there is one.
WatermarkFollowsWindows ==
  [][/\ Position(cursor') >= Position(cursor)
     /\ Position(cursor') # Position(cursor) =>
          /\ cursor'.window = None
          /\ InWindow => cursor'.watermark = cursor.window.end]_vars
===============================================================================
