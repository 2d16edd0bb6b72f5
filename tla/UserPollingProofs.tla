-------------------------- MODULE UserPollingProofs --------------------------
(***************************************************************************)
(* For any messages, options and clocks: polling skips no message, keeps   *)
(* one event for each state of a message, shows a newest one of each       *)
(* conversation, and never offers a cursor that the storage has to refuse. *)
(***************************************************************************)
EXTENDS UserPolling, WellFoundedInduction, TLAPS

(***************************************************************************)
(* The inductive invariant                                                 *)
(***************************************************************************)

Typed ==
  /\ now \in Nat /\ behind \in Nat
  /\ feishu \in [Msg -> Message \cup {None}]
  /\ cursor \in Cursor \cup {None}
  /\ search \in Search \cup {None}
  /\ since \in Nat \cup {None}

\* Feishu indexes every message in time.
IndexedInTime ==
  \A m \in Msg : Exists(m) =>
    /\ feishu[m].created <= now
    /\ ~feishu[m].indexed => now <= feishu[m].created + MaxIndexing

Stored(m) == \E e \in event : e.message = m

\* Message m can be found by a search of a window that ends at the given time.
Due(m, end) == Exists(m) /\ feishu[m].created + Slack < end

\* A window under way joins what is already covered, and what it has listed is stored.
WindowFits(start, end, token) ==
  /\ end + IndexingDelay <= now
  /\ cursor # None =>
       /\ cursor.watermark = None => start = since
       /\ cursor.watermark # None =>
            cursor.watermark <= end /\ start = Minus(cursor.watermark, Overlap)
  /\ \A m \in Msg :
       Due(m, end) /\ feishu[m].created >= start /\ m <= token => Stored(m)

CursorFits ==
  cursor # None =>
    /\ since # None
    /\ cursor.watermark # None => cursor.watermark + IndexingDelay <= now
    /\ cursor.watermark = None => cursor.window # None
    /\ cursor.window # None =>
         WindowFits(cursor.window.start, cursor.window.end, cursor.window.token)

SearchFits ==
  search # None =>
    /\ WindowFits(search.start, search.end, search.token)
    /\ cursor # None =>
         /\ cursor.updatedAt <= search.observedAt
         /\ cursor.window # None => search.end = cursor.window.end

Inv == Typed /\ IndexedInTime /\ CursorFits /\ SearchFits /\ NothingSkipped

(***************************************************************************)
(* Lemmas                                                                  *)
(***************************************************************************)

LEMMA MinusFacts ==
  ASSUME NEW a \in Nat, NEW b \in Nat
  PROVE  /\ Minus(a, b) \in Nat
         /\ a <= b => Minus(a, b) = 0
         /\ a > b => Minus(a, b) + b = a
BY DEF Minus

LEMMA SlackFacts ==
  Slack \in Nat /\ Slack <= Overlap /\ MaxIndexing <= Slack + IndexingDelay
BY OptionsAssumption DEF Slack, Minus

\* Once the clock is past the end of a window and the indexing delay, every message
\* that the window has to find is indexed.
LEMMA DueIsIndexed ==
  ASSUME Typed, IndexedInTime, NEW m \in Msg, NEW end \in Nat,
         Due(m, end), end + IndexingDelay <= now
  PROVE  feishu[m] \in Message /\ feishu[m].indexed /\ feishu[m].created < end
<1>1. feishu[m] \in Message
  BY DEF Typed, Due, Exists
<1>2. /\ feishu[m].created \in Nat /\ now \in Nat /\ IndexingDelay \in Nat
      /\ MaxIndexing \in Nat /\ Overlap \in Nat /\ feishu[m].indexed \in BOOLEAN
  BY <1>1, OptionsAssumption DEF Message, Typed
<1>3. feishu[m].created + Slack < end
  BY DEF Due
<1>4. ~feishu[m].indexed => now <= feishu[m].created + MaxIndexing
  BY DEF IndexedInTime, Due
<1> QED  BY <1>1, <1>2, <1>3, <1>4, SlackFacts

\* What a step does to the world outside: time passes, messages keep their time of
\* creation and are indexed in time, and new ones belong to windows still to come.
EnvironmentGoesOn ==
  /\ now' \in Nat /\ behind' \in Nat /\ now' >= now
  /\ feishu' \in [Msg -> Message \cup {None}]
  /\ IndexedInTime'
  /\ \A m \in Msg, end \in Nat :
       end + IndexingDelay <= now /\ Due(m, end)' =>
         Due(m, end) /\ feishu'[m].created = feishu[m].created

\* The same, for the messages other than n, and for n.
LEMMA OneMessageChanges ==
  ASSUME Typed, IndexedInTime, NEW n \in Msg, NEW value \in Message,
         feishu' = [feishu EXCEPT ![n] = value], UNCHANGED <<now, behind>>,
         value.created <= now, ~value.indexed => now <= value.created + MaxIndexing,
         value.created = now \/ (Exists(n) /\ value.created = feishu[n].created)
  PROVE  EnvironmentGoesOn
<1> USE OptionsAssumption
<1>1. /\ value # None /\ value.created \in Nat /\ now \in Nat /\ behind \in Nat
      /\ feishu \in [Msg -> Message \cup {None}]
  BY NoneAssumption DEF Message, Typed
<1>2. feishu' \in [Msg -> Message \cup {None}] /\ feishu'[n] = value
  BY <1>1
<1>3. \A m \in Msg : m # n => feishu'[m] = feishu[m]
  BY <1>1
<1>4. IndexedInTime'
  BY <1>1, <1>2, <1>3 DEF IndexedInTime, Exists
<1>5. ASSUME NEW m \in Msg, NEW end \in Nat, end + IndexingDelay <= now, Due(m, end)'
      PROVE  Due(m, end) /\ feishu'[m].created = feishu[m].created
  <2>1. CASE m # n
    BY <1>3, <1>5, <2>1 DEF Due, Exists
  <2>2. CASE m = n
    <3>1. value.created + Slack < end
      BY <1>2, <1>5, <2>2 DEF Due
    <3>2. value.created # now
      BY <1>1, <1>5, <3>1, SlackFacts
    <3> QED  BY <1>2, <2>2, <3>1, <3>2 DEF Due
  <2> QED  BY <2>1, <2>2
<1> QED  BY <1>1, <1>2, <1>4, <1>5 DEF EnvironmentGoesOn

LEMMA EnvironmentStep ==
  ASSUME Typed, IndexedInTime, [Next]_vars  PROVE EnvironmentGoesOn
<1> USE OptionsAssumption
<1>1. CASE UNCHANGED environment
  BY <1>1 DEF environment, Typed, IndexedInTime, Due, Exists, EnvironmentGoesOn
<1>2. CASE Tick
  <2>1. now' = now + 1 /\ UNCHANGED <<behind, feishu>>
    BY <1>2 DEF Tick
  <2>2. \A m \in Msg : Exists(m) =>
          feishu[m].created \in Nat /\ feishu[m].indexed \in BOOLEAN
    BY DEF Typed, Exists, Message
  <2>3. now \in Nat /\ MaxIndexing \in Nat
    BY DEF Typed
  <2>4. IndexedInTime'
    BY <1>2, <2>1, <2>2, <2>3 DEF Tick, IndexedInTime, Exists
  <2> QED  BY <2>1, <2>3, <2>4 DEF Typed, Due, Exists, EnvironmentGoesOn
<1>3. CASE SetClock
  BY <1>3 DEF SetClock, Typed, IndexedInTime, Due, Exists, EnvironmentGoesOn
<1>4. ASSUME NEW n \in Msg, Create(n)  PROVE EnvironmentGoesOn
  <2> DEFINE value == [created |-> now, type |-> "message.received", at |-> now,
                       indexed |-> FALSE]
  <2>1. value \in Message /\ value.created = now
    BY DEF Typed, Message, Type
  <2>2. feishu' = [feishu EXCEPT ![n] = value] /\ UNCHANGED <<now, behind>>
    BY <1>4 DEF Create
  <2>3. value.created <= now /\ now <= value.created + MaxIndexing
    BY <2>1 DEF Typed
  <2> HIDE DEF value
  <2> QED  BY <2>1, <2>2, <2>3, OneMessageChanges
<1>5. ASSUME NEW n \in Msg, Index(n)  PROVE EnvironmentGoesOn
  <2> DEFINE value == [feishu[n] EXCEPT !.indexed = TRUE]
  <2>1. Exists(n) /\ feishu[n] \in Message
    BY <1>5 DEF Index, Typed, Exists
  <2>2. value \in Message /\ value.created = feishu[n].created /\ value.indexed
    BY <2>1 DEF Message
  <2>3. feishu' = [feishu EXCEPT ![n] = value] /\ UNCHANGED <<now, behind>>
    BY <1>5 DEF Index
  <2>4. value.created <= now
    BY <2>1, <2>2 DEF IndexedInTime
  <2> HIDE DEF value
  <2> QED  BY <2>1, <2>2, <2>3, <2>4, OneMessageChanges
<1>6. ASSUME NEW n \in Msg, Edit(n)  PROVE EnvironmentGoesOn
  <2>1. Exists(n) /\ feishu[n] \in Message /\ now \in Nat
    BY <1>6 DEF Edit, Typed, Exists
  <2>2. PICK type \in Type :
          feishu' = [feishu EXCEPT ![n] = [feishu[n] EXCEPT !.type = type, !.at = now]]
    BY <1>6 DEF Edit, Type
  <2> DEFINE value == [feishu[n] EXCEPT !.type = type, !.at = now]
  <2>3. /\ value \in Message /\ value.created = feishu[n].created
        /\ value.indexed = feishu[n].indexed
    BY <2>1 DEF Message
  <2>4. UNCHANGED <<now, behind>>
    BY <1>6 DEF Edit
  <2>5. value.created <= now /\ (~value.indexed => now <= value.created + MaxIndexing)
    BY <2>1, <2>3 DEF IndexedInTime
  <2>6. feishu' = [feishu EXCEPT ![n] = value]
    BY <2>2
  <2> HIDE DEF value
  <2> QED  BY <2>1, <2>3, <2>4, <2>5, <2>6, OneMessageChanges
<1> QED
  BY <1>1, <1>2, <1>3, <1>4, <1>5, <1>6
  DEF Next, vars, environment, BeginSearch, RejectCursor, SearchFails, TokenExpires,
      CommitPage, AddBot, Restart, Callback

\* A window under way keeps fitting while cursor and history stay and events are added.
LEMMA WindowStays ==
  ASSUME Typed, EnvironmentGoesOn, UNCHANGED <<cursor, since>>, event \subseteq event',
         NEW start \in Nat, NEW end \in Nat, NEW token \in Nat,
         WindowFits(start, end, token)
  PROVE  WindowFits(start, end, token)'
<1>1. end + IndexingDelay <= now /\ end + IndexingDelay <= now'
  BY OptionsAssumption DEF WindowFits, EnvironmentGoesOn, Typed
<1>2. ASSUME NEW m \in Msg, (Due(m, end) /\ feishu[m].created >= start)', m <= token
      PROVE  Stored(m)'
  <2>1. Due(m, end) /\ feishu[m].created >= start
    BY <1>1, <1>2 DEF EnvironmentGoesOn
  <2> QED  BY <1>2, <2>1 DEF WindowFits, Stored
<1> QED  BY <1>1, <1>2 DEF WindowFits

LEMMA SkippedNothingStays ==
  ASSUME Typed, EnvironmentGoesOn, UNCHANGED <<cursor, since>>, event \subseteq event',
         CursorFits, NothingSkipped
  PROVE  NothingSkipped'
<1> SUFFICES ASSUME cursor # None, cursor.watermark # None, NEW m \in Msg,
                    Exists(m)', feishu'[m].created >= since,
                    feishu'[m].created + Slack < cursor.watermark
             PROVE  \E e \in event' : e.message = m
  BY DEF NothingSkipped
<1>1. cursor.watermark \in Nat /\ cursor.watermark + IndexingDelay <= now
  BY DEF Typed, Cursor, CursorFits
<1>2. Due(m, cursor.watermark) /\ feishu'[m].created = feishu[m].created
  BY <1>1 DEF EnvironmentGoesOn, Due
<1>3. \E e \in event : e.message = m
  BY <1>2 DEF NothingSkipped, Due
<1> QED  BY <1>3

LEMMA CursorStays ==
  ASSUME Typed, EnvironmentGoesOn, UNCHANGED <<cursor, since>>, event \subseteq event',
         CursorFits
  PROVE  CursorFits'
<1> SUFFICES ASSUME cursor # None  PROVE CursorFits'
  BY DEF CursorFits
<1>1. /\ cursor \in Cursor /\ cursor.watermark \in Nat \cup {None}
      /\ cursor.window \in Window \cup {None}
  BY DEF Typed, Cursor
<1>2. cursor.watermark # None => cursor.watermark + IndexingDelay <= now'
  BY <1>1, OptionsAssumption DEF Typed, CursorFits, EnvironmentGoesOn
<1>3. ASSUME cursor.window # None
      PROVE  WindowFits(cursor.window.start, cursor.window.end, cursor.window.token)'
  <2>1. /\ cursor.window.start \in Nat /\ cursor.window.end \in Nat
        /\ cursor.window.token \in Nat
    BY <1>1, <1>3 DEF Window
  <2>2. PICK start \in Nat, end \in Nat, token \in Nat :
          <<start, end, token>>
            = <<cursor.window.start, cursor.window.end, cursor.window.token>>
    BY <2>1
  <2>3. WindowFits(start, end, token)'
    BY <1>3, <2>2, WindowStays DEF CursorFits
  <2> QED  BY <2>2, <2>3
<1> QED  BY <1>2, <1>3 DEF CursorFits

\* What the steps other than a committed page leave alone.
LEMMA StoreStays ==
  ASSUME Typed, NEW batch, NEW observedAt,
         CommitConnectorSyncBatch(batch, observedAt, None)
  PROVE  UNCHANGED cursor /\ event \subseteq event'
BY DEF CommitConnectorSyncBatch, WriteCursor

(***************************************************************************)
(* The steps of a search                                                   *)
(***************************************************************************)

\* The window a search is begun with.
LEMMA BeginFits ==
  ASSUME Inv, BeginSearch
  PROVE  search' \in Search /\ SearchFits'
<1> USE OptionsAssumption
<1>1. now \in Nat /\ behind \in Nat /\ cursor \in Cursor \cup {None} /\ since \in Nat \cup {None}
  BY DEF Inv, Typed
<1>2. UNCHANGED <<event, cursor, now, feishu, since>>
  BY DEF BeginSearch, store, environment
<1>3. Clock \in Nat /\ Clock <= now
  BY <1>1, MinusFacts DEF Clock, Minus
<1>4. Searchable \in Nat /\ Searchable + IndexingDelay = Clock
  BY <1>3, MinusFacts DEF BeginSearch, Idle, ClockIsSet, Searchable, Minus
<1>5. CASE InWindow
  <2>1. /\ cursor # None /\ cursor \in Cursor /\ cursor.window # None
        /\ cursor.window \in Window
    BY <1>1, <1>5 DEF InWindow, Cursor
  <2>2. search' = [observedAt |-> Clock, start |-> cursor.window.start,
                   end |-> cursor.window.end, token |-> cursor.window.token]
    BY <1>5 DEF BeginSearch
  <2>3. search' \in Search
    BY <1>3, <2>1, <2>2 DEF Window, Search
  <2>4. WindowFits(cursor.window.start, cursor.window.end, cursor.window.token)
    BY <2>1 DEF Inv, CursorFits
  <2>5. WindowFits(search.start, search.end, search.token)'
    BY <1>2, <2>2, <2>4 DEF WindowFits, Due, Exists, Stored
  <2>6. cursor.updatedAt <= Clock
    BY <1>3, <2>1 DEF BeginSearch, CursorIsNewer, Cursor
  <2> QED  BY <1>2, <2>2, <2>3, <2>5, <2>6 DEF SearchFits
<1>6. CASE ~InWindow
  <2>1. search' = [observedAt |-> Clock, start |-> WindowStart,
                   end |-> Searchable, token |-> 0]
    BY <1>6 DEF BeginSearch
  <2>2. CASE cursor = None
    <3>1. WindowStart \in Nat
      BY <1>4, <2>2, MinusFacts DEF WindowStart
    <3>2. search' \in Search
      BY <1>3, <1>4, <2>1, <3>1 DEF Search
    <3>3. WindowFits(search.start, search.end, search.token)'
      BY <1>1, <1>2, <1>3, <1>4, <2>1, <2>2, MessagesAssumption DEF WindowFits
    <3> QED  BY <1>2, <2>2, <3>2, <3>3 DEF SearchFits
  <2>3. CASE cursor # None
    <3>1. cursor \in Cursor /\ cursor.window = None /\ cursor.watermark \in Nat
      BY <1>1, <1>6, <2>3 DEF Inv, CursorFits, InWindow, Cursor
    <3>2. WindowStart = Minus(cursor.watermark, Overlap) /\ WindowStart \in Nat
      BY <2>3, <3>1, NoneAssumption, MinusFacts DEF WindowStart
    <3>3. search' \in Search
      BY <1>3, <1>4, <2>1, <3>2 DEF Search
    <3>4. cursor.watermark <= Searchable
      BY <1>4, <2>3, <3>1, NoneAssumption DEF BeginSearch, CaughtUp
    <3>5. WindowFits(search.start, search.end, search.token)'
      BY <1>1, <1>2, <1>3, <1>4, <2>1, <2>3, <3>1, <3>2, <3>4, MessagesAssumption,
         NoneAssumption
      DEF WindowFits
    <3>6. cursor.updatedAt <= Clock
      BY <1>3, <2>3, <3>1 DEF BeginSearch, CursorIsNewer, Cursor
    <3> QED  BY <1>2, <2>1, <3>1, <3>3, <3>5, <3>6 DEF SearchFits
  <2> QED  BY <2>2, <2>3
<1> QED  BY <1>5, <1>6

\* After a page every message due in the window, up to the last one listed, is stored.
LEMMA PageIsStored ==
  ASSUME Inv, search # None, NEW last \in LastOnPage,
         event' = event \cup Batch(last, {}), UNCHANGED environment
  PROVE  /\ last \in Nat
         /\ \A m \in Msg :
              Due(m, search.end) /\ feishu[m].created >= search.start
                /\ (m <= last \/ Page(last) = Found)
              => Stored(m)'
<1>1. search \in Search /\ Msg \subseteq Nat
  BY MessagesAssumption DEF Inv, Typed
<1>2. last \in Nat
  BY <1>1 DEF LastOnPage, Found, Search
<1>3. ASSUME NEW m \in Msg, Due(m, search.end), feishu[m].created >= search.start,
             m <= last \/ Page(last) = Found
      PROVE  Stored(m)'
  <2>1. CASE m <= search.token
    BY <1>3, <2>1 DEF Inv, SearchFits, WindowFits, Stored
  <2>2. CASE ~(m <= search.token)
    <3>1. m > search.token
      BY <1>1, <2>2 DEF Search
    <3>2. search.end \in Nat /\ search.start \in Nat
      BY <1>1 DEF Search
    <3>3. /\ feishu[m] \in Message /\ feishu[m].indexed /\ feishu[m].created < search.end
      <4>1. Typed /\ IndexedInTime /\ search.end + IndexingDelay <= now
        BY DEF Inv, SearchFits, WindowFits
      <4> QED  BY <1>3, <3>2, <4>1, DueIsIndexed
    <3>4. feishu[m].created \in search.start .. search.end
      BY <1>3, <3>2, <3>3 DEF Message
    <3>5. m \in Found
      BY <1>3, <3>1, <3>3, <3>4 DEF Found, Due
    <3>6. m \in Page(last)
      BY <1>3, <3>5 DEF Page
    <3>7. NormalizeMessage(m, feishu[m], uses) \in event'
      BY <3>6 DEF Batch
    <3> QED  BY <3>7 DEF Stored, NormalizeMessage
  <2> QED  BY <2>1, <2>2
<1> QED  BY <1>2, <1>3

\* A page with all its details, committed with the cursor that follows it.
LEMMA PageFits ==
  ASSUME Inv, search # None, NEW last \in LastOnPage,
         event' = event \cup Batch(last, {}), UNCHANGED environment,
         cursor' = Candidate(last, {}),
         since' = IF cursor = None THEN search.start ELSE since
  PROVE  cursor' \in Cursor /\ since' \in Nat \cup {None} /\ CursorFits' /\ NothingSkipped'
<1> USE OptionsAssumption
<1>1. /\ search \in Search /\ cursor \in Cursor \cup {None} /\ since \in Nat \cup {None}
      /\ now \in Nat /\ UNCHANGED <<now, feishu>>
  BY DEF Inv, Typed, environment
<1>2. /\ search.start \in Nat /\ search.end \in Nat /\ search.observedAt \in Nat
      /\ search.end + IndexingDelay <= now
  BY <1>1 DEF Search, Inv, SearchFits, WindowFits
<1>3. last \in Nat /\ \A m \in Msg :
        Due(m, search.end) /\ feishu[m].created >= search.start
          /\ (m <= last \/ Page(last) = Found)
        => Stored(m)'
  BY PageIsStored
<1>4. /\ cursor' \in Cursor /\ cursor' # None /\ since' \in Nat /\ since' # None
  <2>1. cursor' \in Cursor
    BY <1>1, <1>2, <1>3, NoneAssumption DEF Candidate, Cursor, Window
  <2>2. cursor # None => since # None
    BY DEF Inv, CursorFits
  <2> QED  BY <1>1, <1>2, <2>1, <2>2, NoneAssumption
<1>5. CASE Page(last) = Found
  <2>1. cursor' = [watermark |-> search.end, window |-> None,
                   updatedAt |-> search.observedAt]
    BY <1>5 DEF Candidate
  <2>2. CursorFits'
    BY <1>1, <1>2, <1>4, <2>1, NoneAssumption DEF CursorFits
  <2>3. NothingSkipped'
    <3> SUFFICES ASSUME NEW m \in Msg, Exists(m), feishu[m].created >= since',
                        feishu[m].created + Slack < search.end
                 PROVE  Stored(m)'
      BY <1>1, <2>1 DEF NothingSkipped, Stored, Exists
    <3>1. Due(m, search.end) /\ feishu[m].created \in Nat
      BY DEF Due, Inv, Typed, Exists, Message
    <3>2. CASE feishu[m].created >= search.start
      BY <1>3, <1>5, <3>1, <3>2
    <3>3. CASE ~(feishu[m].created >= search.start)
      <4>1. cursor # None /\ cursor \in Cursor /\ since' = since
        BY <1>1, <3>3
      <4>2. cursor.watermark \in Nat /\ search.start = Minus(cursor.watermark, Overlap)
        BY <3>3, <4>1 DEF Inv, SearchFits, WindowFits, Cursor
      <4>3. feishu[m].created + Slack < cursor.watermark
        BY <1>2, <3>1, <3>3, <4>2, SlackFacts DEF Minus
      <4>4. \E e \in event : e.message = m
        BY <4>1, <4>2, <4>3, NoneAssumption DEF Inv, NothingSkipped
      <4> QED  BY <4>4 DEF Stored
    <3> QED  BY <3>2, <3>3
  <2> QED  BY <1>4, <2>2, <2>3
<1>6. CASE Page(last) # Found
  <2> DEFINE before == IF cursor = None THEN None ELSE cursor.watermark
  <2>1. cursor' = [watermark |-> before,
                   window |-> [start |-> search.start, end |-> search.end, token |-> last],
                   updatedAt |-> search.observedAt]
    BY <1>6 DEF Candidate
  <2>2. /\ before # None => /\ cursor # None /\ before = cursor.watermark /\ before \in Nat
                            /\ since' = since
        /\ before = None => since' = search.start
    BY <1>1 DEF Inv, SearchFits, WindowFits, Cursor
  <2>3. before # None =>
          before <= search.end /\ search.start = Minus(before, Overlap)
            /\ before + IndexingDelay <= now
    BY <2>2 DEF Inv, SearchFits, WindowFits, CursorFits
  <2>4. PICK start \in Nat, end \in Nat : start = search.start /\ end = search.end
    BY <1>2
  <2>5. WindowFits(start, end, last)'
    <3>1. \A m \in Msg : (Due(m, end) /\ feishu[m].created >= start)'
            /\ m <= last => Stored(m)'
      BY <1>1, <1>3, <2>4 DEF Due, Exists
    <3>2. cursor'.watermark = before
      BY <2>1
    <3>3. before = None => start = since'
      BY <2>2, <2>4
    <3>4. before # None => before <= end /\ start = Minus(before, Overlap)
      BY <2>3, <2>4
    <3>5. (end + IndexingDelay <= now)'
      BY <1>1, <1>2, <2>4
    <3> QED  BY <3>1, <3>2, <3>3, <3>4, <3>5 DEF WindowFits
  <2>6. /\ cursor'.window = [start |-> start, end |-> end, token |-> last]
        /\ cursor'.window # None
    BY <1>3, <2>1, <2>4, NoneAssumption DEF Window
  <2>7. CursorFits'
    BY <1>1, <1>4, <2>1, <2>3, <2>5, <2>6 DEF CursorFits
  <2>8. NothingSkipped'
    <3> SUFFICES ASSUME before # None, NEW m \in Msg, Exists(m),
                        feishu[m].created >= since, feishu[m].created + Slack < before
                 PROVE  \E e \in event' : e.message = m
      BY <1>1, <2>1, <2>2 DEF NothingSkipped, Exists
    <3>1. \E e \in event : e.message = m
      BY <2>2 DEF Inv, NothingSkipped
    <3> QED  BY <3>1
  <2> QED  BY <1>4, <2>7, <2>8
<1> QED  BY <1>5, <1>6

\* A step that leaves the cursor alone and begins no search.
Quiet ==
  /\ UNCHANGED <<cursor, since>> /\ event \subseteq event'
  /\ search' \in {search, None}

LEMMA QuietStep ==
  ASSUME Inv, [Next]_vars, Quiet  PROVE Inv'
<1>1. EnvironmentGoesOn
  BY EnvironmentStep DEF Inv
<1>2. Typed'
  BY <1>1 DEF Inv, Typed, Quiet, EnvironmentGoesOn
<1>3. CursorFits' /\ NothingSkipped'
  BY <1>1, CursorStays, SkippedNothingStays DEF Inv, Quiet
<1>4. SearchFits'
  <2> SUFFICES ASSUME search' # None  PROVE SearchFits'
    BY DEF SearchFits
  <2>1. search' = search /\ search \in Search
    BY DEF Quiet, Inv, Typed
  <2>2. PICK start \in Nat, end \in Nat, token \in Nat :
          <<start, end, token>> = <<search.start, search.end, search.token>>
    BY <2>1 DEF Search
  <2>3. WindowFits(start, end, token)'
    BY <1>1, <2>1, <2>2, WindowStays DEF Inv, SearchFits, Quiet
  <2> QED  BY <2>1, <2>2, <2>3 DEF Inv, SearchFits, Quiet
<1> QED  BY <1>1, <1>2, <1>3, <1>4 DEF Inv, EnvironmentGoesOn

\* What a page changes when it arrives: nothing but events, or all that PageFits needs.
LEMMA PageOutcomes ==
  ASSUME Inv, CommitPage
  PROVE  \/ Quiet
         \/ /\ cursor = None \/ cursor # cursor'
            /\ \E last \in LastOnPage :
                 /\ event' = event \cup Batch(last, {})
                 /\ cursor' = Candidate(last, {}) /\ ~CursorRegresses(Candidate(last, {}))
                 /\ since' = IF cursor = None THEN search.start ELSE since
<1>1. search # None /\ search' = None
  BY DEF CommitPage, Waiting
<1>2. PICK last \in LastOnPage, unavailable \in SUBSET Msg :
        LET batch == Batch(last, unavailable)
            candidate == Candidate(last, unavailable)
            refusal == Refusal(batch, search.observedAt, candidate)
        IN  /\ IF refusal = None
                 THEN CommitConnectorSyncBatch(batch, search.observedAt, candidate)
                 ELSE UNCHANGED store
            /\ since' = IF cursor = None /\ refusal = None /\ candidate # None
                          THEN search.start ELSE since
  BY DEF CommitPage, UnavailableOn, Page, Found
<1> DEFINE batch == Batch(last, unavailable)
           candidate == Candidate(last, unavailable)
           refusal == Refusal(batch, search.observedAt, candidate)
<1>3. CASE refusal # None
  <2>1. UNCHANGED store /\ since' = since
    BY <1>2, <1>3
  <2> QED  BY <1>1, <2>1 DEF Quiet, store
<1>4. CASE refusal = None
  <2>1. /\ event' = event \cup batch /\ WriteCursor(candidate)
        /\ since' = IF cursor = None /\ candidate # None THEN search.start ELSE since
    BY <1>2, <1>4 DEF CommitConnectorSyncBatch
  <2>2. CASE candidate = None \/ (cursor # None /\ SameCheckpoint(candidate))
    <3>1. cursor' = cursor /\ since' = since
      BY <2>1, <2>2 DEF WriteCursor
    <3> QED  BY <1>1, <2>1, <3>1 DEF Quiet
  <2>3. CASE ~(candidate = None \/ (cursor # None /\ SameCheckpoint(candidate)))
    <3>1. cursor' = candidate /\ unavailable = {}
      BY <2>1, <2>3 DEF WriteCursor, Candidate
    <3>2. ~CursorRegresses(candidate)
      BY <1>4, <2>3, NoneAssumption DEF Refusal, Reason
    <3>3. cursor = None \/ cursor # cursor'
      BY <2>3, <3>1 DEF SameCheckpoint
    <3> QED  BY <2>1, <2>3, <3>1, <3>2, <3>3
  <2> QED  BY <2>2, <2>3
<1> QED  BY <1>3, <1>4

LEMMA InvInit ==
  ASSUME Init  PROVE Inv
BY OptionsAssumption, NoneAssumption
DEF Init, StoreInit, Inv, Typed, IndexedInTime, Exists, CursorFits, SearchFits,
    NothingSkipped

LEMMA InvStep ==
  ASSUME Inv, [Next]_vars  PROVE Inv'
<1>1. EnvironmentGoesOn
  BY EnvironmentStep DEF Inv
<1>2. CASE BeginSearch
  <2>1. search' \in Search /\ SearchFits'
    BY <1>2, BeginFits
  <2>2. UNCHANGED <<cursor, since, event>>
    BY <1>2 DEF BeginSearch, store
  <2>3. CursorFits' /\ NothingSkipped'
    BY <1>1, <2>2, CursorStays, SkippedNothingStays DEF Inv
  <2> QED  BY <1>1, <2>1, <2>2, <2>3 DEF Inv, Typed, EnvironmentGoesOn
<1>3. CASE TokenExpires
  <2>1. /\ search # None /\ search \in Search /\ search' = [search EXCEPT !.token = 0]
        /\ UNCHANGED <<cursor, since, event, now, feishu>>
    BY <1>3 DEF TokenExpires, Waiting, store, environment, Inv, Typed
  <2>2. CursorFits' /\ NothingSkipped'
    BY <1>1, <2>1, CursorStays, SkippedNothingStays DEF Inv
  <2>3. /\ search' \in Search /\ search'.start = search.start /\ search'.end = search.end
        /\ search'.token = 0 /\ search'.observedAt = search.observedAt
    BY <2>1 DEF Search
  <2>4. WindowFits(search.start, search.end, search.token)'
    BY <2>1, <2>3, MessagesAssumption
    DEF Inv, SearchFits, WindowFits, Due, Exists
  <2>5. SearchFits'
    BY <2>1, <2>3, <2>4 DEF Inv, SearchFits
  <2> QED  BY <1>1, <2>1, <2>2, <2>3, <2>5 DEF Inv, Typed, EnvironmentGoesOn
<1>4. CASE CommitPage
  <2>1. CASE Quiet
    BY <2>1, QuietStep
  <2>2. CASE ~Quiet
    <3>1. PICK last \in LastOnPage :
            /\ event' = event \cup Batch(last, {}) /\ cursor' = Candidate(last, {})
            /\ since' = IF cursor = None THEN search.start ELSE since
      BY <1>4, <2>2, PageOutcomes
    <3>2. search # None /\ search' = None /\ UNCHANGED environment
      BY <1>4 DEF CommitPage, Waiting
    <3>3. cursor' \in Cursor /\ since' \in Nat \cup {None} /\ CursorFits' /\ NothingSkipped'
      BY <3>1, <3>2, PageFits
    <3> QED  BY <1>1, <3>2, <3>3 DEF Inv, Typed, SearchFits, EnvironmentGoesOn
  <2> QED  BY <2>1, <2>2
<1>5. ASSUME NEW m \in Msg, Callback(m)  PROVE Inv'
  <2>1. Quiet
    BY <1>5, StoreStays DEF Callback, Quiet, Inv
  <2> QED  BY <2>1, QuietStep
<1>6. CASE RejectCursor \/ SearchFails \/ AddBot \/ Restart \/ Tick \/ SetClock
  BY <1>6, QuietStep
  DEF Quiet, store, RejectCursor, SearchFails, AddBot, Restart, Tick, SetClock
<1>7. ASSUME NEW m \in Msg, Create(m) \/ Index(m) \/ Edit(m)  PROVE Inv'
  BY <1>7, QuietStep DEF Quiet, store, Create, Index, Edit
<1>8. CASE UNCHANGED vars
  BY <1>8, QuietStep DEF Quiet, vars, store
<1> QED  BY <1>2, <1>3, <1>4, <1>5, <1>6, <1>7, <1>8 DEF Next

(***************************************************************************)
(* Theorems                                                                *)
(***************************************************************************)

LEMMA Invariance == Spec => []Inv
<1>1. Inv /\ [Next]_vars => Inv'
  BY InvStep
<1> QED  BY InvInit, <1>1, PTL DEF Spec

\* Polling skips no message: whatever is created since the first window began, and
\* early enough to be indexed before the watermark, is stored.
THEOREM NothingIsSkipped == Spec => []NothingSkipped
<1>1. Inv => NothingSkipped
  BY DEF Inv
<1> QED  BY Invariance, <1>1, PTL

\* The discoverer never offers a cursor that the storage refuses.
THEOREM CursorIsAlwaysForward == Spec => []CursorIsNeverRefused
<1>1. Init => CursorIsNeverRefused
  BY NoneAssumption DEF Init, CursorIsNeverRefused, Reason
<1>2. Inv /\ CursorIsNeverRefused /\ [Next]_vars => CursorIsNeverRefused'
  <2> SUFFICES ASSUME Inv, CursorIsNeverRefused, [Next]_vars
               PROVE  CursorIsNeverRefused'
    OBVIOUS
  <2> USE NoneAssumption DEF CursorIsNeverRefused, Reason
  <2>1. CASE CommitPage
    <3>1. search # None /\ search \in Search /\ cursor \in Cursor \cup {None}
      BY <2>1 DEF CommitPage, Waiting, Inv, Typed
    <3>2. PICK last \in LastOnPage, unavailable \in SUBSET Msg :
            stopped' = Refusal(Batch(last, unavailable), search.observedAt,
                               Candidate(last, unavailable))
      BY <2>1 DEF CommitPage, UnavailableOn, Page, Found
    <3> DEFINE candidate == Candidate(last, unavailable)
    <3>3. candidate # None => ~CursorRegresses(candidate)
      <4> SUFFICES ASSUME candidate # None, cursor # None
                   PROVE  ~CursorRegresses(candidate)
        BY DEF CursorRegresses
      <4>1. cursor.updatedAt \in Nat /\ search.observedAt \in Nat /\ search.end \in Nat
        BY <3>1 DEF Cursor, Search
      <4>2. candidate.updatedAt = search.observedAt /\ cursor.updatedAt <= search.observedAt
        BY <3>1 DEF Candidate, Inv, SearchFits
      <4>3. candidate.watermark \in {search.end, cursor.watermark}
        BY DEF Candidate
      <4>4. ASSUME cursor.watermark # None
            PROVE  candidate.watermark # None /\ ~(candidate.watermark < cursor.watermark)
        <5>1. cursor.watermark \in Nat /\ cursor.watermark <= search.end
          BY <3>1, <4>4 DEF Inv, SearchFits, WindowFits, Cursor
        <5> QED  BY <4>1, <4>3, <5>1
      <4> HIDE DEF candidate
      <4> QED  BY <4>1, <4>2, <4>4 DEF CursorRegresses
    <3> HIDE DEF candidate
    <3> QED  BY <3>2, <3>3 DEF Refusal, candidate
  <2>2. SearchFails => stopped' \in {None, "search_failed"}
    <3>1. (search.token # 0) \in BOOLEAN
      OBVIOUS
    <3> QED  BY <3>1 DEF SearchFails, SearchFailures, ClientFailure
  <2> QED
    BY <2>1, <2>2
    DEF Next, vars, BeginSearch, RejectCursor, TokenExpires, AddBot, Restart,
        Tick, SetClock, Callback, Create, Index, Edit
<1> QED  BY Invariance, <1>1, <1>2, PTL DEF Spec

\* The watermark only moves forward, and to the end of a window that is all committed.
THEOREM WatermarkOnlyFollowsWindows == Spec => WatermarkFollowsWindows
<1> DEFINE Follows ==
      /\ Position(cursor') >= Position(cursor)
      /\ Position(cursor') # Position(cursor) =>
           /\ cursor'.window = None
           /\ InWindow => cursor'.watermark = cursor.window.end
<1>1. Inv /\ [Next]_vars => [Follows]_vars
  <2> SUFFICES ASSUME Inv, [Next]_vars  PROVE Follows
    OBVIOUS
  <2>1. cursor \in Cursor \cup {None} /\ search \in Search \cup {None}
    BY DEF Inv, Typed
  <2>2. Position(cursor) \in Nat
    BY <2>1 DEF Position, Cursor
  <2>3. CASE cursor' = cursor
    BY <2>2, <2>3
  <2>4. CASE CommitPage /\ cursor' # cursor
    <3>1. PICK last \in LastOnPage : cursor' = Candidate(last, {})
      BY <2>4, PageOutcomes DEF Quiet
    <3>2. search # None /\ search \in Search
      BY <2>1, <2>4 DEF CommitPage, Waiting
    <3>3. search.end \in Nat
      BY <3>2 DEF Search
    <3>4. cursor' # None
      <4>1. last \in Nat
        BY <3>2, MessagesAssumption DEF LastOnPage, Found, Search
      <4>2. cursor' \in Cursor
        BY <2>1, <3>1, <3>2, <4>1, NoneAssumption DEF Candidate, Cursor, Window, Search
      <4> QED  BY <4>2, NoneAssumption
    <3>5. CASE Page(last) = Found
      <4>1. cursor'.watermark = search.end /\ cursor'.window = None
        BY <3>1, <3>5 DEF Candidate
      <4>2. Position(cursor') = search.end
        BY <3>3, <3>4, <4>1, NoneAssumption DEF Position
      <4>3. Position(cursor) <= search.end
        BY <2>1, <3>2, <3>3 DEF Position, Inv, SearchFits, WindowFits
      <4>4. InWindow => search.end = cursor.window.end
        BY <3>2 DEF InWindow, Inv, SearchFits
      <4> QED  BY <2>2, <3>3, <4>1, <4>2, <4>3, <4>4
    <3>6. CASE Page(last) # Found
      <4>1. cursor' = [watermark |-> IF cursor = None THEN None ELSE cursor.watermark,
                       window |-> [start |-> search.start, end |-> search.end,
                                   token |-> last],
                       updatedAt |-> search.observedAt]
        BY <3>1, <3>6 DEF Candidate
      <4>2. Position(cursor') = Position(cursor)
        BY <3>4, <4>1 DEF Position
      <4> QED  BY <2>2, <4>2
    <3> QED  BY <3>5, <3>6
  <2>5. CASE UNCHANGED vars
    BY <2>3, <2>5 DEF vars, store
  <2>6. ASSUME NEW m \in Msg, Callback(m)  PROVE Follows
    BY <2>3, <2>6, StoreStays DEF Callback, Inv
  <2> HIDE DEF Follows
  <2> QED
    BY <2>3, <2>4, <2>5, <2>6
    DEF Next, store, BeginSearch, RejectCursor, SearchFails, TokenExpires, AddBot,
        Restart, Tick, SetClock, Create, Index, Edit
<1> QED  BY Invariance, <1>1, PTL DEF Spec, WatermarkFollowsWindows

\* However often a message is brought, and by whom, each of its states is stored once.
THEOREM StatesAreStoredOnce == Spec => []OneEventPerState
<1>1. Init => OneEventPerState
  BY DEF Init, StoreInit, OneEventPerState
<1>2. ASSUME OneEventPerState, NEW batch, NEW observedAt, NEW candidate,
             ~EventConflicts(batch),
             \A e, f \in batch : SameState(e, f) => e = f,
             CommitConnectorSyncBatch(batch, observedAt, candidate)
      PROVE  OneEventPerState'
  BY <1>2 DEF OneEventPerState, EventConflicts, CommitConnectorSyncBatch, SameState
<1>3. OneEventPerState /\ [Next]_vars => OneEventPerState'
  <2> SUFFICES ASSUME OneEventPerState, [Next]_vars  PROVE OneEventPerState'
    OBVIOUS
  <2>1. CASE event' = event
    BY <2>1 DEF OneEventPerState
  <2>2. CASE CommitPage /\ event' # event
    <3>1. PICK last \in LastOnPage, unavailable \in SUBSET Msg :
            LET batch == Batch(last, unavailable)
                candidate == Candidate(last, unavailable)
            IN  /\ Refusal(batch, search.observedAt, candidate) = None
                /\ CommitConnectorSyncBatch(batch, search.observedAt, candidate)
      BY <2>2 DEF CommitPage, UnavailableOn, Page, Found, store
    <3> DEFINE batch == Batch(last, unavailable)
    <3>2. ~EventConflicts(batch)
      BY <3>1, NoneAssumption DEF Refusal, Reason
    <3>3. \A e, f \in batch : SameState(e, f) => e = f
      BY DEF Batch, NormalizeMessage, SameState
    <3> HIDE DEF batch
    <3> QED  BY <1>2, <3>1, <3>2, <3>3 DEF batch
  <2>3. ASSUME NEW m \in Msg, Callback(m)  PROVE OneEventPerState'
    <3> DEFINE batch == {NormalizeMessage(m, [type |-> "message.received",
                                              at |-> feishu[m].created], TRUE)}
    <3>1. Refusal(batch, Clock, None) = None /\ CommitConnectorSyncBatch(batch, Clock, None)
      BY <2>3 DEF Callback
    <3>2. ~EventConflicts(batch)
      BY <3>1, NoneAssumption DEF Refusal, Reason
    <3>3. \A e, f \in batch : e = f
      OBVIOUS
    <3> HIDE DEF batch
    <3> QED  BY <1>2, <3>1, <3>2, <3>3
  <2>4. CASE UNCHANGED vars
    BY <2>1, <2>4 DEF vars, store
  <2> QED
    BY <2>1, <2>2, <2>3, <2>4
    DEF Next, store, BeginSearch, RejectCursor, SearchFails, TokenExpires, AddBot,
        Restart, Tick, SetClock, Create, Index, Edit
<1> QED  BY <1>1, <1>3, PTL DEF Spec

(***************************************************************************)
(* What the threads show                                                   *)
(***************************************************************************)

ThreadsFit ==
  /\ event \subseteq Event /\ thread \in [Conversations -> Thread \cup {None}]
  /\ bot \in BOOLEAN /\ uses \in BOOLEAN
  /\ ThreadsShowTheNewest

EventsOf(c) == {e \in event : Conversation[e.message] = c}

\* Every set of naturals has a least element.
LEMMA LeastExists ==
  ASSUME NEW numbers \in SUBSET Nat, numbers # {}
  PROVE  \E n \in numbers : \A k \in numbers : n <= k
<1>1. PICK n \in numbers : \A k \in numbers : <<k, n>> \notin OpToRel(<, Nat)
  BY NatLessThanWellFounded, WFMin
<1>2. \A k \in numbers : ~(k < n)
  BY <1>1 DEF OpToRel
<1> QED BY <1>2

\* Events that none is later than the time of observation have a newest one.
LEMMA NewestExists ==
  ASSUME NEW events \in SUBSET Event, events # {}, NEW observedAt \in Nat,
         \A e \in events : e.at <= observedAt
  PROVE  Newest(events) # {}
<1> DEFINE ages == {observedAt - e.at : e \in events}
<1>1. \A e \in events : e.at \in Nat
  BY DEF Event
<1>2. ages \in SUBSET Nat /\ ages # {}
  BY <1>1
<1>3. PICK age \in ages : \A k \in ages : age <= k
  BY <1>2, LeastExists
<1>4. PICK e \in events : age = observedAt - e.at
  OBVIOUS
<1>5. \A f \in events : f.at <= e.at
  <2> TAKE f \in events
  <2>1. age <= observedAt - f.at
    BY <1>3
  <2> QED BY <1>1, <1>4, <2>1
<1> QED BY <1>5 DEF Newest

\* The thread of a conversation after a batch that is not refused.
LEMMA GroupShowsTheNewest ==
  ASSUME ThreadsFit, NEW batch \in SUBSET Event, NEW observedAt \in Nat,
         ~ObservedEarly(batch, observedAt), NEW c \in Conversations, Additions(c, batch) # {}
  PROVE  LET group == ProjectionGroup(c, batch, observedAt)
         IN  group \in Thread /\ group.shown \in Newest(group.events)
<1> DEFINE latest == CHOOSE e \in Newest(Additions(c, batch)) : TRUE
           group == ProjectionGroup(c, batch, observedAt)
           older == IF thread[c] = None THEN {} ELSE thread[c].events
<1>1. Additions(c, batch) \in SUBSET Event /\ Additions(c, batch) \subseteq batch
  BY DEF Additions
<1>2. \A e \in Additions(c, batch) : e.at <= observedAt
  BY <1>1 DEF ObservedEarly, Event
<1>3. latest \in Newest(Additions(c, batch))
  BY <1>1, <1>2, NewestExists
<1>4. latest \in Additions(c, batch) /\ \A f \in Additions(c, batch) : f.at <= latest.at
  BY <1>3 DEF Newest
<1>5. latest \in Event
  BY <1>1, <1>4
<1> HIDE DEF latest
<1>6. /\ group.events = Additions(c, batch) \cup older
      /\ group.shown = IF AdvancesPresentation(c, latest) THEN latest ELSE thread[c].shown
  BY DEF ProjectionGroup, Shown, latest
<1>7. thread[c] # None =>
        /\ thread[c] \in Thread /\ thread[c].shown \in Newest(thread[c].events)
  BY DEF ThreadsFit, ThreadsShowTheNewest
<1>8. older \in SUBSET Event
  BY <1>7 DEF Thread
<1>9. \A e \in group.events : e.at \in Nat
  BY <1>1, <1>6, <1>8 DEF Event
<1>10. group.shown \in Newest(group.events)
  <2>1. CASE AdvancesPresentation(c, latest)
    <3>1. \A f \in older : f.at <= latest.at
      BY <2>1 DEF AdvancesPresentation
    <3> QED BY <1>4, <1>6, <2>1, <3>1 DEF Newest
  <2>2. CASE ~AdvancesPresentation(c, latest)
    <3>1. thread[c] # None /\ older = thread[c].events
      BY <2>2 DEF AdvancesPresentation
    <3>2. PICK f \in older : ~(f.at <= latest.at)
      BY <2>2, <3>1 DEF AdvancesPresentation
    <3>3. group.shown \in older /\ \A e \in older : e.at <= group.shown.at
      BY <1>6, <1>7, <2>2, <3>1 DEF Newest
    <3>4. \A e \in Additions(c, batch) : e.at <= group.shown.at
      <4> TAKE e \in Additions(c, batch)
      <4>1. e.at <= latest.at /\ f.at <= group.shown.at
        BY <1>4, <3>3
      <4>2. e.at \in Nat /\ latest.at \in Nat /\ f.at \in Nat /\ group.shown.at \in Nat
        BY <1>1, <1>5, <1>8, <3>3 DEF Event
      <4> QED BY <3>2, <4>1, <4>2
    <3> QED BY <1>6, <3>3, <3>4 DEF Newest
  <2> QED BY <2>1, <2>2
<1>11. group \in Thread
  <2>1. group.events \in SUBSET Event /\ group.shown \in Event
    BY <1>1, <1>6, <1>8, <1>10 DEF Newest
  <2>2. group.updatedAt \in Nat
    BY <1>7 DEF ProjectionGroup, Thread
  <2>3. group = [events |-> group.events, updatedAt |-> group.updatedAt, shown |-> group.shown]
    BY DEF ProjectionGroup
  <2> HIDE DEF group
  <2> QED BY <2>1, <2>2, <2>3 DEF Thread
<1> QED BY <1>10, <1>11

\* A batch that is not refused brings its events into the threads of their
\* conversations; those that are stored already are the same.
LEMMA CommitShowsTheNewest ==
  ASSUME ThreadsFit, NEW batch \in SUBSET Event, NEW observedAt \in Nat, NEW candidate,
         Refusal(batch, observedAt, candidate) = None,
         CommitConnectorSyncBatch(batch, observedAt, candidate), UNCHANGED <<bot, uses>>
  PROVE  ThreadsFit'
<1>1. ~ObservedEarly(batch, observedAt) /\ ~EventConflicts(batch)
  BY NoneAssumption DEF Refusal, Reason
<1>2. /\ event' = event \cup batch
      /\ thread' = [c \in Conversations |->
                      IF Additions(c, batch) = {} THEN thread[c]
                      ELSE ProjectionGroup(c, batch, observedAt)]
  BY DEF CommitConnectorSyncBatch
<1>3. ASSUME NEW c \in Conversations, NEW e \in batch, Conversation[e.message] = c,
             e \notin Additions(c, batch)
      PROVE  thread[c] # None /\ e \in thread[c].events
  <2>1. thread[c] # None /\ \E f \in thread[c].events : SameState(e, f)
    BY <1>3 DEF Additions
  <2>2. thread[c].events = EventsOf(c)
    BY <2>1 DEF ThreadsFit, ThreadsShowTheNewest, EventsOf
  <2> QED BY <1>1, <2>1, <2>2 DEF EventConflicts, EventsOf
<1>4. ASSUME NEW c \in Conversations
      PROVE  /\ thread'[c] \in Thread \cup {None}
             /\ IF thread'[c] = None THEN EventsOf(c)' = {}
                ELSE /\ thread'[c].events = EventsOf(c)'
                     /\ thread'[c].shown \in Newest(EventsOf(c)')
  <2>1. IF thread[c] = None THEN EventsOf(c) = {}
        ELSE /\ thread[c].events = EventsOf(c) /\ thread[c].shown \in Newest(EventsOf(c))
    BY DEF ThreadsFit, ThreadsShowTheNewest, EventsOf
  <2>2. CASE Additions(c, batch) = {}
    <3>1. thread'[c] = thread[c]
      BY <1>2, <2>2
    <3>2. EventsOf(c)' = EventsOf(c)
      <4>1. \A e \in batch : Conversation[e.message] = c => e \in EventsOf(c)
        BY <1>3, <2>1, <2>2
      <4> QED BY <1>2, <4>1 DEF EventsOf
    <3> QED BY <2>1, <3>1, <3>2 DEF ThreadsFit
  <2>3. CASE Additions(c, batch) # {}
    <3> DEFINE group == ProjectionGroup(c, batch, observedAt)
    <3>1. thread'[c] = group
      BY <1>2, <2>3
    <3>2. group \in Thread /\ group.shown \in Newest(group.events)
      BY <1>1, <2>3, GroupShowsTheNewest
    <3>3. group.events = Additions(c, batch) \cup EventsOf(c)
      BY <2>1 DEF ProjectionGroup
    <3> HIDE DEF group
    <3>4. EventsOf(c)' = Additions(c, batch) \cup EventsOf(c)
      <4>1. \A e \in batch : Conversation[e.message] = c =>
              e \in Additions(c, batch) \/ e \in EventsOf(c)
        BY <1>3, <2>1
      <4>2. \A e \in Additions(c, batch) : e \in batch /\ Conversation[e.message] = c
        BY DEF Additions
      <4> QED BY <1>2, <4>1, <4>2 DEF EventsOf
    <3>5. group # None
      BY <3>2, NoneAssumption
    <3> QED BY <3>1, <3>2, <3>3, <3>4, <3>5
  <2> QED BY <2>2, <2>3
<1>5. event' \subseteq Event
  BY <1>2 DEF ThreadsFit
<1>6. thread' \in [Conversations -> Thread \cup {None}]
  BY <1>2, <1>4
<1>7. ThreadsShowTheNewest'
  BY <1>4 DEF ThreadsShowTheNewest, EventsOf
<1> QED BY <1>5, <1>6, <1>7 DEF ThreadsFit

\* What the normalizer makes of a state is an event.
LEMMA NormalizeMessageType ==
  ASSUME NEW m \in Msg, NEW state, state.type \in Type, state.at \in Nat, NEW withBot \in BOOLEAN
  PROVE  NormalizeMessage(m, state, withBot) \in Event
<1>1. (m \in Direct \/ (withBot /\ m \in Mentioning)) \in BOOLEAN
  OBVIOUS
<1> QED BY <1>1 DEF NormalizeMessage, Event

LEMMA ClockType == ASSUME Typed PROVE Clock \in Nat
  BY MinusFacts DEF Typed, Clock

\* Each work item shows a newest event of its conversation, and its thread has all
\* of them and no other, whatever path brings them in whatever order.
THEOREM ThreadsAlwaysShowTheNewest == Spec => []ThreadsShowTheNewest
<1>1. Init => ThreadsFit
  BY OptionsAssumption DEF Init, StoreInit, ThreadsFit, ThreadsShowTheNewest
<1>2. Inv /\ ThreadsFit /\ [Next]_vars => ThreadsFit'
  <2> SUFFICES ASSUME Inv, ThreadsFit, [Next]_vars PROVE ThreadsFit'
    OBVIOUS
  <2>1. bot' \in BOOLEAN /\ uses' \in BOOLEAN
    BY DEF ThreadsFit, Next, vars, configuration, BeginSearch, RejectCursor, SearchFails,
           TokenExpires, CommitPage, AddBot, Restart, Tick, SetClock, Callback, Create,
           Index, Edit
  <2>2. CASE UNCHANGED <<event, thread>>
    BY <2>1, <2>2 DEF ThreadsFit, ThreadsShowTheNewest
  <2>3. CASE CommitPage /\ ~UNCHANGED <<event, thread>>
    <3>1. search \in Search /\ UNCHANGED <<bot, uses>>
      BY <2>3 DEF CommitPage, Waiting, configuration, Inv, Typed
    <3>2. PICK last \in LastOnPage, unavailable \in SUBSET Msg :
            LET batch == Batch(last, unavailable)
                candidate == Candidate(last, unavailable)
            IN  /\ Refusal(batch, search.observedAt, candidate) = None
                /\ CommitConnectorSyncBatch(batch, search.observedAt, candidate)
      BY <2>3 DEF CommitPage, UnavailableOn, Page, Found, store
    <3>3. Batch(last, unavailable) \in SUBSET Event
      <4>1. \A m \in Page(last) : m \in Msg /\ feishu[m] \in Message
        BY DEF Page, Found, Exists, Inv, Typed
      <4>2. \A m \in Page(last) : NormalizeMessage(m, feishu[m], uses) \in Event
        BY <4>1, NormalizeMessageType DEF Message, ThreadsFit
      <4> QED BY <4>2 DEF Batch
    <3>4. search.observedAt \in Nat
      BY <3>1 DEF Search
    <3> QED BY <3>1, <3>2, <3>3, <3>4, CommitShowsTheNewest
  <2>4. ASSUME NEW m \in Msg, Callback(m) PROVE ThreadsFit'
    <3> DEFINE state == [type |-> "message.received", at |-> feishu[m].created]
               batch == {NormalizeMessage(m, state, TRUE)}
    <3>1. /\ Refusal(batch, Clock, None) = None /\ CommitConnectorSyncBatch(batch, Clock, None)
          /\ UNCHANGED <<bot, uses>>
      BY <2>4 DEF Callback, configuration
    <3>2. feishu[m] \in Message
      BY <2>4 DEF Callback, Exists, Inv, Typed
    <3>3. NormalizeMessage(m, state, TRUE) \in Event
      <4>1. state.type \in Type /\ state.at \in Nat
        BY <3>2 DEF Message, Type
      <4> HIDE DEF state
      <4> QED BY <4>1, NormalizeMessageType
    <3>4. batch \in SUBSET Event /\ Clock \in Nat
      BY <3>3, ClockType DEF Inv
    <3> HIDE DEF batch
    <3> QED BY <3>1, <3>4, CommitShowsTheNewest
  <2>5. CASE UNCHANGED vars
    BY <2>2, <2>5 DEF vars, store
  <2> QED
    BY <2>2, <2>3, <2>4, <2>5
    DEF Next, store, BeginSearch, RejectCursor, SearchFails, TokenExpires, AddBot,
        Restart, Tick, SetClock, Create, Index, Edit
<1>3. ThreadsFit => ThreadsShowTheNewest
  BY DEF ThreadsFit
<1> QED BY Invariance, <1>1, <1>2, <1>3, PTL DEF Spec
===============================================================================
