------------------------------ MODULE InboxStore ------------------------------
(***************************************************************************)
(* The part of the workbench database that holds what was received from    *)
(* Feishu: the external events, one thread with its work item per          *)
(* conversation, and the cursor of the User message stream; with the       *)
(* normalizer, which turns messages into events and projections, and the   *)
(* transaction that commits a batch of them.                               *)
(*                                                                         *)
(* An event is one state of one message.  Its identity is the message, the *)
(* kind of state and the source time; its body is what decides the inbox   *)
(* state, requiresReply.  The contents, titles and summaries are left out. *)
(***************************************************************************)
EXTENDS Naturals, FiniteSets

CONSTANTS
  None,           \* no thread, no cursor, no watermark, no window
  Msg,            \* message ids, numbered in the order in which a search lists them
  Conversations,  \* the conversations
  Conversation,   \* the conversation of each message
  Direct,         \* messages of direct conversations
  Mentioning      \* group messages that mention the Bot's principal

ASSUME MessagesAssumption ==
  /\ Msg \subseteq Nat \ {0}
  /\ Conversation \in [Msg -> Conversations]
  /\ Direct \subseteq Msg /\ Mentioning \subseteq Msg

VARIABLES
  event,   \* the stored external events
  thread,  \* the thread and work item of each conversation
  cursor   \* the cursor of the User message stream

store == <<event, thread, cursor>>

Type == {"message.received", "message.updated", "message.deleted"}
Event == [message : Msg, type : Type, at : Nat, requiresReply : BOOLEAN]
Thread == [events : SUBSET Event, updatedAt : Nat, shown : Event]
Window == [start : Nat, end : Nat, token : Nat]
Cursor == [watermark : Nat \cup {None}, window : Window \cup {None}, updatedAt : Nat]

(***************************************************************************)
(* Normalization                                                           *)
(***************************************************************************)

\* The event for a state of message m, under a configuration with or without a Bot.
NormalizeMessage(m, state, withBot) ==
  [message |-> m, type |-> state.type, at |-> state.at,
   requiresReply |-> m \in Direct \/ (withBot /\ m \in Mentioning)]

SameState(e, f) == e.message = f.message /\ e.type = f.type /\ e.at = f.at

\* What a batch adds to the thread of conversation c.
Additions(c, batch) ==
  {e \in batch :
     /\ Conversation[e.message] = c
     /\ thread[c] # None => \A f \in thread[c].events : ~SameState(e, f)}

Newest(events) == {e \in events : \A f \in events : f.at <= e.at}

\* Mutated form: whatever arrives last is shown.
AlwaysAdvances(c, latest) == TRUE

\* Whether the work item is to show the state of event latest.
AdvancesPresentation(c, latest) ==
  thread[c] # None => \A f \in thread[c].events : f.at <= latest.at

\* The event whose state the work item shows; ties are broken by the event's digest.
Shown(c, batch) ==
  LET latest == CHOOSE e \in Newest(Additions(c, batch)) : TRUE
  IN  IF AdvancesPresentation(c, latest) THEN latest ELSE thread[c].shown

ProjectionGroup(c, batch, observedAt) ==
  [events |-> Additions(c, batch) \cup (IF thread[c] = None THEN {} ELSE thread[c].events),
   updatedAt |-> IF thread[c] # None /\ thread[c].updatedAt > observedAt
                   THEN thread[c].updatedAt ELSE observedAt,
   shown |-> Shown(c, batch)]

(***************************************************************************)
(* The transaction                                                         *)
(***************************************************************************)

ObservedEarly(batch, observedAt) == \E e \in batch : e.at > observedAt

\* Mutated form: the stored event is not compared with the one received.
NoEventConflicts(batch) == FALSE

EventConflicts(batch) == \E e \in batch, f \in event : SameState(e, f) /\ e # f

\* A thread that changes must carry a later time than the stored one.
ProjectionConflicts(batch, observedAt) ==
  \E c \in Conversations :
    /\ Additions(c, batch) # {} /\ thread[c] # None
    /\ observedAt <= thread[c].updatedAt

SameCheckpoint(candidate) ==
  cursor.watermark = candidate.watermark /\ cursor.window = candidate.window

CursorRegresses(candidate) ==
  /\ cursor # None /\ ~SameCheckpoint(candidate)
  /\ \/ candidate.updatedAt < cursor.updatedAt
     \/ /\ cursor.watermark # None
        /\ candidate.watermark = None \/ candidate.watermark < cursor.watermark

\* Why a batch is refused as a whole, in the order of the checks, or None.
Refusal(batch, observedAt, candidate) ==
  IF ObservedEarly(batch, observedAt) THEN "observed_early"
  ELSE IF EventConflicts(batch) THEN "event_conflict"
  ELSE IF ProjectionConflicts(batch, observedAt) THEN "projection_conflict"
  ELSE IF candidate # None /\ CursorRegresses(candidate) THEN "cursor_regression"
  ELSE None

WriteCursor(candidate) ==
  cursor' = IF candidate = None \/ (cursor # None /\ SameCheckpoint(candidate))
              THEN cursor ELSE candidate

\* The events, the threads and the cursor of a batch that is not refused.
CommitConnectorSyncBatch(batch, observedAt, candidate) ==
  /\ event' = event \cup batch
  /\ thread' = [c \in Conversations |->
                  IF Additions(c, batch) = {} THEN thread[c]
                  ELSE ProjectionGroup(c, batch, observedAt)]
  /\ WriteCursor(candidate)

StoreInit ==
  event = {} /\ thread = [c \in Conversations |-> None] /\ cursor = None

StoreTypeOK ==
  /\ event \subseteq Event
  /\ thread \in [Conversations -> Thread \cup {None}]
  /\ cursor \in Cursor \cup {None}
===============================================================================
