----------------------------- MODULE BotReceipts -----------------------------
(***************************************************************************)
(* The callbacks that Feishu delivers to the Bot: verification, the event  *)
(* that is committed to the workbench database, and the journal of         *)
(* receipts, an append-only file with a cache that is loaded once per      *)
(* process.  Callbacks wait for each other in the queue of the journal;    *)
(* appends fail or are torn, and the process stops anywhere.               *)
(*                                                                         *)
(* A request carries a message and its body, the part of it that decides   *)
(* both the digest of the receipt and the event that is stored.            *)
(***************************************************************************)
EXTENDS Naturals, Sequences, SequencesExt

CONSTANTS
  Message, Body,
  Request,   \* bound: the callbacks that arrive
  Call,      \* bound: how many are handled at a time
  Capacity,  \* MAX_RECEIPT_STORE_BYTES, in receipts
  Joined,    \* a line that is no receipt: a torn one to which the next one was joined
  None

Receipt == [message : Message, body : Body]

\* A request, by what each of the checks finds in it.
Callback ==
  [framed : BOOLEAN,      \* the web server takes its headers and its body
   headed : BOOLEAN,      \* each signature header is there once and well formed
   age : {"fresh", "stale"},  \* by the timestamp, against maximumSignatureAgeMs
   signed : BOOLEAN,      \* with the encryption key, over the body as it was sent
   body : {"plain", "encrypted", "garbled"},
   type : {"url_verification", "message", "other"},
   token : BOOLEAN,       \* the verification token is the configured one
   account : BOOLEAN,     \* application and tenant are the configured ones
   chat : {"p2p", "group"},
   mentions : SUBSET {"bot", "person"},
   content : BOOLEAN,     \* the content of the message is JSON
   receipt : Receipt]

ASSUME BotAssumption ==
  /\ Request \subseteq Callback
  /\ Capacity \in Nat \ {0}
  /\ None \notin Body /\ Joined \notin Receipt

VARIABLES
  file,    \* the complete lines of the journal
  torn,    \* whether an incomplete line follows them
  cache,   \* the receipts of this process, by message
  loaded,  \* whether the cache is loaded
  queue,   \* the callbacks that wait for the journal, in order
  call,    \* the request of each callback in progress, and its step
  event,   \* the events in the database
  acknowledged \* the requests that were answered with 200

journal == <<file, torn, cache, loaded>>
vars == <<journal, queue, call, event, acknowledged>>

TypeOK ==
  /\ file \in Seq(Receipt \cup {Joined}) /\ Len(file) <= Capacity
  /\ torn \in BOOLEAN
  /\ cache \in [Message -> Body \cup {None}]
  /\ loaded \in BOOLEAN
  /\ queue \in Seq(Call)
  /\ call \in [Call -> [request : Request, step : {"waiting", "handled"}] \cup {None}]
  /\ event \subseteq Receipt
  /\ acknowledged \subseteq Request

NoReceipts == [m \in Message |-> None]

Init ==
  /\ file = <<>> /\ torn = FALSE /\ cache = NoReceipts /\ loaded = FALSE
  /\ queue = <<>> /\ call = [c \in Call |-> None]
  /\ event = {} /\ acknowledged = {}

(***************************************************************************)
(* The callback                                                            *)
(***************************************************************************)

\* The signature is over the body as it was sent: it is checked before the body
\* is decrypted or looked at.
Verified(r) == r.headed /\ r.age = "fresh" /\ r.signed

\* parseBody: JSON, or an envelope that is decrypted to JSON.
Opens(r) == r.body \in {"plain", "encrypted"}

Authentic(r) == r.framed /\ Verified(r) /\ Opens(r)

\* A challenge verifies the address of the callback.
IsChallenge(r) == r.type = "url_verification" /\ r.token

\* A message to the configured application and tenant.
IsMessage(r) == r.type = "message" /\ r.account

\* What the Bot may see: direct messages, and those that mention it.
Visible(r) == r.chat = "p2p" \/ "bot" \in r.mentions

\* A group message that does not mention the Bot is ignored before its content
\* is looked at.
Accepted(r) == Authentic(r) /\ IsMessage(r) /\ Visible(r) /\ r.content

\* Answered without the journal.  A request that passes no check is refused, and
\* changes nothing.
AnswerAtOnce(r) ==
  /\ Authentic(r)
  /\ IsChallenge(r) \/ (IsMessage(r) /\ ~Visible(r))
  /\ acknowledged' = acknowledged \cup {r}
  /\ UNCHANGED <<journal, queue, call, event>>

\* A message waits for its turn.
Receive(c, r) ==
  /\ call[c] = None
  /\ Accepted(r)
  /\ call' = [call EXCEPT ![c] = [request |-> r, step |-> "waiting"]]
  /\ queue' = Append(queue, c)
  /\ UNCHANGED <<journal, event, acknowledged>>

AtTurn(c, step) ==
  /\ queue # <<>> /\ Head(queue) = c
  /\ call[c] # None /\ call[c].step = step
Received(c) == call[c].request.receipt

\* Mutated form: a callback that fails keeps its place.
LeaveIfAcknowledged(c, ok) ==
  /\ call' = [call EXCEPT ![c] = None]
  /\ queue' = IF ok THEN Tail(queue) ELSE queue
  /\ acknowledged' = IF ok THEN acknowledged \cup {call[c].request} ELSE acknowledged

\* The callback is answered, and the next one has its turn however it ended.
Leave(c, ok) ==
  /\ call' = [call EXCEPT ![c] = None]
  /\ queue' = Tail(queue)
  /\ acknowledged' = IF ok THEN acknowledged \cup {call[c].request} ELSE acknowledged

(***************************************************************************)
(* Loading                                                                 *)
(***************************************************************************)

Lines == ToSet(file)

\* Mutated form: lines that are no receipts are passed over.
ReadableDespiteJoined ==
  \A x, y \in Lines \ {Joined} : x.message = y.message => x = y

\* Each line is a receipt, and no two of them contradict each other.
Readable ==
  /\ Joined \notin Lines
  /\ \A x, y \in Lines : x.message = y.message => x = y

Recorded(m) == {b \in Body : [message |-> m, body |-> b] \in Lines}

\* An incomplete line is cut off first.
Load(c) ==
  /\ AtTurn(c, "waiting") /\ ~loaded
  /\ torn' = FALSE
  /\ IF Readable
       THEN /\ cache' = [m \in Message |->
                           IF Recorded(m) = {} THEN None ELSE CHOOSE b \in Recorded(m) : TRUE]
            /\ loaded' = TRUE
            /\ UNCHANGED <<queue, call, acknowledged>>
       ELSE Leave(c, FALSE) /\ UNCHANGED <<cache, loaded>>
  /\ UNCHANGED <<file, event>>

(***************************************************************************)
(* Handling                                                                *)
(***************************************************************************)

\* A receipt of the same body makes it a duplicate, another body a conflict.
Recognise(c) ==
  /\ AtTurn(c, "waiting") /\ loaded
  /\ cache[Received(c).message] # None
  /\ Leave(c, cache[Received(c).message] = Received(c).body)
  /\ UNCHANGED <<journal, event>>

Conflicts(receipt) == \E e \in event : e.message = receipt.message /\ e # receipt

\* Mutated form: a message that cannot be stored gets a receipt as well.
HandlerFailureIgnored(c) ==
  /\ AtTurn(c, "waiting") /\ loaded
  /\ cache[Received(c).message] = None
  /\ call' = [call EXCEPT ![c].step = "handled"]
  /\ UNCHANGED <<journal, queue, event, acknowledged>>

\* The event, or the one that is stored already, is committed before the receipt.
Handle(c) ==
  /\ AtTurn(c, "waiting") /\ loaded
  /\ cache[Received(c).message] = None
  /\ ~Conflicts(Received(c))
  /\ event' = event \cup {Received(c)}
  /\ call' = [call EXCEPT ![c].step = "handled"]
  /\ UNCHANGED <<journal, queue, acknowledged>>

\* A conflict, a failing database, or the sender has gone.
HandlerFails(c) ==
  /\ AtTurn(c, "waiting") /\ loaded
  /\ cache[Received(c).message] = None
  /\ Leave(c, FALSE)
  /\ UNCHANGED <<journal, event>>

(***************************************************************************)
(* The receipt                                                             *)
(***************************************************************************)

Full == Len(file) >= Capacity

\* What the file becomes when a whole line is written to it.
Grown(receipt) == Append(file, IF torn THEN Joined ELSE receipt)

AppendReceipt(c) ==
  /\ AtTurn(c, "handled") /\ ~Full
  /\ file' = Grown(Received(c)) /\ torn' = FALSE
  /\ cache' = [cache EXCEPT ![Received(c).message] = Received(c).body]
  /\ Leave(c, TRUE)
  /\ UNCHANGED <<loaded, event>>

\* Nothing is written, or a part of the line, or the line is not synced.
PartlyAppended(receipt) ==
  \/ UNCHANGED <<file, torn>>
  \/ ~Full /\ torn' = TRUE /\ UNCHANGED file
  \/ ~Full /\ file' = Grown(receipt) /\ torn' = FALSE

AppendFails(c) ==
  /\ AtTurn(c, "handled")
  /\ PartlyAppended(Received(c))
  /\ Leave(c, FALSE)
  /\ UNCHANGED <<cache, loaded, event>>

(***************************************************************************)
(* The rest of the system                                                  *)
(***************************************************************************)

\* The same message is found by the search of the User.
PollingCommits(receipt) ==
  /\ ~Conflicts(receipt)
  /\ event' = event \cup {receipt}
  /\ UNCHANGED <<journal, queue, call, acknowledged>>

\* The process stops, at worst in the middle of an append.
Restart ==
  /\ cache' = NoReceipts /\ loaded' = FALSE
  /\ queue' = <<>> /\ call' = [c \in Call |-> None]
  /\ \/ UNCHANGED <<file, torn>>
     \/ \E c \in Call : AtTurn(c, "handled") /\ PartlyAppended(Received(c))
  /\ UNCHANGED <<event, acknowledged>>

Process(c) ==
  Load(c) \/ Recognise(c) \/ Handle(c) \/ HandlerFails(c) \/ AppendReceipt(c) \/ AppendFails(c)

Next ==
  \/ \E r \in Request : AnswerAtOnce(r) \/ PollingCommits(r.receipt)
  \/ \E c \in Call, r \in Request : Receive(c, r)
  \/ \E c \in Call : Process(c)
  \/ Restart

\* A callback that has its turn is worked on until it is answered.
Spec == Init /\ [][Next]_vars /\ \A c \in Call : WF_vars(Process(c))

(***************************************************************************)
(* Properties                                                              *)
(***************************************************************************)

\* What has a receipt, or was acknowledged as a message, is in the database:
\* a stop between the commit, the receipt and the answer never loses a message
\* (consumeOnce with the handler of the ingress).
ReceiptsNameStoredEvents ==
  /\ Lines \ {Joined} \subseteq event
  /\ \A m \in Message : cache[m] # None => [message |-> m, body |-> cache[m]] \in event
  /\ \A r \in acknowledged : Accepted(r) => r.receipt \in event

\* However its line is torn, joined or lost with the cache, a message that was
\* acknowledged is not handled a second time (#load, #append).
AcknowledgedIsFinal ==
  [][\A c \in Call :
       call[c] # None /\ call'[c] # None /\ call[c].step # call'[c].step
       => ~\E r \in acknowledged :
             Accepted(r) /\ r.receipt.message = Received(c).message]_vars

\* A callback is answered, whatever happened to the ones before it.
CallbacksAreAnswered == \A c \in Call : call[c] # None ~> call[c] = None
=============================================================================
