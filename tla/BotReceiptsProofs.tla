-------------------------- MODULE BotReceiptsProofs --------------------------
(***************************************************************************)
(* Proofs about BotReceipts, for any messages, any requests of Feishu, any *)
(* number of callbacks at a time and any capacity of the journal, wherever *)
(* appends fail or are torn and wherever the process stops.                *)
(***************************************************************************)
EXTENDS BotReceipts, SequenceTheorems, TLAPS

(***************************************************************************)
(* The inductive invariant                                                 *)
(***************************************************************************)

\* A message that the journal still names, or named in a line that a torn one
\* made unreadable.
Named(m) == Joined \in Lines \/ \E x \in Lines \ {Joined} : x.message = m

\* A callback whose receipt is still to be written has stored its event.
HandledIsStored(c) ==
  call[c] # None /\ call[c].step = "handled" => Received(c) \in event

\* The journal names what the cache holds.
CacheIsNamed == \A m \in Message : cache[m] # None => Named(m)

\* The journal names every message that was acknowledged, and so does the cache
\* once it is loaded.
Remembered(r) ==
  /\ Named(r.receipt.message)
  /\ loaded => cache[r.receipt.message] # None

AcknowledgedIsRemembered == \A r \in acknowledged : Accepted(r) => Remembered(r)

ReceiptsFit ==
  /\ TypeOK
  /\ ReceiptsNameStoredEvents
  /\ \A c \in Call : HandledIsStored(c)
  /\ CacheIsNamed
  /\ AcknowledgedIsRemembered

(***************************************************************************)
(* Lines, turns and receipts                                               *)
(***************************************************************************)

\* A complete line is added to those that are there.
LEMMA GrownFile ==
  ASSUME TypeOK, ~Full, NEW r \in Receipt
  PROVE  /\ Grown(r) \in Seq(Receipt \cup {Joined}) /\ Len(Grown(r)) <= Capacity
         /\ ToSet(Grown(r)) = Lines \cup {IF torn THEN Joined ELSE r}
<1> DEFINE line == IF torn THEN Joined ELSE r
<1> DEFINE grown == Append(file, line)
<1>1. file \in Seq(Receipt \cup {Joined}) /\ line \in Receipt \cup {Joined} /\ Len(file) \in Nat
  BY LenProperties DEF TypeOK
<1>2. Capacity \in Nat /\ Len(file) < Capacity
  BY <1>1, BotAssumption DEF Full
<1>3. /\ grown \in Seq(Receipt \cup {Joined}) /\ Len(grown) = Len(file) + 1
      /\ \A i \in 1..Len(file) : grown[i] = file[i]
      /\ grown[Len(file) + 1] = line
  BY <1>1, AppendProperties
<1>4. DOMAIN grown = 1..Len(file) + 1 /\ DOMAIN file = 1..Len(file)
  BY <1>1, <1>3, LenProperties
<1>5. ToSet(grown) = ToSet(file) \cup {line}
  <2>1. ASSUME NEW x \in ToSet(grown) PROVE x \in ToSet(file) \cup {line}
    BY <2>1, <1>1, <1>3, <1>4 DEF ToSet
  <2>2. ASSUME NEW x \in ToSet(file) PROVE x \in ToSet(grown)
    <3>1. PICK i \in 1..Len(file) : x = file[i]
      BY <2>2, <1>4 DEF ToSet
    <3>2. i \in 1..Len(file) + 1 /\ grown[i] = x
      BY <3>1, <1>1, <1>3
    <3> QED BY <3>2, <1>4 DEF ToSet
  <2>3. line \in ToSet(grown)
    <3>1. Len(file) + 1 \in 1..Len(file) + 1
      BY <1>1
    <3> QED BY <3>1, <1>3, <1>4 DEF ToSet
  <2> QED BY <2>1, <2>2, <2>3
<1> QED BY <1>2, <1>3, <1>5, <1>1 DEF Grown, Lines

\* Lines are receipts, or not readable.
LEMMA LinesTyped ==
  ASSUME TypeOK
  PROVE  \A x \in Lines \ {Joined} : x \in Receipt
<1>1. file \in Seq(Receipt \cup {Joined})
  BY DEF TypeOK
<1>2. DOMAIN file = 1..Len(file) /\ \A i \in 1..Len(file) : file[i] \in Receipt \cup {Joined}
  BY <1>1, LenProperties, ElementOfSeq
<1> QED BY <1>2 DEF Lines, ToSet

\* A callback in progress is of a request, and its message and body are typed.
LEMMA CallTyped ==
  ASSUME TypeOK, NEW c \in Call, call[c] # None
  PROVE  /\ call[c] \in [request : Request, step : {"waiting", "handled"}]
         /\ call[c].request \in Request
         /\ Received(c) \in Receipt
         /\ Received(c).message \in Message /\ Received(c).body \in Body
         /\ Received(c) = [message |-> Received(c).message, body |-> Received(c).body]
<1>1. call[c] \in [request : Request, step : {"waiting", "handled"}]
  BY DEF TypeOK
<1>2. call[c].request \in Callback
  BY <1>1, BotAssumption
<1>3. Received(c) \in Receipt
  BY <1>2 DEF Received, Callback
<1> QED BY <1>1, <1>3 DEF Receipt

\* Who leaves is no longer in progress, nobody else moves, and at most its own
\* request is acknowledged.
LEMMA Leaves ==
  ASSUME TypeOK, NEW c \in Call, NEW ok \in BOOLEAN, call[c] # None, queue # <<>>, Leave(c, ok)
  PROVE  /\ call' \in [Call -> [request : Request, step : {"waiting", "handled"}] \cup {None}]
         /\ \A d \in Call : call'[d] = IF d = c THEN None ELSE call[d]
         /\ queue' \in Seq(Call)
         /\ acknowledged' = IF ok THEN acknowledged \cup {call[c].request} ELSE acknowledged
         /\ acknowledged' \subseteq Request
<1>1. call[c].request \in Request
  BY CallTyped
<1>2. /\ call' \in [Call -> [request : Request, step : {"waiting", "handled"}] \cup {None}]
      /\ \A d \in Call : call'[d] = IF d = c THEN None ELSE call[d]
  BY DEF Leave, TypeOK
<1>3. queue' \in Seq(Call)
  BY HeadTailProperties DEF Leave, TypeOK
<1> QED BY <1>1, <1>2, <1>3 DEF Leave, TypeOK

\* Part of a line, or all of it, or nothing.
LEMMA PartTyped ==
  ASSUME TypeOK, NEW r \in Receipt, PartlyAppended(r)
  PROVE  /\ file' \in Seq(Receipt \cup {Joined}) /\ Len(file') <= Capacity /\ torn' \in BOOLEAN
         /\ Lines \subseteq Lines'
         /\ \A x \in Lines' \ {Joined} : x \in Lines \/ x = r
<1>1. CASE UNCHANGED <<file, torn>>
  BY <1>1 DEF TypeOK, Lines
<1>2. CASE ~Full /\ torn' = TRUE /\ UNCHANGED file
  BY <1>2 DEF TypeOK, Lines
<1>3. CASE ~Full /\ file' = Grown(r) /\ torn' = FALSE
  <2>1. Lines' = Lines \cup {IF torn THEN Joined ELSE r}
    BY <1>3, GrownFile DEF Lines
  <2>2. file' \in Seq(Receipt \cup {Joined}) /\ Len(file') <= Capacity
    BY <1>3, GrownFile
  <2> QED BY <1>3, <2>1, <2>2
<1> QED BY <1>1, <1>2, <1>3 DEF PartlyAppended

\* What is named stays named while lines are only added.
LEMMA StaysNamed ==
  ASSUME Lines \subseteq Lines', NEW m, Named(m)
  PROVE  Named(m)'
BY DEF Named

\* The cache, once loaded, holds what the journal names.
LEMMA Loaded ==
  ASSUME TypeOK, Readable, NEW m \in Message
  PROVE  /\ Recorded(m) # {} => /\ (CHOOSE b \in Recorded(m) : TRUE) \in Body
                                /\ [message |-> m, body |-> CHOOSE b \in Recorded(m) : TRUE] \in Lines
         /\ Named(m) <=> Recorded(m) # {}
<1>1. Recorded(m) # {} => (CHOOSE b \in Recorded(m) : TRUE) \in Recorded(m)
  OBVIOUS
<1>2. Recorded(m) # {} => Named(m)
  <2> SUFFICES ASSUME NEW b \in Recorded(m) PROVE Named(m)
    OBVIOUS
  <2>1. [message |-> m, body |-> b] \in Lines /\ [message |-> m, body |-> b].message = m
    BY DEF Recorded
  <2> QED BY <2>1 DEF Named
<1>3. Named(m) => Recorded(m) # {}
  <2> SUFFICES ASSUME NEW x \in Lines \ {Joined}, x.message = m PROVE Recorded(m) # {}
    BY DEF Named, Readable
  <2>1. x \in Receipt
    BY LinesTyped
  <2>2. x = [message |-> m, body |-> x.body] /\ x.body \in Body
    BY <2>1 DEF Receipt
  <2> QED BY <2>2 DEF Recorded
<1> QED BY <1>1, <1>2, <1>3 DEF Recorded

(***************************************************************************)
(* Types                                                                   *)
(***************************************************************************)

CallRecord == [request : Request, step : {"waiting", "handled"}]

LEMMA TypesHold ==
  /\ Init => TypeOK
  /\ TypeOK /\ [Next]_vars => TypeOK'
<1>1. Init => TypeOK
  <2> SUFFICES ASSUME Init PROVE TypeOK
    OBVIOUS
  <2>1. file \in Seq(Receipt \cup {Joined}) /\ Len(file) = 0 /\ queue \in Seq(Call)
    BY EmptySeq DEF Init
  <2>2. Len(file) <= Capacity
    BY <2>1, BotAssumption
  <2> QED BY <2>1, <2>2 DEF Init, TypeOK, NoReceipts
<1>2. TypeOK /\ [Next]_vars => TypeOK'
  <2> SUFFICES ASSUME TypeOK, [Next]_vars PROVE TypeOK'
    OBVIOUS
  <2>1. ASSUME NEW r \in Request, AnswerAtOnce(r) PROVE TypeOK'
    BY <2>1 DEF AnswerAtOnce, journal, TypeOK
  <2>2. ASSUME NEW r \in Request, PollingCommits(r.receipt) PROVE TypeOK'
    <3>1. r.receipt \in Receipt
      BY BotAssumption DEF Callback
    <3> QED BY <2>2, <3>1 DEF PollingCommits, journal, TypeOK
  <2>3. ASSUME NEW c \in Call, NEW r \in Request, Receive(c, r) PROVE TypeOK'
    <3>1. queue' \in Seq(Call)
      BY <2>3, AppendProperties DEF Receive, TypeOK
    <3>2. call' \in [Call -> CallRecord \cup {None}]
      BY <2>3 DEF Receive, TypeOK, CallRecord
    <3> QED BY <2>3, <3>1, <3>2 DEF Receive, journal, TypeOK, CallRecord
  <2>4. ASSUME NEW c \in Call, Load(c) PROVE TypeOK'
    <3>1. CASE Readable
      <4>1. cache' \in [Message -> Body \cup {None}]
        BY <2>4, <3>1, Loaded DEF Load
      <4> QED BY <2>4, <3>1, <4>1 DEF Load, TypeOK
    <3>2. CASE ~Readable
      BY <2>4, <3>2, Leaves DEF Load, AtTurn, TypeOK
    <3> QED BY <3>1, <3>2
  <2>5. ASSUME NEW c \in Call, Recognise(c) PROVE TypeOK'
    BY <2>5, Leaves DEF Recognise, AtTurn, journal, TypeOK
  <2>6. ASSUME NEW c \in Call, Handle(c) PROVE TypeOK'
    <3>1. Received(c) \in Receipt /\ call[c] \in CallRecord
      BY <2>6, CallTyped DEF Handle, AtTurn, CallRecord
    <3>2. call' \in [Call -> CallRecord \cup {None}]
      BY <2>6, <3>1 DEF Handle, TypeOK, CallRecord
    <3> QED BY <2>6, <3>1, <3>2 DEF Handle, journal, TypeOK, CallRecord
  <2>7. ASSUME NEW c \in Call, HandlerFails(c) PROVE TypeOK'
    BY <2>7, Leaves DEF HandlerFails, AtTurn, journal, TypeOK
  <2>8. ASSUME NEW c \in Call, AppendReceipt(c) PROVE TypeOK'
    <3>1. Received(c) \in Receipt /\ Received(c).body \in Body
      BY <2>8, CallTyped DEF AppendReceipt, AtTurn
    <3>2. file' \in Seq(Receipt \cup {Joined}) /\ Len(file') <= Capacity
      BY <2>8, <3>1, GrownFile DEF AppendReceipt
    <3>3. cache' \in [Message -> Body \cup {None}]
      BY <2>8, <3>1 DEF AppendReceipt, TypeOK
    <3> QED BY <2>8, <3>2, <3>3, Leaves DEF AppendReceipt, AtTurn, TypeOK
  <2>9. ASSUME NEW c \in Call, AppendFails(c) PROVE TypeOK'
    <3>1. Received(c) \in Receipt
      BY <2>9, CallTyped DEF AppendFails, AtTurn
    <3> QED BY <2>9, <3>1, PartTyped, Leaves DEF AppendFails, AtTurn, TypeOK
  <2>10. CASE Restart
    <3>1. queue' \in Seq(Call)
      BY <2>10, EmptySeq DEF Restart
    <3>2. file' \in Seq(Receipt \cup {Joined}) /\ Len(file') <= Capacity /\ torn' \in BOOLEAN
      <4>1. CASE UNCHANGED <<file, torn>>
        BY <4>1 DEF TypeOK
      <4>2. ASSUME NEW c \in Call, AtTurn(c, "handled"), PartlyAppended(Received(c))
            PROVE  file' \in Seq(Receipt \cup {Joined}) /\ Len(file') <= Capacity /\ torn' \in BOOLEAN
        BY <4>2, CallTyped, PartTyped DEF AtTurn
      <4> QED BY <2>10, <4>1, <4>2 DEF Restart
    <3> QED BY <2>10, <3>1, <3>2 DEF Restart, NoReceipts, TypeOK
  <2>11. CASE UNCHANGED vars
    BY <2>11 DEF vars, journal, TypeOK
  <2> QED BY <2>1, <2>2, <2>3, <2>4, <2>5, <2>6, <2>7, <2>8, <2>9, <2>10, <2>11 DEF Next, Process
<1> QED BY <1>1, <1>2

\* The types of the journal with its cache, the queue, the callbacks and the
\* events hold after any operation (BotReceipts).
THEOREM TypeCorrect == Spec => []TypeOK
BY TypesHold, PTL DEF Spec

(***************************************************************************)
(* The invariant is inductive                                              *)
(***************************************************************************)

\* What an operation does to the parts of the invariant when it writes at most
\* the line of a stored event, adds events, and leaves the cache alone or drops
\* it: only the callbacks and acknowledgements remain to be looked at.
LEMMA JournalOnlyGrows ==
  ASSUME ReceiptsFit, Lines \subseteq Lines', event \subseteq event',
         \A x \in Lines' \ {Joined} : x \in Lines \/ x \in event,
         cache' = cache \/ cache' = NoReceipts
  PROVE  /\ (Lines \ {Joined} \subseteq event)'
         /\ (\A m \in Message : cache[m] # None => [message |-> m, body |-> cache[m]] \in event)'
         /\ CacheIsNamed'
<1>1. (Lines \ {Joined} \subseteq event)'
  BY DEF ReceiptsFit, ReceiptsNameStoredEvents
<1>2. \A m \in Message : cache'[m] # None => cache'[m] = cache[m]
  BY DEF NoReceipts
<1>3. (\A m \in Message : cache[m] # None => [message |-> m, body |-> cache[m]] \in event)'
  BY <1>2 DEF ReceiptsFit, ReceiptsNameStoredEvents
<1>4. CacheIsNamed'
  <2> SUFFICES ASSUME NEW m \in Message, cache'[m] # None PROVE Named(m)'
    BY DEF CacheIsNamed
  <2>1. Named(m)
    BY <1>2 DEF ReceiptsFit, CacheIsNamed
  <2> QED BY <2>1, StaysNamed
<1> QED BY <1>1, <1>3, <1>4

\* Messages stay remembered while lines and cached receipts are only added, or
\* the cache is dropped.
LEMMA StaysRemembered ==
  ASSUME ReceiptsFit, Lines \subseteq Lines',
         \/ loaded' = FALSE
         \/ loaded' = loaded /\ \A m \in Message : cache[m] # None => cache'[m] # None
  PROVE  \A r \in acknowledged : Accepted(r) => Remembered(r)'
<1> SUFFICES ASSUME NEW r \in acknowledged, Accepted(r) PROVE Remembered(r)'
  OBVIOUS
<1>1. r \in Request
  BY DEF ReceiptsFit, TypeOK
<1>2. r.receipt.message \in Message
  BY <1>1, BotAssumption DEF Callback, Receipt
<1>3. Remembered(r)
  BY DEF ReceiptsFit, AcknowledgedIsRemembered
<1> QED BY <1>2, <1>3, StaysNamed DEF Remembered

\* Acknowledged messages stay in the database.
LEMMA StaysStored ==
  ASSUME ReceiptsFit, event \subseteq event'
  PROVE  \A r \in acknowledged : Accepted(r) => r.receipt \in event'
BY DEF ReceiptsFit, ReceiptsNameStoredEvents

\* The callbacks that were being answered stay so, or leave.
LEMMA StaysHandled ==
  ASSUME ReceiptsFit, event \subseteq event',
         \A c \in Call : call'[c] = call[c] \/ call'[c] = None
  PROVE  \A c \in Call : HandledIsStored(c)'
BY DEF ReceiptsFit, HandledIsStored, Received

LEMMA InitiallyFits == Init => ReceiptsFit
<1> SUFFICES ASSUME Init PROVE ReceiptsFit
  OBVIOUS
<1>1. TypeOK
  BY TypesHold
<1>2. Lines = {}
  BY DEF Init, Lines, ToSet
<1> QED BY <1>1, <1>2 DEF Init, NoReceipts, ReceiptsFit, ReceiptsNameStoredEvents,
                          HandledIsStored, CacheIsNamed, AcknowledgedIsRemembered

\* An operation that leaves journal and cache alone, and acknowledges nothing
\* that is accepted.
LEMMA JournalUntouched ==
  ASSUME ReceiptsFit, TypeOK', UNCHANGED journal, event \subseteq event',
         \A r \in acknowledged' : Accepted(r) => r \in acknowledged,
         \A c \in Call : HandledIsStored(c)'
  PROVE  ReceiptsFit'
<1>1. Lines' = Lines /\ cache' = cache /\ loaded' = loaded
  BY DEF journal, Lines
<1>2. Lines \ {Joined} \subseteq event
  BY DEF ReceiptsFit, ReceiptsNameStoredEvents
<1> QED BY <1>1, <1>2, JournalOnlyGrows, StaysRemembered, StaysStored
        DEF ReceiptsFit, ReceiptsNameStoredEvents, AcknowledgedIsRemembered

LEMMA AnswerAtOnceFits ==
  ASSUME ReceiptsFit, TypeOK', NEW r \in Request, AnswerAtOnce(r)
  PROVE  ReceiptsFit'
<1>1. ~Accepted(r)
  BY DEF AnswerAtOnce, Accepted, IsChallenge, IsMessage
<1>2. /\ UNCHANGED journal /\ event' = event /\ call' = call
      /\ acknowledged' = acknowledged \cup {r}
  BY DEF AnswerAtOnce
<1>3. \A c \in Call : HandledIsStored(c)'
  BY <1>2, StaysHandled
<1> QED BY <1>1, <1>2, <1>3, JournalUntouched

LEMMA PollingFits ==
  ASSUME ReceiptsFit, TypeOK', NEW r \in Request, PollingCommits(r.receipt)
  PROVE  ReceiptsFit'
<1>1. /\ UNCHANGED journal /\ event \subseteq event' /\ call' = call
      /\ acknowledged' = acknowledged
  BY DEF PollingCommits
<1>2. \A c \in Call : HandledIsStored(c)'
  BY <1>1, StaysHandled
<1> QED BY <1>1, <1>2, JournalUntouched

LEMMA ReceiveFits ==
  ASSUME ReceiptsFit, TypeOK', NEW c \in Call, NEW r \in Request, Receive(c, r)
  PROVE  ReceiptsFit'
<1>1. UNCHANGED journal /\ event' = event /\ acknowledged' = acknowledged
  BY DEF Receive
<1>2. ASSUME NEW d \in Call PROVE HandledIsStored(d)'
  <2>1. call'[d] = IF d = c THEN [request |-> r, step |-> "waiting"] ELSE call[d]
    BY DEF Receive, ReceiptsFit, TypeOK
  <2>2. d # c => HandledIsStored(d)'
    BY <1>1, <2>1 DEF ReceiptsFit, HandledIsStored, Received
  <2>3. d = c => call'[d].step = "waiting"
    BY <2>1
  <2> QED BY <2>2, <2>3 DEF HandledIsStored
<1> QED BY <1>1, <1>2, JournalUntouched

LEMMA LoadFits ==
  ASSUME ReceiptsFit, TypeOK', NEW c \in Call, Load(c)
  PROVE  ReceiptsFit'
<1>1. Lines' = Lines /\ event' = event /\ TypeOK /\ ~loaded
  BY DEF Load, Lines, ReceiptsFit
<1>2. Lines \ {Joined} \subseteq event
  BY DEF ReceiptsFit, ReceiptsNameStoredEvents
<1>3. CASE Readable
  <2>1. /\ loaded' = TRUE /\ call' = call /\ acknowledged' = acknowledged
        /\ \A m \in Message :
             cache'[m] = IF Recorded(m) = {} THEN None ELSE CHOOSE b \in Recorded(m) : TRUE
    BY <1>3 DEF Load
  <2>2. \A m \in Message : /\ cache'[m] # None => [message |-> m, body |-> cache'[m]] \in Lines
                           /\ cache'[m] # None <=> Named(m)
    BY <1>1, <1>3, <2>1, Loaded, BotAssumption
  <2>3. (\A m \in Message : cache[m] # None => [message |-> m, body |-> cache[m]] \in event)'
    <3> SUFFICES ASSUME NEW m \in Message, cache'[m] # None
                 PROVE  [message |-> m, body |-> cache'[m]] \in event
      BY <1>1
    <3>1. [message |-> m, body |-> cache'[m]] \in Lines
      BY <2>2
    <3> QED BY <3>1, <1>2, <1>3 DEF Readable
  <2>4. \A m \in Message : Named(m)' <=> Named(m)
    BY <1>1 DEF Named
  <2>5. CacheIsNamed'
    BY <2>2, <2>4 DEF CacheIsNamed
  <2>6. AcknowledgedIsRemembered'
    <3> SUFFICES ASSUME NEW r \in acknowledged, Accepted(r) PROVE Remembered(r)'
      BY <2>1 DEF AcknowledgedIsRemembered
    <3>1. r.receipt.message \in Message
      BY <1>1, BotAssumption DEF TypeOK, Callback, Receipt
    <3>2. Named(r.receipt.message)
      BY DEF ReceiptsFit, AcknowledgedIsRemembered, Remembered
    <3> QED BY <2>2, <2>4, <3>1, <3>2 DEF Remembered
  <2>7. \A d \in Call : HandledIsStored(d)'
    BY <1>1, <2>1, StaysHandled
  <2>8. \A r \in acknowledged' : Accepted(r) => r.receipt \in event'
    BY <1>1, <2>1, StaysStored
  <2> QED BY <1>1, <1>2, <2>3, <2>5, <2>6, <2>7, <2>8 DEF ReceiptsFit, ReceiptsNameStoredEvents
<1>4. CASE ~Readable
  <2>1. Leave(c, FALSE) /\ cache' = cache /\ loaded' = loaded
    BY <1>4 DEF Load
  <2>2. call[c] # None /\ queue # <<>>
    BY DEF Load, AtTurn
  <2>3. /\ acknowledged' = acknowledged
        /\ \A d \in Call : call'[d] = call[d] \/ call'[d] = None
    BY <1>1, <2>1, <2>2, Leaves
  <2> QED BY <1>1, <1>2, <2>1, <2>3, JournalOnlyGrows, StaysRemembered, StaysStored, StaysHandled
          DEF ReceiptsFit, ReceiptsNameStoredEvents, AcknowledgedIsRemembered
<1> QED BY <1>3, <1>4

LEMMA RecogniseFits ==
  ASSUME ReceiptsFit, TypeOK', NEW c \in Call, Recognise(c)
  PROVE  ReceiptsFit'
<1> DEFINE m == Received(c).message
<1> DEFINE ok == cache[m] = Received(c).body
<1>1. /\ UNCHANGED <<journal, event>> /\ Leave(c, ok) /\ loaded /\ cache[m] # None
      /\ call[c] # None /\ queue # <<>> /\ TypeOK /\ ok \in BOOLEAN
  BY DEF Recognise, AtTurn, ReceiptsFit
<1>2. /\ Lines' = Lines /\ cache' = cache /\ loaded' = loaded /\ event' = event
  BY <1>1 DEF journal, Lines
<1>3. /\ m \in Message /\ Received(c) = [message |-> m, body |-> Received(c).body]
  BY <1>1, CallTyped
<1>4. /\ \A d \in Call : call'[d] = call[d] \/ call'[d] = None
      /\ acknowledged' = IF ok THEN acknowledged \cup {call[c].request} ELSE acknowledged
  BY <1>1, Leaves
<1>5. ASSUME NEW q, q = call[c].request PROVE Remembered(q)'
  <2>1. Named(q.receipt.message) /\ q.receipt.message = m
    BY <1>1, <1>3, <1>5 DEF ReceiptsFit, CacheIsNamed, Received
  <2> QED BY <2>1, <1>1, <1>2 DEF Remembered, Named
<1>6. ok => Received(c) \in event
  BY <1>1, <1>3 DEF ReceiptsFit, ReceiptsNameStoredEvents
<1>7. Lines \ {Joined} \subseteq event
  BY DEF ReceiptsFit, ReceiptsNameStoredEvents
<1>8. AcknowledgedIsRemembered'
  <2>1. \A s \in acknowledged : Accepted(s) => Remembered(s)'
    BY <1>2, StaysRemembered
  <2> QED BY <1>4, <1>5, <2>1 DEF AcknowledgedIsRemembered
<1>9. \A r \in acknowledged' : Accepted(r) => r.receipt \in event'
  BY <1>2, <1>4, <1>6, StaysStored DEF Received
<1>10. \A d \in Call : HandledIsStored(d)'
  BY <1>2, <1>4, StaysHandled
<1> QED BY <1>2, <1>7, <1>8, <1>9, <1>10, JournalOnlyGrows DEF ReceiptsFit, ReceiptsNameStoredEvents

LEMMA HandleFits ==
  ASSUME ReceiptsFit, TypeOK', NEW c \in Call, Handle(c)
  PROVE  ReceiptsFit'
<1>1. /\ UNCHANGED journal /\ event' = event \cup {Received(c)} /\ acknowledged' = acknowledged
      /\ call[c] # None /\ TypeOK
  BY DEF Handle, AtTurn, ReceiptsFit
<1>2. call[c] \in CallRecord
  BY <1>1, CallTyped DEF CallRecord
<1>3. ASSUME NEW d \in Call PROVE HandledIsStored(d)'
  <2>1. call'[d] = IF d = c THEN [call[c] EXCEPT !.step = "handled"] ELSE call[d]
    BY <1>1 DEF Handle, TypeOK
  <2>2. d # c => HandledIsStored(d)'
    BY <1>1, <2>1 DEF ReceiptsFit, HandledIsStored, Received
  <2>3. d = c => Received(d)' = Received(c)
    BY <1>2, <2>1 DEF CallRecord, Received
  <2>4. d = c => HandledIsStored(d)'
    BY <1>1, <2>3 DEF HandledIsStored
  <2> QED BY <2>2, <2>4
<1> QED BY <1>1, <1>3, JournalUntouched

LEMMA HandlerFailsFits ==
  ASSUME ReceiptsFit, TypeOK', NEW c \in Call, HandlerFails(c)
  PROVE  ReceiptsFit'
<1>1. /\ UNCHANGED <<journal, event>> /\ Leave(c, FALSE)
      /\ call[c] # None /\ queue # <<>> /\ TypeOK
  BY DEF HandlerFails, AtTurn, ReceiptsFit
<1>2. /\ \A d \in Call : call'[d] = call[d] \/ call'[d] = None
      /\ acknowledged' = acknowledged
  BY <1>1, Leaves
<1>3. \A d \in Call : HandledIsStored(d)'
  BY <1>1, <1>2, StaysHandled
<1> QED BY <1>1, <1>2, <1>3, JournalUntouched

LEMMA AppendReceiptFits ==
  ASSUME ReceiptsFit, TypeOK', NEW c \in Call, AppendReceipt(c)
  PROVE  ReceiptsFit'
<1> DEFINE r == Received(c)
<1>1. /\ ~Full /\ file' = Grown(r) /\ loaded' = loaded /\ event' = event /\ Leave(c, TRUE)
      /\ cache' = [cache EXCEPT ![r.message] = r.body]
      /\ call[c] # None /\ call[c].step = "handled" /\ queue # <<>> /\ TypeOK
  BY DEF AppendReceipt, AtTurn, ReceiptsFit
<1>2. /\ r \in Receipt /\ r.message \in Message /\ r.body \in Body
      /\ r = [message |-> r.message, body |-> r.body]
  BY <1>1, CallTyped
<1>3. r \in event /\ Lines \ {Joined} \subseteq event
  BY <1>1 DEF ReceiptsFit, HandledIsStored, ReceiptsNameStoredEvents
<1>4. Lines' = Lines \cup {IF torn THEN Joined ELSE r}
  BY <1>1, <1>2, GrownFile DEF Lines
<1>5. \A m \in Message : cache'[m] = IF m = r.message THEN r.body ELSE cache[m]
  BY <1>1, <1>2 DEF TypeOK
<1>6. (Lines \ {Joined} \subseteq event)'
  BY <1>1, <1>3, <1>4
<1>7. (\A m \in Message : cache[m] # None => [message |-> m, body |-> cache[m]] \in event)'
  BY <1>1, <1>2, <1>3, <1>5 DEF ReceiptsFit, ReceiptsNameStoredEvents
<1>8. ASSUME NEW m, m = r.message PROVE Named(m)'
  BY <1>2, <1>4, <1>8, BotAssumption DEF Named
<1>9. CacheIsNamed'
  <2> SUFFICES ASSUME NEW m \in Message, cache'[m] # None PROVE Named(m)'
    BY DEF CacheIsNamed
  <2>1. CASE m = r.message
    BY <2>1, <1>8
  <2>2. CASE m # r.message
    <3>1. Named(m)
      BY <2>2, <1>5 DEF ReceiptsFit, CacheIsNamed
    <3> QED BY <3>1, <1>4, StaysNamed
  <2> QED BY <2>1, <2>2
<1>10. /\ \A d \in Call : call'[d] = call[d] \/ call'[d] = None
       /\ acknowledged' = acknowledged \cup {call[c].request}
  BY <1>1, Leaves
<1>11. AcknowledgedIsRemembered'
  <2>1. \A m \in Message : cache[m] # None => cache'[m] # None
    BY <1>2, <1>5, BotAssumption
  <2>2. \A s \in acknowledged : Accepted(s) => Remembered(s)'
    BY <1>1, <1>4, <2>1, StaysRemembered
  <2>3. ASSUME NEW q, q = call[c].request PROVE Remembered(q)'
    <3>1. q.receipt.message = r.message
      BY <2>3 DEF Received
    <3>2. Named(q.receipt.message)' /\ cache'[q.receipt.message] # None
      BY <3>1, <1>2, <1>5, <1>8, BotAssumption
    <3> QED BY <3>2 DEF Remembered
  <2> QED BY <1>10, <2>2, <2>3 DEF AcknowledgedIsRemembered
<1>12. \A s \in acknowledged' : Accepted(s) => s.receipt \in event'
  BY <1>1, <1>3, <1>10, StaysStored DEF Received
<1>13. \A d \in Call : HandledIsStored(d)'
  BY <1>1, <1>10, StaysHandled
<1> QED BY <1>6, <1>7, <1>9, <1>11, <1>12, <1>13 DEF ReceiptsFit, ReceiptsNameStoredEvents

LEMMA AppendFailsFits ==
  ASSUME ReceiptsFit, TypeOK', NEW c \in Call, AppendFails(c)
  PROVE  ReceiptsFit'
<1>1. /\ PartlyAppended(Received(c)) /\ Leave(c, FALSE)
      /\ cache' = cache /\ loaded' = loaded /\ event' = event
      /\ call[c] # None /\ call[c].step = "handled" /\ queue # <<>> /\ TypeOK
  BY DEF AppendFails, AtTurn, ReceiptsFit
<1>2. Received(c) \in Receipt /\ Received(c) \in event
  BY <1>1, CallTyped DEF ReceiptsFit, HandledIsStored
<1>3. /\ Lines \subseteq Lines'
      /\ \A x \in Lines' \ {Joined} : x \in Lines \/ x \in event
  BY <1>1, <1>2, PartTyped
<1>4. /\ acknowledged' = acknowledged
      /\ \A d \in Call : call'[d] = call[d] \/ call'[d] = None
  BY <1>1, Leaves
<1> QED BY <1>1, <1>3, <1>4, JournalOnlyGrows, StaysRemembered, StaysStored, StaysHandled
        DEF ReceiptsFit, ReceiptsNameStoredEvents, AcknowledgedIsRemembered

LEMMA RestartFits ==
  ASSUME ReceiptsFit, TypeOK', Restart
  PROVE  ReceiptsFit'
<1>1. /\ cache' = NoReceipts /\ loaded' = FALSE /\ event' = event /\ acknowledged' = acknowledged
      /\ \A c \in Call : call'[c] = None
  BY DEF Restart
<1>2. /\ Lines \subseteq Lines'
      /\ \A x \in Lines' \ {Joined} : x \in Lines \/ x \in event
  <2>1. CASE UNCHANGED <<file, torn>>
    BY <2>1 DEF Lines
  <2>2. ASSUME NEW c \in Call, AtTurn(c, "handled"), PartlyAppended(Received(c))
        PROVE  /\ Lines \subseteq Lines'
               /\ \A x \in Lines' \ {Joined} : x \in Lines \/ x \in event
    <3>1. call[c] # None /\ call[c].step = "handled" /\ TypeOK
      BY <2>2 DEF AtTurn, ReceiptsFit
    <3>2. Received(c) \in Receipt /\ Received(c) \in event
      BY <3>1, CallTyped DEF ReceiptsFit, HandledIsStored
    <3> QED BY <2>2, <3>1, <3>2, PartTyped
  <2> QED BY <2>1, <2>2 DEF Restart
<1> QED BY <1>1, <1>2, JournalOnlyGrows, StaysRemembered, StaysStored, StaysHandled
        DEF ReceiptsFit, ReceiptsNameStoredEvents, AcknowledgedIsRemembered

LEMMA StepsFit == ReceiptsFit /\ [Next]_vars => ReceiptsFit'
<1> SUFFICES ASSUME ReceiptsFit, [Next]_vars PROVE ReceiptsFit'
  OBVIOUS
<1>1. TypeOK'
  BY TypesHold DEF ReceiptsFit
<1>2. CASE UNCHANGED vars
  <2>1. /\ UNCHANGED journal /\ event' = event /\ call' = call
        /\ acknowledged' = acknowledged
    BY <1>2 DEF vars
  <2>2. \A c \in Call : HandledIsStored(c)'
    BY <2>1, StaysHandled
  <2> QED BY <1>1, <2>1, <2>2, JournalUntouched
<1> QED BY <1>1, <1>2, AnswerAtOnceFits, PollingFits, ReceiveFits, LoadFits, RecogniseFits,
           HandleFits, HandlerFailsFits, AppendReceiptFits, AppendFailsFits, RestartFits
        DEF Next, Process

(***************************************************************************)
(* Theorems                                                                *)
(***************************************************************************)

\* The inductive invariant: journal, cache, database, callbacks and answers fit
\* together after any operations, failing appends and stops.
THEOREM ReceiptsAlwaysFit == Spec => []ReceiptsFit
BY InitiallyFits, StepsFit, PTL DEF Spec

\* What has a receipt or was acknowledged as a message is in the database,
\* whatever was torn, lost or repeated (consumeOnce, #append).
THEOREM ReceiptsAreOfStoredEvents == Spec => []ReceiptsNameStoredEvents
<1>1. ReceiptsFit => ReceiptsNameStoredEvents
  BY DEF ReceiptsFit
<1> QED BY <1>1, ReceiptsAlwaysFit, PTL

\* A message that was acknowledged is not handled a second time, however its
\* line is torn, joined or lost with the cache (#load, #append).
THEOREM AcknowledgedStaysFinal == Spec => AcknowledgedIsFinal
<1> DEFINE Final ==
      \A c \in Call :
        call[c] # None /\ call'[c] # None /\ call[c].step # call'[c].step
        => ~\E r \in acknowledged : Accepted(r) /\ r.receipt.message = Received(c).message
<1>1. ReceiptsFit /\ [Next]_vars => [Final]_vars
  <2> SUFFICES ASSUME ReceiptsFit, Next, NEW c \in Call, call[c] # None, call'[c] # None,
                      call[c].step # call'[c].step
               PROVE  ~\E r \in acknowledged :
                         Accepted(r) /\ r.receipt.message = Received(c).message
    OBVIOUS
  <2>1. TypeOK
    BY DEF ReceiptsFit
  <2>2. Handle(c)
    <3>1. ASSUME NEW d \in Call, NEW ok \in BOOLEAN, AtTurn(d, "waiting") \/ AtTurn(d, "handled"),
                 Leave(d, ok)
          PROVE  FALSE
      <4>1. call[d] # None /\ queue # <<>>
        BY <3>1 DEF AtTurn
      <4>2. call'[c] = IF c = d THEN None ELSE call[c]
        BY <2>1, <3>1, <4>1, Leaves
      <4> QED BY <4>2
    <3>2. ASSUME NEW d \in Call, Load(d) PROVE FALSE
      BY <3>2, <3>1 DEF Load
    <3>3. ASSUME NEW d \in Call, Recognise(d) PROVE FALSE
      <4>1. (cache[Received(d).message] = Received(d).body) \in BOOLEAN
        OBVIOUS
      <4> QED BY <3>3, <3>1, <4>1 DEF Recognise
    <3>4. ASSUME NEW d \in Call, HandlerFails(d) \/ AppendReceipt(d) \/ AppendFails(d) PROVE FALSE
      BY <3>4, <3>1 DEF HandlerFails, AppendReceipt, AppendFails
    <3>5. ASSUME NEW d \in Call, Handle(d), d # c PROVE FALSE
      BY <3>5, <2>1 DEF Handle, TypeOK
    <3>6. ASSUME NEW d \in Call, NEW r \in Request, Receive(d, r) PROVE FALSE
      BY <3>6, <2>1 DEF Receive, TypeOK
    <3>7. ASSUME NEW r \in Request, AnswerAtOnce(r) \/ PollingCommits(r.receipt) PROVE FALSE
      BY <3>7 DEF AnswerAtOnce, PollingCommits
    <3>8. ~Restart
      BY DEF Restart
    <3> QED BY <3>2, <3>3, <3>4, <3>5, <3>6, <3>7, <3>8 DEF Next, Process
  <2>3. loaded /\ cache[Received(c).message] = None
    BY <2>2 DEF Handle
  <2> QED BY <2>3 DEF ReceiptsFit, AcknowledgedIsRemembered, Remembered
<1> QED BY <1>1, ReceiptsAlwaysFit, PTL DEF Spec, AcknowledgedIsFinal
=============================================================================
