------------------------- MODULE PeerMessengerProofs -------------------------
(***************************************************************************)
(* For any number of nodes, names, addresses, texts and queue sizes: the   *)
(* messenger on top of RollCall is RollCall, so that the tables stay what  *)
(* they are without it; its own variables keep their types; and as long as *)
(* no two nodes went by one address, a message that was sent by name is    *)
(* queued by no node but one of that name, and shown with no name but one  *)
(* of its sender.                                                          *)
(*                                                                         *)
(* The argument follows the address.  A name is resolved to an address     *)
(* that is on record with it, the frame carries this address, and only a   *)
(* node that goes by it takes the frame in.                                *)
(*                                                                         *)
(* A second invariant accounts for the texts: each goes on the air once,   *)
(* so what a node has taken in tells its messages apart; the queue is the  *)
(* end of that, and before it every message was read or pushed out.        *)
(***************************************************************************)
EXTENDS PeerMessenger, RollCallProofs

-----------------------------------------------------------------------------
(* What is on record about a text *)

WasSent(text) == \E s \in sent : s.text = text

(* Whoever has it to say has gone by that address. *)
SaidFrom(text, from) == \A m \in Node : text \in Text[m] => \E x \in lived[m] : x[2] = from

(* The name it was sent to was on record with that address. *)
SentToward(text, to) ==
    \A s \in sent : s.text = text /\ s.name # Nameless => <<s.name, to>> \in held

Letters ==
    {msg \in Message : msg.kind = "data" =>
        WasSent(msg.payload) /\ SaidFrom(msg.payload, msg.from) /\ SentToward(msg.payload, msg.to)}

(* What a node that went by the right address took in. *)
Received(n) ==
    {message \in QueuedMessage :
        /\ WasSent(message.text) /\ SaidFrom(message.text, message.from)
        /\ \E x \in lived[n] : SentToward(message.text, x[2])}

ShownMessage == [text : Payload, from : NodeId, name : Name \cup {Unknown}]

Shown ==
    {message \in ShownMessage :
        /\ SaidFrom(message.text, message.from)
        /\ message.name # Unknown => <<message.name, message.from>> \in held}

-----------------------------------------------------------------------------
(* The invariant *)

(* The record held is the union of what each node has gone by. *)
LivedInv ==
    /\ lived \in [Node -> SUBSET (Name \X NodeId)]
    /\ \A n \in Node : Running(n) => <<book[n].name, book[n].id>> \in lived[n]
    /\ \A h \in held : \E n \in Node : h \in lived[n]

OutgoingInv ==
    /\ DOMAIN outgoing = Node
    /\ \A n \in Node : outgoing[n] # Nothing =>
          /\ outgoing[n] \in [name : AskedNames[n], text : Text[n]]
          /\ outgoing[n].text \in Unsent(n)
          /\ call[n] \in {"idle", "query"}
    /\ sent \subseteq [text : Payload, name : Name \cup {Nameless}]

QueueInv ==
    /\ queue \in [Node -> Seq(QueuedMessage)]
    /\ \A n \in Node : queue[n] \in Seq(Received(n)) /\ Len(queue[n]) <= QueueMax
    /\ taken \in [Node -> Seq(QueuedMessage)]
    /\ \A n \in Node : taken[n] \in Seq(Received(n))
    /\ shown \in [Node -> Seq(Shown)]
    /\ dropped \in [Node -> Nat]

LettersInv == inbox \in [Node -> Seq(Letters)]

MInv == IInv /\ LivedInv /\ OutgoingInv /\ QueueInv /\ LettersInv

LEMMA MInvMailOK == MInv => MailOK
BY DEF MInv, LivedInv, OutgoingInv, QueueInv, MailOK

(* Only one node can have gone by the address a name was on record with. *)
LEMMA OneHolder ==
    ASSUME LivedInv, AddressesDistinct, NEW x \in Name, NEW i \in NodeId, <<x, i>> \in held,
           NEW n \in Node, NEW y \in lived[n], y[2] = i
    PROVE  \E z \in lived[n] : z[1] = x
<1>1. PICK m \in Node : <<x, i>> \in lived[m]
  BY DEF LivedInv
<1>2. m = n
  BY <1>1 DEF AddressesDistinct
<1> QED BY <1>1, <1>2

LEMMA MInvRightReceiver == MInv => RightReceiver
<1> SUFFICES ASSUME MInv, AddressesDistinct, NEW n \in Node, NEW s \in sent,
                    s.name # Nameless, NEW i \in DOMAIN taken[n], taken[n][i].text = s.text
             PROVE  \E x \in lived[n] : x[1] = s.name
  BY DEF RightReceiver
<1>1. taken[n][i] \in Received(n)
  BY DEF MInv, QueueInv
<1>2. PICK x \in lived[n] : SentToward(taken[n][i].text, x[2])
  BY <1>1 DEF Received
<1>3. <<s.name, x[2]>> \in held
  BY <1>2 DEF SentToward
<1>4. s.name \in Name /\ x[2] \in NodeId
  BY <1>2 DEF MInv, OutgoingInv, LivedInv
<1> QED BY <1>2, <1>3, <1>4, OneHolder DEF MInv

LEMMA MInvRightSender == MInv => RightSender
<1> SUFFICES ASSUME MInv, AddressesDistinct, NEW n \in Node, NEW m \in Node,
                    NEW i \in DOMAIN shown[n],
                    shown[n][i].name # Unknown, shown[n][i].text \in Text[m]
             PROVE  \E x \in lived[m] : x[1] = shown[n][i].name
  BY DEF RightSender
<1>1. shown[n][i] \in Shown
  BY DEF MInv, QueueInv
<1>2. PICK x \in lived[m] : x[2] = shown[n][i].from
  BY <1>1 DEF Shown, SaidFrom
<1>3. /\ <<shown[n][i].name, shown[n][i].from>> \in held
      /\ shown[n][i].name \in Name /\ shown[n][i].from \in NodeId
  BY <1>1 DEF Shown, ShownMessage
<1> QED BY <1>2, <1>3, OneHolder DEF MInv

-----------------------------------------------------------------------------
(* What the steps of RollCall leave alone *)

LEMMA BookShape ==
    ASSUME NEW n \in Node, Call(n) \/ Handle(n) \/ HearData(n) \/ Continue(n) \/ Return(n)
    PROVE  \/ UNCHANGED <<book, held>>
           \/ \E b : book' = [book EXCEPT ![n] = b] /\ UNCHANGED held
           \/ \E b : Become(n, b)
<1>1. CASE Begin(n)
  BY <1>1 DEF Begin
<1>2. CASE GiveWay(n)
  BY <1>2 DEF GiveWay
<1>3. CASE LearnPeer(n) \/ HearResponse(n)
  BY <1>3 DEF LearnPeer, HearResponse
<1>4. CASE \E hearers \in SUBSET Node : Serve(n, hearers)
  BY <1>4 DEF Serve
<1>5. CASE \E msg \in Questions(n), hearers \in SUBSET Node : Ask(n, msg, hearers)
  BY <1>5 DEF Ask
<1>6. CASE RecogniseSelf(n) \/ StandFirm(n) \/ Overhear(n) \/ HearData(n)
  BY <1>6 DEF RecogniseSelf, StandFirm, Overhear, HearData
<1>7. CASE \E hearers \in SUBSET Node : HearQuery(n, hearers)
  BY <1>7 DEF HearQuery
<1>8. CASE Continue(n)
  BY <1>8 DEF Continue, Introduce, Announce, AskAgain
<1>9. CASE Return(n)
  BY <1>9 DEF Return, IntroduceFails, Settle, ServeTimeout, QueryTimeout
<1> QED BY <1>1, <1>2, <1>3, <1>4, <1>5, <1>6, <1>7, <1>8, <1>9 DEF Call, Handle, ReadHello

(* Inside sendMessage() the node waits in whoIs() or returns from it. *)
LEMMA InsideQuery ==
    ASSUME CallInv, NEW n \in Node, Handle(n) \/ HearData(n) \/ Continue(n) \/ Return(n),
           call[n] \in {"idle", "query"}
    PROVE  call'[n] \in {"idle", "query"}
<1>1. UNCHANGED call \/ call' = [call EXCEPT ![n] = "idle"]
  <2>1. CASE Handle(n) \/ HearData(n)
    BY <2>1, ReadShape
  <2>2. CASE Continue(n)
    BY <2>2 DEF Continue, Introduce, Announce, AskAgain
  <2>3. CASE Return(n)
    BY <2>3, LeaveShape DEF Return, IntroduceFails, Settle, ServeTimeout, QueryTimeout
  <2> QED BY <2>1, <2>2, <2>3
<1> QED BY <1>1 DEF CallInv

Claims == {msg \in Message : msg.kind # "data"}

LEMMA InboxShape ==
    ASSUME IInv, NEW n \in Node, Call(n) \/ Handle(n) \/ HearData(n) \/ Continue(n) \/ Return(n)
    PROVE  \/ UNCHANGED inbox
           \/ inbox[n] # <<>> /\ inbox' = Taken(n)
           \/ \E msg \in Claims, hearers \in SUBSET Node :
                 \/ inbox' = Broadcast(inbox, msg, hearers)
                 \/ inbox[n] # <<>> /\ inbox' = Broadcast(Taken(n), msg, hearers)
<1>1. Running(n) => Said(n) \subseteq Claims
  BY SaidTrue DEF Claims
<1>2. \A hearers \in SUBSET (Node \ {n}) : hearers \in SUBSET Node
  OBVIOUS
<1> QED BY <1>1, <1>2, InboxChange DEF Read

-----------------------------------------------------------------------------
(* What is on record stays on record *)

Grows ==
    /\ held \subseteq held' /\ sent \subseteq sent'
    /\ \A n \in Node : lived[n] \subseteq lived'[n]
    /\ \A s \in sent' \ sent : ~WasSent(s.text)

LEMMA Growth ==
    ASSUME Grows
    PROVE  /\ Letters \subseteq Letters' /\ Shown \subseteq Shown'
           /\ \A n \in Node : Received(n) \subseteq Received(n)'
<1>1. ASSUME NEW text, WasSent(text) PROVE WasSent(text)'
  BY <1>1 DEF WasSent, Grows
<1>2. ASSUME NEW text, NEW from, SaidFrom(text, from) PROVE SaidFrom(text, from)'
  BY <1>2 DEF SaidFrom, Grows
<1>3. ASSUME NEW text, NEW to, WasSent(text), SentToward(text, to) PROVE SentToward(text, to)'
  BY <1>3 DEF SentToward, Grows
<1>4. Letters \subseteq Letters'
  BY <1>1, <1>2, <1>3 DEF Letters
<1>5. Shown \subseteq Shown'
  BY <1>2 DEF Shown, Grows
<1>6. \A n \in Node : Received(n) \subseteq Received(n)'
  BY <1>1, <1>2, <1>3 DEF Received, Grows
<1> QED BY <1>4, <1>5, <1>6

-----------------------------------------------------------------------------
(* What the parts of the invariant need of a step *)

LEMMA LivedStep ==
    ASSUME IInv, IInv', LivedInv, NEW n \in Node,
           Call(n) \/ Handle(n) \/ Continue(n) \/ Return(n),
           lived' = [lived EXCEPT ![n] = @ \cup {<<book'[n].name, book'[n].id>>}]
    PROVE  LivedInv' /\ held \subseteq held' /\ \A m \in Node : lived[m] \subseteq lived'[m]
<1> DEFINE own == <<book'[n].name, book'[n].id>>
<1>1. /\ book \in [Node -> Book] /\ book' \in [Node -> Book]
      /\ \A m \in Node : Running(m)' => book'[m].id \in NodeId
      /\ call \in [Node -> {"off", "idle", "hush", "probe", "serve", "query"}]
  BY DEF IInv, BooksInv, CallInv
<1>2. /\ held \subseteq held' /\ held' \subseteq held \cup {own}
      /\ \A m \in Node \ {n} : book'[m] = book[m]
  BY <1>1, BookShape DEF Become
<1>3. Running(n)' /\ \A m \in Node \ {n} : Running(m)' <=> Running(m)
  BY <1>1, CallShape DEF Running
<1>4. own \in Name \X NodeId
  BY <1>1, <1>3 DEF Book
<1>5. /\ lived'[n] = lived[n] \cup {own} /\ lived'[n] \subseteq Name \X NodeId
      /\ \A m \in Node \ {n} : lived'[m] = lived[m]
  BY <1>4 DEF LivedInv
<1>6. lived' \in [Node -> SUBSET (Name \X NodeId)]
  BY <1>5 DEF LivedInv
<1>7. \A m \in Node : Running(m)' => <<book'[m].name, book'[m].id>> \in lived'[m]
  BY <1>2, <1>3, <1>5 DEF LivedInv
<1>8. \A h \in held' : \E m \in Node : h \in lived'[m]
  BY <1>2, <1>5 DEF LivedInv
<1> HIDE DEF own
<1> QED BY <1>2, <1>5, <1>6, <1>7, <1>8 DEF LivedInv

LEMMA SameLived ==
    ASSUME LivedInv, UNCHANGED <<book, held, lived>>, \A m \in Node : Running(m)' => Running(m)
    PROVE  LivedInv'
BY DEF LivedInv

LEMMA SameRunning ==
    ASSUME IInv, NEW n \in Node, Running(n), NEW c,
           UNCHANGED call \/ call' = [call EXCEPT ![n] = c]
    PROVE  \A m \in Node : Running(m)' => Running(m)
BY DEF Running, IInv, CallInv

LEMMA SameQueues ==
    ASSUME QueueInv, Grows, UNCHANGED <<queue, dropped, taken, shown>>
    PROVE  QueueInv'
<1>1. /\ \A n \in Node : Received(n) \subseteq Received(n)'
      /\ Shown \subseteq Shown'
  BY Growth
<1>2. \A n \in Node : queue[n] \in Seq(Received(n)') /\ taken[n] \in Seq(Received(n)')
  BY <1>1, SeqDef DEF QueueInv
<1>3. \A n \in Node : shown[n] \in Seq(Shown')
  BY <1>1, SeqDef DEF QueueInv
<1>4. shown \in [Node -> Seq(Shown')]
  BY <1>3 DEF QueueInv
<1> QED BY <1>2, <1>4 DEF QueueInv

LEMMA LettersGrow ==
    ASSUME LettersInv, Grows
    PROVE  inbox \in [Node -> Seq(Letters')] /\ Claims \subseteq Letters'
<1>1. Letters \subseteq Letters'
  BY Growth
<1>2. \A n \in Node : inbox[n] \in Seq(Letters')
  BY <1>1, SeqDef DEF LettersInv
<1>3. Claims \subseteq Letters'
  BY DEF Claims, Letters
<1> QED BY <1>2, <1>3 DEF LettersInv

LEMMA TakenLetters ==
    ASSUME InboxInv, NEW S, inbox \in [Node -> Seq(S)], NEW n \in Node, inbox[n] # <<>>
    PROVE  /\ Taken(n) \in [Node -> Seq(S)] /\ \A m \in Node : Len(Taken(n)[m]) <= InboxSize
           /\ Head(inbox[n]) \in S
<1>1. Tail(inbox[n]) \in Seq(S) /\ Head(inbox[n]) \in S
  OBVIOUS
<1> QED BY <1>1, TakenType DEF Taken

LEMMA LettersStep ==
    ASSUME IInv, LettersInv, Grows, NEW n \in Node,
           Call(n) \/ Handle(n) \/ HearData(n) \/ Continue(n) \/ Return(n)
    PROVE  LettersInv'
<1>1. inbox \in [Node -> Seq(Letters')] /\ Claims \subseteq Letters'
  BY LettersGrow
<1>2. InboxInv /\ \A m \in Node : Len(inbox[m]) <= InboxSize
  BY DEF IInv, InboxInv
<1>3. CASE UNCHANGED inbox
  BY <1>1, <1>3 DEF LettersInv
<1>4. CASE inbox[n] # <<>> /\ inbox' = Taken(n)
  BY <1>1, <1>2, <1>4, TakenLetters DEF LettersInv
<1>5. CASE \E msg \in Claims, hearers \in SUBSET Node :
                 \/ inbox' = Broadcast(inbox, msg, hearers)
                 \/ inbox[n] # <<>> /\ inbox' = Broadcast(Taken(n), msg, hearers)
  <2>1. PICK msg \in Claims, hearers \in SUBSET Node :
                 \/ inbox' = Broadcast(inbox, msg, hearers)
                 \/ inbox[n] # <<>> /\ inbox' = Broadcast(Taken(n), msg, hearers)
    BY <1>5
  <2>2. msg \in Letters'
    BY <1>1
  <2>3. CASE inbox' = Broadcast(inbox, msg, hearers)
    BY <1>1, <1>2, <2>2, <2>3, BroadcastType DEF LettersInv
  <2>4. CASE inbox[n] # <<>> /\ inbox' = Broadcast(Taken(n), msg, hearers)
    <3>1. Taken(n) \in [Node -> Seq(Letters')] /\ \A m \in Node : Len(Taken(n)[m]) <= InboxSize
      BY <1>1, <1>2, <2>4, TakenLetters
    <3> QED BY <2>2, <2>4, <3>1, BroadcastType DEF LettersInv
  <2> QED BY <2>1, <2>3, <2>4
<1> QED BY <1>3, <1>4, <1>5, InboxShape

LEMMA QueuedType ==
    ASSUME NEW S, NEW messages \in Seq(S), Len(messages) <= QueueMax, NEW message \in S
    PROVE  Queued(messages, message) \in Seq(S) /\ Len(Queued(messages, message)) <= QueueMax
<1>1. CASE Len(messages) < QueueMax
  <2>1. Queued(messages, message) = Append(messages, message)
    BY <1>1 DEF Queued
  <2> QED BY <1>1, <2>1, PeerMessengerAssumption
<1>2. CASE ~(Len(messages) < QueueMax)
  <2>1. Len(messages) \in Nat \ {0}
    BY <1>2, PeerMessengerAssumption
  <2>2. Tail(messages) \in Seq(S) /\ Len(Tail(messages)) = Len(messages) - 1
    BY <2>1
  <2>3. Queued(messages, message) = Append(Tail(messages), message)
    BY <1>2 DEF Queued
  <2>4. Len(Append(Tail(messages), message)) = Len(Tail(messages)) + 1
    BY <2>2
  <2> QED BY <2>1, <2>2, <2>3, <2>4
<1> QED BY <1>1, <1>2

-----------------------------------------------------------------------------
(* sendMessage() *)

LEMMA TransmitKeeps ==
    ASSUME MInv, NEW n \in Node, NEW to \in SendTo[n], NEW name, NEW text \in Unsent(n),
           name = Nameless \/ (name \in Name /\ <<name, to>> \in held),
           Transmit(n, to, name, text),
           \/ outgoing[n] = Nothing /\ UNCHANGED outgoing
           \/ outgoing' = [outgoing EXCEPT ![n] = Nothing]
    PROVE  MInv' /\ Send(n)
<1>1. PICK hearers \in SUBSET Node : SendData(n, to, text, hearers)
  BY DEF Transmit
<1>2. /\ text \in Text[n] /\ text \in Payload /\ ~WasSent(text)
      /\ to \in NodeId \cup {Everyone}
  BY PeerMessengerAssumption, RollCallAssumption DEF Unsent, WasSent
<1>3. /\ Send(n)
      /\ UNCHANGED <<book, held, call, lived, queue, dropped, taken, shown>>
      /\ inbox' = Broadcast(inbox, Data(book[n], to, text), hearers)
      /\ sent' = sent \cup {[text |-> text, name |-> name]} /\ Running(n)
  BY <1>1, <1>2 DEF Send, SendData, Transmit, Running
<1>4. IInv'
  BY <1>3, StepKeepsIInv DEF MInv, Step
<1>5. Grows
  BY <1>2, <1>3 DEF Grows
<1>6. LivedInv'
  BY <1>3, SameLived DEF MInv, Running
<1>7. QueueInv'
  BY <1>3, <1>5, SameQueues DEF MInv
<1>8. LettersInv'
  <2>1. inbox \in [Node -> Seq(Letters')] /\ \A m \in Node : Len(inbox[m]) <= InboxSize
    BY <1>5, LettersGrow DEF MInv, IInv, InboxInv
  <2>2. Data(book[n], to, text) \in Message
    BY <1>2, <1>3, DataTrue DEF MInv, IInv, TrueMessages
  <2>3. WasSent(text)'
    <3>1. [text |-> text, name |-> name] \in sent'
      BY <1>3
    <3> QED BY <3>1 DEF WasSent
  <2>4. SaidFrom(text, book[n].id)'
    <3>1. <<book[n].name, book[n].id>> \in lived'[n]
      BY <1>3 DEF MInv, LivedInv
    <3>2. \A m \in Node : text \in Text[m] => m = n
      BY <1>2, PeerMessengerAssumption
    <3> QED BY <3>1, <3>2, <1>3 DEF SaidFrom
  <2>5. SentToward(text, to)'
    <3>1. \A s \in sent' : s.text = text => s.name = name
      BY <1>2, <1>3 DEF WasSent
    <3> QED BY <3>1, <1>3 DEF SentToward
  <2>6. Data(book[n], to, text) \in Letters'
    <3>1. /\ Data(book[n], to, text).payload = text /\ Data(book[n], to, text).to = to
          /\ Data(book[n], to, text).from = book[n].id
      BY DEF Data
    <3> QED BY <2>2, <2>3, <2>4, <2>5, <3>1, <1>3 DEF Letters
  <2> QED BY <1>3, <2>1, <2>6, BroadcastType DEF LettersInv
<1>9. OutgoingInv'
  <2>1. sent' \subseteq [text : Payload, name : Name \cup {Nameless}]
    BY <1>2, <1>3 DEF MInv, OutgoingInv
  <2>2. DOMAIN outgoing' = Node /\ outgoing'[n] = Nothing
    BY DEF MInv, OutgoingInv
  <2>3. \A m \in Node \ {n} : outgoing'[m] = outgoing[m]
    BY DEF MInv, OutgoingInv
  <2>4. ASSUME NEW m \in Node \ {n}, outgoing[m] # Nothing
        PROVE  outgoing[m].text \in Unsent(m)'
    <3>1. outgoing[m].text \in Unsent(m) /\ outgoing[m].text \in Text[m]
      BY <2>4 DEF MInv, OutgoingInv
    <3>2. outgoing[m].text # text
      BY <1>2, <3>1, PeerMessengerAssumption
    <3> QED BY <1>3, <3>1, <3>2 DEF Unsent
  <2> QED BY <1>3, <2>1, <2>2, <2>3, <2>4 DEF MInv, OutgoingInv
<1> QED BY <1>3, <1>4, <1>6, <1>7, <1>8, <1>9 DEF MInv

(* A name that is known has been on record with its address. *)
LEMMA AddresseeOnRecord ==
    ASSUME MInv, NEW n \in Node, NEW name \in AskedNames[n], Addressee(n, name) # Unknown
    PROVE  /\ name \in Name /\ <<name, Addressee(n, name)>> \in held
           /\ Addressee(n, name) \in SendTo[n]
<1>1. name \in Name /\ NodeId \subseteq SendTo[n]
  BY RollCallAssumption, PeerMessengerAssumption
<1>2. Addressee(n, name) \in NodeId
  BY <1>1 DEF Addressee, MInv, IInv, BooksInv, Book
<1> QED BY <1>1, <1>2 DEF Addressee, MInv, IInv, HeldInv, EntriesWereTrue

LEMMA SendKeeps ==
    ASSUME MInv, NEW n \in Node, SendToId(n) \/ SendToKnown(n) \/ FinishSend(n)
    PROVE  MInv' /\ Send(n)
<1>1. CASE SendToId(n)
  <2>1. PICK to \in Direct[n], text \in Unsent(n) : Transmit(n, to, Nameless, text)
    BY <1>1 DEF SendToId
  <2>2. to \in SendTo[n]
    BY PeerMessengerAssumption
  <2>3. outgoing[n] = Nothing /\ UNCHANGED outgoing
    BY <1>1 DEF SendToId, Free
  <2> QED BY <2>1, <2>2, <2>3, TransmitKeeps
<1>2. CASE SendToKnown(n)
  <2>1. PICK name \in AskedNames[n], text \in Unsent(n) :
           Addressee(n, name) # Unknown /\ Transmit(n, Addressee(n, name), name, text)
    BY <1>2 DEF SendToKnown
  <2> DEFINE to == Addressee(n, name)
  <2>2. outgoing[n] = Nothing /\ UNCHANGED outgoing
    BY <1>2 DEF SendToKnown, Free
  <2>3. name \in Name /\ <<name, to>> \in held /\ to \in SendTo[n]
    BY <2>1, AddresseeOnRecord
  <2>4. Transmit(n, to, name, text)
    BY <2>1
  <2> HIDE DEF to
  <2> QED BY <2>2, <2>3, <2>4, TransmitKeeps
<1>3. CASE FinishSend(n)
  <2> DEFINE name == outgoing[n].name
             text == outgoing[n].text
  <2>1. /\ Addressee(n, name) # Unknown /\ Transmit(n, Addressee(n, name), name, text)
        /\ outgoing[n] # Nothing /\ outgoing' = [outgoing EXCEPT ![n] = Nothing]
    BY <1>3 DEF FinishSend, Resuming
  <2>2. name \in AskedNames[n] /\ text \in Unsent(n)
    BY <2>1 DEF MInv, OutgoingInv
  <2> HIDE DEF name, text
  <2> QED BY <2>1, <2>2, AddresseeOnRecord, TransmitKeeps
<1> QED BY <1>1, <1>2, <1>3

(* Nobody else's pending message is disturbed by what n does. *)
LEMMA OutgoingStep ==
    ASSUME OutgoingInv, IInv, UNCHANGED <<outgoing, sent>>, NEW n \in Node,
           UNCHANGED call \/ \E c : call' = [call EXCEPT ![n] = c],
           outgoing[n] = Nothing \/ call'[n] \in {"idle", "query"}
    PROVE  OutgoingInv'
<1>1. \A m \in Node \ {n} : call'[m] = call[m]
  BY DEF IInv, CallInv
<1>2. \A m \in Node : Unsent(m)' = Unsent(m)
  BY DEF Unsent
<1> QED BY <1>1, <1>2 DEF OutgoingInv

LEMMA StartSendKeeps ==
    ASSUME MInv, NEW n \in Node, StartSend(n)
    PROVE  MInv' /\ Call(n)
<1>1. PICK name \in AskedNames[n], text \in Unsent(n), hearers \in SUBSET Node :
         /\ Ask(n, Whois(name), hearers)
         /\ outgoing' = [outgoing EXCEPT ![n] = [name |-> name, text |-> text]]
  BY DEF StartSend
<1>2. Call(n)
  <2>1. Whois(name) \in Questions(n)
    BY DEF Questions
  <2> DEFINE msg == Whois(name)
  <2>2. Ask(n, msg, hearers)
    BY <1>1
  <2> HIDE DEF msg
  <2>3. \E m \in Questions(n), h \in SUBSET Node : Ask(n, m, h)
    BY <2>2, <2>1 DEF msg
  <2> QED BY <2>3 DEF Call
<1>3. /\ UNCHANGED <<book, held, queue, dropped, sent, taken, shown, lived>>
      /\ \E t : call' = [call EXCEPT ![n] = t]
      /\ Running(n) /\ call[n] = "idle"
  BY <1>1 DEF StartSend, Ask, Enter, Running
<1>4. IInv' /\ call'[n] = "query"
  <2>1. IInv'
    BY <1>2, StepKeepsIInv DEF MInv, Step, Next
  <2>2. call' = [call EXCEPT ![n] = "query"]
    BY <1>1 DEF Ask, Enter
  <2> QED BY <2>1, <2>2 DEF MInv, IInv, CallInv
<1>5. Grows
  BY <1>3 DEF Grows
<1>6. LivedInv' /\ QueueInv' /\ LettersInv'
  BY <1>2, <1>3, <1>5, SameRunning, SameLived, SameQueues, LettersStep DEF MInv
<1>7. OutgoingInv'
  <2>1. DOMAIN outgoing' = Node /\ outgoing'[n] = [name |-> name, text |-> text]
    BY <1>1 DEF MInv, OutgoingInv
  <2>2. \A m \in Node \ {n} : outgoing'[m] = outgoing[m] /\ call'[m] = call[m]
    BY <1>1, <1>3 DEF MInv, OutgoingInv, IInv, CallInv
  <2>3. \A m \in Node : Unsent(m)' = Unsent(m) /\ Unsent(m) \subseteq Text[m]
    BY <1>3 DEF Unsent
  <2> QED BY <1>3, <1>4, <2>1, <2>2, <2>3 DEF MInv, OutgoingInv
<1> QED BY <1>2, <1>4, <1>6, <1>7 DEF MInv

LEMMA GiveUpKeeps ==
    ASSUME MInv, NEW n \in Node, GiveUp(n)
    PROVE  MInv' /\ UNCHANGED vars
<1>1. /\ UNCHANGED vars /\ UNCHANGED <<queue, dropped, sent, taken, shown, lived>>
      /\ outgoing' = [outgoing EXCEPT ![n] = Nothing]
  BY DEF GiveUp
<1>2. IInv' /\ UNCHANGED <<book, held, call, inbox>>
  BY <1>1, StepKeepsIInv DEF MInv, vars
<1>3. Grows
  BY <1>1, <1>2 DEF Grows
<1>4. LivedInv' /\ QueueInv'
  BY <1>1, <1>2, <1>3, SameLived, SameQueues DEF MInv, Running
<1>5. LettersInv'
  BY <1>2, <1>3, LettersGrow DEF MInv, LettersInv
<1>6. OutgoingInv'
  <2>1. \A m \in Node : Unsent(m)' = Unsent(m)
    BY <1>1 DEF Unsent
  <2>2. DOMAIN outgoing' = Node /\ outgoing'[n] = Nothing
        /\ \A m \in Node \ {n} : outgoing'[m] = outgoing[m]
    BY <1>1 DEF MInv, OutgoingInv
  <2> QED BY <1>1, <1>2, <2>1, <2>2 DEF MInv, OutgoingInv
<1> QED BY <1>1, <1>2, <1>4, <1>5, <1>6 DEF MInv

-----------------------------------------------------------------------------
(* handleData(), receiveMessage() *)

(* What is handed over to node n was sent to where n is. *)
LEMMA HeardReceived ==
    ASSUME MInv, NEW n \in Node, HearData(n),
           NEW message, message = [from |-> Head(inbox[n]).from, text |-> Head(inbox[n]).payload]
    PROVE  message \in QueuedMessage /\ message \in Received(n)
<1> DEFINE msg == Head(inbox[n])
<1>1. Running(n) /\ inbox[n] # <<>> /\ msg.kind = "data" /\ IsFor(book[n], msg)
  BY ReadShape DEF HearData
<1>2. msg \in Letters
  BY <1>1, TakenLetters DEF MInv, LettersInv, IInv
<1> HIDE DEF msg
<1>3. msg \in DataFrame
  BY <1>1, <1>2 DEF Letters, Message
<1>4. msg.from \in NodeId /\ msg.payload \in Payload
  BY <1>3 DEF DataFrame
<1>5. message = [from |-> msg.from, text |-> msg.payload]
  BY DEF msg
<1>6. message \in QueuedMessage /\ message.text = msg.payload /\ message.from = msg.from
  BY <1>4, <1>5 DEF QueuedMessage
<1>7. /\ WasSent(msg.payload) /\ SaidFrom(msg.payload, msg.from)
      /\ SentToward(msg.payload, msg.to)
  BY <1>1, <1>2 DEF Letters
<1>8. SentToward(msg.payload, book[n].id)
  <2>1. CASE msg.to = book[n].id
    BY <1>7, <2>1
  <2>2. CASE msg.to = Everyone
    BY <1>7, <2>2, RollCallAssumption DEF SentToward, MInv, IInv, HeldInv
  <2> QED BY <1>1, <2>1, <2>2 DEF IsFor
<1>9. <<book[n].name, book[n].id>> \in lived[n]
  BY <1>1 DEF MInv, LivedInv
<1>10. \E x \in lived[n] : SentToward(message.text, x[2])
  BY <1>6, <1>8, <1>9
<1> QED BY <1>6, <1>7, <1>10 DEF Received

LEMMA HearMessageKeeps ==
    ASSUME MInv, NEW n \in Node, HearMessage(n)
    PROVE  MInv' /\ Read(n)
<1> DEFINE message == [from |-> Head(inbox[n]).from, text |-> Head(inbox[n]).payload]
<1>1. /\ HearData(n) /\ UNCHANGED <<outgoing, sent, shown, lived>>
      /\ queue' = [queue EXCEPT ![n] = Queued(@, message)]
      /\ taken' = [taken EXCEPT ![n] = Append(@, message)]
      /\ dropped' = [dropped EXCEPT ![n] = IF Len(queue[n]) < QueueMax THEN @ ELSE @ + 1]
  BY DEF HearMessage
<1>2. message \in QueuedMessage /\ message \in Received(n)
  BY <1>1, HeardReceived
<1> HIDE DEF message
<1>3. /\ UNCHANGED <<book, held>> /\ Running(n)
      /\ (UNCHANGED call \/ \E c : call' = [call EXCEPT ![n] = c])
  BY <1>1, ReadShape DEF HearData
<1>4. IInv'
  BY <1>1, StepKeepsIInv DEF MInv, Step, Next, Read
<1>5. Grows
  BY <1>1, <1>3 DEF Grows
<1>6. LivedInv' /\ LettersInv'
  BY <1>1, <1>3, <1>5, SameRunning, SameLived, LettersStep DEF MInv
<1>7. OutgoingInv'
  <2>1. outgoing[n] = Nothing \/ call'[n] \in {"idle", "query"}
    BY <1>1, InsideQuery DEF MInv, IInv, OutgoingInv
  <2> QED BY <1>1, <1>3, <2>1, OutgoingStep DEF MInv
<1>8. QueueInv'
  <2>1. /\ Received(n) \subseteq Received(n)' /\ Shown \subseteq Shown'
        /\ \A m \in Node : Received(m) \subseteq Received(m)'
    BY <1>5, Growth
  <2>2. /\ queue[n] \in Seq(QueuedMessage) /\ queue[n] \in Seq(Received(n))
        /\ Len(queue[n]) <= QueueMax
        /\ taken[n] \in Seq(QueuedMessage) /\ taken[n] \in Seq(Received(n))
    BY DEF MInv, QueueInv
  <2>3. /\ Queued(queue[n], message) \in Seq(QueuedMessage)
        /\ Queued(queue[n], message) \in Seq(Received(n))
        /\ Len(Queued(queue[n], message)) <= QueueMax
    BY <1>2, <2>2, QueuedType
  <2>4. /\ Append(taken[n], message) \in Seq(QueuedMessage)
        /\ Append(taken[n], message) \in Seq(Received(n))
    BY <1>2, <2>2
  <2>5. /\ queue' \in [Node -> Seq(QueuedMessage)] /\ taken' \in [Node -> Seq(QueuedMessage)]
        /\ dropped' \in [Node -> Nat]
    BY <1>1, <2>3, <2>4 DEF MInv, QueueInv
  <2>6. \A m \in Node :
          /\ queue'[m] \in Seq(Received(m)) /\ Len(queue'[m]) <= QueueMax
          /\ taken'[m] \in Seq(Received(m))
    BY <1>1, <2>3, <2>4 DEF MInv, QueueInv
  <2>7. \A m \in Node : queue'[m] \in Seq(Received(m)') /\ taken'[m] \in Seq(Received(m)')
    BY <2>1, <2>6, SeqDef
  <2>8. \A m \in Node : shown[m] \in Seq(Shown')
    BY <2>1, SeqDef DEF MInv, QueueInv
  <2>9. shown' \in [Node -> Seq(Shown')]
    BY <1>1, <2>8 DEF MInv, QueueInv
  <2> QED BY <2>5, <2>6, <2>7, <2>9 DEF QueueInv
<1> QED BY <1>1, <1>4, <1>6, <1>7, <1>8 DEF MInv, Read

(* A name that is looked up for an address has been on record with it. *)
LEMMA LookupOnRecord ==
    ASSUME IInv, NEW n \in Node, NEW i \in NodeId
    PROVE  /\ book[n].idToName[i] \in Name \cup {Unknown}
           /\ book[n].idToName[i] # Unknown => <<book[n].idToName[i], i>> \in held
<1>1. book[n] \in Book /\ InverseMaps(book[n]) /\ EntriesWereTrue
  BY DEF IInv, BooksInv, HeldInv, GoodBook
<1>2. book[n].idToName[i] \in Name \cup {Unknown}
  BY <1>1 DEF Book
<1>3. ASSUME book[n].idToName[i] # Unknown
      PROVE  <<book[n].idToName[i], i>> \in held
  <2> DEFINE x == book[n].idToName[i]
  <2>1. x \in Name
    BY <1>2, <1>3
  <2>2. book[n].nameToId[x] = i
    BY <1>1, <2>1 DEF InverseMaps
  <2>3. i # Unknown
    BY PeerTableAssumption
  <2> HIDE DEF x
  <2>4. <<x, i>> \in held
    BY <1>1, <2>1, <2>2, <2>3 DEF EntriesWereTrue
  <2> QED BY <2>4 DEF x
<1> QED BY <1>2, <1>3

LEMMA ReceiveMessageKeeps ==
    ASSUME MInv, NEW n \in Node, ReceiveMessage(n)
    PROVE  MInv' /\ UNCHANGED vars
<1> DEFINE message == Head(queue[n])
           read == [text |-> message.text, from |-> message.from,
                    name |-> book[n].idToName[message.from]]
<1>1. /\ UNCHANGED vars /\ UNCHANGED <<dropped, outgoing, sent, taken, lived>>
      /\ queue[n] # <<>> /\ queue' = [queue EXCEPT ![n] = Tail(@)]
      /\ shown' = [shown EXCEPT ![n] = Append(@, read)]
  BY DEF ReceiveMessage
<1>2. IInv' /\ UNCHANGED <<book, held, call, inbox>>
  BY <1>1, StepKeepsIInv DEF MInv, vars
<1>3. Grows
  BY <1>1, <1>2 DEF Grows
<1>4. LivedInv'
  BY <1>1, <1>2, SameLived DEF MInv, Running
<1>5. LettersInv'
  BY <1>2, <1>3, LettersGrow DEF MInv, LettersInv
<1>6. OutgoingInv'
  <2>1. \A m \in Node : Unsent(m)' = Unsent(m)
    BY <1>1 DEF Unsent
  <2> QED BY <1>1, <1>2, <2>1 DEF MInv, OutgoingInv
<1>7. read \in Shown
  <2>1. queue[n] \in Seq(Received(n))
    BY DEF MInv, QueueInv
  <2>2. message \in Received(n)
    BY <1>1, <2>1
  <2>3. /\ message.text \in Payload /\ message.from \in NodeId
        /\ SaidFrom(message.text, message.from)
    BY <2>2 DEF Received, QueuedMessage
  <2> DEFINE from == message.from
             text == message.text
             name == book[n].idToName[from]
  <2>4. name \in Name \cup {Unknown} /\ (name # Unknown => <<name, from>> \in held)
    BY <2>3, LookupOnRecord DEF MInv
  <2>5. read = [text |-> text, from |-> from, name |-> name]
    OBVIOUS
  <2> HIDE DEF message, name, from, text, read
  <2>6. text \in Payload /\ from \in NodeId /\ SaidFrom(text, from)
    BY <2>3 DEF from, text
  <2> QED BY <2>4, <2>5, <2>6 DEF Shown, ShownMessage
<1> HIDE DEF read
<1>8. QueueInv'
  <2>1. /\ Shown \subseteq Shown' /\ \A m \in Node : Received(m) \subseteq Received(m)'
    BY <1>3, Growth
  <2>2. /\ queue[n] \in Seq(QueuedMessage) /\ queue[n] \in Seq(Received(n))
        /\ Len(queue[n]) <= QueueMax /\ shown[n] \in Seq(Shown)
    BY DEF MInv, QueueInv
  <2>3. /\ Tail(queue[n]) \in Seq(QueuedMessage) /\ Tail(queue[n]) \in Seq(Received(n))
        /\ Len(Tail(queue[n])) = Len(queue[n]) - 1
    BY <1>1, <2>2
  <2>4. Len(Tail(queue[n])) <= QueueMax
    BY <2>2, <2>3, PeerMessengerAssumption
  <2>5. Append(shown[n], read) \in Seq(Shown)
    BY <1>7, <2>2
  <2>6. \A m \in Node :
          /\ queue'[m] \in Seq(QueuedMessage)
          /\ queue'[m] \in Seq(Received(m)) /\ Len(queue'[m]) <= QueueMax
          /\ shown'[m] \in Seq(Shown)
    BY <1>1, <2>3, <2>4, <2>5 DEF MInv, QueueInv
  <2>7. \A m \in Node :
          /\ queue'[m] \in Seq(Received(m)') /\ taken[m] \in Seq(Received(m)')
          /\ shown'[m] \in Seq(Shown')
    BY <2>1, <2>6, SeqDef DEF MInv, QueueInv
  <2>8. DOMAIN queue' = Node /\ DOMAIN shown' = Node /\ queue' = [m \in Node |-> queue'[m]]
        /\ shown' = [m \in Node |-> shown'[m]]
    BY <1>1 DEF MInv, QueueInv
  <2>9. queue' \in [Node -> Seq(QueuedMessage)] /\ shown' \in [Node -> Seq(Shown')]
    BY <2>6, <2>7, <2>8
  <2> QED BY <1>1, <2>6, <2>7, <2>9 DEF MInv, QueueInv
<1> QED BY <1>1, <1>2, <1>4, <1>5, <1>6, <1>8 DEF MInv

-----------------------------------------------------------------------------
(* The steps that are RollCall's alone *)

LEMMA OthersKeep ==
    ASSUME MInv, NEW n \in Node, Inside(n) \/ OtherCall(n)
    PROVE  MInv' /\ (Call(n) \/ Read(n) \/ Continue(n) \/ Return(n))
<1>1. /\ Call(n) \/ Handle(n) \/ Continue(n) \/ Return(n)
      /\ UNCHANGED <<queue, dropped, outgoing, sent, taken, shown>>
      /\ lived' = [lived EXCEPT ![n] = @ \cup {<<book'[n].name, book'[n].id>>}]
  BY DEF Inside, OtherCall, MailUntouched, mail
<1>2. IInv'
  BY <1>1, StepKeepsIInv DEF MInv, Step, Next, Read
<1>3. LivedInv' /\ held \subseteq held' /\ \A m \in Node : lived[m] \subseteq lived'[m]
  BY <1>1, <1>2, LivedStep DEF MInv
<1>4. Grows
  BY <1>1, <1>3 DEF Grows
<1>5. QueueInv' /\ LettersInv'
  BY <1>1, <1>4, SameQueues, LettersStep DEF MInv
<1>6. OutgoingInv'
  <2>1. outgoing[n] = Nothing \/ call'[n] \in {"idle", "query"}
    BY InsideQuery DEF Inside, OtherCall, MInv, IInv, OutgoingInv
  <2>2. UNCHANGED call \/ \E c : call' = [call EXCEPT ![n] = c]
    BY <1>1, CallShape
  <2> QED BY <1>1, <2>1, <2>2, OutgoingStep DEF MInv
<1> QED BY <1>1, <1>2, <1>3, <1>5, <1>6 DEF MInv, Read

LEMMA CrashKeeps ==
    ASSUME MInv, NEW n \in Node, Crash(n)
    PROVE  MInv' /\ PowerOff(n)
<1>1. /\ PowerOff(n) /\ UNCHANGED <<sent, lived, held>>
      /\ queue' = [queue EXCEPT ![n] = <<>>] /\ dropped' = [dropped EXCEPT ![n] = 0]
      /\ outgoing' = [outgoing EXCEPT ![n] = Nothing]
      /\ taken' = [taken EXCEPT ![n] = <<>>] /\ shown' = [shown EXCEPT ![n] = <<>>]
      /\ inbox' = [inbox EXCEPT ![n] = <<>>]
      /\ book' = [book EXCEPT ![n] = Blank(Configured[n])]
      /\ call' = [call EXCEPT ![n] = "off"]
  BY DEF Crash, PowerOff, Enter
<1>2. IInv'
  BY <1>1, StepKeepsIInv DEF MInv, Step, Next
<1>3. Grows
  BY <1>1 DEF Grows
<1>4. /\ ~Running(n)'
      /\ \A m \in Node \ {n} : book'[m] = book[m] /\ call'[m] = call[m]
  BY <1>1 DEF Running, MInv, IInv, BooksInv, CallInv
<1>5. LivedInv'
  BY <1>1, <1>4 DEF MInv, LivedInv, Running
<1>6. QueueInv'
  <2>1. /\ Shown \subseteq Shown' /\ \A m \in Node : Received(m) \subseteq Received(m)'
    BY <1>3, Growth
  <2>2. \A m \in Node :
          /\ queue'[m] \in Seq(QueuedMessage) /\ queue'[m] \in Seq(Received(m))
          /\ Len(queue'[m]) <= QueueMax /\ dropped'[m] \in Nat
          /\ taken'[m] \in Seq(QueuedMessage) /\ taken'[m] \in Seq(Received(m))
          /\ shown'[m] \in Seq(Shown)
    <3>1. \A S : <<>> \in Seq(S)
      OBVIOUS
    <3>2. Len(<<>>) = 0 /\ 0 <= QueueMax
      BY PeerMessengerAssumption
    <3> QED BY <1>1, <3>1, <3>2 DEF MInv, QueueInv
  <2>3. \A m \in Node :
          /\ queue'[m] \in Seq(Received(m)') /\ taken'[m] \in Seq(Received(m)')
          /\ shown'[m] \in Seq(Shown')
    BY <2>1, <2>2, SeqDef
  <2>4. /\ queue' = [m \in Node |-> queue'[m]] /\ taken' = [m \in Node |-> taken'[m]]
        /\ shown' = [m \in Node |-> shown'[m]] /\ dropped' = [m \in Node |-> dropped'[m]]
    BY <1>1 DEF MInv, QueueInv
  <2>5. /\ queue' \in [Node -> Seq(QueuedMessage)] /\ taken' \in [Node -> Seq(QueuedMessage)]
        /\ shown' \in [Node -> Seq(Shown')] /\ dropped' \in [Node -> Nat]
    BY <2>2, <2>3, <2>4
  <2> QED BY <2>2, <2>3, <2>5 DEF QueueInv
<1>7. LettersInv'
  <2>1. inbox \in [Node -> Seq(Letters')]
    BY <1>3, LettersGrow DEF MInv
  <2>2. <<>> \in Seq(Letters')
    OBVIOUS
  <2> QED BY <1>1, <2>1, <2>2 DEF LettersInv
<1>8. OutgoingInv'
  <2>1. \A m \in Node : Unsent(m)' = Unsent(m)
    BY <1>1 DEF Unsent
  <2>2. DOMAIN outgoing' = Node /\ outgoing'[n] = Nothing
        /\ \A m \in Node \ {n} : outgoing'[m] = outgoing[m]
    BY <1>1 DEF MInv, OutgoingInv
  <2> QED BY <1>1, <1>4, <2>1, <2>2 DEF MInv, OutgoingInv
<1> QED BY <1>1, <1>2, <1>5, <1>6, <1>7, <1>8 DEF MInv

LEMMA RestKeeps ==
    ASSUME MInv, TimePasses \/ UNCHANGED allVars
    PROVE  MInv' /\ (Tick \/ UNCHANGED vars)
<1>1. /\ Tick \/ UNCHANGED vars
      /\ UNCHANGED <<queue, dropped, outgoing, sent, taken, shown, lived>>
  BY DEF TimePasses, allVars, mail
<1>2. UNCHANGED <<book, held, call, inbox>>
  BY <1>1 DEF Tick, vars
<1>3. IInv'
  BY <1>1, StepKeepsIInv DEF MInv, Step, Next
<1>4. Grows
  BY <1>1, <1>2 DEF Grows
<1>5. LivedInv' /\ QueueInv'
  BY <1>1, <1>2, <1>4, SameLived, SameQueues DEF MInv, Running
<1>6. LettersInv'
  BY <1>2, <1>4, LettersGrow DEF MInv, LettersInv
<1>7. OutgoingInv'
  <2>1. \A m \in Node : Unsent(m)' = Unsent(m)
    BY <1>1 DEF Unsent
  <2> QED BY <1>1, <1>2, <2>1 DEF MInv, OutgoingInv
<1> QED BY <1>1, <1>3, <1>5, <1>6, <1>7 DEF MInv

-----------------------------------------------------------------------------
LEMMA InitMInv == MInit => MInv
<1> SUFFICES ASSUME MInit PROVE MInv
  OBVIOUS
<1>1. IInv
  BY InitIInv DEF MInit
<1>2. \A S : <<>> \in Seq(S)
  OBVIOUS
<1>3. LivedInv
  BY DEF MInit, Init, LivedInv, Running
<1>4. OutgoingInv
  BY DEF MInit, OutgoingInv
<1>5. QueueInv
  BY <1>2, PeerMessengerAssumption DEF MInit, QueueInv
<1>6. LettersInv
  BY <1>2 DEF MInit, Init, LettersInv
<1> QED BY <1>1, <1>3, <1>4, <1>5, <1>6 DEF MInv

LEMMA MStepKeeps == MInv /\ [MNext]_allVars => MInv' /\ [Step]_vars
<1> SUFFICES ASSUME MInv, [MNext]_allVars PROVE MInv' /\ [Step]_vars
  OBVIOUS
<1>1. CASE TimePasses \/ UNCHANGED allVars
  BY <1>1, RestKeeps DEF Step, Next
<1>2. CASE \E n \in Node : Messaging(n) \/ Inside(n) \/ OtherCall(n) \/ Crash(n)
  <2>1. PICK n \in Node : Messaging(n) \/ Inside(n) \/ OtherCall(n) \/ Crash(n)
    BY <1>2
  <2>2. CASE SendToId(n) \/ SendToKnown(n) \/ FinishSend(n)
    BY <2>2, SendKeeps DEF Step
  <2>3. CASE StartSend(n)
    BY <2>3, StartSendKeeps DEF Step, Next
  <2>4. CASE HearMessage(n)
    BY <2>4, HearMessageKeeps DEF Step, Next
  <2>5. CASE GiveUp(n) \/ ReceiveMessage(n)
    BY <2>5, GiveUpKeeps, ReceiveMessageKeeps
  <2>6. CASE Inside(n) \/ OtherCall(n)
    BY <2>6, OthersKeep DEF Step, Next
  <2>7. CASE Crash(n)
    BY <2>7, CrashKeeps DEF Step, Next
  <2> QED BY <2>1, <2>2, <2>3, <2>4, <2>5, <2>6, <2>7 DEF Messaging
<1> QED BY <1>1, <1>2 DEF MNext

-----------------------------------------------------------------------------
(* What becomes of the messages that were queued                           *)
(*                                                                         *)
(* Each text goes on the air once, so the texts a node has taken in differ *)
(* and tell their positions.  The queue is always the end of what was      *)
(* taken in, and of what came before it a message was read or pushed out.  *)

Apart(got) == \A i, j \in 1 .. Len(got) : got[i].text = got[j].text => i = j

(* The frames that wait carry texts of their own. *)
Unheard(box, got) ==
    /\ \A j \in 1 .. Len(box) : box[j].kind = "data" =>
          \A i \in 1 .. Len(got) : got[i].text # box[j].payload
    /\ \A j, k \in 1 .. Len(box) :
          box[j].kind = "data" /\ box[k].kind = "data" /\ box[j].payload = box[k].payload => j = k

Gone(got, waiting) == Len(got) - Len(waiting)

Pushed(got, waiting, seen) ==
    {i \in 1 .. Gone(got, waiting) : \A j \in 1 .. Len(seen) : seen[j].text # got[i].text}

Tally(got, waiting, seen, count) ==
    /\ Len(waiting) <= Len(got)
    /\ \A k \in 1 .. Len(waiting) : waiting[k] = got[Gone(got, waiting) + k]
    /\ \A j \in 1 .. Len(seen) : \E i \in 1 .. Gone(got, waiting) : got[i].text = seen[j].text
    /\ \A j, k \in 1 .. Len(seen) : \A x, y \in 1 .. Len(got) :
          j < k /\ got[x].text = seen[j].text /\ got[y].text = seen[k].text => x < y
    /\ \A i \in Pushed(got, waiting, seen) : Len(got) - i >= QueueMax
    /\ Cardinality(Pushed(got, waiting, seen)) = count

KeptInv ==
    \A n \in Node :
        /\ Apart(taken[n]) /\ Unheard(inbox[n], taken[n])
        /\ Tally(taken[n], queue[n], shown[n], dropped[n])

KInv == MInv /\ KeptInv

(* The frames of an inbox that is read from its head. *)
LEMMA TailUnheard ==
    ASSUME NEW S, NEW box \in Seq(S), box # <<>>, NEW got, Unheard(box, got)
    PROVE  Unheard(Tail(box), got)
<1>1. /\ Len(box) \in Nat \ {0} /\ Len(Tail(box)) = Len(box) - 1
      /\ \A j \in 1 .. Len(Tail(box)) : Tail(box)[j] = box[j + 1]
  OBVIOUS
<1>2. \A j \in 1 .. Len(Tail(box)) : j + 1 \in 1 .. Len(box)
  BY <1>1
<1>3. \A j, k \in 1 .. Len(Tail(box)) : j + 1 = k + 1 => j = k
  BY <1>1
<1> QED BY <1>1, <1>2, <1>3 DEF Unheard

(* What an inbox keeps of a new frame and of what waited. *)
LEMMA KeptUnheard ==
    ASSUME NEW S, NEW box \in Seq(S), Len(box) <= InboxSize, NEW msg \in S, NEW got,
           Unheard(box, got),
           msg.kind = "data" =>
               /\ \A i \in 1 .. Len(got) : got[i].text # msg.payload
               /\ \A j \in 1 .. Len(box) : box[j].kind = "data" => box[j].payload # msg.payload
    PROVE  Unheard(Kept(box, msg), got)
<1> DEFINE new == Kept(box, msg)
<1>1. /\ Len(new) \in Nat \ {0} /\ new[Len(new)] = msg
      /\ \A j \in 1 .. Len(new) : j # Len(new) => j \in 1 .. Len(box) /\ new[j] = box[j]
  <2>1. CASE Len(box) < InboxSize
    BY <2>1 DEF Kept
  <2>2. CASE ~(Len(box) < InboxSize)
    <3>1. Len(box) \in Nat \ {0}
      BY <2>2, RollCallAssumption
    <3>2. new = [box EXCEPT ![Len(box)] = msg]
      BY <2>2 DEF Kept
    <3> QED BY <3>1, <3>2
  <2> QED BY <2>1, <2>2
<1> HIDE DEF new
<1>2. \A j \in 1 .. Len(new) : new[j].kind = "data" =>
          \A i \in 1 .. Len(got) : got[i].text # new[j].payload
  BY <1>1 DEF Unheard
<1>3. ASSUME NEW j \in 1 .. Len(new), NEW k \in 1 .. Len(new), new[j].kind = "data",
             new[k].kind = "data", new[j].payload = new[k].payload
      PROVE  j = k
  BY <1>1, <1>3 DEF Unheard
<1> QED BY <1>2, <1>3 DEF Unheard, new

(* A frame that is taken in brings a text nobody had, and the others stay new. *)
LEMMA HeardUnheard ==
    ASSUME NEW S, NEW box \in Seq(S), box # <<>>, Head(box).kind = "data",
           NEW got \in Seq(QueuedMessage), Apart(got), Unheard(box, got),
           NEW message \in QueuedMessage, message.text = Head(box).payload
    PROVE  /\ Apart(Append(got, message)) /\ Unheard(Tail(box), Append(got, message))
           /\ \A i \in 1 .. Len(got) : got[i].text # message.text
<1> DEFINE new == Append(got, message)
<1>1. /\ Len(box) \in Nat \ {0} /\ Head(box) = box[1] /\ 1 \in 1 .. Len(box)
      /\ Len(Tail(box)) = Len(box) - 1
      /\ \A j \in 1 .. Len(Tail(box)) : Tail(box)[j] = box[j + 1]
  OBVIOUS
<1>2. /\ Len(got) \in Nat /\ Len(new) = Len(got) + 1 /\ new[Len(new)] = message
      /\ \A i \in 1 .. Len(new) : i # Len(new) => i \in 1 .. Len(got) /\ new[i] = got[i]
  OBVIOUS
<1> HIDE DEF new
<1>3. \A i \in 1 .. Len(got) : got[i].text # message.text
  BY <1>1 DEF Unheard
<1>4. Apart(new)
  BY <1>2, <1>3 DEF Apart
<1>5. Unheard(Tail(box), got)
  BY TailUnheard
<1>6. \A j \in 1 .. Len(Tail(box)) : Tail(box)[j].kind = "data" => Tail(box)[j].payload # message.text
  <2>1. \A j \in 1 .. Len(Tail(box)) : j + 1 \in 1 .. Len(box) /\ j + 1 # 1
    BY <1>1
  <2> QED BY <1>1, <2>1 DEF Unheard
<1>7. Unheard(Tail(box), new)
  BY <1>2, <1>5, <1>6 DEF Unheard
<1> QED BY <1>3, <1>4, <1>7 DEF new

(* A message that is queued may push out the oldest, which was not read. *)
LEMMA HeardTally ==
    ASSUME NEW got \in Seq(QueuedMessage), NEW waiting \in Seq(QueuedMessage), NEW T,
           NEW seen \in Seq(T), NEW count \in Nat, NEW message \in QueuedMessage,
           Apart(got), Tally(got, waiting, seen, count), Len(waiting) <= QueueMax,
           \A i \in 1 .. Len(got) : got[i].text # message.text
    PROVE  Tally(Append(got, message), Queued(waiting, message), seen,
                 IF Len(waiting) < QueueMax THEN count ELSE count + 1)
<1> DEFINE new == Append(got, message)
           queued == Queued(waiting, message)
           gone == Gone(got, waiting)
<1>1. /\ Len(got) \in Nat /\ Len(new) = Len(got) + 1 /\ new[Len(got) + 1] = message
      /\ \A i \in 1 .. Len(got) : new[i] = got[i]
  OBVIOUS
<1>2. /\ QueueMax \in Nat \ {0} /\ Len(waiting) \in Nat /\ Len(seen) \in Nat
      /\ gone \in Nat /\ gone = Len(got) - Len(waiting)
  BY <1>1, PeerMessengerAssumption DEF Tally, Gone
<1>3. /\ \A k \in 1 .. Len(waiting) : waiting[k] = got[gone + k]
      /\ \A j \in 1 .. Len(seen) : \E i \in 1 .. gone : got[i].text = seen[j].text
      /\ \A j, k \in 1 .. Len(seen) : \A x, y \in 1 .. Len(got) :
            j < k /\ got[x].text = seen[j].text /\ got[y].text = seen[k].text => x < y
      /\ \A i \in Pushed(got, waiting, seen) : Len(got) - i >= QueueMax
      /\ Cardinality(Pushed(got, waiting, seen)) = count
      /\ Pushed(got, waiting, seen) =
            {i \in 1 .. gone : \A j \in 1 .. Len(seen) : seen[j].text # got[i].text}
  BY DEF Tally, Pushed
<1> HIDE DEF gone, new
<1>4. \A i \in 1 .. gone : i \in 1 .. Len(got) /\ new[i] = got[i]
  BY <1>1, <1>2
<1>5. \A j \in 1 .. Len(seen) : seen[j].text # message.text
  BY <1>3, <1>4
<1>6. \A j, k \in 1 .. Len(seen) : \A x, y \in 1 .. Len(new) :
         j < k /\ new[x].text = seen[j].text /\ new[y].text = seen[k].text => x < y
  <2>1. \A x \in 1 .. Len(new) : x = Len(got) + 1 \/ x \in 1 .. Len(got)
    BY <1>1
  <2>2. \A j \in 1 .. Len(seen), x \in 1 .. Len(new) :
           new[x].text = seen[j].text => x \in 1 .. Len(got) /\ got[x].text = seen[j].text
    BY <1>1, <1>5, <2>1
  <2> QED BY ONLY <1>3, <2>2
<1>7. CASE Len(waiting) < QueueMax
  <2>1. /\ Len(queued) = Len(waiting) + 1 /\ queued[Len(waiting) + 1] = message
        /\ \A k \in 1 .. Len(waiting) : queued[k] = waiting[k]
    BY <1>7 DEF Queued
  <2> HIDE DEF queued
  <2>2. Gone(new, queued) = gone /\ Len(queued) <= Len(new)
    BY <1>1, <1>2, <2>1 DEF Gone
  <2>3. Pushed(new, queued, seen) = Pushed(got, waiting, seen)
    BY <1>3, <1>4, <2>2 DEF Pushed
  <2>4. ASSUME NEW k \in 1 .. Len(queued) PROVE queued[k] = new[gone + k]
    <3>1. CASE k \in 1 .. Len(waiting)
      <4>1. gone + k \in 1 .. Len(got)
        BY <1>1, <1>2, <3>1
      <4> QED BY <1>1, <1>3, <2>1, <3>1, <4>1
    <3>2. CASE k = Len(waiting) + 1
      <4>1. gone + k = Len(got) + 1
        BY <1>1, <1>2, <3>2
      <4> QED BY <1>1, <2>1, <3>2, <4>1
    <3> QED BY <1>2, <2>1, <3>1, <3>2
  <2>5. \A i \in Pushed(got, waiting, seen) : Len(new) - i >= QueueMax
    <3>1. \A i \in Pushed(got, waiting, seen) : i \in Int
      BY <1>3
    <3>2. \A i \in Int : Len(got) - i >= QueueMax => Len(new) - i >= QueueMax
      BY <1>1, <1>2
    <3> QED BY ONLY <1>3, <3>1, <3>2
  <2>6. \A j \in 1 .. Len(seen) : \E i \in 1 .. gone : new[i].text = seen[j].text
    BY <1>3, <1>4
  <2>7. Tally(new, queued, seen, count)
    BY ONLY <1>3, <1>6, <2>2, <2>3, <2>4, <2>5, <2>6 DEF Tally
  <2> QED BY <1>7, <2>7 DEF new, queued
<1>8. CASE ~(Len(waiting) < QueueMax)
  <2>1. Len(waiting) = QueueMax /\ Len(waiting) \in Nat \ {0}
    BY <1>2, <1>8
  <2>2. /\ Len(Tail(waiting)) = Len(waiting) - 1 /\ Tail(waiting) \in Seq(QueuedMessage)
        /\ \A k \in 1 .. Len(waiting) - 1 : Tail(waiting)[k] = waiting[k + 1]
    BY <2>1
  <2>3. /\ Len(queued) = Len(waiting) /\ queued[Len(waiting)] = message
        /\ \A k \in 1 .. Len(waiting) - 1 : queued[k] = waiting[k + 1]
    <3>1. queued = Append(Tail(waiting), message)
      BY <1>8 DEF Queued
    <3> HIDE DEF queued
    <3> QED BY <2>1, <2>2, <3>1
  <2> HIDE DEF queued
  <2>4. Gone(new, queued) = gone + 1 /\ Len(queued) <= Len(new)
    BY <1>1, <1>2, <2>3 DEF Gone
  <2>5. gone + 1 \in 1 .. Len(got) /\ new[gone + 1] = got[gone + 1] /\ got[gone + 1] = waiting[1]
    BY <1>1, <1>2, <1>3, <2>1
  <2>6. \A j \in 1 .. Len(seen) : seen[j].text # got[gone + 1].text
    <3>1. \A i \in 1 .. gone : i # gone + 1 /\ i \in 1 .. Len(got)
      BY <1>1, <1>2
    <3> QED BY <1>3, <2>5, <3>1 DEF Apart
  <2>7. Pushed(new, queued, seen) = Pushed(got, waiting, seen) \cup {gone + 1}
    <3>1. 1 .. gone + 1 = (1 .. gone) \cup {gone + 1}
      <4>1. gone \in Nat
        BY <1>2
      <4> QED BY ONLY <4>1
    <3>2. \A i \in 1 .. gone + 1 : new[i] = got[i]
      BY <1>4, <2>5, <3>1
    <3>3. Pushed(new, queued, seen) =
              {i \in 1 .. gone + 1 : \A j \in 1 .. Len(seen) : seen[j].text # got[i].text}
      BY <2>4, <3>2 DEF Pushed
    <3> QED BY ONLY <1>3, <2>6, <3>1, <3>3
  <2>8. Cardinality(Pushed(new, queued, seen)) = count + 1
    <3>1. gone + 1 \notin Pushed(got, waiting, seen)
      BY <1>2, <1>3
    <3>2. IsFiniteSet(Pushed(got, waiting, seen))
      <4>1. IsFiniteSet(1 .. gone)
        BY <1>2, FS_Interval
      <4>2. Pushed(got, waiting, seen) \subseteq 1 .. gone
        BY <1>3
      <4> QED BY ONLY <4>1, <4>2, FS_Subset
    <3> QED BY <1>3, <2>7, <3>1, <3>2, FS_AddElement
  <2>9. ASSUME NEW k \in 1 .. Len(queued) PROVE queued[k] = new[gone + 1 + k]
    <3>1. CASE k \in 1 .. Len(waiting) - 1
      <4>1. /\ gone + 1 + k \in 1 .. Len(got) /\ k + 1 \in 1 .. Len(waiting)
            /\ gone + (k + 1) = gone + 1 + k
        BY <1>1, <1>2, <2>1, <3>1
      <4>2. queued[k] = got[gone + 1 + k]
        BY <1>3, <2>3, <3>1, <4>1
      <4> QED BY <1>1, <4>1, <4>2
    <3>2. CASE k = Len(waiting)
      <4>1. gone + 1 + k = Len(got) + 1
        BY <1>1, <1>2, <3>2
      <4> QED BY <1>1, <2>3, <3>2, <4>1
    <3> QED BY <2>1, <2>3, <3>1, <3>2
  <2>10. \A i \in Pushed(new, queued, seen) : Len(new) - i >= QueueMax
    <3>1. \A i \in Pushed(got, waiting, seen) : i \in Int
      BY <1>3
    <3>2. \A i \in Int : Len(got) - i >= QueueMax => Len(new) - i >= QueueMax
      BY <1>1, <1>2
    <3>3. Len(new) - (gone + 1) >= QueueMax
      BY <1>1, <1>2, <2>1
    <3> QED BY ONLY <1>3, <2>7, <3>1, <3>2, <3>3
  <2>11. \A j \in 1 .. Len(seen) : \E i \in 1 .. gone + 1 : new[i].text = seen[j].text
    <3>1. \A i \in 1 .. gone : i \in 1 .. gone + 1
      BY <1>2
    <3> QED BY <1>3, <1>4, <3>1
  <2>12. Tally(new, queued, seen, count + 1)
    BY ONLY <1>6, <2>4, <2>8, <2>9, <2>10, <2>11 DEF Tally
  <2> QED BY <1>8, <2>12 DEF new, queued
<1> QED BY <1>7, <1>8

(* What is read leaves the queue at its head and is not pushed out any more. *)
LEMMA ReadTally ==
    ASSUME NEW got \in Seq(QueuedMessage), NEW waiting \in Seq(QueuedMessage), NEW T,
           NEW seen \in Seq(T), NEW count \in Nat, waiting # <<>>,
           NEW message \in T, message.text = Head(waiting).text,
           Apart(got), Tally(got, waiting, seen, count)
    PROVE  Tally(got, Tail(waiting), Append(seen, message), count)
<1> DEFINE rest == Tail(waiting)
           new == Append(seen, message)
           gone == Gone(got, waiting)
<1>1. /\ Len(new) = Len(seen) + 1 /\ new[Len(seen) + 1] = message /\ Len(seen) \in Nat
      /\ \A j \in 1 .. Len(seen) : new[j] = seen[j]
  OBVIOUS
<1>2. /\ Len(waiting) \in Nat \ {0} /\ Len(rest) = Len(waiting) - 1 /\ Head(waiting) = waiting[1]
      /\ \A k \in 1 .. Len(waiting) - 1 : rest[k] = waiting[k + 1]
  OBVIOUS
<1>3. Len(got) \in Nat /\ gone \in Nat /\ gone = Len(got) - Len(waiting)
  BY <1>2 DEF Tally, Gone
<1>4. /\ \A k \in 1 .. Len(waiting) : waiting[k] = got[gone + k]
      /\ \A j \in 1 .. Len(seen) : \E i \in 1 .. gone : got[i].text = seen[j].text
      /\ \A j, k \in 1 .. Len(seen) : \A x, y \in 1 .. Len(got) :
            j < k /\ got[x].text = seen[j].text /\ got[y].text = seen[k].text => x < y
      /\ \A i \in Pushed(got, waiting, seen) : Len(got) - i >= QueueMax
      /\ Cardinality(Pushed(got, waiting, seen)) = count
      /\ Pushed(got, waiting, seen) =
            {i \in 1 .. gone : \A j \in 1 .. Len(seen) : seen[j].text # got[i].text}
  BY DEF Tally, Pushed
<1> HIDE DEF gone, new, rest
<1>5. Gone(got, rest) = gone + 1 /\ Len(rest) <= Len(got)
  BY <1>2, <1>3 DEF Gone
<1>6. gone + 1 \in 1 .. Len(got) /\ got[gone + 1].text = message.text
  BY <1>2, <1>3, <1>4
<1>7. \A i \in 1 .. gone : i \in 1 .. Len(got) /\ i < gone + 1 /\ i \in 1 .. gone + 1
  BY <1>2, <1>3
<1>8. \A i \in 1 .. gone : got[i].text # message.text
  BY <1>6, <1>7 DEF Apart
<1>9. \A j \in 1 .. Len(new) : j = Len(seen) + 1 \/ j \in 1 .. Len(seen)
  BY <1>1
<1>10. Pushed(got, rest, new) = Pushed(got, waiting, seen)
  <2>1. 1 .. gone + 1 = (1 .. gone) \cup {gone + 1}
    BY <1>3
  <2>2. Len(seen) + 1 \in 1 .. Len(new) /\ \A j \in 1 .. Len(seen) : j \in 1 .. Len(new)
    BY <1>1
  <2>3. ASSUME NEW i \in 1 .. gone
        PROVE  (\A j \in 1 .. Len(new) : new[j].text # got[i].text)
               <=> (\A j \in 1 .. Len(seen) : seen[j].text # got[i].text)
    BY <1>1, <1>8, <1>9, <2>2
  <2>4. ~(\A j \in 1 .. Len(new) : new[j].text # got[gone + 1].text)
    BY <1>1, <1>6, <2>2
  <2>5. Pushed(got, rest, new) =
            {i \in 1 .. gone + 1 : \A j \in 1 .. Len(new) : new[j].text # got[i].text}
    BY <1>5 DEF Pushed
  <2> QED BY ONLY <1>4, <2>1, <2>3, <2>4, <2>5
<1>11. \A k \in 1 .. Len(rest) : rest[k] = got[gone + 1 + k]
  <2>1. \A k \in 1 .. Len(rest) : k \in 1 .. Len(waiting) - 1 /\ k + 1 \in 1 .. Len(waiting)
    BY <1>2
  <2>2. \A k \in 1 .. Len(rest) : gone + (k + 1) = gone + 1 + k
    BY <1>3
  <2> QED BY <1>2, <1>4, <2>1, <2>2
<1>12. \A j \in 1 .. Len(new) : \E i \in 1 .. gone + 1 : got[i].text = new[j].text
  <2>1. gone + 1 \in 1 .. gone + 1
    BY <1>3
  <2> QED BY <1>1, <1>4, <1>6, <1>7, <1>9, <2>1
<1>13. ASSUME NEW j \in 1 .. Len(new), NEW k \in 1 .. Len(new),
              NEW x \in 1 .. Len(got), NEW y \in 1 .. Len(got),
              j < k, got[x].text = new[j].text, got[y].text = new[k].text
       PROVE  x < y
  <2>1. j \in 1 .. Len(seen)
    BY <1>1, <1>13
  <2>2. CASE k \in 1 .. Len(seen)
    BY <1>1, <1>4, <1>13, <2>1, <2>2
  <2>3. CASE k = Len(seen) + 1
    <3>1. y = gone + 1
      BY <1>1, <1>6, <1>13, <2>3 DEF Apart
    <3>2. PICK i \in 1 .. gone : got[i].text = seen[j].text
      BY <1>4, <2>1
    <3>3. x = i
      BY <1>1, <1>7, <1>13, <2>1, <3>2 DEF Apart
    <3> QED BY <1>7, <3>1, <3>3
  <2> QED BY <1>9, <2>2, <2>3
<1>14. Tally(got, rest, new, count)
  BY ONLY <1>4, <1>5, <1>10, <1>11, <1>12, <1>13 DEF Tally
<1> QED BY <1>14 DEF rest, new

(* What the queue and the tally say of the messages that were lost. *)
LEMMA TallyTells ==
    ASSUME NEW n \in Node, QueueInv, KeptInv, shown[n] \in Seq(Shown)
    PROVE  /\ {i \in DOMAIN taken[n] : Lost(n, i)} = Pushed(taken[n], queue[n], shown[n])
           /\ \A i \in DOMAIN shown[n] :
                 /\ Position(n, shown[n][i].text) \in 1 .. Len(taken[n])
                 /\ taken[n][Position(n, shown[n][i].text)].text = shown[n][i].text
<1> DEFINE got == taken[n]
           waiting == queue[n]
           seen == shown[n]
           gone == Gone(got, waiting)
<1>1. /\ Apart(got) /\ Tally(got, waiting, seen, dropped[n])
      /\ DOMAIN got = 1 .. Len(got) /\ DOMAIN waiting = 1 .. Len(waiting)
      /\ DOMAIN seen = 1 .. Len(seen) /\ Len(got) \in Nat /\ Len(waiting) \in Nat
  BY DEF KeptInv, QueueInv
<1>2. gone \in Nat /\ gone = Len(got) - Len(waiting)
  BY <1>1 DEF Tally, Gone
<1>3. \A k \in 1 .. Len(waiting) : waiting[k] = got[gone + k] /\ gone + k \in 1 .. Len(got)
  <2>1. \A k \in 1 .. Len(waiting) : waiting[k] = got[gone + k]
    BY <1>1 DEF Tally
  <2> HIDE DEF got, waiting, seen, gone
  <2>2. \A k \in 1 .. Len(waiting) : gone + k \in 1 .. Len(got)
    BY <1>1, <1>2
  <2> QED BY ONLY <2>1, <2>2
<1>4. \A j \in 1 .. Len(seen) : \E i \in 1 .. gone : got[i].text = seen[j].text
  BY <1>1 DEF Tally
<1>5. Pushed(got, waiting, seen) =
          {i \in 1 .. gone : \A j \in 1 .. Len(seen) : seen[j].text # got[i].text}
  BY DEF Pushed
<1> HIDE DEF gone
<1>6. \A i \in DOMAIN got :
          Lost(n, i) <=> /\ \A j \in 1 .. Len(waiting) : waiting[j] # got[i]
                         /\ \A j \in 1 .. Len(seen) : seen[j].text # got[i].text
  BY <1>1 DEF Lost
<1> HIDE DEF got, waiting, seen
<1>7. \A i \in 1 .. gone : /\ i \in 1 .. Len(got)
                           /\ \A k \in 1 .. Len(waiting) : i # gone + k
  BY <1>1, <1>2
<1>8. \A i \in 1 .. gone : \A j \in 1 .. Len(waiting) : waiting[j] # got[i]
  BY <1>1, <1>3, <1>7 DEF Apart
<1>9. ASSUME NEW i \in 1 .. Len(got), i \notin 1 .. gone
      PROVE  \E j \in 1 .. Len(waiting) : waiting[j] = got[i]
  <2>1. i - gone \in 1 .. Len(waiting) /\ gone + (i - gone) = i
    BY <1>1, <1>2, <1>9
  <2> QED BY <1>3, <2>1
<1>10. {i \in DOMAIN got : Lost(n, i)} = Pushed(got, waiting, seen)
  BY ONLY <1>1, <1>5, <1>6, <1>7, <1>8, <1>9
<1>11. \A i \in DOMAIN seen : \E k \in DOMAIN got : got[k].text = seen[i].text
  BY <1>1, <1>4, <1>7
<1> QED BY <1>1, <1>10, <1>11 DEF Position, got, waiting, seen

LEMMA KInvNewestKept == KInv => NewestKept
<1> SUFFICES ASSUME KInv, NEW n \in Node
             PROVE  /\ \A i \in DOMAIN taken[n] : Lost(n, i) => Len(taken[n]) - i >= QueueMax
                    /\ Cardinality({i \in DOMAIN taken[n] : Lost(n, i)}) = dropped[n]
                    /\ \A i, j \in DOMAIN shown[n] :
                          i < j => Position(n, shown[n][i].text) < Position(n, shown[n][j].text)
  BY DEF NewestKept
<1>1. QueueInv /\ KeptInv /\ shown[n] \in Seq(Shown)
  BY DEF KInv, MInv, QueueInv
<1>2. /\ {i \in DOMAIN taken[n] : Lost(n, i)} = Pushed(taken[n], queue[n], shown[n])
      /\ \A i \in DOMAIN shown[n] :
            /\ Position(n, shown[n][i].text) \in 1 .. Len(taken[n])
            /\ taken[n][Position(n, shown[n][i].text)].text = shown[n][i].text
  BY <1>1, TallyTells
<1>3. Tally(taken[n], queue[n], shown[n], dropped[n])
  BY <1>1 DEF KeptInv
<1>4. Cardinality({i \in DOMAIN taken[n] : Lost(n, i)}) = dropped[n]
  BY <1>2, <1>3 DEF Tally
<1>5. \A i \in DOMAIN taken[n] : Lost(n, i) => Len(taken[n]) - i >= QueueMax
  BY ONLY <1>2, <1>3 DEF Tally
<1>6. DOMAIN shown[n] = 1 .. Len(shown[n])
  BY <1>1
<1>7. ASSUME NEW i \in DOMAIN shown[n], NEW j \in DOMAIN shown[n], i < j
      PROVE  Position(n, shown[n][i].text) < Position(n, shown[n][j].text)
  BY ONLY <1>2, <1>3, <1>6, <1>7 DEF Tally
<1> QED BY <1>4, <1>5, <1>7

-----------------------------------------------------------------------------
(* What the steps do to the texts *)

(* A text that somebody waits for or has taken in was sent. *)
LEMMA TextsWereSent ==
    ASSUME MInv, NEW n \in Node
    PROVE  /\ \A i \in 1 .. Len(taken[n]) : WasSent(taken[n][i].text)
           /\ \A j \in 1 .. Len(inbox[n]) : inbox[n][j].kind = "data" => WasSent(inbox[n][j].payload)
<1>1. taken[n] \in Seq(Received(n)) /\ inbox[n] \in Seq(Letters)
  BY DEF MInv, QueueInv, LettersInv
<1>2. \A i \in 1 .. Len(taken[n]) : taken[n][i] \in Received(n)
  BY <1>1
<1>3. \A j \in 1 .. Len(inbox[n]) : inbox[n][j] \in Letters
  BY <1>1
<1> QED BY <1>2, <1>3 DEF Received, Letters

LEMMA BoxShape ==
    ASSUME MInv, NEW n \in Node
    PROVE  inbox[n] \in Seq(Message) /\ Len(inbox[n]) <= InboxSize
<1>1. inbox[n] \in Seq(Letters) /\ Letters \subseteq Message
  BY DEF MInv, LettersInv, Letters
<1> QED BY <1>1, SeqDef DEF MInv, IInv, InboxInv

(* A frame that is broadcast is new to everybody or carries no text. *)
LEMMA BroadcastUnheard ==
    ASSUME NEW boxes \in [Node -> Seq(Message)], \A m \in Node : Len(boxes[m]) <= InboxSize,
           NEW got, NEW msg \in Message, NEW hearers,
           \A m \in Node : Unheard(boxes[m], got[m]),
           msg.kind = "data" => \A m \in Node :
               /\ \A i \in 1 .. Len(got[m]) : got[m][i].text # msg.payload
               /\ \A j \in 1 .. Len(boxes[m]) :
                     boxes[m][j].kind = "data" => boxes[m][j].payload # msg.payload
    PROVE  \A m \in Node : Unheard(Broadcast(boxes, msg, hearers)[m], got[m])
<1> SUFFICES ASSUME NEW m \in Node
             PROVE  Unheard(Broadcast(boxes, msg, hearers)[m], got[m])
  OBVIOUS
<1>1. Unheard(Kept(boxes[m], msg), got[m])
  <2> DEFINE box == boxes[m]
             had == got[m]
  <2>1. /\ box \in Seq(Message) /\ Len(box) <= InboxSize /\ Unheard(box, had)
        /\ msg.kind = "data" =>
               /\ \A i \in 1 .. Len(had) : had[i].text # msg.payload
               /\ \A j \in 1 .. Len(box) : box[j].kind = "data" => box[j].payload # msg.payload
    OBVIOUS
  <2> HIDE DEF box, had
  <2>2. Unheard(Kept(box, msg), had)
    BY ONLY <2>1, msg \in Message, KeptUnheard
  <2> QED BY <2>2 DEF box, had
<1> QED BY <1>1 DEF Broadcast

LEMMA TakenUnheard ==
    ASSUME MInv, NEW n \in Node, inbox[n] # <<>>, NEW got,
           \A m \in Node : Unheard(inbox[m], got[m])
    PROVE  /\ Taken(n) \in [Node -> Seq(Message)]
           /\ \A m \in Node : Unheard(Taken(n)[m], got[m]) /\ Len(Taken(n)[m]) <= InboxSize
<1>1. inbox \in [Node -> Seq(Message)] /\ \A m \in Node : Len(inbox[m]) <= InboxSize
  BY BoxShape DEF MInv, LettersInv
<1>2. /\ Taken(n) \in [Node -> Seq(Message)] /\ \A m \in Node : Len(Taken(n)[m]) <= InboxSize
  BY <1>1, TakenLetters DEF MInv, IInv
<1>3. Unheard(Tail(inbox[n]), got[n])
  BY <1>1, TailUnheard
<1> QED BY <1>1, <1>2, <1>3 DEF Taken

LEMMA TransmitKept ==
    ASSUME KInv, NEW n \in Node, NEW to \in SendTo[n], NEW name, NEW text \in Unsent(n),
           Transmit(n, to, name, text)
    PROVE  KeptInv'
<1>1. PICK hearers \in SUBSET Node : SendData(n, to, text, hearers)
  BY DEF Transmit
<1>2. /\ inbox' = Broadcast(inbox, Data(book[n], to, text), hearers)
      /\ UNCHANGED <<queue, dropped, taken, shown>> /\ Running(n)
  BY <1>1 DEF Transmit, SendData, Running
<1>3. text \in Payload /\ ~WasSent(text) /\ to \in NodeId \cup {Everyone}
  BY PeerMessengerAssumption, RollCallAssumption DEF Unsent, WasSent
<1>4. /\ Data(book[n], to, text) \in Message /\ Data(book[n], to, text).payload = text
  <2>1. Data(book[n], to, text) \in Message
    BY <1>2, <1>3, DataTrue DEF KInv, MInv, IInv, TrueMessages
  <2> QED BY <2>1 DEF Data
<1>5. \A m \in Node :
          /\ \A i \in 1 .. Len(taken[m]) : taken[m][i].text # text
          /\ \A j \in 1 .. Len(inbox[m]) : inbox[m][j].kind = "data" => inbox[m][j].payload # text
  BY <1>3, TextsWereSent DEF KInv
<1>6. inbox \in [Node -> Seq(Message)] /\ \A m \in Node : Len(inbox[m]) <= InboxSize
  BY BoxShape DEF KInv, MInv, LettersInv
<1>7. \A m \in Node : Unheard(inbox[m], taken[m])
  BY DEF KInv, KeptInv
<1> DEFINE msg == Data(book[n], to, text)
<1> HIDE DEF msg
<1>8. \A m \in Node : Unheard(Broadcast(inbox, msg, hearers)[m], taken[m])
  BY <1>4, <1>5, <1>6, <1>7, BroadcastUnheard DEF msg
<1> QED BY <1>2, <1>8 DEF KInv, KeptInv, msg

(* What RollCall puts into the inboxes carries no text. *)
LEMMA OthersKept ==
    ASSUME KInv, NEW n \in Node, Call(n) \/ Handle(n) \/ Continue(n) \/ Return(n),
           UNCHANGED <<queue, dropped, taken, shown>>
    PROVE  KeptInv'
<1>1. \A m \in Node : Unheard(inbox[m], taken[m])
  BY DEF KInv, KeptInv
<1>2. inbox \in [Node -> Seq(Message)] /\ \A m \in Node : Len(inbox[m]) <= InboxSize
  BY BoxShape DEF KInv, MInv, LettersInv
<1>3. \A m \in Node : Unheard(inbox'[m], taken[m])
  <2>1. CASE UNCHANGED inbox
    BY <1>1, <2>1
  <2>2. CASE inbox[n] # <<>> /\ inbox' = Taken(n)
    BY <1>1, <2>2, TakenUnheard DEF KInv
  <2>3. CASE \E msg \in Claims, hearers \in SUBSET Node :
                 \/ inbox' = Broadcast(inbox, msg, hearers)
                 \/ inbox[n] # <<>> /\ inbox' = Broadcast(Taken(n), msg, hearers)
    <3>1. PICK msg \in Claims, hearers \in SUBSET Node :
                 \/ inbox' = Broadcast(inbox, msg, hearers)
                 \/ inbox[n] # <<>> /\ inbox' = Broadcast(Taken(n), msg, hearers)
      BY <2>3
    <3>2. msg \in Message /\ msg.kind # "data"
      BY DEF Claims
    <3>3. CASE inbox' = Broadcast(inbox, msg, hearers)
      BY <1>1, <1>2, <3>2, <3>3, BroadcastUnheard
    <3>4. CASE inbox[n] # <<>> /\ inbox' = Broadcast(Taken(n), msg, hearers)
      <4>1. /\ Taken(n) \in [Node -> Seq(Message)]
            /\ \A m \in Node : Unheard(Taken(n)[m], taken[m]) /\ Len(Taken(n)[m]) <= InboxSize
        BY <1>1, <3>4, TakenUnheard DEF KInv
      <4> QED BY <3>2, <3>4, <4>1, BroadcastUnheard
    <3> QED BY <3>1, <3>3, <3>4
  <2> QED BY <2>1, <2>2, <2>3, InboxShape DEF KInv, MInv
<1> QED BY <1>3 DEF KInv, KeptInv

LEMMA HearMessageKept ==
    ASSUME KInv, NEW n \in Node, HearMessage(n)
    PROVE  KeptInv'
<1> DEFINE message == [from |-> Head(inbox[n]).from, text |-> Head(inbox[n]).payload]
<1>1. /\ HearData(n) /\ UNCHANGED shown
      /\ queue' = [queue EXCEPT ![n] = Queued(@, message)]
      /\ taken' = [taken EXCEPT ![n] = Append(@, message)]
      /\ dropped' = [dropped EXCEPT ![n] = IF Len(queue[n]) < QueueMax THEN @ ELSE @ + 1]
      /\ inbox' = [inbox EXCEPT ![n] = Tail(@)]
      /\ Head(inbox[n]).kind = "data" /\ inbox[n] # <<>>
  BY DEF HearMessage, HearData, CanRead, Taken
<1>2. message \in QueuedMessage /\ message.text = Head(inbox[n]).payload
  BY <1>1, HeardReceived DEF KInv
<1> HIDE DEF message
<1>3. /\ queue[n] \in Seq(QueuedMessage) /\ Len(queue[n]) <= QueueMax
      /\ taken[n] \in Seq(QueuedMessage) /\ shown[n] \in Seq(Shown) /\ dropped[n] \in Nat
      /\ inbox[n] \in Seq(Message)
  BY BoxShape DEF KInv, MInv, QueueInv
<1>4. /\ Apart(taken[n]) /\ Unheard(inbox[n], taken[n])
      /\ Tally(taken[n], queue[n], shown[n], dropped[n])
  BY DEF KInv, KeptInv
<1>5. /\ Apart(Append(taken[n], message)) /\ Unheard(Tail(inbox[n]), Append(taken[n], message))
      /\ \A i \in 1 .. Len(taken[n]) : taken[n][i].text # message.text
  BY <1>1, <1>2, <1>3, <1>4, HeardUnheard
<1>6. Tally(Append(taken[n], message), Queued(queue[n], message), shown[n],
            IF Len(queue[n]) < QueueMax THEN dropped[n] ELSE dropped[n] + 1)
  BY <1>2, <1>3, <1>4, <1>5, HeardTally
<1>7. /\ queue'[n] = Queued(queue[n], message) /\ taken'[n] = Append(taken[n], message)
      /\ dropped'[n] = (IF Len(queue[n]) < QueueMax THEN dropped[n] ELSE dropped[n] + 1)
      /\ inbox'[n] = Tail(inbox[n]) /\ shown' = shown
      /\ \A m \in Node \ {n} : /\ queue'[m] = queue[m] /\ taken'[m] = taken[m]
                               /\ dropped'[m] = dropped[m] /\ inbox'[m] = inbox[m]
  BY <1>1 DEF KInv, MInv, QueueInv, LettersInv
<1> QED BY <1>5, <1>6, <1>7 DEF KInv, KeptInv

LEMMA ReceiveMessageKept ==
    ASSUME KInv, NEW n \in Node, ReceiveMessage(n)
    PROVE  KeptInv'
<1> DEFINE read == [text |-> Head(queue[n]).text, from |-> Head(queue[n]).from,
                    name |-> book[n].idToName[Head(queue[n]).from]]
<1>1. /\ UNCHANGED <<inbox, taken, dropped>> /\ queue[n] # <<>>
      /\ queue' = [queue EXCEPT ![n] = Tail(@)]
      /\ shown' = [shown EXCEPT ![n] = Append(@, read)] /\ read.text = Head(queue[n]).text
  BY DEF ReceiveMessage, vars
<1> HIDE DEF read
<1>2. /\ queue[n] \in Seq(QueuedMessage) /\ taken[n] \in Seq(QueuedMessage)
      /\ shown[n] \in Seq(Shown \cup {read}) /\ dropped[n] \in Nat
      /\ read \in Shown \cup {read}
  <2>1. shown[n] \in Seq(Shown)
    BY DEF KInv, MInv, QueueInv
  <2> QED BY <2>1, SeqDef DEF KInv, MInv, QueueInv
<1>3. Apart(taken[n]) /\ Tally(taken[n], queue[n], shown[n], dropped[n])
  BY DEF KInv, KeptInv
<1>4. Tally(taken[n], Tail(queue[n]), Append(shown[n], read), dropped[n])
  BY <1>1, <1>2, <1>3, ReadTally
<1>5. /\ queue'[n] = Tail(queue[n]) /\ shown'[n] = Append(shown[n], read)
      /\ \A m \in Node \ {n} : queue'[m] = queue[m] /\ shown'[m] = shown[m]
  BY <1>1 DEF KInv, MInv, QueueInv
<1> QED BY <1>1, <1>4, <1>5 DEF KInv, KeptInv

(* A node that has just been switched on has nothing to account for. *)
LEMMA NoTally == Apart(<<>>) /\ Unheard(<<>>, <<>>) /\ Tally(<<>>, <<>>, <<>>, 0)
<1>1. Len(<<>>) = 0 /\ 1 .. 0 = {}
  OBVIOUS
<1>2. Gone(<<>>, <<>>) = 0
  BY <1>1 DEF Gone
<1>3. Pushed(<<>>, <<>>, <<>>) = {}
  BY <1>1, <1>2 DEF Pushed
<1>4. Cardinality({}) = 0
  BY FS_EmptySet
<1> QED BY <1>1, <1>2, <1>3, <1>4 DEF Apart, Unheard, Tally

LEMMA CrashKept ==
    ASSUME KInv, NEW n \in Node, Crash(n)
    PROVE  KeptInv'
<1>1. /\ queue' = [queue EXCEPT ![n] = <<>>] /\ dropped' = [dropped EXCEPT ![n] = 0]
      /\ taken' = [taken EXCEPT ![n] = <<>>] /\ shown' = [shown EXCEPT ![n] = <<>>]
      /\ inbox' = [inbox EXCEPT ![n] = <<>>]
  BY DEF Crash, PowerOff
<1>2. /\ queue'[n] = <<>> /\ taken'[n] = <<>> /\ shown'[n] = <<>> /\ dropped'[n] = 0
      /\ inbox'[n] = <<>>
      /\ \A m \in Node \ {n} :
            /\ queue'[m] = queue[m] /\ taken'[m] = taken[m] /\ shown'[m] = shown[m]
            /\ dropped'[m] = dropped[m] /\ inbox'[m] = inbox[m]
  BY <1>1 DEF KInv, MInv, QueueInv, LettersInv
<1> QED BY <1>2, NoTally DEF KInv, KeptInv

(* Every send puts a text on the air that nobody has sent. *)
LEMMA SendTransmits ==
    ASSUME MInv, NEW n \in Node, SendToId(n) \/ SendToKnown(n) \/ FinishSend(n)
    PROVE  \E to \in SendTo[n], name \in Name \cup {Nameless}, text \in Unsent(n) :
              Transmit(n, to, name, text)
<1>1. CASE SendToId(n)
  BY <1>1, PeerMessengerAssumption DEF SendToId
<1>2. CASE SendToKnown(n)
  <2>1. PICK name \in AskedNames[n], text \in Unsent(n) :
           Addressee(n, name) # Unknown /\ Transmit(n, Addressee(n, name), name, text)
    BY <1>2 DEF SendToKnown
  <2>2. name \in Name /\ Addressee(n, name) \in SendTo[n]
    BY <2>1, AddresseeOnRecord
  <2> QED BY <2>1, <2>2
<1>3. CASE FinishSend(n)
  <2> DEFINE name == outgoing[n].name
             text == outgoing[n].text
  <2>1. /\ Addressee(n, name) # Unknown /\ Transmit(n, Addressee(n, name), name, text)
        /\ outgoing[n] # Nothing
    BY <1>3 DEF FinishSend, Resuming
  <2>2. name \in AskedNames[n] /\ text \in Unsent(n)
    BY <2>1 DEF MInv, OutgoingInv
  <2> HIDE DEF name, text
  <2>3. name \in Name /\ Addressee(n, name) \in SendTo[n]
    BY <2>1, <2>2, AddresseeOnRecord
  <2> QED BY <2>1, <2>2, <2>3
<1> QED BY <1>1, <1>2, <1>3

LEMMA InitKInv == MInit => KInv
BY InitMInv, NoTally DEF MInit, Init, KInv, KeptInv

LEMMA KStepKeeps == KInv /\ [MNext]_allVars => KInv'
<1> SUFFICES ASSUME KInv, [MNext]_allVars PROVE KInv'
  OBVIOUS
<1> SUFFICES KeptInv'
  BY MStepKeeps DEF KInv
<1>2. CASE TimePasses \/ UNCHANGED allVars
  BY <1>2 DEF KInv, KeptInv, TimePasses, Tick, allVars, mail, vars
<1>3. CASE \E n \in Node : Messaging(n) \/ Inside(n) \/ OtherCall(n) \/ Crash(n)
  <2>1. PICK n \in Node : Messaging(n) \/ Inside(n) \/ OtherCall(n) \/ Crash(n)
    BY <1>3
  <2>2. CASE SendToId(n) \/ SendToKnown(n) \/ FinishSend(n)
    BY <2>2, SendTransmits, TransmitKept DEF KInv
  <2>3. CASE StartSend(n)
    BY <2>3, StartSendKeeps, OthersKept DEF KInv, StartSend
  <2>4. CASE HearMessage(n)
    BY <2>4, HearMessageKept
  <2>5. CASE GiveUp(n)
    BY <2>5 DEF GiveUp, vars, KInv, KeptInv
  <2>6. CASE ReceiveMessage(n)
    BY <2>6, ReceiveMessageKept
  <2>7. CASE Inside(n) \/ OtherCall(n)
    BY <2>7, OthersKept DEF Inside, OtherCall, MailUntouched, mail
  <2>8. CASE Crash(n)
    BY <2>8, CrashKept
  <2> QED BY <2>1, <2>2, <2>3, <2>4, <2>5, <2>6, <2>7, <2>8 DEF Messaging
<1> QED BY <1>2, <1>3 DEF MNext

-----------------------------------------------------------------------------
(* The invariant that follows a text from the name it is sent to over the  *)
(* address on the frame to the node that queues it, and to the name it is  *)
(* read with (PeerMessenger.cpp:55-147).                                   *)
THEOREM MessengerInvariance == MSpec => []MInv
BY InitMInv, MStepKeeps, PTL DEF MSpec

(* PeerMessenger on top of RollCall is RollCall: what is proved of the     *)
(* tables holds with messages under way too (PeerMessenger.cpp:40-53).     *)
THEOREM MessengerIsRollCall == MSpec => Spec
<1>1. MInit => Init
  BY DEF MInit
<1> QED BY <1>1, InitMInv, MStepKeeps, PTL DEF MSpec, Spec

(* Queues keep their limit, and a message is on hold only inside whoIs()   *)
(* (PeerMessenger.cpp:55-71, 97-114).                                      *)
THEOREM MessengerTypeCorrect == MSpec => []MailOK
BY MessengerInvariance, MInvMailOK, PTL

(* A message sent by name is queued by no node but one that has gone by    *)
(* that name (PeerMessenger.cpp:97-114).                                   *)
THEOREM MessagesReachTheName == MSpec => []RightReceiver
BY MessengerInvariance, MInvRightReceiver, PTL

(* A message is shown with no name but one of its sender                   *)
(* (PeerMessenger.cpp:124-147).                                            *)
THEOREM SendersAreNamedRight == MSpec => []RightSender
BY MessengerInvariance, MInvRightSender, PTL

(* A message the application never gets to see was pushed out by           *)
(* PEER_MESSENGER_MAX_QUEUE newer ones, every such loss is counted, and    *)
(* the others are read once each in the order they came, for any queue     *)
(* size, any number of nodes and any losses (PeerMessenger.cpp:55-71,      *)
(* 124-147).                                                               *)
THEOREM NewestStayInOrder == MSpec => []NewestKept
BY InitKInv, KStepKeeps, KInvNewestKept, PTL DEF MSpec
=============================================================================
