---------------------------- MODULE PeerMessenger ----------------------------
(***************************************************************************)
(* PeerMessenger on top of RollCall: text messages to a node by address or *)
(* by name, or to everyone, and a bounded queue of what was received.  It  *)
(* shares the node's thread and its link with RollCall: whichever call is  *)
(* receiving, a message that arrives is queued, also while the name of the *)
(* node to send to is still being resolved.                                *)
(*                                                                         *)
(* Every step is one of RollCall's: this module adds what the messenger    *)
(* does with the payloads.  The texts an application sends are told apart, *)
(* and each goes on the air at most once (the bound of this model).        *)
(***************************************************************************)
EXTENDS RollCall

CONSTANTS
    QueueMax,       \* PEER_MESSENGER_MAX_QUEUE
    Text,           \* per node: what its application has to say
    Direct          \* per node: addresses it sends to without asking for a name

ASSUME PeerMessengerAssumption ==
    /\ QueueMax \in Nat \ {0}
    /\ Text \in [Node -> SUBSET Payload]
    /\ \A n, m \in Node : n # m => Text[n] \cap Text[m] = {}
    /\ Direct \in [Node -> SUBSET (NodeId \cup {Everyone})]
    /\ \A n \in Node : Direct[n] \subseteq SendTo[n]
    /\ \A n \in Node : AskedNames[n] # {} => NodeId \subseteq SendTo[n]

VARIABLES
    queue,      \* per node: _queue
    dropped,    \* _dropped
    outgoing,   \* the arguments of the sendMessage() that waits for whoIs()
    sent,       \* history: the texts sent, and the name each was sent to
    taken,      \* history: what was queued since power on
    shown,      \* history: what receiveMessage() returned since
    lived       \* history: every <<name, id>> this node has gone by

mail == <<queue, dropped, outgoing, sent, taken, shown>>
allVars == <<vars, mail, lived>>

-----------------------------------------------------------------------------
Nothing == [name |-> Unknown, text |-> "none"]
Nameless == Unknown

Unsent(n) == {text \in Text[n] : \A s \in sent : s.text # text}

QueuedMessage == [from : NodeId, text : Payload]

QueuedOverNewest(messages, message) ==      \* seeded fault: pop_back() for pop_front()
    Append(IF Len(messages) < QueueMax THEN messages ELSE SubSeq(messages, 1, QueueMax - 1), message)

QueuedAlways(messages, message) == Append(messages, message)    \* seeded fault: no limit

(* The oldest message makes room. *)
Queued(messages, message) ==
    Append(IF Len(messages) < QueueMax THEN messages ELSE Tail(messages), message)

(* whoIs() of a name nobody has answered for. *)
Addressee(n, name) == book[n].nameToId[name]

MInit ==
    /\ Init
    /\ queue = [n \in Node |-> <<>>]
    /\ dropped = [n \in Node |-> 0]
    /\ outgoing = [n \in Node |-> Nothing]
    /\ sent = {}
    /\ taken = [n \in Node |-> <<>>]
    /\ shown = [n \in Node |-> <<>>]
    /\ lived = [n \in Node |-> {}]

(* The application's thread is not inside sendMessage(). *)
Free(n) == call[n] = "idle" /\ outgoing[n] = Nothing

-----------------------------------------------------------------------------
(* sendMessage(), broadcastMessage() *)

Transmit(n, to, name, text) ==
    /\ \E hearers \in SUBSET Node : SendData(n, to, text, hearers)
    /\ sent' = sent \cup {[text |-> text, name |-> name]}
    /\ UNCHANGED <<queue, dropped, taken, shown, lived>>

SendToId(n) ==
    /\ Free(n)
    /\ \E to \in Direct[n], text \in Unsent(n) : Transmit(n, to, Nameless, text)
    /\ UNCHANGED outgoing

(* A known name is sent to at once ... *)
SendToKnown(n) ==
    /\ Free(n)
    /\ \E name \in AskedNames[n], text \in Unsent(n) :
          /\ Addressee(n, name) # Unknown
          /\ Transmit(n, Addressee(n, name), name, text)
    /\ UNCHANGED outgoing

(* ... any other is asked for first: sendMessage() waits in whoIs(). *)
StartSend(n) ==
    /\ Free(n)
    /\ \E name \in AskedNames[n], text \in Unsent(n), hearers \in SUBSET Node :
          /\ Ask(n, Whois(name), hearers)
          /\ outgoing' = [outgoing EXCEPT ![n] = [name |-> name, text |-> text]]
    /\ UNCHANGED <<queue, dropped, sent, taken, shown, lived>>

Resuming(n) == call[n] = "idle" /\ outgoing[n] # Nothing

FinishSend(n) ==
    /\ Resuming(n)
    /\ Addressee(n, outgoing[n].name) # Unknown
    /\ Transmit(n, Addressee(n, outgoing[n].name), outgoing[n].name, outgoing[n].text)
    /\ outgoing' = [outgoing EXCEPT ![n] = Nothing]

(* Nobody answered: sendMessage() returns false. *)
GiveUp(n) ==
    /\ Resuming(n)
    /\ Addressee(n, outgoing[n].name) = Unknown
    /\ outgoing' = [outgoing EXCEPT ![n] = Nothing]
    /\ UNCHANGED <<vars, queue, dropped, sent, taken, shown, lived>>

-----------------------------------------------------------------------------
(* handleData(), receiveMessage() *)

(* RollCall hands over what it read, inside whichever call is receiving. *)
HearMessage(n) ==
    /\ HearData(n)
    /\ LET message == [from |-> Head(inbox[n]).from, text |-> Head(inbox[n]).payload]
       IN  /\ queue' = [queue EXCEPT ![n] = Queued(@, message)]
           /\ taken' = [taken EXCEPT ![n] = Append(@, message)]
    /\ dropped' = [dropped EXCEPT ![n] = IF Len(queue[n]) < QueueMax THEN @ ELSE @ + 1]
    /\ UNCHANGED <<outgoing, sent, shown, lived>>

(* The sender's name is looked up when the message is read, not when it came. *)
ReceiveMessage(n) ==
    /\ Free(n)
    /\ queue[n] # <<>>
    /\ LET message == Head(queue[n])
       IN  shown' = [shown EXCEPT ![n] =
                        Append(@, [text |-> message.text, from |-> message.from,
                                   name |-> book[n].idToName[message.from]])]
    /\ queue' = [queue EXCEPT ![n] = Tail(@)]
    /\ UNCHANGED <<vars, dropped, outgoing, sent, taken, lived>>

-----------------------------------------------------------------------------
(* The rest is RollCall's: processMessages() of the messenger is that of   *)
(* RollCall, and a call of the application has to wait for sendMessage().  *)
MailUntouched(n) ==
    /\ UNCHANGED mail
    /\ lived' = [lived EXCEPT ![n] = @ \cup {<<book'[n].name, book'[n].id>>}]

Inside(n) == (Handle(n) \/ Continue(n) \/ Return(n)) /\ MailUntouched(n)

OtherCall(n) == outgoing[n] = Nothing /\ Call(n) /\ MailUntouched(n)

(* All of the messenger is in memory. *)
Crash(n) ==
    /\ PowerOff(n)
    /\ queue' = [queue EXCEPT ![n] = <<>>]
    /\ dropped' = [dropped EXCEPT ![n] = 0]
    /\ outgoing' = [outgoing EXCEPT ![n] = Nothing]
    /\ taken' = [taken EXCEPT ![n] = <<>>]
    /\ shown' = [shown EXCEPT ![n] = <<>>]
    /\ UNCHANGED <<sent, lived>>

(* Returning from whoIs() takes no time. *)
TimePasses ==
    /\ \A n \in Node : ~Resuming(n)
    /\ Tick
    /\ UNCHANGED <<mail, lived>>

Messaging(n) ==
    \/ SendToId(n) \/ SendToKnown(n) \/ StartSend(n) \/ FinishSend(n) \/ GiveUp(n)
    \/ HearMessage(n) \/ ReceiveMessage(n)

MNext ==
    \/ TimePasses
    \/ \E n \in Node : Messaging(n) \/ Inside(n) \/ OtherCall(n) \/ Crash(n)

MSpec == MInit /\ [][MNext]_allVars

(* Time passes and every thread runs on; an application need not read, send *)
(* or listen ever again.                                                    *)
RunsOn(n) == FinishSend(n) \/ GiveUp(n) \/ HearMessage(n) \/ Inside(n)

MFairSpec ==
    /\ MSpec
    /\ SF_allVars(TimePasses)
    /\ \A n \in Node : WF_allVars(RunsOn(n))

-----------------------------------------------------------------------------
(* Properties *)

(* Every variable of the messenger keeps its type, the queue its limit, and *)
(* only a node that waits in whoIs() or has just returned from it has a     *)
(* message on hold.                                                         *)
MailOK ==
    /\ queue \in [Node -> Seq(QueuedMessage)]
    /\ \A n \in Node : Len(queue[n]) <= QueueMax
    /\ dropped \in [Node -> Nat]
    /\ \A n \in Node :
          outgoing[n] = Nothing \/ outgoing[n] \in [name : AskedNames[n], text : Text[n]]
    /\ \A n \in Node : outgoing[n] # Nothing => call[n] \in {"idle", "query"}
    /\ sent \subseteq [text : Payload, name : Name \cup {Nameless}]
    /\ taken \in [Node -> Seq(QueuedMessage)]
    /\ lived \in [Node -> SUBSET (Name \X NodeId)]

Position(n, text) == CHOOSE i \in DOMAIN taken[n] : taken[n][i].text = text

Lost(n, i) ==
    /\ \A j \in DOMAIN queue[n] : queue[n][j] # taken[n][i]
    /\ \A j \in DOMAIN shown[n] : shown[n][j].text # taken[n][i].text

(* A message the application never gets to see was pushed out by           *)
(* PEER_MESSENGER_MAX_QUEUE newer ones, every such loss is counted by      *)
(* droppedMessages(), and the others are read once each, in the order they *)
(* came, whichever call was receiving (handleData(), receiveMessage()).    *)
NewestKept ==
    \A n \in Node :
        /\ \A i \in DOMAIN taken[n] : Lost(n, i) => Len(taken[n]) - i >= QueueMax
        /\ Cardinality({i \in DOMAIN taken[n] : Lost(n, i)}) = dropped[n]
        /\ \A i, j \in DOMAIN shown[n] :
              i < j => Position(n, shown[n][i].text) < Position(n, shown[n][j].text)

(* No two nodes ever went by one address.  Until a collision of addresses  *)
(* is resolved nothing can tell its parties apart.                         *)
AddressesDistinct ==
    \A n, m \in Node : n # m =>
        \A x \in lived[n], y \in lived[m] : x[2] # y[2]

(* Sending by name: the message is queued by no node but one that has gone *)
(* by that name, however the name was resolved and whoever restarted since *)
(* (sendMessage(), whoIs()).                                               *)
RightReceiver ==
    AddressesDistinct =>
        \A n \in Node, s \in sent :
            s.name # Nameless /\ (\E i \in DOMAIN taken[n] : taken[n][i].text = s.text)
                => \E x \in lived[n] : x[1] = s.name

(* Reading: a name shown with a message is one that its sender has gone by *)
(* (receiveMessage()).                                                     *)
RightSender ==
    AddressesDistinct =>
        \A n, m \in Node : \A i \in DOMAIN shown[n] :
            shown[n][i].name # Unknown /\ shown[n][i].text \in Text[m]
                => \E x \in lived[m] : x[1] = shown[n][i].name

Busy(n) == Calling(n) \/ outgoing[n] # Nothing

(* sendMessage() by name returns, whatever arrives while the name is being *)
(* resolved, and with its transmissions at intervals of zero as well; and  *)
(* so does every other call of the node.                                   *)
SendReturns == \A n \in Node : Busy(n) ~> ~Busy(n)
=============================================================================
