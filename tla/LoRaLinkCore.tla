---------------------------- MODULE LoRaLinkCore ----------------------------
(***************************************************************************)
(* The link layer of LoRaPeerLink: several nodes, each running one         *)
(* LoRaLinkCore (through LoRaBasicLink or LoRaBackoffLink) over a          *)
(* half-duplex radio with a lossy medium between them.                     *)
(*                                                                         *)
(* A node is one thread of control.  pc[n] says where it is blocked:       *)
(*   "idle"     outside the link: the application may call it              *)
(*   "delay"    in listenFor(), before a transmission                      *)
(*   "air"      in IRadio::send(), its data frame on the air               *)
(*   "await"    in waitForAck()                                            *)
(*   "receive"  in receivePacket()                                         *)
(* and timer[n] how many ticks the blocking call has left.  inbox[n] is    *)
(* the driver's one-frame buffer, in which the newest unread frame wins.   *)
(*                                                                         *)
(* A payload is its length; two payloads of one length have one content,   *)
(* so a CRC agrees whenever the header and the length do (the worst case   *)
(* for duplicate suppression).  msg is a history field: it names the call  *)
(* of sendPacket() that a frame stands for and no action reads it to       *)
(* decide anything.                                                        *)
(***************************************************************************)
EXTENDS LinkTiming, DuplicateTable, Sequences, FiniteSets

CONSTANTS
    Node,
    Addr,             \* node addresses
    Broadcast,        \* BROADCAST_ADDR
    Unset,            \* the address 0 of a link nobody has named yet
    Payload,          \* payload lengths
    IdsOf,            \* per node: the addresses its application gives itself
    Requests,         \* per node: the arguments it calls sendPacket() with
    Reads,            \* per node: the arguments it calls receivePacket() with
    QueueSize,        \* LORA_LINK_RX_QUEUE_SIZE
    SeqMod,           \* 256: _seqNum is a uint8_t
    MaxCalls,         \* bound: calls of sendPacket() by each node
    Outcomes,         \* what the medium may do to a frame on its way to a node
    RadioFails,       \* may IRadio::send() return FALSE?
    PromptReaders,    \* do applications read an unread frame before anything else?
    NoFrame, Garbled, NoJob

ASSUME LinkAssumption ==
    /\ IsFiniteSet(Node)
    /\ Broadcast \in Addr /\ Unset \in Addr
    /\ Payload \subseteq Nat /\ Payload \subseteq DOMAIN AirTime
    /\ \A n \in Node :
          /\ IdsOf[n] \subseteq Addr
          /\ Requests[n] \subseteq [srcId : IdsOf[n], destId : Addr, len : Payload,
                                    requestAck : BOOLEAN, maxRetries : Nat]
          /\ Reads[n] \subseteq [maxLen : Nat, timeout : Nat]
    /\ QueueSize \in Nat \ {0} /\ SeqMod \in Nat \ {0} /\ DupTableSize \in Nat \ {0}
    /\ MaxCalls \in [Node -> Nat]
    /\ Outcomes \subseteq {"intact", "garbled", "missed"} /\ Outcomes # {}
    /\ RadioFails \in BOOLEAN /\ PromptReaders \in BOOLEAN

VARIABLES
    localId,    \* _localId
    seqNum,     \* _seqNum
    pc, timer, job,
    queue,      \* _queue, _queueHead and _queueCount: the payloads kept while busy
    seen,       \* _seen
    seenNext,   \* _seenNext
    inbox,      \* the frame the radio driver holds unread
    calls,      \* history: how often sendPacket() has been called
    accepted,   \* history: the messages acceptData() took in, in order
    delivered,  \* history: the messages receivePacket() returned, in order
    acked       \* history: the messages whose sender was told they were acknowledged

protocol == <<localId, seqNum, queue, seen, seenNext>>
control  == <<pc, timer, job>>
history  == <<calls, accepted, delivered, acked>>
vars     == <<protocol, control, inbox, history>>

-----------------------------------------------------------------------------
(* Frames *)

Msg == Node \X (Nat \ {0})

DataFrame == [ack : {FALSE}, dst : Addr, src : Addr, seq : 0 .. SeqMod - 1,
              req : BOOLEAN, len : Payload, msg : Msg]

AckFrame == [ack : {TRUE}, dst : Addr, src : Addr, seq : 0 .. SeqMod - 1,
             req : {FALSE}, len : {0}, msg : Msg]

Frame == DataFrame \cup AckFrame

KeyWithoutSeq(f) == [src |-> f.src, seq |-> 0, dst |-> f.dst, len |-> f.len]    \* seeded fault

(* What a node is doing inside the link, a queued payload, a remembered frame. *)
SendCall == [frame : DataFrame, attempt : Nat, attempts : Nat]
ReadCall == [maxLen : Nat, poll : BOOLEAN]
Pending == [len : Payload, msg : Msg]
SeenEntry == [key : [src : Addr, seq : 0 .. SeqMod - 1, dst : Addr, len : Payload], age : Nat]

ASSUME MarkersDistinct ==
    /\ NoFrame \notin Frame /\ Garbled \notin Frame /\ NoFrame # Garbled
    /\ Free \notin SeenEntry

(* What tells two frames apart for the receiver: source, sequence number and CRC. *)
Key(f) == [src |-> f.src, seq |-> f.seq, dst |-> f.dst, len |-> f.len]

AckFor(f, own) == [ack |-> TRUE, dst |-> f.src, src |-> own, seq |-> f.seq,
                   req |-> FALSE, len |-> 0, msg |-> f.msg]

IsForUs(n, f) == f.dst = localId[n] \/ f.dst = Broadcast

IsDataForUs(n, f) == f # Garbled /\ ~f.ack /\ IsForUs(n, f)

NextSeq(s) == IF s + 1 = SeqMod THEN 0 ELSE s + 1

(* The age at which an entry is past every window. *)
OldestAge == LET windows == {EffectiveDupWindow(len) : len \in Payload}
             IN  1 + CHOOSE w \in windows : \A v \in windows : v <= w

-----------------------------------------------------------------------------
(* The medium and the driver *)

(* Frame f leaves node n.  A node whose own transmitter is on hears nothing; *)
(* every other one hears f, hears it damaged, or misses it.  kept is what    *)
(* remains in the buffer of n itself.                                        *)
OnAir(n, f, kept) ==
    \E outcome \in [Node \ {n} -> Outcomes \cup {"missed"}] :
        /\ \A o \in Node \ {n} :
              IF pc[o] = "air" THEN outcome[o] = "missed" ELSE outcome[o] \in Outcomes
        /\ inbox' = [o \in Node |->
              IF o = n THEN kept
              ELSE IF outcome[o] = "intact" THEN f
              ELSE IF outcome[o] = "garbled" THEN Garbled
              ELSE inbox[o]]

(* The driver hands its frame to the link. *)
ReadFrame(n) == inbox' = [inbox EXCEPT ![n] = NoFrame]

SendAck(n, f) == OnAir(n, AckFor(f, localId[n]), NoFrame)

-----------------------------------------------------------------------------
(* acceptData() *)

NeedsAck(n, f) == f.req /\ f.dst = localId[n] /\ f.dst # Broadcast

DuplicateOf(n, f) ==
    NeedsAck(n, f) /\ IsDuplicate(seen[n], Key(f), EffectiveDupWindow(f.len))

(* The table after the call of isDuplicate(), if there is one. *)
SweptTable(n, f) ==
    IF NeedsAck(n, f) THEN Scanned(seen[n], Key(f), EffectiveDupWindow(f.len)) ELSE seen[n]

(* A retransmission: acknowledged again, not taken in again. *)
Suppress(n, f) ==
    /\ DuplicateOf(n, f)
    /\ seen' = [seen EXCEPT ![n] = SweptTable(n, f)]
    /\ SendAck(n, f)
    /\ UNCHANGED <<seenNext, accepted>>

(* Seeded fault: what is dropped is acknowledged all the same. *)
RefuseButAck(n, f, room) ==
    /\ ~DuplicateOf(n, f) /\ f.len > room
    /\ seen' = [seen EXCEPT ![n] = SweptTable(n, f)]
    /\ SendAck(n, f)
    /\ UNCHANGED <<seenNext, accepted>>

(* Longer than the room there is: dropped without an acknowledgment. *)
Refuse(n, f, room) ==
    /\ ~DuplicateOf(n, f) /\ f.len > room
    /\ seen' = [seen EXCEPT ![n] = SweptTable(n, f)]
    /\ ReadFrame(n)
    /\ UNCHANGED <<seenNext, accepted>>

(* Seeded fault: the frame is acknowledged but not remembered. *)
TakeInUnremembered(n, f, room) ==
    /\ ~DuplicateOf(n, f) /\ f.len <= room
    /\ accepted' = [accepted EXCEPT ![n] = Append(@, f.msg)]
    /\ IF NeedsAck(n, f) THEN SendAck(n, f) ELSE ReadFrame(n)
    /\ UNCHANGED <<seen, seenNext>>

(* Taken in, and if the sender wants it remembered and acknowledged. *)
TakeIn(n, f, room) ==
    /\ ~DuplicateOf(n, f) /\ f.len <= room
    /\ accepted' = [accepted EXCEPT ![n] = Append(@, f.msg)]
    /\ IF NeedsAck(n, f)
       THEN LET swept == SweptTable(n, f)
            IN  /\ seen' = [seen EXCEPT ![n] = Remembered(swept, seenNext[n], Key(f))]
                /\ seenNext' = [seenNext EXCEPT ![n] = NextAfterRemember(swept, @)]
                /\ SendAck(n, f)
       ELSE ReadFrame(n) /\ UNCHANGED <<seen, seenNext>>

-----------------------------------------------------------------------------
(* sendPacket() *)

Blocked(n, where, ticks) ==
    /\ pc' = [pc EXCEPT ![n] = where]
    /\ timer' = [timer EXCEPT ![n] = ticks]

Return(n) ==
    /\ Blocked(n, "idle", 0)
    /\ job' = [job EXCEPT ![n] = NoJob]

(* An attempt: listen for the delay, if there is one, and transmit. *)
BeginAttempt(n, len, delay) ==
    IF delay > 0 THEN Blocked(n, "delay", delay) ELSE Blocked(n, "air", AirTime[len])

(* Seeded fault: the attempts are not counted. *)
RetryForEver(n) ==
    LET len == job[n].frame.len
    IN  \E after \in RetryDelays(job[n].attempt, SlotMs(len)) :
            BeginAttempt(n, len, after) /\ UNCHANGED job

(* The rest of the loop body after an attempt without an acknowledgment. *)
RetryOrGiveUp(n) ==
    LET attempt == job[n].attempt
        len == job[n].frame.len
    IN  IF attempt + 1 < job[n].attempts
        THEN \E after \in RetryDelays(attempt, SlotMs(len)), before \in PreSendDelays(SlotMs(len)) :
                /\ BeginAttempt(n, len, after + before)
                /\ job' = [job EXCEPT ![n].attempt = attempt + 1]
        ELSE Return(n)

SetLocalId(n, id) ==
    /\ pc[n] = "idle" /\ id # localId[n]
    /\ localId' = [localId EXCEPT ![n] = id]
    /\ UNCHANGED <<seqNum, queue, seen, seenNext, control, inbox, history>>

SendPacket(n, r) ==
    LET wantAck == r.requestAck /\ r.destId # Broadcast
        f == [ack |-> FALSE, dst |-> r.destId, src |-> r.srcId, seq |-> seqNum[n],
              req |-> wantAck, len |-> r.len, msg |-> <<n, calls[n] + 1>>]
    IN  /\ pc[n] = "idle" /\ calls[n] < MaxCalls[n]
        /\ PromptReaders => inbox[n] = NoFrame
        /\ calls' = [calls EXCEPT ![n] = @ + 1]
        /\ seqNum' = [seqNum EXCEPT ![n] = NextSeq(@)]
        /\ job' = [job EXCEPT ![n] =
              [frame |-> f, attempt |-> 0,
               attempts |-> IF wantAck /\ r.maxRetries > 1 THEN r.maxRetries ELSE 1]]
        /\ \E delay \in PreSendDelays(SlotMs(r.len)) : BeginAttempt(n, r.len, delay)
        /\ UNCHANGED <<localId, queue, seen, seenNext, inbox, accepted, delivered, acked>>

(* The delay is over: the frame goes on the air. *)
StartTransmit(n) ==
    /\ pc[n] = "delay" /\ timer[n] = 0
    /\ Blocked(n, "air", AirTime[job[n].frame.len])
    /\ UNCHANGED <<protocol, job, inbox, history>>

(* IRadio::send() returns TRUE. *)
FinishTransmit(n) ==
    /\ pc[n] = "air" /\ timer[n] = 0
    /\ OnAir(n, job[n].frame, inbox[n])
    /\ IF job[n].frame.req
       THEN Blocked(n, "await", EffectiveAckTimeout) /\ UNCHANGED job
       ELSE Return(n)
    /\ UNCHANGED <<protocol, history>>

(* IRadio::send() returns FALSE: nothing went out. *)
FailTransmit(n) ==
    /\ RadioFails
    /\ pc[n] = "air" /\ timer[n] = 0
    /\ IF job[n].frame.req THEN RetryOrGiveUp(n) ELSE Return(n)
    /\ UNCHANGED <<protocol, inbox, history>>

(* Seeded fault: an ACK meant for another node will do. *)
IsAckForAnyone(n, f) ==
    /\ pc[n] = "await" /\ f # Garbled
    /\ f.ack /\ f.len = 0
    /\ f.src = job[n].frame.dst /\ f.seq = job[n].frame.seq

(* waitForAck() hears the ACK it waits for: sendPacket() returns TRUE. *)
IsAwaitedAck(n, f) ==
    /\ pc[n] = "await" /\ f # Garbled
    /\ f.ack /\ f.len = 0
    /\ f.dst = job[n].frame.src /\ f.src = job[n].frame.dst /\ f.seq = job[n].frame.seq

HearAck(n) ==
    /\ inbox[n] # NoFrame /\ IsAwaitedAck(n, inbox[n])
    /\ acked' = acked \cup {job[n].frame.msg}
    /\ ReadFrame(n)
    /\ Return(n)
    /\ UNCHANGED <<protocol, calls, accepted, delivered>>

AckTimeout(n) ==
    /\ pc[n] = "await" /\ timer[n] = 0
    /\ RetryOrGiveUp(n)
    /\ UNCHANGED <<protocol, inbox, history>>

(* listenFor() and waitForAck() hear a frame that is no business of queueData(). *)
HearOtherWhileBusy(n) ==
    /\ pc[n] \in {"delay", "await"} /\ inbox[n] # NoFrame
    /\ ~IsAwaitedAck(n, inbox[n]) /\ ~IsDataForUs(n, inbox[n])
    /\ ReadFrame(n)
    /\ UNCHANGED <<protocol, control, history>>

(* queueData(): a frame for this node while it is busy sending. *)
HasRoomOffByOne(n) == Len(queue[n]) <= QueueSize    \* seeded fault
HasRoom(n) == Len(queue[n]) < QueueSize

HearDataWhileBusy(n) ==
    LET f == inbox[n]
    IN  /\ pc[n] \in {"delay", "await"} /\ f # NoFrame /\ IsDataForUs(n, f)
        /\ \/ /\ ~HasRoom(n)                     \* stay silent: the sender will retry
              /\ ReadFrame(n)
              /\ UNCHANGED <<queue, seen, seenNext, accepted>>
           \/ /\ HasRoom(n)
              /\ Suppress(n, f)
              /\ UNCHANGED queue
           \/ /\ HasRoom(n)
              /\ TakeIn(n, f, f.len)             \* a queue slot holds any payload
              /\ queue' = IF f.len > 0
                          THEN [queue EXCEPT ![n] = Append(@, [len |-> f.len, msg |-> f.msg])]
                          ELSE queue
        /\ UNCHANGED <<localId, seqNum, control, calls, delivered, acked>>

-----------------------------------------------------------------------------
(* receivePacket() *)

FitsTightly(n, i, maxLen) == queue[n][i].len < maxLen    \* seeded fault

Fits(n, i, maxLen) == queue[n][i].len <= maxLen

(* popPending(): the first queued payload that fits is returned; those     *)
(* before it are dropped.                                                  *)
ReceivePending(n, maxLen) ==
    /\ pc[n] = "idle"
    /\ \E i \in 1 .. Len(queue[n]) :
          /\ Fits(n, i, maxLen) /\ \A j \in 1 .. i - 1 : ~Fits(n, j, maxLen)
          /\ delivered' = [delivered EXCEPT ![n] = Append(@, queue[n][i].msg)]
          /\ queue' = [queue EXCEPT ![n] = SubSeq(@, i + 1, Len(@))]
    /\ UNCHANGED <<localId, seqNum, seen, seenNext, control, inbox, calls, accepted, acked>>

StartReceive(n, maxLen, timeout) ==
    /\ pc[n] = "idle"
    /\ \A i \in 1 .. Len(queue[n]) : ~Fits(n, i, maxLen)
    /\ queue' = [queue EXCEPT ![n] = <<>>]
    /\ Blocked(n, "receive", timeout)
    /\ job' = [job EXCEPT ![n] = [maxLen |-> maxLen, poll |-> timeout = 0]]
    /\ UNCHANGED <<localId, seqNum, seen, seenNext, inbox, history>>

(* After a frame that was not for the application.  A call with timeout 0 *)
(* drains what the radio has; any other one returns when its time is up.  *)
KeepListening(n) ==
    IF timer[n] = 0 /\ ~job[n].poll THEN Return(n) ELSE UNCHANGED control

HearOtherInReceive(n) ==
    /\ pc[n] = "receive" /\ inbox[n] # NoFrame /\ ~IsDataForUs(n, inbox[n])
    /\ ReadFrame(n)
    /\ KeepListening(n)
    /\ UNCHANGED <<protocol, history>>

HearDataInReceive(n) ==
    LET f == inbox[n]
    IN  /\ pc[n] = "receive" /\ f # NoFrame /\ IsDataForUs(n, f)
        /\ \/ Suppress(n, f) /\ KeepListening(n) /\ UNCHANGED delivered
           \/ Refuse(n, f, job[n].maxLen) /\ KeepListening(n) /\ UNCHANGED delivered
           \/ /\ TakeIn(n, f, job[n].maxLen)
              /\ delivered' = [delivered EXCEPT ![n] = Append(@, f.msg)]
              /\ Return(n)
        /\ UNCHANGED <<localId, seqNum, queue, calls, acked>>

ReceiveTimeout(n) ==
    /\ pc[n] = "receive" /\ timer[n] = 0 /\ inbox[n] = NoFrame
    /\ Return(n)
    /\ UNCHANGED <<protocol, inbox, history>>

-----------------------------------------------------------------------------
(* Time *)

(* A tick passes when no blocked call has anything to do: what a listening *)
(* link hears it handles at once, and what is due happens when it is due.  *)
Tick ==
    /\ \A n \in Node :
          /\ pc[n] # "idle" => timer[n] > 0
          /\ inbox[n] # NoFrame => pc[n] = "air" \/ (pc[n] = "idle" /\ ~PromptReaders)
    /\ timer' = [n \in Node |-> IF pc[n] = "idle" THEN 0 ELSE timer[n] - 1]
    /\ seen' = [n \in Node |-> Aged(seen[n], OldestAge)]
    /\ UNCHANGED <<localId, seqNum, pc, job, queue, seenNext, inbox, history>>

-----------------------------------------------------------------------------
Init ==
    /\ localId = [n \in Node |-> Unset]
    /\ seqNum = [n \in Node |-> 0]
    /\ pc = [n \in Node |-> "idle"]
    /\ timer = [n \in Node |-> 0]
    /\ job = [n \in Node |-> NoJob]
    /\ queue = [n \in Node |-> <<>>]
    /\ seen = [n \in Node |-> EmptyTable]
    /\ seenNext = [n \in Node |-> 0]
    /\ inbox = [n \in Node |-> NoFrame]
    /\ calls = [n \in Node |-> 0]
    /\ accepted = [n \in Node |-> <<>>]
    /\ delivered = [n \in Node |-> <<>>]
    /\ acked = {}

(* What the application of node n may ask of its link. *)
AppCall(n) ==
    \/ \E id \in IdsOf[n] : SetLocalId(n, id)
    \/ \E r \in Requests[n] : SendPacket(n, r)
    \/ \E r \in Reads[n] : ReceivePending(n, r.maxLen) \/ StartReceive(n, r.maxLen, r.timeout)

(* What the link of node n does inside a call. *)
LinkStep(n) ==
    \/ StartTransmit(n)
    \/ FinishTransmit(n)
    \/ FailTransmit(n)
    \/ HearAck(n)
    \/ AckTimeout(n)
    \/ HearOtherWhileBusy(n)
    \/ HearDataWhileBusy(n)
    \/ HearOtherInReceive(n)
    \/ HearDataInReceive(n)
    \/ ReceiveTimeout(n)

Next == Tick \/ \E n \in Node : AppCall(n) \/ LinkStep(n)

Spec == Init /\ [][Next]_vars

(* A blocked call keeps running, time passes whatever the applications do, *)
(* and an application that promises to read an unread frame does read it.  *)
PromptRead(n) ==
    PromptReaders /\ \E r \in Reads[n] :
        ReceivePending(n, r.maxLen) \/ StartReceive(n, r.maxLen, r.timeout)

FairSpec ==
    Spec /\ SF_vars(Tick) /\ \A n \in Node : WF_vars(LinkStep(n)) /\ WF_vars(PromptRead(n))

-----------------------------------------------------------------------------
(* Properties *)

ControlOK ==
    /\ pc \in [Node -> {"idle", "delay", "air", "await", "receive"}]
    /\ timer \in [Node -> Nat]
    /\ job \in [Node -> SendCall \cup ReadCall \cup {NoJob}]
    /\ \A n \in Node :
          /\ pc[n] = "idle" => job[n] = NoJob
          /\ pc[n] \in {"delay", "air", "await"} => job[n] \in SendCall
          /\ pc[n] = "receive" => job[n] \in ReadCall

LinkOK ==
    /\ localId \in [Node -> Addr]
    /\ seqNum \in [Node -> 0 .. SeqMod - 1]
    /\ queue \in [Node -> Seq(Pending)]
    /\ \A n \in Node : Len(queue[n]) <= QueueSize
    /\ seen \in [Node -> [Slots -> SeenEntry \cup {Free}]]
    /\ seenNext \in [Node -> Slots]

InboxOK == inbox \in [Node -> Frame \cup {NoFrame, Garbled}]

HistoryOK ==
    /\ calls \in [Node -> Nat]
    /\ accepted \in [Node -> Seq(Msg)]
    /\ delivered \in [Node -> Seq(Msg)]
    /\ acked \subseteq Msg

(* Every variable keeps its type, the queue stays within its slots, and    *)
(* the call a node is blocked in is of the kind its control point says.    *)
TypeOK == ControlOK /\ LinkOK /\ InboxOK /\ HistoryOK

Elements(s) == {s[i] : i \in 1 .. Len(s)}

(* sendPacket() reports an acknowledged message only if acceptData() of    *)
(* some node took that very message in: no stale, foreign or mismatched    *)
(* ACK completes a later call (LoRaLinkCore.h:28-30).                      *)
AckedMeansAccepted == \A m \in acked : \E n \in Node : m \in Elements(accepted[n])

(* What the sender was told is delivered has been returned by a            *)
(* receivePacket(), or waits in the queue of a busy link for the next one. *)
Kept(n) == {queue[n][i].msg : i \in 1 .. Len(queue[n])}
AckedReachesReader ==
    \A m \in acked : \E n \in Node : m \in Elements(delivered[n]) \cup Kept(n)

(* However often frames and ACKs are lost and retransmitted, an            *)
(* application gets the messages of one sender at most once and in the     *)
(* order of the sender's calls.                                            *)
OnceInOrder ==
    \A n \in Node : \A i, j \in 1 .. Len(delivered[n]) :
        i < j /\ delivered[n][i][1] = delivered[n][j][1] =>
            delivered[n][i][2] < delivered[n][j][2]

(* Duplicate suppression only ever recognises retransmissions: a frame     *)
(* isDuplicate() would match is a copy of a message taken in before.       *)
OnlyCopiesSuppressed ==
    \A n \in Node :
        inbox[n] \notin {NoFrame, Garbled} /\ ~inbox[n].ack /\ DuplicateOf(n, inbox[n]) =>
            inbox[n].msg \in Elements(accepted[n])

(* Every call returns: neither a loop of waitForAck(), listenFor() or      *)
(* receivePacket() nor the traffic of the other nodes holds it for ever.   *)
CallsReturn == \A n \in Node : pc[n] # "idle" ~> pc[n] = "idle"

(* The link implements the abstract service: messages are taken in once    *)
(* and in order, returned first in, first out with none missing, and       *)
(* confirmed only when taken in.                                           *)
Delivery == INSTANCE AckedDelivery
    WITH called <- calls, taken <- accepted, handed <- delivered, confirmed <- acked
ImplementsDelivery == Delivery!Spec
=============================================================================
