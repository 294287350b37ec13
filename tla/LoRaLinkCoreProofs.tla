------------------------- MODULE LoRaLinkCoreProofs -------------------------
(***************************************************************************)
(* Theorems about LoRaLinkCore, for every value of its constants.          *)
(*   1. the timing rules: types, and the duplicate window covers a retry   *)
(*   2. lemmas about the duplicate table, frames and calls                 *)
(*   3. type correctness: Spec => []TypeOK                                 *)
(*   4. identity: acknowledgments and duplicate suppression never mistake  *)
(*      one message for another.  Nothing here depends on time: the        *)
(*      argument is about who may have produced the frame a node hears.    *)
(*                                                                         *)
(* For 4: on the air a message is named by its source address and its      *)
(* sequence number modulo SeqMod.  Given that no two nodes share an        *)
(* address, that name determines the sender and, up to a wrap of the       *)
(* sequence number, the message.  The invariant says that every frame,     *)
(* every call in progress and every remembered entry names the message it  *)
(* stands for, and that an ACK in a driver's buffer, like a table entry,   *)
(* stands for a message that some node has really taken in.                *)
(***************************************************************************)
EXTENDS LoRaLinkCore, TLAPS, SequenceTheorems

-----------------------------------------------------------------------------
(* Timing *)

(* Every delay, wait and window the link computes is a natural number. *)
LEMMA TimingTypes ==
    ASSUME NEW len \in Payload
    PROVE  /\ AirTime[len] \in Nat
           /\ SlotMs(len) \in Nat
           /\ EffectiveAckTimeout \in Nat
           /\ EffectiveDupWindow(len) \in Nat
           /\ PreSendDelays(SlotMs(len)) \subseteq Nat
           /\ \A attempt \in Nat : RetryDelays(attempt, SlotMs(len)) \subseteq Nat
<1>1. AirTime[len] \in Nat /\ AckAirTime \in Nat /\ SlotMargin \in Nat /\ DefaultSlot \in Nat
      /\ MaxBackoffSlots \in Nat /\ AckMargin \in Nat /\ ConfiguredAckTimeout \in Nat
      /\ ConfiguredDupWindow \in Nat
  BY TimingAssumption, LinkAssumption
<1>2. SlotMs(len) \in Nat
  BY <1>1 DEF SlotMs
<1>3. EffectiveAckTimeout \in Nat
  BY <1>1 DEF EffectiveAckTimeout
<1>4. (MaxBackoffSlots + 2) * SlotMs(len) \in Nat /\ MaxBackoffSlots * SlotMs(len) \in Nat
  BY <1>1, <1>2
<1>5. EffectiveDupWindow(len) \in Nat
  BY <1>1, <1>3, <1>4 DEF EffectiveDupWindow
<1>6. \A bound \in Nat : RandomBelow(bound) \subseteq Nat
  BY DEF RandomBelow
<1>7. PreSendDelays(SlotMs(len)) \subseteq Nat
  <2>1. SlotMs(len) \div 10 \in Nat /\ (SlotMs(len) * 4) \div 10 \in Nat
    BY <1>2
  <2> QED
    BY <2>1, <1>6 DEF PreSendDelays
<1>8. \A attempt \in Nat : RetryDelays(attempt, SlotMs(len)) \subseteq Nat
  BY <1>4, <1>6 DEF RetryDelays
<1> QED
  BY <1>1, <1>2, <1>3, <1>5, <1>7, <1>8

(* The duplicate window is long enough for a retry: from the end of one    *)
(* transmission of a frame to the end of the next there pass at most the   *)
(* ACK wait, the largest backoff, the largest access delay and the time on *)
(* air, which fit in the window of that frame (the comment on worstGap,    *)
(* LoRaLinkCore.cpp:114).  It holds when a slot is no shorter than the     *)
(* frame: whenever the driver reports a time on air, and on a driver that  *)
(* does not when the frame takes at most DEFAULT_SLOT_MS.                  *)
THEOREM WindowCoversRetry ==
    ASSUME NEW len \in Payload, AirTime[len] <= SlotMs(len),
           NEW attempt \in Nat,
           NEW after \in RetryDelays(attempt, SlotMs(len)),
           NEW before \in PreSendDelays(SlotMs(len))
    PROVE  EffectiveAckTimeout + after + before + AirTime[len] <= EffectiveDupWindow(len)
<1> DEFINE slot == SlotMs(len)
           widest == MaxBackoffSlots * slot
<1>1. /\ slot \in Nat /\ widest \in Nat /\ EffectiveAckTimeout \in Nat
      /\ after \in Nat /\ before \in Nat /\ AirTime[len] \in Nat
      /\ EffectiveDupWindow(len) \in Nat /\ ConfiguredDupWindow \in Nat
  BY TimingTypes, TimingAssumption
<1>2. after <= widest
  BY <1>1 DEF RetryDelays, RandomBelow
<1>3. before <= slot
  <2>1. slot \div 10 \in Nat /\ (slot * 4) \div 10 \in Nat
        /\ slot \div 10 + (slot * 4) \div 10 <= slot
    BY <1>1
  <2>2. CASE ~AccessDelay
    BY <1>1, <2>2 DEF PreSendDelays
  <2>3. CASE AccessDelay
    <3>1. PICK r \in RandomBelow((slot * 4) \div 10) : before = slot \div 10 + r
      BY <2>3 DEF PreSendDelays
    <3>2. r \in Nat /\ r <= (slot * 4) \div 10
      BY <2>1, <3>1 DEF RandomBelow
    <3> QED
      BY <1>1, <2>1, <3>1, <3>2
  <2> QED
    BY <2>2, <2>3
<1>4. (MaxBackoffSlots + 2) * slot = widest + 2 * slot
  BY <1>1, TimingAssumption
<1>5. EffectiveAckTimeout + (widest + 2 * slot) <= EffectiveDupWindow(len)
  <2>1. /\ EffectiveDupWindow(len) \in {EffectiveAckTimeout + (widest + 2 * slot), ConfiguredDupWindow}
        /\ ConfiguredDupWindow = EffectiveDupWindow(len) =>
              EffectiveAckTimeout + (widest + 2 * slot) <= ConfiguredDupWindow
    BY <1>1, <1>4 DEF EffectiveDupWindow
  <2> HIDE DEF slot, widest
  <2> QED
    BY <1>1, <2>1
<1> HIDE DEF slot, widest
<1> QED
  BY <1>1, <1>2, <1>3, <1>5 DEF slot

-----------------------------------------------------------------------------
(* The duplicate table *)

Table == [Slots -> SeenEntry \cup {Free}]

LEMMA EntryTypes ==
    ASSUME NEW e \in SeenEntry
    PROVE  [e EXCEPT !.age = 0] \in SeenEntry /\ [e EXCEPT !.age = 0].key = e.key
BY DEF SeenEntry

(* isDuplicate() and remember() leave a table behind. *)
LEMMA ScannedType ==
    ASSUME NEW table \in Table, NEW key, NEW window
    PROVE  Scanned(table, key, window) \in Table
<1> DEFINE reached(i) == \A j \in Slots : j < i => ~Matches(table, j, key, window)
           at(i) == IF reached(i) /\ Matches(table, i, key, window)
                    THEN [table[i] EXCEPT !.age = 0]
                    ELSE IF reached(i) /\ ~Live(table[i], window) THEN Free
                    ELSE table[i]
<1>1. ASSUME NEW i \in Slots PROVE at(i) \in SeenEntry \cup {Free}
  <2>1. table[i] \in SeenEntry \cup {Free}
    BY DEF Table
  <2>2. Matches(table, i, key, window) => table[i] # Free
    BY DEF Matches, Live
  <2> QED
    BY <2>1, <2>2, EntryTypes
<1>2. Scanned(table, key, window) = [i \in Slots |-> at(i)]
  BY DEF Scanned
<1> HIDE DEF at
<1> QED
  BY <1>1, <1>2 DEF Table

LEMMA RememberedType ==
    ASSUME NEW table \in Table, NEW next \in Slots, NEW f \in DataFrame
    PROVE  /\ Remembered(table, next, Key(f)) \in Table
           /\ NextAfterRemember(table, next) \in Slots
<1>1. [key |-> Key(f), age |-> 0] \in SeenEntry
  BY DEF SeenEntry, Key, DataFrame
<1>2. Remembered(table, next, Key(f)) \in Table
  BY <1>1 DEF Remembered, Table
<1>3. NextAfterRemember(table, next) \in Slots
  <2>1. DupTableSize \in Nat \ {0} /\ next \in Nat
    BY LinkAssumption DEF Slots
  <2>2. (next + 1) % DupTableSize \in 0 .. DupTableSize - 1
    BY <2>1
  <2> QED
    BY <2>2 DEF NextAfterRemember, Slots
<1> QED
  BY <1>2, <1>3

LEMMA AgedType ==
    ASSUME NEW table \in Table
    PROVE  Aged(table, OldestAge) \in Table
<1>1. ASSUME NEW e \in SeenEntry, NEW limit
      PROVE  [e EXCEPT !.age = IF @ < limit THEN @ + 1 ELSE @] \in SeenEntry
  BY <1>1 DEF SeenEntry
<1> QED
  BY <1>1 DEF Aged, Table

-----------------------------------------------------------------------------
(* Type correctness of the parts of a step *)

LEMMA FrameFacts ==
    /\ \A f \in DataFrame : ~f.ack /\ f.len \in Payload /\ f.msg \in Msg /\ f \in Frame
    /\ \A f \in Frame : f \notin {NoFrame, Garbled} /\ (~f.ack => f \in DataFrame)
    /\ \A f \in Frame : f.ack => f \in AckFrame
BY MarkersDistinct DEF Frame, DataFrame, AckFrame

LEMMA AckForType ==
    ASSUME NEW f \in DataFrame, NEW own \in Addr
    PROVE  AckFor(f, own) \in AckFrame /\ AckFor(f, own) \in Frame
BY DEF AckFor, DataFrame, AckFrame, Frame

LEMMA OnAirType ==
    ASSUME InboxOK, NEW n \in Node, NEW f \in Frame,
           NEW kept \in Frame \cup {NoFrame, Garbled}, OnAir(n, f, kept)
    PROVE  InboxOK'
BY DEF OnAir, InboxOK

LEMMA ReadFrameType ==
    ASSUME InboxOK, NEW n \in Node, ReadFrame(n)
    PROVE  InboxOK'
BY DEF ReadFrame, InboxOK

LEMMA SendAckType ==
    ASSUME LinkOK, InboxOK, NEW n \in Node, NEW f \in DataFrame, SendAck(n, f)
    PROVE  InboxOK'
<1>1. localId[n] \in Addr
  BY DEF LinkOK
<1> QED
  BY <1>1, AckForType, OnAirType DEF SendAck

LEMMA SweptTableType ==
    ASSUME LinkOK, NEW n \in Node, NEW f \in DataFrame
    PROVE  SweptTable(n, f) \in Table
<1>1. seen[n] \in Table
  BY DEF LinkOK, Table
<1> QED
  BY <1>1, ScannedType DEF SweptTable

(* What acceptData() does keeps the types of what it touches. *)
TableOK == seen \in [Node -> Table] /\ seenNext \in [Node -> Slots]

LEMMA AcceptDataType ==
    ASSUME TypeOK, NEW n \in Node, NEW f \in DataFrame, NEW room,
           Suppress(n, f) \/ Refuse(n, f, room) \/ TakeIn(n, f, room)
    PROVE  TableOK' /\ InboxOK' /\ accepted' \in [Node -> Seq(Msg)]
<1> USE DEF TypeOK
<1>1. TableOK /\ accepted \in [Node -> Seq(Msg)] /\ SweptTable(n, f) \in Table
  BY SweptTableType DEF LinkOK, HistoryOK, TableOK, Table
<1>2. CASE Suppress(n, f)
  BY <1>1, <1>2, SendAckType DEF Suppress, TableOK
<1>3. CASE Refuse(n, f, room)
  BY <1>1, <1>3, ReadFrameType DEF Refuse, TableOK
<1>4. CASE TakeIn(n, f, room)
  <2>1. accepted' \in [Node -> Seq(Msg)]
    <3>1. f.msg \in Msg
      BY FrameFacts
    <3> QED
      BY <1>1, <1>4, <3>1 DEF TakeIn
  <2>2. CASE NeedsAck(n, f)
    <3>1. InboxOK'
      BY <1>4, <2>2, SendAckType DEF TakeIn
    <3>2. /\ Remembered(SweptTable(n, f), seenNext[n], Key(f)) \in Table
          /\ NextAfterRemember(SweptTable(n, f), seenNext[n]) \in Slots
      BY <1>1, RememberedType DEF TableOK
    <3>3. /\ seen' = [seen EXCEPT ![n] = Remembered(SweptTable(n, f), seenNext[n], Key(f))]
          /\ seenNext' = [seenNext EXCEPT ![n] = NextAfterRemember(SweptTable(n, f), seenNext[n])]
      BY <1>4, <2>2 DEF TakeIn
    <3>4. TableOK'
      BY <1>1, <3>2, <3>3 DEF TableOK
    <3> QED
      BY <2>1, <3>1, <3>4
  <2>3. CASE ~NeedsAck(n, f)
    BY <1>1, <1>4, <2>1, <2>3, ReadFrameType DEF TakeIn, TableOK
  <2> QED
    BY <2>2, <2>3
<1> QED
  BY <1>2, <1>3, <1>4

LEMMA ReturnType ==
    ASSUME ControlOK, NEW n \in Node, Return(n)
    PROVE  ControlOK'
BY DEF ControlOK, Return, Blocked

LEMMA BlockedSendingType ==
    ASSUME ControlOK, NEW n \in Node, NEW where \in {"delay", "air", "await"}, NEW ticks \in Nat,
           NEW j \in SendCall, Blocked(n, where, ticks), job' = [job EXCEPT ![n] = j]
    PROVE  ControlOK'
BY DEF ControlOK, Blocked

LEMMA BeginAttemptType ==
    ASSUME ControlOK, NEW n \in Node, NEW delay \in Nat, NEW j \in SendCall,
           BeginAttempt(n, j.frame.len, delay), job' = [job EXCEPT ![n] = j]
    PROVE  ControlOK'
<1>1. j.frame.len \in Payload
  BY DEF SendCall, DataFrame
<1>2. AirTime[j.frame.len] \in Nat
  BY <1>1, TimingTypes
<1> QED
  BY <1>2, BlockedSendingType DEF BeginAttempt

LEMMA RetryOrGiveUpType ==
    ASSUME ControlOK, NEW n \in Node, job[n] \in SendCall, RetryOrGiveUp(n)
    PROVE  ControlOK'
<1> DEFINE len == job[n].frame.len
           next == [job[n] EXCEPT !.attempt = job[n].attempt + 1]
<1>1. len \in Payload /\ job[n].attempt \in Nat
  BY DEF SendCall, DataFrame
<1>2. next \in SendCall /\ next.frame.len = len
  BY <1>1 DEF SendCall
<1>3. CASE job[n].attempt + 1 < job[n].attempts
  <2>1. PICK after \in RetryDelays(job[n].attempt, SlotMs(len)),
             before \in PreSendDelays(SlotMs(len)) :
             /\ BeginAttempt(n, len, after + before)
             /\ job' = [job EXCEPT ![n].attempt = job[n].attempt + 1]
    BY <1>3 DEF RetryOrGiveUp
  <2>2. after + before \in Nat
    <3>1. after \in Nat /\ before \in Nat
      BY <1>1, <2>1, TimingTypes
    <3> QED
      BY <3>1
  <2>3. job' = [job EXCEPT ![n] = next]
    BY <2>1
  <2> QED
    BY <1>2, <2>1, <2>2, <2>3, BeginAttemptType
<1>4. CASE ~(job[n].attempt + 1 < job[n].attempts)
  BY <1>4, ReturnType DEF RetryOrGiveUp
<1> QED
  BY <1>3, <1>4

-----------------------------------------------------------------------------
(* Type correctness *)

LEMMA InitType == Init => TypeOK
<1> SUFFICES ASSUME Init PROVE TypeOK
  OBVIOUS
<1>1. Unset \in Addr /\ 0 \in 0 .. SeqMod - 1 /\ 0 \in Slots /\ QueueSize >= 0
  BY LinkAssumption DEF Slots
<1>2. ControlOK
  BY DEF Init, ControlOK
<1>3. LinkOK
  BY <1>1 DEF Init, LinkOK, EmptyTable
<1>4. InboxOK /\ HistoryOK
  BY DEF Init, InboxOK, HistoryOK
<1> QED
  BY <1>2, <1>3, <1>4 DEF TypeOK

LEMMA SendPacketType ==
    ASSUME TypeOK, NEW n \in Node, NEW r \in Requests[n], SendPacket(n, r)
    PROVE  TypeOK'
<1> USE DEF TypeOK
<1> DEFINE wantAck == r.requestAck /\ r.destId # Broadcast
           f == [ack |-> FALSE, dst |-> r.destId, src |-> r.srcId, seq |-> seqNum[n],
                 req |-> wantAck, len |-> r.len, msg |-> <<n, calls[n] + 1>>]
           j == [frame |-> f, attempt |-> 0,
                 attempts |-> IF wantAck /\ r.maxRetries > 1 THEN r.maxRetries ELSE 1]
<1>1. /\ r.srcId \in Addr /\ r.destId \in Addr /\ r.len \in Payload /\ r.maxRetries \in Nat
      /\ r.requestAck \in BOOLEAN
  BY LinkAssumption
<1>2. calls[n] \in Nat /\ seqNum[n] \in 0 .. SeqMod - 1
  BY DEF HistoryOK, LinkOK
<1>3. j \in SendCall /\ j.frame.len = r.len
  <2>1. <<n, calls[n] + 1>> \in Msg
    BY <1>2 DEF Msg
  <2>2. f \in DataFrame
    BY <1>1, <1>2, <2>1 DEF DataFrame
  <2> QED
    BY <1>1, <2>2 DEF SendCall
<1>4. ControlOK'
  <2>1. PICK delay \in PreSendDelays(SlotMs(r.len)) : BeginAttempt(n, r.len, delay)
    BY DEF SendPacket
  <2>2. delay \in Nat
    BY <1>1, <2>1, TimingTypes
  <2>3. job' = [job EXCEPT ![n] = j]
    BY DEF SendPacket
  <2> QED
    BY <1>3, <2>1, <2>2, <2>3, BeginAttemptType
<1>5. LinkOK'
  <2>1. NextSeq(seqNum[n]) \in 0 .. SeqMod - 1
    BY <1>2, LinkAssumption DEF NextSeq
  <2> QED
    BY <2>1 DEF SendPacket, LinkOK
<1>6. InboxOK' /\ HistoryOK'
  BY <1>2 DEF SendPacket, InboxOK, HistoryOK
<1> QED
  BY <1>4, <1>5, <1>6

LEMMA AppCallType ==
    ASSUME TypeOK, NEW n \in Node, AppCall(n)
    PROVE  TypeOK'
<1> USE DEF TypeOK
<1>1. ASSUME NEW id \in IdsOf[n], SetLocalId(n, id) PROVE TypeOK'
  <2>1. id \in Addr
    BY LinkAssumption
  <2> QED
    BY <1>1, <2>1 DEF SetLocalId, control, history, ControlOK, LinkOK, InboxOK, HistoryOK
<1>2. ASSUME NEW r \in Requests[n], SendPacket(n, r) PROVE TypeOK'
  BY <1>2, SendPacketType
<1>3. ASSUME NEW maxLen, ReceivePending(n, maxLen) PROVE TypeOK'
  <2>1. PICK i \in 1 .. Len(queue[n]) :
            /\ delivered' = [delivered EXCEPT ![n] = Append(@, queue[n][i].msg)]
            /\ queue' = [queue EXCEPT ![n] = SubSeq(@, i + 1, Len(@))]
    BY <1>3 DEF ReceivePending
  <2>2. queue[n] \in Seq(Pending) /\ Len(queue[n]) <= QueueSize
    BY DEF LinkOK
  <2>3. queue[n][i].msg \in Msg
    <3>1. queue[n][i] \in Pending
      BY <2>1, <2>2
    <3> QED
      BY <3>1 DEF Pending
  <2>4. /\ SubSeq(queue[n], i + 1, Len(queue[n])) \in Seq(Pending)
        /\ Len(SubSeq(queue[n], i + 1, Len(queue[n]))) <= QueueSize
    <3>1. i + 1 \in 1 .. Len(queue[n]) + 1 /\ Len(queue[n]) \in 0 .. Len(queue[n])
      BY <2>2
    <3> QED
      BY <2>2, <3>1, SubSeqProperties, LinkAssumption
  <2>5. LinkOK'
    BY <1>3, <2>1, <2>4 DEF ReceivePending, LinkOK
  <2>6. HistoryOK'
    BY <1>3, <2>1, <2>3 DEF ReceivePending, HistoryOK
  <2>7. ControlOK' /\ InboxOK'
    BY <1>3 DEF ReceivePending, control, ControlOK, InboxOK
  <2> QED
    BY <2>5, <2>6, <2>7
<1>4. ASSUME NEW r \in Reads[n], StartReceive(n, r.maxLen, r.timeout) PROVE TypeOK'
  <2>1. r.maxLen \in Nat /\ r.timeout \in Nat
    BY LinkAssumption
  <2>2. [maxLen |-> r.maxLen, poll |-> r.timeout = 0] \in ReadCall
    BY <2>1 DEF ReadCall
  <2>3. ControlOK'
    BY <1>4, <2>1, <2>2 DEF StartReceive, Blocked, ControlOK
  <2>4. LinkOK'
    <3>1. <<>> \in Seq(Pending) /\ Len(<<>>) <= QueueSize
      BY LinkAssumption
    <3> QED
      BY <1>4, <3>1 DEF StartReceive, LinkOK
  <2>5. InboxOK' /\ HistoryOK'
    BY <1>4 DEF StartReceive, history, InboxOK, HistoryOK
  <2> QED
    BY <2>3, <2>4, <2>5
<1> QED
  BY <1>1, <1>2, <1>3, <1>4 DEF AppCall

LEMMA LinkStepType ==
    ASSUME TypeOK, NEW n \in Node, LinkStep(n)
    PROVE  TypeOK'
<1> USE DEF TypeOK
<1> DEFINE f == inbox[n]
<1>1. pc[n] \in {"delay", "air", "await"} =>
        /\ job[n] \in SendCall /\ job[n].frame \in DataFrame
        /\ job[n].frame.len \in Payload /\ job[n].frame.msg \in Msg
  BY FrameFacts DEF ControlOK, SendCall
<1>2. f \in Frame \cup {NoFrame, Garbled}
  BY DEF InboxOK
<1>3. f # NoFrame /\ IsDataForUs(n, f) => f \in DataFrame
  BY <1>2, FrameFacts DEF IsDataForUs
<1>4. CASE StartTransmit(n)
  <2>1. AirTime[job[n].frame.len] \in Nat
    BY <1>1, <1>4, TimingTypes DEF StartTransmit
  <2>2. ControlOK'
    BY <1>1, <1>4, <2>1 DEF StartTransmit, Blocked, ControlOK
  <2> QED
    BY <1>4, <2>2 DEF StartTransmit, protocol, history, LinkOK, InboxOK, HistoryOK
<1>5. CASE FinishTransmit(n)
  <2>1. InboxOK'
    BY <1>1, <1>2, <1>5, OnAirType, FrameFacts DEF FinishTransmit
  <2>2. ControlOK'
    <3>1. EffectiveAckTimeout \in Nat
      BY <1>1, <1>5, TimingTypes DEF FinishTransmit
    <3>2. CASE job[n].frame.req
      BY <1>1, <1>5, <3>1, <3>2 DEF FinishTransmit, Blocked, ControlOK
    <3>3. CASE ~job[n].frame.req
      BY <1>5, <3>3, ReturnType DEF FinishTransmit
    <3> QED
      BY <3>2, <3>3
  <2> QED
    BY <1>5, <2>1, <2>2 DEF FinishTransmit, protocol, history, LinkOK, HistoryOK
<1>6. CASE FailTransmit(n)
  <2>1. ControlOK'
    BY <1>1, <1>6, ReturnType, RetryOrGiveUpType DEF FailTransmit
  <2> QED
    BY <1>6, <2>1 DEF FailTransmit, protocol, history, LinkOK, InboxOK, HistoryOK
<1>7. CASE HearAck(n)
  <2>1. ControlOK' /\ InboxOK'
    BY <1>7, ReturnType, ReadFrameType DEF HearAck
  <2>2. HistoryOK'
    BY <1>1, <1>7 DEF HearAck, IsAwaitedAck, HistoryOK
  <2> QED
    BY <1>7, <2>1, <2>2 DEF HearAck, protocol, LinkOK
<1>8. CASE AckTimeout(n)
  <2>1. ControlOK'
    BY <1>1, <1>8, RetryOrGiveUpType DEF AckTimeout
  <2> QED
    BY <1>8, <2>1 DEF AckTimeout, protocol, history, LinkOK, InboxOK, HistoryOK
<1>9. CASE HearOtherWhileBusy(n)
  BY <1>9, ReadFrameType
  DEF HearOtherWhileBusy, protocol, control, history, ControlOK, LinkOK, HistoryOK
<1>10. CASE HearDataWhileBusy(n)
  <2>1. f \in DataFrame /\ UNCHANGED <<localId, seqNum, control, calls, delivered, acked>>
    BY <1>3, <1>10 DEF HearDataWhileBusy
  <2>2. ControlOK'
    BY <2>1 DEF control, ControlOK
  <2>3. CASE ReadFrame(n) /\ UNCHANGED <<queue, seen, seenNext, accepted>>
    BY <2>1, <2>2, <2>3, ReadFrameType DEF LinkOK, HistoryOK
  <2>4. ASSUME Suppress(n, f) \/ TakeIn(n, f, f.len),
               queue' \in [Node -> Seq(Pending)],
               \A o \in Node : Len(queue'[o]) <= QueueSize
        PROVE  TypeOK'
    <3>1. TableOK' /\ InboxOK' /\ accepted' \in [Node -> Seq(Msg)]
      BY <2>1, <2>4, AcceptDataType
    <3>2. LinkOK'
      BY <2>1, <2>4, <3>1 DEF LinkOK, TableOK, Table
    <3>3. HistoryOK'
      BY <2>1, <3>1 DEF HistoryOK
    <3> QED
      BY <2>2, <3>1, <3>2, <3>3
  <2>5. CASE Suppress(n, f) /\ UNCHANGED queue
    BY <2>4, <2>5 DEF LinkOK
  <2>6. CASE /\ HasRoom(n) /\ TakeIn(n, f, f.len)
             /\ queue' = IF f.len > 0
                         THEN [queue EXCEPT ![n] = Append(@, [len |-> f.len, msg |-> f.msg])]
                         ELSE queue
    <3>1. queue[n] \in Seq(Pending) /\ Len(queue[n]) < QueueSize
      BY <2>6 DEF LinkOK, HasRoom
    <3>2. [len |-> f.len, msg |-> f.msg] \in Pending
      BY <2>1, FrameFacts DEF Pending
    <3>3. /\ Append(queue[n], [len |-> f.len, msg |-> f.msg]) \in Seq(Pending)
          /\ Len(Append(queue[n], [len |-> f.len, msg |-> f.msg])) <= QueueSize
      BY <3>1, <3>2, LinkAssumption
    <3>4. queue' \in [Node -> Seq(Pending)] /\ \A o \in Node : Len(queue'[o]) <= QueueSize
      BY <2>6, <3>3 DEF LinkOK
    <3> QED
      BY <2>4, <2>6, <3>4
  <2> QED
    BY <1>10, <2>3, <2>5, <2>6 DEF HearDataWhileBusy
<1>11. ASSUME KeepListening(n) PROVE ControlOK'
  BY <1>11, ReturnType DEF KeepListening, control, ControlOK
<1>12. CASE HearOtherInReceive(n)
  BY <1>11, <1>12, ReadFrameType DEF HearOtherInReceive, protocol, history, LinkOK, HistoryOK
<1>13. CASE HearDataInReceive(n)
  <2>1. f \in DataFrame /\ UNCHANGED <<localId, seqNum, queue, calls, acked>>
    BY <1>3, <1>13 DEF HearDataInReceive
  <2>2. TableOK' /\ InboxOK' /\ accepted' \in [Node -> Seq(Msg)]
    BY <1>13, <2>1, AcceptDataType DEF HearDataInReceive
  <2>3. ControlOK'
    BY <1>11, <1>13, ReturnType DEF HearDataInReceive
  <2>4. delivered' \in [Node -> Seq(Msg)]
    <3>1. f.msg \in Msg /\ delivered \in [Node -> Seq(Msg)]
      BY <2>1, FrameFacts DEF HistoryOK
    <3>2. \/ UNCHANGED delivered
          \/ delivered' = [delivered EXCEPT ![n] = Append(delivered[n], f.msg)]
      BY <1>13 DEF HearDataInReceive
    <3>3. Append(delivered[n], f.msg) \in Seq(Msg)
      BY <3>1
    <3> QED
      BY <3>1, <3>2, <3>3
  <2>5. LinkOK' /\ HistoryOK'
    BY <2>1, <2>2, <2>4 DEF LinkOK, HistoryOK, TableOK, Table
  <2> QED
    BY <2>2, <2>3, <2>5
<1>14. CASE ReceiveTimeout(n)
  BY <1>14, ReturnType DEF ReceiveTimeout, protocol, history, LinkOK, InboxOK, HistoryOK
<1> QED
  BY <1>4, <1>5, <1>6, <1>7, <1>8, <1>9, <1>10, <1>12, <1>13, <1>14 DEF LinkStep

LEMMA TickType ==
    ASSUME TypeOK, Tick
    PROVE  TypeOK'
<1> USE DEF TypeOK
<1>1. ControlOK'
  <2>1. \A n \in Node : (IF pc[n] = "idle" THEN 0 ELSE timer[n] - 1) \in Nat
    BY DEF Tick, ControlOK
  <2> QED
    BY <2>1 DEF Tick, ControlOK
<1>2. LinkOK'
  <2>1. \A n \in Node : Aged(seen[n], OldestAge) \in Table
    BY AgedType DEF LinkOK, Table
  <2> QED
    BY <2>1 DEF Tick, LinkOK, Table
<1> QED
  BY <1>1, <1>2 DEF Tick, history, InboxOK, HistoryOK

LEMMA StutterType ==
    ASSUME TypeOK, UNCHANGED vars
    PROVE  TypeOK'
BY DEF TypeOK, vars, protocol, control, history, ControlOK, LinkOK, InboxOK, HistoryOK

(* Every variable keeps its type in every behaviour: the queue never       *)
(* overflows its slots, delays and timers are never negative, and a        *)
(* blocked call finds the data of its own kind.                            *)
THEOREM TypeCorrect == Spec => []TypeOK
<1>1. TypeOK /\ [Next]_vars => TypeOK'
  BY AppCallType, LinkStepType, TickType, StutterType DEF Next
<1> QED
  BY <1>1, InitType, PTL DEF Spec

-----------------------------------------------------------------------------
(* Identity *)

(* No two nodes give themselves one address. *)
DistinctIds == \A n, o \in Node : n # o => IdsOf[n] \cap IdsOf[o] = {}

(* No node makes more calls than there are sequence numbers. *)
NoWrap == \A n \in Node : MaxCalls[n] <= SeqMod

SeqOf(m) == (m[2] - 1) % SeqMod

SameName(x, m) == x[1] = m[1] /\ SeqOf(x) = SeqOf(m)

(* Some node whose accepted messages are acc[n] has a message of m's name. *)
TakenIn(m, acc) == \E n \in Node : \E x \in Elements(acc[n]) : SameName(x, m)

(* Frame f stands for its message, when the nodes have made c calls. *)
Genuine(f, c, acc) ==
    /\ f.msg[2] <= c[f.msg[1]]
    /\ f.seq = SeqOf(f.msg)
    /\ ~f.ack => f.src \in IdsOf[f.msg[1]]
    /\ f.ack => f.dst \in IdsOf[f.msg[1]] /\ TakenIn(f.msg, acc)

(* A table entry stands for one of the messages s taken in by its node. *)
Stands(e, s) == \E x \in Elements(s) : e.key.src \in IdsOf[x[1]] /\ e.key.seq = SeqOf(x)

CallsCounted == \A n \in Node : calls[n] <= MaxCalls[n] /\ seqNum[n] = calls[n] % SeqMod

InboxGenuine == \A n \in Node : inbox[n] \in Frame => Genuine(inbox[n], calls, accepted)

JobsGenuine ==
    \A n \in Node : pc[n] \in {"delay", "air", "await"} =>
        job[n].frame.msg[1] = n /\ Genuine(job[n].frame, calls, accepted)

TableGenuine ==
    \A n \in Node : \A i \in Slots : seen[n][i] # Free => Stands(seen[n][i], accepted[n])

AcceptedCalled == \A n \in Node : \A x \in Elements(accepted[n]) : x[2] <= calls[x[1]]

AckedTakenIn == \A m \in acked : m[2] <= calls[m[1]] /\ TakenIn(m, accepted)

(* Every frame a radio holds, every frame being sent, every remembered     *)
(* frame and every acknowledged message stands for the call of             *)
(* sendPacket() it names; what is acknowledged or remembered was taken in. *)
IdentityInv ==
    CallsCounted /\ InboxGenuine /\ JobsGenuine /\ TableGenuine /\ AcceptedCalled /\ AckedTakenIn

-----------------------------------------------------------------------------
(* Sequence numbers *)

LEMMA ProductGrows ==
    ASSUME NEW m \in Nat \ {0}, NEW d \in Nat \ {0}
    PROVE  m * d >= m
<1>1. \A j, l \in Nat : j * l >= 0
  BY SMT
<1>2. m * (d - 1) >= 0
  BY <1>1
<1>3. m * d = m * (d - 1) + m
  BY SMT
<1> QED
  BY <1>2, <1>3

LEMMA UniqueRemainder ==
    ASSUME NEW m \in Nat \ {0}, NEW p \in Int, NEW q \in Int,
           NEW r \in 0 .. m - 1, NEW s \in 0 .. m - 1, m * p + r = m * q + s
    PROVE  p = q /\ r = s
<1>1. m * (p - q) = s - r
  BY SMT
<1>2. ASSUME p > q PROVE FALSE
  <2>1. m * (p - q) >= m
    BY <1>2, ProductGrows
  <2> QED
    BY <2>1, <1>1
<1>3. ASSUME q > p PROVE FALSE
  <2>1. m * (q - p) >= m
    BY <1>3, ProductGrows
  <2>2. m * (q - p) = r - s
    BY <1>1
  <2> QED
    BY <2>1, <2>2
<1>4. CASE p = q
  BY <1>4
<1> QED
  BY <1>2, <1>3, <1>4

LEMMA DivisionFacts ==
    ASSUME NEW m \in Nat \ {0}, NEW k \in Nat
    PROVE  k \div m \in Int /\ k % m \in 0 .. m - 1 /\ k = m * (k \div m) + (k % m)
BY SMT

(* A uint8_t counter that is incremented counts modulo its width. *)
LEMMA NextSeqCounts ==
    ASSUME NEW k \in Nat
    PROVE  NextSeq(k % SeqMod) = (k + 1) % SeqMod
<1> DEFINE q == k \div SeqMod            r == k % SeqMod
           p == (k + 1) \div SeqMod      s == (k + 1) % SeqMod
<1>1. SeqMod \in Nat \ {0}
  BY LinkAssumption
<1>2. q \in Int /\ r \in 0 .. SeqMod - 1 /\ k = SeqMod * q + r
  BY <1>1, DivisionFacts
<1>3. p \in Int /\ s \in 0 .. SeqMod - 1 /\ k + 1 = SeqMod * p + s
  BY <1>1, DivisionFacts
<1> HIDE DEF q, r, p, s
<1>4. CASE r + 1 = SeqMod
  <2>1. SeqMod * (q + 1) + 0 = SeqMod * p + s
    BY <1>1, <1>2, <1>3, <1>4
  <2>2. 0 \in 0 .. SeqMod - 1 /\ q + 1 \in Int
    BY <1>1, <1>2
  <2>3. 0 = s
    BY <1>1, <1>3, <2>1, <2>2, UniqueRemainder
  <2> QED
    BY <1>4, <2>3 DEF NextSeq, r, s
<1>5. CASE r + 1 # SeqMod
  <2>1. SeqMod * q + (r + 1) = SeqMod * p + s
    BY <1>1, <1>2, <1>3
  <2>2. r + 1 \in 0 .. SeqMod - 1
    BY <1>1, <1>2, <1>5
  <2>3. r + 1 = s
    BY <1>1, <1>2, <1>3, <2>1, <2>2, UniqueRemainder
  <2> QED
    BY <1>5, <2>3 DEF NextSeq, r, s
<1> QED
  BY <1>4, <1>5

(* Without a wrap the sequence number is the number of the call. *)
LEMMA SeqOfIsExact ==
    ASSUME NEW x \in Msg, NEW m \in Msg, x[2] <= SeqMod, m[2] <= SeqMod, SameName(x, m)
    PROVE  x = m
<1>1. SeqMod \in Nat \ {0} /\ x[2] - 1 \in 0 .. SeqMod - 1 /\ m[2] - 1 \in 0 .. SeqMod - 1
  BY LinkAssumption DEF Msg
<1>2. \A k \in 0 .. SeqMod - 1 : k % SeqMod = k
  <2> TAKE k \in 0 .. SeqMod - 1
  <2> DEFINE q == k \div SeqMod  r == k % SeqMod
  <2>1. k \in Nat
    BY <1>1
  <2>2. q \in Int /\ r \in 0 .. SeqMod - 1 /\ k = SeqMod * q + r
    BY <1>1, <2>1, DivisionFacts
  <2> HIDE DEF q, r
  <2>3. SeqMod * q + r = SeqMod * 0 + k
    BY <1>1, <2>1, <2>2
  <2>4. r = k
    BY <1>1, <2>2, <2>3, UniqueRemainder
  <2> QED
    BY <2>4 DEF r
<1>3. x[1] = m[1] /\ x[2] - 1 = m[2] - 1
  BY <1>1, <1>2 DEF SameName, SeqOf
<1>4. x[2] = m[2]
  BY <1>3 DEF Msg
<1> QED
  BY <1>3, <1>4 DEF Msg

-----------------------------------------------------------------------------
(* What a step may do to the messages taken in *)

LEMMA ElementsAppend ==
    ASSUME NEW S, NEW s \in Seq(S), NEW x \in S
    PROVE  Elements(Append(s, x)) = Elements(s) \cup {x}
<1>1. /\ Len(Append(s, x)) = Len(s) + 1
      /\ \A i \in 1 .. Len(s) : Append(s, x)[i] = s[i]
      /\ Append(s, x)[Len(s) + 1] = x
      /\ Len(s) \in Nat
  OBVIOUS
<1>2. 1 .. Len(s) + 1 = 1 .. Len(s) \cup {Len(s) + 1}
  BY <1>1
<1> QED
  BY <1>1, <1>2 DEF Elements

LEMMA ElementsType ==
    ASSUME NEW S, NEW s \in Seq(S)
    PROVE  Elements(s) \subseteq S
BY DEF Elements

(* More calls and more accepted messages take nothing away. *)
Grown(c, cc, acc, aacc) ==
    /\ \A n \in Node : c[n] <= cc[n]
    /\ \A n \in Node : Elements(acc[n]) \subseteq Elements(aacc[n])

LEMMA GenuineGrows ==
    ASSUME NEW c \in [Node -> Nat], NEW cc \in [Node -> Nat], NEW acc, NEW aacc,
           Grown(c, cc, acc, aacc), NEW f \in Frame, Genuine(f, c, acc)
    PROVE  Genuine(f, cc, aacc)
<1>1. f.msg[1] \in Node /\ f.msg[2] \in Nat
  BY DEF Frame, DataFrame, AckFrame, Msg
<1>2. f.msg[2] <= cc[f.msg[1]]
  BY <1>1 DEF Genuine, Grown
<1>3. TakenIn(f.msg, acc) => TakenIn(f.msg, aacc)
  BY DEF TakenIn, Grown
<1> QED
  BY <1>2, <1>3 DEF Genuine

LEMMA StandsGrows ==
    ASSUME NEW s, NEW t, Elements(s) \subseteq Elements(t), NEW e, Stands(e, s)
    PROVE  Stands(e, t)
BY DEF Stands

-----------------------------------------------------------------------------
(* The duplicate table *)

LEMMA ScannedKeys ==
    ASSUME NEW table \in Table, NEW key, NEW window, NEW i \in Slots,
           Scanned(table, key, window)[i] # Free
    PROVE  table[i] # Free /\ Scanned(table, key, window)[i].key = table[i].key
<1>1. table[i] \in SeenEntry \cup {Free}
  BY DEF Table
<1>2. Scanned(table, key, window)[i] \in {Free, table[i], [table[i] EXCEPT !.age = 0]}
  BY DEF Scanned
<1>3. CASE Scanned(table, key, window)[i] = table[i]
  BY <1>3
<1>4. CASE Scanned(table, key, window)[i] = [table[i] EXCEPT !.age = 0]
           /\ Scanned(table, key, window)[i] # table[i]
  <2>1. Matches(table, i, key, window)
    BY <1>4 DEF Scanned
  <2>2. table[i] # Free
    BY <2>1 DEF Matches, Live
  <2> QED
    BY <1>1, <1>4, <2>2, EntryTypes
<1> QED
  BY <1>2, <1>3, <1>4

(* A match of isDuplicate() shows that a message of the same name is there. *)
LEMMA MatchMeansTakenIn ==
    ASSUME TypeOK, TableGenuine, DistinctIds, NEW n \in Node, NEW f \in DataFrame,
           Genuine(f, calls, accepted), DuplicateOf(n, f)
    PROVE  \E x \in Elements(accepted[n]) : x \in Msg /\ SameName(x, f.msg)
<1>1. PICK i \in Slots : seen[n][i] # Free /\ seen[n][i].key = Key(f)
  BY DEF DuplicateOf, IsDuplicate, Matches, Live
<1>2. PICK x \in Elements(accepted[n]) :
          seen[n][i].key.src \in IdsOf[x[1]] /\ seen[n][i].key.seq = SeqOf(x)
  BY <1>1 DEF TableGenuine, Stands
<1>3. x \in Msg
  BY <1>2, ElementsType DEF TypeOK, HistoryOK
<1>4. f.src \in IdsOf[x[1]] /\ f.seq = SeqOf(x)
  BY <1>1, <1>2 DEF Key
<1>5. f.src \in IdsOf[f.msg[1]] /\ f.seq = SeqOf(f.msg) /\ f.msg[1] \in Node /\ x[1] \in Node
  BY <1>3, FrameFacts DEF Genuine, Msg
<1>6. x[1] = f.msg[1]
  BY <1>4, <1>5 DEF DistinctIds
<1> QED
  BY <1>2, <1>3, <1>4, <1>5, <1>6 DEF SameName

LEMMA SweptStands ==
    ASSUME TypeOK, TableGenuine, NEW n \in Node, NEW f \in DataFrame, NEW i \in Slots,
           SweptTable(n, f)[i] # Free
    PROVE  Stands(SweptTable(n, f)[i], accepted[n])
<1>1. seen[n] \in Table
  BY DEF TypeOK, LinkOK, Table
<1>2. seen[n][i] # Free /\ SweptTable(n, f)[i].key = seen[n][i].key
  BY <1>1, ScannedKeys DEF SweptTable
<1> QED
  BY <1>2 DEF TableGenuine, Stands

-----------------------------------------------------------------------------
(* What a node hears and what it makes of it *)

LEMMA OnAirGenuine ==
    ASSUME TypeOK, InboxGenuine, NEW n \in Node, NEW f \in Frame,
           NEW kept \in {inbox[n], NoFrame}, OnAir(n, f, kept),
           calls' \in [Node -> Nat], Grown(calls, calls', accepted, accepted'),
           Genuine(f, calls', accepted')
    PROVE  InboxGenuine'
<1> SUFFICES ASSUME NEW o \in Node, inbox'[o] \in Frame
             PROVE  Genuine(inbox'[o], calls', accepted')
  BY DEF InboxGenuine
<1>1. inbox'[o] \in {f, inbox[o]}
  <2>1. inbox'[o] \in {f, Garbled, NoFrame, inbox[o]}
    BY DEF OnAir
  <2> QED
    BY <2>1, FrameFacts
<1>2. CASE inbox'[o] = inbox[o]
  <2>1. Genuine(inbox[o], calls, accepted) /\ inbox[o] \in Frame
    BY <1>2 DEF InboxGenuine
  <2>2. Genuine(inbox[o], calls', accepted')
    BY <2>1, GenuineGrows DEF TypeOK, HistoryOK
  <2> QED
    BY <1>2, <2>2
<1> QED
  BY <1>1, <1>2

LEMMA ReadFrameGenuine ==
    ASSUME TypeOK, InboxGenuine, NEW n \in Node, ReadFrame(n),
           calls' \in [Node -> Nat], Grown(calls, calls', accepted, accepted')
    PROVE  InboxGenuine'
<1> SUFFICES ASSUME NEW o \in Node, inbox'[o] \in Frame
             PROVE  Genuine(inbox'[o], calls', accepted')
  BY DEF InboxGenuine
<1>1. inbox'[o] = inbox[o]
  BY FrameFacts DEF ReadFrame, TypeOK, InboxOK
<1>2. Genuine(inbox[o], calls, accepted) /\ inbox[o] \in Frame
  BY <1>1 DEF InboxGenuine
<1>3. Genuine(inbox[o], calls', accepted')
  BY <1>2, GenuineGrows DEF TypeOK, HistoryOK
<1> QED
  BY <1>1, <1>3

LEMMA SendAckGenuine ==
    ASSUME TypeOK, InboxGenuine, NEW n \in Node, NEW f \in DataFrame, SendAck(n, f),
           UNCHANGED calls, Grown(calls, calls, accepted, accepted'),
           Genuine(f, calls, accepted), TakenIn(f.msg, accepted')
    PROVE  InboxGenuine'
<1> DEFINE ack == AckFor(f, localId[n])
<1>1. ack \in Frame
  BY AckForType DEF TypeOK, LinkOK
<1>2. ~f.ack
  BY FrameFacts
<1>3. Genuine(ack, calls, accepted')
  BY <1>2 DEF AckFor, Genuine
<1>4. calls' \in [Node -> Nat] /\ calls' = calls
  BY DEF TypeOK, HistoryOK
<1>5. OnAir(n, ack, NoFrame)
  BY DEF SendAck
<1> HIDE DEF ack
<1> QED
  BY <1>1, <1>3, <1>4, <1>5, OnAirGenuine

(* acceptData(), in each of its outcomes. *)
LEMMA AcceptDataGenuine ==
    ASSUME TypeOK, IdentityInv, DistinctIds, NEW n \in Node, NEW f \in DataFrame, NEW room,
           Genuine(f, calls, accepted), UNCHANGED calls,
           Suppress(n, f) \/ Refuse(n, f, room) \/ TakeIn(n, f, room)
    PROVE  /\ Grown(calls, calls, accepted, accepted')
           /\ InboxGenuine' /\ TableGenuine' /\ AcceptedCalled'
<1> USE DEF IdentityInv
<1>1. /\ seen \in [Node -> Table] /\ accepted \in [Node -> Seq(Msg)] /\ calls \in [Node -> Nat]
      /\ f.msg \in Msg
  BY FrameFacts DEF TypeOK, LinkOK, HistoryOK, Table
<1>2. Grown(calls, calls, accepted, accepted)
  BY <1>1 DEF Grown
<1>3. ASSUME accepted' = accepted, seen' = [seen EXCEPT ![n] = SweptTable(n, f)]
      PROVE  TableGenuine' /\ AcceptedCalled'
  <2>1. \A o \in Node : \A i \in Slots : seen'[o][i] # Free => Stands(seen'[o][i], accepted[o])
    <3> TAKE o \in Node
    <3> TAKE i \in Slots
    <3>1. CASE o = n
      BY <1>1, <1>3, <3>1, SweptStands
    <3>2. CASE o # n
      BY <1>1, <1>3, <3>2 DEF TableGenuine
    <3> QED
      BY <3>1, <3>2
  <2> QED
    BY <1>3, <2>1 DEF TableGenuine, AcceptedCalled
<1>4. CASE Suppress(n, f)
  <2>1. accepted' = accepted /\ seen' = [seen EXCEPT ![n] = SweptTable(n, f)]
    BY <1>4 DEF Suppress
  <2>2. TakenIn(f.msg, accepted)
    BY <1>4, MatchMeansTakenIn DEF Suppress, TakenIn
  <2>3. InboxGenuine'
    BY <1>2, <1>4, <2>1, <2>2, SendAckGenuine DEF Suppress
  <2> QED
    BY <1>2, <1>3, <2>1, <2>3
<1>5. CASE Refuse(n, f, room)
  <2>1. accepted' = accepted /\ seen' = [seen EXCEPT ![n] = SweptTable(n, f)]
    BY <1>5 DEF Refuse
  <2>2. InboxGenuine'
    BY <1>1, <1>2, <1>5, <2>1, ReadFrameGenuine DEF Refuse
  <2> QED
    BY <1>2, <1>3, <2>1, <2>2
<1>6. CASE TakeIn(n, f, room)
  <2>1. accepted' = [accepted EXCEPT ![n] = Append(accepted[n], f.msg)]
    BY <1>6 DEF TakeIn
  <2>2. /\ Elements(accepted'[n]) = Elements(accepted[n]) \cup {f.msg}
        /\ \A o \in Node \ {n} : accepted'[o] = accepted[o]
    BY <1>1, <2>1, ElementsAppend
  <2>3. Grown(calls, calls, accepted, accepted')
    BY <1>1, <2>2 DEF Grown
  <2>4. AcceptedCalled'
    BY <2>2 DEF AcceptedCalled, Genuine
  <2>5. TakenIn(f.msg, accepted')
    BY <2>2 DEF TakenIn, SameName
  <2>6. InboxGenuine'
    BY <1>1, <1>6, <2>3, <2>5, SendAckGenuine, ReadFrameGenuine DEF TakeIn
  <2>7. ASSUME NEW o \in Node, NEW i \in Slots, seen'[o][i] # Free
        PROVE  Stands(seen'[o][i], accepted'[o])
    <3>1. CASE seen'[o] = seen[o]
      <4>1. Stands(seen[o][i], accepted[o])
        BY <2>7, <3>1 DEF TableGenuine
      <4>2. Elements(accepted[o]) \subseteq Elements(accepted'[o])
        BY <2>3 DEF Grown
      <4> QED
        BY <3>1, <4>1, <4>2, StandsGrows
    <3>2. CASE seen'[o] # seen[o]
      <4>1. o = n /\ seen'[n] = Remembered(SweptTable(n, f), seenNext[n], Key(f))
        BY <1>1, <1>6, <3>2 DEF TakeIn
      <4>2. CASE seen'[n][i] = SweptTable(n, f)[i]
        <5>1. Stands(SweptTable(n, f)[i], accepted[n])
          BY <2>7, <4>1, <4>2, SweptStands
        <5> QED
          BY <2>2, <4>1, <4>2, <5>1, StandsGrows
      <4>3. CASE seen'[n][i] # SweptTable(n, f)[i]
        <5>1. seen'[n][i].key = Key(f)
          BY <4>1, <4>3 DEF Remembered
        <5>2. Key(f).src \in IdsOf[f.msg[1]] /\ Key(f).seq = SeqOf(f.msg)
          BY FrameFacts DEF Key, Genuine
        <5> QED
          BY <2>2, <4>1, <5>1, <5>2 DEF Stands
      <4> QED
        BY <4>2, <4>3
    <3> QED
      BY <3>1, <3>2
  <2>8. TableGenuine'
    BY <2>7 DEF TableGenuine
  <2> QED
    BY <2>3, <2>4, <2>6, <2>8
<1> QED
  BY <1>4, <1>5, <1>6

-----------------------------------------------------------------------------
(* Steps *)

LEMMA InitIdentity == Init => IdentityInv
<1> SUFFICES ASSUME Init PROVE IdentityInv
  OBVIOUS
<1>1. 0 % SeqMod = 0
  BY LinkAssumption
<1>2. CallsCounted
  BY <1>1, LinkAssumption DEF Init, CallsCounted
<1>3. Elements(<<>>) = {}
  BY DEF Elements
<1>4. InboxGenuine /\ JobsGenuine
  BY FrameFacts DEF Init, InboxGenuine, JobsGenuine
<1>5. TableGenuine /\ AcceptedCalled /\ AckedTakenIn
  BY <1>3 DEF Init, TableGenuine, EmptyTable, AcceptedCalled, AckedTakenIn
<1> QED
  BY <1>2, <1>4, <1>5 DEF IdentityInv

(* The calls in progress keep their message while a node changes its      *)
(* control point and counts its attempts.                                 *)
SameCalls ==
    \A n \in Node : pc'[n] \in {"delay", "air", "await"} =>
        pc[n] \in {"delay", "air", "await"} /\ job'[n].frame = job[n].frame

LEMMA JobsKept ==
    ASSUME TypeOK, JobsGenuine, SameCalls,
           calls' \in [Node -> Nat], Grown(calls, calls', accepted, accepted')
    PROVE  JobsGenuine'
<1> SUFFICES ASSUME NEW n \in Node, pc'[n] \in {"delay", "air", "await"}
             PROVE  job'[n].frame.msg[1] = n /\ Genuine(job'[n].frame, calls', accepted')
  BY DEF JobsGenuine
<1>1. job'[n].frame = job[n].frame /\ job[n].frame \in Frame
  BY FrameFacts DEF SameCalls, TypeOK, ControlOK, SendCall
<1>2. job[n].frame.msg[1] = n /\ Genuine(job[n].frame, calls, accepted)
  BY DEF SameCalls, JobsGenuine
<1>3. Genuine(job[n].frame, calls', accepted')
  BY <1>1, <1>2, GenuineGrows DEF TypeOK, HistoryOK
<1> QED
  BY <1>1, <1>2, <1>3

LEMMA AckedKept ==
    ASSUME TypeOK, AckedTakenIn, UNCHANGED acked,
           calls' \in [Node -> Nat], Grown(calls, calls', accepted, accepted')
    PROVE  AckedTakenIn'
<1> SUFFICES ASSUME NEW m \in acked PROVE m[2] <= calls'[m[1]] /\ TakenIn(m, accepted')
  BY DEF AckedTakenIn
<1>1. m[1] \in Node /\ m[2] \in Nat
  BY DEF TypeOK, HistoryOK, Msg
<1>2. m[2] <= calls[m[1]] /\ TakenIn(m, accepted)
  BY DEF AckedTakenIn
<1>3. m[2] <= calls'[m[1]]
  BY <1>1, <1>2 DEF Grown, TypeOK, HistoryOK
<1>4. TakenIn(m, accepted')
  BY <1>2 DEF TakenIn, Grown
<1> QED
  BY <1>3, <1>4

LEMMA BeginAttemptWhere ==
    ASSUME TypeOK, NEW n \in Node, NEW len, NEW delay, BeginAttempt(n, len, delay)
    PROVE  \A o \in Node \ {n} : pc'[o] = pc[o]
BY DEF BeginAttempt, Blocked, TypeOK, ControlOK

LEMMA ReturnSameCalls ==
    ASSUME TypeOK, NEW n \in Node, Return(n)
    PROVE  SameCalls
BY DEF Return, Blocked, SameCalls, TypeOK, ControlOK

LEMMA RetrySameCalls ==
    ASSUME TypeOK, NEW n \in Node, pc[n] \in {"air", "await"}, RetryOrGiveUp(n)
    PROVE  SameCalls
<1>1. CASE job[n].attempt + 1 < job[n].attempts
  <2>1. /\ job' = [job EXCEPT ![n].attempt = job[n].attempt + 1]
        /\ \A o \in Node \ {n} : pc'[o] = pc[o]
    BY <1>1, BeginAttemptWhere DEF RetryOrGiveUp
  <2>2. job[n] \in SendCall /\ job \in [Node -> SendCall \cup ReadCall \cup {NoJob}]
    BY DEF TypeOK, ControlOK
  <2>3. job'[n].frame = job[n].frame
    BY <2>1, <2>2 DEF SendCall
  <2> QED
    BY <2>1, <2>2, <2>3 DEF SameCalls
<1>2. CASE ~(job[n].attempt + 1 < job[n].attempts)
  BY <1>2, ReturnSameCalls DEF RetryOrGiveUp
<1> QED
  BY <1>1, <1>2

(* A step that takes nothing in and begins no call keeps the invariant,    *)
(* whatever it does to one buffer, as long as InboxGenuine holds after it. *)
LEMMA QuietStep ==
    ASSUME TypeOK, IdentityInv, SameCalls, InboxGenuine',
           UNCHANGED <<seqNum, calls, accepted, acked, seen>>
    PROVE  IdentityInv'
<1> USE DEF IdentityInv
<1>1. Grown(calls, calls', accepted, accepted') /\ calls' \in [Node -> Nat]
  BY DEF Grown, TypeOK, HistoryOK
<1>2. JobsGenuine' /\ AckedTakenIn'
  BY <1>1, JobsKept, AckedKept
<1> QED
  BY <1>2 DEF CallsCounted, TableGenuine, AcceptedCalled

LEMMA InboxKept ==
    ASSUME TypeOK, InboxGenuine, UNCHANGED <<calls, accepted>>,
           UNCHANGED inbox \/ \E n \in Node : ReadFrame(n)
    PROVE  InboxGenuine'
<1>1. Grown(calls, calls', accepted, accepted') /\ calls' \in [Node -> Nat]
  BY DEF Grown, TypeOK, HistoryOK
<1>2. CASE UNCHANGED inbox
  BY <1>2 DEF InboxGenuine
<1>3. CASE \E n \in Node : ReadFrame(n)
  BY <1>1, <1>3, ReadFrameGenuine
<1> QED
  BY <1>2, <1>3

LEMMA SendPacketIdentity ==
    ASSUME TypeOK, IdentityInv, NEW n \in Node, NEW r \in Requests[n], SendPacket(n, r)
    PROVE  IdentityInv'
<1> USE DEF IdentityInv
<1> DEFINE m == <<n, calls[n] + 1>>
           f == [ack |-> FALSE, dst |-> r.destId, src |-> r.srcId, seq |-> seqNum[n],
                 req |-> r.requestAck /\ r.destId # Broadcast, len |-> r.len, msg |-> m]
<1>1. /\ calls \in [Node -> Nat] /\ calls' = [calls EXCEPT ![n] = calls[n] + 1]
      /\ seqNum \in [Node -> 0 .. SeqMod - 1]
      /\ seqNum' = [seqNum EXCEPT ![n] = NextSeq(seqNum[n])]
      /\ calls[n] < MaxCalls[n] /\ UNCHANGED <<inbox, seen, accepted, acked>>
  BY DEF SendPacket, TypeOK, HistoryOK, LinkOK
<1>2. calls' \in [Node -> Nat] /\ Grown(calls, calls', accepted, accepted')
  BY <1>1 DEF Grown
<1>3. CallsCounted'
  <2>1. NextSeq(seqNum[n]) = (calls[n] + 1) % SeqMod
    BY <1>1, NextSeqCounts DEF CallsCounted
  <2>2. calls[n] + 1 <= MaxCalls[n]
    <3>1. calls[n] \in Nat /\ MaxCalls[n] \in Nat /\ calls[n] < MaxCalls[n]
      BY <1>1, LinkAssumption
    <3> QED
      BY <3>1
  <2> QED
    BY <1>1, <2>1, <2>2 DEF CallsCounted
<1>4. InboxGenuine'
  <2> SUFFICES ASSUME NEW o \in Node, inbox[o] \in Frame
               PROVE  Genuine(inbox[o], calls', accepted)
    BY <1>1 DEF InboxGenuine
  <2> QED
    BY <1>1, <1>2, GenuineGrows DEF InboxGenuine
<1>5. JobsGenuine'
  <2>1. job'[n].frame = f /\ \A o \in Node \ {n} : job'[o] = job[o] /\ pc'[o] = pc[o]
    BY BeginAttemptWhere DEF SendPacket, TypeOK, ControlOK
  <2>2. f.msg = m /\ m[1] = n /\ m[2] = calls[n] + 1 /\ f.seq = seqNum[n] /\ ~f.ack /\ f.src = r.srcId
    OBVIOUS
  <2>3. r.srcId \in IdsOf[n]
    BY LinkAssumption
  <2>4. SeqOf(m) = seqNum[n]
    BY <1>1 DEF SeqOf, CallsCounted
  <2>5. Genuine(f, calls', accepted')
    BY <1>1, <2>2, <2>3, <2>4 DEF Genuine
  <2>6. ASSUME NEW o \in Node \ {n}, pc[o] \in {"delay", "air", "await"}
        PROVE  job[o].frame.msg[1] = o /\ Genuine(job[o].frame, calls', accepted')
    <3>1. job[o].frame \in Frame /\ job[o].frame.msg[1] = o
          /\ Genuine(job[o].frame, calls, accepted)
      BY <2>6, FrameFacts DEF TypeOK, ControlOK, SendCall, JobsGenuine
    <3>2. calls \in [Node -> Nat]
      BY <1>1
    <3>3. Genuine(job[o].frame, calls', accepted')
      BY <1>2, <3>1, <3>2, GenuineGrows
    <3> QED
      BY <3>1, <3>3
  <2> HIDE DEF f, m
  <2> QED
    BY <2>1, <2>2, <2>5, <2>6 DEF JobsGenuine
<1>6. TableGenuine' /\ AckedTakenIn'
  BY <1>1, <1>2, AckedKept DEF TableGenuine
<1>7. AcceptedCalled'
  <2> SUFFICES ASSUME NEW o \in Node, NEW x \in Elements(accepted[o])
               PROVE  x[2] <= calls'[x[1]]
    BY <1>1 DEF AcceptedCalled
  <2>1. x \in Msg
    BY ElementsType DEF TypeOK, HistoryOK
  <2>2. x[1] \in Node /\ x[2] \in Nat /\ x[2] <= calls[x[1]]
    BY <2>1 DEF Msg, AcceptedCalled
  <2> QED
    BY <1>1, <2>2
<1> QED
  BY <1>3, <1>4, <1>5, <1>6, <1>7

LEMMA AppCallIdentity ==
    ASSUME TypeOK, IdentityInv, NEW n \in Node, AppCall(n)
    PROVE  IdentityInv'
<1> USE DEF IdentityInv
<1>1. ASSUME NEW id, SetLocalId(n, id) PROVE IdentityInv'
  <2>1. UNCHANGED <<seqNum, calls, accepted, acked, seen, inbox, pc, job>>
    BY <1>1 DEF SetLocalId, control, history
  <2> QED
    BY <2>1, InboxKept, QuietStep DEF SameCalls
<1>2. ASSUME NEW maxLen, ReceivePending(n, maxLen) PROVE IdentityInv'
  <2>1. UNCHANGED <<seqNum, calls, accepted, acked, seen, inbox, pc, job>>
    BY <1>2 DEF ReceivePending, control
  <2> QED
    BY <2>1, InboxKept, QuietStep DEF SameCalls
<1>3. ASSUME NEW maxLen, NEW timeout, StartReceive(n, maxLen, timeout) PROVE IdentityInv'
  <2>1. UNCHANGED <<seqNum, calls, accepted, acked, seen, inbox>>
    BY <1>3 DEF StartReceive, history
  <2>2. SameCalls
    BY <1>3 DEF StartReceive, Blocked, SameCalls, TypeOK, ControlOK
  <2> QED
    BY <2>1, <2>2, InboxKept, QuietStep
<1> QED
  BY <1>1, <1>2, <1>3, SendPacketIdentity DEF AppCall

LEMMA HearDataIdentity ==
    ASSUME TypeOK, IdentityInv, DistinctIds, NEW n \in Node, NEW room,
           inbox[n] # NoFrame, IsDataForUs(n, inbox[n]),
           Suppress(n, inbox[n]) \/ Refuse(n, inbox[n], room) \/ TakeIn(n, inbox[n], room),
           SameCalls, UNCHANGED <<seqNum, calls, acked>>
    PROVE  IdentityInv'
<1> USE DEF IdentityInv
<1>1. inbox[n] \in DataFrame /\ Genuine(inbox[n], calls, accepted)
  BY FrameFacts DEF IsDataForUs, TypeOK, InboxOK, InboxGenuine
<1>2. /\ Grown(calls, calls, accepted, accepted')
      /\ InboxGenuine' /\ TableGenuine' /\ AcceptedCalled'
  BY <1>1, AcceptDataGenuine
<1>3. calls' \in [Node -> Nat] /\ calls' = calls
  BY DEF TypeOK, HistoryOK
<1>4. JobsGenuine' /\ AckedTakenIn'
  BY <1>2, <1>3, JobsKept, AckedKept
<1>5. CallsCounted'
  BY DEF CallsCounted
<1> QED
  BY <1>2, <1>4, <1>5

(* The ACK a call accepts stands for a message of the name of its own. *)
LEMMA HearAckIdentity ==
    ASSUME TypeOK, IdentityInv, DistinctIds, NEW n \in Node, HearAck(n)
    PROVE  IdentityInv'
<1> USE DEF IdentityInv
<1> DEFINE f == inbox[n]
           own == job[n].frame
<1>1. /\ pc[n] = "await" /\ f \in Frame /\ f.ack /\ f.dst = own.src /\ f.seq = own.seq
      /\ UNCHANGED <<seqNum, calls, accepted, seen>> /\ acked' = acked \cup {own.msg}
  BY DEF HearAck, IsAwaitedAck, TypeOK, InboxOK, protocol
<1>2. own \in DataFrame /\ own \in Frame /\ ~own.ack /\ own.msg \in Msg
  BY <1>1, FrameFacts DEF TypeOK, ControlOK, SendCall
<1>3. own.msg[1] = n /\ own.msg[2] <= calls[n] /\ own.seq = SeqOf(own.msg) /\ own.src \in IdsOf[n]
  BY <1>1, <1>2 DEF JobsGenuine, Genuine
<1>4. f.dst \in IdsOf[f.msg[1]] /\ f.seq = SeqOf(f.msg) /\ TakenIn(f.msg, accepted)
  BY <1>1 DEF InboxGenuine, Genuine
<1>5. f.msg[1] \in Node
  BY <1>1 DEF Frame, DataFrame, AckFrame, Msg
<1>6. f.msg[1] = n
  BY <1>1, <1>3, <1>4, <1>5 DEF DistinctIds
<1>7. SameName(f.msg, own.msg)
  BY <1>1, <1>3, <1>4, <1>6 DEF SameName
<1>8. TakenIn(own.msg, accepted)
  BY <1>4, <1>7 DEF TakenIn, SameName
<1>9. AckedTakenIn'
  <2> SUFFICES ASSUME NEW m \in acked \cup {own.msg}
               PROVE  m[2] <= calls[m[1]] /\ TakenIn(m, accepted)
    BY <1>1 DEF AckedTakenIn
  <2> HIDE DEF own, f
  <2> QED
    BY <1>3, <1>8 DEF AckedTakenIn
<1>10. InboxGenuine'
  BY <1>1, InboxKept DEF HearAck
<1>11. SameCalls
  BY ReturnSameCalls DEF HearAck
<1>12. Grown(calls, calls', accepted, accepted') /\ calls' \in [Node -> Nat]
  BY <1>1 DEF Grown, TypeOK, HistoryOK
<1>13. JobsGenuine'
  BY <1>11, <1>12, JobsKept
<1> QED
  BY <1>1, <1>9, <1>10, <1>13 DEF CallsCounted, TableGenuine, AcceptedCalled

LEMMA LinkStepIdentity ==
    ASSUME TypeOK, IdentityInv, DistinctIds, NEW n \in Node, LinkStep(n)
    PROVE  IdentityInv'
<1> USE DEF IdentityInv
<1>1. CASE StartTransmit(n)
  <2>1. UNCHANGED <<seqNum, calls, accepted, acked, seen, inbox, job>>
    BY <1>1 DEF StartTransmit, protocol, history
  <2>2. SameCalls
    BY <1>1 DEF StartTransmit, Blocked, SameCalls, TypeOK, ControlOK
  <2> QED
    BY <2>1, <2>2, InboxKept, QuietStep
<1>2. CASE FinishTransmit(n)
  <2>1. pc[n] = "air" /\ UNCHANGED <<seqNum, calls, accepted, acked, seen>>
    BY <1>2 DEF FinishTransmit, protocol, history
  <2>2. job[n].frame \in Frame /\ Genuine(job[n].frame, calls, accepted)
    BY <2>1, FrameFacts DEF TypeOK, ControlOK, SendCall, JobsGenuine
  <2>3. /\ Grown(calls, calls', accepted, accepted') /\ calls' \in [Node -> Nat]
        /\ Genuine(job[n].frame, calls', accepted')
    BY <2>1, <2>2 DEF Grown, TypeOK, HistoryOK
  <2>4. InboxGenuine'
    BY <1>2, <2>2, <2>3, OnAirGenuine DEF FinishTransmit
  <2>5. SameCalls
    <3>1. CASE job[n].frame.req
      BY <1>2, <2>1, <3>1 DEF FinishTransmit, Blocked, SameCalls, TypeOK, ControlOK
    <3>2. CASE ~job[n].frame.req
      BY <1>2, <3>2, ReturnSameCalls DEF FinishTransmit
    <3> QED
      BY <3>1, <3>2
  <2> QED
    BY <2>1, <2>4, <2>5, QuietStep
<1>3. CASE FailTransmit(n) \/ AckTimeout(n)
  <2>1. UNCHANGED <<seqNum, calls, accepted, acked, seen, inbox>>
    BY <1>3 DEF FailTransmit, AckTimeout, protocol, history
  <2>2. SameCalls
    BY <1>3, RetrySameCalls, ReturnSameCalls DEF FailTransmit, AckTimeout
  <2> QED
    BY <2>1, <2>2, InboxKept, QuietStep
<1>4. CASE HearAck(n)
  BY <1>4, HearAckIdentity
<1>5. CASE HearOtherWhileBusy(n)
  <2>1. ReadFrame(n) /\ UNCHANGED <<seqNum, calls, accepted, acked, seen, pc, job>>
    BY <1>5 DEF HearOtherWhileBusy, protocol, control, history
  <2> QED
    BY <2>1, InboxKept, QuietStep DEF SameCalls
<1>6. CASE HearDataWhileBusy(n)
  <2>1. /\ inbox[n] # NoFrame /\ IsDataForUs(n, inbox[n])
        /\ UNCHANGED <<seqNum, calls, acked, pc, job>>
    BY <1>6 DEF HearDataWhileBusy, control
  <2>2. SameCalls
    BY <2>1 DEF SameCalls
  <2>3. CASE ReadFrame(n) /\ UNCHANGED <<seen, accepted>>
    BY <2>1, <2>2, <2>3, InboxKept, QuietStep
  <2>4. CASE Suppress(n, inbox[n]) \/ TakeIn(n, inbox[n], inbox[n].len)
    BY <2>1, <2>2, <2>4, HearDataIdentity
  <2> QED
    BY <1>6, <2>3, <2>4 DEF HearDataWhileBusy
<1>7. ASSUME KeepListening(n) PROVE SameCalls
  BY <1>7, ReturnSameCalls DEF KeepListening, control, SameCalls
<1>8. CASE HearOtherInReceive(n)
  <2>1. ReadFrame(n) /\ UNCHANGED <<seqNum, calls, accepted, acked, seen>>
    BY <1>8 DEF HearOtherInReceive, protocol, history
  <2> QED
    BY <1>7, <1>8, <2>1, InboxKept, QuietStep DEF HearOtherInReceive
<1>9. CASE HearDataInReceive(n)
  <2>1. /\ inbox[n] # NoFrame /\ IsDataForUs(n, inbox[n])
        /\ UNCHANGED <<seqNum, calls, acked>>
        /\ \/ Suppress(n, inbox[n])
           \/ Refuse(n, inbox[n], job[n].maxLen)
           \/ TakeIn(n, inbox[n], job[n].maxLen)
    BY <1>9 DEF HearDataInReceive
  <2>2. SameCalls
    BY <1>7, <1>9, ReturnSameCalls DEF HearDataInReceive
  <2> QED
    BY <2>1, <2>2, HearDataIdentity
<1>10. CASE ReceiveTimeout(n)
  <2>1. UNCHANGED <<seqNum, calls, accepted, acked, seen, inbox>>
    BY <1>10 DEF ReceiveTimeout, protocol, history
  <2> QED
    BY <1>10, <2>1, ReturnSameCalls, InboxKept, QuietStep DEF ReceiveTimeout
<1> QED
  BY <1>1, <1>2, <1>3, <1>4, <1>5, <1>6, <1>8, <1>9, <1>10 DEF LinkStep

LEMMA TickIdentity ==
    ASSUME TypeOK, IdentityInv, Tick
    PROVE  IdentityInv'
<1> USE DEF IdentityInv
<1>1. UNCHANGED <<seqNum, calls, accepted, acked, inbox, pc, job>>
  BY DEF Tick, history
<1>2. ASSUME NEW n \in Node, NEW i \in Slots, seen'[n][i] # Free
      PROVE  Stands(seen'[n][i], accepted[n])
  <2>1. seen[n][i] \in SeenEntry \cup {Free} /\ seen'[n] = Aged(seen[n], OldestAge)
    BY DEF Tick, TypeOK, LinkOK
  <2>2. seen[n][i] # Free /\ seen'[n][i].key = seen[n][i].key
    BY <1>2, <2>1 DEF Aged, SeenEntry
  <2> QED
    BY <2>2 DEF TableGenuine, Stands
<1>3. TableGenuine'
  BY <1>1, <1>2 DEF TableGenuine
<1>4. Grown(calls, calls', accepted, accepted') /\ calls' \in [Node -> Nat]
  BY <1>1 DEF Grown, TypeOK, HistoryOK
<1>5. JobsGenuine' /\ InboxGenuine' /\ AckedTakenIn'
  BY <1>1, <1>4, JobsKept, InboxKept, AckedKept DEF SameCalls
<1> QED
  BY <1>1, <1>3, <1>5 DEF CallsCounted, AcceptedCalled

LEMMA StutterIdentity ==
    ASSUME TypeOK, IdentityInv, UNCHANGED vars
    PROVE  IdentityInv'
<1>1. UNCHANGED <<seqNum, calls, accepted, acked, seen, inbox, pc, job>>
  BY DEF vars, protocol, control, history
<1> QED
  BY <1>1, InboxKept, QuietStep DEF SameCalls, IdentityInv

-----------------------------------------------------------------------------
(* In every behaviour of nodes with addresses of their own, frames, calls  *)
(* in progress, table entries and ACKs stand for the messages they name,   *)
(* also when the 8-bit sequence number has wrapped.                        *)
THEOREM IdentityKept == DistinctIds => (Spec => []IdentityInv)
<1> SUFFICES ASSUME DistinctIds PROVE Spec => []IdentityInv
  OBVIOUS
<1>1. TypeOK /\ IdentityInv /\ [Next]_vars => IdentityInv'
  BY AppCallIdentity, LinkStepIdentity, TickIdentity, StutterIdentity DEF Next
<1>2. Init => IdentityInv
  BY InitIdentity
<1> QED
  BY <1>1, <1>2, TypeCorrect, PTL DEF Spec

(* While no node has used a sequence number twice, the name of a message   *)
(* on the air is the message.                                              *)
LEMMA NameIsMessage ==
    ASSUME TypeOK, IdentityInv, NoWrap, NEW x \in Msg, NEW m \in Msg,
           x[2] <= calls[x[1]], m[2] <= calls[m[1]], SameName(x, m)
    PROVE  x = m
<1>1. \A y \in Msg : y[2] <= calls[y[1]] => y[2] <= SeqMod
  <2> TAKE y \in Msg
  <2>1. y[1] \in Node /\ y[2] \in Nat
    BY DEF Msg
  <2>2. calls[y[1]] \in Nat /\ MaxCalls[y[1]] \in Nat /\ SeqMod \in Nat
    BY <2>1, LinkAssumption DEF TypeOK, HistoryOK
  <2>3. calls[y[1]] <= MaxCalls[y[1]] /\ MaxCalls[y[1]] <= SeqMod
    BY <2>1 DEF IdentityInv, CallsCounted, NoWrap
  <2> QED
    BY <2>1, <2>2, <2>3
<1> QED
  BY <1>1, SeqOfIsExact

(* A message reported as acknowledged was taken in by some node: whatever  *)
(* is lost, delayed in a buffer or overheard from other conversations, no  *)
(* ACK completes a call it was not sent for.                               *)
THEOREM AckedWasAccepted == DistinctIds /\ NoWrap => (Spec => []AckedMeansAccepted)
<1> SUFFICES ASSUME DistinctIds, NoWrap PROVE Spec => []AckedMeansAccepted
  OBVIOUS
<1>1. TypeOK /\ IdentityInv => AckedMeansAccepted
  <2> SUFFICES ASSUME TypeOK, IdentityInv, NEW m \in acked
               PROVE  \E n \in Node : m \in Elements(accepted[n])
    BY DEF AckedMeansAccepted
  <2>1. m \in Msg /\ m[2] <= calls[m[1]] /\ TakenIn(m, accepted)
    BY DEF TypeOK, HistoryOK, IdentityInv, AckedTakenIn
  <2>2. PICK n \in Node : \E x \in Elements(accepted[n]) : SameName(x, m)
    BY <2>1 DEF TakenIn
  <2>3. PICK x \in Elements(accepted[n]) : SameName(x, m)
    BY <2>2
  <2>4. x \in Msg
    BY ElementsType DEF TypeOK, HistoryOK
  <2>5. x[2] <= calls[x[1]]
    BY DEF IdentityInv, AcceptedCalled
  <2>6. x = m
    BY <2>1, <2>3, <2>4, <2>5, NameIsMessage
  <2> QED
    BY <2>6
<1> QED
  BY <1>1, IdentityKept, TypeCorrect, PTL

(* A frame that isDuplicate() matches is a copy of a message this node has *)
(* taken in: a new message is never mistaken for a retransmission, not     *)
(* even one with the same sender, length and content as another.           *)
THEOREM SuppressedWasAccepted == DistinctIds /\ NoWrap => (Spec => []OnlyCopiesSuppressed)
<1> SUFFICES ASSUME DistinctIds, NoWrap PROVE Spec => []OnlyCopiesSuppressed
  OBVIOUS
<1>1. TypeOK /\ IdentityInv => OnlyCopiesSuppressed
  <2> SUFFICES ASSUME TypeOK, IdentityInv, NEW n \in Node,
                      inbox[n] \notin {NoFrame, Garbled}, ~inbox[n].ack,
                      DuplicateOf(n, inbox[n])
               PROVE  inbox[n].msg \in Elements(accepted[n])
    BY DEF OnlyCopiesSuppressed
  <2> DEFINE f == inbox[n]
  <2>1. f \in Frame
    BY DEF TypeOK, InboxOK
  <2>2. f \in DataFrame /\ f.msg \in Msg
    BY <2>1, FrameFacts
  <2>3. Genuine(f, calls, accepted) /\ TableGenuine
    BY <2>1 DEF IdentityInv, InboxGenuine
  <2>4. f.msg[2] <= calls[f.msg[1]]
    BY <2>3 DEF Genuine
  <2>5. DuplicateOf(n, f)
    OBVIOUS
  <2> HIDE DEF f
  <2>6. PICK x \in Elements(accepted[n]) : x \in Msg /\ SameName(x, f.msg)
    BY <2>2, <2>3, <2>5, MatchMeansTakenIn
  <2>7. x[2] <= calls[x[1]]
    BY DEF IdentityInv, AcceptedCalled
  <2>8. x = f.msg
    BY <2>2, <2>4, <2>6, <2>7, NameIsMessage
  <2> QED
    BY <2>8 DEF f
<1> QED
  BY <1>1, IdentityKept, TypeCorrect, PTL
===========================================================================
