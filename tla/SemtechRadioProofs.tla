------------------------- MODULE SemtechRadioProofs -------------------------
(* Proofs about SemtechRadio: no interrupt is forgotten, the radio listens *)
(* whenever it does not transmit, a successful send() was its own, an old  *)
(* timer ends a send() only after a failed one, and frames are handed over *)
(* in order.  IInv is inductive: Safety is about the interrupts and the    *)
(* state of the chip, Order about the timer and the order of the frames.   *)
(* On it rests KeptInv, which says where the frame is that receive() owes  *)
(* its caller.                                                             *)
EXTENDS SemtechRadio, TLAPS

(* Where the chip can be while the thread is at a given place.             *)
ModeOK ==
    /\ begun /\ pc \in {"sendClear", "sendBuffer", "sendTx"} => mode = "Rx"
    /\ pc \in {"sendTimer", "sendLoop", "sendDelay", "sendStandby"} => mode \in {"Tx", "Standby"}
    /\ pc \in {"sendRxMask", "sendRx"} => mode = "Standby"
    /\ pc = "sendRx" => mask = RxIrqs

(* RadioIrqProcess runs only where it is called from, and its copy of the  *)
(* status is empty until it has read it.                                   *)
IrqOK ==
    /\ ~begun => pc = "idle" /\ irqStep = "none"
    /\ irqStep # "none" => pc \in {"sendClear", "sendDelay", "recvCheck"}
    /\ irqStep \in {"none", "read"} => irqRegs = {}

AfterClear == {"sendBuffer", "sendTx", "sendTimer", "sendLoop", "sendDelay", "sendStandby",
               "sendRxMask", "sendRx"}
DoneSeen == txDone \/ "TxDone" \in flags \/ "TxDone" \in irqRegs

(* What is seen of an end of transmission belongs to the current call once *)
(* its flags are cleared: the end of an earlier one is served before that. *)
DoneOK ==
    /\ pc = "sendClear" /\ irqStep \in {"none", "serve"} => "TxDone" \notin flags
    /\ pc \in {"sendBuffer", "sendTx"} => ~DoneSeen /\ ~aired
    /\ pc \in AfterClear /\ DoneSeen => aired
    /\ pc \in AfterClear /\ aired => mode # "Tx"
    /\ pc = "sendStandby" => result = "failed"

(* What is heard on the air is heard in receive.                           *)
HeardOK == air.heard => mode = "Rx"

(* The timer of a transmission is stopped with it.  Unless the last send() *)
(* failed no older timer runs, and the one of the present transmission     *)
(* outlasts the wait.                                                      *)
Polling == {"sendLoop", "sendDelay"}
TimerOK ==
    /\ pc \in {"sendBuffer", "sendTx", "sendTimer"} => ~txDone
    /\ pc \in Polling /\ txDone => timer = Off
    /\ pc = "sendDelay" => left > 0
    /\ lastOk => /\ pc # "sendStandby"
                 /\ pc \in {"sendBuffer", "sendTx", "sendTimer"} => ~txFailed
                 /\ pc \notin Polling => timer = Off
                 /\ pc \in Polling /\ ~txDone => ~txFailed /\ timer > left

(* Frames come in order.  What waits to be handed over, or to be read for  *)
(* an interrupt the chip has raised, is newer than what was handed over    *)
(* before, unless it was read early.                                       *)
Follows(frame, last) ==
    frame = NoFrame \/ frame > last \/ (frame = last /\ frame \in racing)
OrderOK ==
    /\ got <= frames /\ rxFrame <= frames /\ buffer <= frames
    /\ air.frame # NoFrame =>
         air.frame = frames /\ got < frames /\ rxFrame < frames /\ buffer < frames
FreshOK ==
    /\ rxReady => Follows(rxFrame, got)
    /\ "RxDone" \in flags \/ "RxDone" \in irqRegs =>
         Follows(buffer, got) /\ (rxReady => Follows(buffer, rxFrame))
    /\ irqStep = "serve" /\ "RxDone" \in flags => buffer = NoFrame \/ buffer \in racing

Safety ==
    IrqNeverStuck /\ ListensBetweenSends /\ SentMeansAired /\ ModeOK /\ IrqOK /\ DoneOK

Order == HeardOK /\ TimerOK /\ OrderOK /\ FreshOK

IInv == TypeOK /\ Safety /\ Order

USE TimesAssumption DEF Frame, NoFrame, Off, RxIrqs, TxIrqs, SendPcs, ReceivePcs, QuietPcs,
    Silence, Nothing, driver, irq, chip, sky, history, vars, AfterClear, DoneSeen

LEMMA CutTyped ==
    ASSUME air \in AirStates, CutReception
    PROVE  air' \in AirStates
BY ZenonT(20) DEF AirStates, CutReception

LEMMA AirTyped ==
    ASSUME air \in AirStates
    PROVE  air.frame \in 0 .. MaxFrames /\ air.left \in Nat /\ air.intact \in BOOLEAN
BY DEF AirStates

LEMMA SilenceTyped == Silence \in AirStates
BY DEF AirStates, Silence

LEMMA NothingTyped == Nothing \in Claims
BY DEF Claims, Nothing

LEMMA BeginSafe ==
    ASSUME IInv, Begin
    PROVE  IInv'
<1>0. FlagsOK'
  BY ZenonT(20) DEF IInv, TypeOK, FlagsOK, Begin, CutReception, At
<1>a. air' \in AirStates
  BY CutTyped DEF IInv, TypeOK, Begin
<1>1. TypeOK'
  BY <1>0, <1>a, SMTT(20) DEF IInv, TypeOK, Begin, At
<1>2. Safety'
  BY SMTT(60) DEF IInv, TypeOK, FlagsOK, Safety, IrqNeverStuck, ListensBetweenSends,
       SentMeansAired, ModeOK, IrqOK, DoneOK, Begin, CutReception, At
<1>3. HeardOK'
  BY SMTT(20) DEF IInv, TypeOK, Safety, Order, ModeOK, ListensBetweenSends, AirStates,
       HeardOK, Begin, CutReception, At
<1>4. TimerOK'
  BY SMTT(20) DEF IInv, TypeOK, FlagsOK, Safety, Order, ModeOK, IrqOK, DoneOK,
       TimerOK, Polling, Begin, CutReception, At
<1>5. OrderOK'
  BY SMTT(20) DEF IInv, TypeOK, Order, AirStates, OrderOK, Begin, CutReception, At
<1>6. FreshOK'
  BY SMTT(20) DEF IInv, TypeOK, FlagsOK, Safety, Order, IrqOK, OrderOK, FreshOK,
       Follows, Begin, CutReception, At
<1> QED BY <1>1, <1>2, <1>3, <1>4, <1>5, <1>6 DEF IInv, Order

LEMMA RebootSafe ==
    ASSUME IInv, Reboot
    PROVE  IInv'
<1>0. FlagsOK'
  BY ZenonT(20) DEF IInv, TypeOK, FlagsOK, Reboot, Constructed
<1>1. TypeOK'
  BY <1>0, NothingTyped, SMTT(20) DEF IInv, TypeOK, Reboot, Constructed
<1>2. Safety'
  BY SMTT(60) DEF IInv, TypeOK, FlagsOK, Safety, IrqNeverStuck, ListensBetweenSends,
       SentMeansAired, ModeOK, IrqOK, DoneOK, Reboot, Constructed
<1>3. HeardOK'
  BY SMTT(20) DEF IInv, TypeOK, Safety, Order, ModeOK, ListensBetweenSends, AirStates,
       HeardOK, Reboot, Constructed
<1>4. TimerOK'
  BY SMTT(20) DEF IInv, TypeOK, FlagsOK, Safety, Order, ModeOK, IrqOK, DoneOK,
       TimerOK, Polling, Reboot, Constructed
<1>5. OrderOK'
  BY SMTT(20) DEF IInv, TypeOK, Order, AirStates, OrderOK, Reboot, Constructed
<1>6. FreshOK'
  BY SMTT(20) DEF IInv, TypeOK, FlagsOK, Safety, Order, IrqOK, OrderOK, FreshOK,
       Follows, Reboot, Constructed
<1> QED BY <1>1, <1>2, <1>3, <1>4, <1>5, <1>6 DEF IInv, Order

LEMMA RefusedCallSafe ==
    ASSUME IInv, RefusedCall
    PROVE  IInv'
<1>0. FlagsOK'
  BY ZenonT(20) DEF IInv, TypeOK, FlagsOK, RefusedCall, At
<1>1. TypeOK'
  BY <1>0, SMTT(20) DEF IInv, TypeOK, RefusedCall, At
<1>2. Safety'
  BY SMTT(60) DEF IInv, TypeOK, FlagsOK, Safety, IrqNeverStuck, ListensBetweenSends,
       SentMeansAired, ModeOK, IrqOK, DoneOK, RefusedCall, At
<1>3. HeardOK'
  BY SMTT(20) DEF IInv, TypeOK, Safety, Order, ModeOK, ListensBetweenSends, AirStates,
       HeardOK, RefusedCall, At
<1>4. TimerOK'
  BY SMTT(20) DEF IInv, TypeOK, FlagsOK, Safety, Order, ModeOK, IrqOK, DoneOK,
       TimerOK, Polling, RefusedCall, At
<1>5. OrderOK'
  BY SMTT(20) DEF IInv, TypeOK, Order, AirStates, OrderOK, RefusedCall, At
<1>6. FreshOK'
  BY SMTT(20) DEF IInv, TypeOK, FlagsOK, Safety, Order, IrqOK, OrderOK, FreshOK,
       Follows, RefusedCall, At
<1> QED BY <1>1, <1>2, <1>3, <1>4, <1>5, <1>6 DEF IInv, Order

LEMMA FrameStartsSafe ==
    ASSUME IInv, NEW intact \in BOOLEAN, FrameStarts(intact)
    PROVE  IInv'
<1>0. FlagsOK'
  BY ZenonT(20) DEF IInv, TypeOK, FlagsOK, FrameStarts
<1>f. frames + 1 \in 0 .. MaxFrames /\ AirTime \in Nat
  BY SMT DEF IInv, TypeOK, FrameStarts
<1>a. air' \in AirStates
  BY <1>f, Zenon DEF AirStates, FrameStarts
<1>1. TypeOK'
  BY <1>0, <1>a, SMTT(20) DEF IInv, TypeOK, FrameStarts
<1>2. Safety'
  BY SMTT(60) DEF IInv, TypeOK, FlagsOK, Safety, IrqNeverStuck, ListensBetweenSends,
       SentMeansAired, ModeOK, IrqOK, DoneOK, FrameStarts
<1>3. HeardOK'
  BY SMTT(20) DEF IInv, TypeOK, Safety, Order, ModeOK, ListensBetweenSends, AirStates,
       HeardOK, FrameStarts
<1>4. TimerOK'
  BY SMTT(20) DEF IInv, TypeOK, FlagsOK, Safety, Order, ModeOK, IrqOK, DoneOK,
       TimerOK, Polling, FrameStarts
<1>5. OrderOK'
  BY SMTT(20) DEF IInv, TypeOK, Order, AirStates, OrderOK, FrameStarts
<1>6. FreshOK'
  BY SMTT(20) DEF IInv, TypeOK, FlagsOK, Safety, Order, IrqOK, OrderOK, FreshOK,
       Follows, FrameStarts
<1> QED BY <1>1, <1>2, <1>3, <1>4, <1>5, <1>6 DEF IInv, Order

LEMMA FrameEndsSafe ==
    ASSUME IInv, FrameEnds
    PROVE  IInv'
<1>0. FlagsOK'
  BY ZenonT(20) DEF IInv, TypeOK, FlagsOK, FrameEnds, Raise, SetIrqs, Pending
<1>a. air' \in AirStates
  BY SilenceTyped DEF FrameEnds
<1>f. air \in AirStates /\ owed \in Claims
  BY DEF IInv, TypeOK
<1>b. owed' \in Claims
  <2> DEFINE claim == [frame |-> air.frame,
                       quiet |-> pc \in QuietPcs /\ "CrcError" \notin flags]
  <2>1. claim \in Claims
    BY <1>f, AirTyped, Zenon DEF Claims
  <2>2. owed' \in {owed, claim, Nothing}
    BY Zenon DEF FrameEnds
  <2> QED BY <1>f, <2>1, <2>2, NothingTyped
<1>c. buffer' \in 0 .. MaxFrames /\ flags' \subseteq RxIrqs \cup TxIrqs
      /\ mask' \subseteq RxIrqs \cup TxIrqs /\ racing' \subseteq Frame
  <2>1. CASE air.heard
    <3>1. buffer' \in 0 .. MaxFrames
      BY <2>1, <1>f, AirTyped DEF FrameEnds
    <3>2. flags' \subseteq RxIrqs \cup TxIrqs /\ mask' \subseteq RxIrqs \cup TxIrqs
      BY <2>1, Zenon DEF IInv, TypeOK, FrameEnds, Raise, SetIrqs
    <3>3. air.frame \in Frame
      BY <1>f, AirTyped DEF FrameEnds
    <3>4. racing' \in {racing, racing \cup {air.frame}}
      BY <2>1, Zenon DEF FrameEnds
    <3> QED BY <3>1, <3>2, <3>3, <3>4 DEF IInv, TypeOK
  <2>2. CASE ~air.heard
    BY <2>2 DEF IInv, TypeOK, FrameEnds
  <2> QED BY <2>1, <2>2
<1>1. TypeOK'
  BY <1>0, <1>a, <1>b, <1>c, SMTT(20) DEF IInv, TypeOK, FrameEnds
<1>2. Safety'
  BY SMTT(60) DEF IInv, TypeOK, FlagsOK, Safety, IrqNeverStuck, ListensBetweenSends,
       SentMeansAired, ModeOK, IrqOK, DoneOK, FrameEnds, Raise, SetIrqs, Pending
<1>3. HeardOK'
  BY SMTT(20) DEF IInv, TypeOK, Safety, Order, ModeOK, ListensBetweenSends, AirStates,
       HeardOK, FrameEnds, Raise, SetIrqs, Pending
<1>4. TimerOK'
  BY SMTT(20) DEF IInv, TypeOK, FlagsOK, Safety, Order, ModeOK, IrqOK, DoneOK,
       TimerOK, Polling, FrameEnds, Raise, SetIrqs, Pending
<1>5. OrderOK'
  BY SMTT(20) DEF IInv, TypeOK, Order, AirStates, OrderOK, FrameEnds, Raise, SetIrqs,
       Pending
<1>6. FreshOK'
  BY SMTT(20) DEF IInv, TypeOK, FlagsOK, Safety, Order, IrqOK, OrderOK, FreshOK,
       Follows, FrameEnds, Raise, SetIrqs, Pending
<1> QED BY <1>1, <1>2, <1>3, <1>4, <1>5, <1>6 DEF IInv, Order

LEMMA TxEndsSafe ==
    ASSUME IInv, TxEnds
    PROVE  IInv'
<1>0. FlagsOK'
  BY ZenonT(20) DEF IInv, TypeOK, FlagsOK, TxEnds, Raise, SetIrqs, Pending
<1>1. TypeOK'
  BY <1>0, SMTT(20) DEF IInv, TypeOK, TxEnds, Raise, SetIrqs, Pending
<1>2. Safety'
  BY SMTT(60) DEF IInv, TypeOK, FlagsOK, Safety, IrqNeverStuck, ListensBetweenSends,
       SentMeansAired, ModeOK, IrqOK, DoneOK, TxEnds, Raise, SetIrqs, Pending
<1>3. HeardOK'
  BY SMTT(20) DEF IInv, TypeOK, Safety, Order, ModeOK, ListensBetweenSends, AirStates,
       HeardOK, TxEnds, Raise, SetIrqs, Pending
<1>4. TimerOK'
  BY SMTT(20) DEF IInv, TypeOK, FlagsOK, Safety, Order, ModeOK, IrqOK, DoneOK,
       TimerOK, Polling, TxEnds, Raise, SetIrqs, Pending
<1>5. OrderOK'
  BY SMTT(20) DEF IInv, TypeOK, Order, AirStates, OrderOK, TxEnds, Raise, SetIrqs,
       Pending
<1>6. FreshOK'
  BY SMTT(20) DEF IInv, TypeOK, FlagsOK, Safety, Order, IrqOK, OrderOK, FreshOK,
       Follows, TxEnds, Raise, SetIrqs, Pending
<1> QED BY <1>1, <1>2, <1>3, <1>4, <1>5, <1>6 DEF IInv, Order

LEMMA TimerFiresSafe ==
    ASSUME IInv, TimerFires
    PROVE  IInv'
<1>0. FlagsOK'
  BY ZenonT(20) DEF IInv, TypeOK, FlagsOK, TimerFires
<1>1. TypeOK'
  BY <1>0, SMTT(20) DEF IInv, TypeOK, TimerFires
<1>2. Safety'
  BY SMTT(60) DEF IInv, TypeOK, FlagsOK, Safety, IrqNeverStuck, ListensBetweenSends,
       SentMeansAired, ModeOK, IrqOK, DoneOK, TimerFires
<1>3. HeardOK'
  BY SMTT(20) DEF IInv, TypeOK, Safety, Order, ModeOK, ListensBetweenSends, AirStates,
       HeardOK, TimerFires
<1>4. TimerOK'
  BY SMTT(20) DEF IInv, TypeOK, FlagsOK, Safety, Order, ModeOK, IrqOK, DoneOK,
       TimerOK, Polling, TimerFires
<1>5. OrderOK'
  BY SMTT(20) DEF IInv, TypeOK, Order, AirStates, OrderOK, TimerFires
<1>6. FreshOK'
  BY SMTT(20) DEF IInv, TypeOK, FlagsOK, Safety, Order, IrqOK, OrderOK, FreshOK,
       Follows, TimerFires
<1> QED BY <1>1, <1>2, <1>3, <1>4, <1>5, <1>6 DEF IInv, Order

LEMMA IrqReadSafe ==
    ASSUME IInv, IrqRead
    PROVE  IInv'
<1>0. FlagsOK'
  BY ZenonT(20) DEF IInv, TypeOK, FlagsOK, IrqRead
<1>1. TypeOK'
  BY <1>0, SMTT(20) DEF IInv, TypeOK, IrqRead
<1>2. Safety'
  BY SMTT(60) DEF IInv, TypeOK, FlagsOK, Safety, IrqNeverStuck, ListensBetweenSends,
       SentMeansAired, ModeOK, IrqOK, DoneOK, IrqRead
<1>3. HeardOK'
  BY SMTT(20) DEF IInv, TypeOK, Safety, Order, ModeOK, ListensBetweenSends, AirStates,
       HeardOK, IrqRead
<1>4. TimerOK'
  BY SMTT(20) DEF IInv, TypeOK, FlagsOK, Safety, Order, ModeOK, IrqOK, DoneOK,
       TimerOK, Polling, IrqRead
<1>5. OrderOK'
  BY SMTT(20) DEF IInv, TypeOK, Order, AirStates, OrderOK, IrqRead
<1>6. FreshOK'
  BY SMTT(20) DEF IInv, TypeOK, FlagsOK, Safety, Order, IrqOK, OrderOK, FreshOK,
       Follows, IrqRead
<1> QED BY <1>1, <1>2, <1>3, <1>4, <1>5, <1>6 DEF IInv, Order

LEMMA IrqClearSafe ==
    ASSUME IInv, IrqClear
    PROVE  IInv'
<1>0. FlagsOK'
  BY ZenonT(20) DEF IInv, TypeOK, FlagsOK, IrqClear, SetIrqs, Pending
<1>1. TypeOK'
  BY <1>0, SMTT(20) DEF IInv, TypeOK, IrqClear, SetIrqs, Pending
<1>2. Safety'
  BY SMTT(60) DEF IInv, TypeOK, FlagsOK, Safety, IrqNeverStuck, ListensBetweenSends,
       SentMeansAired, ModeOK, IrqOK, DoneOK, IrqClear, SetIrqs, Pending
<1>3. HeardOK'
  BY SMTT(20) DEF IInv, TypeOK, Safety, Order, ModeOK, ListensBetweenSends, AirStates,
       HeardOK, IrqClear, SetIrqs, Pending
<1>4. TimerOK'
  BY SMTT(20) DEF IInv, TypeOK, FlagsOK, Safety, Order, ModeOK, IrqOK, DoneOK,
       TimerOK, Polling, IrqClear, SetIrqs, Pending
<1>5. OrderOK'
  BY SMTT(20) DEF IInv, TypeOK, Order, AirStates, OrderOK, IrqClear, SetIrqs, Pending
<1>6. FreshOK'
  BY SMTT(20) DEF IInv, TypeOK, FlagsOK, Safety, Order, IrqOK, OrderOK, FreshOK,
       Follows, IrqClear, SetIrqs, Pending
<1> QED BY <1>1, <1>2, <1>3, <1>4, <1>5, <1>6 DEF IInv, Order

LEMMA IrqServeSafe ==
    ASSUME IInv, IrqServe
    PROVE  IInv'
<1>0. FlagsOK'
  BY ZenonT(20) DEF IInv, TypeOK, FlagsOK, IrqServe
<1>1. TypeOK'
  BY <1>0, SMTT(20) DEF IInv, TypeOK, IrqServe
<1>2. Safety'
  BY SMTT(60) DEF IInv, TypeOK, FlagsOK, Safety, IrqNeverStuck, ListensBetweenSends,
       SentMeansAired, ModeOK, IrqOK, DoneOK, IrqServe
<1>3. HeardOK'
  BY SMTT(20) DEF IInv, TypeOK, Safety, Order, ModeOK, ListensBetweenSends, AirStates,
       HeardOK, IrqServe
<1>4. TimerOK'
  BY SMTT(20) DEF IInv, TypeOK, FlagsOK, Safety, Order, ModeOK, IrqOK, DoneOK,
       TimerOK, Polling, IrqServe
<1>5. OrderOK'
  BY SMTT(20) DEF IInv, TypeOK, Order, AirStates, OrderOK, IrqServe
<1>6. FreshOK'
  BY SMTT(20) DEF IInv, TypeOK, FlagsOK, Safety, Order, IrqOK, OrderOK, FreshOK,
       Follows, IrqServe
<1> QED BY <1>1, <1>2, <1>3, <1>4, <1>5, <1>6 DEF IInv, Order

LEMMA SendCallSafe ==
    ASSUME IInv, SendCall
    PROVE  IInv'
<1>0. FlagsOK'
  BY ZenonT(20) DEF IInv, TypeOK, FlagsOK, SendCall, CallIrq, At
<1>1. TypeOK'
  BY <1>0, SMTT(20) DEF IInv, TypeOK, SendCall, CallIrq, At
<1>2. Safety'
  BY SMTT(60) DEF IInv, TypeOK, FlagsOK, Safety, IrqNeverStuck, ListensBetweenSends,
       SentMeansAired, ModeOK, IrqOK, DoneOK, SendCall, CallIrq, At
<1>3. HeardOK'
  BY SMTT(20) DEF IInv, TypeOK, Safety, Order, ModeOK, ListensBetweenSends, AirStates,
       HeardOK, SendCall, CallIrq, At
<1>4. TimerOK'
  BY SMTT(20) DEF IInv, TypeOK, FlagsOK, Safety, Order, ModeOK, IrqOK, DoneOK,
       TimerOK, Polling, SendCall, CallIrq, At
<1>5. OrderOK'
  BY SMTT(20) DEF IInv, TypeOK, Order, AirStates, OrderOK, SendCall, CallIrq, At
<1>6. FreshOK'
  BY SMTT(20) DEF IInv, TypeOK, FlagsOK, Safety, Order, IrqOK, OrderOK, FreshOK,
       Follows, SendCall, CallIrq, At
<1> QED BY <1>1, <1>2, <1>3, <1>4, <1>5, <1>6 DEF IInv, Order

LEMMA SendClearSafe ==
    ASSUME IInv, SendClear
    PROVE  IInv'
<1>0. FlagsOK'
  BY ZenonT(20) DEF IInv, TypeOK, FlagsOK, SendClear, SetIrqs, Pending, At
<1>1. TypeOK'
  BY <1>0, SMTT(20) DEF IInv, TypeOK, SendClear, SetIrqs, Pending, At
<1>2. Safety'
  BY SMTT(60) DEF IInv, TypeOK, FlagsOK, Safety, IrqNeverStuck, ListensBetweenSends,
       SentMeansAired, ModeOK, IrqOK, DoneOK, SendClear, SetIrqs, Pending, At
<1>3. HeardOK'
  BY SMTT(20) DEF IInv, TypeOK, Safety, Order, ModeOK, ListensBetweenSends, AirStates,
       HeardOK, SendClear, SetIrqs, Pending, At
<1>4. TimerOK'
  BY SMTT(20) DEF IInv, TypeOK, FlagsOK, Safety, Order, ModeOK, IrqOK, DoneOK,
       TimerOK, Polling, SendClear, SetIrqs, Pending, At
<1>5. OrderOK'
  BY SMTT(20) DEF IInv, TypeOK, Order, AirStates, OrderOK, SendClear, SetIrqs,
       Pending, At
<1>6. FreshOK'
  BY SMTT(20) DEF IInv, TypeOK, FlagsOK, Safety, Order, IrqOK, OrderOK, FreshOK,
       Follows, SendClear, SetIrqs, Pending, At
<1> QED BY <1>1, <1>2, <1>3, <1>4, <1>5, <1>6 DEF IInv, Order

LEMMA SendBufferSafe ==
    ASSUME IInv, NEW overwrites \in BOOLEAN, SendBuffer(overwrites)
    PROVE  IInv'
<1>0. FlagsOK'
  BY ZenonT(20) DEF IInv, TypeOK, FlagsOK, SendBuffer, At
<1>1. TypeOK'
  BY <1>0, SMTT(20) DEF IInv, TypeOK, SendBuffer, At
<1>2. Safety'
  BY SMTT(60) DEF IInv, TypeOK, FlagsOK, Safety, IrqNeverStuck, ListensBetweenSends,
       SentMeansAired, ModeOK, IrqOK, DoneOK, SendBuffer, At
<1>3. HeardOK'
  BY SMTT(20) DEF IInv, TypeOK, Safety, Order, ModeOK, ListensBetweenSends, AirStates,
       HeardOK, SendBuffer, At
<1>4. TimerOK'
  BY SMTT(20) DEF IInv, TypeOK, FlagsOK, Safety, Order, ModeOK, IrqOK, DoneOK,
       TimerOK, Polling, SendBuffer, At
<1>5. OrderOK'
  BY SMTT(20) DEF IInv, TypeOK, Order, AirStates, OrderOK, SendBuffer, At
<1>6. FreshOK'
  BY SMTT(20) DEF IInv, TypeOK, FlagsOK, Safety, Order, IrqOK, OrderOK, FreshOK,
       Follows, SendBuffer, At
<1> QED BY <1>1, <1>2, <1>3, <1>4, <1>5, <1>6 DEF IInv, Order

LEMMA SendTxSafe ==
    ASSUME IInv, NEW takes \in TxTakes, SendTx(takes)
    PROVE  IInv'
<1>0. FlagsOK'
  BY ZenonT(20) DEF IInv, TypeOK, FlagsOK, SendTx, CutReception, At
<1>a. air' \in AirStates
  BY CutTyped DEF IInv, TypeOK, SendTx
<1>1. TypeOK'
  BY <1>0, <1>a, SMTT(20) DEF IInv, TypeOK, SendTx, At
<1>2. Safety'
  BY SMTT(60) DEF IInv, TypeOK, FlagsOK, Safety, IrqNeverStuck, ListensBetweenSends,
       SentMeansAired, ModeOK, IrqOK, DoneOK, SendTx, CutReception, At
<1>3. HeardOK'
  BY SMTT(20) DEF IInv, TypeOK, Safety, Order, ModeOK, ListensBetweenSends, AirStates,
       HeardOK, SendTx, CutReception, At
<1>4. TimerOK'
  BY SMTT(20) DEF IInv, TypeOK, FlagsOK, Safety, Order, ModeOK, IrqOK, DoneOK,
       TimerOK, Polling, SendTx, CutReception, At
<1>5. OrderOK'
  BY SMTT(20) DEF IInv, TypeOK, Order, AirStates, OrderOK, SendTx, CutReception, At
<1>6. FreshOK'
  BY SMTT(20) DEF IInv, TypeOK, FlagsOK, Safety, Order, IrqOK, OrderOK, FreshOK,
       Follows, SendTx, CutReception, At
<1> QED BY <1>1, <1>2, <1>3, <1>4, <1>5, <1>6 DEF IInv, Order

LEMMA SendTimerSafe ==
    ASSUME IInv, SendTimer
    PROVE  IInv'
<1>0. FlagsOK'
  BY ZenonT(20) DEF IInv, TypeOK, FlagsOK, SendTimer, At
<1>1. TypeOK'
  BY <1>0, SMTT(20) DEF IInv, TypeOK, SendTimer, At
<1>2. Safety'
  BY SMTT(60) DEF IInv, TypeOK, FlagsOK, Safety, IrqNeverStuck, ListensBetweenSends,
       SentMeansAired, ModeOK, IrqOK, DoneOK, SendTimer, At
<1>3. HeardOK'
  BY SMTT(20) DEF IInv, TypeOK, Safety, Order, ModeOK, ListensBetweenSends, AirStates,
       HeardOK, SendTimer, At
<1>4. TimerOK'
  BY SMTT(20) DEF IInv, TypeOK, FlagsOK, Safety, Order, ModeOK, IrqOK, DoneOK,
       TimerOK, Polling, SendTimer, At
<1>5. OrderOK'
  BY SMTT(20) DEF IInv, TypeOK, Order, AirStates, OrderOK, SendTimer, At
<1>6. FreshOK'
  BY SMTT(20) DEF IInv, TypeOK, FlagsOK, Safety, Order, IrqOK, OrderOK, FreshOK,
       Follows, SendTimer, At
<1> QED BY <1>1, <1>2, <1>3, <1>4, <1>5, <1>6 DEF IInv, Order

LEMMA SendPollSafe ==
    ASSUME IInv, SendPoll
    PROVE  IInv'
<1>0. FlagsOK'
  BY ZenonT(20) DEF IInv, TypeOK, FlagsOK, SendPoll, CallIrq, At, Waiting
<1>1. TypeOK'
  BY <1>0, SMTT(20) DEF IInv, TypeOK, SendPoll, CallIrq, At, Waiting
<1>2. Safety'
  BY SMTT(60) DEF IInv, TypeOK, FlagsOK, Safety, IrqNeverStuck, ListensBetweenSends,
       SentMeansAired, ModeOK, IrqOK, DoneOK, SendPoll, CallIrq, At, Waiting
<1>3. HeardOK'
  BY SMTT(20) DEF IInv, TypeOK, Safety, Order, ModeOK, ListensBetweenSends, AirStates,
       HeardOK, SendPoll, CallIrq, At, Waiting
<1>4. TimerOK'
  BY SMTT(20) DEF IInv, TypeOK, FlagsOK, Safety, Order, ModeOK, IrqOK, DoneOK,
       TimerOK, Polling, SendPoll, CallIrq, At, Waiting
<1>5. OrderOK'
  BY SMTT(20) DEF IInv, TypeOK, Order, AirStates, OrderOK, SendPoll, CallIrq, At,
       Waiting
<1>6. FreshOK'
  BY SMTT(20) DEF IInv, TypeOK, FlagsOK, Safety, Order, IrqOK, OrderOK, FreshOK,
       Follows, SendPoll, CallIrq, At, Waiting
<1> QED BY <1>1, <1>2, <1>3, <1>4, <1>5, <1>6 DEF IInv, Order

LEMMA SendLeaveSafe ==
    ASSUME IInv, SendLeave
    PROVE  IInv'
<1>0. FlagsOK'
  BY ZenonT(20) DEF IInv, TypeOK, FlagsOK, SendLeave, At, Waiting
<1>1. TypeOK'
  BY <1>0, SMTT(20) DEF IInv, TypeOK, SendLeave, At, Waiting
<1>2. Safety'
  BY SMTT(60) DEF IInv, TypeOK, FlagsOK, Safety, IrqNeverStuck, ListensBetweenSends,
       SentMeansAired, ModeOK, IrqOK, DoneOK, SendLeave, At, Waiting
<1>3. HeardOK'
  BY SMTT(20) DEF IInv, TypeOK, Safety, Order, ModeOK, ListensBetweenSends, AirStates,
       HeardOK, SendLeave, At, Waiting
<1>4. TimerOK'
  BY SMTT(20) DEF IInv, TypeOK, FlagsOK, Safety, Order, ModeOK, IrqOK, DoneOK,
       TimerOK, Polling, SendLeave, At, Waiting
<1>5. OrderOK'
  BY SMTT(20) DEF IInv, TypeOK, Order, AirStates, OrderOK, SendLeave, At, Waiting
<1>6. FreshOK'
  BY SMTT(20) DEF IInv, TypeOK, FlagsOK, Safety, Order, IrqOK, OrderOK, FreshOK,
       Follows, SendLeave, At, Waiting
<1> QED BY <1>1, <1>2, <1>3, <1>4, <1>5, <1>6 DEF IInv, Order

LEMMA SendStandbySafe ==
    ASSUME IInv, SendStandby
    PROVE  IInv'
<1>0. FlagsOK'
  BY ZenonT(20) DEF IInv, TypeOK, FlagsOK, SendStandby, At
<1>1. TypeOK'
  BY <1>0, SMTT(20) DEF IInv, TypeOK, SendStandby, At
<1>2. Safety'
  BY SMTT(60) DEF IInv, TypeOK, FlagsOK, Safety, IrqNeverStuck, ListensBetweenSends,
       SentMeansAired, ModeOK, IrqOK, DoneOK, SendStandby, At
<1>3. HeardOK'
  BY SMTT(20) DEF IInv, TypeOK, Safety, Order, ModeOK, ListensBetweenSends, AirStates,
       HeardOK, SendStandby, At
<1>4. TimerOK'
  BY SMTT(20) DEF IInv, TypeOK, FlagsOK, Safety, Order, ModeOK, IrqOK, DoneOK,
       TimerOK, Polling, SendStandby, At
<1>5. OrderOK'
  BY SMTT(20) DEF IInv, TypeOK, Order, AirStates, OrderOK, SendStandby, At
<1>6. FreshOK'
  BY SMTT(20) DEF IInv, TypeOK, FlagsOK, Safety, Order, IrqOK, OrderOK, FreshOK,
       Follows, SendStandby, At
<1> QED BY <1>1, <1>2, <1>3, <1>4, <1>5, <1>6 DEF IInv, Order

LEMMA SendRxMaskSafe ==
    ASSUME IInv, SendRxMask
    PROVE  IInv'
<1>0. FlagsOK'
  BY ZenonT(20) DEF IInv, TypeOK, FlagsOK, SendRxMask, SetIrqs, Pending, At
<1>1. TypeOK'
  BY <1>0, SMTT(20) DEF IInv, TypeOK, SendRxMask, SetIrqs, Pending, At
<1>2. Safety'
  BY SMTT(60) DEF IInv, TypeOK, FlagsOK, Safety, IrqNeverStuck, ListensBetweenSends,
       SentMeansAired, ModeOK, IrqOK, DoneOK, SendRxMask, SetIrqs, Pending, At
<1>3. HeardOK'
  BY SMTT(20) DEF IInv, TypeOK, Safety, Order, ModeOK, ListensBetweenSends, AirStates,
       HeardOK, SendRxMask, SetIrqs, Pending, At
<1>4. TimerOK'
  BY SMTT(20) DEF IInv, TypeOK, FlagsOK, Safety, Order, ModeOK, IrqOK, DoneOK,
       TimerOK, Polling, SendRxMask, SetIrqs, Pending, At
<1>5. OrderOK'
  BY SMTT(20) DEF IInv, TypeOK, Order, AirStates, OrderOK, SendRxMask, SetIrqs,
       Pending, At
<1>6. FreshOK'
  BY SMTT(20) DEF IInv, TypeOK, FlagsOK, Safety, Order, IrqOK, OrderOK, FreshOK,
       Follows, SendRxMask, SetIrqs, Pending, At
<1> QED BY <1>1, <1>2, <1>3, <1>4, <1>5, <1>6 DEF IInv, Order

LEMMA SendRxSafe ==
    ASSUME IInv, SendRx
    PROVE  IInv'
<1>0. FlagsOK'
  BY ZenonT(20) DEF IInv, TypeOK, FlagsOK, SendRx, CutReception, At
<1>a. air' \in AirStates
  BY CutTyped DEF IInv, TypeOK, SendRx
<1>1. TypeOK'
  BY <1>0, <1>a, SMTT(20) DEF IInv, TypeOK, SendRx, At
<1>2. Safety'
  BY SMTT(60) DEF IInv, TypeOK, FlagsOK, Safety, IrqNeverStuck, ListensBetweenSends,
       SentMeansAired, ModeOK, IrqOK, DoneOK, SendRx, CutReception, At
<1>3. HeardOK'
  BY SMTT(20) DEF IInv, TypeOK, Safety, Order, ModeOK, ListensBetweenSends, AirStates,
       HeardOK, SendRx, CutReception, At
<1>4. TimerOK'
  BY SMTT(20) DEF IInv, TypeOK, FlagsOK, Safety, Order, ModeOK, IrqOK, DoneOK,
       TimerOK, Polling, SendRx, CutReception, At
<1>5. OrderOK'
  BY SMTT(20) DEF IInv, TypeOK, Order, AirStates, OrderOK, SendRx, CutReception, At
<1>6. FreshOK'
  BY SMTT(20) DEF IInv, TypeOK, FlagsOK, Safety, Order, IrqOK, OrderOK, FreshOK,
       Follows, SendRx, CutReception, At
<1> QED BY <1>1, <1>2, <1>3, <1>4, <1>5, <1>6 DEF IInv, Order

LEMMA ReceiveCallSafe ==
    ASSUME IInv, NEW timeout \in Timeouts, ReceiveCall(timeout)
    PROVE  IInv'
<1>0. FlagsOK'
  BY ZenonT(20) DEF IInv, TypeOK, FlagsOK, ReceiveCall, SetIrqs, Pending,
       CutReception, At
<1>a. air' \in AirStates
  BY CutTyped DEF IInv, TypeOK, ReceiveCall
<1>c. mode' \in {"Standby", "Rx", "Tx"} /\ flags' \subseteq RxIrqs \cup TxIrqs
      /\ mask' \subseteq RxIrqs \cup TxIrqs
  BY DEF IInv, TypeOK, ReceiveCall, SetIrqs
<1>1. TypeOK'
  BY <1>0, <1>a, <1>c, SMTT(20) DEF IInv, TypeOK, ReceiveCall
<1>2. Safety'
  BY SMTT(60) DEF IInv, TypeOK, FlagsOK, Safety, IrqNeverStuck, ListensBetweenSends,
       SentMeansAired, ModeOK, IrqOK, DoneOK, ReceiveCall, SetIrqs, Pending,
       CutReception, At
<1>3. HeardOK'
  BY SMTT(20) DEF IInv, TypeOK, Safety, Order, ModeOK, ListensBetweenSends, AirStates,
       HeardOK, ReceiveCall, SetIrqs, Pending, CutReception, At
<1>4. TimerOK'
  BY SMTT(20) DEF IInv, TypeOK, FlagsOK, Safety, Order, ModeOK, IrqOK, DoneOK,
       TimerOK, Polling, ReceiveCall, SetIrqs, Pending, CutReception, At
<1>5. OrderOK'
  BY SMTT(20) DEF IInv, TypeOK, Order, AirStates, OrderOK, ReceiveCall, SetIrqs,
       Pending, CutReception, At
<1>6. FreshOK'
  BY SMTT(20) DEF IInv, TypeOK, FlagsOK, Safety, Order, IrqOK, OrderOK, FreshOK,
       Follows, ReceiveCall, SetIrqs, Pending, CutReception, At
<1> QED BY <1>1, <1>2, <1>3, <1>4, <1>5, <1>6 DEF IInv, Order

LEMMA ReceivePollSafe ==
    ASSUME IInv, ReceivePoll
    PROVE  IInv'
<1>0. FlagsOK'
  BY ZenonT(20) DEF IInv, TypeOK, FlagsOK, ReceivePoll, CallIrq, At
<1>1. TypeOK'
  BY <1>0, SMTT(20) DEF IInv, TypeOK, ReceivePoll, CallIrq, At
<1>2. Safety'
  BY SMTT(60) DEF IInv, TypeOK, FlagsOK, Safety, IrqNeverStuck, ListensBetweenSends,
       SentMeansAired, ModeOK, IrqOK, DoneOK, ReceivePoll, CallIrq, At
<1>3. HeardOK'
  BY SMTT(20) DEF IInv, TypeOK, Safety, Order, ModeOK, ListensBetweenSends, AirStates,
       HeardOK, ReceivePoll, CallIrq, At
<1>4. TimerOK'
  BY SMTT(20) DEF IInv, TypeOK, FlagsOK, Safety, Order, ModeOK, IrqOK, DoneOK,
       TimerOK, Polling, ReceivePoll, CallIrq, At
<1>5. OrderOK'
  BY SMTT(20) DEF IInv, TypeOK, Order, AirStates, OrderOK, ReceivePoll, CallIrq, At
<1>6. FreshOK'
  BY SMTT(20) DEF IInv, TypeOK, FlagsOK, Safety, Order, IrqOK, OrderOK, FreshOK,
       Follows, ReceivePoll, CallIrq, At
<1> QED BY <1>1, <1>2, <1>3, <1>4, <1>5, <1>6 DEF IInv, Order

LEMMA ReceiveTakesSafe ==
    ASSUME IInv, NEW fits \in BOOLEAN, ReceiveTakes(fits)
    PROVE  IInv'
<1>0. FlagsOK'
  BY ZenonT(20) DEF IInv, TypeOK, FlagsOK, ReceiveTakes, ReceiveReturns, At
<1>1. TypeOK'
  BY <1>0, NothingTyped, SMTT(20) DEF IInv, TypeOK, ReceiveTakes, ReceiveReturns, At
<1>2. Safety'
  BY SMTT(60) DEF IInv, TypeOK, FlagsOK, Safety, IrqNeverStuck, ListensBetweenSends,
       SentMeansAired, ModeOK, IrqOK, DoneOK, ReceiveTakes, ReceiveReturns, At
<1>3. HeardOK'
  BY SMTT(20) DEF IInv, TypeOK, Safety, Order, ModeOK, ListensBetweenSends, AirStates,
       HeardOK, ReceiveTakes, ReceiveReturns, At
<1>4. TimerOK'
  BY SMTT(20) DEF IInv, TypeOK, FlagsOK, Safety, Order, ModeOK, IrqOK, DoneOK,
       TimerOK, Polling, ReceiveTakes, ReceiveReturns, At
<1>5. OrderOK'
  BY SMTT(20) DEF IInv, TypeOK, Order, AirStates, OrderOK, ReceiveTakes,
       ReceiveReturns, At
<1>6. FreshOK'
  BY SMTT(20) DEF IInv, TypeOK, FlagsOK, Safety, Order, IrqOK, OrderOK, FreshOK,
       Follows, ReceiveTakes, ReceiveReturns, At
<1> QED BY <1>1, <1>2, <1>3, <1>4, <1>5, <1>6 DEF IInv, Order

LEMMA ReceiveTimesOutSafe ==
    ASSUME IInv, ReceiveTimesOut
    PROVE  IInv'
<1>0. FlagsOK'
  BY ZenonT(20) DEF IInv, TypeOK, FlagsOK, ReceiveTimesOut, ReceiveReturns, At
<1>1. TypeOK'
  BY <1>0, NothingTyped, SMTT(20) DEF IInv, TypeOK, ReceiveTimesOut, ReceiveReturns, At
<1>2. Safety'
  BY SMTT(60) DEF IInv, TypeOK, FlagsOK, Safety, IrqNeverStuck, ListensBetweenSends,
       SentMeansAired, ModeOK, IrqOK, DoneOK, ReceiveTimesOut, ReceiveReturns, At
<1>3. HeardOK'
  BY SMTT(20) DEF IInv, TypeOK, Safety, Order, ModeOK, ListensBetweenSends, AirStates,
       HeardOK, ReceiveTimesOut, ReceiveReturns, At
<1>4. TimerOK'
  BY SMTT(20) DEF IInv, TypeOK, FlagsOK, Safety, Order, ModeOK, IrqOK, DoneOK,
       TimerOK, Polling, ReceiveTimesOut, ReceiveReturns, At
<1>5. OrderOK'
  BY SMTT(20) DEF IInv, TypeOK, Order, AirStates, OrderOK, ReceiveTimesOut,
       ReceiveReturns, At
<1>6. FreshOK'
  BY SMTT(20) DEF IInv, TypeOK, FlagsOK, Safety, Order, IrqOK, OrderOK, FreshOK,
       Follows, ReceiveTimesOut, ReceiveReturns, At
<1> QED BY <1>1, <1>2, <1>3, <1>4, <1>5, <1>6 DEF IInv, Order

LEMMA ReceiveWaitsSafe ==
    ASSUME IInv, ReceiveWaits
    PROVE  IInv'
<1>0. FlagsOK'
  BY ZenonT(20) DEF IInv, TypeOK, FlagsOK, ReceiveWaits, At
<1>1. TypeOK'
  BY <1>0, SMTT(20) DEF IInv, TypeOK, ReceiveWaits, At
<1>2. Safety'
  BY SMTT(60) DEF IInv, TypeOK, FlagsOK, Safety, IrqNeverStuck, ListensBetweenSends,
       SentMeansAired, ModeOK, IrqOK, DoneOK, ReceiveWaits, At
<1>3. HeardOK'
  BY SMTT(20) DEF IInv, TypeOK, Safety, Order, ModeOK, ListensBetweenSends, AirStates,
       HeardOK, ReceiveWaits, At
<1>4. TimerOK'
  BY SMTT(20) DEF IInv, TypeOK, FlagsOK, Safety, Order, ModeOK, IrqOK, DoneOK,
       TimerOK, Polling, ReceiveWaits, At
<1>5. OrderOK'
  BY SMTT(20) DEF IInv, TypeOK, Order, AirStates, OrderOK, ReceiveWaits, At
<1>6. FreshOK'
  BY SMTT(20) DEF IInv, TypeOK, FlagsOK, Safety, Order, IrqOK, OrderOK, FreshOK,
       Follows, ReceiveWaits, At
<1> QED BY <1>1, <1>2, <1>3, <1>4, <1>5, <1>6 DEF IInv, Order

LEMMA TickSafe ==
    ASSUME IInv, Tick
    PROVE  IInv'
<1>0. FlagsOK'
  BY ZenonT(20) DEF IInv, TypeOK, FlagsOK, Tick, Less, At, Due
<1>f. air \in AirStates
  BY DEF IInv, TypeOK
<1>l. Less(air.left) \in Nat
  BY <1>f, AirTyped DEF Less
<1>a. air' \in AirStates
  BY <1>f, <1>l, ZenonT(20) DEF AirStates, Tick
<1>1. TypeOK'
  BY <1>0, <1>a, SMTT(20) DEF IInv, TypeOK, Tick, Less, At, Due
<1>2. Safety'
  BY SMTT(60) DEF IInv, TypeOK, FlagsOK, Safety, IrqNeverStuck, ListensBetweenSends,
       SentMeansAired, ModeOK, IrqOK, DoneOK, Tick, Less, At, Due
<1>3. HeardOK'
  BY SMTT(20) DEF IInv, TypeOK, Safety, Order, ModeOK, ListensBetweenSends, AirStates,
       HeardOK, Tick, Less, At, Due
<1>4. TimerOK'
  BY SMTT(20) DEF IInv, TypeOK, FlagsOK, Safety, Order, ModeOK, IrqOK, DoneOK,
       TimerOK, Polling, Tick, Less, At, Due
<1>5. OrderOK'
  BY SMTT(20) DEF IInv, TypeOK, Order, AirStates, OrderOK, Tick, Less, At, Due
<1>6. FreshOK'
  BY SMTT(20) DEF IInv, TypeOK, FlagsOK, Safety, Order, IrqOK, OrderOK, FreshOK,
       Follows, Tick, Less, At, Due
<1> QED BY <1>1, <1>2, <1>3, <1>4, <1>5, <1>6 DEF IInv, Order

LEMMA StutterSafe ==
    ASSUME IInv, UNCHANGED vars
    PROVE  IInv'
<1>1. TypeOK'
  BY SMTT(20) DEF IInv, TypeOK, FlagsOK
<1>2. Safety'
  BY SMTT(20) DEF IInv, Safety, IrqNeverStuck, ListensBetweenSends, SentMeansAired, ModeOK,
       IrqOK, DoneOK
<1>3. Order'
  BY SMTT(20) DEF IInv, Order, HeardOK, TimerOK, Polling, OrderOK, FreshOK, Follows
<1> QED BY <1>1, <1>2, <1>3 DEF IInv

LEMMA InitSafe == Init => IInv
<1> SUFFICES ASSUME Init PROVE IInv
  OBVIOUS
<1>1. FlagsOK
  BY Zenon DEF Init, FlagsOK
<1>2. air \in AirStates /\ owed \in Claims
  BY SilenceTyped, NothingTyped DEF Init
<1>3. TypeOK
  BY <1>1, <1>2 DEF Init, TypeOK
<1>4. Safety
  BY DEF Init, Safety, IrqNeverStuck, ListensBetweenSends, SentMeansAired, ModeOK, IrqOK, DoneOK
<1>5. Order
  BY DEF Init, Order, HeardOK, TimerOK, Polling, OrderOK, FreshOK, Follows
<1> QED BY <1>3, <1>4, <1>5 DEF IInv

LEMMA ThreadSafe ==
    ASSUME IInv, Thread
    PROVE  IInv'
<1>1. CASE IrqRead \/ IrqClear \/ IrqServe
  BY <1>1, IrqReadSafe, IrqClearSafe, IrqServeSafe
<1>2. CASE \E overwrites \in BOOLEAN : SendBuffer(overwrites)
  BY <1>2, SendBufferSafe
<1>3. CASE \E takes \in TxTakes : SendTx(takes)
  BY <1>3, SendTxSafe
<1>4. CASE SendClear \/ SendTimer \/ SendPoll \/ SendLeave
  BY <1>4, SendClearSafe, SendTimerSafe, SendPollSafe, SendLeaveSafe
<1>5. CASE SendStandby \/ SendRxMask \/ SendRx
  BY <1>5, SendStandbySafe, SendRxMaskSafe, SendRxSafe
<1>6. CASE \E fits \in BOOLEAN : ReceiveTakes(fits)
  BY <1>6, ReceiveTakesSafe
<1>7. CASE ReceivePoll \/ ReceiveTimesOut \/ ReceiveWaits
  BY <1>7, ReceivePollSafe, ReceiveTimesOutSafe, ReceiveWaitsSafe
<1> QED BY <1>1, <1>2, <1>3, <1>4, <1>5, <1>6, <1>7, Zenon DEF Thread

LEMMA NextSafe ==
    ASSUME IInv, [Next]_vars
    PROVE  IInv'
<1>1. CASE Thread
  BY <1>1, ThreadSafe
<1>2. CASE Call
  <2>1. CASE Begin \/ RefusedCall \/ SendCall
    BY <2>1, BeginSafe, RefusedCallSafe, SendCallSafe
  <2>2. CASE \E timeout \in Timeouts : ReceiveCall(timeout)
    BY <2>2, ReceiveCallSafe
  <2> QED BY <1>2, <2>1, <2>2, Zenon DEF Call
<1>3. CASE Events \/ Tick \/ Reboot
  BY <1>3, FrameEndsSafe, TxEndsSafe, TimerFiresSafe, TickSafe, RebootSafe, Zenon DEF Events
<1>4. CASE \E intact \in BOOLEAN : FrameStarts(intact)
  BY <1>4, FrameStartsSafe
<1>5. CASE UNCHANGED vars
  BY <1>5, StutterSafe
<1> QED BY <1>1, <1>2, <1>3, <1>4, <1>5, Zenon DEF Next

LEMMA Invariant == Spec => []IInv
BY InitSafe, NextSafe, PTL DEF Spec

(* Every variable keeps its type, whatever the times and timeouts are.     *)
THEOREM TypeCorrect == Spec => []TypeOK
<1>1. IInv => TypeOK
  BY DEF IInv
<1> QED BY <1>1, Invariant, PTL

(* No interrupt is forgotten: when the chip has one pending, IrqFired is   *)
(* set or RadioIrqProcess is about to clear the chip's register.           *)
THEOREM InterruptsNeverStuck == Spec => []IrqNeverStuck
<1>1. IInv => IrqNeverStuck
  BY DEF IInv, Safety
<1> QED BY <1>1, Invariant, PTL

(* A send() that returns true has sent the payload of this very call.      *)
THEOREM SentWasAired == Spec => []SentMeansAired
<1>1. IInv => SentMeansAired
  BY DEF IInv, Safety
<1> QED BY <1>1, Invariant, PTL

(* The radio listens between calls and inside receive().                   *)
THEOREM AlwaysListens == Spec => []ListensBetweenSends
<1>1. IInv => ListensBetweenSends
  BY DEF IInv, Safety
<1> QED BY <1>1, Invariant, PTL
(* The steps that move the thread out of a loop, singled out.              *)
LEMMA LeavingSendLoop ==
    ASSUME [Next]_vars, pc = "sendLoop", pc' = "sendStandby"
    PROVE  SendLeave
BY SMTT(30) DEF Next, Thread, Call, Events, FrameStarts, FrameEnds, TxEnds, TimerFires, IrqRead,
     IrqClear, IrqServe, At, Begin, Reboot, Constructed, RefusedCall, SendCall, SendClear,
     SendBuffer, SendTx, SendTimer, SendPoll, SendStandby, SendRxMask, SendRx, ReceiveCall,
     ReceivePoll, ReceiveReturns, ReceiveTakes, ReceiveTimesOut, ReceiveWaits, Tick

LEMMA LeavingRecvCheck ==
    ASSUME [Next]_vars, Returned
    PROVE  (\E fits \in BOOLEAN : ReceiveTakes(fits)) \/ ReceiveTimesOut
BY SMTT(30) DEF Returned, Next, Thread, Call, Events, FrameStarts, FrameEnds, TxEnds, TimerFires,
     IrqRead, IrqClear, IrqServe, At, Begin, Reboot, Constructed, RefusedCall, SendCall,
     SendClear, SendBuffer, SendTx, SendTimer, SendPoll, SendLeave, SendStandby, SendRxMask,
     SendRx, ReceiveCall, ReceivePoll, ReceiveWaits, Tick

LEMMA LeavingReceive ==
    ASSUME [Next]_vars, Returned, result' = "frame"
    PROVE  \E fits \in BOOLEAN : ReceiveTakes(fits)
BY LeavingRecvCheck DEF ReceiveTimesOut, ReceiveReturns

(* A send() trips over an old timer only after a send() that failed.       *)
THEOREM EarlyFailures == Spec => EarlyFailureFollowsFailure
<1>1. ASSUME IInv, [Next]_vars
      PROVE  At("sendLoop") /\ pc' = "sendStandby" /\ left > 0 => ~lastOk
  <2> SUFFICES ASSUME At("sendLoop"), pc' = "sendStandby", left > 0 PROVE ~lastOk
    OBVIOUS
  <2>1. SendLeave
    BY <1>1, LeavingSendLoop DEF At
  <2>2. ~txDone /\ txFailed
    BY <2>1, SMT DEF SendLeave, Waiting
  <2> QED BY <1>1, <2>2 DEF IInv, Order, TimerOK, Polling, At
<1> QED BY <1>1, Invariant, PTL DEF Spec, EarlyFailureFollowsFailure

(* receive() hands frames over in order, and the same one twice only if it *)
(* completed while RadioIrqProcess was about to read the buffer.           *)
THEOREM NeverReplayed == Spec => NoReplay
<1>1. ASSUME IInv, [Next]_vars
      PROVE  Returned /\ result' = "frame" /\ rxFrame # NoFrame =>
               rxFrame > got \/ (rxFrame = got /\ got \in racing)
  <2> SUFFICES ASSUME Returned, result' = "frame", rxFrame # NoFrame
               PROVE  rxFrame > got \/ (rxFrame = got /\ got \in racing)
    OBVIOUS
  <2>1. rxReady
    BY <1>1, LeavingReceive DEF ReceiveTakes
  <2> QED BY <1>1, <2>1 DEF IInv, Order, FreshOK, Follows
<1> QED BY <1>1, Invariant, PTL DEF Spec, NoReplay

-----------------------------------------------------------------------------
(* The frame receive() owes its caller.  Until that call returns, a frame  *)
(* that ended while nobody was using the chip is in the chip's buffer with *)
(* its interrupt pending, or its interrupt has been read and the buffer    *)
(* not yet, or the driver has it.  Only the last lets the thread write to  *)
(* the buffer or leave receive(), because both calls serve the interrupts  *)
(* first.                                                                  *)
InChip ==
    /\ "RxDone" \in flags /\ "CrcError" \notin flags
    /\ buffer = owed.frame
    /\ irqStep = "none" => pc \in QuietPcs
    /\ irqStep # "serve"
    /\ irqStep = "clear" => "RxDone" \in irqRegs /\ "CrcError" \notin irqRegs
InRegisters ==
    /\ irqStep = "serve" /\ "RxDone" \in irqRegs /\ "CrcError" \notin irqRegs
    /\ "RxDone" \notin flags
    /\ buffer = owed.frame
InDriver ==
    /\ rxReady /\ rxFrame = owed.frame
    /\ "RxDone" \notin flags /\ "RxDone" \notin irqRegs
KeptInv ==
    owed.quiet => begun /\ owed.frame # NoFrame /\ (InChip \/ InRegisters \/ InDriver)

(* A frame ends: an intact one takes the place of the one owed before, and *)
(* it is quiet only where the thread is not in RadioIrqProcess.            *)
LEMMA FrameEndsKeeps ==
    ASSUME IInv, KeptInv, FrameEnds
    PROVE  KeptInv'
<1> SUFFICES ASSUME owed'.quiet
             PROVE  begun' /\ owed'.frame # NoFrame /\ (InChip' \/ InRegisters' \/ InDriver')
  BY DEF KeptInv
<1>1. CASE air.heard
  <2>1. air.intact /\ begun
    <3>1. ~(air.intact /\ begun) => owed' = Nothing
      BY <1>1, Zenon DEF FrameEnds
    <3>2. owed' # Nothing
      OBVIOUS
    <3> QED BY <3>1, <3>2
  <2>2. owed' = [frame |-> air.frame, quiet |-> pc \in QuietPcs /\ "CrcError" \notin flags]
    BY <1>1, <2>1, Zenon DEF FrameEnds
  <2>3. pc \in QuietPcs /\ "CrcError" \notin flags /\ owed'.frame = air.frame
    BY <2>2
  <2>4. irqStep = "none" /\ mask = RxIrqs
    BY <2>1, <2>3 DEF IInv, Safety, IrqOK, ListensBetweenSends
  <2>5. flags' = flags \cup {"RxDone"}
    BY <1>1, <2>1, <2>4 DEF FrameEnds, Raise, SetIrqs
  <2>6. buffer' = air.frame /\ air.frame # NoFrame /\ begun' /\ pc' = pc /\ irqStep' = irqStep
    BY <1>1, <2>1 DEF FrameEnds
  <2>7. InChip'
    BY <2>3, <2>4, <2>5, <2>6 DEF InChip
  <2> QED BY <2>3, <2>6, <2>7
<1>2. CASE ~air.heard
  BY <1>2 DEF FrameEnds, KeptInv, InChip, InRegisters, InDriver
<1> QED BY <1>1, <1>2

(* A step of RadioIrqProcess moves it one place on.                        *)
LEMMA IrqKeeps ==
    ASSUME IInv, KeptInv, IrqRead \/ IrqClear \/ IrqServe
    PROVE  KeptInv'
<1> SUFFICES ASSUME owed'.quiet
             PROVE  begun' /\ owed'.frame # NoFrame /\ (InChip' \/ InRegisters' \/ InDriver')
  BY DEF KeptInv
<1>0. owed' = owed /\ begun' = begun /\ buffer' = buffer /\ pc' = pc
  BY DEF IrqRead, IrqClear, IrqServe
<1>1. begun /\ owed.frame # NoFrame /\ (InChip \/ InRegisters \/ InDriver)
  BY <1>0 DEF KeptInv
<1>2. CASE IrqRead
  BY <1>0, <1>1, <1>2 DEF IrqRead, InChip, InRegisters, InDriver
<1>3. CASE IrqClear
  BY <1>0, <1>1, <1>3 DEF IrqClear, SetIrqs, InChip, InRegisters, InDriver
<1>4. CASE IrqServe
  BY <1>0, <1>1, <1>4 DEF IrqServe, InChip, InRegisters, InDriver
<1> QED BY <1>2, <1>3, <1>4

(* The calls that serve the interrupts find the interrupt of a frame in    *)
(* the chip: IrqFired is set, since no interrupt is forgotten.             *)
LEMMA ServingKeeps ==
    ASSUME IInv, KeptInv, SendCall \/ SendPoll \/ ReceivePoll
    PROVE  KeptInv'
<1> SUFFICES ASSUME owed'.quiet
             PROVE  begun' /\ owed'.frame # NoFrame /\ (InChip' \/ InRegisters' \/ InDriver')
  BY DEF KeptInv
<1>0. /\ owed' = owed /\ begun' = begun /\ buffer' = buffer /\ flags' = flags
      /\ rxReady' = rxReady /\ rxFrame' = rxFrame /\ irqRegs' = irqRegs
      /\ irqStep = "none" /\ irqStep' = IF irqFired THEN "read" ELSE "none"
  BY DEF SendCall, SendPoll, ReceivePoll, CallIrq, At
<1>1. begun /\ owed.frame # NoFrame /\ (InChip \/ InRegisters \/ InDriver)
  BY <1>0 DEF KeptInv
<1>2. CASE InChip
  <2>1. irqStep' = "read"
    BY <1>0, <1>1, <1>2 DEF IInv, Safety, IrqNeverStuck, InChip
  <2> QED BY <1>0, <1>1, <1>2, <2>1 DEF InChip
<1>3. CASE InDriver
  BY <1>0, <1>1, <1>3 DEF InDriver
<1> QED BY <1>0, <1>1, <1>2, <1>3 DEF InRegisters

(* Elsewhere in send() the driver has the frame: its interrupt was served  *)
(* before the thread came here.                                            *)
LEMMA SendingKeeps ==
    ASSUME IInv, KeptInv,
           \/ SendClear \/ \E overwrites \in BOOLEAN : SendBuffer(overwrites)
           \/ \E takes \in TxTakes : SendTx(takes)
           \/ SendTimer \/ SendLeave \/ SendStandby \/ SendRxMask \/ SendRx
    PROVE  KeptInv'
<1> SUFFICES ASSUME owed'.quiet
             PROVE  begun' /\ owed'.frame # NoFrame /\ (InChip' \/ InRegisters' \/ InDriver')
  BY DEF KeptInv
<1>0. /\ owed' = owed /\ begun' = begun /\ flags' = flags
      /\ rxReady' = rxReady /\ rxFrame' = rxFrame /\ irqRegs' = irqRegs
      /\ irqStep = "none" /\ pc \in SendPcs
  BY SMTT(30) DEF SendClear, SendBuffer, SendTx, SendTimer, SendLeave, SendStandby, SendRxMask,
       SendRx, SetIrqs, At
<1>1. begun /\ owed.frame # NoFrame /\ (InChip \/ InRegisters \/ InDriver)
  BY <1>0 DEF KeptInv
<1>2. InDriver
  BY <1>0, <1>1 DEF InChip, InRegisters
<1> QED BY <1>0, <1>1, <1>2 DEF InDriver

(* receive() returning settles the debt, and so does a reset.              *)
LEMMA SettledKeeps ==
    ASSUME Reboot \/ (\E fits \in BOOLEAN : ReceiveTakes(fits)) \/ ReceiveTimesOut
    PROVE  KeptInv'
BY DEF KeptInv, Reboot, Constructed, ReceiveTakes, ReceiveTimesOut, ReceiveReturns

(* The other steps leave the frame where it is.                            *)
LEMMA QuietKeeps ==
    ASSUME IInv, KeptInv,
           \/ Begin \/ RefusedCall \/ ReceiveWaits \/ TxEnds \/ TimerFires \/ Tick
           \/ \E timeout \in Timeouts : ReceiveCall(timeout)
           \/ \E intact \in BOOLEAN : FrameStarts(intact)
           \/ UNCHANGED vars
    PROVE  KeptInv'
<1> SUFFICES ASSUME owed'.quiet
             PROVE  begun' /\ owed'.frame # NoFrame /\ (InChip' \/ InRegisters' \/ InDriver')
  BY DEF KeptInv
<1>0. owed' = owed
  BY DEF Begin, RefusedCall, ReceiveWaits, TxEnds, TimerFires, Tick, ReceiveCall, FrameStarts
<1>1. begun /\ owed.frame # NoFrame /\ (InChip \/ InRegisters \/ InDriver)
  BY <1>0 DEF KeptInv
<1>2. ~Begin
  BY <1>1 DEF Begin
<1>3. CASE TxEnds
  <2>1. flags' \in {flags, flags \cup {"TxDone"}}
    BY <1>3 DEF TxEnds, Raise, SetIrqs
  <2>2. /\ begun' = begun /\ buffer' = buffer /\ irqStep' = irqStep /\ irqRegs' = irqRegs
        /\ rxReady' = rxReady /\ rxFrame' = rxFrame /\ pc' = pc
    BY <1>3 DEF TxEnds
  <2> QED BY <1>0, <1>1, <2>1, <2>2 DEF InChip, InRegisters, InDriver
<1>4. CASE ~TxEnds
  <2>1. /\ begun' = begun /\ buffer' = buffer /\ irqStep' = irqStep /\ irqRegs' = irqRegs
        /\ rxReady' = rxReady /\ rxFrame' = rxFrame /\ flags' = flags
    BY <1>2, <1>4, SMTT(30) DEF RefusedCall, ReceiveWaits, TimerFires, Tick, ReceiveCall,
         FrameStarts, SetIrqs
  <2>2. irqStep = "none" /\ pc \in QuietPcs => pc' \in QuietPcs
    BY <1>2, <1>4, SMTT(30) DEF RefusedCall, ReceiveWaits, TimerFires, Tick, ReceiveCall,
         FrameStarts, At
  <2> QED BY <1>0, <1>1, <2>1, <2>2 DEF InChip, InRegisters, InDriver
<1> QED BY <1>3, <1>4

LEMMA KeptStep ==
    ASSUME IInv, KeptInv, [Next]_vars
    PROVE  KeptInv'
BY FrameEndsKeeps, IrqKeeps, ServingKeeps, SendingKeeps, SettledKeeps, QuietKeeps, Zenon
   DEF Next, Thread, Call, Events

(* A frame that ended while nobody was using the chip is what the next     *)
(* receive() to return hands over.                                         *)
THEOREM QuietFramesKept == Spec => KeptWhileQuiet
<1>1. Init => KeptInv
  BY DEF Init, KeptInv
<1>2. ASSUME IInv, KeptInv, [Next]_vars
      PROVE  Returned /\ owed.quiet =>
               result' = "dropped" \/ (result' = "frame" /\ got' = owed.frame)
  <2> SUFFICES ASSUME Returned, owed.quiet
               PROVE  result' = "dropped" \/ (result' = "frame" /\ got' = owed.frame)
    OBVIOUS
  <2>1. (\E fits \in BOOLEAN : ReceiveTakes(fits)) \/ ReceiveTimesOut
    BY <1>2, LeavingRecvCheck
  <2>2. irqStep = "none" /\ pc = "recvCheck"
    BY <2>1 DEF ReceiveTakes, ReceiveTimesOut, At
  <2>3. rxReady /\ rxFrame = owed.frame /\ owed.frame # NoFrame
    BY <1>2, <2>2 DEF KeptInv, InChip, InRegisters, InDriver
  <2>4. PICK fits \in BOOLEAN : ReceiveTakes(fits)
    BY <2>1, <2>3 DEF ReceiveTimesOut
  <2> QED BY <2>3, <2>4 DEF ReceiveTakes, ReceiveReturns
<1> QED BY <1>1, <1>2, KeptStep, Invariant, PTL DEF Spec, KeptWhileQuiet

(* Only a transmission and begin() cut off a frame being received.         *)
THEOREM ReceptionOnlyCutBySend == Spec => OnlySendCutsReception
<1>1. ASSUME IInv, [Next]_vars
      PROVE  air.heard /\ air'.frame = air.frame /\ ~air'.heard => pc = "sendTx" \/ ~begun
  <2> SUFFICES ASSUME air.heard, air'.frame = air.frame, ~air'.heard, begun
               PROVE  pc = "sendTx"
    OBVIOUS
  <2>1. mode = "Rx" /\ air \in AirStates
    BY <1>1 DEF IInv, TypeOK, Order, HeardOK
  <2>2. CASE Thread
    <3>1. CASE SendRx
      BY <1>1, <2>1, <3>1 DEF IInv, Safety, ModeOK, SendRx, At
    <3>2. CASE \E takes \in TxTakes : SendTx(takes)
      BY <3>2 DEF SendTx, At
    <3>3. CASE ~SendRx /\ ~(\E takes \in TxTakes : SendTx(takes))
      <4>1. CASE \E overwrites \in BOOLEAN : SendBuffer(overwrites)
        BY <4>1 DEF SendBuffer
      <4>2. CASE \E fits \in BOOLEAN : ReceiveTakes(fits)
        BY <4>2 DEF ReceiveTakes
      <4>3. CASE IrqRead \/ IrqClear \/ IrqServe \/ SendClear \/ SendTimer \/ SendPoll
        BY <4>3 DEF IrqRead, IrqClear, IrqServe, SendClear, SendTimer, SendPoll
      <4>4. CASE SendLeave \/ SendStandby \/ SendRxMask
        BY <4>4 DEF SendLeave, SendStandby, SendRxMask
      <4>5. CASE ReceivePoll \/ ReceiveTimesOut \/ ReceiveWaits
        BY <4>5 DEF ReceivePoll, ReceiveTimesOut, ReceiveWaits
      <4> QED BY <2>2, <3>3, <4>1, <4>2, <4>3, <4>4, <4>5, Zenon DEF Thread
    <3> QED BY <3>1, <3>2, <3>3
  <2>3. CASE Call
    <3>1. CASE Begin
      BY <3>1 DEF Begin
    <3>2. CASE RefusedCall \/ SendCall
      BY <3>2 DEF RefusedCall, SendCall
    <3>3. CASE \E timeout \in Timeouts : ReceiveCall(timeout)
      <4>1. receiving
        BY <1>1, <3>3 DEF IInv, Safety, ListensBetweenSends, ReceiveCall, At
      <4> QED BY <3>3, <4>1 DEF ReceiveCall
    <3> QED BY <2>3, <3>1, <3>2, <3>3, Zenon DEF Call
  <2>4. CASE Events
    <3>1. CASE FrameEnds
      BY <3>1 DEF FrameEnds
    <3>2. CASE TxEnds \/ TimerFires
      BY <3>2 DEF TxEnds, TimerFires
    <3> QED BY <2>4, <3>1, <3>2 DEF Events
  <2>5. CASE Tick
    BY <2>1, <2>5, Zenon DEF Tick, AirStates
  <2>6. CASE Reboot \/ UNCHANGED vars
    BY <2>6 DEF Reboot
  <2>7. CASE \E intact \in BOOLEAN : FrameStarts(intact)
    BY <1>1, <2>7 DEF IInv, TypeOK, FrameStarts
  <2> QED BY <1>1, <2>2, <2>3, <2>4, <2>5, <2>6, <2>7, Zenon DEF Next
<1> QED BY <1>1, Invariant, PTL DEF Spec, OnlySendCutsReception
=============================================================================
