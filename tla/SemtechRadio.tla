---------------------------- MODULE SemtechRadio ----------------------------
(* The SX126x driver of the ESP32 example (SemtechRadio.cpp), the part of  *)
(* the vendor radio layer it runs on (RadioSend, RadioRx, RadioStandby and *)
(* RadioIrqProcess of radio.c) and the chip below them.                    *)
(*                                                                         *)
(* One thread calls the driver and talks to the chip one SPI command at a  *)
(* time.  Meanwhile the chip finishes frames, the DIO1 interrupt and the   *)
(* software timer of a transmission run: their steps fall between any two  *)
(* steps of the thread.  Time is counted in ticks and passes only in       *)
(* delay(1) and between calls, since a command takes microseconds and a    *)
(* frame many milliseconds: no two frames complete in the same tick.       *)
(*                                                                         *)
(* A frame is its number, in the order the frames go on the air; NoFrame   *)
(* stands for bytes that are not a frame from the air: this node's own     *)
(* payload, or a frame the payload was written over.                       *)
EXTENDS Integers

CONSTANTS
    MaxFrames,      \* bound: frames other nodes put on the air
    AirTime,        \* time on air of such a frame, in ticks
    TxTakes,        \* times the chip may take to transmit; Off: it never finishes
    SendLimit,      \* how long send() waits: time on air + 500 ms
    TxTimeout,      \* TxTimeoutTimer: longest time on air + 1000 ms, at least 3000
    Timeouts        \* timeouts receive() is called with

(* A frame has a time on air.  The software timer outlasts send()'s wait:  *)
(* 500 ms more than the frame against 1000 ms more than the longest frame. *)
ASSUME TimesAssumption ==
    /\ MaxFrames \in Nat
    /\ AirTime \in Nat \ {0}
    /\ SendLimit \in Nat \ {0}
    /\ TxTakes \subseteq (Nat \ {0}) \cup {-1} /\ TxTakes # {}
    /\ TxTimeout \in Nat /\ SendLimit < TxTimeout
    /\ Timeouts \subseteq Nat

VARIABLES
    (* SemtechRadio *)
    begun, receiving, txDone, txFailed, rxReady,
    rxFrame,        \* what _rxBuffer holds
    pc,             \* where the calling thread is
    left,           \* ticks left to the deadline of the current loop
    (* radio.c *)
    irqFired,       \* set by the DIO1 interrupt
    irqStep,        \* step of RadioIrqProcess the thread is at
    irqRegs,        \* its local copy of the interrupt status
    timer,          \* ticks left on TxTimeoutTimer, or Off
    (* the chip *)
    mode, mask,
    flags,          \* the interrupt status register
    buffer,         \* the data buffer, where frames and payloads both start at 0
    txLeft,         \* ticks left of the transmission in progress, or Off
    (* the air around the node *)
    frames,         \* frames put on the air so far
    air,            \* the frame on the air
    (* what happened, for the properties *)
    result, got, owed, racing, aired, lastOk

driver == <<begun, receiving, txDone, txFailed, rxReady, rxFrame>>
irq == <<irqFired, irqStep, irqRegs>>
chip == <<mode, mask, flags, buffer, txLeft>>
sky == <<frames, air>>
history == <<result, got, owed, racing, aired, lastOk>>
vars == <<driver, pc, left, irq, timer, chip, sky, history>>

NoFrame == 0
Frame == 1 .. MaxFrames
Off == -1
RxIrqs == {"RxDone", "CrcError"}
TxIrqs == {"TxDone"}
SendPcs == {"sendClear", "sendBuffer", "sendTx", "sendTimer", "sendLoop", "sendDelay",
            "sendStandby", "sendRxMask", "sendRx"}
ReceivePcs == {"recvPoll", "recvCheck", "recvDelay"}
Silence == [frame |-> NoFrame, left |-> 0, intact |-> FALSE, heard |-> FALSE]
QuietPcs == {"idle", "recvPoll", "recvDelay"}
Nothing == [frame |-> NoFrame, quiet |-> FALSE]

AirStates == [frame : 0 .. MaxFrames, left : Nat, intact : BOOLEAN, heard : BOOLEAN]
Claims == [frame : 0 .. MaxFrames, quiet : BOOLEAN]

FlagsOK ==
    /\ begun \in BOOLEAN /\ receiving \in BOOLEAN /\ txDone \in BOOLEAN /\ txFailed \in BOOLEAN
    /\ rxReady \in BOOLEAN /\ irqFired \in BOOLEAN /\ aired \in BOOLEAN /\ lastOk \in BOOLEAN

TypeOK ==
    /\ FlagsOK
    /\ rxFrame \in 0 .. MaxFrames /\ buffer \in 0 .. MaxFrames
    /\ got \in 0 .. MaxFrames /\ frames \in 0 .. MaxFrames
    /\ pc \in {"idle"} \cup SendPcs \cup ReceivePcs
    /\ left \in Nat /\ txLeft \in Nat \cup {Off} /\ timer \in Nat \cup {Off}
    /\ irqStep \in {"none", "read", "clear", "serve"}
    /\ irqRegs \subseteq RxIrqs \cup TxIrqs /\ flags \subseteq RxIrqs \cup TxIrqs
    /\ mask \subseteq RxIrqs \cup TxIrqs
    /\ mode \in {"Standby", "Rx", "Tx"}
    /\ air \in AirStates
    /\ result \in {"none", "sent", "failed", "nothing", "dropped", "frame"}
    /\ racing \subseteq Frame
    /\ owed \in Claims

(* The state after a reset of the processor.  The chip is not reset with   *)
(* it: Init has it in standby, Reboot leaves it as it is.                  *)
Constructed ==
    /\ begun' = FALSE /\ receiving' = FALSE /\ txDone' = FALSE /\ txFailed' = FALSE
    /\ rxReady' = FALSE /\ rxFrame' = NoFrame
    /\ pc' = "idle" /\ left' = 0
    /\ irqFired' = FALSE /\ irqStep' = "none" /\ irqRegs' = {}
    /\ timer' = Off
    /\ result' = "none" /\ owed' = Nothing /\ aired' = FALSE /\ lastOk' = TRUE

Init ==
    /\ begun = FALSE /\ receiving = FALSE /\ txDone = FALSE /\ txFailed = FALSE
    /\ rxReady = FALSE /\ rxFrame = NoFrame
    /\ pc = "idle" /\ left = 0
    /\ irqFired = FALSE /\ irqStep = "none" /\ irqRegs = {}
    /\ timer = Off
    /\ mode = "Standby" /\ mask = {} /\ flags = {} /\ buffer = NoFrame /\ txLeft = 0
    /\ frames = 0 /\ air = Silence
    /\ result = "none" /\ got = NoFrame /\ racing = {} /\ owed = Nothing /\ aired = FALSE /\ lastOk = TRUE

-----------------------------------------------------------------------------
(* The chip: DIO1 is high while an enabled interrupt is pending, and the   *)
(* processor's interrupt fires on its rising edge.                         *)

Pending(f, m) == f \cap m # {}
SetIrqs(f, m) ==
    /\ flags' = f
    /\ mask' = m
    /\ irqFired' = (irqFired \/ (begun /\ ~Pending(flags, mask) /\ Pending(f, m)))
Raise(events) == SetIrqs(flags \cup (events \cap mask), mask)

(* Whatever the receiver was hearing is lost when it stops or restarts.    *)
CutReception == air' = [air EXCEPT !.heard = FALSE]

FrameStarts(intact) ==
    /\ air.frame = NoFrame /\ frames < MaxFrames
    /\ frames' = frames + 1
    /\ air' = [frame |-> frames + 1, left |-> AirTime, intact |-> intact, heard |-> mode = "Rx"]
    /\ UNCHANGED <<driver, pc, left, irq, timer, chip, history>>

(* The frame is over.  If it was heard its bytes are in the buffer and the *)
(* enabled ones of its interrupts are raised.  An intact frame is owed to  *)
(* the caller of receive(), in place of an earlier one; "quiet" says that  *)
(* it ended while nobody was using the chip.                               *)
FrameEnds ==
    /\ air.frame # NoFrame /\ air.left = 0
    /\ air' = Silence
    /\ IF air.heard
       THEN /\ Raise(IF air.intact THEN {"RxDone"} ELSE RxIrqs)
            /\ buffer' = IF air.intact THEN air.frame ELSE NoFrame
            /\ owed' = IF air.intact /\ begun
                       THEN [frame |-> air.frame,
                             quiet |-> pc \in QuietPcs /\ "CrcError" \notin flags]
                       ELSE Nothing
            /\ racing' = IF irqStep = "serve" THEN racing \cup {air.frame} ELSE racing
       ELSE UNCHANGED <<flags, mask, irqFired, buffer, owed, racing>>
    /\ UNCHANGED <<driver, pc, left, irqStep, irqRegs, timer, mode, txLeft, frames,
                   result, got, aired, lastOk>>

TxEnds ==
    /\ mode = "Tx" /\ txLeft = 0
    /\ mode' = "Standby"
    /\ Raise({"TxDone"})
    /\ aired' = TRUE
    /\ UNCHANGED <<driver, pc, left, irqStep, irqRegs, timer, buffer, txLeft, sky,
                   result, got, owed, racing, lastOk>>

(* RadioOnTxTimeoutIrq: runs beside the thread, wherever that is.          *)
TimerFires ==
    /\ timer = 0
    /\ timer' = Off
    /\ txFailed' = TRUE
    /\ UNCHANGED <<begun, receiving, txDone, rxReady, rxFrame, pc, left, irq, chip, sky, history>>

-----------------------------------------------------------------------------
(* RadioIrqProcess.  CallIrq is the call, up to IrqFired = false; the      *)
(* caller goes on when irqStep is "none" again.                            *)

CallIrq ==
    /\ irqStep' = IF irqFired THEN "read" ELSE "none"
    /\ irqFired' = FALSE
    /\ UNCHANGED irqRegs

IrqRead ==
    /\ irqStep = "read"
    /\ irqRegs' = flags
    /\ irqStep' = "clear"
    /\ UNCHANGED <<driver, pc, left, irqFired, timer, chip, sky, history>>

IrqClear ==
    /\ irqStep = "clear"
    /\ irqStep' = "serve"
    /\ SetIrqs({}, mask)
    /\ UNCHANGED <<driver, pc, left, irqRegs, timer, mode, buffer, txLeft, sky, history>>

(* Seeded fault: IrqFired is reset at the end of RadioIrqProcess. *)
IrqServeThenReset ==
    /\ irqStep = "serve"
    /\ irqStep' = "none"
    /\ irqRegs' = {}
    /\ irqFired' = FALSE
    /\ timer' = IF "TxDone" \in irqRegs THEN Off ELSE timer
    /\ txDone' = (txDone \/ "TxDone" \in irqRegs)
    /\ IF "RxDone" \in irqRegs /\ "CrcError" \notin irqRegs
       THEN rxReady' = TRUE /\ rxFrame' = buffer
       ELSE UNCHANGED <<rxReady, rxFrame>>
    /\ UNCHANGED <<begun, receiving, txFailed, pc, left, chip, sky, history>>

(* Seeded fault: a finished transmission does not stop its timer. *)
IrqServeTimerRunning ==
    /\ irqStep = "serve"
    /\ irqStep' = "none"
    /\ irqRegs' = {}
    /\ txDone' = (txDone \/ "TxDone" \in irqRegs)
    /\ IF "RxDone" \in irqRegs /\ "CrcError" \notin irqRegs
       THEN rxReady' = TRUE /\ rxFrame' = buffer
       ELSE UNCHANGED <<rxReady, rxFrame>>
    /\ UNCHANGED <<begun, receiving, txFailed, pc, left, irqFired, timer, chip, sky, history>>

(* The callbacks.  onRxDoneStatic copies what the chip's buffer holds now. *)
IrqServe ==
    /\ irqStep = "serve"
    /\ irqStep' = "none"
    /\ irqRegs' = {}
    /\ timer' = IF "TxDone" \in irqRegs THEN Off ELSE timer
    /\ txDone' = (txDone \/ "TxDone" \in irqRegs)
    /\ IF "RxDone" \in irqRegs /\ "CrcError" \notin irqRegs
       THEN rxReady' = TRUE /\ rxFrame' = buffer
       ELSE UNCHANGED <<rxReady, rxFrame>>
    /\ UNCHANGED <<begun, receiving, txFailed, pc, left, irqFired, chip, sky, history>>

-----------------------------------------------------------------------------
(* begin() and resets                                                      *)

At(where) == pc = where /\ irqStep = "none"

(* Radio.Init resets the chip; begin() ends with the receiver on.          *)
Begin ==
    /\ At("idle") /\ ~begun
    /\ begun' = TRUE /\ receiving' = TRUE /\ rxReady' = FALSE
    /\ irqFired' = FALSE /\ timer' = Off
    /\ mode' = "Rx" /\ mask' = RxIrqs /\ flags' = {} /\ buffer' = NoFrame /\ txLeft' = 0
    /\ CutReception
    /\ UNCHANGED <<txDone, txFailed, rxFrame, pc, left, irqStep, irqRegs, frames, history>>

Reboot ==
    /\ begun
    /\ Constructed
    /\ UNCHANGED <<chip, sky, got, racing>>

(* A call before begin(), or with arguments the driver refuses.            *)
RefusedCall ==
    /\ At("idle")
    /\ result' \in {"failed", "nothing"}
    /\ UNCHANGED <<driver, pc, left, irq, timer, chip, sky, got, owed, racing, aired, lastOk>>

-----------------------------------------------------------------------------
(* send()                                                                  *)

(* Seeded fault: send() does not serve the interrupts first. *)
SendCallUnserved ==
    /\ At("idle") /\ begun
    /\ pc' = "sendClear"
    /\ UNCHANGED <<driver, left, irq, timer, chip, sky, history>>

SendCall ==
    /\ At("idle") /\ begun
    /\ pc' = "sendClear"
    /\ CallIrq
    /\ UNCHANGED <<driver, left, timer, chip, sky, history>>

(* Seeded fault: _txDone keeps what an earlier call left in it. *)
SendClearKeepingDone ==
    /\ At("sendClear")
    /\ pc' = "sendBuffer"
    /\ txFailed' = FALSE /\ receiving' = FALSE
    /\ aired' = FALSE
    /\ SetIrqs(flags, TxIrqs)
    /\ UNCHANGED <<begun, txDone, rxReady, rxFrame, left, irqStep, irqRegs, timer, mode, buffer,
                   txLeft, sky, result, got, owed, racing, lastOk>>

(* The three flags, then RadioSend: the interrupts of a transmission ...   *)
SendClear ==
    /\ At("sendClear")
    /\ pc' = "sendBuffer"
    /\ txDone' = FALSE /\ txFailed' = FALSE /\ receiving' = FALSE
    /\ aired' = FALSE
    /\ SetIrqs(flags, TxIrqs)
    /\ UNCHANGED <<begun, rxReady, rxFrame, left, irqStep, irqRegs, timer, mode, buffer,
                   txLeft, sky, result, got, owed, racing, lastOk>>

(* ... the payload into the buffer, over the frame a pending RxDone is     *)
(* about if that frame lies at the start too ...                           *)
SendBuffer(overwrites) ==
    /\ At("sendBuffer")
    /\ pc' = "sendTx"
    /\ buffer' = IF overwrites THEN NoFrame ELSE buffer
    /\ UNCHANGED <<driver, left, irq, timer, mode, mask, flags, txLeft, sky, history>>

(* ... transmit ...                                                        *)
SendTx(takes) ==
    /\ At("sendTx")
    /\ pc' = "sendTimer"
    /\ mode' = "Tx" /\ txLeft' = takes
    /\ CutReception
    /\ UNCHANGED <<driver, left, irq, timer, mask, flags, buffer, frames, history>>

(* ... and start the timer.                                                *)
SendTimer ==
    /\ At("sendTimer")
    /\ pc' = "sendLoop"
    /\ timer' = TxTimeout
    /\ left' = SendLimit
    /\ UNCHANGED <<driver, irq, chip, sky, history>>

(* Seeded fault: only the end of the transmission ends the wait. *)
WaitingForDone == ~txDone

Waiting == ~txDone /\ ~txFailed /\ left > 0

SendPoll ==
    /\ At("sendLoop") /\ Waiting
    /\ pc' = "sendDelay"
    /\ CallIrq
    /\ UNCHANGED <<driver, left, timer, chip, sky, history>>

SendLeave ==
    /\ At("sendLoop") /\ ~Waiting
    /\ pc' = IF txDone THEN "sendRxMask" ELSE "sendStandby"
    /\ result' = IF txDone THEN "sent" ELSE "failed"
    /\ lastOk' = txDone
    /\ UNCHANGED <<driver, left, irq, timer, chip, sky, got, owed, racing, aired>>

(* Seeded fault: a failed send() returns without listening again. *)
SendStandbyReturns ==
    /\ At("sendStandby")
    /\ pc' = "idle"
    /\ mode' = "Standby" /\ txLeft' = 0
    /\ UNCHANGED <<driver, left, irq, timer, mask, flags, buffer, sky, history>>

(* Standby() aborts the transmission but leaves its timer running.         *)
SendStandby ==
    /\ At("sendStandby")
    /\ pc' = "sendRxMask"
    /\ mode' = "Standby" /\ txLeft' = 0
    /\ UNCHANGED <<driver, left, irq, timer, mask, flags, buffer, sky, history>>

(* startReceiving(): Radio.Rx(0) is two commands that matter here.         *)
SendRxMask ==
    /\ At("sendRxMask")
    /\ pc' = "sendRx"
    /\ SetIrqs(flags, RxIrqs)
    /\ UNCHANGED <<driver, left, irqStep, irqRegs, timer, mode, buffer, txLeft, sky, history>>

SendRx ==
    /\ At("sendRx")
    /\ pc' = "idle"
    /\ mode' = "Rx" /\ txLeft' = 0
    /\ receiving' = TRUE
    /\ CutReception
    /\ UNCHANGED <<begun, txDone, txFailed, rxReady, rxFrame, left, irq, timer, mask, flags,
                   buffer, frames, history>>

-----------------------------------------------------------------------------
(* receive()                                                               *)

(* Seeded fault: every call starts the receiver, as version 1 did. *)
ReceiveCallRestarting(timeout) ==
    /\ At("idle") /\ begun
    /\ pc' = "recvPoll"
    /\ left' = timeout
    /\ receiving' = TRUE /\ mode' = "Rx" /\ SetIrqs(flags, RxIrqs) /\ CutReception
    /\ UNCHANGED <<begun, txDone, txFailed, rxReady, rxFrame, irqStep, irqRegs, timer,
                   buffer, txLeft, frames, history>>

(* Only a driver that is not receiving starts the receiver.                *)
ReceiveCall(timeout) ==
    /\ At("idle") /\ begun
    /\ pc' = "recvPoll"
    /\ left' = timeout
    /\ IF receiving
       THEN UNCHANGED <<receiving, mode, mask, flags, irqFired, air>>
       ELSE receiving' = TRUE /\ mode' = "Rx" /\ SetIrqs(flags, RxIrqs) /\ CutReception
    /\ UNCHANGED <<begun, txDone, txFailed, rxReady, rxFrame, irqStep, irqRegs, timer,
                   buffer, txLeft, frames, history>>

ReceivePoll ==
    /\ At("recvPoll")
    /\ pc' = "recvCheck"
    /\ CallIrq
    /\ UNCHANGED <<driver, left, timer, chip, sky, history>>

ReceiveReturns(how) ==
    /\ pc' = "idle"
    /\ result' = how
    /\ owed' = Nothing

(* Seeded fault: _rxReady stays set. *)
ReceiveTakesAgain(fits) ==
    /\ At("recvCheck") /\ rxReady
    /\ ReceiveReturns(IF fits THEN "frame" ELSE "dropped")
    /\ got' = IF rxFrame = NoFrame THEN got ELSE rxFrame
    /\ UNCHANGED <<driver, left, irq, timer, chip, sky, racing, aired, lastOk>>

(* A frame longer than the caller's buffer is dropped.                     *)
ReceiveTakes(fits) ==
    /\ At("recvCheck") /\ rxReady
    /\ rxReady' = FALSE
    /\ ReceiveReturns(IF fits THEN "frame" ELSE "dropped")
    /\ got' = IF rxFrame = NoFrame THEN got ELSE rxFrame
    /\ UNCHANGED <<begun, receiving, txDone, txFailed, rxFrame, left, irq, timer, chip, sky,
                   racing, aired, lastOk>>

ReceiveTimesOut ==
    /\ At("recvCheck") /\ ~rxReady /\ left = 0
    /\ ReceiveReturns("nothing")
    /\ UNCHANGED <<driver, left, irq, timer, chip, sky, got, racing, aired, lastOk>>

ReceiveWaits ==
    /\ At("recvCheck") /\ ~rxReady /\ left > 0
    /\ pc' = "recvDelay"
    /\ UNCHANGED <<driver, left, irq, timer, chip, sky, history>>

-----------------------------------------------------------------------------
(* A millisecond passes: in delay(1), or while the application computes.   *)
(* What is due in this tick happens before the next one.                   *)

Due == (air.frame # NoFrame /\ air.left = 0) \/ (mode = "Tx" /\ txLeft = 0) \/ timer = 0

Less(n) == IF n > 0 THEN n - 1 ELSE n

Tick ==
    /\ ~Due
    /\ \/ At("idle") /\ pc' = "idle"
       \/ At("sendDelay") /\ pc' = "sendLoop"
       \/ At("recvDelay") /\ pc' = "recvPoll"
    /\ left' = Less(left)
    /\ timer' = Less(timer)
    /\ txLeft' = Less(txLeft)
    /\ air' = [air EXCEPT !.left = Less(@)]
    /\ UNCHANGED <<driver, irq, mode, mask, flags, buffer, frames, history>>

Thread ==
    \/ IrqRead \/ IrqClear \/ IrqServe
    \/ SendClear \/ \E overwrites \in BOOLEAN : SendBuffer(overwrites)
    \/ \E takes \in TxTakes : SendTx(takes)
    \/ SendTimer \/ SendPoll \/ SendLeave \/ SendStandby \/ SendRxMask \/ SendRx
    \/ ReceivePoll \/ \E fits \in BOOLEAN : ReceiveTakes(fits)
    \/ ReceiveTimesOut \/ ReceiveWaits

Call ==
    \/ Begin \/ RefusedCall \/ SendCall
    \/ \E timeout \in Timeouts : ReceiveCall(timeout)

Events == FrameEnds \/ TxEnds \/ TimerFires

Next ==
    \/ Thread \/ Call \/ Events \/ Tick \/ Reboot
    \/ \E intact \in BOOLEAN : FrameStarts(intact)

Spec == Init /\ [][Next]_vars

(* The thread keeps running, time passes, and what is due happens.         *)
FairSpec == Spec /\ WF_vars(Thread) /\ WF_vars(Tick) /\ WF_vars(Events)
-----------------------------------------------------------------------------
(* Properties                                                              *)

(* An interrupt is never forgotten: DIO1 interrupts on its rising edge     *)
(* only, so whenever the chip has an event pending either IrqFired is set  *)
(* or RadioIrqProcess is on its way to clearing the chip's register.  If   *)
(* both were lost the line would stay high and no edge would ever come.    *)
IrqNeverStuck ==
    begun /\ flags # {} => irqFired \/ irqStep \in {"read", "clear"}

(* A send() that returns true sent its own frame: the chip has finished a  *)
(* transmission that this call started, not an earlier one whose interrupt *)
(* came late, after that call had given up (_txDone).                      *)
SentMeansAired ==
    pc \in {"sendRxMask", "sendRx"} /\ result = "sent" => aired

(* No deaf gap: between calls and inside receive() the chip is in receive  *)
(* with its receive interrupts enabled, however the last send() ended.     *)
ListensBetweenSends ==
    begun /\ pc \in {"idle"} \cup ReceivePcs => mode = "Rx" /\ mask = RxIrqs /\ receiving

(* A frame that is being received is only cut off by a transmission or by  *)
(* begin(), never by receive() or its timeout.                             *)
OnlySendCutsReception ==
    [][air.heard /\ air'.frame = air.frame /\ ~air'.heard => pc = "sendTx" \/ ~begun]_vars

Returned == pc = "recvCheck" /\ pc' = "idle" /\ begun'

(* A frame that completes while the application runs or receive() sleeps,  *)
(* with no frame's CRC error still unserved, is what the next receive() to *)
(* return hands over, send() calls in between or not, unless another frame *)
(* ends before that call returns.  (SemtechRadio.h says so of every frame; *)
(* but when a damaged one ends before it, and both before the interrupts   *)
(* are served, RadioIrqProcess reports the error and drops the good one.)  *)
KeptWhileQuiet ==
    [][Returned /\ owed.quiet =>
         result' = "dropped" \/ (result' = "frame" /\ got' = owed.frame)]_vars

(* receive() never hands over an older frame after a newer one, and the    *)
(* same frame twice only if it completed between RadioIrqProcess clearing  *)
(* the interrupts and reading the buffer: then it is read early, in place  *)
(* of the frame the interrupt was about, and again for its own interrupt.  *)
NoReplay ==
    [][Returned /\ result' = "frame" /\ rxFrame # NoFrame =>
         rxFrame > got \/ (rxFrame = got /\ got \in racing)]_vars

(* A send() gives up before its time limit only after a send() that failed *)
(* as well: the timer it trips over was left running by that one.          *)
EarlyFailureFollowsFailure ==
    [][At("sendLoop") /\ pc' = "sendStandby" /\ left > 0 => ~lastOk]_vars

(* send() and receive() return, also when the chip never reports the end   *)
(* of the transmission and when no frame comes.                            *)
CallsReturn == pc # "idle" ~> pc = "idle"
=============================================================================
