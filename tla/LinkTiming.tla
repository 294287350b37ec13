---------------------------- MODULE LinkTiming ----------------------------
(***************************************************************************)
(* Timing rules of LoRaLinkCore: the backoff slot, the random delays, the  *)
(* ACK wait and the duplicate window, as functions of the time on air.     *)
(* Times are ticks of an abstract clock; the constants that the code fixes *)
(* in milliseconds (100, 16, 20, 5000, ...) are parameters so that a small *)
(* instance keeps their order.                                             *)
(***************************************************************************)
EXTENDS Integers

CONSTANTS
    AirTime,              \* function from a payload length to the time on air of its frame
    AckAirTime,           \* time on air of an ACK frame
    ReportsAirtime,       \* does the driver implement IRadio::timeOnAirMs()?
    ConfiguredAckTimeout, \* setAckTimeoutMs()
    ConfiguredDupWindow,  \* setDuplicateWindowMs()
    DefaultSlot,          \* DEFAULT_SLOT_MS
    MaxBackoffSlots,      \* MAX_BACKOFF_SLOTS
    SlotMargin,           \* the 20 ms added to a slot
    AckMargin,            \* the 100 ms added to the ACK wait
    AccessDelay           \* TRUE for LoRaBackoffLink, FALSE for LoRaBasicLink

ASSUME TimingAssumption ==
    /\ \A len \in DOMAIN AirTime : AirTime[len] \in Nat
    /\ AckAirTime \in Nat
    /\ ReportsAirtime \in BOOLEAN
    /\ ConfiguredAckTimeout \in Nat
    /\ ConfiguredDupWindow \in Nat
    /\ DefaultSlot \in Nat \ {0}
    /\ MaxBackoffSlots \in Nat \ {0}
    /\ SlotMargin \in Nat
    /\ AckMargin \in Nat
    /\ AccessDelay \in BOOLEAN

(* What timeOnAirMs() answers: 0 when the driver does not implement it. *)
Reported(air) == IF ReportsAirtime THEN air ELSE 0

SlotMs(len) ==
    IF Reported(AirTime[len]) = 0
    THEN DefaultSlot
    ELSE AirTime[len] + AckAirTime + SlotMargin

EffectiveAckTimeout ==
    LET needed == 2 * AckAirTime + AckMargin
    IN  IF Reported(AckAirTime) > 0 /\ needed > ConfiguredAckTimeout
        THEN needed
        ELSE ConfiguredAckTimeout

(* Seeded fault: the backoff does not count. *)
WindowWithoutBackoff(len) == EffectiveAckTimeout + SlotMs(len)

EffectiveDupWindow(len) ==
    LET worstGap == EffectiveAckTimeout + (MaxBackoffSlots + 2) * SlotMs(len)
    IN  IF worstGap > ConfiguredDupWindow THEN worstGap ELSE ConfiguredDupWindow

(* The values randomBelow(bound) can return. *)
RandomBelow(bound) == IF bound = 0 THEN {0} ELSE 0 .. bound - 1

(* preSendDelayMs(): none on the basic link, 10% to 50% of a slot on the backoff link. *)
PreSendDelays(slot) ==
    IF AccessDelay
    THEN { slot \div 10 + r : r \in RandomBelow((slot * 4) \div 10) }
    ELSE {0}

(* retryDelayMs(): the window starts at two slots and doubles up to MaxBackoffSlots. *)
RetryDelays(attempt, slot) ==
    { d \in RandomBelow(MaxBackoffSlots * slot) : d < 2 ^ (attempt + 1) * slot }
===========================================================================
