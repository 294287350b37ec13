--------------------------- MODULE MCLinkDelivery ---------------------------
(* An instance of which every hypothesis of LinkDeliveryProofs holds, both *)
(* with the times that follow from its own and with those of the code.     *)
EXTENDS MCLink, LinkDeliveryProofs

Sets == INSTANCE FiniteSetsExt

TriesOf(len) ==
    Sets!Max({1} \cup {Tries(r) : r \in {q \in UNION {Requests[n] : n \in Node} :
                                           WantsAck(q) /\ q.len = len}})

(* The longest time between the ends of transmissions k and k + 1. *)
Gap(len, k) ==
    EffectiveAckTimeout + AirTime[len] + Sets!Max(RetryDelays(k, SlotMs(len)))
        + Sets!Max(PreSendDelays(SlotMs(len)))

Lapse ==
    [len \in Payload |-> [k \in 0 .. TriesOf(len) - 1 |->
        Sets!MapThenSumSet(LAMBDA i : Gap(len, i), k .. TriesOf(len) - 2)]]

Unread == [n \in Node |-> Sets!Max({0} \cup {Tries(r) * AirTime[r.len] : r \in Requests[n]})]

ASSUME InstanceIsTimely == TimelyLink(Lapse, Unread)
ASSUME InstanceKeepsMessages == ReadsFit /\ DistinctIds /\ NoWrap
ASSUME InstanceHasCodeTimes == CodeTimes
=============================================================================
