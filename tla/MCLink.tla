------------------------------- MODULE MCLink -------------------------------
(* Instances of LoRaLinkCore for TLC. *)
EXTENDS LoRaLinkCore, TLC

CONSTANTS a, b, c     \* nodes; also their addresses

Ask(n, dst, len, ack, retries) ==
    [srcId |-> n, destId |-> dst, len |-> len, requestAck |-> ack, maxRetries |-> retries]
Read(maxLen, timeout) == [maxLen |-> maxLen, timeout |-> timeout]

OwnIds == [n \in Node |-> {n}]
UnitAir == [len \in 0 .. 2 |-> 1]

PairNodes == {a, b}
PairAddrs == {a, b, Broadcast, Unset}
PairRequests == (a :> {Ask(a, b, 1, TRUE, 2)}) @@ (b :> {Ask(b, a, 1, TRUE, 2)})
PairReads == [n \in PairNodes |-> {Read(1, 0), Read(1, 2)}]
PairCalls == (a :> 2) @@ (b :> 1)

TrioNodes == {a, b, c}
TrioAddrs == {a, b, c, Broadcast, Unset}
TrioRequests == (a :> {Ask(a, b, 1, TRUE, 2)}) @@ (b :> {Ask(b, Broadcast, 1, TRUE, 2)})
                @@ (c :> {Ask(c, b, 1, TRUE, 2)})
TrioReads == [n \in TrioNodes |-> {Read(1, 1)}]
TrioCalls == (a :> 1) @@ (b :> 1) @@ (c :> 1)

TwoIds == (a :> {a}) @@ (b :> {b, c})
TwoIdsAddrs == {a, b, c, Broadcast, Unset}
TwoIdsReads == [n \in PairNodes |-> {Read(1, 2)}]
ThreeTries == (a :> {Ask(a, b, 1, TRUE, 3)}) @@ (b :> {Ask(b, a, 2, TRUE, 1)})
SlowAir == [len \in 0 .. 2 |-> 4]
EmptyFirst == (a :> {Ask(a, b, 0, TRUE, 2)}) @@ (b :> {Ask(b, a, 1, TRUE, 1)})
OnceEach == [n \in Node |-> 1]
SlowLong == (1 :> 1) @@ (2 :> 3)
MixedLengths == (a :> {Ask(a, b, 2, TRUE, 2)}) @@ (b :> {}) @@ (c :> {Ask(c, b, 1, TRUE, 1)})
MostlyBReads == (a :> {Read(2, 0)}) @@ (b :> {Read(2, 0), Read(2, 2)}) @@ (c :> {Read(2, 0)})
=============================================================================
