-------------------------- MODULE EncryptedLoRaLink --------------------------
(***************************************************************************)
(* EncryptedLoRaLink wraps a link: sendPacket() seals each payload under   *)
(* the key of its network, receivePacket() passes over what it cannot      *)
(* open.  The link below is external here: it broadcasts, it may damage    *)
(* what a node hears, and its receivePacket() returns the next frame or    *)
(* gives up at the end of the time it was given.                           *)
(*                                                                         *)
(* The ciphers are perfect: a tag verifies if and only if it was made with *)
(* the same key over what arrived.  A payload is its length, an            *)
(* initialisation vector is what it is computed from.                      *)
(***************************************************************************)
EXTENDS Naturals, Sequences

CONSTANTS
    Node,
    Key,            \* per node: its network's key, or
    NoKey,          \*           none: it uses the link below directly
    Address,        \* per node: the source address it sends with
    Length,         \* the lengths of payloads that are sent
    Rooms,          \* what maxPayloadSize() of the link below may be
    RandomBytes,    \* what the random source may return
    HasClock,       \* per node: constructed with a clock
    ClockMod,       \* the clock counts modulo this
    Timeouts,       \* per node: the timeouts receivePacket() is called with
    Buffers,        \* the sizes of its buffers
    InboxSize,      \* frames the link below keeps unread
    MaxSends,       \* bound, per node: calls of sendPacket()
    MaxBoots        \* bound, per node: restarts

ASSUME EncryptedLoRaLinkAssumption ==
    /\ Length \subseteq Nat \ {0}
    /\ Rooms \subseteq Nat
    /\ HasClock \in [Node -> BOOLEAN]
    /\ ClockMod \in Nat \ {0}
    /\ Timeouts \in [Node -> SUBSET (0 .. ClockMod - 1)]
    /\ Buffers \subseteq Nat
    /\ InboxSize \in Nat \ {0}
    /\ MaxSends \in [Node -> Nat] /\ MaxBoots \in [Node -> Nat]

VARIABLES
    room,       \* maxPayloadSize() of the link below, which never changes
    ivCounter,  \* _ivCounter: 64 bits wide in the code, which no node ever exhausts
    listening,  \* the arguments of the receivePacket() in progress
    left,       \* ticks the link below still has to listen
    inbox,      \* frames it has not returned
    clock,      \* what getTime() returns
    spent,      \* history: ticks since the last receivePacket() was called
    result,     \* history: what that call returned
    sealed,     \* history: what was sealed
    ivs,        \* history: the vectors a node used since power on
    sends,      \* history: how often it has called sendPacket()
    boots       \* history: how often it has restarted

vars == <<room, ivCounter, listening, left, inbox, clock, spent, result, sealed, ivs, sends, boots>>

-----------------------------------------------------------------------------
(* Lengths *)

IVSize == 16
TagSize == 8
BlockSize == 16

Overhead == IVSize + TagSize

MaxPayloadOneBlockMore(size) ==     \* seeded fault: no byte is left for the padding
    IF size < Overhead + BlockSize THEN 0 ELSE ((size - Overhead) \div BlockSize) * BlockSize

(* The padding takes at least one byte of the last block. *)
MaxPayload(size) ==
    IF size < Overhead + BlockSize THEN 0 ELSE ((size - Overhead) \div BlockSize) * BlockSize - 1

CipherLength(len) == (len \div BlockSize + 1) * BlockSize
SealedLength(len) == Overhead + CipherLength(len)

WellFormed(wire) == wire >= Overhead + BlockSize /\ (wire - Overhead) % BlockSize = 0

-----------------------------------------------------------------------------
(* Sealing and opening *)

IVWithoutCounter(n, rand) == [random |-> rand, src |-> Address[n]]    \* seeded fault

(* The vector is a keyed hash of these. *)
IV(n, rand) == [random |-> rand, counter |-> ivCounter[n], src |-> Address[n]]

(* A frame of the link below; sealed frames differ from others in their key. *)
Frame(n, len, wire) ==
    [src |-> Address[n], key |-> Key[n], len |-> len, wire |-> wire, whole |-> TRUE]

OpensUnchecked(n, frame, maxLen) ==     \* seeded fault: only the form is checked
    WellFormed(frame.wire) /\ frame.len <= maxLen

(* Authenticate first; nothing is decrypted unless the tag is right. *)
Opens(n, frame, maxLen) ==
    /\ WellFormed(frame.wire)
    /\ frame.whole /\ frame.key = Key[n]
    /\ frame.len <= maxLen

-----------------------------------------------------------------------------
(* The link below *)

Damaged(frame) == [frame EXCEPT !.whole = FALSE]

(* Frames pass by a node that never calls receivePacket() and a full buffer. *)
Listeners(n) == {m \in Node \ {n} : Timeouts[m] # {} /\ Len(inbox[m]) < InboxSize}

OnAir(n, frame) ==
    \E hearers \in SUBSET Listeners(n) : \E damaged \in SUBSET hearers :
        inbox' = [m \in Node |->
            CASE m \in damaged            -> Append(inbox[m], Damaged(frame))
              [] m \in hearers \ damaged  -> Append(inbox[m], frame)
              [] OTHER                    -> inbox[m]]

-----------------------------------------------------------------------------
NotListening == [timeout |-> 0, maxLen |-> 0, start |-> 0, active |-> FALSE]
Nothing == [len |-> 0, src |-> 0]

Listening(n) == listening[n].active

Init ==
    /\ room \in Rooms
    /\ ivCounter = [n \in Node |-> 0]
    /\ listening = [n \in Node |-> NotListening]
    /\ left = [n \in Node |-> 0]
    /\ inbox = [n \in Node |-> <<>>]
    /\ clock \in 0 .. ClockMod - 1
    /\ spent = [n \in Node |-> 0]
    /\ result = [n \in Node |-> Nothing]
    /\ sealed = {}
    /\ ivs = [n \in Node |-> <<>>]
    /\ sends = [n \in Node |-> 0]
    /\ boots = [n \in Node |-> 0]

-----------------------------------------------------------------------------
(* sendPacket() *)

(* nextIv(): the counter moves on whatever becomes of the payload. *)
TakeIv(n) ==
    /\ \E rand \in RandomBytes : ivs' = [ivs EXCEPT ![n] = Append(@, IV(n, rand))]
    /\ ivCounter' = [ivCounter EXCEPT ![n] = @ + 1]

MaySend(n) == ~Listening(n) /\ sends[n] < MaxSends[n]

Counted(n) == sends' = [sends EXCEPT ![n] = @ + 1]

SendPacket(n, len) ==
    /\ MaySend(n) /\ Key[n] # NoKey
    /\ len <= MaxPayload(room)
    /\ TakeIv(n)
    /\ SealedLength(len) <= room
    /\ OnAir(n, Frame(n, len, SealedLength(len)))
    /\ sealed' = sealed \cup {[src |-> Address[n], key |-> Key[n], len |-> len]}
    /\ Counted(n)
    /\ UNCHANGED <<room, listening, left, clock, spent, result, boots>>

(* The seal does not fit, or the link below cannot send. *)
SendFails(n, len) ==
    /\ MaySend(n) /\ Key[n] # NoKey
    /\ len <= MaxPayload(room)
    /\ TakeIv(n)
    /\ Counted(n)
    /\ UNCHANGED <<room, listening, left, inbox, clock, spent, result, sealed, boots>>

(* Nodes that do without encryption share the medium. *)
SendPlain(n, len) ==
    /\ MaySend(n) /\ Key[n] = NoKey
    /\ len <= room
    /\ OnAir(n, Frame(n, len, len))
    /\ Counted(n)
    /\ UNCHANGED <<room, ivCounter, listening, left, clock, spent, result, sealed, ivs, boots>>

-----------------------------------------------------------------------------
(* receivePacket() *)

StartReceive(n) ==
    /\ ~Listening(n) /\ Key[n] # NoKey
    /\ \E t \in Timeouts[n], size \in Buffers :
          /\ listening' = [listening EXCEPT ![n] =
                [timeout |-> t, maxLen |-> size, active |-> TRUE,
                 start |-> IF HasClock[n] THEN clock ELSE 0]]
          /\ left' = [left EXCEPT ![n] = t]
    /\ spent' = [spent EXCEPT ![n] = 0]
    /\ UNCHANGED <<room, ivCounter, inbox, clock, result, sealed, ivs, sends, boots>>

Return(n, value) ==
    /\ listening' = [listening EXCEPT ![n].active = FALSE]
    /\ left' = [left EXCEPT ![n] = 0]
    /\ result' = [result EXCEPT ![n] = value]

(* Differences of the clock stay right when it wraps. *)
Elapsed(n) ==
    IF clock >= listening[n].start THEN clock - listening[n].start
    ELSE clock + ClockMod - listening[n].start

TakesFrame(n) ==
    /\ Listening(n) /\ inbox[n] # <<>>
    /\ inbox' = [inbox EXCEPT ![n] = Tail(@)]
    /\ UNCHANGED <<room, ivCounter, clock, spent, sealed, ivs, sends, boots>>

Deliver(n) ==
    /\ TakesFrame(n)
    /\ LET frame == Head(inbox[n])
       IN  /\ Opens(n, frame, listening[n].maxLen)
           /\ Return(n, [len |-> frame.len, src |-> frame.src])

KeepsListening(n) == HasClock[n] /\ Elapsed(n) < listening[n].timeout

RemainingForgotten(n) == listening[n].timeout     \* seeded fault: the whole time again
Remaining(n) == listening[n].timeout - Elapsed(n)

(* Not one of ours.  Without a clock the call returns; with one it listens *)
(* for what is left of its time.                                           *)
Reject(n) ==
    /\ TakesFrame(n)
    /\ ~Opens(n, Head(inbox[n]), listening[n].maxLen)
    /\ IF KeepsListening(n)
       THEN left' = [left EXCEPT ![n] = Remaining(n)] /\ UNCHANGED <<listening, result>>
       ELSE Return(n, Nothing)

ReceiveTimeout(n) ==
    /\ Listening(n) /\ left[n] = 0 /\ inbox[n] = <<>>
    /\ Return(n, Nothing)
    /\ UNCHANGED <<room, ivCounter, inbox, clock, spent, sealed, ivs, sends, boots>>

-----------------------------------------------------------------------------
(* The node loses power: the counter of vectors starts again. *)
Restart(n) ==
    /\ Key[n] # NoKey /\ boots[n] < MaxBoots[n]
    /\ boots' = [boots EXCEPT ![n] = @ + 1]
    /\ ivCounter' = [ivCounter EXCEPT ![n] = 0]
    /\ ivs' = [ivs EXCEPT ![n] = <<>>]
    /\ inbox' = [inbox EXCEPT ![n] = <<>>]
    /\ listening' = [listening EXCEPT ![n] = NotListening]
    /\ left' = [left EXCEPT ![n] = 0]
    /\ spent' = [spent EXCEPT ![n] = 0]
    /\ result' = [result EXCEPT ![n] = Nothing]
    /\ UNCHANGED <<room, clock, sealed, sends>>

(* A tick passes when every call in progress waits for a frame. *)
Tick ==
    /\ \A n \in Node : Listening(n) => left[n] > 0 /\ inbox[n] = <<>>
    /\ clock' = IF clock + 1 = ClockMod THEN 0 ELSE clock + 1
    /\ left' = [n \in Node |-> IF Listening(n) THEN left[n] - 1 ELSE left[n]]
    /\ spent' = [n \in Node |-> IF Listening(n) THEN spent[n] + 1 ELSE spent[n]]
    /\ UNCHANGED <<room, ivCounter, listening, inbox, result, sealed, ivs, sends, boots>>

Next ==
    \/ Tick
    \/ \E n \in Node :
          \/ \E len \in Length : SendPacket(n, len) \/ SendFails(n, len) \/ SendPlain(n, len)
          \/ StartReceive(n) \/ Deliver(n) \/ Reject(n) \/ ReceiveTimeout(n)
          \/ Restart(n)

Spec == Init /\ [][Next]_vars

-----------------------------------------------------------------------------
(* Properties *)

Sources == {Address[n] : n \in Node}

Frames ==
    [src : Sources, key : {Key[n] : n \in Node}, len : Length, wire : Nat, whole : BOOLEAN]

(* Every variable keeps its type, and _ivCounter counts the vectors used. *)
TypeOK ==
    /\ room \in Rooms
    /\ ivCounter \in [Node -> Nat]
    /\ ivs \in [Node -> Seq([random : RandomBytes, counter : Nat, src : Sources])]
    /\ \A n \in Node : Len(ivs[n]) = ivCounter[n]
    /\ listening \in [Node -> [timeout : 0 .. ClockMod - 1, maxLen : Nat,
                               start : 0 .. ClockMod - 1, active : BOOLEAN]]
    /\ left \in [Node -> Nat] /\ spent \in [Node -> Nat]
    /\ inbox \in [Node -> Seq(Frames)]
    /\ clock \in 0 .. ClockMod - 1
    /\ result \in [Node -> {Nothing} \cup [len : Length, src : Sources]]
    /\ sends \in [Node -> Nat] /\ boots \in [Node -> Nat]

(* The link promises no payload it cannot carry, and wastes no room: a      *)
(* payload can be sealed into a frame of the link below if and only if it   *)
(* is no longer than maxPayloadSize() (EncryptedLoRaLink.h:102), and what   *)
(* is sealed has the form that open() expects.                              *)
RoomUsed ==
    \A len \in 1 .. room :
        /\ len <= MaxPayload(room) <=> SealedLength(len) <= room
        /\ WellFormed(SealedLength(len))

(* Whatever the call rejects, it never listens past its timeout, and with  *)
(* a clock it returns nothing before that is over, also when the clock     *)
(* wraps (EncryptedLoRaLink.h:62-64).                                      *)
FullTimeout ==
    \A n \in Node :
        /\ spent[n] + left[n] <= listening[n].timeout
        /\ HasClock[n] /\ ~Listening(n) /\ result[n] = Nothing
              => spent[n] = listening[n].timeout

(* What receivePacket() returns was sealed by a node of the same network   *)
(* under that source address: neither damage, nor another network, nor     *)
(* traffic that is not sealed at all comes through (EncryptedLoRaLink.h:20-22). *)
Genuine ==
    \A n \in Node :
        result[n] # Nothing =>
            [src |-> result[n].src, key |-> Key[n], len |-> result[n].len] \in sealed

(* No vector is used twice in one power cycle of a node, although a send   *)
(* may fail and the random source may always return the same               *)
(* (EncryptedLoRaLink.cpp:93-97).                                          *)
IvsDistinct ==
    \A n \in Node : \A i, j \in DOMAIN ivs[n] : ivs[n][i] = ivs[n][j] => i = j
=============================================================================
