--------------------------- MODULE LplCryptoProofs ---------------------------
(***************************************************************************)
(* For keys and messages of any length: a message that is hashed piece by  *)
(* piece gets the digest of the whole, HmacSha256 makes the HMAC of        *)
(* RFC 2104, which tells messages of one length apart, and AES-CBC gives   *)
(* back what it was given.                                                 *)
(*                                                                         *)
(* The argument about hashing follows update() turn by turn: the chain and *)
(* the filled part of the buffer are always what went in so far (Taken).   *)
(* That the recursive functions have a value at every turn, and for every  *)
(* block of a cipher, is by induction (EveryNatural).                      *)
(***************************************************************************)
EXTENDS LplCrypto, SequenceTheorems, WellFoundedInduction, TLAPS

-----------------------------------------------------------------------------
(* Induction *)

LEMMA EveryNatural ==
    ASSUME NEW S, S \subseteq Nat, 0 \in S, \A n \in S : n + 1 \in S
    PROVE  S = Nat
<1> DEFINE less == {pair \in Nat \X Nat : pair[1] < pair[2]}
<1>1. IsWellFoundedOn(less, Nat)
    <2>1. less = OpToRel(<, Nat)
        BY Zenon DEF OpToRel
    <2> QED BY <2>1, NatLessThanWellFounded, Zenon
<1> HIDE DEF less
<1>2. SUFFICES ASSUME Nat \ S # {} PROVE FALSE
    OBVIOUS
<1>3. PICK least \in Nat \ S : \A m \in Nat \ S : <<m, least>> \notin less
    BY <1>1, <1>2, WFMin, Zenon
<1>4. least # 0 /\ least - 1 \in Nat
    BY <1>3
<1>5. <<least - 1, least>> \in less
    BY <1>4 DEF less
<1>6. least - 1 \in S
    BY <1>3, <1>4, <1>5
<1> QED BY <1>3, <1>4, <1>6

(* What the turns of the loop compute exists, and so the recursive function *)
(* of Absorbed is one.                                                      *)
LEMMA TurnsComputed ==
    ASSUME NEW start, NEW n \in Nat
    PROVE  \E f : f = [t \in 0 .. n |-> IF t = 0 THEN start ELSE Pass(f[t - 1])]
<1> DEFINE good == {k \in Nat : \E f : f = [t \in 0 .. k |-> IF t = 0 THEN start ELSE Pass(f[t - 1])]}
<1>1. 0 \in good
    <2> DEFINE f == [t \in 0 .. 0 |-> start]
    <2>1. f = [t \in 0 .. 0 |-> IF t = 0 THEN start ELSE Pass(f[t - 1])]
        OBVIOUS
    <2> QED BY <2>1, Zenon
<1>2. ASSUME NEW k \in good PROVE k + 1 \in good
    <2>1. k \in Nat /\ \E f : f = [t \in 0 .. k |-> IF t = 0 THEN start ELSE Pass(f[t - 1])]
        OBVIOUS
    <2>2. PICK f : f = [t \in 0 .. k |-> IF t = 0 THEN start ELSE Pass(f[t - 1])]
        BY <2>1, Zenon
    <2> DEFINE g == [t \in 0 .. k + 1 |-> IF t = k + 1 THEN Pass(f[k]) ELSE f[t]]
               h == [t \in 0 .. k + 1 |-> IF t = 0 THEN start ELSE Pass(g[t - 1])]
    <2>3. ASSUME NEW t \in 0 .. k + 1 PROVE g[t] = h[t]
        <3>1. CASE t = k + 1
            <4>1. g[t] = Pass(f[k])
                BY <2>1, <3>1
            <4>2. g[t - 1] = f[k] /\ t # 0
                BY <2>1, <3>1
            <4> QED BY <4>1, <4>2, Zenon
        <3>2. CASE t \in 0 .. k /\ t # 0
            <4>1. g[t] = f[t] /\ t # k + 1
                BY <2>1, <3>2
            <4>2. f[t] = Pass(f[t - 1])
                BY <2>2, <3>2, Zenon
            <4>3. g[t - 1] = f[t - 1]
                BY <2>1, <3>2
            <4> QED BY <3>2, <4>1, <4>2, <4>3, Zenon
        <3>3. CASE t = 0
            <4>1. g[t] = f[t] /\ t \in 0 .. k
                BY <2>1, <3>3
            <4> QED BY <2>2, <3>3, <4>1
        <3> QED BY <2>1, <3>1, <3>2, <3>3
    <2>4. g = h
        BY <2>3
    <2> HIDE DEF g
    <2>5. g = [t \in 0 .. k + 1 |-> IF t = 0 THEN start ELSE Pass(g[t - 1])]
        BY <2>4
    <2> HIDE DEF h
    <2>6. \E e : e = [t \in 0 .. k + 1 |-> IF t = 0 THEN start ELSE Pass(e[t - 1])]
        BY <2>5, Zenon
    <2>7. k + 1 \in Nat
        BY <2>1
    <2> QED BY <2>6, <2>7, Zenon
<1> HIDE DEF good
<1>3. good \subseteq Nat
    BY DEF good
<1>4. good = Nat
    BY <1>1, <1>2, <1>3, EveryNatural
<1>5. n \in good
    BY <1>4
<1> QED BY <1>5, Zenon DEF good

-----------------------------------------------------------------------------
(* A hash that has taken in a message *)

Blocks(U) == [1 .. HashBlock -> U]
Hashes(U) == [chain : Seq(Blocks(U)), buffer : Blocks(U), used : 0 .. HashBlock, total : Nat]

(* What was compressed and what waits in the buffer are the bytes of the   *)
(* message, each in its place.                                             *)
Holds(U, h, message) ==
    /\ h \in Hashes(U)
    /\ message \in Seq(U)
    /\ Len(message) = HashBlock * Len(h.chain) + h.used
    /\ \A b \in 1 .. Len(h.chain) : \A i \in 1 .. HashBlock :
          h.chain[b][i] = message[HashBlock * (b - 1) + i]
    /\ \A i \in 1 .. h.used : h.buffer[i] = message[HashBlock * Len(h.chain) + i]

LEMMA NewHolds ==
    ASSUME NEW U, Stale \in U
    PROVE  Holds(U, NewHash, <<>>) /\ NewHash.used = 0 /\ NewHash.total = 0
<1>1. NewHash.buffer \in Blocks(U)
    BY DEF NewHash, Reset, Repeat, Blocks
<1>2. /\ NewHash = [chain |-> <<>>, buffer |-> NewHash.buffer, used |-> 0, total |-> 0]
      /\ NewHash.chain = <<>> /\ NewHash.used = 0 /\ NewHash.total = 0
    BY DEF NewHash, Reset
<1>3. Len(NewHash.chain) = 0 /\ <<>> \in Seq(U)
    BY <1>2
<1>4. NewHash \in Hashes(U)
    <2>1. <<>> \in Seq(Blocks(U)) /\ 0 \in 0 .. HashBlock /\ 0 \in Nat
        BY DEF HashBlock
    <2> QED BY <1>1, <1>2, <2>1, Zenon DEF Hashes
<1> QED BY <1>2, <1>3, <1>4 DEF Holds, HashBlock

LEMMA CopiedHolds ==
    ASSUME NEW U, NEW h, NEW message, Holds(U, h, message),
           NEW data \in Seq(U), h.used + Len(data) <= HashBlock
    PROVE  /\ Holds(U, Copied(h, data), message \o data)
           /\ Copied(h, data).used = h.used + Len(data)
           /\ Copied(h, data).total = h.total
<1> DEFINE c == Copied(h, data)
           m == message \o data
<1>1. /\ h \in Hashes(U) /\ message \in Seq(U)
      /\ h.chain \in Seq(Blocks(U)) /\ h.buffer \in [1 .. HashBlock -> U] /\ h.total \in Nat
    BY DEF Holds, Hashes, Blocks
<1>2. PICK n \in Nat, k \in Nat, used \in 0 .. 64, size \in Nat :
          n = Len(data) /\ k = Len(h.chain) /\ used = h.used /\ size = Len(message)
    <2>1. h.used \in 0 .. 64
        BY <1>1 DEF Hashes, HashBlock
    <2>2. Len(data) \in Nat /\ Len(h.chain) \in Nat /\ Len(message) \in Nat
        BY <1>1
    <2> QED BY <2>1, <2>2, Zenon
<1>3. used + n <= 64
    BY <1>2 DEF HashBlock
<1>4. size = 64 * k + used
    BY <1>2 DEF Holds, HashBlock
<1>5. /\ c.chain = h.chain /\ c.total = h.total /\ c.used = used + n
      /\ c.buffer = [i \in 1 .. HashBlock |->
                        IF i \in used + 1 .. used + n THEN data[i - used] ELSE h.buffer[i]]
      /\ c \in [chain : Seq(Blocks(U)), buffer : {c.buffer}, used : {c.used}, total : Nat]
    BY <1>1, <1>2 DEF Copied, Hashes
<1>6. \A i \in used + 1 .. used + n : data[i - used] \in U
    BY <1>2
<1>7. c.buffer \in Blocks(U)
    BY <1>1, <1>5, <1>6 DEF Blocks
<1>8. c.used \in 0 .. 64
    <2>1. used + n \in 0 .. 64
        BY <1>3
    <2> QED BY <1>5, <2>1, Zenon
<1>9. c \in Hashes(U)
    BY <1>5, <1>7, <1>8 DEF Hashes, HashBlock
<1>10. /\ m \in Seq(U) /\ Len(m) = size + n
       /\ \A i \in 1 .. size + n : m[i] = IF i <= size THEN message[i] ELSE data[i - size]
    BY <1>1, <1>2, ConcatProperties
<1>11. Len(c.chain) = k
    BY <1>2, <1>5
<1> HIDE DEF c, m
<1>12. ASSUME NEW b \in 1 .. k, NEW i \in 1 .. 64
       PROVE  c.chain[b][i] = m[64 * (b - 1) + i]
    <2>1. h.chain[b][i] = message[64 * (b - 1) + i]
        BY <1>2 DEF Holds, HashBlock
    <2>2. 64 * (b - 1) + i \in 1 .. size + n /\ 64 * (b - 1) + i <= size
        BY <1>4
    <2>3. m[64 * (b - 1) + i] = message[64 * (b - 1) + i]
        BY <1>10, <2>2
    <2> QED BY <1>5, <2>1, <2>3
<1>13. ASSUME NEW i \in 1 .. used + n
       PROVE  c.buffer[i] = m[64 * k + i]
    <2>1. i \in 1 .. HashBlock /\ 64 * k + i \in 1 .. size + n
        BY <1>3, <1>4 DEF HashBlock
    <2>2. CASE i \in used + 1 .. used + n
        <3>1. c.buffer[i] = data[i - used]
            BY <1>5, <2>1, <2>2
        <3>2. 64 * k + i > size /\ 64 * k + i - size = i - used
            BY <1>4, <2>2
        <3>3. m[64 * k + i] = data[64 * k + i - size]
            BY <1>10, <2>1, <3>2
        <3> QED BY <3>1, <3>2, <3>3
    <2>3. CASE i \in 1 .. used
        <3>0. i \notin used + 1 .. used + n
            BY <2>3
        <3>1. c.buffer[i] = h.buffer[i]
            BY <1>5, <2>1, <3>0, Zenon
        <3>2. h.buffer[i] = message[64 * k + i]
            BY <1>2, <2>3 DEF Holds, HashBlock
        <3>3. 64 * k + i <= size
            BY <1>4, <2>3
        <3>4. m[64 * k + i] = message[64 * k + i]
            BY <1>10, <2>1, <3>3
        <3> QED BY <3>1, <3>2, <3>4
    <2> QED BY <2>2, <2>3
<1>14. size + n = 64 * k + (used + n)
    BY <1>4
<1>15. Holds(U, c, m)
    BY <1>5, <1>9, <1>10, <1>11, <1>12, <1>13, <1>14 DEF Holds, HashBlock
<1>16. c.used = h.used + Len(data)
    BY <1>2, <1>5
<1> QED BY <1>5, <1>15, <1>16 DEF c, m

LEMMA CompressedHolds ==
    ASSUME NEW U, NEW h, NEW message, Holds(U, h, message), h.used = HashBlock
    PROVE  /\ Holds(U, Compressed(h), message)
           /\ Compressed(h).used = 0
           /\ Compressed(h).total = h.total
<1> DEFINE c == Compressed(h)
<1>1. /\ h \in Hashes(U) /\ message \in Seq(U)
      /\ h.chain \in Seq(Blocks(U)) /\ Len(h.chain) \in Nat
      /\ h.buffer \in Blocks(U) /\ h.total \in Nat
    BY DEF Holds, Hashes
<1>2. /\ c.chain = Append(h.chain, h.buffer) /\ c.total = h.total /\ c.used = 0 /\ c.buffer = h.buffer
      /\ c \in [chain : {c.chain}, buffer : Blocks(U), used : {0}, total : Nat]
    BY <1>1 DEF Compressed, Hashes
<1>3. /\ c.chain \in Seq(Blocks(U)) /\ Len(c.chain) = Len(h.chain) + 1
      /\ \A b \in 1 .. Len(h.chain) : c.chain[b] = h.chain[b]
      /\ c.chain[Len(h.chain) + 1] = h.buffer
    BY <1>1, <1>2, AppendProperties
<1>4. c \in Hashes(U)
    BY <1>2, <1>3 DEF Hashes, HashBlock
<1>5. Len(message) = HashBlock * Len(c.chain) + c.used
    BY <1>1, <1>2, <1>3 DEF Holds, HashBlock
<1>6. ASSUME NEW b \in 1 .. Len(c.chain), NEW i \in 1 .. HashBlock
      PROVE  c.chain[b][i] = message[HashBlock * (b - 1) + i]
    <2>1. CASE b = Len(h.chain) + 1
        <3>1. HashBlock * (b - 1) + i = HashBlock * Len(h.chain) + i
            BY <1>1, <2>1 DEF HashBlock
        <3>2. h.buffer[i] = message[HashBlock * Len(h.chain) + i]
            BY DEF Holds
        <3> QED BY <1>3, <2>1, <3>1, <3>2
    <2>2. CASE b \in 1 .. Len(h.chain)
        BY <1>3, <2>2 DEF Holds
    <2> QED BY <1>1, <1>3, <2>1, <2>2
<1> HIDE DEF c
<1>7. \A i \in 1 .. c.used : c.buffer[i] = message[HashBlock * Len(c.chain) + i]
    BY <1>2
<1>8. Holds(U, c, message)
    BY <1>1, <1>4, <1>5, <1>6, <1>7 DEF Holds
<1> QED BY <1>2, <1>8 DEF c

(* The loop of update(): what the hash holds and the data still to go make *)
(* up the whole message.                                                   *)
Underway(U, s, whole, total) ==
    /\ s = [h |-> s.h, data |-> s.data] /\ s.data \in Seq(U)
    /\ \E taken : Holds(U, s.h, taken) /\ taken \o s.data = whole
    /\ s.h.used < HashBlock /\ s.h.total = total

(* One turn of update()'s loop moves bytes from the data to what the hash  *)
(* holds, and fills the buffer unless it is the last.                      *)
LEMMA PassHolds ==
    ASSUME NEW U, NEW whole, NEW total, NEW before, Underway(U, before, whole, total),
           before.data # <<>>
    PROVE  /\ Underway(U, Pass(before), whole, total)
           /\ \/ Pass(before).data = <<>>
              \/ Pass(before).h.used + Len(Pass(before).data) + HashBlock
                    = before.h.used + Len(before.data)
<1> DEFINE s == Pass(before)
<1> SUFFICES /\ Underway(U, s, whole, total)
             /\ s.data = <<>> \/ s.h.used + Len(s.data) + HashBlock = before.h.used + Len(before.data)
    OBVIOUS
<1>0. PICK h, data, message :
          /\ before = [h |-> h, data |-> data] /\ h = before.h /\ data = before.data
          /\ Holds(U, h, message) /\ message \o data = whole
          /\ data \in Seq(U) /\ data # <<>> /\ h.used < HashBlock /\ h.total = total
    BY Zenon DEF Underway
<1>1. /\ message \in Seq(U)
      /\ h.used \in 0 .. 63 /\ Len(data) \in Nat /\ Len(data) # 0
    <2>1. message \in Seq(U) /\ h \in Hashes(U)
        BY <1>0 DEF Holds
    <2>2. h.used \in 0 .. 64
        BY <2>1 DEF Hashes, HashBlock
    <2>3. h.used \in 0 .. 63
        BY <1>0, <2>2 DEF HashBlock
    <2>4. Len(data) \in Nat /\ Len(data) # 0
        BY <1>0, EmptySeq
    <2> QED BY <2>1, <2>3, <2>4
<1>2. PICK used \in 0 .. 63, n \in Nat \ {0} : used = h.used /\ n = Len(data)
    BY <1>1, Zenon
<1> DEFINE take == LesserOf(HashBlock - used, n)
           start == SubSeq(data, 1, take)
           rest == SubSeq(data, take + 1, n)
           filled == Copied(h, start)
<1>3. /\ take \in 1 .. n /\ used + take <= 64
      /\ take = n \/ used + take = 64
    BY DEF LesserOf, HashBlock
<1>4. s = [h |-> IF filled.used = HashBlock THEN Compressed(filled) ELSE filled, data |-> rest]
    <2>1. /\ [h |-> h, data |-> data].h = h
          /\ [h |-> h, data |-> data].data = data
        OBVIOUS
    <2> QED BY <1>0, <1>2, <2>1, Zenon DEF Pass
<1> HIDE DEF take, s
<1>5. /\ start \in Seq(U) /\ Len(start) = take
      /\ rest \in Seq(U) /\ Len(rest) = n - take
    <2>1. \A i \in 1 .. n : data[i] \in U
        BY <1>0, <1>2
    <2>2. (\A i \in 1 .. take : data[i] \in U) /\ (\A i \in take + 1 .. n : data[i] \in U)
        BY <1>3, <2>1
    <2>3. start \in Seq(U) /\ Len(start) = take
        <3>1. take \in Int /\ 1 \in Int /\ 1 <= take /\ take - 1 + 1 = take
            BY <1>3
        <3> QED BY <2>2, <3>1, SubSeqProperties, Zenon
    <2>4. rest \in Seq(U) /\ Len(rest) = n - take
        <3>1. take + 1 \in Int /\ n \in Int
            BY <1>3
        <3>2. CASE take + 1 <= n
            <4>1. n - (take + 1) + 1 = n - take
                BY <1>3
            <4> QED BY <2>2, <3>1, <3>2, <4>1, SubSeqProperties, Zenon
        <3>3. CASE n < take + 1
            <4>1. rest = <<>> /\ n - take = 0
                BY <1>3, <3>1, <3>3, SubSeqEmpty
            <4> QED BY <4>1, EmptySeq
        <3> QED BY <1>3, <3>2, <3>3
    <2> QED BY <2>3, <2>4
<1>6. start \o rest = data
    <2>1. 1 \in 1 .. Len(data) + 1 /\ take \in 1 - 1 .. Len(data) /\ n \in take .. Len(data)
        BY <1>2, <1>3
    <2>2. start \o rest = SubSeq(data, 1, n)
        BY <1>0, <2>1, ConcatAdjacentSubSeq, Zenon
    <2> QED BY <1>0, <1>2, <2>2, SubSeqFull
<1> HIDE DEF start, rest
<1>7. /\ Holds(U, filled, message \o start)
      /\ filled.used = used + take /\ filled.total = h.total
    <2>1. h.used + Len(start) <= HashBlock
        BY <1>2, <1>3, <1>5 DEF HashBlock
    <2>2. /\ Holds(U, filled, message \o start)
          /\ filled.used = h.used + Len(start) /\ filled.total = h.total
        BY <1>0, <1>5, <2>1, CopiedHolds, Zenon
    <2> QED BY <1>2, <1>5, <2>2, Zenon
<1>8. (message \o start) \o rest = whole
    <2>1. (message \o start) \o rest = message \o (start \o rest)
        <3>1. message \in Seq(U) /\ start \in Seq(U) /\ rest \in Seq(U)
            BY <1>1, <1>5
        <3> QED BY ONLY <3>1, ConcatAssociative
    <2> QED BY <1>0, <1>6, <2>1, Zenon
<1> HIDE DEF filled
<1>9. CASE used + take = 64
    <2>1. filled.used = HashBlock
        BY <1>7, <1>9 DEF HashBlock
    <2>2. s = [h |-> Compressed(filled), data |-> rest]
        BY <1>4, <2>1, Zenon
    <2>3. s.h = Compressed(filled) /\ s.data = rest /\ s = [h |-> s.h, data |-> s.data]
        BY <2>2
    <2>4. Holds(U, s.h, message \o start) /\ s.h.used = 0 /\ s.h.total = h.total
        BY <1>7, <2>1, <2>3, CompressedHolds, Zenon
    <2>5. s.h.used + Len(s.data) + HashBlock = h.used + Len(data)
        <3>1. 0 + (n - take) + 64 = used + n
            BY <1>3, <1>9
        <3> QED BY <1>2, <1>5, <2>3, <2>4, <3>1, Zenon DEF HashBlock
    <2>6. s.h.used < HashBlock
        BY <2>4 DEF HashBlock
    <2> QED BY <1>0, <1>5, <1>8, <2>3, <2>4, <2>5, <2>6, Zenon DEF Underway
<1>10. CASE used + take # 64
    <2>0. used + take < 64 /\ take = n
        BY <1>3, <1>10
    <2>1. filled.used # HashBlock /\ filled.used < HashBlock
        BY <1>7, <2>0 DEF HashBlock
    <2>2. s = [h |-> filled, data |-> rest]
        BY <1>4, <2>1, Zenon
    <2>3. s.h = filled /\ s.data = rest /\ s = [h |-> s.h, data |-> s.data]
        BY <2>2
    <2>4. Len(rest) = 0
        BY <1>5, <2>0
    <2>5. rest = <<>>
        BY <1>5, <2>4, EmptySeq
    <2> QED BY <1>0, <1>5, <1>7, <1>8, <2>1, <2>3, <2>5, Zenon DEF Underway
<1> QED BY <1>9, <1>10

LEMMA AbsorbedHolds ==
    ASSUME NEW U, NEW h, NEW message, Holds(U, h, message), h.used < HashBlock,
           NEW data \in Seq(U)
    PROVE  /\ Holds(U, Absorbed(h, data), message \o data)
           /\ Absorbed(h, data).used < HashBlock
           /\ Absorbed(h, data).total = h.total
<1> DEFINE start == [h |-> h, data |-> data]
           turns == Turns(h, data)
           after[turn \in 0 .. turns] ==
               IF turn = 0 THEN start ELSE Pass(after[turn - 1])
           whole == message \o data
           Right(s) == Underway(U, s, whole, h.total)
           InTime(s, turn) ==
               s.data = <<>> \/ s.h.used + Len(s.data) + HashBlock * turn <= h.used + Len(data)
           good == {turn \in Nat : turn <= turns => Right(after[turn]) /\ InTime(after[turn], turn)}
<1>1. PICK used \in 0 .. 63, n \in Nat : used = h.used /\ n = Len(data)
    <2>1. h \in Hashes(U)
        BY DEF Holds
    <2>2. h.used \in 0 .. 64
        BY <2>1 DEF Hashes, HashBlock
    <2>3. h.used \in 0 .. 63
        BY <2>2 DEF HashBlock
    <2>4. Len(data) \in Nat
        OBVIOUS
    <2> QED BY <2>3, <2>4, Zenon
<1>2. turns = (used + n) \div 64 + 1
    BY <1>1 DEF Turns, HashBlock
<1>3. turns \in Nat /\ used + n < 64 * turns
    BY <1>2
<1> HIDE DEF turns
<1>4. after = [turn \in 0 .. turns |-> IF turn = 0 THEN start ELSE Pass(after[turn - 1])]
    <2>1. \E f : f = [turn \in 0 .. turns |-> IF turn = 0 THEN start ELSE Pass(f[turn - 1])]
        BY <1>3, TurnsComputed, Zenon
    <2> QED BY <2>1, Zenon
<1>5. Absorbed(h, data) = after[turns].h
    BY Zenon DEF Absorbed, turns
<1> HIDE DEF after
<1>6. after[0] = start
    BY <1>3, <1>4
<1>7. ASSUME NEW turn \in Nat, turn + 1 <= turns PROVE after[turn + 1] = Pass(after[turn])
    <2>1. turn + 1 \in 0 .. turns /\ turn + 1 # 0 /\ turn + 1 - 1 = turn
        BY <1>3, <1>7
    <2> HIDE DEF start
    <2>2. after[turn + 1] = IF turn + 1 = 0 THEN start ELSE Pass(after[turn + 1 - 1])
        <3> DEFINE step == [t \in 0 .. turns |-> IF t = 0 THEN start ELSE Pass(after[t - 1])]
        <3>1. step[turn + 1] = IF turn + 1 = 0 THEN start ELSE Pass(after[turn + 1 - 1])
            BY ONLY <2>1
        <3> QED BY ONLY <1>4, <3>1, Zenon
    <2> QED BY ONLY <2>1, <2>2, Zenon
<1>8. Right(start) /\ InTime(start, 0)
    <2>1. start.h = h /\ start.data = data
        OBVIOUS
    <2>2. h.used + Len(data) + HashBlock * 0 <= h.used + Len(data)
        BY <1>1 DEF HashBlock
    <2> HIDE DEF start
    <2>3. start = [h |-> start.h, data |-> start.data]
        BY <2>1 DEF start
    <2>4. start.data \in Seq(U) /\ Holds(U, start.h, message) /\ message \o start.data = whole
        BY <2>1, Zenon
    <2> QED BY <2>1, <2>2, <2>3, <2>4, Zenon DEF Underway
<1> HIDE DEF start
<1>9. ASSUME NEW s, NEW turn \in Nat, Right(s), InTime(s, turn)
      PROVE  Right(Pass(s)) /\ InTime(Pass(s), turn + 1)
    <2>1. CASE s.data = <<>>
        <3>1. Pass(s) = s
            BY <2>1, Zenon DEF Pass
        <3> QED BY <1>9, <2>1, <3>1, Zenon
    <2>2. CASE s.data # <<>>
        <3> DEFINE r == Pass(s)
        <3>1. r = Pass(s)
            OBVIOUS
        <3> HIDE DEF r
        <3>2. /\ Right(r)
              /\ r.data = <<>> \/ r.h.used + Len(r.data) + HashBlock = s.h.used + Len(s.data)
            BY <1>9, <2>2, PassHolds, Zenon DEF r
        <3>5. InTime(r, turn + 1)
            <4>1. CASE r.data = <<>>
                BY <4>1
            <4>2. CASE r.data # <<>>
                <5>1. PICK a \in 0 .. 64, b \in Nat, c \in 0 .. 64, d \in Nat :
                          a = r.h.used /\ b = Len(r.data) /\ c = s.h.used /\ d = Len(s.data)
                    <6>1. /\ r.h \in Hashes(U) /\ s.h \in Hashes(U)
                          /\ r.data \in Seq(U) /\ s.data \in Seq(U)
                        BY <1>9, <3>2, Zenon DEF Underway, Holds
                    <6>2. r.h.used \in 0 .. 64 /\ s.h.used \in 0 .. 64
                        BY <6>1 DEF Hashes, HashBlock
                    <6>3. Len(r.data) \in Nat /\ Len(s.data) \in Nat
                        BY <6>1
                    <6> QED BY <6>2, <6>3, Zenon
                <5>2. a + b + 64 = c + d
                    BY <3>2, <4>2, <5>1, Zenon DEF HashBlock
                <5>3. c + d + 64 * turn <= used + n
                    BY <1>1, <1>9, <2>2, <5>1, Zenon DEF HashBlock
                <5>4. a + b + 64 * (turn + 1) <= used + n
                    BY <5>2, <5>3
                <5> QED BY <1>1, <5>1, <5>4, Zenon DEF HashBlock
            <4> QED BY <4>1, <4>2
        <3> QED BY <3>2, <3>5 DEF r
    <2> QED BY <2>1, <2>2
<1> HIDE DEF Right, InTime
<1>10. 0 \in good
    BY <1>6, <1>8
<1>11. ASSUME NEW turn \in good PROVE turn + 1 \in good
    <2>1. turn + 1 \in Nat /\ turn \in Nat
        OBVIOUS
    <2>2. ASSUME turn + 1 <= turns
          PROVE  Right(after[turn + 1]) /\ InTime(after[turn + 1], turn + 1)
        <3>1. turn <= turns
            BY <1>3, <2>1, <2>2
        <3>2. Right(after[turn]) /\ InTime(after[turn], turn)
            BY <3>1
        <3>3. after[turn + 1] = Pass(after[turn])
            BY <1>7, <2>1, <2>2
        <3> QED BY <1>9, <2>1, <3>2, <3>3, Zenon
    <2> QED BY <2>1, <2>2
<1>12. turns \in good
    <2>1. good \subseteq Nat
        OBVIOUS
    <2> HIDE DEF good
    <2>2. good = Nat
        BY <1>10, <1>11, <2>1, EveryNatural
    <2> QED BY <1>3, <2>2
<1> DEFINE s == after[turns]
<1>13. Right(s) /\ InTime(s, turns)
    BY <1>3, <1>12
<1> HIDE DEF s, good
<1>14. s.data = <<>>
    <2> SUFFICES ASSUME s.data # <<>> PROVE FALSE
        OBVIOUS
    <2>1. PICK a \in 0 .. 64, b \in Nat : a = s.h.used /\ b = Len(s.data)
        <3>1. s.h \in Hashes(U) /\ s.data \in Seq(U)
            BY <1>13, Zenon DEF Right, Underway, Holds
        <3>2. s.h.used \in 0 .. 64
            BY <3>1 DEF Hashes, HashBlock
        <3>3. Len(s.data) \in Nat
            BY <3>1
        <3> QED BY <3>2, <3>3, Zenon
    <2>2. a + b + 64 * turns <= used + n
        BY <1>1, <1>13, <2>1, Zenon DEF InTime, HashBlock
    <2> QED BY <1>3, <2>2
<1>15. PICK taken : Holds(U, s.h, taken) /\ taken \o s.data = whole
    BY <1>13, Zenon DEF Right, Underway
<1>16. taken = whole
    <2>1. taken \in Seq(U)
        BY <1>15 DEF Holds
    <2>2. taken \o <<>> = taken
        BY <2>1, ConcatEmptySeq, Zenon
    <2> QED BY <1>14, <1>15, <2>2, Zenon
<1>17. Holds(U, s.h, whole) /\ s.h.used < HashBlock /\ s.h.total = h.total
    BY <1>13, <1>15, <1>16, Zenon DEF Right, Underway
<1> QED BY <1>5, <1>17, Zenon DEF s

(* A hash between two calls, which was given a message so far. *)
Taken(U, h, message) ==
    Holds(U, h, message) /\ h.used < HashBlock /\ h.total = Len(message)

LEMMA NewTaken ==
    ASSUME NEW U, Stale \in U
    PROVE  Taken(U, NewHash, <<>>)
<1>1. Holds(U, NewHash, <<>>) /\ NewHash.used = 0 /\ NewHash.total = 0
    BY NewHolds
<1>2. Len(<<>>) = 0 /\ 0 < HashBlock
    BY DEF HashBlock
<1> QED BY <1>1, <1>2, Zenon DEF Taken

LEMMA UpdateTaken ==
    ASSUME NEW U, NEW h, NEW message, Taken(U, h, message), NEW data \in Seq(U)
    PROVE  Taken(U, Update(h, data), message \o data)
<1> DEFINE counted == [h EXCEPT !.total = @ + Len(data)]
<1>1. h \in Hashes(U) /\ message \in Seq(U) /\ h.total = Len(message)
    BY Zenon DEF Taken, Holds
<1>2. PICK size \in Nat, n \in Nat : size = Len(message) /\ n = Len(data)
    <2>1. Len(message) \in Nat /\ Len(data) \in Nat
        BY <1>1
    <2> QED BY <2>1, Zenon
<1>3. /\ counted = [chain |-> h.chain, buffer |-> h.buffer, used |-> h.used, total |-> size + n]
      /\ h.chain \in Seq(Blocks(U)) /\ h.buffer \in Blocks(U) /\ h.used \in 0 .. HashBlock
    BY <1>1, <1>2 DEF Hashes
<1>4. /\ counted.chain = h.chain /\ counted.buffer = h.buffer
      /\ counted.used = h.used /\ counted.total = size + n
    BY <1>3
<1>5. counted \in Hashes(U)
    <2>1. size + n \in Nat
        OBVIOUS
    <2> HIDE DEF counted
    <2> QED BY <1>3, <2>1 DEF Hashes
<1> HIDE DEF counted
<1>6. Holds(U, counted, message)
    BY <1>4, <1>5, Zenon DEF Taken, Holds
<1>7. /\ Holds(U, Absorbed(counted, data), message \o data)
      /\ Absorbed(counted, data).used < HashBlock
      /\ Absorbed(counted, data).total = counted.total
    BY <1>4, <1>6, AbsorbedHolds, Zenon DEF Taken
<1>8. Len(message \o data) = size + n
    BY <1>1, <1>2
<1> QED BY <1>4, <1>7, <1>8, Zenon DEF Taken, Update, counted

-----------------------------------------------------------------------------
(* The end of a message *)

(* The bytes that finish() adds. *)
OwnBytes ==
    {Stale, Zero, Marker}
    \cup {<<"length", total, i>> : total \in Nat, i \in 1 .. 8}

LEMMA OwnStrings ==
    ASSUME NEW U, OwnBytes \subseteq U
    PROVE  /\ Stale \in U /\ Zero \in U
           /\ <<Marker>> \in Seq(U) /\ Len(<<Marker>>) = 1
           /\ \A n \in Nat : Repeat(Zero, n) \in Seq(U) /\ Len(Repeat(Zero, n)) = n
           /\ \A n \in Nat : LengthBytes(n) \in Seq(U) /\ Len(LengthBytes(n)) = 8
<1>1. Stale \in U /\ Zero \in U /\ Marker \in U
    BY DEF OwnBytes
<1>2. ASSUME NEW n \in Nat
      PROVE  Repeat(Zero, n) \in Seq(U) /\ Len(Repeat(Zero, n)) = n
    BY <1>1 DEF Repeat
<1>3. ASSUME NEW n \in Nat
      PROVE  LengthBytes(n) \in Seq(U) /\ Len(LengthBytes(n)) = 8
    <2>1. \A i \in 1 .. 8 : <<"length", n, i>> \in U
        BY DEF OwnBytes
    <2> QED BY <2>1 DEF LengthBytes
<1> QED BY <1>1, <1>2, <1>3

LEMMA ZerosJoin ==
    ASSUME NEW U, Zero \in U, NEW m \in Nat, NEW n \in Nat
    PROVE  Repeat(Zero, m) \o Repeat(Zero, n) = Repeat(Zero, m + n)
BY DEF Repeat

LEMMA ZeroedHolds ==
    ASSUME NEW U, OwnBytes \subseteq U, NEW h, NEW message, Holds(U, h, message),
           NEW size \in Nat, h.used <= size, size <= HashBlock
    PROVE  /\ Holds(U, ZeroedTo(h, size), message \o Repeat(Zero, size - h.used))
           /\ ZeroedTo(h, size).used = size
           /\ ZeroedTo(h, size).total = h.total
<1>1. PICK used \in 0 .. 64 : used = h.used
    <2>1. h \in Hashes(U)
        BY DEF Holds
    <2> QED BY <2>1 DEF Hashes, HashBlock
<1>2. size - used \in Nat /\ used + (size - used) = size
    BY <1>1
<1>3. Repeat(Zero, size - used) \in Seq(U) /\ Len(Repeat(Zero, size - used)) = size - used
    BY <1>2, OwnStrings
<1>4. h.used + Len(Repeat(Zero, size - h.used)) = size
    BY <1>1, <1>2, <1>3, Zenon
<1> QED BY <1>1, <1>3, <1>4, CopiedHolds, Zenon DEF ZeroedTo

BlocksOf(message) ==
    [b \in 1 .. Len(message) \div HashBlock |->
        SubSeq(message, HashBlock * (b - 1) + 1, HashBlock * b)]

(* What was compressed is the message when nothing waits in the buffer. *)
LEMMA ChainOfWhole ==
    ASSUME NEW U, NEW h, NEW message, Holds(U, h, message), h.used = 0
    PROVE  h.chain = BlocksOf(message)
<1>1. PICK k \in Nat, size \in Nat : k = Len(h.chain) /\ size = Len(message)
    <2>1. Len(h.chain) \in Nat /\ Len(message) \in Nat
        BY DEF Holds, Hashes
    <2> QED BY <2>1, Zenon
<1>2. size = 64 * k
    BY <1>1 DEF Holds, HashBlock
<1>3. size \div 64 = k
    BY <1>2
<1>4. h.chain \in [1 .. k -> Blocks(U)] /\ message \in [1 .. size -> U]
    BY <1>1 DEF Holds, Hashes
<1>5. ASSUME NEW b \in 1 .. k
      PROVE  h.chain[b] = SubSeq(message, 64 * (b - 1) + 1, 64 * b)
    <2> DEFINE piece == SubSeq(message, 64 * (b - 1) + 1, 64 * b)
    <2>1. \A i \in 64 * (b - 1) + 1 .. 64 * b : message[i] \in U
        BY <1>2, <1>4
    <2>2. /\ piece \in Seq(U) /\ Len(piece) = 64
          /\ \A i \in 1 .. 64 : piece[i] = message[64 * (b - 1) + 1 + i - 1]
        <3>1. PICK from \in Int, to \in Int :
                  /\ from = 64 * (b - 1) + 1 /\ to = 64 * b
                  /\ from <= to /\ to - from + 1 = 64
            OBVIOUS
        <3>2. piece = SubSeq(message, from, to) /\ \A i \in from .. to : message[i] \in U
            BY <2>1, <3>1
        <3> HIDE DEF piece
        <3>3. /\ SubSeq(message, from, to) \in Seq(U)
              /\ Len(SubSeq(message, from, to)) = IF from <= to THEN to - from + 1 ELSE 0
              /\ \A i \in 1 .. to - from + 1 : SubSeq(message, from, to)[i] = message[from + i - 1]
            BY ONLY <3>2, from \in Int, to \in Int, SubSeqProperties
        <3> QED BY <3>1, <3>2, <3>3, Zenon
    <2> HIDE DEF piece
    <2>3. piece \in [1 .. 64 -> U]
        BY <2>2, LenProperties, Zenon
    <2>4. h.chain[b] \in [1 .. 64 -> U]
        BY <1>4 DEF Blocks, HashBlock
    <2>5. ASSUME NEW i \in 1 .. 64 PROVE h.chain[b][i] = piece[i]
        <3>1. h.chain[b][i] = message[64 * (b - 1) + i]
            BY <1>1 DEF Holds, HashBlock
        <3>2. 64 * (b - 1) + 1 + i - 1 = 64 * (b - 1) + i
            OBVIOUS
        <3> QED BY <2>2, <3>1, <3>2
    <2>6. h.chain[b] = piece
        BY <2>3, <2>4, <2>5
    <2> QED BY <2>6 DEF piece
<1>6. h.chain = [b \in 1 .. k |-> SubSeq(message, 64 * (b - 1) + 1, 64 * b)]
    BY <1>4, <1>5
<1> QED BY <1>1, <1>3, <1>6 DEF BlocksOf, HashBlock

LEMMA ZerosChosen ==
    ASSUME NEW n \in Nat, NEW z \in 0 .. 63, (n + 1 + z + 8) % 64 = 0
    PROVE  (CHOOSE k \in 0 .. HashBlock - 1 : (n + 1 + k + 8) % HashBlock = 0) = z
<1>1. ASSUME NEW k \in 0 .. 63, (n + 1 + k + 8) % 64 = 0 PROVE k = z
    BY <1>1
<1> QED BY <1>1 DEF HashBlock

(* finish() makes of what the hash holds what FIPS 180-4 says of the whole *)
(* message, whether or not the length still has room in the last block.    *)
LEMMA FinishIsHash ==
    ASSUME NEW U, OwnBytes \subseteq U, NEW h, NEW message, Taken(U, h, message)
    PROVE  Finish(h) = HashOf(message)
<1>1. /\ Holds(U, h, message) /\ h \in Hashes(U) /\ message \in Seq(U)
      /\ h.total = Len(message) /\ h.used < HashBlock
    BY Zenon DEF Taken, Holds
<1>2. PICK used \in 0 .. 63, k \in Nat, n \in Nat :
          used = h.used /\ k = Len(h.chain) /\ n = Len(message)
    <2>1. h.used \in 0 .. 64
        BY <1>1 DEF Hashes, HashBlock
    <2>2. h.used \in 0 .. 63
        BY <1>1, <2>1 DEF HashBlock
    <2>3. Len(h.chain) \in Nat /\ Len(message) \in Nat
        BY <1>1 DEF Hashes
    <2> QED BY <2>2, <2>3, Zenon
<1>3. n = 64 * k + used
    BY <1>1, <1>2 DEF Holds, HashBlock
<1> DEFINE full == used + 1 > HashBlock - 8
           gap == IF full THEN 63 - used ELSE 0
           rest == IF full THEN 56 ELSE 55 - used
           marked == Copied(h, <<Marker>>)
           roomy == IF marked.used > HashBlock - 8 THEN Compressed(ZeroedTo(marked, HashBlock)) ELSE marked
           zeroed == ZeroedTo(roomy, HashBlock - 8)
           last == Copied(zeroed, LengthBytes(n))
           m1 == message \o <<Marker>>
           m2 == m1 \o Repeat(Zero, gap)
           m3 == m2 \o Repeat(Zero, rest)
           m4 == m3 \o LengthBytes(n)
<1>4. Finish(h) = Compressed(last).chain
    BY <1>1, <1>2, Zenon DEF Finish
<1>5. gap \in Nat /\ rest \in Nat /\ gap + rest \in 0 .. 63 /\ (n + 1 + (gap + rest) + 8) % 64 = 0
    BY <1>3 DEF HashBlock
<1>6. Holds(U, marked, m1) /\ marked.used = used + 1
    <2>0. Len(<<Marker>>) = 1
        OBVIOUS
    <2>1. h.used + Len(<<Marker>>) = used + 1 /\ used + 1 <= HashBlock
        <3>1. used + 1 <= HashBlock
            BY DEF HashBlock
        <3> QED BY <1>2, <2>0, <3>1, Zenon
    <2>2. h.used + Len(<<Marker>>) <= HashBlock
        BY <2>1, Zenon
    <2>3. <<Marker>> \in Seq(U)
        BY OwnStrings
    <2> QED BY <1>1, <2>1, <2>2, <2>3, CopiedHolds, Zenon
<1> HIDE DEF marked, m1
<1>7. m1 \in Seq(U)
    BY <1>6, Zenon DEF Holds
<1>8. Holds(U, roomy, m2) /\ roomy.used = IF full THEN 0 ELSE used + 1
    <2>1. CASE full
        <3>1. roomy = Compressed(ZeroedTo(marked, HashBlock))
            BY <1>6, <2>1, Zenon
        <3>2. /\ Holds(U, ZeroedTo(marked, HashBlock), m1 \o Repeat(Zero, HashBlock - marked.used))
              /\ ZeroedTo(marked, HashBlock).used = HashBlock
            <4>1. marked.used <= HashBlock /\ HashBlock \in Nat /\ HashBlock <= HashBlock
                BY <1>6 DEF HashBlock
            <4> QED BY <1>6, <4>1, ZeroedHolds
        <3>3. HashBlock - marked.used = gap
            BY <1>6, <2>1 DEF HashBlock
        <3>4. Holds(U, ZeroedTo(marked, HashBlock), m2)
            BY <3>2, <3>3, Zenon
        <3> HIDE DEF roomy, m2
        <3>5. Holds(U, roomy, m2) /\ roomy.used = 0
            BY <3>1, <3>2, <3>4, CompressedHolds, Zenon
        <3> QED BY <2>1, <3>5, Zenon
    <2>2. CASE ~full
        <3>1. roomy = marked
            BY <1>6, <2>2, Zenon
        <3>2. gap = 0
            BY <2>2, Zenon
        <3>3. Repeat(Zero, gap) = <<>>
            <4>1. Repeat(Zero, 0) \in Seq(U) /\ Len(Repeat(Zero, 0)) = 0
                BY OwnStrings
            <4> QED BY <3>2, <4>1, EmptySeq
        <3>4. m2 = m1
            BY <1>7, <3>3, ConcatEmptySeq, Zenon
        <3> HIDE DEF roomy, m2
        <3> QED BY <1>6, <2>2, <3>1, <3>4, Zenon
    <2> QED BY <2>1, <2>2
<1> HIDE DEF roomy, m2
<1>9. Holds(U, zeroed, m3) /\ zeroed.used = 56
    <2>1. roomy.used <= 56 /\ 56 - roomy.used = rest
        <3>1. CASE full
            BY <1>8, <3>1
        <3>2. CASE ~full
            BY <1>8, <3>2 DEF HashBlock
        <3> QED BY <3>1, <3>2
    <2>2. HashBlock - 8 = 56 /\ 56 \in Nat /\ 56 <= HashBlock
        BY DEF HashBlock
    <2>3. Holds(U, ZeroedTo(roomy, 56), m2 \o Repeat(Zero, 56 - roomy.used))
          /\ ZeroedTo(roomy, 56).used = 56
        BY <1>8, <2>1, <2>2, ZeroedHolds
    <2> QED BY <2>1, <2>2, <2>3, Zenon
<1>10. m2 \in Seq(U) /\ m3 \in Seq(U)
    BY <1>8, <1>9, Zenon DEF Holds
<1> HIDE DEF zeroed, m3
<1>11. Holds(U, last, m4) /\ last.used = HashBlock
    <2>1. LengthBytes(n) \in Seq(U) /\ Len(LengthBytes(n)) = 8
        BY OwnStrings
    <2>2. zeroed.used + Len(LengthBytes(n)) = 64
        BY <1>9, <2>1
    <2>3. zeroed.used + Len(LengthBytes(n)) <= HashBlock
        BY <2>2 DEF HashBlock
    <2> QED BY <1>9, <2>1, <2>2, <2>3, CopiedHolds, Zenon DEF HashBlock
<1>12. Holds(U, Compressed(last), m4) /\ Compressed(last).used = 0
    BY <1>11, CompressedHolds
<1>13. m4 = message \o Padding(n)
    <2> DEFINE zeros == Repeat(Zero, gap + rest)
               tail == LengthBytes(n)
    <2>1. /\ Repeat(Zero, gap) \in Seq(U) /\ Repeat(Zero, rest) \in Seq(U)
          /\ zeros \in Seq(U) /\ tail \in Seq(U) /\ <<Marker>> \in Seq(U) /\ Zero \in U
        BY <1>5, OwnStrings
    <2>2. Repeat(Zero, gap) \o Repeat(Zero, rest) = zeros
        BY <1>5, <2>1, ZerosJoin
    <2>3. m3 = m1 \o zeros
        <3>1. (m1 \o Repeat(Zero, gap)) \o Repeat(Zero, rest) = m1 \o (Repeat(Zero, gap) \o Repeat(Zero, rest))
            BY ONLY <1>7, <2>1, ConcatAssociative
        <3> QED BY <2>2, <3>1, Zenon DEF m2, m3
    <2>4. Padding(n) = <<Marker>> \o zeros \o tail
        BY <1>5, ZerosChosen, Zenon DEF Padding
    <2> HIDE DEF zeros, tail
    <2>5. zeros \o tail \in Seq(U) /\ <<Marker>> \o zeros \in Seq(U)
        BY <2>1, ConcatProperties, Zenon
    <2>6. /\ message \o (<<Marker>> \o zeros \o tail) = (message \o (<<Marker>> \o zeros)) \o tail
          /\ message \o (<<Marker>> \o zeros) = (message \o <<Marker>>) \o zeros
        <3> DEFINE mark == <<Marker>>
        <3>1. message \in Seq(U) /\ mark \in Seq(U) /\ zeros \in Seq(U) /\ tail \in Seq(U)
            BY <1>1, <2>1
        <3>2. mark \o zeros \in Seq(U)
            BY <2>5
        <3> HIDE DEF mark
        <3>3. message \o ((mark \o zeros) \o tail) = (message \o (mark \o zeros)) \o tail
            <4>1. PICK start : start = mark \o zeros
                OBVIOUS
            <4>2. start \in Seq(U)
                BY <3>2, <4>1
            <4>3. message \o (start \o tail) = (message \o start) \o tail
                BY ONLY <3>1, <4>2, ConcatAssociative
            <4> QED BY <4>1, <4>3, Zenon
        <3>4. message \o (mark \o zeros) = (message \o mark) \o zeros
            BY ONLY <3>1, ConcatAssociative
        <3> QED BY <3>3, <3>4, Zenon DEF mark
    <2>7. m4 = m3 \o tail
        BY DEF tail
    <2> HIDE DEF m4
    <2> QED BY <2>3, <2>4, <2>6, <2>7, Zenon DEF m1
<1> HIDE DEF m4, last
<1>14. Compressed(last).chain = HashOf(message)
    <2> DEFINE end == Compressed(last)
    <2>1. Holds(U, end, m4) /\ end.used = 0
        BY <1>12
    <2> HIDE DEF end
    <2>2. end.chain = BlocksOf(m4)
        BY <2>1, ChainOfWhole
    <2>3. HashOf(message) = BlocksOf(m4)
        BY <1>2, <1>13, Zenon DEF HashOf, BlocksOf
    <2> QED BY <2>2, <2>3, Zenon DEF end
<1> QED BY <1>4, <1>14

-----------------------------------------------------------------------------
(* Whole messages *)

LEMMA FirstTaken ==
    ASSUME NEW U, OwnBytes \subseteq U, NEW first \in Seq(U)
    PROVE  Taken(U, Update(NewHash, first), first)
<1>1. Taken(U, NewHash, <<>>)
    BY NewTaken, OwnStrings
<1>2. Taken(U, Update(NewHash, first), <<>> \o first)
    BY <1>1, UpdateTaken
<1>3. <<>> \o first = first
    BY ConcatEmptySeq, Zenon
<1> QED BY <1>2, <1>3, Zenon

LEMMA SecondTaken ==
    ASSUME NEW U, OwnBytes \subseteq U, NEW first \in Seq(U), NEW second \in Seq(U)
    PROVE  Taken(U, Update(Update(NewHash, first), second), first \o second)
BY FirstTaken, UpdateTaken

(* Sha256 makes the digest of FIPS 180-4 of any message, wherever it is cut *)
(* in two (update() and finish(), LplCrypto.cpp:277-312).                   *)
THEOREM StreamedHash ==
    ASSUME NEW U, NEW first \in Seq(U), NEW second \in Seq(U)
    PROVE  Finish(Update(Update(NewHash, first), second)) = HashOf(first \o second)
<1> DEFINE V == U \cup OwnBytes
<1>1. first \in Seq(V) /\ second \in Seq(V) /\ OwnBytes \subseteq V
    BY SeqMonotonic
<1> HIDE DEF V
<1> QED BY <1>1, SecondTaken, FinishIsHash

LEMMA WholeHash ==
    ASSUME NEW U, NEW message \in Seq(U)
    PROVE  Finish(Update(NewHash, message)) = HashOf(message)
<1> DEFINE V == U \cup OwnBytes
<1>1. message \in Seq(V) /\ OwnBytes \subseteq V
    BY SeqMonotonic
<1> HIDE DEF V
<1> QED BY <1>1, FirstTaken, FinishIsHash

LEMMA ThreeChunks ==
    ASSUME NEW U, NEW first \in Seq(U), NEW second \in Seq(U), NEW third \in Seq(U)
    PROVE  Finish(Update(Update(Update(NewHash, first), second), third))
               = HashOf(first \o (second \o third))
<1> DEFINE V == U \cup OwnBytes
<1>1. first \in Seq(V) /\ second \in Seq(V) /\ third \in Seq(V) /\ OwnBytes \subseteq V
    BY SeqMonotonic
<1> HIDE DEF V
<1>2. Taken(V, Update(Update(NewHash, first), second), first \o second)
    BY <1>1, SecondTaken
<1>3. Taken(V, Update(Update(Update(NewHash, first), second), third), (first \o second) \o third)
    BY <1>1, <1>2, UpdateTaken
<1>4. (first \o second) \o third = first \o (second \o third)
    BY ONLY <1>1, ConcatAssociative
<1> QED BY <1>1, <1>3, <1>4, FinishIsHash

-----------------------------------------------------------------------------
(* HMAC *)

Digits(chain) == {<<"digest", chain, i>> : i \in 1 .. DigestSize}

LEMMA DigestString ==
    ASSUME NEW chain
    PROVE  DigestBytes(chain) \in Seq(Digits(chain)) /\ Len(DigestBytes(chain)) = DigestSize
BY DEF DigestBytes, Digits, DigestSize

(* The key as it is combined with the pads: one block, for any key. *)
KeyBytes(U, key) == U \cup {Zero} \cup Digits(HashOf(key))

LEMMA KeyPadded ==
    ASSUME NEW U, NEW key \in Seq(U)
    PROVE  /\ PadKey(key) \in Seq(KeyBytes(U, key)) /\ Len(PadKey(key)) = HashBlock
           /\ LET short == IF Len(key) > HashBlock THEN DigestBytes(HashOf(key)) ELSE key
              IN  PadKey(key) = short \o Repeat(Zero, HashBlock - Len(short))
<1> DEFINE short == IF Len(key) > HashBlock THEN DigestBytes(HashOf(key)) ELSE key
           V == KeyBytes(U, key)
<1>1. PadKey(key) = short \o Repeat(Zero, HashBlock - Len(short))
    BY WholeHash, Zenon DEF PadKey
<1>2. PICK n \in Nat : n = Len(key)
    <2>1. Len(key) \in Nat
        OBVIOUS
    <2> QED BY <2>1, Zenon
<1>3. PICK m \in 0 .. 64 : short \in Seq(V) /\ m = Len(short)
    <2>1. CASE n > 64
        <3>1. short = DigestBytes(HashOf(key))
            BY <1>2, <2>1, Zenon DEF HashBlock
        <3>2. DigestBytes(HashOf(key)) \in Seq(V)
            BY DigestString, SeqMonotonic DEF KeyBytes
        <3>3. Len(DigestBytes(HashOf(key))) = 32 /\ 32 \in 0 .. 64
            BY DigestString DEF DigestSize
        <3> QED BY <3>1, <3>2, <3>3, Zenon
    <2>2. CASE n <= 64
        <3>1. short = key /\ n \in 0 .. 64
            <4>1. ~(n > HashBlock) /\ n \in 0 .. 64
                BY <2>2 DEF HashBlock
            <4> QED BY <1>2, <4>1, Zenon
        <3>2. key \in Seq(V)
            BY SeqMonotonic DEF KeyBytes
        <3> QED BY <1>2, <3>1, <3>2, Zenon
    <2> QED BY <2>1, <2>2
<1> HIDE DEF short
<1>4. 64 - m \in Nat /\ m + (64 - m) = 64
    OBVIOUS
<1>5. Repeat(Zero, 64 - m) \in Seq(V) /\ Len(Repeat(Zero, 64 - m)) = 64 - m
    BY <1>4 DEF Repeat, KeyBytes
<1> HIDE DEF V
<1>6. /\ short \o Repeat(Zero, 64 - m) \in Seq(V)
      /\ Len(short \o Repeat(Zero, 64 - m)) = m + (64 - m)
    <2>1. Len(short \o Repeat(Zero, 64 - m)) = Len(short) + Len(Repeat(Zero, 64 - m))
        BY <1>3, <1>5, ConcatProperties, Zenon
    <2>2. short \o Repeat(Zero, 64 - m) \in Seq(V)
        BY <1>3, <1>5, ConcatProperties, Zenon
    <2> QED BY <1>3, <1>5, <2>1, <2>2, Zenon
<1>7. PadKey(key) \in Seq(V) /\ Len(PadKey(key)) = HashBlock
    BY <1>1, <1>3, <1>4, <1>6, Zenon DEF HashBlock
<1> QED BY <1>1, <1>7, Zenon DEF short, V

Pads(S) == {<<"xor", byte, pad>> : byte \in S, pad \in {"0x36", "0x5c"}}

LEMMA XoredString ==
    ASSUME NEW S, NEW block \in Seq(S), NEW pad \in {"0x36", "0x5c"}
    PROVE  Xored(block, pad) \in Seq(Pads(S)) /\ Len(Xored(block, pad)) = Len(block)
<1>1. Len(block) \in Nat /\ \A i \in 1 .. Len(block) : <<"xor", block[i], pad>> \in Pads(S)
    BY DEF Pads
<1> QED BY <1>1 DEF Xored

(* HmacSha256 makes the HMAC of RFC 2104, for keys and data of any length   *)
(* (LplCrypto.cpp:324-359).                                                 *)
THEOREM HmacIsRfc2104 ==
    ASSUME NEW U, NEW key \in Seq(U), NEW first \in Seq(U), NEW second \in Seq(U)
    PROVE  Hmac(key, first, second) = HmacOf(key, first \o second)
<1> DEFINE K == KeyBytes(U, key)
           innerPad == Xored(PadKey(key), "0x36")
           outerPad == Xored(PadKey(key), "0x5c")
           chain == HashOf(innerPad \o (first \o second))
           V == U \cup Pads(K) \cup Digits(chain)
<1>1. innerPad \in Seq(Pads(K)) /\ outerPad \in Seq(Pads(K))
    BY KeyPadded, XoredString, Zenon
<1> HIDE DEF K, innerPad, outerPad, chain
<1>2. /\ innerPad \in Seq(V) /\ outerPad \in Seq(V)
      /\ first \in Seq(V) /\ second \in Seq(V) /\ DigestBytes(chain) \in Seq(V)
    BY <1>1, DigestString, SeqMonotonic
<1> HIDE DEF V
<1>3. Finish(Update(Update(Update(NewHash, innerPad), first), second)) = chain
    BY <1>2, ThreeChunks, Zenon DEF chain
<1>4. Finish(Update(Update(NewHash, outerPad), DigestBytes(chain))) = HashOf(outerPad \o DigestBytes(chain))
    BY <1>2, StreamedHash, Zenon
<1>5. Hmac(key, first, second) = HashOf(outerPad \o DigestBytes(chain))
    BY <1>3, <1>4, Zenon DEF Hmac, innerPad, outerPad
<1>6. HmacOf(key, first \o second) = HashOf(outerPad \o DigestBytes(chain))
    BY KeyPadded, Zenon DEF HmacOf, innerPad, outerPad, chain
<1> QED BY <1>5, <1>6, Zenon

-----------------------------------------------------------------------------
(* What a digest and a tag bind *)

LEMMA ConcatSplits ==
    ASSUME NEW U, NEW s \in Seq(U), NEW t \in Seq(U), NEW v \in Seq(U), NEW w \in Seq(U),
           Len(s) = Len(v), Len(t) = Len(w), s \o t = v \o w
    PROVE  s = v /\ t = w
<1>1. PICK m \in Nat, n \in Nat : m = Len(s) /\ n = Len(t)
    <2>1. Len(s) \in Nat /\ Len(t) \in Nat
        OBVIOUS
    <2> QED BY <2>1, Zenon
<1>2. /\ \A i \in 1 .. m + n : (s \o t)[i] = IF i <= m THEN s[i] ELSE t[i - m]
      /\ \A i \in 1 .. m + n : (v \o w)[i] = IF i <= m THEN v[i] ELSE w[i - m]
    BY <1>1, ConcatProperties
<1>3. ASSUME NEW i \in 1 .. m PROVE s[i] = v[i]
    <2>1. i \in 1 .. m + n /\ i <= m
        OBVIOUS
    <2>2. (s \o t)[i] = s[i] /\ (v \o w)[i] = v[i]
        BY <1>2, <2>1, Zenon
    <2> QED BY <2>2, Zenon
<1>4. ASSUME NEW i \in 1 .. n PROVE t[i] = w[i]
    <2>1. PICK j \in 1 .. m + n : ~(j <= m) /\ j - m = i
        <3>1. m + i \in 1 .. m + n /\ ~(m + i <= m) /\ m + i - m = i
            OBVIOUS
        <3> QED BY <3>1
    <2>2. (s \o t)[j] = t[i] /\ (v \o w)[j] = w[i]
        BY <1>2, <2>1, Zenon
    <2> QED BY <2>2, Zenon
<1>5. s = v
    BY <1>1, <1>3, SeqEqual
<1>6. t = w
    BY <1>1, <1>4, SeqEqual
<1> QED BY <1>5, <1>6

LEMMA PaddingLength ==
    ASSUME NEW n \in Nat
    PROVE  /\ Padding(n) \in Seq(OwnBytes)
           /\ \E z \in 0 .. 63 : Len(Padding(n)) = z + 9 /\ (n + z + 9) % 64 = 0
<1>1. PICK z \in 0 .. 63 : (n + 1 + z + 8) % 64 = 0
    <2>1. CASE n % 64 <= 55
        <3>1. 55 - (n % 64) \in 0 .. 63 /\ (n + 1 + (55 - (n % 64)) + 8) % 64 = 0
            BY <2>1
        <3> QED BY <3>1
    <2>2. CASE n % 64 > 55
        <3>1. 119 - (n % 64) \in 0 .. 63 /\ (n + 1 + (119 - (n % 64)) + 8) % 64 = 0
            BY <2>2
        <3> QED BY <3>1
    <2> QED BY <2>1, <2>2
<1> DEFINE mark == <<Marker>>
           zeros == Repeat(Zero, z)
           end == LengthBytes(n)
<1>2. Padding(n) = (mark \o zeros) \o end
    BY <1>1, ZerosChosen, Zenon DEF Padding
<1>3. /\ mark \in Seq(OwnBytes) /\ Len(mark) = 1
      /\ zeros \in Seq(OwnBytes) /\ Len(zeros) = z
      /\ end \in Seq(OwnBytes) /\ Len(end) = 8
    BY OwnStrings
<1> HIDE DEF mark, zeros, end
<1>4. PICK start : start = mark \o zeros
    OBVIOUS
<1>5. start \in Seq(OwnBytes) /\ Len(start) = 1 + z
    <2>1. mark \o zeros \in Seq(OwnBytes) /\ Len(mark \o zeros) = Len(mark) + Len(zeros)
        BY <1>3, ConcatProperties, Zenon
    <2> QED BY <1>3, <1>4, <2>1, Zenon
<1>6. start \o end \in Seq(OwnBytes) /\ Len(start \o end) = 1 + z + 8
    <2>1. start \o end \in Seq(OwnBytes) /\ Len(start \o end) = Len(start) + Len(end)
        BY <1>3, <1>5, ConcatProperties, Zenon
    <2> QED BY <1>3, <1>5, <2>1, Zenon
<1>7. 1 + z + 8 = z + 9 /\ (n + z + 9) % 64 = 0
    BY <1>1
<1> QED BY <1>2, <1>4, <1>6, <1>7, Zenon

LEMMA ByteOfBlocks ==
    ASSUME NEW U, NEW s \in Seq(U), NEW i \in 1 .. Len(s), Len(s) % 64 = 0
    PROVE  BlocksOf(s)[(i - 1) \div 64 + 1][((i - 1) % 64) + 1] = s[i]
<1>1. PICK n \in Nat : n = Len(s)
    <2>1. Len(s) \in Nat
        OBVIOUS
    <2> QED BY <2>1, Zenon
<1>2. i \in 1 .. n /\ n % 64 = 0
    BY <1>1
<1> DEFINE b == (i - 1) \div 64 + 1
           j == ((i - 1) % 64) + 1
<1>3. /\ b \in 1 .. n \div 64 /\ j \in 1 .. 64
      /\ 64 * (b - 1) + 1 + j - 1 = i /\ 64 * (b - 1) + 1 \in 1 .. n /\ 64 * b \in 1 .. n
    BY <1>2
<1> HIDE DEF b, j
<1>4. BlocksOf(s)[b] = SubSeq(s, 64 * (b - 1) + 1, 64 * b)
    BY <1>1, <1>3 DEF BlocksOf, HashBlock
<1>5. PICK from \in Int, to \in Int :
          /\ from = 64 * (b - 1) + 1 /\ to = 64 * b /\ from \in 1 .. n /\ to \in 1 .. n
          /\ to - from + 1 = 64 /\ from + j - 1 = i
    BY <1>3
<1>6. \A k \in from .. to : s[k] \in U
    BY <1>1, <1>5
<1>7. \A k \in 1 .. to - from + 1 : SubSeq(s, from, to)[k] = s[from + k - 1]
    BY ONLY <1>6, from \in Int, to \in Int, SubSeqProperties
<1>8. SubSeq(s, from, to)[j] = s[i]
    BY <1>3, <1>5, <1>7
<1> QED BY <1>4, <1>5, <1>8, Zenon DEF b, j

(* Two messages of one length with one digest are the same. *)
LEMMA HashBinds ==
    ASSUME NEW U, NEW s \in Seq(U), NEW t \in Seq(U), Len(s) = Len(t), HashOf(s) = HashOf(t)
    PROVE  s = t
<1> DEFINE V == U \cup OwnBytes
<1>1. PICK n \in Nat : n = Len(s) /\ n = Len(t)
    <2>1. Len(s) \in Nat
        OBVIOUS
    <2> QED BY <2>1, Zenon
<1>2. PICK z \in 0 .. 63 : Len(Padding(n)) = z + 9 /\ (n + z + 9) % 64 = 0
    BY PaddingLength
<1>3. s \in Seq(V) /\ t \in Seq(V) /\ Padding(n) \in Seq(V)
    BY PaddingLength, SeqMonotonic
<1> HIDE DEF V
<1> DEFINE p == s \o Padding(n)
           q == t \o Padding(n)
<1>4. p \in Seq(V) /\ q \in Seq(V) /\ Len(p) = n + (z + 9) /\ Len(q) = n + (z + 9)
    BY <1>1, <1>2, <1>3, ConcatProperties
<1>5. BlocksOf(p) = BlocksOf(q)
    <2>1. HashOf(s) = BlocksOf(p) /\ HashOf(t) = BlocksOf(q)
        BY <1>1, Zenon DEF HashOf, BlocksOf
    <2> QED BY <2>1, Zenon
<1>6. ASSUME NEW i \in 1 .. n PROVE s[i] = t[i]
    <2>1. p[i] = s[i] /\ q[i] = t[i]
        BY <1>1, <1>2, <1>3, ConcatProperties
    <2> HIDE DEF p, q
    <2>2. i \in 1 .. n + (z + 9) /\ (n + (z + 9)) % 64 = 0
        BY <1>2
    <2>3. i \in 1 .. Len(p) /\ Len(p) % 64 = 0 /\ i \in 1 .. Len(q) /\ Len(q) % 64 = 0
        BY <1>4, <2>2, Zenon
    <2>4. /\ BlocksOf(p)[(i - 1) \div 64 + 1][((i - 1) % 64) + 1] = p[i]
          /\ BlocksOf(q)[(i - 1) \div 64 + 1][((i - 1) % 64) + 1] = q[i]
        BY <1>4, <2>3, ByteOfBlocks
    <2> QED BY <1>5, <2>1, <2>4, Zenon
<1> QED BY <1>1, <1>6, SeqEqual

LEMMA HashSplits ==
    ASSUME NEW U, NEW s \in Seq(U), NEW t \in Seq(U), NEW v \in Seq(U), NEW w \in Seq(U),
           Len(s) = Len(v), Len(t) = Len(w), HashOf(s \o t) = HashOf(v \o w)
    PROVE  s = v /\ t = w
<1>1. /\ s \o t \in Seq(U) /\ v \o w \in Seq(U)
      /\ Len(s \o t) = Len(s) + Len(t) /\ Len(v \o w) = Len(v) + Len(w)
    BY ConcatProperties, Zenon
<1>2. PICK whole1, whole2 : whole1 = s \o t /\ whole2 = v \o w
    OBVIOUS
<1>3. /\ whole1 \in Seq(U) /\ whole2 \in Seq(U) /\ Len(whole1) = Len(whole2)
      /\ HashOf(whole1) = HashOf(whole2)
    BY <1>1, <1>2, Zenon
<1>4. whole1 = whole2
    BY <1>3, HashBinds, Zenon
<1>5. s \o t = v \o w
    BY <1>2, <1>4, Zenon
<1> QED BY <1>5, ConcatSplits

LEMMA DigestBinds ==
    ASSUME NEW chain, NEW other, DigestBytes(chain) = DigestBytes(other)
    PROVE  chain = other
<1>1. DigestBytes(chain)[1] = <<"digest", chain, 1>> /\ DigestBytes(other)[1] = <<"digest", other, 1>>
    BY DEF DigestBytes, DigestSize
<1>2. <<"digest", chain, 1>> = <<"digest", other, 1>>
    BY <1>1, Zenon
<1> QED BY <1>2

LEMMA XoredBinds ==
    ASSUME NEW U, NEW s \in Seq(U), NEW t \in Seq(U), NEW pad,
           Len(s) = Len(t), Xored(s, pad) = Xored(t, pad)
    PROVE  s = t
<1>1. ASSUME NEW i \in 1 .. Len(s) PROVE s[i] = t[i]
    <2>1. Xored(s, pad)[i] = <<"xor", s[i], pad>> /\ Xored(t, pad)[i] = <<"xor", t[i], pad>>
        BY Zenon DEF Xored
    <2>2. <<"xor", s[i], pad>> = <<"xor", t[i], pad>>
        BY <2>1, Zenon
    <2> QED BY <2>2
<1> QED BY <1>1, SeqEqual

(* Two keys of one length, no longer than a block, and two messages of one *)
(* length have the same HMAC only if they are the same.                    *)
LEMMA HmacBinds ==
    ASSUME NEW U, NEW key \in Seq(U), NEW other \in Seq(U), NEW s \in Seq(U), NEW t \in Seq(U),
           Len(key) = Len(other), Len(key) <= HashBlock, Len(s) = Len(t),
           HmacOf(key, s) = HmacOf(other, t)
    PROVE  key = other /\ s = t
<1> DEFINE fill == Repeat(Zero, HashBlock - Len(key))
           k1 == key \o fill
           k2 == other \o fill
           V == U \cup {Zero}
           chain1 == HashOf(Xored(k1, "0x36") \o s)
           chain2 == HashOf(Xored(k2, "0x36") \o t)
<1>1. PICK n \in 0 .. 64 : n = Len(key) /\ n = Len(other)
    <2>1. PICK n \in Nat : n = Len(key)
        <3>1. Len(key) \in Nat
            OBVIOUS
        <3> QED BY <3>1, Zenon
    <2>2. n <= HashBlock
        BY <2>1, Zenon
    <2>3. n \in 0 .. 64
        BY <2>2 DEF HashBlock
    <2> QED BY <2>1, <2>3, Zenon
<1>2. fill \in Seq(V) /\ Len(fill) = 64 - n
    <2>1. 64 - n \in Nat /\ Zero \in V
        OBVIOUS
    <2> HIDE DEF V
    <2>2. Repeat(Zero, 64 - n) \in Seq(V) /\ Len(Repeat(Zero, 64 - n)) = 64 - n
        BY <2>1 DEF Repeat
    <2> QED BY <1>1, <2>2, Zenon DEF HashBlock
<1>3. key \in Seq(V) /\ other \in Seq(V) /\ s \in Seq(V) /\ t \in Seq(V)
    BY SeqMonotonic
<1>4. /\ HmacOf(key, s) = HashOf(Xored(k1, "0x5c") \o DigestBytes(chain1))
      /\ HmacOf(other, t) = HashOf(Xored(k2, "0x5c") \o DigestBytes(chain2))
    <2>1. ~(Len(key) > HashBlock) /\ ~(Len(other) > HashBlock)
        <3>1. ~(n > HashBlock)
            BY DEF HashBlock
        <3> QED BY <1>1, <3>1, Zenon
    <2> QED BY <2>1, Zenon DEF HmacOf
<1> HIDE DEF V, fill
<1>5. /\ k1 \in Seq(V) /\ Len(k1) = n + (64 - n)
      /\ k2 \in Seq(V) /\ Len(k2) = n + (64 - n)
    <2>1. /\ k1 \in Seq(V) /\ Len(k1) = Len(key) + Len(fill)
          /\ k2 \in Seq(V) /\ Len(k2) = Len(other) + Len(fill)
        BY <1>2, <1>3, ConcatProperties, Zenon
    <2> QED BY <1>1, <1>2, <2>1, Zenon
<1> HIDE DEF k1, k2, chain1, chain2
<1> DEFINE W == V \cup Pads(V) \cup Digits(chain1) \cup Digits(chain2)
<1>6. \A pad \in {"0x36", "0x5c"} :
          /\ Xored(k1, pad) \in Seq(Pads(V)) /\ Len(Xored(k1, pad)) = n + (64 - n)
          /\ Xored(k2, pad) \in Seq(Pads(V)) /\ Len(Xored(k2, pad)) = n + (64 - n)
    BY <1>5, XoredString, Zenon
<1>7. /\ \A pad \in {"0x36", "0x5c"} : Xored(k1, pad) \in Seq(W) /\ Xored(k2, pad) \in Seq(W)
      /\ DigestBytes(chain1) \in Seq(W) /\ DigestBytes(chain2) \in Seq(W)
      /\ s \in Seq(W) /\ t \in Seq(W)
    BY <1>3, <1>6, DigestString, SeqMonotonic
<1> HIDE DEF W
<1>8. PICK in1, in2, out1, out2, end1, end2 :
          /\ in1 = Xored(k1, "0x36") /\ in2 = Xored(k2, "0x36")
          /\ out1 = Xored(k1, "0x5c") /\ out2 = Xored(k2, "0x5c")
          /\ end1 = DigestBytes(chain1) /\ end2 = DigestBytes(chain2)
    OBVIOUS
<1>9. /\ in1 \in Seq(W) /\ in2 \in Seq(W) /\ out1 \in Seq(W) /\ out2 \in Seq(W)
      /\ end1 \in Seq(W) /\ end2 \in Seq(W)
      /\ Len(in1) = Len(in2) /\ Len(out1) = Len(out2) /\ Len(end1) = Len(end2)
    BY <1>6, <1>7, <1>8, DigestString, Zenon
<1>10. HashOf(out1 \o end1) = HashOf(out2 \o end2)
    BY <1>4, <1>8, Zenon
<1>11. out1 = out2 /\ end1 = end2
    BY ONLY <1>9, <1>10, HashSplits
<1>12. k1 = k2
    <2>1. Len(k1) = Len(k2) /\ Xored(k1, "0x5c") = Xored(k2, "0x5c")
        BY <1>5, <1>8, <1>11, Zenon
    <2> QED BY <1>5, <2>1, XoredBinds, Zenon
<1>13. key = other
    BY <1>2, <1>3, <1>12, ConcatSplits DEF k1, k2
<1>14. chain1 = chain2
    BY <1>8, <1>11, DigestBinds, Zenon
<1>15. HashOf(in1 \o s) = HashOf(in2 \o t)
    BY <1>8, <1>14, Zenon DEF chain1, chain2
<1>16. s = t
    <2>1. s \in Seq(W) /\ t \in Seq(W)
        BY <1>7
    <2> QED BY ONLY <1>9, <1>15, <2>1, Len(s) = Len(t), HashSplits
<1> QED BY <1>13, <1>16

(* How long a digest is depends on the length of the message only. *)
InBlocks(hash, blocks) == blocks \in Nat \ {0} /\ hash = [b \in 1 .. blocks |-> hash[b]]

LEMMA HashLength ==
    ASSUME NEW U, NEW s \in Seq(U), NEW n \in Nat, n = Len(s)
    PROVE  InBlocks(HashOf(s), (n + Len(Padding(n))) \div 64)
<1> DEFINE V == U \cup OwnBytes
<1>1. PICK z \in 0 .. 63 : Len(Padding(n)) = z + 9 /\ (n + z + 9) % 64 = 0
    BY PaddingLength
<1>2. s \in Seq(V) /\ Padding(n) \in Seq(V)
    BY PaddingLength, SeqMonotonic
<1> HIDE DEF V
<1>3. PICK p \in Seq(V) : p = s \o Padding(n) /\ Len(p) = n + Len(Padding(n))
    <2>1. s \o Padding(n) \in Seq(V) /\ Len(s \o Padding(n)) = Len(s) + Len(Padding(n))
        BY <1>2, ConcatProperties, Zenon
    <2> QED BY <2>1, n = Len(s), Zenon
<1>4. PICK blocks \in Nat \ {0} : blocks = (n + Len(Padding(n))) \div 64
    BY <1>1
<1>5. HashOf(s) = [b \in 1 .. blocks |-> SubSeq(p, HashBlock * (b - 1) + 1, HashBlock * b)]
    <2>1. HashOf(s) = [b \in 1 .. Len(p) \div HashBlock |-> SubSeq(p, HashBlock * (b - 1) + 1, HashBlock * b)]
        BY <1>3, n = Len(s), Zenon DEF HashOf
    <2>2. Len(p) \div HashBlock = blocks
        BY <1>3, <1>4, Zenon DEF HashBlock
    <2> QED BY <2>1, <2>2, Zenon
<1>6. HashOf(s) = [b \in 1 .. blocks |-> HashOf(s)[b]]
    BY <1>5
<1> QED BY <1>4, <1>6, Zenon DEF InBlocks

(* So a digest that has lost a block is the digest of no other message of  *)
(* that length.                                                            *)
LEMMA TailIsNoHash ==
    ASSUME NEW U, NEW s \in Seq(U), NEW t \in Seq(U), Len(s) = Len(t)
    PROVE  Tail(HashOf(s)) # HashOf(t)
<1>1. PICK n \in Nat : n = Len(s) /\ n = Len(t)
    <2>1. Len(s) \in Nat
        OBVIOUS
    <2> QED BY <2>1, Zenon
<1>2. PICK blocks : InBlocks(HashOf(s), blocks) /\ InBlocks(HashOf(t), blocks)
    BY <1>1, HashLength, Zenon
<1>3. PICK h : h = HashOf(s)
    OBVIOUS
<1>4. PICK g : g = HashOf(t)
    OBVIOUS
<1>5. blocks \in Nat \ {0} /\ h = [b \in 1 .. blocks |-> h[b]] /\ g = [b \in 1 .. blocks |-> g[b]]
    BY <1>2, <1>3, <1>4, Zenon DEF InBlocks
<1> DEFINE S == {h[b] : b \in 1 .. blocks}
<1>6. h \in Seq(S) /\ Len(h) = blocks /\ Len(g) = blocks
    BY <1>5
<1> HIDE DEF S
<1>7. Len(Tail(h)) = blocks - 1
    <2>1. h # <<>>
        BY <1>5, <1>6
    <2>2. Len(Tail(h)) = Len(h) - 1
        BY <1>6, <2>1, HeadTailProperties
    <2> QED BY <1>6, <2>2, Zenon
<1>8. Tail(h) # g
    <2>1. blocks - 1 # blocks
        BY <1>5
    <2> QED BY <1>6, <1>7, <2>1, Zenon
<1> QED BY <1>3, <1>4, <1>8, Zenon

(* What the outer hash of an HMAC takes in. *)
LEMMA OuterMessage ==
    ASSUME NEW U, NEW key \in Seq(U), Len(key) <= HashBlock, NEW s
    PROVE  \E W : \E m \in Seq(W) : Len(m) = 96 /\ HmacOf(key, s) = HashOf(m)
<1> DEFINE fill == Repeat(Zero, HashBlock - Len(key))
           padded == key \o fill
           V == U \cup {Zero}
           chain == HashOf(Xored(padded, "0x36") \o s)
           W == Pads(V) \cup Digits(chain)
<1>1. PICK n \in 0 .. 64 : n = Len(key)
    <2>1. PICK n \in Nat : n = Len(key)
        <3>1. Len(key) \in Nat
            OBVIOUS
        <3> QED BY <3>1, Zenon
    <2>2. n <= HashBlock
        BY <2>1, Zenon
    <2>3. n \in 0 .. 64
        BY <2>2 DEF HashBlock
    <2> QED BY <2>1, <2>3, Zenon
<1>2. fill \in Seq(V) /\ Len(fill) = 64 - n
    <2>1. 64 - n \in Nat /\ Zero \in V
        OBVIOUS
    <2> HIDE DEF V
    <2>2. Repeat(Zero, 64 - n) \in Seq(V) /\ Len(Repeat(Zero, 64 - n)) = 64 - n
        BY <2>1 DEF Repeat
    <2> QED BY <1>1, <2>2, Zenon DEF HashBlock
<1>3. key \in Seq(V)
    BY SeqMonotonic
<1>4. HmacOf(key, s) = HashOf(Xored(padded, "0x5c") \o DigestBytes(chain))
    <2>1. ~(n > HashBlock)
        BY DEF HashBlock
    <2>2. ~(Len(key) > HashBlock)
        BY <1>1, <2>1, Zenon
    <2> QED BY <2>2, Zenon DEF HmacOf
<1> HIDE DEF V, fill
<1>5. padded \in Seq(V) /\ Len(padded) = n + (64 - n)
    <2>1. padded \in Seq(V) /\ Len(padded) = Len(key) + Len(fill)
        BY <1>2, <1>3, ConcatProperties, Zenon
    <2> QED BY <1>1, <1>2, <2>1, Zenon
<1> HIDE DEF padded, chain
<1>6. Xored(padded, "0x5c") \in Seq(Pads(V)) /\ Len(Xored(padded, "0x5c")) = n + (64 - n)
    BY <1>5, XoredString, Zenon
<1>7. DigestBytes(chain) \in Seq(Digits(chain)) /\ Len(DigestBytes(chain)) = 32
    BY DigestString DEF DigestSize
<1>8. PICK out \in Seq(W), end \in Seq(W) :
          out = Xored(padded, "0x5c") /\ end = DigestBytes(chain) /\ Len(out) = n + (64 - n) /\ Len(end) = 32
    <2>1. Xored(padded, "0x5c") \in Seq(W) /\ DigestBytes(chain) \in Seq(W)
        BY <1>6, <1>7, SeqMonotonic
    <2> QED BY <1>6, <1>7, <2>1, Zenon
<1> HIDE DEF W
<1>9. out \o end \in Seq(W) /\ Len(out \o end) = 96
    <2>1. out \o end \in Seq(W) /\ Len(out \o end) = Len(out) + Len(end)
        BY ConcatProperties, Zenon
    <2>2. n + (64 - n) = 64 /\ 64 + 32 = 96
        OBVIOUS
    <2>3. Len(out) = 64 /\ Len(end) = 32
        BY <1>8, <2>2, Zenon
    <2> QED BY ONLY <2>1, <2>2, <2>3, Zenon
<1>10. HmacOf(key, s) = HashOf(out \o end)
    BY <1>4, <1>8, Zenon
<1> QED BY <1>9, <1>10, Zenon

LEMMA TailIsNoHmac ==
    ASSUME NEW U, NEW key \in Seq(U), NEW other \in Seq(U), NEW s, NEW t,
           Len(key) <= HashBlock, Len(other) <= HashBlock
    PROVE  Tail(HmacOf(key, s)) # HmacOf(other, t)
<1>1. PICK V : \E m \in Seq(V) : Len(m) = 96 /\ HmacOf(key, s) = HashOf(m)
    BY OuterMessage, Zenon
<1>2. PICK m \in Seq(V) : Len(m) = 96 /\ HmacOf(key, s) = HashOf(m)
    BY <1>1, Zenon
<1>3. PICK W : \E l \in Seq(W) : Len(l) = 96 /\ HmacOf(other, t) = HashOf(l)
    BY OuterMessage, Zenon
<1>4. PICK l \in Seq(W) : Len(l) = 96 /\ HmacOf(other, t) = HashOf(l)
    BY <1>3, Zenon
<1>5. m \in Seq(V \cup W) /\ l \in Seq(V \cup W) /\ Len(m) = Len(l)
    BY <1>2, <1>4, SeqMonotonic
<1>6. Tail(HashOf(m)) # HashOf(l)
    BY <1>5, TailIsNoHash, Zenon
<1> QED BY <1>2, <1>4, <1>6, Zenon

-----------------------------------------------------------------------------
(* AES-CBC *)

Byte == 0 .. 255

(* One block of the ciphertext, from the one before it. *)
Chained(key, text, i, last) == Encrypted(key, Mixed(BlockAt(text, i), last))
IsCipher(f, key, iv, text, n) ==
    f = [t \in 0 .. n |-> IF t = 0 THEN iv ELSE Chained(key, text, t, f[t - 1])]

LEMMA CipherComputed ==
    ASSUME NEW key, NEW iv, NEW text, NEW n \in Nat
    PROVE  \E f : IsCipher(f, key, iv, text, n)
<1> DEFINE good == {k \in Nat :
                       \E f : f = [t \in 0 .. k |-> IF t = 0 THEN iv ELSE Chained(key, text, t, f[t - 1])]}
<1>1. 0 \in good
    <2> DEFINE f == [t \in 0 .. 0 |-> iv]
    <2>1. f = [t \in 0 .. 0 |-> IF t = 0 THEN iv ELSE Chained(key, text, t, f[t - 1])]
        OBVIOUS
    <2> QED BY <2>1, Zenon
<1>2. ASSUME NEW k \in good PROVE k + 1 \in good
    <2>1. k \in Nat /\ \E f : f = [t \in 0 .. k |-> IF t = 0 THEN iv ELSE Chained(key, text, t, f[t - 1])]
        OBVIOUS
    <2>2. PICK f : f = [t \in 0 .. k |-> IF t = 0 THEN iv ELSE Chained(key, text, t, f[t - 1])]
        BY <2>1, Zenon
    <2> DEFINE g == [t \in 0 .. k + 1 |-> IF t = k + 1 THEN Chained(key, text, t, f[k]) ELSE f[t]]
               h == [t \in 0 .. k + 1 |-> IF t = 0 THEN iv ELSE Chained(key, text, t, g[t - 1])]
    <2>3. ASSUME NEW t \in 0 .. k + 1 PROVE g[t] = h[t]
        <3>1. CASE t = k + 1
            <4>1. g[t] = Chained(key, text, t, f[k])
                BY <2>1, <3>1
            <4>2. g[t - 1] = f[k] /\ t # 0
                BY <2>1, <3>1
            <4> QED BY <4>1, <4>2, Zenon
        <3>2. CASE t \in 0 .. k /\ t # 0
            <4>1. g[t] = f[t] /\ t # k + 1
                BY <2>1, <3>2
            <4>2. f[t] = Chained(key, text, t, f[t - 1])
                BY <2>2, <3>2, Zenon
            <4>3. g[t - 1] = f[t - 1]
                BY <2>1, <3>2
            <4> QED BY <3>2, <4>1, <4>2, <4>3, Zenon
        <3>3. CASE t = 0
            <4>1. g[t] = f[t] /\ t \in 0 .. k
                BY <2>1, <3>3
            <4> QED BY <2>2, <3>3, <4>1
        <3> QED BY <2>1, <3>1, <3>2, <3>3
    <2>4. g = h
        BY <2>3
    <2> HIDE DEF g
    <2>5. g = [t \in 0 .. k + 1 |-> IF t = 0 THEN iv ELSE Chained(key, text, t, g[t - 1])]
        BY <2>4
    <2> HIDE DEF h
    <2>6. \E e : e = [t \in 0 .. k + 1 |-> IF t = 0 THEN iv ELSE Chained(key, text, t, e[t - 1])]
        BY <2>5, Zenon
    <2>7. k + 1 \in Nat
        BY <2>1
    <2> QED BY <2>6, <2>7, Zenon
<1> HIDE DEF good
<1>3. good \subseteq Nat
    BY DEF good
<1>4. good = Nat
    BY <1>1, <1>2, <1>3, EveryNatural
<1>5. n \in good
    BY <1>4
<1> QED BY <1>5, Zenon DEF good, IsCipher

LEMMA PaddedText ==
    ASSUME NEW text \in Seq(Byte)
    PROVE  \E blocks \in Nat \ {0}, pad \in 1 .. 16, n \in Nat :
              /\ n = Len(text) /\ 16 * blocks = n + pad /\ blocks = BlockCount(text)
              /\ Padded(text) \in Seq(Byte) /\ Len(Padded(text)) = 16 * blocks
              /\ \A i \in 1 .. n : Padded(text)[i] = text[i]
              /\ \A i \in n + 1 .. 16 * blocks : Padded(text)[i] = pad
<1>1. PICK n \in Nat : n = Len(text)
    <2>1. Len(text) \in Nat
        OBVIOUS
    <2> QED BY <2>1, Zenon
<1>2. PICK blocks \in Nat \ {0} : blocks = n \div 16 + 1
    OBVIOUS
<1>3. PICK pad \in 1 .. 16 : pad = 16 * blocks - n
    BY <1>2
<1>4. BlockCount(text) = blocks
    BY <1>1, <1>2, Zenon DEF BlockCount, CipherBlock
<1> DEFINE end == Repeat(pad, pad)
<1>5. Padded(text) = text \o end
    BY <1>1, <1>3, <1>4, Zenon DEF Padded, CipherBlock
<1>6. end \in Seq(Byte) /\ Len(end) = pad /\ \A i \in 1 .. pad : end[i] = pad
    BY DEF Repeat, Byte
<1> HIDE DEF end
<1>7. /\ text \o end \in Seq(Byte) /\ Len(text \o end) = n + pad
      /\ \A i \in 1 .. n + pad : (text \o end)[i] = IF i <= n THEN text[i] ELSE end[i - n]
    BY <1>1, <1>6, ConcatProperties
<1>8. 16 * blocks = n + pad
    BY <1>3
<1>9. \A i \in 1 .. n : Padded(text)[i] = text[i]
    <2> TAKE i \in 1 .. n
    <2>1. i \in 1 .. n + pad /\ i <= n
        OBVIOUS
    <2> QED BY <1>5, <1>7, <2>1, Zenon
<1>10. \A i \in n + 1 .. 16 * blocks : Padded(text)[i] = pad
    <2> TAKE i \in n + 1 .. 16 * blocks
    <2>1. i \in 1 .. n + pad /\ ~(i <= n) /\ i - n \in 1 .. pad
        BY <1>8
    <2> QED BY <1>5, <1>6, <1>7, <2>1, Zenon
<1>11. Padded(text) \in Seq(Byte) /\ Len(Padded(text)) = 16 * blocks
    BY <1>5, <1>7, <1>8, Zenon
<1> HIDE DEF end
<1> WITNESS blocks \in Nat \ {0}, pad \in 1 .. 16, n \in Nat
<1> QED BY <1>1, <1>4, <1>8, <1>9, <1>10, <1>11, Zenon

(* Every block holds its part of the padded text and the block before it. *)
Chain(c, key, iv, text) ==
    /\ c = [i \in 1 .. BlockCount(text) |-> c[i]]
    /\ DOMAIN c = 1 .. BlockCount(text) /\ Len(c) = BlockCount(text)
    /\ \A i \in 1 .. BlockCount(text) :
          c[i] = Chained(key, Padded(text), i, IF i = 1 THEN iv ELSE c[i - 1])

LEMMA CipherBlocks ==
    ASSUME NEW key, NEW iv, NEW text, BlockCount(text) \in Nat \ {0}
    PROVE  Chain(CbcEncrypt(key, iv, text), key, iv, text)
<1> DEFINE cipher[i \in 0 .. BlockCount(text)] ==
               IF i = 0 THEN iv ELSE Encrypted(key, Mixed(BlockAt(Padded(text), i), cipher[i - 1]))
           c == CbcEncrypt(key, iv, text)
<1>1. c = [i \in 1 .. BlockCount(text) |-> cipher[i]]
    BY Zenon DEF CbcEncrypt
<1>2. IsCipher(cipher, key, iv, Padded(text), BlockCount(text))
    <2>1. BlockCount(text) \in Nat
        OBVIOUS
    <2>2. \E f : IsCipher(f, key, iv, Padded(text), BlockCount(text))
        BY ONLY <2>1, CipherComputed
    <2> QED BY <2>2, Zenon DEF Chained, IsCipher
<1> HIDE DEF cipher, c
<1>3. PICK m \in Nat \ {0} : m = BlockCount(text)
    OBVIOUS
<1>4. PICK full : full = Padded(text)
    OBVIOUS
<1>5. cipher = [i \in 0 .. m |-> IF i = 0 THEN iv ELSE Chained(key, full, i, cipher[i - 1])]
    <2>1. IsCipher(cipher, key, iv, full, m)
        BY <1>2, <1>3, <1>4, Zenon
    <2> QED BY <2>1, Zenon DEF IsCipher
<1>6. c = [i \in 1 .. m |-> cipher[i]]
    BY <1>1, <1>3
<1>7. cipher[0] = iv
    BY <1>5
<1>8. \A i \in 1 .. m : c[i] = Chained(key, full, i, IF i = 1 THEN iv ELSE c[i - 1])
    <2> TAKE i \in 1 .. m
    <2>1. i \in 0 .. m /\ i # 0
        OBVIOUS
    <2>2. cipher[i] = Chained(key, full, i, cipher[i - 1])
        BY <1>5, <2>1, Zenon
    <2>3. cipher[i - 1] = IF i = 1 THEN iv ELSE c[i - 1]
        <3>1. CASE i = 1
            BY <1>7, <3>1
        <3>2. CASE i # 1
            <4>1. i - 1 \in 1 .. m
                BY <3>2
            <4> QED BY <1>6, <3>2, <4>1, Zenon
        <3> QED BY <3>1, <3>2
    <2>4. c[i] = cipher[i]
        BY <1>6, Zenon
    <2> QED BY <2>2, <2>3, <2>4, Zenon
<1>9. DOMAIN c = 1 .. m
    BY <1>6, Zenon
<1>10. c = [i \in 1 .. m |-> c[i]]
    BY <1>6, Zenon
<1>11. Len(c) = m
    BY <1>6
<1>12. /\ c = [i \in 1 .. BlockCount(text) |-> c[i]]
       /\ DOMAIN c = 1 .. BlockCount(text) /\ Len(c) = BlockCount(text)
    BY <1>3, <1>9, <1>10, <1>11
<1>13. \A i \in 1 .. BlockCount(text) : c[i] = Chained(key, Padded(text), i, IF i = 1 THEN iv ELSE c[i - 1])
    BY <1>3, <1>4, <1>8, Zenon
<1> QED BY <1>12, <1>13, Zenon DEF c, Chain

(* Cut into cipher blocks and joined again, a text is what it was. *)
LEMMA JoinedBlocks ==
    ASSUME NEW U, NEW text \in Seq(U), NEW m \in Nat, Len(text) = 16 * m,
           NEW blocks, Len(blocks) = m,
           \A i \in 1 .. m : blocks[i] = BlockAt(text, i)
    PROVE  Joined(blocks) = text
<1>1. Joined(blocks) = [i \in 1 .. 16 * m |-> blocks[(i - 1) \div 16 + 1][((i - 1) % 16) + 1]]
    BY Len(blocks) = m, Zenon DEF Joined, CipherBlock
<1>2. text = [i \in 1 .. 16 * m |-> text[i]]
    BY Len(text) = 16 * m
<1>3. ASSUME NEW i \in 1 .. 16 * m
      PROVE  blocks[(i - 1) \div 16 + 1][((i - 1) % 16) + 1] = text[i]
    <2>1. PICK b \in 1 .. m, k \in 1 .. 16 :
              /\ b = (i - 1) \div 16 + 1 /\ k = ((i - 1) % 16) + 1 /\ i = 16 * (b - 1) + k
        <3>1. PICK q \in Int, r \in 0 .. 15 : q = (i - 1) \div 16 /\ r = (i - 1) % 16 /\ i - 1 = 16 * q + r
            OBVIOUS
        <3>2. q + 1 \in 1 .. m /\ r + 1 \in 1 .. 16 /\ i = 16 * ((q + 1) - 1) + (r + 1)
            BY <3>1
        <3> QED BY <3>1, <3>2, Zenon
    <2>2. blocks[b] = SubSeq(text, 16 * (b - 1) + 1, 16 * b)
        BY Zenon DEF BlockAt, CipherBlock
    <2>3. SubSeq(text, 16 * (b - 1) + 1, 16 * b)[k] = text[i]
        <3>1. PICK from \in Int, to \in Int : from = 16 * (b - 1) + 1 /\ to = 16 * b
            OBVIOUS
        <3>2. k \in 1 .. to - from + 1 /\ from + k - 1 = i
            BY <2>1, <3>1
        <3>3. SubSeq(text, from, to)[k] = text[from + k - 1]
            BY ONLY <3>2, from \in Int, to \in Int, text \in Seq(U)
        <3> QED BY <3>1, <3>2, <3>3, Zenon
    <2> QED BY <2>1, <2>2, <2>3, Zenon
<1> QED BY <1>1, <1>2, <1>3, Zenon

(* Each block decrypts to its part of the padded text. *)
LEMMA PlainBlocks ==
    ASSUME NEW key, NEW iv, NEW text \in Seq(Byte)
    PROVE  Decrypted(key, iv, CbcEncrypt(key, iv, text)) = Padded(text)
<1>1. PICK m \in Nat \ {0} : m = BlockCount(text) /\ Len(Padded(text)) = 16 * m
    <2>1. PICK blocks \in Nat \ {0}, pad \in 1 .. 16, n \in Nat :
              blocks = BlockCount(text) /\ Len(Padded(text)) = 16 * blocks
        BY PaddedText, Zenon
    <2> QED BY <2>1, Zenon
<1>2. Padded(text) \in Seq(Byte)
    BY PaddedText, Zenon
<1>3. PICK full : full = Padded(text)
    OBVIOUS
<1>4. PICK c : c = CbcEncrypt(key, iv, text)
    OBVIOUS
<1>5. Len(c) = m /\ \A i \in 1 .. m : c[i] = Chained(key, full, i, IF i = 1 THEN iv ELSE c[i - 1])
    <2>1. BlockCount(text) \in Nat \ {0}
        BY <1>1
    <2>2. Chain(c, key, iv, text)
        BY <1>4, <2>1, CipherBlocks, Zenon
    <2> QED BY <1>1, <1>3, <2>2, Zenon DEF Chain
<1> DEFINE blocks == [i \in 1 .. Len(c) |-> Plain(key, c[i], IF i = 1 THEN iv ELSE c[i - 1])]
<1>6. Decrypted(key, iv, c) = Joined(blocks)
    BY Zenon DEF Decrypted
<1>7. ASSUME NEW i \in 1 .. m PROVE blocks[i] = BlockAt(full, i)
    <2>1. PICK last : last = IF i = 1 THEN iv ELSE c[i - 1]
        OBVIOUS
    <2>2. c[i] = Encrypted(key, Mixed(BlockAt(full, i), last))
        BY <1>5, <2>1, Zenon DEF Chained
    <2>3. /\ Encrypted(key, Mixed(BlockAt(full, i), last)).key = key
          /\ Encrypted(key, Mixed(BlockAt(full, i), last)).block = Mixed(BlockAt(full, i), last)
          /\ Mixed(BlockAt(full, i), last).chain = last
          /\ Mixed(BlockAt(full, i), last).block = BlockAt(full, i)
        BY Zenon DEF Encrypted, Mixed
    <2>4. Plain(key, c[i], last) = BlockAt(full, i)
        BY <2>2, <2>3, Zenon DEF Plain
    <2> QED BY <1>5, <2>1, <2>4, Zenon
<1>8. Len(blocks) = m
    BY <1>5
<1> HIDE DEF blocks
<1>9. Joined(blocks) = full
    <2>1. Len(full) = 16 * m /\ full \in Seq(Byte)
        BY <1>1, <1>2, <1>3, Zenon
    <2>2. m \in Nat
        OBVIOUS
    <2> QED BY ONLY <1>7, <1>8, <2>1, <2>2, JoinedBlocks
<1> QED BY <1>3, <1>4, <1>6, <1>9, Zenon

(* A payload comes back as it went in, whatever its length, also one that   *)
(* ends like padding (LplCrypto.cpp:171-218).                              *)
THEOREM CbcRoundTrip ==
    ASSUME NEW key, NEW iv, NEW text \in Seq(Byte)
    PROVE  CbcDecrypt(key, iv, CbcEncrypt(key, iv, text)) = [ok |-> TRUE, text |-> text]
<1>1. PICK m \in Nat \ {0}, pad \in 1 .. 16, n \in Nat :
          /\ n = Len(text) /\ 16 * m = n + pad /\ m = BlockCount(text)
          /\ Padded(text) \in Seq(Byte) /\ Len(Padded(text)) = 16 * m
          /\ \A i \in 1 .. n : Padded(text)[i] = text[i]
          /\ \A i \in n + 1 .. 16 * m : Padded(text)[i] = pad
    BY PaddedText, Zenon
<1>2. PICK full \in Seq(Byte) : full = Padded(text)
    BY <1>1, Zenon
<1>3. PICK c : c = CbcEncrypt(key, iv, text)
    OBVIOUS
<1>4. Decrypted(key, iv, c) = full
    BY <1>2, <1>3, PlainBlocks, Zenon
<1>5. PICK all \in Nat : all = 16 * m /\ all = n + pad
    BY <1>1
<1>6. Len(full) = all /\ (\A i \in 1 .. n : full[i] = text[i]) /\ (\A i \in n + 1 .. all : full[i] = pad)
    BY <1>1, <1>2, <1>5, Zenon
<1>7. c # <<>>
    <2>1. Len(c) = m
        <3>1. BlockCount(text) \in Nat \ {0}
            BY <1>1
        <3>2. Chain(c, key, iv, text)
            BY <1>3, <3>1, CipherBlocks, Zenon
        <3> QED BY <1>1, <3>2, Zenon DEF Chain
    <2> QED BY ONLY <2>1, m \in Nat \ {0}
<1>8. full[Len(full)] = pad /\ pad \in 1 .. CipherBlock
    <2>1. all \in n + 1 .. all
        BY <1>5
    <2>2. pad \in 1 .. CipherBlock
        BY DEF CipherBlock
    <2> QED BY <1>6, <2>1, <2>2, Zenon
<1>9. Len(full) - pad = n /\ Len(full) - pad + 1 = n + 1
    BY <1>5, <1>6
<1>10. SubSeq(full, 1, n) = text
    <2>1. n <= all
        BY <1>5
    <2>2. SubSeq(full, 1, n) = [i \in 1 .. n |-> full[i]]
        BY ONLY full \in Seq(Byte), n \in Nat, all \in Nat, <1>6, <2>1
    <2>3. text = [i \in 1 .. n |-> text[i]]
        BY <1>1
    <2> QED BY <1>6, <2>2, <2>3
<1>11. \A i \in Len(full) - pad + 1 .. Len(full) : full[i] = pad
    BY <1>6, <1>9, Zenon
<1>12. CbcDecrypt(key, iv, c) = [ok |-> TRUE, text |-> SubSeq(full, 1, n)]
    BY <1>4, <1>7, <1>8, <1>9, <1>11, Zenon DEF CbcDecrypt
<1> QED BY <1>3, <1>10, <1>12, Zenon
=============================================================================
