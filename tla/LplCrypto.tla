------------------------------ MODULE LplCrypto ------------------------------
(* How LplCrypto.cpp divides its inputs into blocks: the streaming Sha256, *)
(* HmacSha256 on top of it, and AES-CBC with PKCS#7 padding.               *)
(*                                                                         *)
(* What happens inside a block is perfect here: a digest stands for the    *)
(* blocks that were compressed, an encrypted block for its key and its     *)
(* contents, an exclusive or for its two operands.  A byte that goes into  *)
(* the hash is a tuple, whose first element says where it comes from.      *)
EXTENDS Integers, Sequences

HashBlock == 64         \* Sha256::BLOCK_SIZE
DigestSize == 32
CipherBlock == 16       \* Aes128::BLOCK_SIZE

Zero == <<"zero">>
Stale == <<"stale">>
Marker == <<"marker">>
LengthBytes(total) == [i \in 1 .. 8 |-> <<"length", total, i>>]
Bytes(from, n) == [i \in 1 .. n |-> <<from, i>>]
Repeat(byte, n) == [i \in 1 .. n |-> byte]
LesserOf(m, n) == IF m < n THEN m ELSE n

(* The bytes of a sequence of cipher blocks. *)
Joined(blocks) ==
    [i \in 1 .. CipherBlock * Len(blocks) |->
        blocks[(i - 1) \div CipherBlock + 1][((i - 1) % CipherBlock) + 1]]

-----------------------------------------------------------------------------
(* Sha256: chain stands for _state, used for _bufferLen.                   *)

Reset(buffer) == [chain |-> <<>>, buffer |-> buffer, used |-> 0, total |-> 0]
NewHash == Reset(Repeat(Stale, HashBlock))

Copied(h, data) ==
    [h EXCEPT !.buffer = [i \in 1 .. HashBlock |->
                            IF i \in h.used + 1 .. h.used + Len(data) THEN data[i - h.used] ELSE @[i]],
              !.used = @ + Len(data)]
Compressed(h) == [h EXCEPT !.chain = Append(@, h.buffer), !.used = 0]

(* One turn of update()'s loop: s is the hash and the data still to go. *)
Pass(s) ==
    IF s.data = <<>> THEN s
    ELSE LET take == LesserOf(HashBlock - s.h.used, Len(s.data))
             filled == Copied(s.h, SubSeq(s.data, 1, take))
         IN  [h |-> IF filled.used = HashBlock THEN Compressed(filled) ELSE filled,
              data |-> SubSeq(s.data, take + 1, Len(s.data))]

(* Every turn but the last fills the buffer. *)
Turns(h, data) == (h.used + Len(data)) \div HashBlock + 1

Absorbed(h, data) ==
    LET after[turn \in 0 .. Turns(h, data)] ==
            IF turn = 0 THEN [h |-> h, data |-> data] ELSE Pass(after[turn - 1])
    IN  after[Turns(h, data)].h

Update(h, data) == Absorbed([h EXCEPT !.total = @ + Len(data)], data)

ZeroedTo(h, size) == Copied(h, Repeat(Zero, size - h.used))

(* Seeded fault: the marker is taken for the last byte before the length. *)
FinishOffByOne(h) ==
    LET marked == Copied(h, <<Marker>>)
        roomy == IF marked.used > HashBlock - 9 THEN Compressed(ZeroedTo(marked, HashBlock)) ELSE marked
    IN  Compressed(Copied(ZeroedTo(roomy, HashBlock - 8), LengthBytes(h.total))).chain

(* The blocks that make up the digest: the marker and the length of the    *)
(* message follow it, in one more block when this one has no room.         *)
Finish(h) ==
    LET marked == Copied(h, <<Marker>>)
        roomy == IF marked.used > HashBlock - 8 THEN Compressed(ZeroedTo(marked, HashBlock)) ELSE marked
    IN  Compressed(Copied(ZeroedTo(roomy, HashBlock - 8), LengthBytes(h.total))).chain

DigestBytes(chain) == [i \in 1 .. DigestSize |-> <<"digest", chain, i>>]

(* HmacSha256 over data that is handed over in two chunks, as seal(),      *)
(* open(), nextIv() and the first round of PBKDF2 do.                      *)
PadKey(key) ==
    LET short == IF Len(key) > HashBlock THEN DigestBytes(Finish(Update(NewHash, key))) ELSE key
    IN  short \o Repeat(Zero, HashBlock - Len(short))
Xored(block, pad) == [i \in 1 .. Len(block) |-> <<"xor", block[i], pad>>]

Hmac(key, first, second) ==
    LET inner == Update(Update(Update(NewHash, Xored(PadKey(key), "0x36")), first), second)
        outer == Update(NewHash, Xored(PadKey(key), "0x5c"))
    IN  Finish(Update(outer, DigestBytes(Finish(inner))))

(* The first round of pbkdf2HmacSha256() for the first block of its output. *)
FirstRound(password, salt) == Hmac(password, salt, Bytes("index", 4))

-----------------------------------------------------------------------------
(* AES-CBC with PKCS#7 padding, block by block.  Plaintext bytes are       *)
(* numbers, as the padding is read back from them.                         *)

Encrypted(key, block) == [key |-> key, block |-> block]
Mixed(block, chain) == [block |-> block, chain |-> chain]

(* Noise is what decrypting with the wrong key or chain leaves: any bytes; *)
(* a byte of value 0 is what no padding has.                               *)
Noise == Repeat(0, CipherBlock)

BlockCount(plaintext) == Len(plaintext) \div CipherBlock + 1
Padded(plaintext) ==
    LET pad == CipherBlock * BlockCount(plaintext) - Len(plaintext)
    IN  plaintext \o Repeat(pad, pad)
BlockAt(text, i) == SubSeq(text, CipherBlock * (i - 1) + 1, CipherBlock * i)

CbcEncrypt(key, iv, plaintext) ==
    LET text == Padded(plaintext)
        cipher[i \in 0 .. BlockCount(plaintext)] ==
            IF i = 0 THEN iv ELSE Encrypted(key, Mixed(BlockAt(text, i), cipher[i - 1]))
    IN  [i \in 1 .. BlockCount(plaintext) |-> cipher[i]]

Plain(key, block, chain) ==
    IF block.key = key /\ block.block.chain = chain THEN block.block.block ELSE Noise

(* Seeded fault: the chain stays at the vector. *)
DecryptedUnchained(key, iv, cipher) ==
    Joined([i \in 1 .. Len(cipher) |-> Plain(key, cipher[i], iv)])

Decrypted(key, iv, cipher) ==
    Joined([i \in 1 .. Len(cipher) |-> Plain(key, cipher[i], IF i = 1 THEN iv ELSE cipher[i - 1])])

NotOk == [ok |-> FALSE, text |-> <<>>]

CbcDecrypt(key, iv, cipher) ==
    LET out == Decrypted(key, iv, cipher)
        pad == out[Len(out)]
    IN  IF /\ cipher # <<>>
           /\ pad \in 1 .. CipherBlock
           /\ \A i \in Len(out) - pad + 1 .. Len(out) : out[i] = pad
        THEN [ok |-> TRUE, text |-> SubSeq(out, 1, Len(out) - pad)]
        ELSE NotOk

-----------------------------------------------------------------------------
(* What FIPS 180-4 and RFC 2104 say of a whole message.                    *)

Padding(n) ==
    LET zeros == CHOOSE k \in 0 .. HashBlock - 1 : (n + 1 + k + 8) % HashBlock = 0
    IN  <<Marker>> \o Repeat(Zero, zeros) \o LengthBytes(n)

HashOf(message) ==
    LET padded == message \o Padding(Len(message))
    IN  [b \in 1 .. Len(padded) \div HashBlock |->
            SubSeq(padded, HashBlock * (b - 1) + 1, HashBlock * b)]

HmacOf(key, message) ==
    LET short == IF Len(key) > HashBlock THEN DigestBytes(HashOf(key)) ELSE key
        padded == short \o Repeat(Zero, HashBlock - Len(short))
    IN  HashOf(Xored(padded, "0x5c") \o DigestBytes(HashOf(Xored(padded, "0x36") \o message)))
=============================================================================
