---------------------------- MODULE SealedFrames ----------------------------
(***************************************************************************)
(* The frames of EncryptedLoRaLink as seal() makes them and open() reads   *)
(* them, out of the hashes and the block cipher of LplCrypto.  For         *)
(* EncryptedLoRaLink a frame opens if it is whole and of the right key;    *)
(* here that is what comes of the padding, the chaining and the tag.       *)
(***************************************************************************)
EXTENDS EncryptedLoRaLink, LplCrypto

(* Bytes that say where they come from. *)
MacKey(key) == Bytes(<<"mac key", key>>, 16)
EncKey(key) == <<"encryption key", key>>
SrcBytes(src) == Bytes(<<"source", src>>, 2)
Authenticated(iv, cipher) ==
    Bytes(<<"vector", iv>>, IVSize)
    \o Joined([i \in 1 .. Len(cipher) |-> Bytes(<<"cipher", cipher[i]>>, BlockSize)])

Tag(key, src, iv, cipher) == Hmac(MacKey(key), SrcBytes(src), Authenticated(iv, cipher))

SealedWire(key, src, iv, text) ==
    LET cipher == CbcEncrypt(EncKey(key), iv, text)
    IN  [iv |-> iv, cipher |-> cipher, tag |-> Tag(key, src, iv, cipher)]

(* open(), and receivePacket()'s plainLen > 0. *)
OpenedWire(key, src, wire, maxLen) ==
    LET out == CbcDecrypt(EncKey(key), wire.iv, wire.cipher)
    IN  IF /\ wire.tag = Tag(key, src, wire.iv, wire.cipher)
           /\ out.ok /\ out.text # <<>> /\ Len(out.text) <= maxLen
        THEN out ELSE NotOk

(* nextIv() hashes a label and 26 bytes of material. *)
Label == Bytes("label", 2)
Material == Bytes("material", 26)

-----------------------------------------------------------------------------
(* Samples: payloads that end like padding, and what may be damaged.       *)

FreshIv == [seed |-> 1]
Texts(len) == {Repeat(byte, len) : byte \in {1, BlockSize, BlockSize - (len % BlockSize)}}

SpoiledWires(wire) ==
    {[wire EXCEPT !.iv = [seed |-> 2]], [wire EXCEPT !.tag = Tail(@)]}
    \cup {[wire EXCEPT !.cipher[i].block.block = Noise] : i \in DOMAIN wire.cipher}

WiresOf(frame, text) ==
    LET wire == SealedWire(frame.key, frame.src, FreshIv, text)
    IN  IF frame.whole THEN {wire} ELSE SpoiledWires(wire)

SealedFrame ==
    [src : Sources, key : {Key[n] : n \in Node} \ {NoKey}, len : Length, whole : BOOLEAN]

-----------------------------------------------------------------------------
(* What the samples show; constants, so that TLC works them out once *)

SameTag(len) ==
    \A text \in Texts(len) :
        LET cipher == CbcEncrypt(EncKey("home"), FreshIv, text)
        IN  Tag("home", 1, FreshIv, cipher)
                = HmacOf(MacKey("home"), SrcBytes(1) \o Authenticated(FreshIv, cipher))
TagsRight == {size \in Rooms : \A len \in 1 .. MaxPayload(size) : SameTag(len)}

SameKey(password, name) ==
    FirstRound(Bytes("password", password), Bytes("name", name))
        = HmacOf(Bytes("password", password), Bytes("name", name) \o Bytes("index", 4))
KeysRight == (\A password \in 0 .. 130 : SameKey(password, 9)) /\ (\A name \in 0 .. 130 : SameKey(8, name))

VectorsRight == Hmac(MacKey("home"), Label, Material) = HmacOf(MacKey("home"), Label \o Material)

ReadsBack(len) ==
    \A text \in Texts(len) :
        LET wire == SealedWire("home", 1, FreshIv, text)
        IN  /\ IVSize + BlockSize * Len(wire.cipher) + TagSize = SealedLength(len)
            /\ OpenedWire("home", 1, wire, len) = [ok |-> TRUE, text |-> text]
            /\ OpenedWire("home", 1, wire, len - 1) = NotOk
            /\ OpenedWire("home", 2, wire, len) = NotOk
RoundTrips == {size \in Rooms : \A len \in 1 .. MaxPayload(size) : ReadsBack(len)}

AsAbstract(n, frame, size) ==
    LET sent == [src |-> frame.src, key |-> frame.key, len |-> frame.len,
                 wire |-> SealedLength(frame.len), whole |-> frame.whole]
        opens == Opens(n, sent, size)
    IN  \A text \in Texts(frame.len) : \A wire \in WiresOf(frame, text) :
            OpenedWire(Key[n], frame.src, wire, size)
                = IF opens THEN [ok |-> TRUE, text |-> text] ELSE NotOk
OpensRight ==
    \A n \in {m \in Node : Key[m] # NoKey}, frame \in SealedFrame, size \in Buffers :
        AsAbstract(n, frame, size)

-----------------------------------------------------------------------------
(* Properties *)

(* However the code cuts its input, and wherever the end of the input lies  *)
(* in a block, the keys a node derives, the vectors it draws and the tags   *)
(* of all payloads the link can carry are the HMACs of RFC 2104             *)
(* (LplCrypto.cpp:277-359).                                                 *)
MacsAreHmac ==
    \A n \in Node :
        Key[n] # NoKey =>
            /\ KeysRight
            /\ ivs[n] # <<>> => VectorsRight
            /\ room \in TagsRight

(* The ciphers keep what EncryptedLoRaLink takes for granted: every payload *)
(* the link accepts comes back as it was, also one that ends like padding,  *)
(* and a frame on its way to a node is opened there if and only if it is    *)
(* whole, of the same network, and fits the buffer.                         *)
CiphersKeepFaith ==
    /\ room \in RoundTrips
    /\ (\E n \in Node : inbox[n] # <<>>) => OpensRight
=============================================================================
