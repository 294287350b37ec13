----------------------- MODULE EncryptedLoRaLinkProofs -----------------------
(***************************************************************************)
(* For any networks, rooms, timeouts and clock widths: what maxPayloadSize *)
(* promises can be sealed, receivePacket() listens for exactly its         *)
(* timeout, returns nothing that was not sealed, and no vector is used     *)
(* twice.                                                                  *)
(*                                                                         *)
(* The argument about time ties three clocks: what the link below still    *)
(* has to listen, what receivePacket() reads off a clock that wraps, and   *)
(* the ticks that really passed.                                           *)
(*                                                                         *)
(* What the link takes for granted of its ciphers is proved of the frames  *)
(* of SealedFrames: a tag binds key, source, vector and cipher, so that a  *)
(* frame opens if and only if nothing of it was changed.                   *)
(***************************************************************************)
EXTENDS SealedFrames, LplCryptoProofs

-----------------------------------------------------------------------------
(* Lengths *)

LEMMA SealFits ==
    ASSUME NEW size \in Nat, NEW len \in Nat \ {0}
    PROVE  len <= MaxPayload(size) <=> SealedLength(len) <= size
BY SMTT(60) DEF MaxPayload, SealedLength, CipherLength, Overhead, IVSize, TagSize, BlockSize

LEMMA SealedWellFormed ==
    ASSUME NEW len \in Nat
    PROVE  WellFormed(SealedLength(len)) /\ SealedLength(len) \in Nat
BY SMTT(60) DEF WellFormed, SealedLength, CipherLength, Overhead, IVSize, TagSize, BlockSize

LEMMA RoomsUsed == room \in Rooms => RoomUsed
<1> SUFFICES ASSUME room \in Rooms, NEW len \in 1 .. room
             PROVE  /\ len <= MaxPayload(room) <=> SealedLength(len) <= room
                    /\ WellFormed(SealedLength(len))
  BY DEF RoomUsed
<1>1. room \in Nat /\ len \in Nat \ {0}
  BY EncryptedLoRaLinkAssumption
<1> QED BY <1>1, SealFits, SealedWellFormed

-----------------------------------------------------------------------------
(* The invariant *)

(* Frames that verify under a key were sealed under it. *)
TrueFrames(record) ==
    {frame \in Frames :
        frame.whole /\ frame.key # NoKey =>
            [src |-> frame.src, key |-> frame.key, len |-> frame.len] \in record}

FramesInv ==
    /\ room \in Rooms
    /\ inbox \in [Node -> Seq(TrueFrames(sealed))]
    /\ result \in [Node -> {Nothing} \cup [len : Length, src : Sources]]
    /\ Genuine

IvInv ==
    /\ ivCounter \in [Node -> Nat]
    /\ ivs \in [Node -> Seq([random : RandomBytes, counter : Nat, src : Sources])]
    /\ \A n \in Node : Len(ivs[n]) = ivCounter[n]
    /\ \A n \in Node : \A i \in 1 .. Len(ivs[n]) : ivs[n][i].counter = i - 1

CountInv == sends \in [Node -> Nat] /\ boots \in [Node -> Nat]

(* One call of receivePacket(): the three clocks agree. *)
CallInv(n) ==
    /\ spent[n] \in Nat /\ left[n] \in Nat
    /\ spent[n] + left[n] <= listening[n].timeout
    /\ Listening(n) =>
          /\ Key[n] # NoKey
          /\ spent[n] + left[n] = listening[n].timeout
          /\ HasClock[n] => Elapsed(n) = spent[n]
    /\ ~Listening(n) => left[n] = 0
    /\ HasClock[n] /\ ~Listening(n) /\ result[n] = Nothing
          => spent[n] = listening[n].timeout

TimeInv ==
    /\ clock \in 0 .. ClockMod - 1
    /\ listening \in [Node -> [timeout : 0 .. ClockMod - 1, maxLen : Nat,
                               start : 0 .. ClockMod - 1, active : BOOLEAN]]
    /\ left \in [Node -> Nat] /\ spent \in [Node -> Nat]
    /\ \A n \in Node : CallInv(n)

IInv == FramesInv /\ IvInv /\ CountInv /\ TimeInv

LEMMA IInvTypeOK == IInv => TypeOK
<1> SUFFICES ASSUME IInv PROVE TypeOK
  OBVIOUS
<1>1. TrueFrames(sealed) \subseteq Frames
  BY DEF TrueFrames
<1>2. inbox \in [Node -> Seq(Frames)]
  <2>1. \A n \in Node : inbox[n] \in Seq(Frames)
    BY <1>1, SeqDef DEF IInv, FramesInv
  <2> QED BY <2>1 DEF IInv, FramesInv
<1> QED BY <1>2 DEF IInv, FramesInv, IvInv, CountInv, TimeInv, TypeOK

LEMMA IInvSafe == IInv => RoomUsed /\ FullTimeout /\ Genuine /\ IvsDistinct
<1> SUFFICES ASSUME IInv PROVE RoomUsed /\ FullTimeout /\ Genuine /\ IvsDistinct
  OBVIOUS
<1>1. RoomUsed
  BY RoomsUsed DEF IInv, FramesInv
<1>2. FullTimeout
  BY DEF IInv, TimeInv, CallInv, FullTimeout
<1>3. IvsDistinct
  <2> SUFFICES ASSUME NEW n \in Node, NEW i \in DOMAIN ivs[n], NEW j \in DOMAIN ivs[n],
                      ivs[n][i] = ivs[n][j]
               PROVE  i = j
    BY DEF IvsDistinct
  <2>1. DOMAIN ivs[n] = 1 .. Len(ivs[n]) /\ Len(ivs[n]) \in Nat
    BY DEF IInv, IvInv
  <2>2. i - 1 = j - 1
    BY <2>1 DEF IInv, IvInv
  <2> QED BY <2>1, <2>2
<1> QED BY <1>1, <1>2, <1>3 DEF IInv, FramesInv

LEMMA InitIInv == Init => IInv
<1> SUFFICES ASSUME Init PROVE IInv
  OBVIOUS
<1>1. FramesInv
  BY DEF Init, FramesInv, Genuine
<1>2. IvInv /\ CountInv
  BY DEF Init, IvInv, CountInv
<1>3. TimeInv
  <2>1. NotListening \in [timeout : 0 .. ClockMod - 1, maxLen : Nat,
                          start : 0 .. ClockMod - 1, active : BOOLEAN]
    BY EncryptedLoRaLinkAssumption DEF NotListening
  <2>2. \A n \in Node : ~Listening(n) /\ listening[n].timeout = 0 /\ spent[n] = 0 /\ left[n] = 0
    BY DEF Init, NotListening, Listening
  <2>3. ASSUME NEW n \in Node PROVE CallInv(n)
    <3>1. ~Listening(n) /\ listening[n].timeout = 0 /\ spent[n] = 0 /\ left[n] = 0
      BY <2>2
    <3>2. 0 \in Nat /\ 0 + 0 <= 0
      OBVIOUS
    <3> QED BY <3>1, <3>2 DEF CallInv
  <2>4. listening \in [Node -> [timeout : 0 .. ClockMod - 1, maxLen : Nat,
                                start : 0 .. ClockMod - 1, active : BOOLEAN]]
    BY <2>1 DEF Init
  <2>5. clock \in 0 .. ClockMod - 1 /\ left \in [Node -> Nat] /\ spent \in [Node -> Nat]
    BY DEF Init
  <2> QED BY <2>3, <2>4, <2>5 DEF TimeInv
<1> QED BY <1>1, <1>2, <1>3 DEF IInv

-----------------------------------------------------------------------------
(* Frames *)

(* What is put on the air is heard whole, damaged or not at all. *)
LEMMA OnAirType ==
    ASSUME FramesInv, NEW n \in Node, NEW record, sealed \subseteq record,
           NEW frame \in TrueFrames(record), OnAir(n, frame)
    PROVE  inbox' \in [Node -> Seq(TrueFrames(record))]
<1>0. PICK hearers \in SUBSET Listeners(n) : \E damaged \in SUBSET hearers :
         inbox' = [m \in Node |->
            CASE m \in damaged            -> Append(inbox[m], Damaged(frame))
              [] m \in hearers \ damaged  -> Append(inbox[m], frame)
              [] OTHER                    -> inbox[m]]
  BY DEF OnAir
<1>1. PICK damaged \in SUBSET hearers :
         inbox' = [m \in Node |->
            CASE m \in damaged            -> Append(inbox[m], Damaged(frame))
              [] m \in hearers \ damaged  -> Append(inbox[m], frame)
              [] OTHER                    -> inbox[m]]
  BY <1>0
<1>2. TrueFrames(sealed) \subseteq TrueFrames(record)
  BY DEF TrueFrames
<1>3. Damaged(frame) \in TrueFrames(record)
  BY DEF TrueFrames, Frames, Damaged
<1>4. \A m \in Node : inbox[m] \in Seq(TrueFrames(record))
  BY <1>2, SeqDef DEF FramesInv
<1>5. \A m \in Node : /\ Append(inbox[m], frame) \in Seq(TrueFrames(record))
                      /\ Append(inbox[m], Damaged(frame)) \in Seq(TrueFrames(record))
  BY <1>3, <1>4, AppendProperties
<1>6. \A m \in Node :
         (CASE m \in damaged            -> Append(inbox[m], Damaged(frame))
            [] m \in hearers \ damaged  -> Append(inbox[m], frame)
            [] OTHER                    -> inbox[m]) \in Seq(TrueFrames(record))
  BY <1>4, <1>5
<1> QED BY <1>1, <1>6

LEMMA TakenFrame ==
    ASSUME FramesInv, NEW n \in Node, TakesFrame(n)
    PROVE  /\ Head(inbox[n]) \in TrueFrames(sealed)
           /\ inbox' \in [Node -> Seq(TrueFrames(sealed'))]
           /\ sealed' = sealed
<1>1. inbox[n] \in Seq(TrueFrames(sealed)) /\ inbox[n] # <<>>
  BY DEF FramesInv, TakesFrame
<1>2. Head(inbox[n]) \in TrueFrames(sealed) /\ Tail(inbox[n]) \in Seq(TrueFrames(sealed))
  BY <1>1
<1>3. inbox' \in [Node -> Seq(TrueFrames(sealed))]
  BY <1>2 DEF FramesInv, TakesFrame
<1> QED BY <1>2, <1>3 DEF TakesFrame

-----------------------------------------------------------------------------
(* Calls *)

(* The other nodes' calls do not change. *)
LEMMA OtherCalls ==
    ASSUME TimeInv, NEW n \in Node, NEW m \in Node \ {n}, UNCHANGED clock,
           NEW c, NEW l, NEW s, NEW r,
           FramesInv,
           listening' = [listening EXCEPT ![n] = c] \/ UNCHANGED listening,
           left' = [left EXCEPT ![n] = l] \/ UNCHANGED left,
           spent' = [spent EXCEPT ![n] = s] \/ UNCHANGED spent,
           result' = [result EXCEPT ![n] = r] \/ UNCHANGED result
    PROVE  CallInv(m)'
<1>1. /\ listening'[m] = listening[m] /\ left'[m] = left[m] /\ spent'[m] = spent[m]
      /\ result'[m] = result[m]
  BY DEF TimeInv, FramesInv
<1> QED BY <1>1 DEF TimeInv, CallInv, Listening, Elapsed

LEMMA SameCalls ==
    ASSUME TimeInv, UNCHANGED <<clock, listening, left, spent, result>>
    PROVE  TimeInv'
BY DEF TimeInv, CallInv, Listening, Elapsed

LEMMA ElapsedType ==
    ASSUME TimeInv, NEW n \in Node
    PROVE  Elapsed(n) \in Nat
BY EncryptedLoRaLinkAssumption DEF TimeInv, Elapsed

(* A call that returns nothing has used up its time, if it could tell. *)
LEMMA ReturnCall ==
    ASSUME TimeInv, FramesInv, NEW n \in Node, NEW value, Listening(n), Return(n, value),
           UNCHANGED <<clock, spent>>,
           HasClock[n] /\ value = Nothing => spent[n] = listening[n].timeout
    PROVE  TimeInv'
<1>1. /\ listening' = [listening EXCEPT ![n].active = FALSE]
      /\ left' = [left EXCEPT ![n] = 0] /\ result' = [result EXCEPT ![n] = value]
  BY DEF Return
<1>2. /\ listening \in [Node -> [timeout : 0 .. ClockMod - 1, maxLen : Nat,
                                 start : 0 .. ClockMod - 1, active : BOOLEAN]]
      /\ left \in [Node -> Nat] /\ spent \in [Node -> Nat] /\ clock \in 0 .. ClockMod - 1
      /\ CallInv(n)
  BY DEF TimeInv
<1>3. listening' = [listening EXCEPT ![n] = [listening[n] EXCEPT !.active = FALSE]]
  BY <1>1, <1>2
<1>4. /\ listening'[n].timeout = listening[n].timeout /\ listening'[n].active = FALSE
      /\ left'[n] = 0 /\ spent'[n] = spent[n] /\ result'[n] = value
  BY <1>1, <1>2 DEF FramesInv
<1>5. listening[n].timeout \in Nat /\ spent[n] + left[n] = listening[n].timeout
  BY <1>2, EncryptedLoRaLinkAssumption DEF CallInv
<1>6. CallInv(n)'
  BY <1>2, <1>4, <1>5 DEF CallInv, Listening
<1>7. \A m \in Node \ {n} : CallInv(m)'
  BY <1>1, <1>3, OtherCalls
<1>8. /\ listening' \in [Node -> [timeout : 0 .. ClockMod - 1, maxLen : Nat,
                                  start : 0 .. ClockMod - 1, active : BOOLEAN]]
      /\ left' \in [Node -> Nat]
  BY <1>1, <1>2
<1> QED BY <1>2, <1>6, <1>7, <1>8 DEF TimeInv

-----------------------------------------------------------------------------
(* Vectors *)

LEMMA SameIvs ==
    ASSUME IvInv, UNCHANGED <<ivCounter, ivs>>
    PROVE  IvInv'
BY DEF IvInv

LEMMA TakeIvKeeps ==
    ASSUME IvInv, NEW n \in Node, TakeIv(n)
    PROVE  IvInv'
<1> DEFINE Vector == [random : RandomBytes, counter : Nat, src : Sources]
<1>1. PICK rand \in RandomBytes : ivs' = [ivs EXCEPT ![n] = Append(@, IV(n, rand))]
  BY DEF TakeIv
<1>2. ivCounter' = [ivCounter EXCEPT ![n] = @ + 1]
  BY DEF TakeIv
<1>3. IV(n, rand) \in Vector /\ IV(n, rand).counter = ivCounter[n]
  BY DEF IV, Sources, IvInv
<1>4. ivs[n] \in Seq(Vector) /\ Len(ivs[n]) = ivCounter[n] /\ ivCounter[n] \in Nat
  BY DEF IvInv
<1>5. /\ Append(ivs[n], IV(n, rand)) \in Seq(Vector)
      /\ Len(Append(ivs[n], IV(n, rand))) = ivCounter[n] + 1
      /\ \A i \in 1 .. ivCounter[n] : Append(ivs[n], IV(n, rand))[i] = ivs[n][i]
      /\ Append(ivs[n], IV(n, rand))[ivCounter[n] + 1] = IV(n, rand)
  BY <1>3, <1>4, AppendProperties
<1>6. ivs'[n] = Append(ivs[n], IV(n, rand)) /\ ivCounter'[n] = ivCounter[n] + 1
  BY <1>1, <1>2 DEF IvInv
<1>7. \A m \in Node \ {n} : ivs'[m] = ivs[m] /\ ivCounter'[m] = ivCounter[m]
  BY <1>1, <1>2 DEF IvInv
<1>8. \A i \in 1 .. Len(ivs'[n]) : ivs'[n][i].counter = i - 1
  <2> SUFFICES ASSUME NEW i \in 1 .. ivCounter[n] + 1
               PROVE  Append(ivs[n], IV(n, rand))[i].counter = i - 1
    BY <1>5, <1>6
  <2>1. CASE i \in 1 .. ivCounter[n]
    BY <2>1, <1>4, <1>5 DEF IvInv
  <2>2. CASE i = ivCounter[n] + 1
    BY <2>2, <1>3, <1>4, <1>5
  <2> QED BY <2>1, <2>2, <1>4
<1>9. \A m \in Node : Len(ivs'[m]) = ivCounter'[m]
  BY <1>5, <1>6, <1>7 DEF IvInv
<1>10. \A m \in Node : \A i \in 1 .. Len(ivs'[m]) : ivs'[m][i].counter = i - 1
  BY <1>7, <1>8 DEF IvInv
<1>11. ivs' \in [Node -> Seq(Vector)]
  BY <1>1, <1>5 DEF IvInv
<1>12. ivCounter' \in [Node -> Nat]
  BY <1>2, <1>4 DEF IvInv
<1> HIDE DEF Vector
<1> QED BY <1>9, <1>10, <1>11, <1>12 DEF IvInv, Vector

-----------------------------------------------------------------------------
(* sendPacket() *)

LEMMA SendPacketKeeps ==
    ASSUME IInv, NEW n \in Node, NEW len \in Length, SendPacket(n, len)
    PROVE  IInv'
<1> DEFINE frame == Frame(n, len, SealedLength(len))
<1>1. frame \in TrueFrames(sealed')
  <2>1. len \in Nat /\ SealedLength(len) \in Nat
    BY SealedWellFormed, EncryptedLoRaLinkAssumption
  <2>2. frame \in Frames
    BY <2>1 DEF Frame, Frames, Sources
  <2>3. [src |-> Address[n], key |-> Key[n], len |-> len] \in sealed'
    BY DEF SendPacket
  <2> QED BY <2>2, <2>3 DEF TrueFrames, Frame
<1>2. sealed \subseteq sealed' /\ OnAir(n, frame)
  BY DEF SendPacket
<1>3. inbox' \in [Node -> Seq(TrueFrames(sealed'))]
  BY <1>1, <1>2, OnAirType DEF IInv
<1>4. FramesInv'
  BY <1>2, <1>3 DEF IInv, FramesInv, Genuine, SendPacket
<1>5. IvInv'
  BY TakeIvKeeps DEF IInv, SendPacket
<1>6. CountInv'
  BY DEF IInv, CountInv, SendPacket, Counted
<1>7. TimeInv'
  BY SameCalls DEF IInv, SendPacket
<1> QED BY <1>4, <1>5, <1>6, <1>7 DEF IInv

LEMMA SendFailsKeeps ==
    ASSUME IInv, NEW n \in Node, NEW len \in Length, SendFails(n, len)
    PROVE  IInv'
<1>1. FramesInv'
  BY DEF IInv, FramesInv, Genuine, SendFails
<1>2. IvInv'
  BY TakeIvKeeps DEF IInv, SendFails
<1>3. CountInv'
  BY DEF IInv, CountInv, SendFails, Counted
<1>4. TimeInv'
  BY SameCalls DEF IInv, SendFails
<1> QED BY <1>1, <1>2, <1>3, <1>4 DEF IInv

LEMMA SendPlainKeeps ==
    ASSUME IInv, NEW n \in Node, NEW len \in Length, SendPlain(n, len)
    PROVE  IInv'
<1>1. Frame(n, len, len) \in TrueFrames(sealed)
  BY EncryptedLoRaLinkAssumption DEF Frame, Frames, TrueFrames, Sources, SendPlain
<1>2. inbox' \in [Node -> Seq(TrueFrames(sealed))]
  BY <1>1, OnAirType DEF IInv, SendPlain
<1>3. FramesInv'
  BY <1>2 DEF IInv, FramesInv, Genuine, SendPlain
<1>4. IvInv' /\ CountInv'
  BY SameIvs DEF IInv, CountInv, SendPlain, Counted
<1>5. TimeInv'
  BY SameCalls DEF IInv, SendPlain
<1> QED BY <1>3, <1>4, <1>5 DEF IInv

-----------------------------------------------------------------------------
(* receivePacket() *)

LEMMA StartReceiveKeeps ==
    ASSUME IInv, NEW n \in Node, StartReceive(n)
    PROVE  IInv'
<1> DEFINE Call == [timeout : 0 .. ClockMod - 1, maxLen : Nat,
                    start : 0 .. ClockMod - 1, active : BOOLEAN]
<1>1. PICK t \in Timeouts[n], size \in Buffers :
         /\ listening' = [listening EXCEPT ![n] =
                [timeout |-> t, maxLen |-> size, active |-> TRUE,
                 start |-> IF HasClock[n] THEN clock ELSE 0]]
         /\ left' = [left EXCEPT ![n] = t]
  BY DEF StartReceive
<1> DEFINE call == [timeout |-> t, maxLen |-> size, active |-> TRUE,
                    start |-> IF HasClock[n] THEN clock ELSE 0]
<1>2. t \in 0 .. ClockMod - 1 /\ t \in Nat /\ size \in Nat /\ ClockMod \in Nat \ {0}
  BY EncryptedLoRaLinkAssumption
<1>3. /\ clock \in 0 .. ClockMod - 1 /\ listening \in [Node -> Call]
      /\ left \in [Node -> Nat] /\ spent \in [Node -> Nat]
  BY DEF IInv, TimeInv
<1>4. spent' = [spent EXCEPT ![n] = 0] /\ UNCHANGED <<clock, result>> /\ Key[n] # NoKey
  BY DEF StartReceive
<1>5. call \in Call
  BY <1>2, <1>3
<1>6. listening'[n] = call /\ left'[n] = t /\ spent'[n] = 0 /\ clock' = clock
  BY <1>1, <1>3, <1>4
<1>7. HasClock[n] => Elapsed(n)' = 0
  BY <1>3, <1>6 DEF Elapsed
<1>8. CallInv(n)'
  BY <1>2, <1>4, <1>6, <1>7 DEF CallInv, Listening
<1>9. \A m \in Node \ {n} : CallInv(m)'
  BY <1>1, <1>4, OtherCalls DEF IInv
<1>10. listening' \in [Node -> Call] /\ left' \in [Node -> Nat] /\ spent' \in [Node -> Nat]
  BY <1>1, <1>2, <1>3, <1>4, <1>5
<1>11. TimeInv'
  BY <1>3, <1>4, <1>8, <1>9, <1>10 DEF TimeInv
<1>12. FramesInv' /\ CountInv' /\ IvInv'
  BY SameIvs DEF IInv, FramesInv, Genuine, CountInv, StartReceive
<1> QED BY <1>11, <1>12 DEF IInv

LEMMA DeliverKeeps ==
    ASSUME IInv, NEW n \in Node, Deliver(n)
    PROVE  IInv'
<1> DEFINE frame == Head(inbox[n])
           value == [len |-> frame.len, src |-> frame.src]
<1>1. TakesFrame(n) /\ Opens(n, frame, listening[n].maxLen) /\ Return(n, value)
  BY DEF Deliver
<1>2. Listening(n) /\ UNCHANGED <<room, clock, spent, ivCounter, ivs, sends, boots>>
  BY <1>1 DEF TakesFrame
<1>3. /\ frame \in TrueFrames(sealed) /\ sealed' = sealed
      /\ inbox' \in [Node -> Seq(TrueFrames(sealed'))]
  BY <1>1, TakenFrame DEF IInv
<1>4. frame \in Frames /\ frame.len \in Length /\ frame.src \in Sources /\ frame.len # 0
  BY <1>3, EncryptedLoRaLinkAssumption DEF TrueFrames, Frames
<1>5. Key[n] # NoKey
  BY <1>2 DEF IInv, TimeInv, CallInv
<1>6. [src |-> frame.src, key |-> Key[n], len |-> frame.len] \in sealed
  BY <1>1, <1>3, <1>5 DEF TrueFrames, Opens
<1>7. value # Nothing
  BY <1>4 DEF Nothing
<1>8. TimeInv'
  BY <1>1, <1>2, <1>7, ReturnCall DEF IInv
<1>9. /\ result' = [result EXCEPT ![n] = value]
      /\ result' \in [Node -> {Nothing} \cup [len : Length, src : Sources]]
  BY <1>1, <1>4 DEF Return, IInv, FramesInv
<1>10. Genuine'
  BY <1>3, <1>6, <1>9 DEF IInv, FramesInv, Genuine
<1>11. FramesInv'
  BY <1>2, <1>3, <1>9, <1>10 DEF IInv, FramesInv
<1>12. CountInv' /\ IvInv'
  BY <1>2, SameIvs DEF IInv, CountInv
<1> QED BY <1>8, <1>11, <1>12 DEF IInv

(* A call that returns nothing changes only the frames it took. *)
LEMMA ReturnNothingKeeps ==
    ASSUME IInv, NEW n \in Node, Listening(n), Return(n, Nothing),
           inbox' \in [Node -> Seq(TrueFrames(sealed'))],
           UNCHANGED <<room, ivCounter, clock, spent, sealed, ivs, sends, boots>>,
           HasClock[n] => spent[n] = listening[n].timeout
    PROVE  IInv'
<1>1. TimeInv'
  BY ReturnCall DEF IInv
<1>2. /\ result' = [result EXCEPT ![n] = Nothing]
      /\ result' \in [Node -> {Nothing} \cup [len : Length, src : Sources]]
  BY DEF Return, IInv, FramesInv
<1>3. Genuine'
  BY <1>2 DEF IInv, FramesInv, Genuine
<1>4. FramesInv'
  BY <1>2, <1>3 DEF IInv, FramesInv
<1>5. CountInv' /\ IvInv'
  BY SameIvs DEF IInv, CountInv
<1> QED BY <1>1, <1>4, <1>5 DEF IInv

LEMMA RejectKeeps ==
    ASSUME IInv, NEW n \in Node, Reject(n)
    PROVE  IInv'
<1>1. /\ TakesFrame(n) /\ Listening(n)
      /\ UNCHANGED <<room, ivCounter, clock, spent, sealed, ivs, sends, boots>>
  BY DEF Reject, TakesFrame
<1>2. inbox' \in [Node -> Seq(TrueFrames(sealed'))]
  BY <1>1, TakenFrame DEF IInv
<1>3. /\ listening[n].timeout \in Nat /\ spent[n] \in Nat /\ left[n] \in Nat
      /\ spent[n] + left[n] = listening[n].timeout
      /\ HasClock[n] => Elapsed(n) = spent[n]
  BY <1>1, EncryptedLoRaLinkAssumption DEF IInv, TimeInv, CallInv
<1>4. CASE KeepsListening(n)
  <2>1. left' = [left EXCEPT ![n] = Remaining(n)] /\ UNCHANGED <<listening, result>>
    BY <1>4 DEF Reject
  <2>2. Remaining(n) = left[n]
    BY <1>3, <1>4 DEF Remaining, KeepsListening
  <2>3. UNCHANGED left
    BY <2>1, <2>2 DEF IInv, TimeInv
  <2>4. TimeInv'
    BY <1>1, <2>1, <2>3, SameCalls DEF IInv
  <2>5. FramesInv' /\ CountInv' /\ IvInv'
    BY <1>1, <1>2, <2>1, SameIvs DEF IInv, FramesInv, Genuine, CountInv
  <2> QED BY <2>4, <2>5 DEF IInv
<1>5. CASE ~KeepsListening(n)
  <2>1. Return(n, Nothing)
    BY <1>5 DEF Reject
  <2>2. HasClock[n] => spent[n] = listening[n].timeout
    BY <1>3, <1>5 DEF KeepsListening
  <2> QED BY <1>1, <1>2, <2>1, <2>2, ReturnNothingKeeps
<1> QED BY <1>4, <1>5

LEMMA ReceiveTimeoutKeeps ==
    ASSUME IInv, NEW n \in Node, ReceiveTimeout(n)
    PROVE  IInv'
<1>1. /\ Listening(n) /\ left[n] = 0 /\ Return(n, Nothing)
      /\ UNCHANGED <<room, ivCounter, inbox, clock, spent, sealed, ivs, sends, boots>>
  BY DEF ReceiveTimeout
<1>2. spent[n] = listening[n].timeout
  BY <1>1 DEF IInv, TimeInv, CallInv
<1>3. inbox' \in [Node -> Seq(TrueFrames(sealed'))]
  BY <1>1 DEF IInv, FramesInv
<1> QED BY <1>1, <1>2, <1>3, ReturnNothingKeeps

-----------------------------------------------------------------------------
(* Restarts and time *)

LEMMA RestartKeeps ==
    ASSUME IInv, NEW n \in Node, Restart(n)
    PROVE  IInv'
<1> DEFINE Call == [timeout : 0 .. ClockMod - 1, maxLen : Nat,
                    start : 0 .. ClockMod - 1, active : BOOLEAN]
<1>1. /\ listening' = [listening EXCEPT ![n] = NotListening]
      /\ left' = [left EXCEPT ![n] = 0] /\ spent' = [spent EXCEPT ![n] = 0]
      /\ result' = [result EXCEPT ![n] = Nothing] /\ UNCHANGED <<clock, sealed, room>>
      /\ inbox' = [inbox EXCEPT ![n] = <<>>]
  BY DEF Restart
<1>2. /\ clock \in 0 .. ClockMod - 1 /\ listening \in [Node -> Call]
      /\ left \in [Node -> Nat] /\ spent \in [Node -> Nat]
  BY DEF IInv, TimeInv
<1>3. NotListening \in Call
  BY EncryptedLoRaLinkAssumption DEF NotListening
<1>4. listening'[n] = NotListening /\ left'[n] = 0 /\ spent'[n] = 0
  BY <1>1, <1>2
<1>5. /\ ~Listening(n)' /\ listening'[n].timeout = 0 /\ 0 \in Nat /\ 0 + 0 <= 0
  BY <1>4 DEF Listening, NotListening
<1>6. CallInv(n)'
  BY <1>4, <1>5 DEF CallInv
<1>7. \A m \in Node \ {n} : CallInv(m)'
  BY <1>1, OtherCalls DEF IInv
<1>8. listening' \in [Node -> Call] /\ left' \in [Node -> Nat] /\ spent' \in [Node -> Nat]
  BY <1>1, <1>2, <1>3
<1>9. TimeInv'
  BY <1>1, <1>2, <1>6, <1>7, <1>8 DEF TimeInv
<1>10. FramesInv'
  BY <1>1 DEF IInv, FramesInv, Genuine
<1>11. IvInv'
  <2> DEFINE Vectors == Seq([random : RandomBytes, counter : Nat, src : Sources])
  <2>1. /\ ivCounter' = [ivCounter EXCEPT ![n] = 0] /\ ivs' = [ivs EXCEPT ![n] = <<>>]
        /\ ivCounter \in [Node -> Nat] /\ ivs \in [Node -> Vectors]
    BY DEF Restart, IInv, IvInv
  <2>2. ivCounter'[n] = 0 /\ ivs'[n] = <<>> /\ Len(<<>>) = 0 /\ <<>> \in Vectors
    BY <2>1
  <2>3. \A m \in Node \ {n} : ivCounter'[m] = ivCounter[m] /\ ivs'[m] = ivs[m]
    BY <2>1
  <2>4. \A m \in Node : Len(ivs'[m]) = ivCounter'[m]
    BY <2>2, <2>3 DEF IInv, IvInv
  <2>5. ASSUME NEW m \in Node, NEW i \in 1 .. Len(ivs'[m]) PROVE ivs'[m][i].counter = i - 1
    <3>1. CASE m = n
      <4>1. Len(ivs'[m]) = 0
        BY <2>2, <3>1
      <4> QED BY <4>1
    <3>2. CASE m # n
      BY <2>3, <3>2 DEF IInv, IvInv
    <3> QED BY <3>1, <3>2
  <2>6. ivCounter' \in [Node -> Nat] /\ ivs' \in [Node -> Vectors]
    BY <2>1, <2>2
  <2> QED BY <2>4, <2>5, <2>6 DEF IvInv
<1>12. CountInv'
  BY DEF IInv, CountInv, Restart
<1> QED BY <1>9, <1>10, <1>11, <1>12 DEF IInv

(* A difference of the clock counts the ticks, also over a wrap, as long as *)
(* they are fewer than the clock has values.                                *)
LEMMA TickElapsed ==
    ASSUME TimeInv, NEW n \in Node, Tick, Elapsed(n) + 1 < ClockMod
    PROVE  Elapsed(n)' = Elapsed(n) + 1
<1>1. /\ ClockMod \in Nat \ {0} /\ clock \in 0 .. ClockMod - 1
      /\ listening[n].start \in 0 .. ClockMod - 1
  BY EncryptedLoRaLinkAssumption DEF TimeInv
<1>2. clock' = (IF clock + 1 = ClockMod THEN 0 ELSE clock + 1) /\ listening' = listening
  BY DEF Tick
<1> QED BY <1>1, <1>2 DEF Elapsed

LEMMA TickKeeps ==
    ASSUME IInv, Tick
    PROVE  IInv'
<1>1. /\ \A n \in Node : Listening(n) => left[n] > 0
      /\ clock' = (IF clock + 1 = ClockMod THEN 0 ELSE clock + 1)
      /\ left' = [n \in Node |-> IF Listening(n) THEN left[n] - 1 ELSE left[n]]
      /\ spent' = [n \in Node |-> IF Listening(n) THEN spent[n] + 1 ELSE spent[n]]
      /\ UNCHANGED <<room, ivCounter, listening, inbox, result, sealed, ivs, sends, boots>>
  BY DEF Tick
<1>2. ClockMod \in Nat \ {0} /\ clock \in 0 .. ClockMod - 1
  BY EncryptedLoRaLinkAssumption DEF IInv, TimeInv
<1>3. ASSUME NEW n \in Node PROVE CallInv(n)' /\ left'[n] \in Nat /\ spent'[n] \in Nat
  <2>1. /\ CallInv(n) /\ listening[n].timeout \in 0 .. ClockMod - 1
        /\ left[n] \in Nat /\ spent[n] \in Nat
    BY DEF IInv, TimeInv
  <2>2. Listening(n)' = Listening(n) /\ listening'[n] = listening[n] /\ result'[n] = result[n]
    BY <1>1 DEF Listening
  <2>3. CASE Listening(n)
    <3>1. /\ left[n] > 0 /\ left'[n] = left[n] - 1 /\ spent'[n] = spent[n] + 1
      BY <1>1, <2>3
    <3>2. /\ Key[n] # NoKey /\ spent[n] + left[n] = listening[n].timeout
          /\ HasClock[n] => Elapsed(n) = spent[n]
      BY <2>1, <2>3 DEF CallInv
    <3>3. left'[n] \in Nat /\ spent'[n] \in Nat /\ spent'[n] + left'[n] = listening[n].timeout
      BY <2>1, <3>1, <3>2
    <3>4. spent[n] + 1 < ClockMod
      BY <1>2, <2>1, <3>1, <3>2
    <3>5. HasClock[n] => Elapsed(n)' = spent'[n]
      BY <3>1, <3>2, <3>4, TickElapsed DEF IInv
    <3>6. spent'[n] + left'[n] <= listening[n].timeout
      BY <2>1, <3>3
    <3> QED BY <2>2, <2>3, <3>2, <3>3, <3>5, <3>6 DEF CallInv
  <2>4. CASE ~Listening(n)
    <3>1. left'[n] = left[n] /\ spent'[n] = spent[n]
      BY <1>1, <2>4
    <3> QED BY <2>1, <2>2, <2>4, <3>1 DEF CallInv
  <2> QED BY <2>3, <2>4
<1>4. clock' \in 0 .. ClockMod - 1
  BY <1>1, <1>2
<1>5. left' \in [Node -> Nat] /\ spent' \in [Node -> Nat]
  BY <1>1, <1>3
<1>6. TimeInv'
  BY <1>1, <1>3, <1>4, <1>5 DEF IInv, TimeInv
<1>7. FramesInv' /\ CountInv' /\ IvInv'
  BY <1>1, SameIvs DEF IInv, FramesInv, Genuine, CountInv
<1> QED BY <1>6, <1>7 DEF IInv

-----------------------------------------------------------------------------
LEMMA NextKeepsIInv == IInv /\ [Next]_vars => IInv'
<1> SUFFICES ASSUME IInv, [Next]_vars PROVE IInv'
  OBVIOUS
<1>1. CASE Tick
  BY <1>1, TickKeeps
<1>2. ASSUME NEW n \in Node, NEW len \in Length, SendPacket(n, len) PROVE IInv'
  BY <1>2, SendPacketKeeps
<1>3. ASSUME NEW n \in Node, NEW len \in Length, SendFails(n, len) PROVE IInv'
  BY <1>3, SendFailsKeeps
<1>4. ASSUME NEW n \in Node, NEW len \in Length, SendPlain(n, len) PROVE IInv'
  BY <1>4, SendPlainKeeps
<1>5. ASSUME NEW n \in Node, StartReceive(n) PROVE IInv'
  BY <1>5, StartReceiveKeeps
<1>6. ASSUME NEW n \in Node, Deliver(n) PROVE IInv'
  BY <1>6, DeliverKeeps
<1>7. ASSUME NEW n \in Node, Reject(n) PROVE IInv'
  BY <1>7, RejectKeeps
<1>8. ASSUME NEW n \in Node, ReceiveTimeout(n) PROVE IInv'
  BY <1>8, ReceiveTimeoutKeeps
<1>9. ASSUME NEW n \in Node, Restart(n) PROVE IInv'
  BY <1>9, RestartKeeps
<1>10. CASE UNCHANGED vars
  BY <1>10, SameCalls, SameIvs DEF vars, IInv, FramesInv, Genuine, CountInv
<1> QED BY <1>1, <1>2, <1>3, <1>4, <1>5, <1>6, <1>7, <1>8, <1>9, <1>10 DEF Next

LEMMA Invariant == Spec => []IInv
<1> QED BY InitIInv, NextKeepsIInv, PTL DEF Spec

(* Every variable keeps its type, and _ivCounter counts the vectors used    *)
(* since power on (EncryptedLoRaLink.cpp:99).                               *)
THEOREM EncryptedTypeCorrect == Spec => []TypeOK
<1> QED BY Invariant, IInvTypeOK, PTL

(* maxPayloadSize() is exactly what can be sealed into a frame of the link  *)
(* below, for every size of it (EncryptedLoRaLink.cpp:82-90, 116-121).      *)
THEOREM PayloadsFit == Spec => []RoomUsed
<1> QED BY Invariant, IInvSafe, PTL

(* receivePacket() listens for its timeout and no longer, whatever it       *)
(* rejects and wherever its clock wraps (EncryptedLoRaLink.cpp:180-206).    *)
THEOREM ListensItsTimeout == Spec => []FullTimeout
<1> QED BY Invariant, IInvSafe, PTL

(* Only what was sealed under the network's key is returned, with the       *)
(* address it was sealed under (EncryptedLoRaLink.cpp:135-163).             *)
THEOREM OnlySealedReturned == Spec => []Genuine
<1> QED BY Invariant, IInvSafe, PTL

(* Vectors differ within a power cycle whatever the random source returns   *)
(* (EncryptedLoRaLink.cpp:92-114).                                          *)
THEOREM VectorsDiffer == Spec => []IvsDistinct
<1> QED BY Invariant, IInvSafe, PTL

-----------------------------------------------------------------------------
(* What goes into a tag *)

Origins(key, src, iv, cipher) ==
    {<<"mac key", key>>, <<"source", src>>, <<"vector", iv>>}
    \cup {<<"cipher", cipher[i]>> : i \in 1 .. Len(cipher)}
Marks(X) == X \X (1 .. 26)

LEMMA MarkedBytes ==
    ASSUME NEW X, NEW from \in X, NEW n \in 0 .. 26
    PROVE  Bytes(from, n) \in Seq(Marks(X)) /\ Len(Bytes(from, n)) = n
BY DEF Bytes, Marks

LEMMA Widths == 2 \in 0 .. 26 /\ 16 \in 0 .. 26 /\ 26 \in 0 .. 26
OBVIOUS

CipherBytes(cipher) ==
    Joined([i \in 1 .. Len(cipher) |-> Bytes(<<"cipher", cipher[i]>>, BlockSize)])

(* A vector and a cipher of m blocks that come from X, and bytes that tell *)
(* the blocks.                                                             *)
Carries(X, iv, cipher, m) ==
    /\ <<"vector", iv>> \in X /\ Len(cipher) = m
    /\ \A i \in 1 .. m : <<"cipher", cipher[i]>> \in X
Tells(bytes, cipher, m) ==
    \A i \in 1 .. m : bytes[16 * (i - 1) + 1] = <<<<"cipher", cipher[i]>>, 1>>

LEMMA CipherMarked ==
    ASSUME NEW X, NEW iv, NEW m \in Nat, NEW cipher, Carries(X, iv, cipher, m)
    PROVE  /\ CipherBytes(cipher) \in Seq(Marks(X)) /\ Len(CipherBytes(cipher)) = 16 * m
           /\ Tells(CipherBytes(cipher), cipher, m)
<1> USE DEF Carries
<1> DEFINE blocks == [i \in 1 .. Len(cipher) |-> Bytes(<<"cipher", cipher[i]>>, BlockSize)]
<1>1. Len(blocks) = m /\ \A i \in 1 .. m : blocks[i] = Bytes(<<"cipher", cipher[i]>>, 16)
    BY DEF BlockSize
<1> HIDE DEF blocks
<1>2. PICK all \in Nat : all = 16 * m
    OBVIOUS
<1> DEFINE joined == [i \in 1 .. all |-> blocks[(i - 1) \div 16 + 1][((i - 1) % 16) + 1]]
<1>3. Joined(blocks) = joined
    BY <1>1, <1>2, Zenon DEF Joined, CipherBlock
<1>4. ASSUME NEW i \in 1 .. all
      PROVE  joined[i] \in Marks(X)
    <2>1. PICK b \in 1 .. m, k \in 1 .. 16 : b = (i - 1) \div 16 + 1 /\ k = ((i - 1) % 16) + 1
        <3>1. (i - 1) \div 16 + 1 \in 1 .. m /\ ((i - 1) % 16) + 1 \in 1 .. 16
            BY <1>2
        <3> QED BY <3>1, Zenon
    <2>2. joined[i] = Bytes(<<"cipher", cipher[b]>>, 16)[k]
        BY <1>1, <2>1, Zenon
    <2>3. Bytes(<<"cipher", cipher[b]>>, 16)[k] = <<<<"cipher", cipher[b]>>, k>>
        BY Zenon DEF Bytes
    <2>4. <<<<"cipher", cipher[b]>>, k>> \in Marks(X)
        <3>1. k \in 1 .. 26 /\ <<"cipher", cipher[b]>> \in X
            OBVIOUS
        <3> QED BY ONLY <3>1 DEF Marks
    <2> QED BY <2>2, <2>3, <2>4, Zenon
<1>5. ASSUME NEW i \in 1 .. m
      PROVE  16 * (i - 1) + 1 \in 1 .. 16 * m /\ joined[16 * (i - 1) + 1] = <<<<"cipher", cipher[i]>>, 1>>
    <2>1. PICK at \in 1 .. all : at = 16 * (i - 1) + 1
        BY <1>2
    <2>2. (at - 1) \div 16 + 1 = i /\ ((at - 1) % 16) + 1 = 1
        BY <2>1
    <2>3. joined[at] = Bytes(<<"cipher", cipher[i]>>, 16)[1]
        BY <1>1, <2>2, Zenon
    <2>4. 1 \in 1 .. 16
        OBVIOUS
    <2>5. joined[at] = <<<<"cipher", cipher[i]>>, 1>>
        BY <2>3, <2>4, Zenon DEF Bytes
    <2> QED BY <1>2, <2>1, <2>5, Zenon
<1> DEFINE J == joined
<1>6. J \in Seq(Marks(X)) /\ Len(J) = all
    BY <1>4
<1>7. CipherBytes(cipher) = Joined(blocks)
    BY Zenon DEF CipherBytes, blocks
<1> QED BY <1>2, <1>3, <1>5, <1>6, <1>7, Zenon DEF Tells

LEMMA AuthenticatedBytes ==
    ASSUME NEW X, NEW iv, NEW m \in Nat, NEW cipher, Carries(X, iv, cipher, m)
    PROVE  /\ Authenticated(iv, cipher) \in Seq(Marks(X))
           /\ Len(Authenticated(iv, cipher)) = 16 + 16 * m
<1>1. CipherBytes(cipher) \in Seq(Marks(X)) /\ Len(CipherBytes(cipher)) = 16 * m
    BY CipherMarked, Zenon
<1>2. PICK vector \in Seq(Marks(X)) : vector = Bytes(<<"vector", iv>>, 16) /\ Len(vector) = 16
    BY MarkedBytes, Widths, Zenon DEF Carries
<1>3. Authenticated(iv, cipher) = vector \o CipherBytes(cipher)
    BY <1>2, Zenon DEF Authenticated, CipherBytes, IVSize
<1>4. PICK rest \in Seq(Marks(X)) : rest = CipherBytes(cipher) /\ Len(rest) = 16 * m
    BY <1>1, Zenon
<1>5. vector \o rest \in Seq(Marks(X)) /\ Len(vector \o rest) = Len(vector) + Len(rest)
    BY ConcatProperties, Zenon
<1> QED BY <1>2, <1>3, <1>4, <1>5, Zenon

(* The tag of a frame is the HMAC of its source, its vector and its cipher. *)
LEMMA TagIsHmac ==
    ASSUME NEW key, NEW src, NEW iv, NEW cipher, Len(cipher) \in Nat
    PROVE  Tag(key, src, iv, cipher)
               = HmacOf(MacKey(key), SrcBytes(src) \o Authenticated(iv, cipher))
<1> DEFINE X == Origins(key, src, iv, cipher)
<1>1. PICK m \in Nat : m = Len(cipher)
    OBVIOUS
<1>2. <<"mac key", key>> \in X /\ <<"source", src>> \in X /\ Carries(X, iv, cipher, m)
    BY <1>1, Zenon DEF Origins, Carries
<1> HIDE DEF X
<1>3. MacKey(key) \in Seq(Marks(X)) /\ SrcBytes(src) \in Seq(Marks(X))
    BY <1>2, MarkedBytes, Widths, Zenon DEF MacKey, SrcBytes
<1>4. Authenticated(iv, cipher) \in Seq(Marks(X))
    BY <1>1, <1>2, AuthenticatedBytes
<1> QED BY <1>3, <1>4, HmacIsRfc2104, Zenon DEF Tag

-----------------------------------------------------------------------------
(* The samples *)

LEMMA SampleText ==
    ASSUME NEW len \in Nat \ {0}, NEW text \in Texts(len)
    PROVE  /\ text \in Seq(1 .. 16) /\ text \in Seq(Byte) /\ Len(text) = len
           /\ BlockCount(text) \in Nat \ {0} /\ BlockCount(text) = len \div 16 + 1
<1>1. PICK byte \in {1, BlockSize, BlockSize - (len % BlockSize)} : text = Repeat(byte, len)
    BY Zenon DEF Texts
<1>2. byte \in 1 .. 16
    BY DEF BlockSize
<1>3. text \in Seq(1 .. 16) /\ text \in Seq(Byte) /\ Len(text) = len
    BY <1>1, <1>2 DEF Repeat, Byte
<1>4. BlockCount(text) = len \div 16 + 1
    BY <1>3, Zenon DEF BlockCount, CipherBlock
<1> QED BY <1>3, <1>4

LEMMA SameTags == \A len \in Nat \ {0} : SameTag(len)
<1> TAKE len \in Nat \ {0}
<1> SUFFICES ASSUME NEW text \in Texts(len)
             PROVE  Tag("home", 1, FreshIv, CbcEncrypt(EncKey("home"), FreshIv, text))
                        = HmacOf(MacKey("home"),
                                 SrcBytes(1)
                                     \o Authenticated(FreshIv, CbcEncrypt(EncKey("home"), FreshIv, text)))
    BY Zenon DEF SameTag
<1>1. PICK c : c = CbcEncrypt(EncKey("home"), FreshIv, text)
    OBVIOUS
<1>2. BlockCount(text) \in Nat \ {0}
    BY SampleText
<1>3. Chain(c, EncKey("home"), FreshIv, text)
    BY <1>1, <1>2, CipherBlocks, Zenon
<1>4. Len(c) \in Nat
    BY <1>2, <1>3, Zenon DEF Chain
<1>5. Tag("home", 1, FreshIv, c) = HmacOf(MacKey("home"), SrcBytes(1) \o Authenticated(FreshIv, c))
    BY <1>4, TagIsHmac
<1> QED BY <1>1, <1>5, Zenon

LEMMA SameKeys == KeysRight
<1> DEFINE U == {"password", "name", "index"} \X Nat
<1>1. ASSUME NEW from \in {"password", "name", "index"}, NEW n \in Nat
      PROVE  Bytes(from, n) \in Seq(U)
    BY DEF Bytes
<1> HIDE DEF U
<1>2. ASSUME NEW password \in Nat, NEW name \in Nat
      PROVE  SameKey(password, name)
    <2>1. /\ Bytes("password", password) \in Seq(U) /\ Bytes("name", name) \in Seq(U)
          /\ Bytes("index", 4) \in Seq(U)
        BY <1>1
    <2> QED BY <2>1, HmacIsRfc2104, Zenon DEF SameKey, FirstRound
<1> QED BY <1>2 DEF KeysRight

LEMMA SameVectors == VectorsRight
<1> DEFINE X == {<<"mac key", "home">>, "label", "material"}
<1>1. <<"mac key", "home">> \in X /\ "label" \in X /\ "material" \in X
    OBVIOUS
<1> HIDE DEF X
<1>2. MacKey("home") \in Seq(Marks(X)) /\ Label \in Seq(Marks(X)) /\ Material \in Seq(Marks(X))
    BY <1>1, MarkedBytes, Widths, Zenon DEF MacKey, Label, Material
<1> QED BY <1>2, HmacIsRfc2104, Zenon DEF VectorsRight

LEMMA RoomsTagged == room \in Rooms => MacsAreHmac
<1>1. ASSUME room \in Rooms PROVE room \in TagsRight
    <2>1. \A len \in 1 .. MaxPayload(room) : SameTag(len)
        BY SameTags
    <2> QED BY <1>1, <2>1, Zenon DEF TagsRight
<1> QED BY <1>1, SameKeys, SameVectors, Zenon DEF MacsAreHmac

(* However the code cuts what it hashes, keys, vectors and tags are the     *)
(* HMACs of RFC 2104 (EncryptedLoRaLink.cpp:56-63, 98-111, 125-131;        *)
(* LplCrypto.cpp:277-359).                                                  *)
THEOREM KeysVectorsTagsHmac == Spec => []MacsAreHmac
<1>1. IInv => MacsAreHmac
    BY RoomsTagged DEF IInv, FramesInv
<1> QED BY <1>1, Invariant, PTL

-----------------------------------------------------------------------------
(* A tag is good for one key, source, vector and cipher *)

LEMMA MarksBind ==
    ASSUME NEW from, NEW other, NEW n \in Nat \ {0}, Bytes(from, n) = Bytes(other, n)
    PROVE  from = other
<1>1. 1 \in 1 .. n
    OBVIOUS
<1>2. Bytes(from, n)[1] = <<from, 1>> /\ Bytes(other, n)[1] = <<other, 1>>
    BY <1>1, Zenon DEF Bytes
<1>3. <<from, 1>> = <<other, 1>>
    BY <1>2, Zenon
<1> QED BY <1>3

SameBlocks(cipher, other, m) == \A i \in 1 .. m : cipher[i] = other[i]

(* Two ciphers of the same length have the same bytes only if they are the *)
(* same, block by block.                                                   *)
LEMMA AuthenticatedBinds ==
    ASSUME NEW X, NEW iv, NEW iv2, NEW m \in Nat, NEW cipher, NEW cipher2,
           Carries(X, iv, cipher, m), Carries(X, iv2, cipher2, m),
           Authenticated(iv, cipher) = Authenticated(iv2, cipher2)
    PROVE  iv = iv2 /\ SameBlocks(cipher, cipher2, m)
<1>1. PICK v \in Seq(Marks(X)) : v = Bytes(<<"vector", iv>>, 16) /\ Len(v) = 16
    BY MarkedBytes, Widths, Zenon DEF Carries
<1>2. PICK w \in Seq(Marks(X)) : w = Bytes(<<"vector", iv2>>, 16) /\ Len(w) = 16
    BY MarkedBytes, Widths, Zenon DEF Carries
<1>3. PICK s \in Seq(Marks(X)) :
          s = CipherBytes(cipher) /\ Len(s) = 16 * m /\ Tells(s, cipher, m)
    BY CipherMarked, Zenon
<1>4. PICK t \in Seq(Marks(X)) :
          t = CipherBytes(cipher2) /\ Len(t) = 16 * m /\ Tells(t, cipher2, m)
    BY CipherMarked, Zenon
<1>5. v \o s = w \o t
    BY <1>1, <1>2, <1>3, <1>4, Zenon DEF Authenticated, CipherBytes, IVSize
<1>6. v = w /\ s = t
    <2>1. Len(v) = Len(w) /\ Len(s) = Len(t)
        BY <1>1, <1>2, <1>3, <1>4, Zenon
    <2> QED BY <1>5, <2>1, ConcatSplits, Zenon
<1>7. iv = iv2
    <2>1. Bytes(<<"vector", iv>>, 16) = Bytes(<<"vector", iv2>>, 16)
        BY <1>1, <1>2, <1>6, Zenon
    <2>2. 16 \in Nat \ {0}
        OBVIOUS
    <2>3. <<"vector", iv>> = <<"vector", iv2>>
        BY <2>1, <2>2, MarksBind, Zenon
    <2> QED BY <2>3
<1>8. ASSUME NEW i \in 1 .. m PROVE cipher[i] = cipher2[i]
    <2>1. <<<<"cipher", cipher[i]>>, 1>> = <<<<"cipher", cipher2[i]>>, 1>>
        BY <1>3, <1>4, <1>6, Zenon DEF Tells
    <2> QED BY <2>1
<1> QED BY <1>7, <1>8, Zenon DEF SameBlocks

LEMMA TagBinds ==
    ASSUME NEW key, NEW key2, NEW src, NEW src2, NEW iv, NEW iv2,
           NEW m \in Nat, NEW cipher, NEW cipher2, Len(cipher) = m, Len(cipher2) = m,
           Tag(key, src, iv, cipher) = Tag(key2, src2, iv2, cipher2)
    PROVE  key = key2 /\ src = src2 /\ iv = iv2 /\ SameBlocks(cipher, cipher2, m)
<1> DEFINE X == Origins(key, src, iv, cipher) \cup Origins(key2, src2, iv2, cipher2)
<1>1. /\ <<"mac key", key>> \in X /\ <<"source", src>> \in X
      /\ <<"mac key", key2>> \in X /\ <<"source", src2>> \in X
      /\ Carries(X, iv, cipher, m) /\ Carries(X, iv2, cipher2, m)
    BY Zenon DEF Origins, Carries
<1> HIDE DEF X
<1>2. /\ MacKey(key) \in Seq(Marks(X)) /\ Len(MacKey(key)) = 16
      /\ MacKey(key2) \in Seq(Marks(X)) /\ Len(MacKey(key2)) = 16
    BY <1>1, MarkedBytes, Widths, Zenon DEF MacKey
<1>3. PICK k \in Seq(Marks(X)), l \in Seq(Marks(X)) :
          k = MacKey(key) /\ l = MacKey(key2) /\ Len(k) = 16 /\ Len(l) = 16
    BY <1>2, Zenon
<1>4. /\ SrcBytes(src) \in Seq(Marks(X)) /\ Len(SrcBytes(src)) = 2
      /\ SrcBytes(src2) \in Seq(Marks(X)) /\ Len(SrcBytes(src2)) = 2
    BY <1>1, MarkedBytes, Widths, Zenon DEF SrcBytes
<1>5. PICK s \in Seq(Marks(X)), t \in Seq(Marks(X)) :
          s = SrcBytes(src) /\ t = SrcBytes(src2) /\ Len(s) = 2 /\ Len(t) = 2
    BY <1>4, Zenon
<1>6. /\ Authenticated(iv, cipher) \in Seq(Marks(X))
      /\ Len(Authenticated(iv, cipher)) = 16 + 16 * m
      /\ Authenticated(iv2, cipher2) \in Seq(Marks(X))
      /\ Len(Authenticated(iv2, cipher2)) = 16 + 16 * m
    BY ONLY m \in Nat, <1>1, AuthenticatedBytes
<1>7. PICK a \in Seq(Marks(X)), b \in Seq(Marks(X)) :
          /\ a = Authenticated(iv, cipher) /\ Len(a) = 16 + 16 * m
          /\ b = Authenticated(iv2, cipher2) /\ Len(b) = 16 + 16 * m
    BY <1>6, Zenon
<1>8. /\ s \o a \in Seq(Marks(X)) /\ Len(s \o a) = 2 + (16 + 16 * m)
      /\ t \o b \in Seq(Marks(X)) /\ Len(t \o b) = 2 + (16 + 16 * m)
    <2>1. /\ s \o a \in Seq(Marks(X)) /\ Len(s \o a) = Len(s) + Len(a)
          /\ t \o b \in Seq(Marks(X)) /\ Len(t \o b) = Len(t) + Len(b)
        BY ConcatProperties, Zenon
    <2> QED BY <1>5, <1>7, <2>1, Zenon
<1>9. PICK p \in Seq(Marks(X)), q \in Seq(Marks(X)) : p = s \o a /\ q = t \o b /\ Len(p) = Len(q)
    BY <1>8, Zenon
<1>10. HmacOf(k, p) = HmacOf(l, q)
    <2>1. Len(cipher) \in Nat /\ Len(cipher2) \in Nat
        OBVIOUS
    <2>2. Tag(key, src, iv, cipher) = HmacOf(MacKey(key), SrcBytes(src) \o Authenticated(iv, cipher))
        BY ONLY <2>1, TagIsHmac, Zenon
    <2>3. Tag(key2, src2, iv2, cipher2)
              = HmacOf(MacKey(key2), SrcBytes(src2) \o Authenticated(iv2, cipher2))
        BY ONLY <2>1, TagIsHmac, Zenon
    <2> QED BY <1>3, <1>5, <1>7, <1>9, <2>2, <2>3, Zenon
<1>11. k = l /\ p = q
    <2>1. Len(k) = Len(l) /\ Len(k) <= HashBlock
        BY <1>3 DEF HashBlock
    <2>2. Len(p) = Len(q)
        BY <1>9, Zenon
    <2> QED BY ONLY <1>10, <2>1, <2>2, HmacBinds, Zenon
<1>12. s = t /\ a = b
    <2>1. Len(s) = Len(t) /\ Len(a) = Len(b)
        BY <1>5, <1>7, Zenon
    <2>2. s \o a = t \o b
        BY <1>9, <1>11, Zenon
    <2> QED BY <2>1, <2>2, ConcatSplits, Zenon
<1>13. key = key2
    <2>1. Bytes(<<"mac key", key>>, 16) = Bytes(<<"mac key", key2>>, 16)
        BY <1>3, <1>11, Zenon DEF MacKey
    <2>2. 16 \in Nat \ {0}
        OBVIOUS
    <2>3. <<"mac key", key>> = <<"mac key", key2>>
        BY <2>1, <2>2, MarksBind, Zenon
    <2> QED BY <2>3
<1>14. src = src2
    <2>1. Bytes(<<"source", src>>, 2) = Bytes(<<"source", src2>>, 2)
        BY <1>5, <1>12, Zenon DEF SrcBytes
    <2>2. 2 \in Nat \ {0}
        OBVIOUS
    <2>3. <<"source", src>> = <<"source", src2>>
        BY <2>1, <2>2, MarksBind, Zenon
    <2> QED BY <2>3
<1>15. iv = iv2 /\ SameBlocks(cipher, cipher2, m)
    <2>1. Authenticated(iv, cipher) = Authenticated(iv2, cipher2)
        BY <1>7, <1>12, Zenon
    <2>2. Carries(X, iv, cipher, m) /\ Carries(X, iv2, cipher2, m)
        BY <1>1, Zenon
    <2> QED BY ONLY <2>1, <2>2, AuthenticatedBinds, Zenon
<1> QED BY <1>13, <1>14, <1>15, Zenon

-----------------------------------------------------------------------------
(* Opening *)

IsWire(wire, iv, cipher, tag) ==
    /\ wire = [iv |-> iv, cipher |-> cipher, tag |-> tag]
    /\ wire.iv = iv /\ wire.cipher = cipher /\ wire.tag = tag

LEMMA WireParts ==
    ASSUME NEW key, NEW src, NEW iv, NEW text,
           NEW cipher, cipher = CbcEncrypt(EncKey(key), iv, text)
    PROVE  IsWire(SealedWire(key, src, iv, text), iv, cipher, Tag(key, src, iv, cipher))
BY Zenon DEF SealedWire, IsWire

LEMMA CipherLengthIs ==
    ASSUME NEW key, NEW iv, NEW text \in Seq(Byte)
    PROVE  \E m \in Nat \ {0} : m = BlockCount(text) /\ Len(CbcEncrypt(key, iv, text)) = m
<1>1. PICK m \in Nat \ {0}, pad \in 1 .. 16, n \in Nat : m = BlockCount(text)
    BY PaddedText, Zenon
<1>2. BlockCount(text) \in Nat \ {0}
    BY <1>1
<1>3. Chain(CbcEncrypt(key, iv, text), key, iv, text)
    BY <1>2, CipherBlocks, Zenon
<1> QED BY <1>1, <1>3, Zenon DEF Chain

LEMMA CipherSequence ==
    ASSUME NEW key, NEW iv, NEW text \in Seq(Byte)
    PROVE  \E S : CbcEncrypt(key, iv, text) \in Seq(S)
<1>1. PICK c : c = CbcEncrypt(key, iv, text)
    OBVIOUS
<1>2. PICK m \in Nat \ {0} : m = BlockCount(text) /\ Len(c) = m
    BY <1>1, CipherLengthIs, Zenon
<1>3. BlockCount(text) \in Nat \ {0}
    BY <1>2
<1>4. c = [i \in 1 .. m |-> c[i]]
    <2>1. Chain(c, key, iv, text)
        BY <1>1, <1>3, CipherBlocks, Zenon
    <2> QED BY <1>2, <2>1, Zenon DEF Chain
<1> DEFINE S == {c[i] : i \in 1 .. m}
<1>5. c \in Seq(S)
    BY <1>4
<1> QED BY <1>1, <1>5

(* Sealed and opened under one key and address, a payload that fits the    *)
(* buffer comes back.                                                      *)
LEMMA Reopened ==
    ASSUME NEW key, NEW src, NEW iv, NEW text \in Seq(Byte), text # <<>>, NEW maxLen
    PROVE  OpenedWire(key, src, SealedWire(key, src, iv, text), maxLen)
               = IF Len(text) <= maxLen THEN [ok |-> TRUE, text |-> text] ELSE NotOk
<1>1. CbcDecrypt(EncKey(key), iv, CbcEncrypt(EncKey(key), iv, text)) = [ok |-> TRUE, text |-> text]
    BY CbcRoundTrip
<1>2. PICK out : out = [ok |-> TRUE, text |-> text]
    OBVIOUS
<1>3. out.ok = TRUE /\ out.text = text
    BY <1>2
<1>4. PICK c : c = CbcEncrypt(EncKey(key), iv, text)
    OBVIOUS
<1>5. PICK wire : wire = SealedWire(key, src, iv, text)
    OBVIOUS
<1>6. IsWire(wire, iv, c, Tag(key, src, iv, c))
    BY <1>4, <1>5, WireParts, Zenon
<1>7. CbcDecrypt(EncKey(key), wire.iv, wire.cipher) = out
    BY <1>1, <1>2, <1>4, <1>6, Zenon DEF IsWire
<1>8. wire.tag = Tag(key, src, wire.iv, wire.cipher)
    BY <1>6, Zenon DEF IsWire
<1>9. OpenedWire(key, src, wire, maxLen) = IF Len(text) <= maxLen THEN out ELSE NotOk
    BY <1>3, <1>7, <1>8, text # <<>>, Zenon DEF OpenedWire
<1> QED BY <1>2, <1>5, <1>9, Zenon

LEMMA WrongTag ==
    ASSUME NEW key, NEW src, NEW wire, NEW maxLen, wire.tag # Tag(key, src, wire.iv, wire.cipher)
    PROVE  OpenedWire(key, src, wire, maxLen) = NotOk
BY Zenon DEF OpenedWire

WithTagOf(wire, vector, cipher) == [iv |-> vector, cipher |-> cipher, tag |-> wire.tag]

(* The tag of a sealed payload is good for nothing else of that length:     *)
(* whatever else open() is given with it, another key, source address,      *)
(* vector or cipher, is turned away, and what it accepts is the payload     *)
(* that was sealed (EncryptedLoRaLink.cpp:116-163).                         *)
THEOREM OpensAsSealed ==
    ASSUME NEW key, NEW src, NEW iv, NEW text \in Seq(Byte), text # <<>>,
           NEW S, NEW other, NEW from, NEW vector, NEW cipher \in Seq(S), NEW maxLen,
           Len(cipher) = Len(SealedWire(key, src, iv, text).cipher),
           OpenedWire(other, from, WithTagOf(SealedWire(key, src, iv, text), vector, cipher), maxLen)
               # NotOk
    PROVE  /\ other = key /\ from = src /\ vector = iv
           /\ cipher = SealedWire(key, src, iv, text).cipher
           /\ OpenedWire(other, from, WithTagOf(SealedWire(key, src, iv, text), vector, cipher), maxLen)
                 = [ok |-> TRUE, text |-> text]
<1> USE DEF WithTagOf
<1>1. PICK c : c = CbcEncrypt(EncKey(key), iv, text)
    OBVIOUS
<1>2. PICK sealedTag : sealedTag = SealedWire(key, src, iv, text).tag
    OBVIOUS
<1>3. IsWire(SealedWire(key, src, iv, text), iv, c, Tag(key, src, iv, c))
    BY <1>1, WireParts, Zenon
<1>4. PICK m \in Nat \ {0} : m = BlockCount(text) /\ Len(c) = m
    BY <1>1, CipherLengthIs, Zenon
<1>5. PICK wire : wire = [iv |-> vector, cipher |-> cipher, tag |-> sealedTag]
    OBVIOUS
<1>6. wire.iv = vector /\ wire.cipher = cipher /\ wire.tag = sealedTag
    BY <1>5, Zenon
<1>7. sealedTag = Tag(other, from, vector, cipher)
    <2>1. OpenedWire(other, from, wire, maxLen) # NotOk
        BY <1>2, <1>5, Zenon
    <2> QED BY <1>6, <2>1, WrongTag, Zenon
<1>8. Len(cipher) = m
    BY <1>3, <1>4, Zenon DEF IsWire
<1>9. Tag(key, src, iv, c) = Tag(other, from, vector, cipher)
    BY <1>2, <1>3, <1>7, Zenon DEF IsWire
<1>10. key = other /\ src = from /\ iv = vector /\ SameBlocks(c, cipher, m)
    <2>1. m \in Nat /\ Len(c) = m
        BY <1>4
    <2> QED BY ONLY <1>8, <1>9, <2>1, TagBinds
<1>11. cipher = c
    <2>1. cipher = [i \in 1 .. m |-> cipher[i]]
        BY <1>8
    <2>2. BlockCount(text) \in Nat \ {0}
        BY <1>4
    <2>3. Chain(c, EncKey(key), iv, text)
        BY <1>1, <2>2, CipherBlocks, Zenon
    <2>4. c = [i \in 1 .. m |-> c[i]]
        BY <1>4, <2>3, Zenon DEF Chain
    <2> QED BY <1>10, <2>1, <2>4, Zenon DEF SameBlocks
<1>12. wire = SealedWire(key, src, iv, text)
    BY <1>2, <1>3, <1>5, <1>10, <1>11, Zenon DEF IsWire
<1>13. OpenedWire(other, from, wire, maxLen) = [ok |-> TRUE, text |-> text]
    <2>1. OpenedWire(key, src, wire, maxLen)
              = IF Len(text) <= maxLen THEN [ok |-> TRUE, text |-> text] ELSE NotOk
        BY <1>12, Reopened, text # <<>>, Zenon
    <2>2. OpenedWire(other, from, wire, maxLen) # NotOk
        BY <1>2, <1>5, Zenon
    <2> QED BY <1>10, <2>1, <2>2, Zenon
<1> QED BY <1>2, <1>3, <1>5, <1>10, <1>11, <1>13, Zenon DEF IsWire

(* Damage of each kind keeps a frame from being opened under any key.      *)
LEMMA SpoiledVector ==
    ASSUME NEW key, NEW src, NEW text \in Seq(Byte), text # <<>>, NEW other, NEW maxLen
    PROVE  OpenedWire(other, src, [SealedWire(key, src, FreshIv, text) EXCEPT !.iv = [seed |-> 2]], maxLen)
               = NotOk
<1>1. PICK vector : vector = [seed |-> 2]
    OBVIOUS
<1>2. vector # FreshIv
    BY <1>1 DEF FreshIv
<1>3. PICK c : c = CbcEncrypt(EncKey(key), FreshIv, text)
    OBVIOUS
<1>4. PICK wire : wire = SealedWire(key, src, FreshIv, text)
    OBVIOUS
<1>5. IsWire(wire, FreshIv, c, Tag(key, src, FreshIv, c))
    BY <1>3, <1>4, WireParts, Zenon
<1>6. PICK S : c \in Seq(S)
    BY <1>3, CipherSequence, Zenon
<1>7. PICK spoiled : spoiled = [wire EXCEPT !.iv = vector]
    OBVIOUS
<1>8. spoiled = WithTagOf(SealedWire(key, src, FreshIv, text), vector, c)
    BY <1>4, <1>5, <1>7 DEF IsWire, WithTagOf
<1>9. Len(c) = Len(SealedWire(key, src, FreshIv, text).cipher)
    BY <1>4, <1>5, Zenon DEF IsWire
<1>10. OpenedWire(other, src, spoiled, maxLen) = NotOk
    <2>1. SUFFICES ASSUME OpenedWire(other, src, spoiled, maxLen) # NotOk PROVE FALSE
        OBVIOUS
    <2>2. OpenedWire(other, src, WithTagOf(SealedWire(key, src, FreshIv, text), vector, c), maxLen) # NotOk
        BY <1>8, <2>1, Zenon
    <2>3. text \in Seq(Byte) /\ text # <<>>
        OBVIOUS
    <2>4. vector = FreshIv
        BY ONLY <1>6, <1>9, <2>2, <2>3, OpensAsSealed
    <2> QED BY <1>2, <2>4
<1> QED BY <1>1, <1>4, <1>7, <1>10, Zenon

LEMMA SpoiledTag ==
    ASSUME NEW key, NEW src, NEW iv, NEW text \in Seq(Byte), NEW other, NEW maxLen
    PROVE  OpenedWire(other, src, [SealedWire(key, src, iv, text) EXCEPT !.tag = Tail(@)], maxLen) = NotOk
<1>1. PICK c : c = CbcEncrypt(EncKey(key), iv, text)
    OBVIOUS
<1>2. PICK wire : wire = SealedWire(key, src, iv, text)
    OBVIOUS
<1>3. PICK tag : tag = Tag(key, src, iv, c)
    OBVIOUS
<1>4. IsWire(wire, iv, c, tag)
    BY <1>1, <1>2, <1>3, WireParts, Zenon
<1>5. PICK spoiled : spoiled = [wire EXCEPT !.tag = Tail(@)]
    OBVIOUS
<1>6. spoiled.iv = iv /\ spoiled.cipher = c /\ spoiled.tag = Tail(tag)
    BY <1>4, <1>5 DEF IsWire
<1>7. Tail(tag) # Tag(other, src, iv, c)
    <2>1. Len(c) \in Nat
        <3>1. PICK m \in Nat \ {0} : Len(c) = m
            BY <1>1, CipherLengthIs, Zenon
        <3> QED BY <3>1
    <2>2. /\ tag = HmacOf(MacKey(key), SrcBytes(src) \o Authenticated(iv, c))
          /\ Tag(other, src, iv, c) = HmacOf(MacKey(other), SrcBytes(src) \o Authenticated(iv, c))
        BY ONLY <1>3, <2>1, TagIsHmac, Zenon
    <2> DEFINE X == {<<"mac key", key>>, <<"mac key", other>>}
    <2>3. <<"mac key", key>> \in X /\ <<"mac key", other>> \in X
        OBVIOUS
    <2> HIDE DEF X
    <2>4. /\ MacKey(key) \in Seq(Marks(X)) /\ Len(MacKey(key)) = 16
          /\ MacKey(other) \in Seq(Marks(X)) /\ Len(MacKey(other)) = 16
        BY <2>3, MarkedBytes, Widths, Zenon DEF MacKey
    <2>5. Len(MacKey(key)) <= HashBlock /\ Len(MacKey(other)) <= HashBlock
        <3>1. 16 <= HashBlock
            BY DEF HashBlock
        <3> QED BY <2>4, <3>1, Zenon
    <2> QED BY <2>2, <2>4, <2>5, TailIsNoHmac, Zenon
<1>8. OpenedWire(other, src, spoiled, maxLen) = NotOk
    BY <1>6, <1>7, WrongTag, Zenon
<1> QED BY <1>2, <1>5, <1>8, Zenon

(* No block of a sample is all noise. *)
LEMMA SampleBlock ==
    ASSUME NEW len \in Nat \ {0}, NEW text \in Texts(len), NEW i \in 1 .. BlockCount(text)
    PROVE  BlockAt(Padded(text), i) # Noise
<1>1. text \in Seq(Byte) /\ text \in Seq(1 .. 16) /\ Len(text) = len
    BY SampleText
<1>2. PICK m \in Nat \ {0}, pad \in 1 .. 16, n \in Nat :
          /\ n = Len(text) /\ 16 * m = n + pad /\ m = BlockCount(text)
          /\ Padded(text) \in Seq(Byte) /\ Len(Padded(text)) = 16 * m
          /\ \A j \in 1 .. n : Padded(text)[j] = text[j]
          /\ \A j \in n + 1 .. 16 * m : Padded(text)[j] = pad
    BY <1>1, PaddedText, Zenon
<1>3. PICK full \in Seq(Byte) : full = Padded(text)
    BY <1>2, Zenon
<1>4. PICK all \in Nat : all = 16 * m /\ all = n + pad
    BY <1>2
<1>5. i \in 1 .. m
    BY <1>2
<1>6. PICK from \in 1 .. all, to \in 1 .. all : from = 16 * (i - 1) + 1 /\ to = 16 * i /\ to - from + 1 = 16
    BY <1>4, <1>5
<1>7. full[from] \in 1 .. 16
    <2>1. CASE from \in 1 .. n
        <3>1. full[from] = text[from]
            BY <1>2, <1>3, <2>1, Zenon
        <3>2. text[from] \in 1 .. 16
            <4>1. from \in 1 .. Len(text) /\ text \in Seq(1 .. 16)
                BY <1>1, <1>2, <2>1, Zenon
            <4> QED BY ONLY <4>1, ElementOfSeq, Zenon
        <3> QED BY <3>1, <3>2, Zenon
    <2>2. CASE from \in n + 1 .. all
        BY <1>2, <1>3, <1>4, <2>2, Zenon
    <2> QED BY <2>1, <2>2
<1>8. SubSeq(full, from, to)[1] = full[from]
    <2>1. 1 \in 1 .. to - from + 1 /\ from + 1 - 1 = from /\ from \in Int /\ to \in Int
        BY <1>6
    <2>2. Len(full) = all
        BY <1>2, <1>3, <1>4, Zenon
    <2>3. \A j \in from .. to : full[j] \in Byte
        BY <2>2
    <2>4. \A j \in 1 .. to - from + 1 : SubSeq(full, from, to)[j] = full[from + j - 1]
        BY ONLY <2>1, <2>3, SubSeqProperties
    <2> QED BY <2>1, <2>4, Zenon
<1>9. BlockAt(full, i) = SubSeq(full, from, to)
    BY <1>6, Zenon DEF BlockAt, CipherBlock
<1>10. Noise[1] = 0
    BY DEF Noise, Repeat, CipherBlock
<1>11. BlockAt(full, i)[1] # Noise[1]
    <2>1. full[from] # 0
        BY <1>7
    <2> QED BY <1>8, <1>9, <1>10, <2>1, Zenon
<1> QED BY <1>3, <1>11, Zenon

LEMMA SpoiledBlock ==
    ASSUME NEW key, NEW src, NEW len \in Nat \ {0}, NEW text \in Texts(len), NEW other, NEW maxLen,
           NEW i \in 1 .. BlockCount(text)
    PROVE  OpenedWire(other, src,
                      [SealedWire(key, src, FreshIv, text) EXCEPT !.cipher[i].block.block = Noise],
                      maxLen) = NotOk
<1>1. text \in Seq(Byte) /\ text # <<>> /\ BlockCount(text) \in Nat \ {0}
    <2>1. Len(text) # 0
        BY SampleText
    <2> QED BY <2>1, SampleText
<1>2. PICK c : c = CbcEncrypt(EncKey(key), FreshIv, text)
    OBVIOUS
<1>3. PICK wire : wire = SealedWire(key, src, FreshIv, text)
    OBVIOUS
<1>4. IsWire(wire, FreshIv, c, Tag(key, src, FreshIv, c))
    BY <1>2, <1>3, WireParts, Zenon
<1>5. Chain(c, EncKey(key), FreshIv, text)
    BY <1>1, <1>2, CipherBlocks, Zenon
<1>6. PICK m \in Nat \ {0} : m = BlockCount(text)
    BY <1>1
<1>7. c = [j \in 1 .. m |-> c[j]] /\ i \in 1 .. m /\ Len(c) = m
    BY <1>5, <1>6, Zenon DEF Chain
<1>8. PICK last : c[i] = Chained(EncKey(key), Padded(text), i, last)
    BY <1>5, <1>6, <1>7, Zenon DEF Chain
<1>9. PICK block : block = BlockAt(Padded(text), i) /\ block # Noise
    BY SampleBlock, Zenon
<1>10. c[i] = [key |-> EncKey(key), block |-> [block |-> block, chain |-> last]]
    BY <1>8, <1>9, Zenon DEF Chained, Encrypted, Mixed
<1>11. PICK bad : bad = [c[i] EXCEPT !.block.block = Noise]
    OBVIOUS
<1>12. bad # c[i]
    <2>1. bad.block.block = Noise
        BY <1>10, <1>11
    <2>2. c[i].block.block = block
        BY <1>10
    <2> QED BY <1>9, <2>1, <2>2, Zenon
<1>13. PICK spoiled : spoiled = [c EXCEPT ![i] = bad]
    OBVIOUS
<1>14. spoiled = [j \in 1 .. m |-> IF j = i THEN bad ELSE c[j]]
    BY <1>7, <1>13
<1>15. Len(spoiled) = m /\ spoiled \in Seq({spoiled[j] : j \in 1 .. m}) /\ spoiled # c
    BY <1>7, <1>12, <1>14
<1>16. PICK S : spoiled \in Seq(S)
    BY <1>15
<1>17. [wire EXCEPT !.cipher[i].block.block = Noise] = WithTagOf(wire, FreshIv, spoiled)
    BY <1>4, <1>11, <1>13 DEF IsWire, WithTagOf
<1>18. OpenedWire(other, src, WithTagOf(wire, FreshIv, spoiled), maxLen) = NotOk
    <2>1. SUFFICES ASSUME OpenedWire(other, src, WithTagOf(wire, FreshIv, spoiled), maxLen) # NotOk PROVE FALSE
        OBVIOUS
    <2>2. OpenedWire(other, src, WithTagOf(SealedWire(key, src, FreshIv, text), FreshIv, spoiled), maxLen) # NotOk
        BY <1>3, <2>1, Zenon
    <2>3. Len(spoiled) = Len(SealedWire(key, src, FreshIv, text).cipher)
        BY <1>3, <1>4, <1>7, <1>15, Zenon DEF IsWire
    <2>4. spoiled = SealedWire(key, src, FreshIv, text).cipher
        BY ONLY <1>1, <1>16, <2>2, <2>3, OpensAsSealed
    <2>5. spoiled = c
        BY <1>3, <1>4, <2>4, Zenon DEF IsWire
    <2> QED BY <1>15, <2>5, Zenon
<1> QED BY <1>3, <1>17, <1>18, Zenon

LEMMA SpoiledWire ==
    ASSUME NEW key, NEW src, NEW len \in Nat \ {0}, NEW text \in Texts(len), NEW other, NEW maxLen,
           NEW spoiled \in SpoiledWires(SealedWire(key, src, FreshIv, text))
    PROVE  OpenedWire(other, src, spoiled, maxLen) = NotOk
<1>1. text \in Seq(Byte) /\ text # <<>> /\ BlockCount(text) \in Nat \ {0}
    <2>1. Len(text) # 0
        BY SampleText
    <2> QED BY <2>1, SampleText
<1>2. PICK wire : wire = SealedWire(key, src, FreshIv, text)
    OBVIOUS
<1>3. DOMAIN wire.cipher = 1 .. BlockCount(text)
    <2>1. PICK c : c = CbcEncrypt(EncKey(key), FreshIv, text)
        OBVIOUS
    <2>2. IsWire(wire, FreshIv, c, Tag(key, src, FreshIv, c))
        BY <1>2, <2>1, WireParts, Zenon
    <2>3. Chain(c, EncKey(key), FreshIv, text)
        BY <1>1, <2>1, CipherBlocks, Zenon
    <2> QED BY <2>2, <2>3, Zenon DEF Chain, IsWire
<1>4. spoiled \in SpoiledWires(wire)
    BY <1>2, Zenon
<1>5. CASE spoiled = [wire EXCEPT !.iv = [seed |-> 2]]
    BY <1>1, <1>2, <1>5, SpoiledVector, Zenon
<1>6. CASE spoiled = [wire EXCEPT !.tag = Tail(@)]
    BY <1>1, <1>2, <1>6, SpoiledTag, Zenon
<1>7. CASE \E i \in DOMAIN wire.cipher : spoiled = [wire EXCEPT !.cipher[i].block.block = Noise]
    <2>1. PICK i \in 1 .. BlockCount(text) : spoiled = [wire EXCEPT !.cipher[i].block.block = Noise]
        BY <1>3, <1>7, Zenon
    <2> QED BY <1>2, <2>1, SpoiledBlock, Zenon
<1> QED BY <1>4, <1>5, <1>6, <1>7, Zenon DEF SpoiledWires

LEMMA OtherSource ==
    ASSUME NEW key, NEW other, NEW src, NEW from, NEW iv, NEW text \in Seq(Byte), text # <<>>, NEW maxLen,
           other # key \/ from # src
    PROVE  OpenedWire(other, from, SealedWire(key, src, iv, text), maxLen) = NotOk
<1>1. PICK c : c = CbcEncrypt(EncKey(key), iv, text)
    OBVIOUS
<1>2. PICK wire : wire = SealedWire(key, src, iv, text)
    OBVIOUS
<1>3. IsWire(wire, iv, c, Tag(key, src, iv, c))
    BY <1>1, <1>2, WireParts, Zenon
<1>4. PICK S : c \in Seq(S)
    BY <1>1, CipherSequence, Zenon
<1>5. wire = WithTagOf(SealedWire(key, src, iv, text), iv, c)
    BY <1>2, <1>3, Zenon DEF IsWire, WithTagOf
<1>6. Len(c) = Len(SealedWire(key, src, iv, text).cipher)
    BY <1>2, <1>3, Zenon DEF IsWire
<1>7. SUFFICES ASSUME OpenedWire(other, from, SealedWire(key, src, iv, text), maxLen) # NotOk PROVE FALSE
    OBVIOUS
<1>8. OpenedWire(other, from, WithTagOf(SealedWire(key, src, iv, text), iv, c), maxLen) # NotOk
    BY <1>2, <1>5, <1>7, Zenon
<1>9. text \in Seq(Byte) /\ text # <<>>
    OBVIOUS
<1>10. other = key /\ from = src
    BY ONLY <1>4, <1>6, <1>8, <1>9, OpensAsSealed
<1> QED BY <1>10

LEMMA SampleReadsBack == \A len \in Nat \ {0} : ReadsBack(len)
<1> TAKE len \in Nat \ {0}
<1> SUFFICES ASSUME NEW text \in Texts(len)
             PROVE  LET wire == SealedWire("home", 1, FreshIv, text)
                    IN  /\ IVSize + BlockSize * Len(wire.cipher) + TagSize = SealedLength(len)
                        /\ OpenedWire("home", 1, wire, len) = [ok |-> TRUE, text |-> text]
                        /\ OpenedWire("home", 1, wire, len - 1) = NotOk
                        /\ OpenedWire("home", 2, wire, len) = NotOk
    BY Zenon DEF ReadsBack
<1>1. text \in Seq(Byte) /\ text # <<>> /\ Len(text) = len /\ BlockCount(text) = len \div 16 + 1
    <2>1. Len(text) # 0
        BY SampleText
    <2> QED BY <2>1, SampleText
<1>2. PICK c : c = CbcEncrypt(EncKey("home"), FreshIv, text)
    OBVIOUS
<1>3. PICK wire : wire = SealedWire("home", 1, FreshIv, text)
    OBVIOUS
<1>4. IsWire(wire, FreshIv, c, Tag("home", 1, FreshIv, c))
    BY <1>2, <1>3, WireParts, Zenon
<1>5. IVSize + BlockSize * Len(wire.cipher) + TagSize = SealedLength(len)
    <2>1. PICK m \in Nat \ {0} : m = BlockCount(text) /\ Len(c) = m
        BY <1>1, <1>2, CipherLengthIs, Zenon
    <2>2. Len(wire.cipher) = m /\ m = len \div 16 + 1
        BY <1>1, <1>4, <2>1, Zenon DEF IsWire
    <2>3. 16 + 16 * m + 8 = (16 + 8) + (len \div 16 + 1) * 16
        BY <2>2
    <2> QED BY <2>2, <2>3, Zenon DEF SealedLength, CipherLength, Overhead, IVSize, TagSize, BlockSize
<1>6. \A maxLen : OpenedWire("home", 1, wire, maxLen)
                      = IF Len(text) <= maxLen THEN [ok |-> TRUE, text |-> text] ELSE NotOk
    BY <1>1, <1>3, Reopened, Zenon
<1>7. OpenedWire("home", 1, wire, len) = [ok |-> TRUE, text |-> text]
    <2>1. len <= len
        OBVIOUS
    <2> QED BY <1>1, <1>6, <2>1, Zenon
<1>8. OpenedWire("home", 1, wire, len - 1) = NotOk
    <2>1. ~(len <= len - 1)
        OBVIOUS
    <2> QED BY <1>1, <1>6, <2>1, Zenon
<1>9. OpenedWire("home", 2, wire, len) = NotOk
    <2>1. 2 # 1
        OBVIOUS
    <2> QED BY <1>1, <1>3, <2>1, OtherSource, Zenon
<1> QED BY <1>3, <1>5, <1>7, <1>8, <1>9, Zenon

(* A frame opens as EncryptedLoRaLink says it does. *)
LEMMA OpensAsAbstract == OpensRight
<1> SUFFICES ASSUME NEW n \in Node, NEW frame \in SealedFrame, NEW size \in Buffers
             PROVE  AsAbstract(n, frame, size)
    BY Zenon DEF OpensRight
<1>1. /\ frame.len \in Nat \ {0} /\ frame.whole \in BOOLEAN /\ size \in Nat
    BY EncryptedLoRaLinkAssumption DEF SealedFrame
<1>2. PICK sent : sent = [src |-> frame.src, key |-> frame.key, len |-> frame.len,
                          wire |-> SealedLength(frame.len), whole |-> frame.whole]
    OBVIOUS
<1>3. Opens(n, sent, size) <=> frame.whole /\ frame.key = Key[n] /\ frame.len <= size
    <2>1. WellFormed(SealedLength(frame.len))
        BY <1>1, SealedWellFormed
    <2>2. /\ sent.wire = SealedLength(frame.len) /\ sent.whole = frame.whole
          /\ sent.key = frame.key /\ sent.len = frame.len
        BY <1>2
    <2> QED BY <2>1, <2>2, Zenon DEF Opens
<1>4. ASSUME NEW text \in Texts(frame.len), NEW wire \in WiresOf(frame, text)
      PROVE  OpenedWire(Key[n], frame.src, wire, size)
                 = IF Opens(n, sent, size) THEN [ok |-> TRUE, text |-> text] ELSE NotOk
    <2>1. text \in Seq(Byte) /\ text # <<>> /\ Len(text) = frame.len
        <3>1. Len(text) # 0 /\ text \in Seq(Byte) /\ Len(text) = frame.len
            BY <1>1, SampleText
        <3> QED BY <3>1
    <2>2. CASE frame.whole
        <3>1. wire = SealedWire(frame.key, frame.src, FreshIv, text)
            BY <2>2, Zenon DEF WiresOf
        <3>2. CASE frame.key = Key[n]
            <4>1. OpenedWire(Key[n], frame.src, wire, size)
                      = IF Len(text) <= size THEN [ok |-> TRUE, text |-> text] ELSE NotOk
                BY <2>1, <3>1, <3>2, Reopened, Zenon
            <4>2. Opens(n, sent, size) <=> Len(text) <= size
                BY <1>3, <2>1, <2>2, <3>2, Zenon
            <4> QED BY <4>1, <4>2, Zenon
        <3>3. CASE frame.key # Key[n]
            <4>1. OpenedWire(Key[n], frame.src, wire, size) = NotOk
                BY <2>1, <3>1, <3>3, OtherSource, Zenon
            <4> QED BY <1>3, <3>3, <4>1, Zenon
        <3> QED BY <3>2, <3>3, Zenon
    <2>3. CASE ~frame.whole
        <3>1. wire \in SpoiledWires(SealedWire(frame.key, frame.src, FreshIv, text))
            BY <2>3, Zenon DEF WiresOf
        <3>2. OpenedWire(Key[n], frame.src, wire, size) = NotOk
            BY <1>1, <3>1, SpoiledWire, Zenon
        <3> QED BY <1>3, <2>3, <3>2, Zenon
    <2> QED BY <1>1, <2>2, <2>3, Zenon
<1> QED BY <1>2, <1>4, Zenon DEF AsAbstract

LEMMA RoomsFaithful == room \in Rooms => CiphersKeepFaith
<1>1. ASSUME room \in Rooms PROVE room \in RoundTrips
    <2>1. \A len \in 1 .. MaxPayload(room) : ReadsBack(len)
        BY SampleReadsBack
    <2> QED BY <1>1, <2>1, Zenon DEF RoundTrips
<1> QED BY <1>1, OpensAsAbstract, Zenon DEF CiphersKeepFaith

(* What EncryptedLoRaLink takes for granted of its ciphers is so: payloads  *)
(* of every length come back, and a frame is opened if and only if it is    *)
(* whole, of the same network, and fits the buffer, wherever it was damaged *)
(* (EncryptedLoRaLink.cpp:116-163, LplCrypto.cpp:171-218).                  *)
THEOREM CiphersFaithful == Spec => []CiphersKeepFaith
<1>1. IInv => CiphersKeepFaith
    BY RoomsFaithful DEF IInv, FramesInv
<1> QED BY <1>1, Invariant, PTL
=============================================================================
