------------------------- MODULE LinkDeliveryProofs -------------------------
(***************************************************************************)
(* The link delivers each message at most once and in order, and it        *)
(* implements AckedDelivery.                                               *)
(*                                                                         *)
(* Time matters here: a receiver recognises a retransmission only while it *)
(* remembers the frame.  From the moment a node takes a message in, every  *)
(* later copy of it must reach the node while the entry is younger than    *)
(* the duplicate window, is not expired by a lookup for another frame and  *)
(* is not overwritten.  The hypotheses below say when that is so.          *)
(***************************************************************************)
EXTENDS LoRaLinkCoreProofs, WellFoundedInduction

-----------------------------------------------------------------------------
(* Hypotheses *)

WantsAck(r) == r.requestAck /\ r.destId # Broadcast

(* How often sendPacket() transmits at most. *)
Tries(r) == IF WantsAck(r) /\ r.maxRetries > 1 THEN r.maxRetries ELSE 1

(* The addresses a node may ever hold. *)
IdsEver(n) == IdsOf[n] \cup {Unset}

(* Node s asks node n for acknowledgments. *)
Asks(s, n) == s # n /\ \E r \in Requests[s] : WantsAck(r) /\ r.destId \in IdsEver(n)

(* No two nodes ask one node: then a new entry of its duplicate table      *)
(* never overwrites that of a message still being retransmitted.           *)
OneAsker == \A n, s, t \in Node : Asks(s, n) /\ Asks(t, n) => s = t

(* Frames of all lengths are remembered equally long: true of frames of    *)
(* one length, and of all when setDuplicateWindowMs() is set above the gap *)
(* the link computes.  The run LinkMixedLengths shows why it is needed.    *)
OneWindow == \A l, k \in Payload : EffectiveDupWindow(l) = EffectiveDupWindow(k)

(* Copies of a frame reach the receiver while it is remembered.  lapse is  *)
(* the longest time from the end of the k-th transmission of a frame to    *)
(* the end of the last (k counts from 0), unread the longest time a node's *)
(* own transmissions can keep it from reading what its radio holds.        *)
CopiesInTime(lapse, unread) ==
    /\ unread \in [Node -> Nat]
    /\ \A n \in Node : \A r \in Requests[n] :
          /\ Tries(r) * AirTime[r.len] <= unread[n]
          /\ WantsAck(r) =>
                /\ \A k \in 0 .. Tries(r) - 1 : lapse[r.len][k] \in Nat
                /\ \A k \in 1 .. Tries(r) - 1 :
                      /\ EffectiveAckTimeout <= lapse[r.len][k - 1]
                      /\ \A after \in RetryDelays(k - 1, SlotMs(r.len)),
                            before \in PreSendDelays(SlotMs(r.len)) :
                            EffectiveAckTimeout + after + before + AirTime[r.len]
                                + lapse[r.len][k] <= lapse[r.len][k - 1]
                /\ \A o \in Node : Asks(n, o) =>
                      lapse[r.len][0] + unread[o] <= EffectiveDupWindow(r.len)

(* Applications read before they send, and the window outlasts the retries. *)
TimelyLink(lapse, unread) ==
    PromptReaders /\ OneAsker /\ OneWindow /\ CopiesInTime(lapse, unread)

(* Every read takes any payload, and no payload is empty (the run          *)
(* LinkEmptyPayload shows what becomes of an empty one).                   *)
ReadsFit ==
    /\ 0 \notin Payload
    /\ \A n \in Node : \A r \in Reads[n] : \A len \in Payload : len <= r.maxLen

-----------------------------------------------------------------------------
(* The invariant *)

Sending(n) == pc[n] \in {"delay", "air", "await"}

(* The call of node s has not transmitted, nor tried to, yet. *)
Unsent(s) == pc[s] \in {"delay", "air"} /\ job[s].attempt = 0

(* The call of node s may put another copy on the air. *)
MoreCopies(s) ==
    Sending(s) /\ job[s].frame.req /\ (pc[s] = "await" => job[s].attempt + 1 < job[s].attempts)

(* The longest time until the last copy of the call of s has been sent. *)
Remaining(s, lapse) ==
    LET rest == lapse[job[s].frame.len][job[s].attempt]
    IN  IF pc[s] = "await" THEN timer[s] + rest - EffectiveAckTimeout
        ELSE IF pc[s] = "delay" THEN timer[s] + AirTime[job[s].frame.len] + rest
        ELSE timer[s] + rest

(* The longest time node n may leave a frame unread. *)
UnreadTime(n) ==
    LET air == AirTime[job[n].frame.len]
        more == job[n].attempts - job[n].attempt
    IN  IF pc[n] = "air" THEN timer[n] + (more - 1) * air
        ELSE IF pc[n] = "delay" THEN more * air
        ELSE IF pc[n] = "await" THEN (more - 1) * air
        ELSE 0

(* A table remembers f and does so for another while. *)
Holds(table, f, while) ==
    \E i \in Slots : /\ table[i] # Free /\ table[i].key = Key(f)
                     /\ table[i].age + while <= EffectiveDupWindow(f.len)

Remembers(n, f, while) == Holds(seen[n], f, while)

Took(n, m) == m \in Elements(accepted[n])

Heard(n) == inbox[n] \in DataFrame

AskedBy(f, r) == f.dst = r.destId /\ f.len = r.len /\ f.req = WantsAck(r)

JobsAsked ==
    \A s \in Node : Sending(s) =>
        /\ job[s].frame.msg = <<s, calls[s]>>
        /\ \E r \in Requests[s] : AskedBy(job[s].frame, r) /\ job[s].attempts = Tries(r)
        /\ job[s].attempt < job[s].attempts
        /\ pc[s] = "await" => job[s].frame.req

BuffersAsked ==
    \A n \in Node : Heard(n) =>
        LET f == inbox[n] IN
        /\ f.msg[1] # n /\ f.msg[2] <= calls[f.msg[1]]
        /\ \E r \in Requests[f.msg[1]] : AskedBy(f, r)
        /\ \A x \in Elements(accepted[n]) : x[1] = f.msg[1] => x[2] <= f.msg[2]

(* What a node holds unread of a message still being sent is a copy. *)
CopiesAgree ==
    \A n, s \in Node : Sending(s) /\ Heard(n) /\ inbox[n].msg = job[s].frame.msg =>
        inbox[n] = job[s].frame /\ ~Unsent(s)

(* Only a message whose sender wants an ACK may come again. *)
SentAgain ==
    \A n, s \in Node : Sending(s) /\ Took(n, job[s].frame.msg) =>
        ~Unsent(s) /\ n # s /\ job[s].frame.dst \in IdsEver(n) \cup {Broadcast}

HeardAgain ==
    \A n \in Node : Heard(n) /\ Took(n, inbox[n].msg) => inbox[n].req

IdsHeld == \A n \in Node : localId[n] \in IdsEver(n)

TimeLeft(lapse, unread) ==
    /\ \A s \in Node : MoreCopies(s) /\ ~Unsent(s) =>
          Remaining(s, lapse) <= lapse[job[s].frame.len][0]
    /\ \A n \in Node : UnreadTime(n) <= unread[n]

SendersRemembered(lapse, unread) ==
    \A n, s \in Node : MoreCopies(s) /\ Took(n, job[s].frame.msg) =>
        Remembers(n, job[s].frame, Remaining(s, lapse) + unread[n])

HeardRemembered ==
    \A n \in Node : Heard(n) /\ Took(n, inbox[n].msg) => Remembers(n, inbox[n], UnreadTime(n))

(* Whatever may still come again of a message taken in is remembered long  *)
(* enough to be recognised.                                                *)
CopyInv(lapse, unread) ==
    /\ JobsAsked /\ BuffersAsked /\ AcceptedCalled /\ CopiesAgree
    /\ SentAgain /\ HeardAgain /\ IdsHeld
    /\ TimeLeft(lapse, unread) /\ SendersRemembered(lapse, unread) /\ HeardRemembered

(* A node keeps its line: what it has taken in is what its application has *)
(* got followed by what waits in the queue.                                *)
LineKept ==
    \A n \in Node :
        /\ Len(accepted[n]) = Len(delivered[n]) + Len(queue[n])
        /\ \A i \in 1 .. Len(delivered[n]) : accepted[n][i] = delivered[n][i]
        /\ \A i \in 1 .. Len(queue[n]) : accepted[n][Len(delivered[n]) + i] = queue[n][i].msg
        /\ pc[n] = "receive" =>
              queue[n] = <<>> /\ \A len \in Payload : len <= job[n].maxLen

-----------------------------------------------------------------------------
(* The duplicate table over time *)

LEMMA LeastSlot ==
    ASSUME NEW S, S \subseteq Nat, S # {}
    PROVE  \E x \in S : \A y \in S : x <= y
<1> DEFINE less == {p \in Nat \X Nat : p[1] < p[2]}
<1>1. IsWellFoundedOn(less, Nat)
  <2>1. less = OpToRel(<, Nat)
    BY Zenon DEF OpToRel
  <2> QED
    BY <2>1, NatLessThanWellFounded, Zenon
<1> HIDE DEF less
<1>2. PICK x \in S : \A y \in S : <<y, x>> \notin less
  BY <1>1, WFMin, Zenon
<1>3. ASSUME NEW y \in S PROVE x <= y
  <2>1. <<y, x>> \notin less
    BY <1>2
  <2> QED
    BY <2>1 DEF less
<1> QED
  BY <1>3

(* remember() finds a slot, so the frame is in the table it leaves. *)
LEMMA RememberedHolds ==
    ASSUME NEW table, NEW next \in Slots, NEW f \in DataFrame,
           NEW while \in Nat, while <= EffectiveDupWindow(f.len)
    PROVE  Holds(Remembered(table, next, Key(f)), f, while)
<1>1. PICK i \in Slots : IsRememberSlot(table, next, i)
  <2>1. CASE \E j \in Slots : table[j] = Free
    <3> DEFINE S == {j \in Slots : table[j] = Free}
    <3>1. S \subseteq Nat /\ S # {}
      BY <2>1 DEF Slots
    <3>2. PICK i \in S : \A y \in S : i <= y
      BY <3>1, LeastSlot, Zenon
    <3>3. \A j \in Slots : j < i => table[j] # Free
      BY <3>2 DEF Slots
    <3> QED
      BY <2>1, <3>2, <3>3 DEF IsRememberSlot
  <2>2. CASE ~\E j \in Slots : table[j] = Free
    BY <2>2 DEF IsRememberSlot
  <2> QED
    BY <2>1, <2>2
<1> DEFINE e == [key |-> Key(f), age |-> 0]
<1>2. Remembered(table, next, Key(f))[i] = e
  BY <1>1 DEF Remembered
<1>3. e # Free
  <2>1. e \in SeenEntry
    BY DEF SeenEntry, Key, DataFrame
  <2> QED
    BY <2>1, MarkersDistinct
<1>4. e.key = Key(f) /\ e.age + while <= EffectiveDupWindow(f.len)
  OBVIOUS
<1> HIDE DEF e
<1> QED
  BY <1>2, <1>3, <1>4 DEF Holds

(* A lookup, for whatever frame, expires nothing that is still needed. *)
LEMMA ScannedHolds ==
    ASSUME OneWindow, NEW table \in Table, NEW f \in DataFrame, NEW g \in DataFrame,
           NEW while \in Nat, Holds(table, f, while)
    PROVE  Holds(Scanned(table, Key(g), EffectiveDupWindow(g.len)), f, while)
<1> DEFINE window == EffectiveDupWindow(g.len)
           after == Scanned(table, Key(g), window)
<1>1. window \in Nat /\ window = EffectiveDupWindow(f.len)
  BY FrameFacts, TimingTypes DEF OneWindow
<1>2. PICK i \in Slots : /\ table[i] # Free /\ table[i].key = Key(f)
                        /\ table[i].age + while <= window
  BY <1>1 DEF Holds
<1> HIDE DEF window
<1>3. table[i] \in SeenEntry
  BY <1>2 DEF Table
<1>4. table[i].age \in Nat
  BY <1>3 DEF SeenEntry
<1>5. Live(table[i], window)
  BY <1>1, <1>2, <1>4 DEF Live
<1>6. after[i] \in {table[i], [table[i] EXCEPT !.age = 0]}
  BY <1>5 DEF Scanned
<1>7. [table[i] EXCEPT !.age = 0] \in SeenEntry /\ [table[i] EXCEPT !.age = 0].key = table[i].key
      /\ [table[i] EXCEPT !.age = 0].age = 0
  BY <1>3 DEF SeenEntry
<1>8. after[i] # Free /\ after[i].key = Key(f) /\ after[i].age + while <= window
  <2>1. CASE after[i] = table[i]
    BY <1>2, <2>1
  <2>2. CASE after[i] = [table[i] EXCEPT !.age = 0]
    BY <1>1, <1>2, <1>4, <1>7, <2>2, MarkersDistinct
  <2> QED
    BY <1>6, <2>1, <2>2
<1> HIDE DEF after
<1>9. Holds(after, f, while)
  BY <1>1, <1>8 DEF Holds
<1> QED
  BY <1>9 DEF after, window

LEMMA AgedHolds ==
    ASSUME NEW table \in Table, NEW f \in DataFrame, NEW while \in Nat \ {0}, Holds(table, f, while)
    PROVE  Holds(Aged(table, OldestAge), f, while - 1)
<1>1. EffectiveDupWindow(f.len) \in Nat
  BY FrameFacts, TimingTypes
<1>2. PICK i \in Slots : /\ table[i] # Free /\ table[i].key = Key(f)
                        /\ table[i].age + while <= EffectiveDupWindow(f.len)
  BY DEF Holds
<1>3. table[i] \in SeenEntry
  BY <1>2 DEF Table
<1> DEFINE older == [table[i] EXCEPT !.age = IF @ < OldestAge THEN @ + 1 ELSE @]
<1>4. Aged(table, OldestAge)[i] = older
  BY <1>2 DEF Aged
<1>5. table[i].age \in Nat /\ older.age \in {table[i].age, table[i].age + 1}
      /\ older.key = table[i].key /\ older \in SeenEntry
  BY <1>3 DEF SeenEntry
<1> HIDE DEF older
<1>6. older # Free /\ older.age + (while - 1) <= EffectiveDupWindow(f.len)
  BY <1>1, <1>2, <1>5, MarkersDistinct
<1> QED
  BY <1>2, <1>4, <1>5, <1>6 DEF Holds

LEMMA HoldsLess ==
    ASSUME NEW table \in Table, NEW f \in DataFrame, NEW while \in Nat, NEW less \in Nat,
           less <= while, Holds(table, f, while)
    PROVE  Holds(table, f, less)
<1>1. EffectiveDupWindow(f.len) \in Nat
  BY FrameFacts, TimingTypes
<1>2. PICK i \in Slots : /\ table[i] # Free /\ table[i].key = Key(f)
                        /\ table[i].age + while <= EffectiveDupWindow(f.len)
  BY DEF Holds
<1>3. table[i].age \in Nat
  BY <1>2 DEF Table, SeenEntry
<1>4. table[i].age + less <= EffectiveDupWindow(f.len)
  BY <1>1, <1>2, <1>3
<1> QED
  BY <1>2, <1>4 DEF Holds

(* What is remembered, isDuplicate() recognises. *)
LEMMA HeldIsDuplicate ==
    ASSUME NEW table \in Table, NEW f \in DataFrame, NEW while \in Nat, Holds(table, f, while)
    PROVE  IsDuplicate(table, Key(f), EffectiveDupWindow(f.len))
<1>1. EffectiveDupWindow(f.len) \in Nat
  BY FrameFacts, TimingTypes
<1>2. PICK i \in Slots : /\ table[i] # Free /\ table[i].key = Key(f)
                        /\ table[i].age + while <= EffectiveDupWindow(f.len)
  BY DEF Holds
<1>3. table[i].age \in Nat
  BY <1>2 DEF Table, SeenEntry
<1>4. table[i].age <= EffectiveDupWindow(f.len)
  BY <1>1, <1>2, <1>3
<1> QED
  BY <1>2, <1>4 DEF IsDuplicate, Matches, Live

-----------------------------------------------------------------------------
(* Calls in progress *)

(* The facts about the call of s that the steps of its loop need. *)
LEMMA CallFacts ==
    ASSUME TypeOK, JobsAsked, NEW lapse, NEW unread, CopiesInTime(lapse, unread),
           NEW s \in Node, Sending(s)
    PROVE  /\ job[s] \in SendCall /\ job[s].frame \in DataFrame
           /\ AirTime[job[s].frame.len] \in Nat
           /\ job[s].attempt \in Nat /\ job[s].attempts \in Nat
           /\ job[s].attempt < job[s].attempts
           /\ job[s].attempts * AirTime[job[s].frame.len] <= unread[s]
           /\ unread \in [Node -> Nat]
           /\ EffectiveAckTimeout \in Nat
           /\ timer[s] \in Nat
           /\ ~job[s].frame.req => job[s].attempts = 1 /\ job[s].attempt = 0
           /\ job[s].frame.req =>
                 /\ job[s].frame.dst # Broadcast
                 /\ \A k \in 0 .. job[s].attempts - 1 : lapse[job[s].frame.len][k] \in Nat
                 /\ job[s].attempt + 1 < job[s].attempts =>
                       EffectiveAckTimeout <= lapse[job[s].frame.len][job[s].attempt]
                 /\ \A n \in Node : s # n /\ job[s].frame.dst \in IdsEver(n) =>
                       /\ Asks(s, n)
                       /\ lapse[job[s].frame.len][0] + unread[n]
                             <= EffectiveDupWindow(job[s].frame.len)
<1> DEFINE f == job[s].frame
<1>1. /\ job[s] \in SendCall /\ timer[s] \in Nat
  BY DEF Sending, TypeOK, ControlOK
<1>2. job[s].frame \in DataFrame /\ job[s].attempt \in Nat /\ job[s].attempts \in Nat
  BY <1>1 DEF SendCall
<1>3. f.len \in Payload
  BY <1>2, FrameFacts
<1>4. AirTime[f.len] \in Nat /\ EffectiveAckTimeout \in Nat
  BY <1>3, TimingTypes
<1>5. PICK r \in Requests[s] : AskedBy(f, r) /\ job[s].attempts = Tries(r)
  BY DEF JobsAsked
<1>6. job[s].attempt < job[s].attempts
  BY DEF JobsAsked
<1>7. /\ unread \in [Node -> Nat]
      /\ Tries(r) * AirTime[r.len] <= unread[s]
      /\ WantsAck(r) =>
            /\ \A k \in 0 .. Tries(r) - 1 : lapse[r.len][k] \in Nat
            /\ \A k \in 1 .. Tries(r) - 1 : EffectiveAckTimeout <= lapse[r.len][k - 1]
            /\ \A o \in Node : Asks(s, o) =>
                  lapse[r.len][0] + unread[o] <= EffectiveDupWindow(r.len)
  BY DEF CopiesInTime
<1>8. f.len = r.len /\ f.dst = r.destId /\ f.req = WantsAck(r)
  BY <1>5 DEF AskedBy
<1>9. \A n \in Node : s # n /\ f.req /\ f.dst \in IdsEver(n) => Asks(s, n)
  BY <1>8 DEF Asks
<1>10. ~f.req => Tries(r) = 1
  BY <1>8 DEF Tries
<1>11. ~f.req => job[s].attempts = 1 /\ job[s].attempt = 0
  BY <1>2, <1>5, <1>6, <1>10
<1>12. f.req => f.dst # Broadcast
  BY <1>8 DEF WantsAck
<1>13. f.req /\ job[s].attempt + 1 < job[s].attempts =>
          EffectiveAckTimeout <= lapse[f.len][job[s].attempt]
  <2> SUFFICES ASSUME f.req, job[s].attempt + 1 < job[s].attempts
               PROVE  EffectiveAckTimeout <= lapse[f.len][job[s].attempt]
    OBVIOUS
  <2>1. job[s].attempt + 1 \in 1 .. Tries(r) - 1 /\ (job[s].attempt + 1) - 1 = job[s].attempt
    BY <1>2, <1>5
  <2> QED
    BY <1>7, <1>8, <2>1
<1> HIDE DEF f
<1> QED
  BY <1>1, <1>2, <1>4, <1>5, <1>6, <1>7, <1>8, <1>9, <1>11, <1>12, <1>13 DEF f

(* One turn of the retry loop fits in what is left of the time. *)
LEMMA TurnFits ==
    ASSUME TypeOK, JobsAsked, NEW lapse, NEW unread, CopiesInTime(lapse, unread),
           NEW s \in Node, Sending(s), job[s].frame.req,
           job[s].attempt + 1 < job[s].attempts,
           NEW after \in RetryDelays(job[s].attempt, SlotMs(job[s].frame.len)),
           NEW before \in PreSendDelays(SlotMs(job[s].frame.len))
    PROVE  /\ after \in Nat /\ before \in Nat
           /\ EffectiveAckTimeout + after + before + AirTime[job[s].frame.len]
                 + lapse[job[s].frame.len][job[s].attempt + 1]
              <= lapse[job[s].frame.len][job[s].attempt]
<1> DEFINE f == job[s].frame
           k == job[s].attempt + 1
<1>1. /\ job[s].frame \in DataFrame /\ job[s].attempt \in Nat /\ job[s].attempts \in Nat
  BY CallFacts
<1>2. f.len \in Payload
  BY <1>1, FrameFacts
<1>3. after \in Nat /\ before \in Nat
  BY <1>1, <1>2, TimingTypes
<1>4. PICK r \in Requests[s] : AskedBy(f, r) /\ job[s].attempts = Tries(r)
  BY DEF JobsAsked
<1>5. WantsAck(r) /\ f.len = r.len
  BY <1>4 DEF AskedBy
<1>6. k \in 1 .. Tries(r) - 1 /\ k - 1 = job[s].attempt
  BY <1>1, <1>4
<1>7. \A j \in 1 .. Tries(r) - 1 :
         \A x \in RetryDelays(j - 1, SlotMs(r.len)), y \in PreSendDelays(SlotMs(r.len)) :
            EffectiveAckTimeout + x + y + AirTime[r.len] + lapse[r.len][j] <= lapse[r.len][j - 1]
  BY <1>5 DEF CopiesInTime
<1> HIDE DEF f
<1>8. EffectiveAckTimeout + after + before + AirTime[f.len] + lapse[f.len][k]
         <= lapse[f.len][job[s].attempt]
  <2>1. after \in RetryDelays(k - 1, SlotMs(r.len)) /\ before \in PreSendDelays(SlotMs(r.len))
    BY <1>5, <1>6 DEF f
  <2> HIDE DEF k
  <2>2. EffectiveAckTimeout + after + before + AirTime[r.len] + lapse[r.len][k] <= lapse[r.len][k - 1]
    BY <1>6, <1>7, <2>1
  <2> QED
    BY <1>5, <1>6, <2>2
<1> QED
  BY <1>3, <1>8 DEF f

(* Node s goes on with the call it is in, or ends it. *)
CallKept(s) ==
    Sending(s)' =>
        /\ Sending(s)
        /\ job'[s].frame = job[s].frame /\ job'[s].attempts = job[s].attempts
        /\ job'[s].attempt < job[s].attempts
        /\ pc'[s] = "await" => job[s].frame.req
        /\ Unsent(s)' => Unsent(s)

(* Its copies come no later than they would have. *)
CallTimed(s, lapse) ==
    MoreCopies(s)' =>
        /\ MoreCopies(s)
        /\ Remaining(s, lapse)' \in Nat
        /\ ~Unsent(s)' => IF Unsent(s)
                          THEN Remaining(s, lapse)' <= lapse[job[s].frame.len][0]
                          ELSE Remaining(s, lapse)' <= Remaining(s, lapse)

(* Only node n moves, and it moves within its call. *)
JobStep(n, lapse) ==
    /\ \A o \in Node \ {n} : pc'[o] = pc[o] /\ job'[o] = job[o] /\ timer'[o] = timer[o]
    /\ CallKept(n) /\ CallTimed(n, lapse)
    /\ UnreadTime(n)' \in Nat /\ UnreadTime(n)' <= UnreadTime(n)

LEMMA UnreadNat ==
    ASSUME TypeOK, JobsAsked, NEW lapse, NEW unread, CopiesInTime(lapse, unread), NEW n \in Node
    PROVE  UnreadTime(n) \in Nat
<1>1. CASE ~Sending(n)
  BY <1>1 DEF UnreadTime, Sending
<1>2. CASE Sending(n)
  <2> DEFINE air == AirTime[job[n].frame.len]
             more == job[n].attempts - job[n].attempt
  <2>1. air \in Nat /\ more \in Nat /\ more - 1 \in Nat /\ timer[n] \in Nat
    BY <1>2, CallFacts
  <2> HIDE DEF air, more
  <2>2. \A i, j \in Nat : i * j \in Nat
    OBVIOUS
  <2>3. more * air \in Nat /\ (more - 1) * air \in Nat
    BY <2>1, <2>2
  <2> QED
    BY <2>1, <2>3 DEF UnreadTime, air, more
<1> QED
  BY <1>1, <1>2

LEMMA RemainingNat ==
    ASSUME TypeOK, JobsAsked, NEW lapse, NEW unread, CopiesInTime(lapse, unread),
           NEW s \in Node, MoreCopies(s)
    PROVE  /\ Remaining(s, lapse) \in Nat
           /\ lapse[job[s].frame.len][0] \in Nat
           /\ lapse[job[s].frame.len][job[s].attempt] \in Nat
<1> DEFINE rest == lapse[job[s].frame.len][job[s].attempt]
           air == AirTime[job[s].frame.len]
<1>1. Sending(s) /\ job[s].frame.req
      /\ (pc[s] = "await" => job[s].attempt + 1 < job[s].attempts)
  BY DEF MoreCopies
<1>2. /\ air \in Nat /\ timer[s] \in Nat /\ EffectiveAckTimeout \in Nat
      /\ job[s].attempt \in 0 .. job[s].attempts - 1 /\ 0 \in 0 .. job[s].attempts - 1
      /\ \A k \in 0 .. job[s].attempts - 1 : lapse[job[s].frame.len][k] \in Nat
      /\ pc[s] = "await" => EffectiveAckTimeout <= rest
  BY <1>1, CallFacts
<1>3. rest \in Nat /\ lapse[job[s].frame.len][0] \in Nat
  BY <1>2
<1> HIDE DEF rest, air
<1>4. Remaining(s, lapse) \in Nat
  BY <1>2, <1>3 DEF Remaining, rest, air
<1> QED
  BY <1>3, <1>4 DEF rest

(* A call that ends, or the start of a receivePacket(). *)
LEMMA EndStep ==
    ASSUME TypeOK, JobsAsked, NEW lapse, NEW unread, CopiesInTime(lapse, unread),
           NEW n \in Node, NEW where \in {"idle", "receive"}, NEW ticks,
           Blocked(n, where, ticks), NEW j, job' = [job EXCEPT ![n] = j]
    PROVE  JobStep(n, lapse)
<1>1. pc'[n] = where /\ \A o \in Node \ {n} : pc'[o] = pc[o] /\ timer'[o] = timer[o] /\ job'[o] = job[o]
  BY DEF Blocked, TypeOK, ControlOK
<1>2. ~Sending(n)'
  BY <1>1 DEF Sending
<1>3. UnreadTime(n)' = 0
  BY <1>1 DEF UnreadTime
<1>4. UnreadTime(n) \in Nat
  BY UnreadNat
<1> QED
  BY <1>1, <1>2, <1>3, <1>4 DEF JobStep, CallKept, CallTimed, MoreCopies

LEMMA ReturnStep ==
    ASSUME TypeOK, JobsAsked, NEW lapse, NEW unread, CopiesInTime(lapse, unread),
           NEW n \in Node, Return(n)
    PROVE  JobStep(n, lapse)
BY EndStep DEF Return

LEMMA RetryStep ==
    ASSUME TypeOK, JobsAsked, NEW lapse, NEW unread, CopiesInTime(lapse, unread),
           NEW n \in Node, pc[n] \in {"air", "await"}, timer[n] = 0, job[n].frame.req,
           RetryOrGiveUp(n)
    PROVE  JobStep(n, lapse)
<1>1. CASE ~(job[n].attempt + 1 < job[n].attempts)
  BY <1>1, ReturnStep DEF RetryOrGiveUp
<1>2. CASE job[n].attempt + 1 < job[n].attempts
  <2> DEFINE len == job[n].frame.len
             air == AirTime[len]
             k == job[n].attempt
             more == job[n].attempts - k
             rest == lapse[len][k]
             left == lapse[len][k + 1]
  <2>1. Sending(n)
    BY DEF Sending
  <2>2. PICK after \in RetryDelays(k, SlotMs(len)), before \in PreSendDelays(SlotMs(len)) :
            /\ BeginAttempt(n, len, after + before)
            /\ job' = [job EXCEPT ![n].attempt = k + 1]
    BY <1>2 DEF RetryOrGiveUp
  <2>3. /\ job[n] \in SendCall /\ air \in Nat /\ k \in Nat /\ job[n].attempts \in Nat
        /\ EffectiveAckTimeout \in Nat
        /\ \A i \in 0 .. job[n].attempts - 1 : lapse[len][i] \in Nat
    BY <2>1, CallFacts
  <2>4. rest \in Nat /\ left \in Nat /\ more \in Nat
    BY <1>2, <2>3
  <2>5. /\ after \in Nat /\ before \in Nat
        /\ EffectiveAckTimeout + after + before + air + left <= rest
    BY <1>2, <2>1, <2>2, TurnFits
  <2>6. /\ job'[n].frame = job[n].frame /\ job'[n].attempts = job[n].attempts
        /\ job'[n].attempt = k + 1
        /\ \A o \in Node \ {n} : job'[o] = job[o] /\ pc'[o] = pc[o] /\ timer'[o] = timer[o]
    <3>1. job \in [Node -> SendCall \cup ReadCall \cup {NoJob}]
      BY DEF TypeOK, ControlOK
    <3>2. job'[n] = [job[n] EXCEPT !.attempt = k + 1]
      BY <2>2, <3>1
    <3> QED
      BY <2>2, <2>3, <3>1, <3>2 DEF SendCall, BeginAttempt, Blocked, TypeOK, ControlOK
  <2>7. \/ pc'[n] = "delay" /\ timer'[n] = after + before
        \/ pc'[n] = "air" /\ timer'[n] = air /\ after + before = 0
    BY <2>2, <2>5 DEF BeginAttempt, Blocked, TypeOK, ControlOK
  <2>8. Remaining(n, lapse)' = after + before + air + left
    BY <2>3, <2>4, <2>5, <2>6, <2>7 DEF Remaining
  <2>9. Remaining(n, lapse) = IF pc[n] = "await" THEN rest - EffectiveAckTimeout ELSE rest
    BY <2>3, <2>4 DEF Remaining
  <2>10. CallKept(n)
    BY <1>2, <2>1, <2>3, <2>6, <2>7 DEF CallKept, Unsent
  <2>11. CallTimed(n, lapse)
    <3>1. MoreCopies(n)
      BY <1>2, <2>1 DEF MoreCopies
    <3>2. Remaining(n, lapse)' \in Nat /\ Remaining(n, lapse)' <= Remaining(n, lapse)
      BY <2>3, <2>4, <2>5, <2>8, <2>9
    <3>3. Unsent(n) => rest = lapse[len][0] /\ Remaining(n, lapse) = rest
      BY <2>9 DEF Unsent
    <3> QED
      BY <3>1, <3>2, <3>3 DEF CallTimed
  <2>12. UnreadTime(n)' = (more - 1) * air /\ UnreadTime(n) = (more - 1) * air
    <3>1. UnreadTime(n) = (more - 1) * air
      BY <2>3, <2>4 DEF UnreadTime
    <3>2. job'[n].attempts - job'[n].attempt = more - 1
      BY <2>3, <2>6
    <3>3. AirTime[job'[n].frame.len] = air
      BY <2>6
    <3>4. air + (more - 1 - 1) * air = (more - 1) * air
      BY <2>3, <2>4
    <3> HIDE DEF air, more
    <3>5. UnreadTime(n)' = (more - 1) * air
      BY <2>7, <3>2, <3>3, <3>4 DEF UnreadTime
    <3> QED
      BY <3>1, <3>5 DEF air, more
  <2> QED
    <3>1. (more - 1) * air \in Nat
      <4>1. more - 1 \in Nat /\ air \in Nat
        BY <1>2, <2>3
      <4> HIDE DEF more, air
      <4>2. \A i, j \in Nat : i * j \in Nat
        OBVIOUS
      <4> QED
        BY <4>1, <4>2
    <3> HIDE DEF air, more
    <3> QED
      BY <2>6, <2>10, <2>11, <2>12, <3>1 DEF JobStep
<1> QED
  BY <1>1, <1>2

(* The delay before an attempt is over, or the frame is out. *)
LEMMA TransmitStep ==
    ASSUME TypeOK, JobsAsked, NEW lapse, NEW unread, CopiesInTime(lapse, unread),
           NEW n \in Node, job' = job,
           \/ pc[n] = "delay" /\ timer[n] = 0 /\ Blocked(n, "air", AirTime[job[n].frame.len])
           \/ /\ pc[n] = "air" /\ timer[n] = 0 /\ job[n].frame.req
              /\ Blocked(n, "await", EffectiveAckTimeout)
    PROVE  JobStep(n, lapse)
<1> DEFINE air == AirTime[job[n].frame.len]
           more == job[n].attempts - job[n].attempt
           rest == lapse[job[n].frame.len][job[n].attempt]
<1>1. Sending(n) /\ (pc[n] = "air" => job[n].frame.req)
  BY DEF Sending
<1>2. /\ air \in Nat /\ more \in Nat \ {0} /\ EffectiveAckTimeout \in Nat
      /\ job[n].attempt < job[n].attempts /\ job[n].attempt \in 0 .. job[n].attempts - 1
      /\ job[n].frame.req => rest \in Nat
  <2>1. /\ air \in Nat /\ job[n].attempt \in Nat /\ job[n].attempts \in Nat
        /\ EffectiveAckTimeout \in Nat /\ job[n].attempt < job[n].attempts
        /\ job[n].frame.req =>
              \A k \in 0 .. job[n].attempts - 1 : lapse[job[n].frame.len][k] \in Nat
    BY <1>1, CallFacts
  <2> QED
    BY <2>1
<1>3. \A o \in Node \ {n} : job'[o] = job[o] /\ pc'[o] = pc[o] /\ timer'[o] = timer[o]
  BY DEF Blocked, TypeOK, ControlOK
<1>4. \/ pc[n] = "delay" /\ pc'[n] = "air" /\ timer'[n] = air
      \/ pc[n] = "air" /\ pc'[n] = "await" /\ timer'[n] = EffectiveAckTimeout
  BY DEF Blocked, TypeOK, ControlOK
<1>5. CallKept(n)
  BY <1>1, <1>2, <1>4 DEF CallKept, Unsent
<1>6. UnreadTime(n)' = UnreadTime(n)
  <2>1. air + (more - 1) * air = more * air /\ 0 + (more - 1) * air = (more - 1) * air
    BY <1>2
  <2>2. /\ UnreadTime(n)' = IF pc'[n] = "air" THEN air + (more - 1) * air ELSE (more - 1) * air
        /\ UnreadTime(n) = IF pc[n] = "air" THEN 0 + (more - 1) * air ELSE more * air
    BY <1>4 DEF UnreadTime
  <2> HIDE DEF air, more
  <2> QED
    BY <1>4, <2>1, <2>2
<1>7. UnreadTime(n) \in Nat
  BY UnreadNat
<1>8. CallTimed(n, lapse)
  <2> SUFFICES ASSUME MoreCopies(n)'
               PROVE  /\ MoreCopies(n)
                      /\ Remaining(n, lapse)' \in Nat
                      /\ ~Unsent(n)' => IF Unsent(n)
                                        THEN Remaining(n, lapse)' <= lapse[job[n].frame.len][0]
                                        ELSE Remaining(n, lapse)' <= Remaining(n, lapse)
    BY DEF CallTimed
  <2>1. MoreCopies(n) /\ job[n].frame.req /\ rest \in Nat
    BY <1>1, <1>2, <1>4 DEF MoreCopies
  <2>2. Remaining(n, lapse)' = IF pc'[n] = "air" THEN air + rest
                                                  ELSE EffectiveAckTimeout + rest - EffectiveAckTimeout
    BY <1>4 DEF Remaining
  <2>3. Remaining(n, lapse) = IF pc[n] = "air" THEN 0 + rest ELSE 0 + air + rest
    BY <1>4 DEF Remaining
  <2>4. Remaining(n, lapse)' \in Nat /\ Remaining(n, lapse)' <= Remaining(n, lapse)
    <3> HIDE DEF air, rest
    <3> QED
      BY <1>2, <1>4, <2>1, <2>2, <2>3
  <2>5. ASSUME Unsent(n), ~Unsent(n)'
        PROVE  Remaining(n, lapse)' <= lapse[job[n].frame.len][0]
    <3>1. job[n].attempt = 0 /\ pc'[n] = "await"
      BY <1>4, <2>5 DEF Unsent
    <3>2. Remaining(n, lapse)' = rest /\ rest = lapse[job[n].frame.len][0]
      BY <1>2, <2>1, <2>2, <3>1
    <3> HIDE DEF rest
    <3> QED
      BY <2>1, <3>2
  <2> QED
    BY <2>1, <2>4, <2>5
<1>9. UnreadTime(n)' \in Nat /\ UnreadTime(n)' <= UnreadTime(n)
  BY <1>6, <1>7
<1> QED
  BY <1>3, <1>5, <1>8, <1>9 DEF JobStep

(* A step in which no call begins and nobody loses time. *)
Calm(lapse) ==
    \A s \in Node :
        /\ CallKept(s) /\ CallTimed(s, lapse)
        /\ UnreadTime(s)' \in Nat /\ UnreadTime(s)' <= UnreadTime(s)

LEMMA SameCallIsCalm ==
    ASSUME TypeOK, JobsAsked, NEW lapse, NEW unread, CopiesInTime(lapse, unread),
           NEW s \in Node, pc'[s] = pc[s], job'[s] = job[s], timer'[s] = timer[s]
    PROVE  /\ CallKept(s) /\ CallTimed(s, lapse)
           /\ UnreadTime(s)' \in Nat /\ UnreadTime(s)' <= UnreadTime(s)
<1>1. CallKept(s)
  BY DEF CallKept, Sending, Unsent, JobsAsked
<1>2. /\ MoreCopies(s)' = MoreCopies(s) /\ Unsent(s)' = Unsent(s)
      /\ Remaining(s, lapse)' = Remaining(s, lapse) /\ UnreadTime(s)' = UnreadTime(s)
  BY DEF MoreCopies, Sending, Unsent, Remaining, UnreadTime
<1>3. MoreCopies(s) => Remaining(s, lapse) \in Nat
  BY RemainingNat
<1>4. UnreadTime(s) \in Nat
  BY UnreadNat
<1> QED
  BY <1>1, <1>2, <1>3, <1>4 DEF CallTimed

LEMMA JobStepCalm ==
    ASSUME TypeOK, JobsAsked, NEW lapse, NEW unread, CopiesInTime(lapse, unread),
           NEW n \in Node, JobStep(n, lapse)
    PROVE  Calm(lapse)
<1> SUFFICES ASSUME NEW s \in Node
             PROVE  /\ CallKept(s) /\ CallTimed(s, lapse)
                    /\ UnreadTime(s)' \in Nat /\ UnreadTime(s)' <= UnreadTime(s)
  BY DEF Calm
<1>1. CASE s = n
  BY <1>1 DEF JobStep
<1>2. CASE s # n
  BY <1>2, SameCallIsCalm DEF JobStep
<1> QED
  BY <1>1, <1>2

LEMMA NoJobStepCalm ==
    ASSUME TypeOK, JobsAsked, NEW lapse, NEW unread, CopiesInTime(lapse, unread),
           UNCHANGED <<pc, job, timer>>
    PROVE  Calm(lapse)
BY SameCallIsCalm DEF Calm

-----------------------------------------------------------------------------
(* Steps of the system *)

(* The part of the invariant about calls and their time. *)
LEMMA CalmCalls ==
    ASSUME TypeOK, NEW lapse, NEW unread, CopyInv(lapse, unread), CopiesInTime(lapse, unread),
           Calm(lapse), UNCHANGED calls
    PROVE  JobsAsked' /\ TimeLeft(lapse, unread)'
<1> USE DEF CopyInv
<1>1. JobsAsked'
  <2> SUFFICES ASSUME NEW s \in Node, Sending(s)'
               PROVE  /\ job'[s].frame.msg = <<s, calls[s]>>
                      /\ \E r \in Requests[s] :
                            AskedBy(job'[s].frame, r) /\ job'[s].attempts = Tries(r)
                      /\ job'[s].attempt < job'[s].attempts
                      /\ pc'[s] = "await" => job'[s].frame.req
    BY DEF JobsAsked, AskedBy
  <2>1. CallKept(s)
    BY DEF Calm
  <2>2. /\ Sending(s) /\ job'[s].frame = job[s].frame /\ job'[s].attempts = job[s].attempts
        /\ job'[s].attempt < job[s].attempts /\ (pc'[s] = "await" => job[s].frame.req)
    BY <2>1 DEF CallKept
  <2>3. /\ job[s].frame.msg = <<s, calls[s]>>
        /\ \E r \in Requests[s] : AskedBy(job[s].frame, r) /\ job[s].attempts = Tries(r)
    BY <2>2 DEF JobsAsked
  <2> QED
    BY <2>2, <2>3
<1>2. ASSUME NEW s \in Node, MoreCopies(s)', ~Unsent(s)'
      PROVE  Remaining(s, lapse)' <= lapse[job'[s].frame.len][0]
  <2>1. CallKept(s) /\ CallTimed(s, lapse)
    BY DEF Calm
  <2>2. Sending(s)'
    BY <1>2 DEF MoreCopies
  <2>3. job'[s].frame = job[s].frame
    BY <2>1, <2>2 DEF CallKept
  <2>4. /\ MoreCopies(s) /\ Remaining(s, lapse)' \in Nat
        /\ IF Unsent(s) THEN Remaining(s, lapse)' <= lapse[job[s].frame.len][0]
                        ELSE Remaining(s, lapse)' <= Remaining(s, lapse)
    BY <1>2, <2>1 DEF CallTimed
  <2>5. Remaining(s, lapse) \in Nat /\ lapse[job[s].frame.len][0] \in Nat
    BY <2>4, RemainingNat
  <2>6. ~Unsent(s) => Remaining(s, lapse) <= lapse[job[s].frame.len][0]
    BY <2>4 DEF TimeLeft
  <2>7. Remaining(s, lapse)' <= lapse[job[s].frame.len][0]
    BY <2>4, <2>5, <2>6
  <2> QED
    BY <2>3, <2>7
<1>3. ASSUME NEW n \in Node PROVE UnreadTime(n)' <= unread[n]
  <2>1. UnreadTime(n)' \in Nat /\ UnreadTime(n)' <= UnreadTime(n)
    BY DEF Calm
  <2>2. UnreadTime(n) <= unread[n]
    BY DEF TimeLeft
  <2>3. UnreadTime(n) \in Nat /\ unread[n] \in Nat
    BY UnreadNat DEF CopiesInTime
  <2> QED
    BY <2>1, <2>2, <2>3
<1> QED
  BY <1>1, <1>2, <1>3 DEF TimeLeft

(* A copy of the frame that s has just transmitted is in the buffer of n. *)
Lands(n) ==
    \E s \in Node \ {n} : pc[s] = "air" /\ ~Unsent(s)' /\ inbox'[n] = job[s].frame

(* The table of n forgets nothing before its time. *)
KeepsHolding(n) ==
    \A f \in DataFrame : \A while \in Nat : Holds(seen[n], f, while) => Holds(seen'[n], f, while)

(* Any step in which nothing is taken in, no call begins and no time passes. *)
LEMMA CalmStep ==
    ASSUME TypeOK, NEW lapse, NEW unread, CopyInv(lapse, unread), CopiesInTime(lapse, unread),
           Calm(lapse), UNCHANGED <<calls, accepted>>, IdsHeld',
           \A n \in Node : KeepsHolding(n),
           \A n \in Node : Heard(n)' => inbox'[n] = inbox[n] \/ Lands(n)
    PROVE  CopyInv(lapse, unread)'
<1> USE DEF CopyInv
<1>1. JobsAsked' /\ TimeLeft(lapse, unread)'
  BY CalmCalls
<1>2. \A s \in Node : CallKept(s) /\ CallTimed(s, lapse)
  BY DEF Calm
<1>3. \A n \in Node : \A m : Took(n, m)' = Took(n, m)
  BY DEF Took, Elements
<1>4. ASSUME NEW n \in Node, Heard(n)', inbox'[n] # inbox[n]
      PROVE  \E s \in Node \ {n} :
                /\ pc[s] = "air" /\ Sending(s) /\ ~Unsent(s)' /\ inbox'[n] = job[s].frame
                /\ job[s].frame.msg = <<s, calls[s]>>
                /\ \E r \in Requests[s] : AskedBy(job[s].frame, r)
                /\ Took(n, job[s].frame.msg) => job[s].frame.req /\ MoreCopies(s)
  <2>1. PICK s \in Node \ {n} : pc[s] = "air" /\ ~Unsent(s)' /\ inbox'[n] = job[s].frame
    BY <1>4 DEF Lands
  <2>2. Sending(s)
    BY <2>1 DEF Sending
  <2>3. /\ job[s].frame.msg = <<s, calls[s]>>
        /\ \E r \in Requests[s] : AskedBy(job[s].frame, r)
    BY <2>2 DEF JobsAsked
  <2>4. ~job[s].frame.req => Unsent(s)
    BY <2>1, <2>2, CallFacts DEF Unsent
  <2>5. Took(n, job[s].frame.msg) => ~Unsent(s)
    BY <2>2 DEF SentAgain
  <2>6. job[s].frame.req => MoreCopies(s)
    BY <2>1, <2>2 DEF MoreCopies
  <2> QED
    BY <2>1, <2>2, <2>3, <2>4, <2>5, <2>6
<1>5. BuffersAsked'
  <2> SUFFICES ASSUME NEW n \in Node, Heard(n)'
               PROVE  LET f == inbox'[n] IN
                      /\ f.msg[1] # n /\ f.msg[2] <= calls[f.msg[1]]
                      /\ \E r \in Requests[f.msg[1]] : AskedBy(f, r)
                      /\ \A x \in Elements(accepted[n]) : x[1] = f.msg[1] => x[2] <= f.msg[2]
    BY <1>1 DEF BuffersAsked, AskedBy
  <2>1. CASE inbox'[n] = inbox[n]
    BY <2>1 DEF BuffersAsked, Heard
  <2>2. CASE inbox'[n] # inbox[n]
    <3>1. PICK s \in Node \ {n} :
              /\ inbox'[n] = job[s].frame /\ job[s].frame.msg = <<s, calls[s]>>
              /\ \E r \in Requests[s] : AskedBy(job[s].frame, r)
      BY <1>4, <2>2
    <3>2. calls[s] \in Nat
      BY DEF TypeOK, HistoryOK
    <3>3. \A x \in Elements(accepted[n]) : x[1] = s => x[2] <= calls[s]
      BY DEF AcceptedCalled
    <3> QED
      BY <3>1, <3>2, <3>3
  <2> QED
    BY <2>1, <2>2
<1>6. CopiesAgree'
  <2> SUFFICES ASSUME NEW n \in Node, NEW t \in Node, Sending(t)', Heard(n)',
                      inbox'[n].msg = job'[t].frame.msg
               PROVE  inbox'[n] = job'[t].frame /\ ~Unsent(t)'
    BY DEF CopiesAgree
  <2>1. /\ Sending(t) /\ job'[t].frame = job[t].frame /\ (Unsent(t)' => Unsent(t))
    BY <1>2 DEF CallKept
  <2>2. CASE inbox'[n] = inbox[n]
    BY <2>1, <2>2 DEF CopiesAgree, Heard
  <2>3. CASE inbox'[n] # inbox[n]
    <3>1. PICK s \in Node \ {n} :
              /\ inbox'[n] = job[s].frame /\ job[s].frame.msg = <<s, calls[s]>> /\ ~Unsent(s)'
      BY <1>4, <2>3
    <3>2. job[t].frame.msg = <<t, calls[t]>>
      BY <2>1 DEF JobsAsked
    <3>3. s = t
      BY <2>1, <3>1, <3>2
    <3> QED
      BY <2>1, <3>1, <3>3
  <2> QED
    BY <2>2, <2>3
<1>7. SentAgain' /\ AcceptedCalled'
  BY <1>2, <1>3 DEF SentAgain, AcceptedCalled, CallKept, IdsEver
<1>8. HeardAgain'
  <2> SUFFICES ASSUME NEW n \in Node, Heard(n)', Took(n, inbox'[n].msg)
               PROVE  inbox'[n].req
    BY <1>3 DEF HeardAgain
  <2> QED
    BY <1>4 DEF HeardAgain, Heard
<1>9. SendersRemembered(lapse, unread)'
  <2> SUFFICES ASSUME NEW n \in Node, NEW s \in Node, MoreCopies(s)', Took(n, job'[s].frame.msg)
               PROVE  Holds(seen'[n], job'[s].frame, Remaining(s, lapse)' + unread[n])
    BY <1>3 DEF SendersRemembered, Remembers
  <2>1. Sending(s)' /\ Sending(s) /\ job'[s].frame = job[s].frame /\ (Unsent(s)' => Unsent(s))
    BY <1>2 DEF MoreCopies, CallKept
  <2>2. MoreCopies(s) /\ Remaining(s, lapse)' \in Nat
    BY <1>2 DEF CallTimed
  <2>3. ~Unsent(s)
    BY <2>1 DEF SentAgain
  <2>4. Remaining(s, lapse)' <= Remaining(s, lapse)
    BY <1>2, <2>1, <2>3 DEF CallTimed
  <2>5. Remaining(s, lapse) \in Nat /\ unread[n] \in Nat
    BY <2>2, RemainingNat DEF CopiesInTime
  <2>6. Holds(seen[n], job[s].frame, Remaining(s, lapse) + unread[n])
    BY <2>1, <2>2 DEF SendersRemembered, Remembers
  <2>7. job[s].frame \in DataFrame /\ seen[n] \in Table
    BY <2>1, CallFacts DEF TypeOK, LinkOK, Table
  <2>8. /\ Remaining(s, lapse)' + unread[n] \in Nat
        /\ Remaining(s, lapse) + unread[n] \in Nat
        /\ Remaining(s, lapse)' + unread[n] <= Remaining(s, lapse) + unread[n]
    BY <2>2, <2>4, <2>5
  <2>9. Holds(seen[n], job[s].frame, Remaining(s, lapse)' + unread[n])
    BY <2>6, <2>7, <2>8, HoldsLess
  <2> QED
    BY <2>1, <2>7, <2>8, <2>9 DEF KeepsHolding
<1>10. HeardRemembered'
  <2> SUFFICES ASSUME NEW n \in Node, Heard(n)', Took(n, inbox'[n].msg)
               PROVE  Holds(seen'[n], inbox'[n], UnreadTime(n)')
    BY <1>3 DEF HeardRemembered, Remembers
  <2>1. /\ UnreadTime(n)' \in Nat /\ UnreadTime(n)' <= UnreadTime(n) /\ UnreadTime(n) \in Nat
        /\ unread[n] \in Nat /\ UnreadTime(n) <= unread[n]
        /\ seen[n] \in Table /\ inbox'[n] \in DataFrame
    BY UnreadNat DEF Calm, CopiesInTime, TimeLeft, TypeOK, LinkOK, Table, Heard
  <2>2. CASE inbox'[n] = inbox[n]
    <3>1. Holds(seen[n], inbox[n], UnreadTime(n))
      BY <2>2 DEF HeardRemembered, Remembers, Heard
    <3>2. Holds(seen[n], inbox[n], UnreadTime(n)')
      BY <2>1, <2>2, <3>1, HoldsLess
    <3> QED
      BY <2>1, <2>2, <3>2 DEF KeepsHolding
  <2>3. CASE inbox'[n] # inbox[n]
    <3>1. PICK s \in Node \ {n} : inbox'[n] = job[s].frame /\ MoreCopies(s)
      BY <1>4, <2>3
    <3>2. Holds(seen[n], job[s].frame, Remaining(s, lapse) + unread[n])
      BY <3>1 DEF SendersRemembered, Remembers
    <3>3. Remaining(s, lapse) \in Nat
      BY <3>1, RemainingNat
    <3>4. UnreadTime(n)' <= Remaining(s, lapse) + unread[n] /\ Remaining(s, lapse) + unread[n] \in Nat
      BY <2>1, <3>3
    <3>5. Holds(seen[n], job[s].frame, UnreadTime(n)')
      BY <2>1, <3>1, <3>2, <3>4, HoldsLess
    <3> QED
      BY <2>1, <3>1, <3>5 DEF KeepsHolding
  <2> QED
    BY <2>2, <2>3
<1> QED
  BY <1>1, <1>5, <1>6, <1>7, <1>8, <1>9, <1>10

(* Node n takes in the frame it holds.  The one entry this can push out of *)
(* its table is of no use any more: nobody but the sender of the frame     *)
(* asks n for ACKs, and that sender has gone on to a newer message.        *)
LEMMA AcceptStep ==
    ASSUME TypeOK, NEW lapse, NEW unread, CopyInv(lapse, unread), TimelyLink(lapse, unread),
           Calm(lapse), UNCHANGED <<calls, localId>>,
           NEW c \in Node, Heard(c), IsForUs(c, inbox[c]), ~DuplicateOf(c, inbox[c]),
           accepted' = [accepted EXCEPT ![c] = Append(@, inbox[c].msg)],
           IF NeedsAck(c, inbox[c])
           THEN seen' = [seen EXCEPT ![c] =
                            Remembered(SweptTable(c, inbox[c]), seenNext[c], Key(inbox[c]))]
           ELSE UNCHANGED seen,
           \A n \in Node : Heard(n)' => n # c /\ inbox'[n] = inbox[n]
    PROVE  CopyInv(lapse, unread)'
<1> USE DEF CopyInv
<1> DEFINE f == inbox[c]
<1>0. CopiesInTime(lapse, unread) /\ OneAsker
  BY DEF TimelyLink
<1>1. JobsAsked' /\ TimeLeft(lapse, unread)'
  BY <1>0, CalmCalls
<1>2. \A s \in Node : CallKept(s) /\ CallTimed(s, lapse)
  BY DEF Calm
<1>3. /\ accepted \in [Node -> Seq(Msg)] /\ calls \in [Node -> Nat]
      /\ f \in DataFrame /\ f.msg \in Msg
  BY FrameFacts DEF TypeOK, HistoryOK, Heard
<1>4. /\ \A n \in Node \ {c} : accepted'[n] = accepted[n]
      /\ \A n \in Node \ {c} : seen'[n] = seen[n]
      /\ Elements(accepted'[c]) = Elements(accepted[c]) \cup {f.msg}
  <2>1. accepted'[c] = Append(accepted[c], f.msg)
    BY <1>3
  <2>2. Elements(Append(accepted[c], f.msg)) = Elements(accepted[c]) \cup {f.msg}
    BY <1>3, ElementsAppend
  <2>3. \A n \in Node \ {c} : accepted'[n] = accepted[n]
    BY <1>3
  <2>4. \A n \in Node \ {c} : seen'[n] = seen[n]
    BY DEF TypeOK, LinkOK
  <2> QED
    BY <2>1, <2>2, <2>3, <2>4
<1>5. /\ f.msg[1] \in Node \ {c} /\ f.msg[2] \in Nat /\ f.msg[2] <= calls[f.msg[1]]
      /\ \E r \in Requests[f.msg[1]] : AskedBy(f, r)
      /\ \A x \in Elements(accepted[c]) : x[1] = f.msg[1] => x[2] <= f.msg[2]
  BY <1>3 DEF BuffersAsked, Msg
<1>6. \A n \in Node : \A m : m \in Elements(accepted'[n]) <=> Took(n, m) \/ (n = c /\ m = f.msg)
  BY <1>4 DEF Took
<1>7. ASSUME NEW s \in Node, Sending(s), job[s].frame.msg = f.msg
      PROVE  /\ job[s].frame = f /\ ~Unsent(s) /\ s # c
             /\ f.dst \in IdsEver(c) \cup {Broadcast}
             /\ f.req => NeedsAck(c, f)
  <2>1. job[s].frame = f /\ ~Unsent(s)
    BY <1>7 DEF CopiesAgree
  <2>2. job[s].frame.msg = <<s, calls[s]>>
    BY <1>7 DEF JobsAsked
  <2>3. f.dst \in IdsEver(c) \cup {Broadcast}
    BY DEF IsForUs, IdsHeld
  <2>4. f.req => f.dst # Broadcast
    BY <1>0, <1>7, <2>1, CallFacts
  <2> QED
    BY <1>5, <2>1, <2>2, <2>3, <2>4, <1>7 DEF IsForUs, NeedsAck
<1>8. BuffersAsked' /\ AcceptedCalled'
  <2>1. BuffersAsked'
    BY <1>4 DEF BuffersAsked, AskedBy, Heard
  <2>2. AcceptedCalled'
    BY <1>4, <1>5 DEF AcceptedCalled
  <2> QED
    BY <2>1, <2>2
<1>9. CopiesAgree'
  BY <1>2 DEF CopiesAgree, CallKept, Heard
<1>10. SentAgain'
  <2> SUFFICES ASSUME NEW n \in Node, NEW s \in Node, Sending(s)',
                      job'[s].frame.msg \in Elements(accepted'[n])
               PROVE  /\ ~Unsent(s)' /\ n # s
                      /\ job'[s].frame.dst \in IdsEver(n) \cup {Broadcast}
    BY DEF SentAgain, IdsEver, Took
  <2>1. Sending(s) /\ job'[s].frame = job[s].frame /\ (Unsent(s)' => Unsent(s))
    BY <1>2 DEF CallKept
  <2>2. CASE Took(n, job[s].frame.msg)
    BY <2>1, <2>2 DEF SentAgain
  <2>3. CASE n = c /\ job[s].frame.msg = f.msg
    BY <1>7, <2>1, <2>3
  <2> QED
    BY <1>6, <2>1, <2>2, <2>3
<1>11. HeardAgain'
  BY <1>6 DEF HeardAgain, Heard, Took
<1>12. IdsHeld'
  BY DEF IdsHeld, IdsEver
(* Of a sender that n serves, n cannot have the frame it takes in now. *)
<1>13. ASSUME NEW s \in Node, MoreCopies(s), Took(c, job[s].frame.msg), NeedsAck(c, f)
       PROVE  FALSE
  <2> DEFINE g == job[s].frame
  <2>1. Sending(s) /\ g.req
    BY <1>13 DEF MoreCopies
  <2>2. g.dst \in IdsEver(c) /\ s # c
    BY <1>0, <1>13, <2>1, CallFacts DEF SentAgain
  <2>3. Asks(s, c)
    BY <1>0, <2>1, <2>2, CallFacts
  <2>4. Asks(f.msg[1], c)
    BY <1>5, <1>13 DEF Asks, AskedBy, NeedsAck, IdsHeld
  <2>5. s = f.msg[1]
    BY <1>0, <1>5, <2>3, <2>4 DEF OneAsker
  <2>6. g.msg = <<s, calls[s]>>
    BY <2>1 DEF JobsAsked
  <2>7. calls[s] <= f.msg[2]
    BY <1>5, <1>13, <2>5, <2>6 DEF Took
  <2>8. f.msg[2] = calls[s]
    BY <1>3, <1>5, <2>5, <2>7
  <2>9. f.msg = g.msg
    BY <1>3, <2>5, <2>6, <2>8 DEF Msg
  <2>10. Holds(seen[c], f, UnreadTime(c))
    BY <1>13, <2>9 DEF HeardRemembered, Remembers
  <2>11. UnreadTime(c) \in Nat /\ seen[c] \in Table
    BY <1>0, UnreadNat DEF TypeOK, LinkOK, Table
  <2>12. IsDuplicate(seen[c], Key(f), EffectiveDupWindow(f.len))
    BY <1>3, <2>10, <2>11, HeldIsDuplicate
  <2> QED
    BY <1>13, <2>12 DEF DuplicateOf
<1>14. SendersRemembered(lapse, unread)'
  <2> SUFFICES ASSUME NEW n \in Node, NEW s \in Node, MoreCopies(s)',
                      job'[s].frame.msg \in Elements(accepted'[n])
               PROVE  Holds(seen'[n], job'[s].frame, Remaining(s, lapse)' + unread[n])
    BY DEF SendersRemembered, Remembers, Took
  <2>1. Sending(s)' /\ Sending(s) /\ job'[s].frame = job[s].frame /\ (Unsent(s)' => Unsent(s))
    BY <1>2 DEF MoreCopies, CallKept
  <2>2. MoreCopies(s) /\ Remaining(s, lapse)' \in Nat /\ job[s].frame.req
    BY <1>2 DEF CallTimed, MoreCopies
  <2>3. unread[n] \in Nat /\ Remaining(s, lapse) \in Nat /\ lapse[job[s].frame.len][0] \in Nat
    BY <1>0, <2>2, RemainingNat DEF CopiesInTime
  <2>4. job[s].frame \in DataFrame /\ seen[n] \in Table
    BY <1>0, <2>1, CallFacts DEF TypeOK, LinkOK, Table
  <2>5. CASE Took(n, job[s].frame.msg)
    <3>1. ~Unsent(s)
      BY <2>1, <2>5 DEF SentAgain
    <3>2. Remaining(s, lapse)' <= Remaining(s, lapse)
      BY <1>2, <2>1, <3>1 DEF CallTimed
    <3>3. Holds(seen[n], job[s].frame, Remaining(s, lapse) + unread[n])
      BY <2>2, <2>5 DEF SendersRemembered, Remembers
    <3>4. /\ Remaining(s, lapse)' + unread[n] \in Nat
          /\ Remaining(s, lapse) + unread[n] \in Nat
          /\ Remaining(s, lapse)' + unread[n] <= Remaining(s, lapse) + unread[n]
      BY <2>2, <2>3, <3>2
    <3>5. Holds(seen[n], job[s].frame, Remaining(s, lapse)' + unread[n])
      BY <2>4, <3>3, <3>4, HoldsLess
    <3>6. seen'[n] = seen[n]
      <4>1. CASE n = c
        BY <1>13, <2>2, <2>5, <4>1
      <4> QED
        BY <1>4, <4>1
    <3> QED
      BY <2>1, <3>5, <3>6
  <2>6. CASE n = c /\ job[s].frame.msg = f.msg
    <3>1. job[s].frame = f /\ ~Unsent(s) /\ NeedsAck(c, f) /\ f.dst \in IdsEver(c) /\ s # c
      <4>1. f.req => f.dst # Broadcast
        BY <1>0, <1>7, <2>1, <2>6, CallFacts
      <4> QED
        BY <1>7, <2>1, <2>2, <2>6, <4>1
    <3>2. lapse[f.len][0] + unread[c] <= EffectiveDupWindow(f.len)
      BY <1>0, <2>1, <2>2, <3>1, CallFacts
    <3>3. Remaining(s, lapse)' <= lapse[f.len][0]
      <4>1. Remaining(s, lapse) <= lapse[f.len][0]
        BY <2>2, <3>1 DEF TimeLeft
      <4>2. Remaining(s, lapse)' <= Remaining(s, lapse)
        BY <1>2, <2>1, <3>1 DEF CallTimed
      <4> QED
        BY <2>2, <2>3, <3>1, <4>1, <4>2
    <3>4. EffectiveDupWindow(f.len) \in Nat
      BY <1>3, FrameFacts, TimingTypes
    <3>5. /\ Remaining(s, lapse)' + unread[c] \in Nat
          /\ Remaining(s, lapse)' + unread[c] <= EffectiveDupWindow(f.len)
      BY <2>2, <2>3, <2>6, <3>1, <3>2, <3>3, <3>4
    <3>6. seenNext[c] \in Slots
      BY DEF TypeOK, LinkOK
    <3>7. seen'[c] = Remembered(SweptTable(c, f), seenNext[c], Key(f))
      BY <3>1 DEF TypeOK, LinkOK
    <3>8. Holds(seen'[c], f, Remaining(s, lapse)' + unread[c])
      BY <1>3, <3>5, <3>6, <3>7, RememberedHolds
    <3> QED
      BY <2>1, <2>6, <3>1, <3>8
  <2> QED
    BY <1>6, <2>1, <2>5, <2>6
<1>15. HeardRemembered'
  <2> SUFFICES ASSUME NEW n \in Node, Heard(n)',
                      inbox'[n].msg \in Elements(accepted'[n])
               PROVE  Holds(seen'[n], inbox'[n], UnreadTime(n)')
    BY DEF HeardRemembered, Remembers, Took
  <2>1. n # c /\ inbox'[n] = inbox[n] /\ seen'[n] = seen[n] /\ Heard(n) /\ Took(n, inbox[n].msg)
    BY <1>4, <1>6 DEF Heard
  <2>2. /\ UnreadTime(n)' \in Nat /\ UnreadTime(n)' <= UnreadTime(n) /\ UnreadTime(n) \in Nat
        /\ seen[n] \in Table /\ inbox[n] \in DataFrame
    BY <1>0, <2>1, UnreadNat DEF Calm, TypeOK, LinkOK, Table, Heard
  <2>3. Holds(seen[n], inbox[n], UnreadTime(n))
    BY <2>1 DEF HeardRemembered, Remembers
  <2>4. Holds(seen[n], inbox[n], UnreadTime(n)')
    BY <2>2, <2>3, HoldsLess
  <2> QED
    BY <2>1, <2>4
<1> QED
  BY <1>1, <1>8, <1>9, <1>10, <1>11, <1>12, <1>14, <1>15

(* A call of sendPacket() begins: nobody has its message yet, and nothing  *)
(* is left unread meanwhile.                                               *)
LEMMA SendStep ==
    ASSUME TypeOK, NEW lapse, NEW unread, CopyInv(lapse, unread), TimelyLink(lapse, unread),
           NEW c \in Node, NEW r \in Requests[c], SendPacket(c, r)
    PROVE  CopyInv(lapse, unread)'
<1> USE DEF CopyInv
<1> DEFINE g == job'[c].frame
           air == AirTime[r.len]
           tries == Tries(r)
<1>0. CopiesInTime(lapse, unread) /\ inbox[c] = NoFrame
  BY DEF TimelyLink, SendPacket
<1>1. /\ UNCHANGED <<localId, seen, inbox, accepted>> /\ pc[c] = "idle"
      /\ calls' = [calls EXCEPT ![c] = @ + 1]
      /\ calls \in [Node -> Nat] /\ accepted \in [Node -> Seq(Msg)]
  BY DEF SendPacket, TypeOK, HistoryOK
<1>2. /\ \A o \in Node \ {c} : job'[o] = job[o] /\ calls'[o] = calls[o]
      /\ calls'[c] = calls[c] + 1
      /\ job'[c].attempt = 0 /\ job'[c].attempts = tries
      /\ g.msg = <<c, calls[c] + 1>> /\ AskedBy(g, r)
  BY DEF SendPacket, TypeOK, ControlOK, HistoryOK, AskedBy, Tries, WantsAck
<1>3. /\ r.len \in Payload /\ r.maxRetries \in Nat
  BY LinkAssumption
<1>4. air \in Nat /\ SlotMs(r.len) \in Nat /\ PreSendDelays(SlotMs(r.len)) \subseteq Nat
  BY <1>3, TimingTypes
<1>5. tries \in Nat \ {0}
  BY <1>3 DEF Tries
<1>6. /\ \A o \in Node \ {c} : pc'[o] = pc[o] /\ timer'[o] = timer[o]
      /\ pc'[c] = "delay" \/ (pc'[c] = "air" /\ timer'[c] = air)
  BY <1>4 DEF SendPacket, BeginAttempt, Blocked, TypeOK, ControlOK
<1>7. \A s \in Node \ {c} :
          /\ Sending(s)' <=> Sending(s)
          /\ CallTimed(s, lapse) /\ (Unsent(s)' <=> Unsent(s))
          /\ MoreCopies(s)' <=> MoreCopies(s)
          /\ Remaining(s, lapse)' = Remaining(s, lapse)
          /\ UnreadTime(s)' = UnreadTime(s)
  <2> TAKE s \in Node \ {c}
  <2>1. pc'[s] = pc[s] /\ job'[s] = job[s] /\ timer'[s] = timer[s]
    BY <1>2, <1>6
  <2>2. CallTimed(s, lapse)
    BY <1>0, <2>1, SameCallIsCalm
  <2> QED
    BY <2>1, <2>2 DEF Sending, Unsent, MoreCopies, Remaining, UnreadTime
<1>8. Unsent(c)' /\ ~Sending(c)
  BY <1>1, <1>2, <1>6 DEF Unsent, Sending
<1>9. /\ \A n \in Node : g.msg \notin Elements(accepted[n])
      /\ \A n \in Node : Heard(n) => inbox[n].msg # g.msg /\ inbox[n].msg[1] \in Node
      /\ \A n \in Node : accepted[n] \in Seq(Msg)
  <2>1. \A n \in Node : accepted[n] \in Seq(Msg) /\ Elements(accepted[n]) \subseteq Msg
    BY <1>1, ElementsType
  <2>2. ASSUME NEW n \in Node, g.msg \in Elements(accepted[n]) PROVE FALSE
    BY <1>1, <1>2, <2>2 DEF AcceptedCalled
  <2>3. ASSUME NEW n \in Node, Heard(n)
        PROVE  inbox[n].msg # g.msg /\ inbox[n].msg[1] \in Node
    <3>1. inbox[n].msg \in Msg
      BY <2>3, FrameFacts DEF Heard
    <3> QED
      BY <1>1, <1>2, <2>3, <3>1 DEF BuffersAsked, Msg
  <2> QED
    BY <2>1, <2>2, <2>3
<1>10. JobsAsked'
  <2> SUFFICES ASSUME NEW s \in Node, Sending(s)'
               PROVE  /\ job'[s].frame.msg = <<s, calls'[s]>>
                      /\ \E q \in Requests[s] :
                            AskedBy(job'[s].frame, q) /\ job'[s].attempts = Tries(q)
                      /\ job'[s].attempt < job'[s].attempts
                      /\ pc'[s] = "await" => job'[s].frame.req
    BY DEF JobsAsked, AskedBy
  <2>1. CASE s = c
    BY <1>2, <1>5, <1>6, <2>1
  <2>2. CASE s # c
    <3>1. Sending(s)
      BY <1>7, <2>2
    <3> QED
      BY <1>2, <1>6, <2>2, <3>1 DEF JobsAsked
  <2> QED
    BY <2>1, <2>2
<1>11. BuffersAsked' /\ AcceptedCalled'
  <2>1. \A o \in Node : calls[o] <= calls'[o] /\ calls'[o] \in Nat /\ calls[o] \in Nat
    BY <1>1, <1>2
  <2>2. ASSUME NEW n \in Node, NEW x \in Elements(accepted[n]) PROVE x[2] <= calls'[x[1]]
    <3>1. x \in Msg
      BY <1>9, <2>2, ElementsType
    <3>2. x[2] <= calls[x[1]]
      BY <2>2 DEF AcceptedCalled
    <3> QED
      BY <2>1, <3>1, <3>2 DEF Msg
  <2>3. ASSUME NEW n \in Node, Heard(n) PROVE inbox[n].msg[2] <= calls'[inbox[n].msg[1]]
    <3>1. inbox[n].msg \in Msg /\ inbox[n].msg[2] <= calls[inbox[n].msg[1]]
      BY <2>3, FrameFacts DEF Heard, BuffersAsked
    <3> QED
      BY <2>1, <3>1 DEF Msg
  <2> QED
    BY <1>1, <2>2, <2>3 DEF BuffersAsked, AcceptedCalled, Heard, AskedBy
<1>12. CopiesAgree'
  <2> SUFFICES ASSUME NEW n \in Node, NEW s \in Node, Sending(s)', Heard(n),
                      inbox[n].msg = job'[s].frame.msg
               PROVE  inbox[n] = job'[s].frame /\ ~Unsent(s)'
    BY <1>1 DEF CopiesAgree, Heard
  <2>1. s # c
    BY <1>9
  <2> QED
    BY <1>2, <1>7, <2>1 DEF CopiesAgree
<1>13. SentAgain'
  <2> SUFFICES ASSUME NEW n \in Node, NEW s \in Node, Sending(s)', Took(n, job'[s].frame.msg)
               PROVE  /\ ~Unsent(s)' /\ n # s
                      /\ job'[s].frame.dst \in IdsEver(n) \cup {Broadcast}
    BY <1>1 DEF SentAgain, Took, IdsEver
  <2>1. s # c
    BY <1>9 DEF Took
  <2> QED
    BY <1>2, <1>7, <2>1 DEF SentAgain
<1>14. HeardAgain' /\ IdsHeld'
  BY <1>1 DEF HeardAgain, IdsHeld, Heard, Took, IdsEver
<1>15. TimeLeft(lapse, unread)'
  <2>1. ASSUME NEW s \in Node, MoreCopies(s)', ~Unsent(s)'
        PROVE  Remaining(s, lapse)' <= lapse[job'[s].frame.len][0]
    BY <1>2, <1>7, <1>8, <2>1 DEF TimeLeft
  <2>2. UnreadTime(c)' <= unread[c]
    <3>1. UnreadTime(c)' = tries * air
      <4>1. g.len = r.len /\ tries - 0 = tries
        BY <1>2, <1>5 DEF AskedBy
      <4>2. air + (tries - 1) * air = tries * air
        <5>1. air \in Nat /\ tries \in Nat
          BY <1>4, <1>5
        <5> HIDE DEF air, tries
        <5> QED
          BY <5>1
      <4> QED
        BY <1>2, <1>6, <4>1, <4>2 DEF UnreadTime
    <3> QED
      BY <1>0, <3>1 DEF CopiesInTime
  <2> QED
    BY <1>7, <2>1, <2>2 DEF TimeLeft
<1>16. SendersRemembered(lapse, unread)'
  <2> SUFFICES ASSUME NEW n \in Node, NEW s \in Node, MoreCopies(s)', Took(n, job'[s].frame.msg)
               PROVE  Holds(seen[n], job'[s].frame, Remaining(s, lapse)' + unread[n])
    BY <1>1 DEF SendersRemembered, Remembers, Took
  <2>1. s # c
    BY <1>9 DEF Took
  <2> QED
    BY <1>2, <1>7, <2>1 DEF SendersRemembered, Remembers
<1>17. HeardRemembered'
  <2> SUFFICES ASSUME NEW n \in Node, Heard(n), Took(n, inbox[n].msg)
               PROVE  Holds(seen[n], inbox[n], UnreadTime(n)')
    BY <1>1 DEF HeardRemembered, Remembers, Took, Heard
  <2>1. n # c
    BY <1>0, MarkersDistinct DEF Heard, Frame
  <2> QED
    BY <1>7, <2>1 DEF HeardRemembered, Remembers
<1> QED
  BY <1>10, <1>11, <1>12, <1>13, <1>14, <1>15, <1>16, <1>17

(* A tick: copies come nearer as fast as entries grow old. *)
LEMMA TickStep ==
    ASSUME TypeOK, NEW lapse, NEW unread, CopyInv(lapse, unread), TimelyLink(lapse, unread), Tick
    PROVE  CopyInv(lapse, unread)'
<1> USE DEF CopyInv
<1>0. CopiesInTime(lapse, unread) /\ PromptReaders
  BY DEF TimelyLink
<1>1. /\ UNCHANGED <<localId, pc, job, inbox, calls, accepted>>
      /\ \A n \in Node : seen[n] \in Table /\ seen'[n] = Aged(seen[n], OldestAge)
      /\ \A n \in Node : pc[n] # "idle" => timer[n] \in Nat \ {0} /\ timer'[n] = timer[n] - 1
      /\ \A n \in Node : Heard(n) => pc[n] = "air"
  <2>1. \A n \in Node : Heard(n) => pc[n] = "air"
    BY <1>0, MarkersDistinct DEF Tick, Heard, Frame
  <2>2. UNCHANGED <<localId, pc, job, inbox, calls, accepted>>
    BY DEF Tick, history
  <2> QED
    BY <2>1, <2>2 DEF Tick, TypeOK, ControlOK, LinkOK, Table
<1>2. /\ \A s \in Node : Sending(s)' <=> Sending(s)
      /\ \A s \in Node : Unsent(s)' <=> Unsent(s)
      /\ \A s \in Node : MoreCopies(s)' <=> MoreCopies(s)
  BY <1>1 DEF Sending, Unsent, MoreCopies
<1>3. JobsAsked' /\ BuffersAsked' /\ AcceptedCalled' /\ CopiesAgree'
      /\ SentAgain' /\ HeardAgain' /\ IdsHeld'
  BY <1>1, <1>2 DEF JobsAsked, BuffersAsked, AcceptedCalled, CopiesAgree, SentAgain, HeardAgain,
     IdsHeld, Heard, Took, AskedBy, IdsEver
<1>4. ASSUME NEW s \in Node, MoreCopies(s)
      PROVE  Remaining(s, lapse) \in Nat \ {0} /\ Remaining(s, lapse)' = Remaining(s, lapse) - 1
  <2> DEFINE rest == lapse[job[s].frame.len][job[s].attempt]
             air == AirTime[job[s].frame.len]
  <2>1. Sending(s) /\ job[s].frame.req
        /\ (pc[s] = "await" => job[s].attempt + 1 < job[s].attempts)
    BY <1>4 DEF MoreCopies
  <2>2. /\ air \in Nat /\ EffectiveAckTimeout \in Nat
        /\ pc[s] = "await" => EffectiveAckTimeout <= rest
    BY <1>0, <2>1, CallFacts
  <2>3. rest \in Nat
    BY <1>0, <1>4, RemainingNat
  <2>4. timer[s] \in Nat \ {0} /\ timer'[s] = timer[s] - 1
    BY <1>1, <2>1 DEF Sending
  <2> HIDE DEF rest, air
  <2> QED
    BY <1>1, <2>2, <2>3, <2>4 DEF Remaining, rest, air
<1>5. ASSUME NEW n \in Node
      PROVE  /\ UnreadTime(n)' <= UnreadTime(n) /\ UnreadTime(n) \in Nat
             /\ pc[n] = "air" => UnreadTime(n) # 0 /\ UnreadTime(n)' = UnreadTime(n) - 1
  <2>1. CASE pc[n] # "air"
    <3>1. UnreadTime(n)' = UnreadTime(n)
      BY <1>1, <2>1 DEF UnreadTime
    <3> QED
      BY <1>0, <2>1, <3>1, UnreadNat
  <2>2. CASE pc[n] = "air"
    <3> DEFINE air == AirTime[job[n].frame.len]
               more == job[n].attempts - job[n].attempt
    <3>1. air \in Nat /\ more \in Nat /\ more - 1 \in Nat
      BY <1>0, <2>2, CallFacts DEF Sending
    <3>2. timer[n] \in Nat \ {0} /\ timer'[n] = timer[n] - 1
      BY <1>1, <2>2
    <3>3. /\ UnreadTime(n) = timer[n] + (more - 1) * air
          /\ UnreadTime(n)' = timer'[n] + (more - 1) * air
      BY <1>1, <2>2 DEF UnreadTime
    <3> HIDE DEF air, more
    <3>4. \A i, j \in Nat : i * j \in Nat
      OBVIOUS
    <3>5. (more - 1) * air \in Nat
      BY <3>1, <3>4
    <3> QED
      BY <3>2, <3>3, <3>5
  <2> QED
    BY <2>1, <2>2
<1>6. TimeLeft(lapse, unread)'
  <2>1. ASSUME NEW s \in Node, MoreCopies(s), ~Unsent(s)
        PROVE  Remaining(s, lapse)' <= lapse[job[s].frame.len][0]
    <3>1. lapse[job[s].frame.len][0] \in Nat
      BY <1>0, <2>1, RemainingNat
    <3>2. Remaining(s, lapse) <= lapse[job[s].frame.len][0]
      BY <2>1 DEF TimeLeft
    <3> QED
      BY <1>4, <2>1, <3>1, <3>2
  <2>2. ASSUME NEW n \in Node PROVE UnreadTime(n)' <= unread[n]
    <3>1. unread[n] \in Nat /\ UnreadTime(n) <= unread[n]
      BY <1>0 DEF CopiesInTime, TimeLeft
    <3>2. UnreadTime(n)' \in Int
      <4>1. CASE pc[n] = "air"
        BY <1>5, <4>1
      <4>2. CASE pc[n] # "air"
        BY <1>1, <1>5, <4>2 DEF UnreadTime
      <4> QED
        BY <4>1, <4>2
    <3> QED
      BY <1>5, <3>1, <3>2
  <2> QED
    BY <1>1, <1>2, <2>1, <2>2 DEF TimeLeft
<1>7. SendersRemembered(lapse, unread)'
  <2> SUFFICES ASSUME NEW n \in Node, NEW s \in Node, MoreCopies(s), Took(n, job[s].frame.msg)
               PROVE  Holds(seen'[n], job[s].frame, Remaining(s, lapse)' + unread[n])
    BY <1>1, <1>2 DEF SendersRemembered, Remembers, Took
  <2>1. Holds(seen[n], job[s].frame, Remaining(s, lapse) + unread[n])
    BY DEF SendersRemembered, Remembers
  <2>2. unread[n] \in Nat /\ job[s].frame \in DataFrame
    BY <1>0, CallFacts DEF CopiesInTime, MoreCopies
  <2>3. /\ Remaining(s, lapse) + unread[n] \in Nat \ {0}
        /\ (Remaining(s, lapse) + unread[n]) - 1 = Remaining(s, lapse)' + unread[n]
    BY <1>4, <2>2
  <2>4. Holds(Aged(seen[n], OldestAge), job[s].frame, (Remaining(s, lapse) + unread[n]) - 1)
    BY <1>1, <2>1, <2>2, <2>3, AgedHolds
  <2> QED
    BY <1>1, <2>3, <2>4
<1>8. HeardRemembered'
  <2> SUFFICES ASSUME NEW n \in Node, Heard(n), Took(n, inbox[n].msg)
               PROVE  Holds(seen'[n], inbox[n], UnreadTime(n)')
    BY <1>1 DEF HeardRemembered, Remembers, Took, Heard
  <2>1. Holds(seen[n], inbox[n], UnreadTime(n))
    BY DEF HeardRemembered, Remembers
  <2>2. UnreadTime(n) \in Nat \ {0} /\ UnreadTime(n)' = UnreadTime(n) - 1
    BY <1>1, <1>5
  <2>3. Holds(Aged(seen[n], OldestAge), inbox[n], UnreadTime(n) - 1)
    BY <1>1, <2>1, <2>2, AgedHolds DEF Heard
  <2> QED
    BY <1>1, <2>2, <2>3
<1> QED
  BY <1>3, <1>6, <1>7, <1>8

(* What a step leaves in the buffers. *)
LEMMA AfterRead ==
    ASSUME TypeOK, NEW c \in Node, NEW f \in DataFrame, ReadFrame(c) \/ SendAck(c, f)
    PROVE  \A n \in Node : Heard(n)' => n # c /\ inbox'[n] = inbox[n]
<1> SUFFICES ASSUME NEW n \in Node, inbox'[n] \in DataFrame
             PROVE  n # c /\ inbox'[n] = inbox[n]
  BY DEF Heard
<1>1. NoFrame \notin DataFrame /\ Garbled \notin DataFrame
  BY MarkersDistinct DEF Frame
<1>2. CASE ReadFrame(c)
  BY <1>1, <1>2 DEF ReadFrame, TypeOK, InboxOK
<1>3. CASE SendAck(c, f)
  <2>1. AckFor(f, localId[c]) \notin DataFrame
    BY DEF AckFor, DataFrame
  <2> QED
    BY <1>1, <1>3, <2>1 DEF SendAck, OnAir
<1> QED
  BY <1>2, <1>3

LEMMA SweptKeepsHolding ==
    ASSUME TypeOK, OneWindow, NEW c \in Node, NEW g \in DataFrame,
           seen' = [seen EXCEPT ![c] = SweptTable(c, g)]
    PROVE  \A n \in Node : KeepsHolding(n)
<1> SUFFICES ASSUME NEW n \in Node, NEW f \in DataFrame, NEW while \in Nat, Holds(seen[n], f, while)
             PROVE  Holds(seen'[n], f, while)
  BY DEF KeepsHolding
<1>1. seen[n] \in Table /\ seen'[n] = IF n = c THEN SweptTable(c, g) ELSE seen[n]
  BY DEF TypeOK, LinkOK, Table
<1>2. Holds(Scanned(seen[n], Key(g), EffectiveDupWindow(g.len)), f, while)
  BY <1>1, ScannedHolds
<1> QED
  BY <1>1, <1>2 DEF SweptTable

(* A step of node c that leaves everything but its call and buffers alone. *)
LEMMA QuietCopies ==
    ASSUME TypeOK, NEW lapse, NEW unread, CopyInv(lapse, unread), CopiesInTime(lapse, unread),
           Calm(lapse), UNCHANGED <<calls, accepted, seen, localId>>,
           UNCHANGED inbox \/ \E c \in Node : ReadFrame(c)
    PROVE  CopyInv(lapse, unread)'
<1>1. \A n \in Node : KeepsHolding(n)
  BY DEF KeepsHolding
<1>2. IdsHeld'
  BY DEF CopyInv, IdsHeld, IdsEver
<1>3. \A n \in Node : Heard(n)' => inbox'[n] = inbox[n]
  <2>1. CASE UNCHANGED inbox
    BY <2>1
  <2>2. CASE \E c \in Node : ReadFrame(c)
    BY <2>2, MarkersDistinct DEF ReadFrame, Heard, Frame, TypeOK, InboxOK
  <2> QED
    BY <2>1, <2>2
<1> QED
  BY <1>1, <1>2, <1>3, CalmStep

(* acceptData(), called while node c sends or receives. *)
LEMMA AcceptDataCopies ==
    ASSUME TypeOK, NEW lapse, NEW unread, CopyInv(lapse, unread), TimelyLink(lapse, unread),
           Calm(lapse), UNCHANGED <<calls, localId>>, NEW c \in Node, NEW room,
           inbox[c] # NoFrame, IsDataForUs(c, inbox[c]),
           \/ Suppress(c, inbox[c])
           \/ Refuse(c, inbox[c], room)
           \/ TakeIn(c, inbox[c], room)
    PROVE  CopyInv(lapse, unread)'
<1>0. CopiesInTime(lapse, unread) /\ OneWindow
  BY DEF TimelyLink
<1>1. inbox[c] \in DataFrame /\ Heard(c) /\ IsForUs(c, inbox[c])
  BY DEF IsDataForUs, TypeOK, InboxOK, Frame, AckFrame, Heard
<1>2. CASE Suppress(c, inbox[c]) \/ Refuse(c, inbox[c], room)
  <2>1. /\ UNCHANGED accepted /\ seen' = [seen EXCEPT ![c] = SweptTable(c, inbox[c])]
        /\ SendAck(c, inbox[c]) \/ ReadFrame(c)
    BY <1>2 DEF Suppress, Refuse
  <2>2. \A n \in Node : KeepsHolding(n)
    BY <1>0, <1>1, <2>1, SweptKeepsHolding
  <2>3. \A n \in Node : Heard(n)' => inbox'[n] = inbox[n]
    BY <1>1, <2>1, AfterRead
  <2>4. IdsHeld'
    BY DEF CopyInv, IdsHeld, IdsEver
  <2> QED
    BY <1>0, <2>1, <2>2, <2>3, <2>4, CalmStep
<1>3. CASE TakeIn(c, inbox[c], room)
  <2>1. ~DuplicateOf(c, inbox[c])
    BY <1>3 DEF TakeIn
  <2>2. accepted' = [accepted EXCEPT ![c] = Append(@, inbox[c].msg)]
    BY <1>3 DEF TakeIn
  <2>3. IF NeedsAck(c, inbox[c])
        THEN seen' = [seen EXCEPT ![c] =
                         Remembered(SweptTable(c, inbox[c]), seenNext[c], Key(inbox[c]))]
        ELSE UNCHANGED seen
    BY <1>3 DEF TakeIn
  <2>4. SendAck(c, inbox[c]) \/ ReadFrame(c)
    BY <1>3 DEF TakeIn
  <2>5. \A n \in Node : Heard(n)' => n # c /\ inbox'[n] = inbox[n]
    BY <1>1, <2>4, AfterRead
  <2> QED
    BY <1>1, <2>1, <2>2, <2>3, <2>5, AcceptStep
<1> QED
  BY <1>2, <1>3

LEMMA AppCallCopies ==
    ASSUME TypeOK, NEW lapse, NEW unread, CopyInv(lapse, unread), TimelyLink(lapse, unread),
           NEW c \in Node, AppCall(c)
    PROVE  CopyInv(lapse, unread)'
<1>0. CopiesInTime(lapse, unread) /\ JobsAsked
  BY DEF TimelyLink, CopyInv
<1>1. ASSUME NEW id \in IdsOf[c], SetLocalId(c, id) PROVE CopyInv(lapse, unread)'
  <2>1. /\ UNCHANGED <<pc, job, timer, calls, accepted, seen, inbox>>
        /\ localId' = [localId EXCEPT ![c] = id]
    BY <1>1 DEF SetLocalId, control, history
  <2>2. Calm(lapse)
    BY <1>0, <2>1, NoJobStepCalm
  <2>3. IdsHeld'
    BY <2>1 DEF CopyInv, IdsHeld, IdsEver, TypeOK, LinkOK
  <2>4. \A n \in Node : KeepsHolding(n)
    BY <2>1 DEF KeepsHolding
  <2> QED
    BY <1>0, <2>1, <2>2, <2>3, <2>4, CalmStep
<1>2. ASSUME NEW r \in Requests[c], SendPacket(c, r) PROVE CopyInv(lapse, unread)'
  BY <1>2, SendStep
<1>3. ASSUME NEW r \in Reads[c], ReceivePending(c, r.maxLen) PROVE CopyInv(lapse, unread)'
  <2>1. UNCHANGED <<pc, job, timer, calls, accepted, seen, inbox, localId>>
    BY <1>3 DEF ReceivePending, control
  <2> QED
    BY <1>0, <2>1, NoJobStepCalm, QuietCopies
<1>4. ASSUME NEW r \in Reads[c], StartReceive(c, r.maxLen, r.timeout) PROVE CopyInv(lapse, unread)'
  <2>1. UNCHANGED <<calls, accepted, seen, inbox, localId>>
    BY <1>4 DEF StartReceive, history
  <2>2. JobStep(c, lapse)
    BY <1>0, <1>4, EndStep DEF StartReceive
  <2> QED
    BY <1>0, <2>1, <2>2, JobStepCalm, QuietCopies
<1> QED
  BY <1>1, <1>2, <1>3, <1>4 DEF AppCall

LEMMA LinkStepCopies ==
    ASSUME TypeOK, NEW lapse, NEW unread, CopyInv(lapse, unread), TimelyLink(lapse, unread),
           NEW c \in Node, LinkStep(c)
    PROVE  CopyInv(lapse, unread)'
<1>0. CopiesInTime(lapse, unread) /\ JobsAsked
  BY DEF TimelyLink, CopyInv
<1>1. ASSUME KeepListening(c) PROVE Calm(lapse)
  <2>1. CASE Return(c)
    BY <1>0, <2>1, ReturnStep, JobStepCalm
  <2>2. CASE UNCHANGED control
    BY <1>0, <2>2, NoJobStepCalm DEF control
  <2> QED
    BY <1>1, <2>1, <2>2 DEF KeepListening
<1>2. CASE StartTransmit(c)
  <2>1. UNCHANGED <<calls, accepted, seen, inbox, localId>>
    BY <1>2 DEF StartTransmit, history, protocol
  <2>2. JobStep(c, lapse)
    BY <1>0, <1>2, TransmitStep DEF StartTransmit
  <2> QED
    BY <1>0, <2>1, <2>2, JobStepCalm, QuietCopies
<1>3. CASE FinishTransmit(c)
  <2>1. /\ UNCHANGED <<calls, accepted, seen, localId>>
        /\ pc[c] = "air" /\ timer[c] = 0 /\ OnAir(c, job[c].frame, inbox[c])
        /\ IF job[c].frame.req
           THEN Blocked(c, "await", EffectiveAckTimeout) /\ UNCHANGED job
           ELSE Return(c)
    BY <1>3 DEF FinishTransmit, history, protocol
  <2>2. JobStep(c, lapse)
    <3>1. CASE job[c].frame.req
      BY <1>0, <2>1, <3>1, TransmitStep
    <3>2. CASE ~job[c].frame.req
      BY <1>0, <2>1, <3>2, ReturnStep
    <3> QED
      BY <3>1, <3>2
  <2>3. pc'[c] \in {"await", "idle"}
    BY <2>1 DEF Blocked, Return, TypeOK, ControlOK
  <2>4. \A n \in Node : Heard(n)' => inbox'[n] = inbox[n] \/ Lands(n)
    <3> SUFFICES ASSUME NEW n \in Node, Heard(n)', inbox'[n] # inbox[n]
                 PROVE  n # c /\ inbox'[n] = job[c].frame
      BY <2>1, <2>3 DEF Lands, Unsent
    <3> QED
      BY <2>1, MarkersDistinct DEF OnAir, Heard, Frame
  <2>5. IdsHeld'
    BY <2>1 DEF CopyInv, IdsHeld, IdsEver
  <2>6. \A n \in Node : KeepsHolding(n)
    BY <2>1 DEF KeepsHolding
  <2>7. Calm(lapse)
    BY <1>0, <2>2, JobStepCalm
  <2> QED
    BY <1>0, <2>1, <2>4, <2>5, <2>6, <2>7, CalmStep
<1>4. CASE FailTransmit(c)
  <2>1. UNCHANGED <<calls, accepted, seen, inbox, localId>>
    BY <1>4 DEF FailTransmit, history, protocol
  <2>2. JobStep(c, lapse)
    <3>1. CASE job[c].frame.req
      BY <1>0, <1>4, <3>1, RetryStep DEF FailTransmit
    <3>2. CASE ~job[c].frame.req
      BY <1>0, <1>4, <3>2, ReturnStep DEF FailTransmit
    <3> QED
      BY <3>1, <3>2
  <2> QED
    BY <1>0, <2>1, <2>2, JobStepCalm, QuietCopies
<1>5. CASE HearAck(c)
  <2>1. UNCHANGED <<calls, accepted, seen, localId>> /\ ReadFrame(c) /\ Return(c)
    BY <1>5 DEF HearAck, protocol
  <2> QED
    BY <1>0, <2>1, ReturnStep, JobStepCalm, QuietCopies
<1>6. CASE AckTimeout(c)
  <2>1. UNCHANGED <<calls, accepted, seen, inbox, localId>>
    BY <1>6 DEF AckTimeout, history, protocol
  <2>2. pc[c] = "await" /\ timer[c] = 0 /\ RetryOrGiveUp(c)
    BY <1>6 DEF AckTimeout
  <2>3. job[c].frame.req
    BY <1>0, <2>2 DEF JobsAsked, Sending
  <2> QED
    BY <1>0, <2>1, <2>2, <2>3, RetryStep, JobStepCalm, QuietCopies
<1>7. CASE HearOtherWhileBusy(c)
  <2>1. UNCHANGED <<pc, job, timer, calls, accepted, seen, localId>> /\ ReadFrame(c)
    BY <1>7 DEF HearOtherWhileBusy, history, protocol, control
  <2> QED
    BY <1>0, <2>1, NoJobStepCalm, QuietCopies
<1>8. CASE HearDataWhileBusy(c)
  <2>1. /\ UNCHANGED <<pc, job, timer, calls, localId>>
        /\ inbox[c] # NoFrame /\ IsDataForUs(c, inbox[c])
    BY <1>8 DEF HearDataWhileBusy, control
  <2>2. Calm(lapse)
    BY <1>0, <2>1, NoJobStepCalm
  <2>3. CASE ReadFrame(c) /\ UNCHANGED <<queue, seen, seenNext, accepted>>
    BY <1>0, <2>1, <2>2, <2>3, QuietCopies
  <2>4. CASE Suppress(c, inbox[c]) \/ TakeIn(c, inbox[c], inbox[c].len)
    BY <2>1, <2>2, <2>4, AcceptDataCopies
  <2> QED
    BY <1>8, <2>3, <2>4 DEF HearDataWhileBusy
<1>9. CASE HearOtherInReceive(c)
  <2>1. UNCHANGED <<calls, accepted, seen, localId>> /\ ReadFrame(c) /\ KeepListening(c)
    BY <1>9 DEF HearOtherInReceive, history, protocol
  <2> QED
    BY <1>0, <1>1, <2>1, QuietCopies
<1>10. CASE HearDataInReceive(c)
  <2>1. UNCHANGED <<calls, localId>> /\ inbox[c] # NoFrame /\ IsDataForUs(c, inbox[c])
    BY <1>10 DEF HearDataInReceive
  <2>2. /\ KeepListening(c) \/ Return(c)
        /\ \/ Suppress(c, inbox[c])
           \/ Refuse(c, inbox[c], job[c].maxLen)
           \/ TakeIn(c, inbox[c], job[c].maxLen)
    BY <1>10 DEF HearDataInReceive
  <2>3. Calm(lapse)
    BY <1>0, <1>1, <2>2, ReturnStep, JobStepCalm
  <2> QED
    BY <2>1, <2>2, <2>3, AcceptDataCopies
<1>11. CASE ReceiveTimeout(c)
  <2>1. UNCHANGED <<calls, accepted, seen, inbox, localId>> /\ Return(c)
    BY <1>11 DEF ReceiveTimeout, history, protocol
  <2> QED
    BY <1>0, <2>1, ReturnStep, JobStepCalm, QuietCopies
<1> QED
  BY <1>2, <1>3, <1>4, <1>5, <1>6, <1>7, <1>8, <1>9, <1>10, <1>11 DEF LinkStep

LEMMA InitCopies ==
    ASSUME Init, NEW lapse, NEW unread, TimelyLink(lapse, unread)
    PROVE  CopyInv(lapse, unread)
<1>1. \A n \in Node : /\ ~Sending(n) /\ ~Heard(n) /\ UnreadTime(n) = 0 /\ localId[n] = Unset
                      /\ Elements(accepted[n]) = {}
  BY MarkersDistinct DEF Init, Sending, Heard, UnreadTime, Elements, Frame
<1>2. \A n \in Node : unread[n] \in Nat
  BY DEF TimelyLink, CopiesInTime
<1> QED
  BY <1>1, <1>2 DEF CopyInv, JobsAsked, BuffersAsked, AcceptedCalled, CopiesAgree, SentAgain,
     HeardAgain, IdsHeld, IdsEver, TimeLeft, SendersRemembered, HeardRemembered, MoreCopies

LEMMA CopyKept ==
    ASSUME NEW lapse, NEW unread, TimelyLink(lapse, unread)
    PROVE  Spec => []CopyInv(lapse, unread)
<1>1. ASSUME TypeOK, CopyInv(lapse, unread), [Next]_vars
      PROVE  CopyInv(lapse, unread)'
  <2>1. CASE Tick
    BY <1>1, <2>1, TickStep
  <2>2. CASE \E n \in Node : AppCall(n) \/ LinkStep(n)
    BY <1>1, <2>2, AppCallCopies, LinkStepCopies
  <2>3. CASE UNCHANGED vars
    <3>1. UNCHANGED <<pc, job, timer, calls, accepted, seen, inbox, localId>>
      BY <2>3 DEF vars, protocol, control, history
    <3>2. CopiesInTime(lapse, unread) /\ JobsAsked
      BY <1>1 DEF TimelyLink, CopyInv
    <3> QED
      BY <1>1, <3>1, <3>2, NoJobStepCalm, QuietCopies
  <2> QED
    BY <1>1, <2>1, <2>2, <2>3 DEF Next
<1> QED
  BY <1>1, InitCopies, TypeCorrect, PTL DEF Spec

-----------------------------------------------------------------------------
(* What is taken in *)

(* What acceptData() takes in is news: it is newer than all the node has   *)
(* of that sender.                                                         *)
LEMMA TakesNews ==
    ASSUME TypeOK, NEW lapse, NEW unread, CopyInv(lapse, unread), CopiesInTime(lapse, unread),
           NEW n \in Node, Heard(n), IsForUs(n, inbox[n]), ~DuplicateOf(n, inbox[n])
    PROVE  \A x \in Elements(accepted[n]) : x[1] = inbox[n].msg[1] => x[2] < inbox[n].msg[2]
<1> USE DEF CopyInv
<1> DEFINE f == inbox[n]
<1>1. /\ f \in DataFrame /\ f.msg \in Msg /\ seen[n] \in Table
      /\ Elements(accepted[n]) \subseteq Msg
  BY FrameFacts, ElementsType DEF Heard, TypeOK, LinkOK, HistoryOK, Table
<1>2. \A x \in Elements(accepted[n]) : x[1] = f.msg[1] => x[2] <= f.msg[2]
  BY DEF BuffersAsked
<1>3. ~Took(n, f.msg)
  <2> SUFFICES ASSUME Took(n, f.msg) PROVE FALSE
    OBVIOUS
  <2>1. f.req /\ Holds(seen[n], f, UnreadTime(n))
    BY DEF HeardAgain, HeardRemembered, Remembers
  <2>2. UnreadTime(n) \in Nat
    BY UnreadNat
  <2>3. IsDuplicate(seen[n], Key(f), EffectiveDupWindow(f.len))
    BY <1>1, <2>1, <2>2, HeldIsDuplicate
  <2>4. f.dst # Broadcast
    BY <2>1 DEF BuffersAsked, AskedBy, WantsAck
  <2> QED
    BY <2>1, <2>3, <2>4 DEF DuplicateOf, NeedsAck, IsForUs
<1>4. ASSUME NEW x \in Elements(accepted[n]), x[1] = f.msg[1]
      PROVE  x[2] < f.msg[2]
  <2>1. x \in Msg /\ x[2] <= f.msg[2] /\ x # f.msg
    BY <1>1, <1>2, <1>3, <1>4 DEF Took
  <2> QED
    BY <1>1, <1>4, <2>1 DEF Msg
<1> QED
  BY <1>4

(* The steps that move messages, and what they do. *)
LineSame ==
    /\ UNCHANGED <<queue, accepted, delivered>>
    /\ \A n \in Node : pc'[n] = "receive" => pc[n] = "receive" /\ job'[n] = job[n]

Submits(c) == LineSame /\ calls' = [calls EXCEPT ![c] = @ + 1] /\ UNCHANGED acked

Confirms(c) ==
    LineSame /\ UNCHANGED calls /\ pc[c] = "await" /\ acked' = acked \cup {job[c].frame.msg}

Takes(c) ==
    /\ Heard(c) /\ IsForUs(c, inbox[c]) /\ ~DuplicateOf(c, inbox[c])
    /\ accepted' = [accepted EXCEPT ![c] = Append(@, inbox[c].msg)]
    /\ UNCHANGED <<calls, acked>>

Queues(c) ==
    LET f == inbox[c] IN
    /\ Takes(c) /\ pc[c] # "receive"
    /\ queue' = IF f.len > 0
                THEN [queue EXCEPT ![c] = Append(@, [len |-> f.len, msg |-> f.msg])]
                ELSE queue
    /\ UNCHANGED <<delivered, pc, job>>

Hands(c) ==
    /\ Takes(c) /\ pc[c] = "receive"
    /\ delivered' = [delivered EXCEPT ![c] = Append(@, inbox[c].msg)]
    /\ UNCHANGED queue /\ Return(c)

LEMMA LineMoves ==
    ASSUME TypeOK, [Next]_vars
    PROVE  \/ LineSame /\ UNCHANGED <<calls, acked>>
           \/ \E c \in Node :
                 \/ Submits(c) \/ Confirms(c) \/ Queues(c) \/ Hands(c)
                 \/ \E r \in Reads[c] :
                       ReceivePending(c, r.maxLen) \/ StartReceive(c, r.maxLen, r.timeout)
<1> DEFINE Still == LineSame /\ UNCHANGED <<calls, acked>>
<1>1. ASSUME NEW c \in Node, AppCall(c)
      PROVE  \/ Still \/ Submits(c)
             \/ \E r \in Reads[c] :
                   ReceivePending(c, r.maxLen) \/ StartReceive(c, r.maxLen, r.timeout)
  <2>1. ASSUME NEW id \in IdsOf[c], SetLocalId(c, id) PROVE Still
    BY <2>1 DEF SetLocalId, LineSame, control, history
  <2>2. ASSUME NEW r \in Requests[c], SendPacket(c, r) PROVE Submits(c)
    <3>1. UNCHANGED <<queue, accepted, delivered, acked>> /\ calls' = [calls EXCEPT ![c] = @ + 1]
      BY <2>2 DEF SendPacket
    <3>2. pc'[c] # "receive" /\ \A n \in Node \ {c} : pc'[n] = pc[n] /\ job'[n] = job[n]
      BY <2>2 DEF SendPacket, BeginAttempt, Blocked, TypeOK, ControlOK
    <3> QED
      BY <3>1, <3>2 DEF Submits, LineSame
  <2> QED
    BY <1>1, <2>1, <2>2 DEF AppCall
<1>2. ASSUME NEW c \in Node, LinkStep(c)
      PROVE  Still \/ Confirms(c) \/ Queues(c) \/ Hands(c)
  <2>1. ASSUME Return(c) PROVE \A n \in Node : pc'[n] = "receive" =>
                                  pc[n] = "receive" /\ job'[n] = job[n]
    BY <2>1 DEF Return, Blocked, TypeOK, ControlOK
  <2>2. ASSUME KeepListening(c) PROVE \A n \in Node : pc'[n] = "receive" =>
                                         pc[n] = "receive" /\ job'[n] = job[n]
    BY <2>1, <2>2 DEF KeepListening, control
  <2>3. ASSUME RetryOrGiveUp(c), pc[c] # "receive"
        PROVE  \A n \in Node : pc'[n] = "receive" => pc[n] = "receive" /\ job'[n] = job[n]
    <3>1. CASE Return(c)
      BY <2>1, <3>1
    <3>2. CASE ~Return(c)
      <4>1. PICK ticks : BeginAttempt(c, job[c].frame.len, ticks)
        BY <2>3, <3>2 DEF RetryOrGiveUp
      <4>2. job' = [job EXCEPT ![c].attempt = job[c].attempt + 1]
        BY <2>3, <3>2 DEF RetryOrGiveUp
      <4> QED
        BY <4>1, <4>2 DEF BeginAttempt, Blocked, TypeOK, ControlOK
    <3> QED
      BY <3>1, <3>2
  <2>4. CASE StartTransmit(c)
    BY <2>4 DEF StartTransmit, Blocked, LineSame, protocol, history, TypeOK, ControlOK
  <2>5. CASE FinishTransmit(c)
    <3>1. CASE job[c].frame.req
      BY <2>5, <3>1 DEF FinishTransmit, Blocked, LineSame, protocol, history, TypeOK, ControlOK
    <3>2. CASE ~job[c].frame.req
      BY <2>1, <2>5, <3>2 DEF FinishTransmit, LineSame, protocol, history
    <3> QED
      BY <3>1, <3>2
  <2>6. CASE FailTransmit(c)
    BY <2>1, <2>3, <2>6 DEF FailTransmit, LineSame, protocol, history
  <2>7. CASE HearAck(c)
    BY <2>1, <2>7 DEF HearAck, IsAwaitedAck, Confirms, LineSame, protocol
  <2>8. CASE AckTimeout(c)
    BY <2>3, <2>8 DEF AckTimeout, LineSame, protocol, history
  <2>9. CASE HearOtherWhileBusy(c)
    BY <2>9 DEF HearOtherWhileBusy, LineSame, protocol, history, control
  <2>10. ASSUME inbox[c] # NoFrame, IsDataForUs(c, inbox[c])
         PROVE  Heard(c) /\ IsForUs(c, inbox[c])
    BY <2>10 DEF IsDataForUs, TypeOK, InboxOK, Frame, AckFrame, Heard
  <2>11. CASE HearDataWhileBusy(c)
    <3>1. /\ UNCHANGED <<pc, job, calls, delivered, acked>> /\ pc[c] # "receive"
          /\ Heard(c) /\ IsForUs(c, inbox[c])
      BY <2>10, <2>11 DEF HearDataWhileBusy, control
    <3>2. CASE UNCHANGED <<queue, accepted>>
      BY <3>1, <3>2 DEF LineSame
    <3>3. CASE /\ TakeIn(c, inbox[c], inbox[c].len)
               /\ queue' = IF inbox[c].len > 0
                           THEN [queue EXCEPT ![c] =
                                    Append(@, [len |-> inbox[c].len, msg |-> inbox[c].msg])]
                           ELSE queue
      <4>1. Takes(c)
        BY <3>1, <3>3 DEF TakeIn, Takes
      <4> QED
        BY <3>1, <3>3, <4>1 DEF Queues
    <3> QED
      BY <2>11, <3>2, <3>3 DEF HearDataWhileBusy, Suppress
  <2>12. CASE HearOtherInReceive(c)
    BY <2>2, <2>12 DEF HearOtherInReceive, LineSame, protocol, history
  <2>13. CASE HearDataInReceive(c)
    <3>1. /\ UNCHANGED <<queue, calls, acked>> /\ pc[c] = "receive"
          /\ Heard(c) /\ IsForUs(c, inbox[c])
      BY <2>10, <2>13 DEF HearDataInReceive
    <3>2. CASE KeepListening(c) /\ UNCHANGED <<accepted, delivered>>
      BY <2>2, <3>1, <3>2 DEF LineSame
    <3>3. CASE /\ TakeIn(c, inbox[c], job[c].maxLen) /\ Return(c)
               /\ delivered' = [delivered EXCEPT ![c] = Append(@, inbox[c].msg)]
      <4>1. Takes(c)
        BY <3>1, <3>3 DEF TakeIn, Takes
      <4> QED
        BY <3>1, <3>3, <4>1 DEF Hands
    <3> QED
      BY <2>13, <3>2, <3>3 DEF HearDataInReceive, Suppress, Refuse
  <2>14. CASE ReceiveTimeout(c)
    BY <2>1, <2>14 DEF ReceiveTimeout, LineSame, protocol, history
  <2> QED
    BY <1>2, <2>4, <2>5, <2>6, <2>7, <2>8, <2>9, <2>11, <2>12, <2>13, <2>14 DEF LinkStep
<1>3. CASE Tick \/ UNCHANGED vars
  BY <1>3 DEF Tick, LineSame, vars, protocol, control, history
<1> QED
  BY <1>1, <1>2, <1>3 DEF Next

-----------------------------------------------------------------------------
(* Once and in order *)

(* The line of a node: what its application has got, then what waits. *)
Line(got, waiting) ==
    [k \in 1 .. Len(got) + Len(waiting) |->
        IF k <= Len(got) THEN got[k] ELSE waiting[k - Len(got)].msg]

(* All of a line was taken in, and each sender's messages are in order. *)
OrderedFrom(line, taken) ==
    /\ \A i \in DOMAIN line : line[i] \in Elements(taken)
    /\ \A i, j \in DOMAIN line : i < j /\ line[i][1] = line[j][1] => line[i][2] < line[j][2]

LinedAt(n) ==
    /\ OrderedFrom(Line(delivered[n], queue[n]), accepted[n])
    /\ pc[n] = "receive" => queue[n] = <<>>

Lined == \A n \in Node : LinedAt(n)

LEMMA LineFacts ==
    ASSUME NEW got \in Seq(Msg), NEW waiting \in Seq(Pending)
    PROVE  /\ Len(got) \in Nat /\ Len(waiting) \in Nat
           /\ DOMAIN Line(got, waiting) = 1 .. Len(got) + Len(waiting)
           /\ \A k \in 1 .. Len(got) : Line(got, waiting)[k] = got[k]
           /\ \A k \in 1 .. Len(waiting) : Line(got, waiting)[Len(got) + k] = waiting[k].msg
           /\ \A k \in 1 .. Len(got) + Len(waiting) :
                 k \in 1 .. Len(got) \/ \E j \in 1 .. Len(waiting) : k = Len(got) + j
<1> DEFINE d == Len(got)
           q == Len(waiting)
<1>1. d \in Nat /\ q \in Nat
  BY LenProperties
<1>2. Line(got, waiting) =
         [k \in 1 .. d + q |-> IF k <= d THEN got[k] ELSE waiting[k - d].msg]
  BY DEF Line
<1> HIDE DEF d, q
<1>3. \A k \in 1 .. d : k \in 1 .. d + q /\ k <= d
  BY <1>1
<1>4. \A k \in 1 .. q : d + k \in 1 .. d + q /\ ~(d + k <= d) /\ (d + k) - d = k
  BY <1>1
<1>5. \A k \in 1 .. d + q : k \in 1 .. d \/ (k - d \in 1 .. q /\ k = d + (k - d))
  BY <1>1
<1>6. /\ DOMAIN Line(got, waiting) = 1 .. d + q
      /\ \A k \in 1 .. d : Line(got, waiting)[k] = got[k]
      /\ \A k \in 1 .. q : Line(got, waiting)[d + k] = waiting[k].msg
  BY <1>2, <1>3, <1>4
<1>7. \A k \in 1 .. d + q : k \in 1 .. d \/ \E j \in 1 .. q : k = d + j
  BY <1>5
<1> QED
  BY <1>1, <1>6, <1>7 DEF d, q

(* Losing messages from a line keeps the others in order. *)
LEMMA Thinned ==
    ASSUME NEW line, NEW taken, OrderedFrom(line, taken), NEW shorter,
           NEW h, \A i \in DOMAIN shorter : h[i] \in DOMAIN line /\ shorter[i] = line[h[i]],
           \A i, j \in DOMAIN shorter : i < j => h[i] < h[j]
    PROVE  OrderedFrom(shorter, taken)
BY DEF OrderedFrom

(* So does adding news at its end. *)
LEMMA Extended ==
    ASSUME NEW line, NEW taken \in Seq(Msg), OrderedFrom(line, taken), NEW longer,
           NEW size \in Nat, DOMAIN line = 1 .. size, DOMAIN longer = 1 .. size + 1,
           NEW m \in Msg, \A i \in 1 .. size : longer[i] = line[i], longer[size + 1] = m,
           \A x \in Elements(taken) : x[1] = m[1] => x[2] < m[2]
    PROVE  OrderedFrom(longer, Append(taken, m))
<1>1. Elements(Append(taken, m)) = Elements(taken) \cup {m}
  BY ElementsAppend
<1>2. \A i \in 1 .. size + 1 : i \in 1 .. size \/ i = size + 1
  OBVIOUS
<1>3. ASSUME NEW i \in 1 .. size + 1 PROVE longer[i] \in Elements(taken) \cup {m}
  BY <1>2, <1>3 DEF OrderedFrom
<1>4. ASSUME NEW i \in 1 .. size + 1, NEW j \in 1 .. size + 1, i < j, longer[i][1] = longer[j][1]
      PROVE  longer[i][2] < longer[j][2]
  <2>1. i \in 1 .. size /\ longer[i] = line[i] /\ line[i] \in Elements(taken)
    BY <1>4 DEF OrderedFrom
  <2>2. CASE j = size + 1
    BY <1>4, <2>1, <2>2
  <2>3. CASE j \in 1 .. size
    BY <1>4, <2>1, <2>3 DEF OrderedFrom
  <2> QED
    BY <1>2, <2>2, <2>3
<1> QED
  BY <1>1, <1>3, <1>4 DEF OrderedFrom

(* More may be taken in than stands in line. *)
LEMMA OrderedFromMore ==
    ASSUME NEW line, NEW taken, NEW more, OrderedFrom(line, taken),
           Elements(taken) \subseteq Elements(more)
    PROVE  OrderedFrom(line, more)
BY DEF OrderedFrom

(* popPending(): the k-th waiting payload is handed over, those before it  *)
(* are dropped.                                                            *)
LEMMA PoppedLine ==
    ASSUME NEW got \in Seq(Msg), NEW waiting \in Seq(Pending), NEW k \in 1 .. Len(waiting),
           NEW taken, OrderedFrom(Line(got, waiting), taken)
    PROVE  OrderedFrom(Line(Append(got, waiting[k].msg), SubSeq(waiting, k + 1, Len(waiting))),
                       taken)
<1> DEFINE d == Len(got)
           q == Len(waiting)
           got2 == Append(got, waiting[k].msg)
           waiting2 == SubSeq(waiting, k + 1, q)
           line == Line(got, waiting)
           line2 == Line(got2, waiting2)
           h == [i \in 1 .. d + 1 + (q - k) |-> IF i <= d THEN i ELSE i + (k - 1)]
<1>1. d \in Nat /\ q \in Nat /\ k \in 1 .. q /\ waiting[k] \in Pending
  BY LenProperties
<1>2. waiting[k].msg \in Msg
  BY <1>1 DEF Pending
<1>3. /\ got2 \in Seq(Msg) /\ Len(got2) = d + 1 /\ got2[d + 1] = waiting[k].msg
      /\ \A i \in 1 .. d : got2[i] = got[i]
  BY <1>2
<1>4. /\ waiting2 \in Seq(Pending) /\ Len(waiting2) = q - k
      /\ \A i \in 1 .. q - k : waiting2[i] = waiting[k + i]
  BY <1>1
<1> HIDE DEF d, q, got2, waiting2
<1>5. /\ DOMAIN line = 1 .. d + q
      /\ \A i \in 1 .. d : line[i] = got[i]
      /\ \A i \in 1 .. q : line[d + i] = waiting[i].msg
  BY LineFacts DEF d, q
<1>6. /\ DOMAIN line2 = 1 .. (d + 1) + (q - k)
      /\ \A i \in 1 .. d + 1 : line2[i] = got2[i]
      /\ \A i \in 1 .. q - k : line2[(d + 1) + i] = waiting2[i].msg
      /\ \A i \in 1 .. (d + 1) + (q - k) :
            i \in 1 .. d + 1 \/ \E j \in 1 .. q - k : i = (d + 1) + j
  <2>1. got2 \in Seq(Msg) /\ waiting2 \in Seq(Pending)
    BY <1>3, <1>4
  <2> DEFINE dd == Len(got2)
             qq == Len(waiting2)
  <2>2. /\ DOMAIN line2 = 1 .. dd + qq
        /\ \A i \in 1 .. dd : line2[i] = got2[i]
        /\ \A i \in 1 .. qq : line2[dd + i] = waiting2[i].msg
        /\ \A i \in 1 .. dd + qq : i \in 1 .. dd \/ \E j \in 1 .. qq : i = dd + j
    BY <2>1, LineFacts
  <2>3. dd = d + 1 /\ qq = q - k
    BY <1>3, <1>4
  <2> HIDE DEF dd, qq, line2
  <2> QED
    BY <2>2, <2>3
<1> HIDE DEF line, line2
<1>7. ASSUME NEW i \in DOMAIN line2
      PROVE  h[i] \in DOMAIN line /\ line2[i] = line[h[i]]
  <2>1. CASE i \in 1 .. d
    <3>1. h[i] = i /\ i \in 1 .. d + q /\ i \in 1 .. d + 1
      BY <1>1, <1>6, <2>1
    <3> HIDE DEF h
    <3> QED
      BY <1>3, <1>5, <1>6, <2>1, <3>1
  <2>2. CASE i = d + 1
    <3>1. /\ i \in 1 .. d + 1 + (q - k) /\ ~(i <= d) /\ i + (k - 1) = d + k
          /\ d + k \in 1 .. d + q /\ i \in 1 .. d + 1
      BY <1>1, <2>2
    <3>2. h[i] = d + k
      BY <3>1
    <3> HIDE DEF h
    <3> QED
      BY <1>1, <1>3, <1>5, <1>6, <2>2, <3>1, <3>2
  <2>3. CASE \E j \in 1 .. q - k : i = (d + 1) + j
    <3>1. PICK j \in 1 .. q - k : i = (d + 1) + j
      BY <2>3
    <3>2. h[i] = d + (k + j) /\ d + (k + j) \in 1 .. d + q /\ k + j \in 1 .. q
      BY <1>1, <1>6, <3>1
    <3> HIDE DEF h
    <3>3. line2[i] = waiting[k + j].msg
      BY <1>4, <1>6, <3>1
    <3> QED
      BY <1>5, <3>2, <3>3
  <2>4. i \in 1 .. d + 1 => i \in 1 .. d \/ i = d + 1
    BY <1>1
  <2> QED
    BY <1>6, <2>1, <2>2, <2>3, <2>4
<1>8. \A i, j \in DOMAIN line2 : i < j => h[i] < h[j]
  BY <1>1, <1>6
<1> HIDE DEF h
<1>9. OrderedFrom(line2, taken)
  BY <1>7, <1>8, Thinned DEF line
<1> QED
  BY <1>9 DEF line2, got2, waiting2, q

(* The queue is dropped. *)
LEMMA ClearedLine ==
    ASSUME NEW got \in Seq(Msg), NEW waiting \in Seq(Pending), NEW taken,
           OrderedFrom(Line(got, waiting), taken)
    PROVE  OrderedFrom(Line(got, <<>>), taken)
<1> DEFINE d == Len(got)
           h == [i \in 1 .. d |-> i]
<1>1. d \in Nat /\ Len(waiting) \in Nat /\ Len(<< >>) = 0 /\ <<>> \in Seq(Pending)
  BY LenProperties
<1>2. /\ DOMAIN Line(got, waiting) = 1 .. d + Len(waiting)
      /\ DOMAIN Line(got, <<>>) = 1 .. d + 0
      /\ \A i \in 1 .. d : Line(got, waiting)[i] = got[i]
      /\ \A i \in 1 .. d : Line(got, <<>>)[i] = got[i]
  BY <1>1, LineFacts
<1> HIDE DEF d
<1>3. \A i \in DOMAIN Line(got, <<>>) :
         h[i] \in DOMAIN Line(got, waiting) /\ Line(got, <<>>)[i] = Line(got, waiting)[h[i]]
  BY <1>1, <1>2
<1>4. \A i, j \in DOMAIN Line(got, <<>>) : i < j => h[i] < h[j]
  BY <1>1, <1>2
<1> QED
  BY <1>3, <1>4, Thinned

(* A message joins at the end of the queue, or is handed over at once. *)
LEMMA QueuedLine ==
    ASSUME NEW got \in Seq(Msg), NEW waiting \in Seq(Pending), NEW taken \in Seq(Msg),
           OrderedFrom(Line(got, waiting), taken), NEW e \in Pending, e.msg \in Msg,
           \A x \in Elements(taken) : x[1] = e.msg[1] => x[2] < e.msg[2]
    PROVE  OrderedFrom(Line(got, Append(waiting, e)), Append(taken, e.msg))
<1> DEFINE d == Len(got)
           q == Len(waiting)
           waiting2 == Append(waiting, e)
           line == Line(got, waiting)
           line2 == Line(got, waiting2)
<1>1. d \in Nat /\ q \in Nat
  BY LenProperties
<1>2. /\ waiting2 \in Seq(Pending) /\ Len(waiting2) = q + 1 /\ waiting2[q + 1] = e
      /\ \A i \in 1 .. q : waiting2[i] = waiting[i]
  OBVIOUS
<1> HIDE DEF waiting2, d, q
<1>3. /\ DOMAIN line = 1 .. d + q
      /\ \A i \in 1 .. d : line[i] = got[i]
      /\ \A i \in 1 .. q : line[d + i] = waiting[i].msg
      /\ \A i \in 1 .. d + q : i \in 1 .. d \/ \E j \in 1 .. q : i = d + j
  BY LineFacts DEF d, q
<1>4. /\ DOMAIN line2 = 1 .. d + (q + 1)
      /\ \A i \in 1 .. d : line2[i] = got[i]
      /\ \A i \in 1 .. q + 1 : line2[d + i] = waiting2[i].msg
  BY <1>2, LineFacts DEF d
<1> HIDE DEF line, line2
<1>5. \A i \in 1 .. d + q : line2[i] = line[i]
  <2> TAKE i \in 1 .. d + q
  <2>1. CASE i \in 1 .. d
    BY <1>3, <1>4, <2>1
  <2>2. CASE \E j \in 1 .. q : i = d + j
    <3>1. PICK j \in 1 .. q : i = d + j
      BY <2>2
    <3>2. j \in 1 .. q + 1
      BY <1>1
    <3> QED
      BY <1>2, <1>3, <1>4, <3>1, <3>2
  <2> QED
    BY <1>3, <2>1, <2>2
<1>6. DOMAIN line2 = 1 .. (d + q) + 1 /\ line2[(d + q) + 1] = e.msg /\ d + q \in Nat
  <2>1. (d + q) + 1 = d + (q + 1) /\ q + 1 \in 1 .. q + 1 /\ d + q \in Nat
    BY <1>1
  <2> QED
    BY <1>2, <1>4, <2>1
<1>7. OrderedFrom(line2, Append(taken, e.msg))
  BY <1>3, <1>5, <1>6, Extended DEF line
<1> QED
  BY <1>7 DEF line2, waiting2

LEMMA HandedLine ==
    ASSUME NEW got \in Seq(Msg), NEW taken \in Seq(Msg), OrderedFrom(Line(got, <<>>), taken),
           NEW m \in Msg, \A x \in Elements(taken) : x[1] = m[1] => x[2] < m[2]
    PROVE  OrderedFrom(Line(Append(got, m), <<>>), Append(taken, m))
<1> DEFINE d == Len(got)
           got2 == Append(got, m)
           line == Line(got, <<>>)
           line2 == Line(got2, <<>>)
<1>1. d \in Nat /\ Len(<<>>) = 0 /\ <<>> \in Seq(Pending)
  BY LenProperties
<1>2. /\ got2 \in Seq(Msg) /\ Len(got2) = d + 1 /\ got2[d + 1] = m
      /\ \A i \in 1 .. d : got2[i] = got[i]
  OBVIOUS
<1> HIDE DEF got2
<1>3. DOMAIN line = 1 .. d + 0 /\ \A i \in 1 .. d : line[i] = got[i]
  BY <1>1, LineFacts
<1>4. DOMAIN line2 = 1 .. (d + 1) + 0 /\ \A i \in 1 .. d + 1 : line2[i] = got2[i]
  <2>1. /\ DOMAIN line2 = 1 .. Len(got2) + Len(<<>>)
        /\ \A i \in 1 .. Len(got2) : line2[i] = got2[i]
    BY <1>1, <1>2, LineFacts
  <2> HIDE DEF line2
  <2> QED
    BY <1>1, <1>2, <2>1
<1> HIDE DEF line, line2, d
<1>5. /\ DOMAIN line = 1 .. d /\ DOMAIN line2 = 1 .. d + 1
      /\ \A i \in 1 .. d : line2[i] = line[i]
      /\ line2[d + 1] = m
  BY <1>1, <1>2, <1>3, <1>4
<1>6. OrderedFrom(line2, Append(taken, m))
  BY <1>1, <1>5, Extended DEF line
<1> QED
  BY <1>6 DEF line2, got2

LEMMA LinedStep ==
    ASSUME TypeOK, NEW lapse, NEW unread, CopyInv(lapse, unread),
           CopiesInTime(lapse, unread), Lined, [Next]_vars
    PROVE  Lined'
<1> SUFFICES ASSUME NEW n \in Node PROVE LinedAt(n)'
  BY DEF Lined
<1>0. /\ delivered[n] \in Seq(Msg) /\ queue[n] \in Seq(Pending) /\ accepted[n] \in Seq(Msg)
      /\ delivered \in [Node -> Seq(Msg)] /\ queue \in [Node -> Seq(Pending)]
      /\ accepted \in [Node -> Seq(Msg)] /\ LinedAt(n)
      /\ OrderedFrom(Line(delivered[n], queue[n]), accepted[n])
  BY DEF TypeOK, LinkOK, HistoryOK, Lined, LinedAt
<1>1. ASSUME delivered'[n] = delivered[n], queue'[n] = queue[n], accepted'[n] = accepted[n],
             pc'[n] = "receive" => pc[n] = "receive"
      PROVE  LinedAt(n)'
  BY <1>0, <1>1 DEF LinedAt
<1>2. ASSUME NEW c \in Node, NEW r \in Reads[c], ReceivePending(c, r.maxLen)
      PROVE  LinedAt(n)'
  <2>1. UNCHANGED <<pc, accepted>> /\ pc[c] = "idle"
    BY <1>2 DEF ReceivePending, control
  <2>2. PICK k \in 1 .. Len(queue[c]) :
            /\ delivered' = [delivered EXCEPT ![c] = Append(@, queue[c][k].msg)]
            /\ queue' = [queue EXCEPT ![c] = SubSeq(@, k + 1, Len(@))]
    BY <1>2 DEF ReceivePending
  <2>3. CASE n # c
    BY <1>0, <1>1, <2>1, <2>2, <2>3
  <2>4. CASE n = c
    <3>1. /\ delivered'[n] = Append(delivered[n], queue[n][k].msg)
          /\ queue'[n] = SubSeq(queue[n], k + 1, Len(queue[n]))
      BY <1>0, <2>2, <2>4
    <3>2. OrderedFrom(Line(delivered'[n], queue'[n]), accepted[n])
      BY <1>0, <2>2, <2>4, <3>1, PoppedLine
    <3> QED
      BY <2>1, <2>4, <3>2 DEF LinedAt
  <2> QED
    BY <2>3, <2>4
<1>3. ASSUME NEW c \in Node, NEW r \in Reads[c], StartReceive(c, r.maxLen, r.timeout)
      PROVE  LinedAt(n)'
  <2>1. /\ UNCHANGED <<accepted, delivered>> /\ queue' = [queue EXCEPT ![c] = <<>>]
        /\ \A o \in Node \ {c} : pc'[o] = pc[o]
    BY <1>3 DEF StartReceive, history, Blocked, TypeOK, ControlOK
  <2>2. CASE n # c
    BY <1>0, <1>1, <2>1, <2>2
  <2>3. CASE n = c
    <3>1. queue'[n] = <<>>
      BY <1>0, <2>1, <2>3
    <3> QED
      BY <1>0, <2>1, <3>1, ClearedLine DEF LinedAt
  <2> QED
    BY <2>2, <2>3
<1>4. ASSUME NEW c \in Node, Takes(c)
      PROVE  /\ inbox[c].msg \in Msg /\ inbox[c].len \in Payload
             /\ accepted'[c] = Append(accepted[c], inbox[c].msg)
             /\ \A o \in Node \ {c} : accepted'[o] = accepted[o]
             /\ \A x \in Elements(accepted[c]) :
                   x[1] = inbox[c].msg[1] => x[2] < inbox[c].msg[2]
  <2>1. inbox[c].msg \in Msg /\ inbox[c].len \in Payload
    BY <1>4, FrameFacts DEF Takes, Heard
  <2>2. accepted'[c] = Append(accepted[c], inbox[c].msg)
        /\ \A o \in Node \ {c} : accepted'[o] = accepted[o]
    BY <1>0, <1>4 DEF Takes
  <2>3. \A x \in Elements(accepted[c]) : x[1] = inbox[c].msg[1] => x[2] < inbox[c].msg[2]
    BY <1>4, TakesNews DEF Takes
  <2> QED
    BY <2>1, <2>2, <2>3
<1>5. ASSUME NEW c \in Node, Queues(c) PROVE LinedAt(n)'
  <2> DEFINE f == inbox[c]
             e == [len |-> f.len, msg |-> f.msg]
  <2>1. Takes(c) /\ UNCHANGED <<delivered, pc>> /\ pc[c] # "receive"
    BY <1>5 DEF Queues
  <2>2. CASE n # c
    <3>1. queue'[n] = queue[n] /\ accepted'[n] = accepted[n]
      BY <1>0, <1>4, <1>5, <2>1, <2>2 DEF Queues
    <3> QED
      BY <1>1, <2>1, <3>1
  <2>3. CASE n = c /\ f.len > 0
    <3>1. queue'[n] = Append(queue[n], e) /\ e \in Pending /\ e.msg = f.msg
      BY <1>0, <1>4, <1>5, <2>1, <2>3 DEF Queues, Pending
    <3>2. accepted'[n] = Append(accepted[n], e.msg) /\ e.msg \in Msg
          /\ \A x \in Elements(accepted[n]) : x[1] = e.msg[1] => x[2] < e.msg[2]
      BY <1>4, <2>1, <2>3, <3>1
    <3> HIDE DEF e
    <3>3. OrderedFrom(Line(delivered[n], queue'[n]), accepted'[n])
      BY <1>0, <3>1, <3>2, QueuedLine
    <3> QED
      BY <2>1, <2>3, <3>3 DEF LinedAt
  <2>4. CASE n = c /\ ~(f.len > 0)
    <3>1. queue' = queue /\ accepted'[n] = Append(accepted[n], f.msg) /\ f.msg \in Msg
      BY <1>4, <1>5, <2>1, <2>4 DEF Queues
    <3>2. Elements(accepted[n]) \subseteq Elements(accepted'[n])
      BY <1>0, <3>1, ElementsAppend
    <3>3. OrderedFrom(Line(delivered[n], queue[n]), accepted'[n])
      BY <1>0, <3>2, OrderedFromMore
    <3> QED
      BY <2>1, <2>4, <3>1, <3>3 DEF LinedAt
  <2> QED
    BY <2>2, <2>3, <2>4
<1>6. ASSUME NEW c \in Node, Hands(c) PROVE LinedAt(n)'
  <2> DEFINE f == inbox[c]
  <2>1. /\ Takes(c) /\ UNCHANGED queue /\ pc[c] = "receive"
        /\ delivered' = [delivered EXCEPT ![c] = Append(@, f.msg)]
        /\ pc' = [pc EXCEPT ![c] = "idle"]
    BY <1>6 DEF Hands, Return, Blocked
  <2>2. CASE n # c
    <3>1. /\ delivered'[n] = delivered[n] /\ accepted'[n] = accepted[n] /\ pc'[n] = pc[n]
      BY <1>0, <1>4, <2>1, <2>2 DEF TypeOK, ControlOK
    <3> QED
      BY <1>1, <2>1, <3>1
  <2>3. CASE n = c
    <3>1. queue[n] = <<>> /\ queue'[n] = <<>>
      BY <1>0, <2>1, <2>3 DEF LinedAt
    <3>2. /\ delivered'[n] = Append(delivered[n], f.msg) /\ f.msg \in Msg
          /\ accepted'[n] = Append(accepted[n], f.msg)
          /\ \A x \in Elements(accepted[n]) : x[1] = f.msg[1] => x[2] < f.msg[2]
      BY <1>0, <1>4, <2>1, <2>3
    <3>3. OrderedFrom(Line(delivered[n], <<>>), accepted[n])
      BY <1>0, <3>1
    <3>4. OrderedFrom(Line(Append(delivered[n], f.msg), <<>>), Append(accepted[n], f.msg))
      BY <1>0, <3>2, <3>3, HandedLine
    <3> QED
      BY <3>1, <3>2, <3>4 DEF LinedAt
  <2> QED
    BY <2>2, <2>3
<1>7. CASE LineSame
  BY <1>1, <1>7 DEF LineSame
<1> QED
  BY <1>2, <1>3, <1>5, <1>6, <1>7, LineMoves DEF Submits, Confirms

(* However often frames and ACKs are lost and retransmitted, an            *)
(* application gets the messages of one sender at most once and in the     *)
(* order of the calls, as long as copies come while they are remembered.   *)
THEOREM DeliveredOnceInOrder ==
    ASSUME NEW lapse, NEW unread, TimelyLink(lapse, unread)
    PROVE  Spec => []OnceInOrder
<1>1. ASSUME Init PROVE Lined
  <2> SUFFICES ASSUME NEW n \in Node PROVE LinedAt(n)
    BY DEF Lined
  <2>1. delivered[n] = <<>> /\ queue[n] = <<>> /\ pc[n] = "idle"
    BY <1>1 DEF Init
  <2>2. DOMAIN Line(<<>>, <<>>) = 1 .. Len(<<>>) + Len(<<>>)
    <3>1. <<>> \in Seq(Msg) /\ <<>> \in Seq(Pending)
      OBVIOUS
    <3> QED
      BY <3>1, LineFacts
  <2> QED
    BY <2>1, <2>2 DEF LinedAt, OrderedFrom
<1>2. ASSUME TypeOK, CopyInv(lapse, unread), Lined, [Next]_vars PROVE Lined'
  BY <1>2, LinedStep DEF TimelyLink
<1>3. ASSUME TypeOK, Lined PROVE OnceInOrder
  <2> SUFFICES ASSUME NEW n \in Node, NEW i \in 1 .. Len(delivered[n]),
                      NEW j \in 1 .. Len(delivered[n]),
                      i < j, delivered[n][i][1] = delivered[n][j][1]
               PROVE  delivered[n][i][2] < delivered[n][j][2]
    BY DEF OnceInOrder
  <2> DEFINE line == Line(delivered[n], queue[n])
             d == Len(delivered[n])
  <2>1. /\ OrderedFrom(line, accepted[n])
        /\ delivered[n] \in Seq(Msg) /\ queue[n] \in Seq(Pending)
    BY <1>3 DEF Lined, LinedAt, TypeOK, LinkOK, HistoryOK
  <2>2. /\ d \in Nat /\ Len(queue[n]) \in Nat /\ DOMAIN line = 1 .. d + Len(queue[n])
        /\ \A k \in 1 .. d : line[k] = delivered[n][k]
    BY <2>1, LineFacts
  <2> HIDE DEF d, line
  <2>3. i \in 1 .. d /\ j \in 1 .. d
    BY DEF d
  <2>4. i \in DOMAIN line /\ j \in DOMAIN line
    BY <2>2, <2>3
  <2> QED
    BY <2>1, <2>2, <2>3, <2>4 DEF OrderedFrom
<1> QED
  BY <1>1, <1>2, <1>3, CopyKept, TypeCorrect, PTL DEF Spec

-----------------------------------------------------------------------------
(* First in, first out, and nothing lost once it is taken in *)

LEMMA PopsFirst ==
    ASSUME TypeOK, ReadsFit, NEW c \in Node, NEW r \in Reads[c], ReceivePending(c, r.maxLen)
    PROVE  /\ Len(queue[c]) \in Nat \ {0}
           /\ delivered' = [delivered EXCEPT ![c] = Append(@, queue[c][1].msg)]
           /\ queue' = [queue EXCEPT ![c] = SubSeq(@, 2, Len(@))]
           /\ UNCHANGED <<pc, job, calls, accepted, acked>> /\ pc[c] = "idle"
<1>1. PICK k \in 1 .. Len(queue[c]) :
          /\ \A j \in 1 .. k - 1 : ~Fits(c, j, r.maxLen)
          /\ delivered' = [delivered EXCEPT ![c] = Append(@, queue[c][k].msg)]
          /\ queue' = [queue EXCEPT ![c] = SubSeq(@, k + 1, Len(@))]
  BY DEF ReceivePending
<1>2. queue[c] \in Seq(Pending)
  BY DEF TypeOK, LinkOK
<1>3. Len(queue[c]) \in Nat /\ k \in Nat
  BY <1>2, LenProperties
<1>4. \A j \in 1 .. Len(queue[c]) : Fits(c, j, r.maxLen)
  <2> TAKE j \in 1 .. Len(queue[c])
  <2>1. queue[c][j] \in Pending
    BY <1>2
  <2> QED
    BY <2>1 DEF Fits, Pending, ReadsFit
<1>5. k = 1
  <2> SUFFICES ASSUME k # 1 PROVE FALSE
    OBVIOUS
  <2>1. 1 \in 1 .. k - 1 /\ 1 \in 1 .. Len(queue[c])
    BY <1>3
  <2> QED
    BY <1>1, <1>4, <2>1
<1>6. UNCHANGED <<pc, job, calls, accepted, acked>> /\ pc[c] = "idle"
  BY DEF ReceivePending, control
<1> QED
  BY <1>1, <1>3, <1>5, <1>6

LEMMA ListensWhenEmpty ==
    ASSUME TypeOK, ReadsFit, NEW c \in Node, NEW r \in Reads[c],
           StartReceive(c, r.maxLen, r.timeout)
    PROVE  /\ queue[c] = <<>> /\ UNCHANGED <<queue, delivered, calls, accepted, acked>>
           /\ pc' = [pc EXCEPT ![c] = "receive"] /\ job'[c].maxLen = r.maxLen
           /\ \A n \in Node \ {c} : job'[n] = job[n]
<1>1. queue[c] \in Seq(Pending) /\ queue \in [Node -> Seq(Pending)]
  BY DEF TypeOK, LinkOK
<1>2. Len(queue[c]) \in Nat
  BY <1>1, LenProperties
<1>3. Len(queue[c]) = 0
  <2> SUFFICES ASSUME Len(queue[c]) # 0 PROVE FALSE
    OBVIOUS
  <2>1. 1 \in 1 .. Len(queue[c]) /\ queue[c][1] \in Pending
    BY <1>1, <1>2
  <2> QED
    BY <2>1 DEF StartReceive, Fits, Pending, ReadsFit
<1>4. queue[c] = <<>>
  BY <1>1, <1>3, EmptySeq
<1>5. UNCHANGED queue
  BY <1>1, <1>4 DEF StartReceive
<1> QED
  BY <1>4, <1>5 DEF StartReceive, Blocked, history, TypeOK, ControlOK

LineKeptAt(n) ==
    /\ Len(accepted[n]) = Len(delivered[n]) + Len(queue[n])
    /\ \A i \in 1 .. Len(delivered[n]) : accepted[n][i] = delivered[n][i]
    /\ \A i \in 1 .. Len(queue[n]) : accepted[n][Len(delivered[n]) + i] = queue[n][i].msg
    /\ pc[n] = "receive" => queue[n] = <<>> /\ \A len \in Payload : len <= job[n].maxLen

LEMMA LineKeptStep ==
    ASSUME TypeOK, ReadsFit, LineKept, [Next]_vars
    PROVE  LineKept'
<1> SUFFICES ASSUME NEW n \in Node PROVE LineKeptAt(n)'
  BY DEF LineKept, LineKeptAt
<1> DEFINE d == Len(delivered[n])
           q == Len(queue[n])
<1>0. /\ delivered \in [Node -> Seq(Msg)] /\ delivered[n] \in Seq(Msg)
      /\ queue \in [Node -> Seq(Pending)] /\ queue[n] \in Seq(Pending)
      /\ accepted \in [Node -> Seq(Msg)] /\ accepted[n] \in Seq(Msg)
      /\ pc \in [Node -> {"idle", "delay", "air", "await", "receive"}]
  BY DEF TypeOK, LinkOK, HistoryOK, ControlOK
<1>1. /\ d \in Nat /\ q \in Nat
      /\ Len(accepted[n]) = d + q
      /\ \A i \in 1 .. d : accepted[n][i] = delivered[n][i]
      /\ \A i \in 1 .. q : accepted[n][d + i] = queue[n][i].msg
      /\ pc[n] = "receive" => queue[n] = <<>> /\ \A len \in Payload : len <= job[n].maxLen
  BY <1>0, LenProperties DEF LineKept
<1>2. ASSUME delivered'[n] = delivered[n], queue'[n] = queue[n], accepted'[n] = accepted[n],
             pc'[n] = "receive" => pc[n] = "receive" /\ job'[n] = job[n]
      PROVE  LineKeptAt(n)'
  BY <1>1, <1>2 DEF LineKeptAt
<1>3. ASSUME NEW c \in Node, NEW r \in Reads[c], ReceivePending(c, r.maxLen)
      PROVE  LineKeptAt(n)'
  <2>1. /\ Len(queue[c]) \in Nat \ {0}
        /\ delivered' = [delivered EXCEPT ![c] = Append(@, queue[c][1].msg)]
        /\ queue' = [queue EXCEPT ![c] = SubSeq(@, 2, Len(@))]
        /\ UNCHANGED <<pc, job, accepted>> /\ pc[c] = "idle"
    BY <1>3, PopsFirst
  <2>2. CASE n # c
    BY <1>0, <1>2, <2>1, <2>2
  <2>3. CASE n = c
    <3>1. q \in Nat \ {0} /\ queue[n][1] \in Pending
      BY <1>0, <2>1, <2>3
    <3>2. queue[n][1].msg \in Msg
      BY <3>1 DEF Pending
    <3>3. delivered'[n] = Append(delivered[n], queue[n][1].msg) /\ queue'[n] = SubSeq(queue[n], 2, q)
      BY <1>0, <2>1, <2>3
    <3>4. /\ Len(delivered'[n]) = d + 1 /\ delivered'[n][d + 1] = queue[n][1].msg
          /\ \A i \in 1 .. d : delivered'[n][i] = delivered[n][i]
      BY <1>0, <3>2, <3>3
    <3>5. Len(queue'[n]) = q - 1 /\ \A i \in 1 .. q - 1 : queue'[n][i] = queue[n][i + 1]
      <4>0. \A i \in 2 .. q : queue[n][i] \in Pending
        BY <1>0, <3>1
      <4> HIDE DEF q
      <4>1. /\ Len(queue'[n]) = IF 2 <= q THEN q - 2 + 1 ELSE 0
            /\ \A i \in 1 .. q - 2 + 1 : queue'[n][i] = queue[n][2 + i - 1]
        BY <3>1, <3>3, <4>0, SubSeqProperties
      <4>2. \A i \in 1 .. q - 1 : 2 + i - 1 = i + 1
        BY <3>1
      <4>3. q - 2 + 1 = q - 1
        BY <3>1
      <4>4. Len(queue'[n]) = q - 1
        BY <3>1, <4>1
      <4> QED
        BY <4>1, <4>2, <4>3, <4>4
    <3> HIDE DEF d, q
    <3>6. Len(accepted[n]) = (d + 1) + (q - 1)
      BY <1>1, <3>1
    <3>7. \A i \in 1 .. d + 1 : accepted[n][i] = delivered'[n][i]
      <4> TAKE i \in 1 .. d + 1
      <4>1. CASE i = d + 1
        BY <1>1, <3>1, <3>4, <4>1
      <4>2. CASE i # d + 1
        <5>1. i \in 1 .. d
          BY <1>1, <4>2
        <5> QED
          BY <1>1, <3>4, <5>1
      <4> QED
        BY <4>1, <4>2
    <3>8. \A i \in 1 .. q - 1 : accepted[n][(d + 1) + i] = queue'[n][i].msg
      <4> TAKE i \in 1 .. q - 1
      <4>1. i + 1 \in 1 .. q /\ d + (i + 1) = (d + 1) + i
        BY <1>1
      <4> QED
        BY <1>1, <3>5, <4>1
    <3> QED
      BY <2>1, <2>3, <3>4, <3>5, <3>6, <3>7, <3>8 DEF LineKeptAt
  <2> QED
    BY <2>2, <2>3
<1>4. ASSUME NEW c \in Node, NEW r \in Reads[c], StartReceive(c, r.maxLen, r.timeout)
      PROVE  LineKeptAt(n)'
  <2>1. /\ queue[c] = <<>> /\ UNCHANGED <<queue, delivered, accepted>>
        /\ pc' = [pc EXCEPT ![c] = "receive"] /\ job'[c].maxLen = r.maxLen
        /\ \A o \in Node \ {c} : job'[o] = job[o]
    BY <1>4, ListensWhenEmpty
  <2>2. CASE n # c
    BY <1>0, <1>2, <2>1, <2>2
  <2>3. CASE n = c
    BY <1>1, <2>1, <2>3 DEF LineKeptAt, ReadsFit
  <2> QED
    BY <2>2, <2>3
<1>5. ASSUME NEW c \in Node, Takes(c)
      PROVE  /\ inbox[c].msg \in Msg /\ inbox[c].len \in Payload /\ inbox[c].len > 0
             /\ accepted'[c] = Append(accepted[c], inbox[c].msg)
             /\ \A o \in Node \ {c} : accepted'[o] = accepted[o]
  <2>1. inbox[c].msg \in Msg /\ inbox[c].len \in Payload
    BY <1>5, FrameFacts DEF Takes, Heard
  <2>2. inbox[c].len \in Nat \ {0}
    BY <2>1, LinkAssumption DEF ReadsFit
  <2> QED
    BY <1>0, <1>5, <2>1, <2>2 DEF Takes
<1>6. ASSUME NEW c \in Node, Queues(c) PROVE LineKeptAt(n)'
  <2> DEFINE f == inbox[c]
             e == [len |-> f.len, msg |-> f.msg]
  <2>1. Takes(c) /\ UNCHANGED <<delivered, pc, job>> /\ pc[c] # "receive"
    BY <1>6 DEF Queues
  <2>2. queue' = [queue EXCEPT ![c] = Append(@, e)]
    BY <1>5, <1>6, <2>1 DEF Queues
  <2>3. CASE n # c
    BY <1>0, <1>2, <1>5, <2>1, <2>2, <2>3
  <2>4. CASE n = c
    <3>1. queue'[n] = Append(queue[n], e) /\ e \in Pending /\ e.msg = f.msg
      BY <1>0, <1>5, <2>1, <2>2, <2>4 DEF Pending
    <3> HIDE DEF e
    <3>2. /\ Len(queue'[n]) = q + 1 /\ queue'[n][q + 1] = e
          /\ \A i \in 1 .. q : queue'[n][i] = queue[n][i]
      BY <1>0, <3>1
    <3>3. accepted'[n] = Append(accepted[n], f.msg) /\ f.msg \in Msg
      BY <1>5, <2>1, <2>4
    <3>4. /\ Len(accepted'[n]) = (d + q) + 1 /\ accepted'[n][(d + q) + 1] = f.msg
          /\ \A i \in 1 .. d + q : accepted'[n][i] = accepted[n][i]
      <4>1. /\ Len(accepted'[n]) = Len(accepted[n]) + 1
            /\ accepted'[n][Len(accepted[n]) + 1] = f.msg
            /\ \A i \in 1 .. Len(accepted[n]) : accepted'[n][i] = accepted[n][i]
        BY <1>0, <3>3
      <4> QED
        BY <1>1, <4>1
    <3> HIDE DEF d, q
    <3>5. \A i \in 1 .. d : i \in 1 .. d + q
      BY <1>1
    <3>6. \A i \in 1 .. d : accepted'[n][i] = delivered[n][i]
      BY <1>1, <3>4, <3>5
    <3>7. \A i \in 1 .. q + 1 : accepted'[n][d + i] = queue'[n][i].msg
      <4> TAKE i \in 1 .. q + 1
      <4>1. CASE i = q + 1
        <5>1. d + i = (d + q) + 1
          BY <1>1, <4>1
        <5> QED
          BY <3>1, <3>2, <3>4, <4>1, <5>1
      <4>2. CASE i # q + 1
        <5>1. i \in 1 .. q /\ d + i \in 1 .. d + q
          BY <1>1, <4>2
        <5> QED
          BY <1>1, <3>2, <3>4, <5>1
      <4> QED
        BY <4>1, <4>2
    <3>8. Len(accepted'[n]) = d + (q + 1)
      BY <1>1, <3>4
    <3> QED
      BY <2>1, <2>4, <3>2, <3>6, <3>7, <3>8 DEF LineKeptAt, d
  <2> QED
    BY <2>3, <2>4
<1>7. ASSUME NEW c \in Node, Hands(c) PROVE LineKeptAt(n)'
  <2> DEFINE f == inbox[c]
  <2>1. /\ Takes(c) /\ UNCHANGED queue /\ pc[c] = "receive"
        /\ delivered' = [delivered EXCEPT ![c] = Append(@, f.msg)]
        /\ pc' = [pc EXCEPT ![c] = "idle"] /\ job' = [job EXCEPT ![c] = NoJob]
    BY <1>7 DEF Hands, Return, Blocked
  <2>2. CASE n # c
    <3>1. delivered'[n] = delivered[n] /\ pc'[n] = pc[n] /\ job'[n] = job[n]
      BY <1>0, <2>1, <2>2 DEF TypeOK, ControlOK
    <3> QED
      BY <1>2, <1>5, <2>1, <2>2, <3>1
  <2>3. CASE n = c
    <3>1. queue[n] = <<>> /\ q = 0 /\ queue'[n] = <<>> /\ Len(queue'[n]) = 0 /\ pc'[n] = "idle"
      BY <1>0, <1>1, <2>1, <2>3
    <3>2. /\ delivered'[n] = Append(delivered[n], f.msg) /\ f.msg \in Msg
          /\ accepted'[n] = Append(accepted[n], f.msg)
      BY <1>0, <1>5, <2>1, <2>3
    <3>3. /\ Len(delivered'[n]) = d + 1 /\ delivered'[n][d + 1] = f.msg
          /\ \A i \in 1 .. d : delivered'[n][i] = delivered[n][i]
      BY <1>0, <3>2
    <3>4. Len(accepted[n]) = d
      BY <1>1, <3>1
    <3>5. /\ Len(accepted'[n]) = d + 1 /\ accepted'[n][d + 1] = f.msg
          /\ \A i \in 1 .. d : accepted'[n][i] = accepted[n][i]
      <4>1. /\ Len(accepted'[n]) = Len(accepted[n]) + 1
            /\ accepted'[n][Len(accepted[n]) + 1] = f.msg
            /\ \A i \in 1 .. Len(accepted[n]) : accepted'[n][i] = accepted[n][i]
        BY <1>0, <3>2
      <4> QED
        BY <3>4, <4>1
    <3> HIDE DEF d, q
    <3>6. \A i \in 1 .. d + 1 : i \in 1 .. d \/ i = d + 1
      BY <1>1
    <3>7. Len(accepted'[n]) = (d + 1) + 0
          /\ \A i \in 1 .. d + 1 : accepted'[n][i] = delivered'[n][i]
      BY <1>1, <3>3, <3>5, <3>6
    <3> QED
      BY <3>1, <3>3, <3>7 DEF LineKeptAt
  <2> QED
    BY <2>2, <2>3
<1>8. CASE LineSame
  BY <1>2, <1>8 DEF LineSame
<1> QED
  BY <1>3, <1>4, <1>6, <1>7, <1>8, LineMoves DEF Submits, Confirms

LEMMA LineAlwaysKept == ReadsFit => (Spec => []LineKept)
<1> SUFFICES ASSUME ReadsFit PROVE Spec => []LineKept
  OBVIOUS
<1>1. ASSUME Init PROVE LineKept
  BY <1>1 DEF Init, LineKept
<1>2. ASSUME TypeOK, LineKept, [Next]_vars PROVE LineKept'
  BY <1>2, LineKeptStep
<1> QED
  BY <1>1, <1>2, TypeCorrect, PTL DEF Spec

(* What the sender was told is delivered has been returned by a            *)
(* receivePacket(), or waits in the queue of a busy link for the next one. *)
THEOREM AckedWasDelivered ==
    ReadsFit /\ DistinctIds /\ NoWrap => (Spec => []AckedReachesReader)
<1> SUFFICES ASSUME ReadsFit, DistinctIds, NoWrap PROVE Spec => []AckedReachesReader
  OBVIOUS
<1>1. ASSUME TypeOK, LineKept, AckedMeansAccepted PROVE AckedReachesReader
  <2> SUFFICES ASSUME NEW m \in acked
               PROVE  \E n \in Node : m \in Elements(delivered[n]) \cup Kept(n)
    BY DEF AckedReachesReader
  <2>1. PICK n \in Node : m \in Elements(accepted[n])
    BY <1>1 DEF AckedMeansAccepted
  <2>2. PICK i \in 1 .. Len(accepted[n]) : m = accepted[n][i]
    BY <2>1 DEF Elements
  <2> DEFINE d == Len(delivered[n])
             q == Len(queue[n])
  <2>3. /\ d \in Nat /\ q \in Nat /\ Len(accepted[n]) = d + q
        /\ \A k \in 1 .. d : accepted[n][k] = delivered[n][k]
        /\ \A k \in 1 .. q : accepted[n][d + k] = queue[n][k].msg
    BY <1>1, LenProperties DEF LineKept, TypeOK, LinkOK, HistoryOK
  <2> HIDE DEF d, q
  <2>4. CASE i <= d
    <3>1. i \in 1 .. d
      BY <2>3, <2>4
    <3>2. m = delivered[n][i]
      BY <2>2, <2>3, <3>1
    <3> QED
      BY <3>1, <3>2 DEF Elements, d
  <2>5. CASE ~(i <= d)
    <3> DEFINE k == i - d
    <3>1. k \in 1 .. q /\ i = d + k
      BY <2>3, <2>5
    <3> HIDE DEF k
    <3>2. m = queue[n][k].msg
      BY <2>2, <2>3, <3>1
    <3> QED
      BY <3>1, <3>2 DEF Kept, q
  <2> QED
    BY <2>4, <2>5
<1> QED
  BY <1>1, LineAlwaysKept, AckedWasAccepted, TypeCorrect, PTL

-----------------------------------------------------------------------------
(* The link implements the abstract service *)

(* Every step of the link is a step of the service, or none. *)
LEMMA StepRefines ==
    ASSUME TypeOK, NEW lapse, NEW unread, CopyInv(lapse, unread),
           CopiesInTime(lapse, unread), ReadsFit, LineKept, AckedMeansAccepted', [Next]_vars
    PROVE  [Delivery!Next]_(Delivery!vars)
<1>0. /\ delivered \in [Node -> Seq(Msg)] /\ queue \in [Node -> Seq(Pending)]
      /\ accepted \in [Node -> Seq(Msg)] /\ calls \in [Node -> Nat]
      /\ pc \in [Node -> {"idle", "delay", "air", "await", "receive"}]
      /\ CopyInv(lapse, unread)
  BY DEF TypeOK, LinkOK, HistoryOK, ControlOK
<1>1. CASE LineSame /\ UNCHANGED <<calls, acked>>
  BY <1>1 DEF LineSame, Delivery!vars
<1>2. ASSUME NEW c \in Node, Submits(c) PROVE Delivery!Next
  <2>1. Delivery!Submit(c)
    BY <1>2 DEF Submits, LineSame, Delivery!Submit
  <2> QED
    BY <2>1 DEF Delivery!Next
<1>3. \A n \in Node : \A k \in 1 .. calls[n] : <<n, k>> \in Delivery!Message
  BY DEF Delivery!Message
<1>4. \A m \in Msg : m[2] <= calls[m[1]] => m \in Delivery!Message
  <2> TAKE m \in Msg
  <2> HAVE m[2] <= calls[m[1]]
  <2>1. m[1] \in Node /\ m[2] \in Nat \ {0} /\ m = <<m[1], m[2]>>
    BY DEF Msg
  <2>2. calls[m[1]] \in Nat
    BY <1>0, <2>1
  <2>3. m[2] \in 1 .. calls[m[1]]
    BY <2>1, <2>2
  <2> QED
    BY <1>3, <2>1, <2>3
<1>5. ASSUME NEW c \in Node, Confirms(c) PROVE Delivery!Next
  <2> DEFINE m == job[c].frame.msg
  <2>1. /\ UNCHANGED <<accepted, delivered, calls>> /\ acked' = acked \cup {m}
        /\ pc[c] = "await"
    BY <1>5 DEF Confirms, LineSame
  <2>2. m = <<c, calls[c]>> /\ m \in Msg
    <3>1. Sending(c)
      BY <2>1 DEF Sending
    <3>2. m = <<c, calls[c]>> /\ job[c].frame \in DataFrame
      BY <1>0, <3>1, CallFacts DEF CopyInv, JobsAsked
    <3> QED
      BY <3>2, FrameFacts
  <2>3. m \in Delivery!Message
    BY <1>0, <1>4, <2>2
  <2>4. PICK n \in Node : m \in Elements(accepted[n])
    BY <2>1 DEF AckedMeansAccepted
  <2>5. Delivery!Confirm(m)
    BY <2>1, <2>4 DEF Delivery!Confirm, Elements
  <2> QED
    BY <2>3, <2>5 DEF Delivery!Next
<1>6. ASSUME NEW c \in Node, NEW r \in Reads[c], ReceivePending(c, r.maxLen)
      PROVE  Delivery!Next
  <2>1. /\ Len(queue[c]) \in Nat \ {0}
        /\ delivered' = [delivered EXCEPT ![c] = Append(@, queue[c][1].msg)]
        /\ UNCHANGED <<calls, accepted, acked>>
    BY <1>6, PopsFirst
  <2> DEFINE d == Len(delivered[c])
             q == Len(queue[c])
  <2>2. /\ d \in Nat /\ Len(accepted[c]) = d + q
        /\ \A i \in 1 .. q : accepted[c][d + i] = queue[c][i].msg
    BY <1>0, LenProperties DEF LineKept
  <2>3. Len(delivered[c]) < Len(accepted[c])
    <3>1. q \in Nat \ {0} /\ d < d + q
      <4> HIDE DEF d
      <4> QED
        BY <2>1, <2>2
    <3> HIDE DEF d, q
    <3>2. d < Len(accepted[c])
      BY <2>2, <3>1
    <3> QED
      BY <3>2 DEF d
  <2>4. accepted[c][d + 1] = queue[c][1].msg
    BY <2>1, <2>2
  <2>5. delivered' = [delivered EXCEPT ![c] = Append(@, accepted[c][Len(@) + 1])]
    BY <2>1, <2>4
  <2>6. Delivery!HandOver(c)
    BY <2>1, <2>3, <2>5 DEF Delivery!HandOver
  <2> QED
    BY <2>6 DEF Delivery!Next
<1>7. ASSUME NEW c \in Node, NEW r \in Reads[c], StartReceive(c, r.maxLen, r.timeout)
      PROVE  UNCHANGED Delivery!vars
  BY <1>7, ListensWhenEmpty DEF Delivery!vars
<1>8. ASSUME NEW c \in Node, Takes(c)
      PROVE  Delivery!Take(c, inbox[c].msg) /\ inbox[c].msg \in Delivery!Message
  <2>1. /\ Heard(c) /\ IsForUs(c, inbox[c]) /\ ~DuplicateOf(c, inbox[c])
        /\ accepted' = [accepted EXCEPT ![c] = Append(@, inbox[c].msg)]
    BY <1>8 DEF Takes
  <2>2. inbox[c].msg \in Msg /\ inbox[c].msg[2] <= calls[inbox[c].msg[1]]
    BY <2>1, FrameFacts DEF Heard, CopyInv, BuffersAsked
  <2>3. \A x \in Elements(accepted[c]) : x[1] = inbox[c].msg[1] => x[2] < inbox[c].msg[2]
    BY <1>0, <2>1, TakesNews
  <2>4. Delivery!IsNews(c, inbox[c].msg)
    BY <2>3 DEF Delivery!IsNews, Elements
  <2> QED
    BY <1>4, <2>1, <2>2, <2>4 DEF Delivery!Take
<1>9. ASSUME NEW c \in Node, Queues(c) PROVE Delivery!Next
  <2>1. Takes(c) /\ UNCHANGED <<calls, delivered, acked>>
    BY <1>9 DEF Queues, Takes
  <2>2. Delivery!Keep(c, inbox[c].msg)
    BY <1>8, <2>1 DEF Delivery!Keep
  <2> QED
    BY <1>8, <2>1, <2>2 DEF Delivery!Next
<1>10. ASSUME NEW c \in Node, Hands(c) PROVE Delivery!Next
  <2>1. /\ Takes(c) /\ UNCHANGED <<calls, acked>> /\ pc[c] = "receive"
        /\ delivered' = [delivered EXCEPT ![c] = Append(@, inbox[c].msg)]
    BY <1>10 DEF Hands, Takes
  <2>2. delivered[c] = accepted[c]
    <3> DEFINE d == Len(delivered[c])
    <3>1. delivered[c] \in Seq(Msg) /\ accepted[c] \in Seq(Msg) /\ d \in Nat
      BY <1>0, LenProperties
    <3>2. /\ Len(accepted[c]) = d + Len(queue[c]) /\ queue[c] = <<>>
          /\ \A i \in 1 .. d : accepted[c][i] = delivered[c][i]
      BY <2>1 DEF LineKept
    <3>3. Len(accepted[c]) = d
      BY <3>1, <3>2
    <3> QED
      BY <3>1, <3>2, <3>3, SeqEqual
  <2>3. Delivery!TakeDirectly(c, inbox[c].msg)
    BY <1>8, <2>1, <2>2 DEF Delivery!TakeDirectly
  <2> QED
    BY <1>8, <2>1, <2>3 DEF Delivery!Next
<1> QED
  BY <1>1, <1>2, <1>5, <1>6, <1>7, <1>9, <1>10, LineMoves

(* The link implements the abstract service: messages are taken in once    *)
(* and in order, returned first in, first out with none missing, and       *)
(* confirmed only when taken in.                                           *)
THEOREM LinkImplementsDelivery ==
    ASSUME NEW lapse, NEW unread, TimelyLink(lapse, unread), ReadsFit, DistinctIds, NoWrap
    PROVE  Spec => ImplementsDelivery
<1>1. Init => Delivery!Init
  BY DEF Init, Delivery!Init
<1>2. ASSUME TypeOK, CopyInv(lapse, unread), LineKept, AckedMeansAccepted', [Next]_vars
      PROVE  [Delivery!Next]_(Delivery!vars)
  BY <1>2, StepRefines DEF TimelyLink
<1>3. Spec => []TypeOK /\ []CopyInv(lapse, unread) /\ []LineKept /\ []AckedMeansAccepted
  <2>1. Spec => []CopyInv(lapse, unread)
    BY CopyKept
  <2>2. Spec => []LineKept
    BY LineAlwaysKept
  <2>3. Spec => []AckedMeansAccepted
    BY AckedWasAccepted
  <2> QED
    BY <2>1, <2>2, <2>3, TypeCorrect, PTL
<1> QED
  BY <1>1, <1>2, <1>3, PTL DEF Spec, ImplementsDelivery, Delivery!Spec

-----------------------------------------------------------------------------
(* The times of the code *)

(* What holds of the numbers in the code as it comes: MAX_BACKOFF_SLOTS is *)
(* 16, the margins are 100 and 20 ms, an ACK is awaited for 300 or 500 ms, *)
(* the duplicate window is 5000 ms, maxRetries is 3 unless the caller says *)
(* otherwise.  A slot is no shorter than the frame when the driver reports *)
(* times on air; an ACK is the shortest frame there is.                    *)
CodeTimes ==
    /\ MaxBackoffSlots >= 16
    /\ AckMargin <= 6 * SlotMargin
    /\ 4 * ConfiguredAckTimeout <= ConfiguredDupWindow
    /\ \A len \in Payload : AckAirTime <= AirTime[len] /\ AirTime[len] <= SlotMs(len)
    /\ \A n \in Node : \A r \in Requests[n] : Tries(r) <= 3

(* The window is four ACK waits or more, and 16 slots and two besides one. *)
LEMMA WindowRoom ==
    ASSUME CodeTimes, NEW len \in Payload
    PROVE  /\ 4 * EffectiveAckTimeout <= EffectiveDupWindow(len)
           /\ EffectiveAckTimeout + 18 * SlotMs(len) <= EffectiveDupWindow(len)
<1>1. /\ AirTime[len] \in Nat /\ SlotMs(len) \in Nat /\ EffectiveAckTimeout \in Nat
      /\ EffectiveDupWindow(len) \in Nat /\ AckAirTime \in Nat /\ AckMargin \in Nat
      /\ SlotMargin \in Nat /\ ConfiguredAckTimeout \in Nat /\ ConfiguredDupWindow \in Nat
      /\ MaxBackoffSlots \in Nat
  BY TimingTypes, TimingAssumption
<1> DEFINE worst == EffectiveAckTimeout + (MaxBackoffSlots + 2) * SlotMs(len)
<1>2. 18 * SlotMs(len) <= (MaxBackoffSlots + 2) * SlotMs(len)
      /\ (MaxBackoffSlots + 2) * SlotMs(len) \in Nat
  <2>1. \A x, y, z \in Nat : x <= y => x * z <= y * z /\ y * z \in Nat
    BY SMTT(30)
  <2>2. 18 <= MaxBackoffSlots + 2
    BY <1>1 DEF CodeTimes
  <2> QED BY <1>1, <2>1, <2>2
<1>3. worst <= EffectiveDupWindow(len) /\ ConfiguredDupWindow <= EffectiveDupWindow(len)
  <2>1. worst \in Nat
    BY <1>1, <1>2
  <2>2. EffectiveDupWindow(len) = IF worst > ConfiguredDupWindow THEN worst ELSE ConfiguredDupWindow
    BY DEF EffectiveDupWindow
  <2> HIDE DEF worst
  <2> QED BY <1>1, <2>1, <2>2
<1>4. EffectiveAckTimeout + 18 * SlotMs(len) <= EffectiveDupWindow(len)
  BY <1>1, <1>2, <1>3
<1>5. CASE EffectiveAckTimeout = ConfiguredAckTimeout
  BY <1>1, <1>3, <1>4, <1>5 DEF CodeTimes
<1>6. CASE EffectiveAckTimeout # ConfiguredAckTimeout
  <2>1. EffectiveAckTimeout = 2 * AckAirTime + AckMargin /\ AckAirTime > 0 /\ ReportsAirtime
    BY <1>1, <1>6 DEF EffectiveAckTimeout, Reported
  <2>2. AckAirTime <= AirTime[len]
    BY DEF CodeTimes
  <2>3. SlotMs(len) = AirTime[len] + AckAirTime + SlotMargin
    BY <1>1, <2>1, <2>2 DEF SlotMs, Reported
  <2>4. AckMargin <= 6 * SlotMargin
    BY DEF CodeTimes
  <2> QED BY <1>1, <1>4, <2>1, <2>2, <2>3, <2>4
<1> QED BY <1>4, <1>5, <1>6

(* The wait before a retransmission: at most two slots after the first     *)
(* attempt, four after the second, and half a slot of access delay.        *)
LEMMA WaitsAreShort ==
    ASSUME NEW len \in Payload
    PROVE  /\ \A d \in RetryDelays(0, SlotMs(len)) : d \in Nat /\ d <= 2 * SlotMs(len)
           /\ \A d \in RetryDelays(1, SlotMs(len)) : d \in Nat /\ d <= 4 * SlotMs(len)
           /\ \A d \in PreSendDelays(SlotMs(len)) : d \in Nat /\ d <= SlotMs(len) \div 2
<1>1. SlotMs(len) \in Nat /\ MaxBackoffSlots \in Nat
  BY TimingTypes, TimingAssumption
<1>2. /\ \A d \in RetryDelays(0, SlotMs(len)) : d \in Nat
      /\ \A d \in RetryDelays(1, SlotMs(len)) : d \in Nat
      /\ \A d \in PreSendDelays(SlotMs(len)) : d \in Nat
  BY TimingTypes
<1>3. 2 ^ (0 + 1) = 2 /\ 2 ^ (1 + 1) = 4
  OBVIOUS
<1>4. /\ \A d \in RetryDelays(0, SlotMs(len)) : d <= 2 * SlotMs(len)
      /\ \A d \in RetryDelays(1, SlotMs(len)) : d <= 4 * SlotMs(len)
  BY <1>1, <1>2, <1>3 DEF RetryDelays
<1>5. ASSUME NEW d \in PreSendDelays(SlotMs(len)) PROVE d <= SlotMs(len) \div 2
  <2> DEFINE tenth == SlotMs(len) \div 10
             some == (SlotMs(len) * 4) \div 10
             half == SlotMs(len) \div 2
  <2>1. tenth \in Nat /\ some \in Nat /\ half \in Nat /\ tenth + some <= half
    BY <1>1
  <2>2. d = 0 \/ \E r \in RandomBelow(some) : d = tenth + r
    BY DEF PreSendDelays
  <2>3. \A r \in RandomBelow(some) : r \in Nat /\ r <= some
    BY <2>1 DEF RandomBelow
  <2> HIDE DEF tenth, some, half
  <2>4. d <= half
    BY <2>1, <2>2, <2>3
  <2> QED BY <2>4 DEF half
<1> QED BY <1>2, <1>4, <1>5

(* How long three attempts take, by the attempt they are counted from.     *)
Lapsing == [len \in Payload |->
    [k \in 0 .. 2 |->
        IF k = 0 THEN 2 * EffectiveAckTimeout + 9 * SlotMs(len)
        ELSE IF k = 1 THEN EffectiveAckTimeout + 5 * SlotMs(len) + SlotMs(len) \div 2
        ELSE 0]]

LEMMA LapsingIs ==
    ASSUME NEW len \in Payload
    PROVE  /\ Lapsing[len][0] = 2 * EffectiveAckTimeout + 9 * SlotMs(len)
           /\ Lapsing[len][1] = EffectiveAckTimeout + 5 * SlotMs(len) + SlotMs(len) \div 2
           /\ Lapsing[len][2] = 0
           /\ \A k \in 0 .. 2 : Lapsing[len][k] \in Nat
           /\ \A k \in 1 .. 2 : EffectiveAckTimeout <= Lapsing[len][k - 1]
<1>1. SlotMs(len) \in Nat /\ EffectiveAckTimeout \in Nat /\ SlotMs(len) \div 2 \in Nat
  BY TimingTypes
<1>2. /\ Lapsing[len][0] = 2 * EffectiveAckTimeout + 9 * SlotMs(len)
      /\ Lapsing[len][1] = EffectiveAckTimeout + 5 * SlotMs(len) + SlotMs(len) \div 2
      /\ Lapsing[len][2] = 0
  BY DEF Lapsing
<1>3. \A k \in 0 .. 2 : k = 0 \/ k = 1 \/ k = 2
  OBVIOUS
<1>4. Lapsing[len][0] \in Nat /\ Lapsing[len][1] \in Nat /\ Lapsing[len][2] \in Nat
  BY ONLY <1>1, <1>2
<1>5. \A k \in 1 .. 2 : k - 1 = 0 \/ k - 1 = 1
  OBVIOUS
<1>6. EffectiveAckTimeout <= Lapsing[len][0] /\ EffectiveAckTimeout <= Lapsing[len][1]
  BY ONLY <1>1, <1>2
<1> QED BY <1>2, <1>3, <1>4, <1>5, <1>6

(* The ACK wait, the backoff, the access delay and the frame fit between.  *)
LEMMA AttemptsFit ==
    ASSUME CodeTimes, NEW len \in Payload, NEW k \in 1 .. 2,
           NEW after \in RetryDelays(k - 1, SlotMs(len)), NEW before \in PreSendDelays(SlotMs(len))
    PROVE  EffectiveAckTimeout + after + before + AirTime[len] + Lapsing[len][k]
               <= Lapsing[len][k - 1]
<1> DEFINE slot == SlotMs(len)  half == slot \div 2  ack == EffectiveAckTimeout
           air == AirTime[len]
<1>1. /\ slot \in Nat /\ half \in Nat /\ 2 * half <= slot /\ ack \in Nat /\ air \in Nat
      /\ air <= slot /\ before \in Nat /\ before <= half
  <2>1. slot \in Nat /\ ack \in Nat /\ air \in Nat
    BY TimingTypes
  <2>2. half \in Nat /\ 2 * half <= slot
    BY <2>1
  <2>3. air <= slot
    BY DEF CodeTimes
  <2> QED BY <2>1, <2>2, <2>3, WaitsAreShort
<1>2. /\ Lapsing[len][0] = 2 * ack + 9 * slot
      /\ Lapsing[len][1] = ack + 5 * slot + half
      /\ Lapsing[len][2] = 0
  BY LapsingIs
<1>3. CASE k = 1
  <2>1. after \in Nat /\ after <= 2 * slot /\ k - 1 = 0
    BY <1>3, WaitsAreShort
  <2> HIDE DEF slot, half, ack, air
  <2>2. ack + after + before + air + Lapsing[len][k] <= Lapsing[len][k - 1]
    BY <1>1, <1>2, <1>3, <2>1
  <2> QED BY <2>2 DEF ack, air
<1>4. CASE k = 2
  <2>1. after \in Nat /\ after <= 4 * slot /\ k - 1 = 1
    BY <1>4, WaitsAreShort
  <2> HIDE DEF slot, half, ack, air
  <2>2. ack + after + before + air + Lapsing[len][k] <= Lapsing[len][k - 1]
    BY <1>1, <1>2, <1>4, <2>1
  <2> QED BY <2>2 DEF ack, air
<1> QED BY <1>3, <1>4

(* Three attempts, and those of the receiver that keep it from reading in  *)
(* the meantime, are over while the first copy is remembered.              *)
LEMMA ThreeAttemptsInTime ==
    ASSUME CodeTimes, OneWindow
    PROVE  \E unread : CopiesInTime(Lapsing, unread)
<1>0. \A n \in Node : \A r \in Requests[n] : r.len \in Payload /\ r.maxRetries \in Nat
  BY LinkAssumption
<1>1. CASE Payload = {}
  <2> DEFINE unread == [n \in Node |-> 0]
  <2>1. \A n \in Node : Requests[n] = {}
    BY <1>0, <1>1
  <2>2. unread \in [Node -> Nat]
    OBVIOUS
  <2> HIDE DEF unread
  <2>3. CopiesInTime(Lapsing, unread)
    BY <2>1, <2>2 DEF CopiesInTime
  <2> QED BY <2>3
<1>2. CASE Payload # {}
  <2>1. PICK any \in Payload : TRUE
    BY <1>2
  <2> DEFINE ack == EffectiveAckTimeout
             window == EffectiveDupWindow(any)
             spare == (window - ack) \div 6
             unread == [n \in Node |-> spare]
  <2>2. /\ window \in Nat /\ ack \in Nat /\ 4 * ack <= window
        /\ \A len \in Payload : EffectiveDupWindow(len) = window
    BY WindowRoom, TimingTypes DEF OneWindow
  <2>3. spare \in Nat /\ 6 * spare <= window - ack
    BY <2>2
  <2>4. ASSUME NEW len \in Payload
        PROVE  /\ AirTime[len] \in Nat /\ 3 * AirTime[len] <= spare
               /\ Lapsing[len][0] \in Nat /\ Lapsing[len][0] + spare <= window
    <3> DEFINE slot == SlotMs(len)
    <3>1. slot \in Nat /\ AirTime[len] \in Nat /\ AirTime[len] <= slot
      BY TimingTypes DEF CodeTimes
    <3>2. ack + 18 * slot <= window
      BY <2>2, WindowRoom
    <3>3. Lapsing[len][0] = 2 * ack + 9 * slot
      BY LapsingIs
    <3> HIDE DEF slot, ack, window
    <3>4. 3 * slot <= spare
      BY <2>2, <3>1, <3>2
    <3> HIDE DEF spare
    <3> QED BY <2>2, <2>3, <3>1, <3>2, <3>3, <3>4
  <2>5. unread \in [Node -> Nat] /\ \A n \in Node : unread[n] = spare
    BY <2>3
  <2> HIDE DEF ack, window, spare, unread
  <2>6. ASSUME NEW n \in Node, NEW r \in Requests[n]
        PROVE  Tries(r) \in {1, 2, 3} /\ Tries(r) * AirTime[r.len] <= unread[n]
    <3>1. Tries(r) \in Nat /\ 1 <= Tries(r) /\ Tries(r) <= 3
      BY <1>0 DEF Tries, CodeTimes
    <3>2. AirTime[r.len] \in Nat /\ 3 * AirTime[r.len] <= spare
      BY <1>0, <2>4
    <3>3. Tries(r) = 1 \/ Tries(r) = 2 \/ Tries(r) = 3
      BY <3>1
    <3> QED BY <2>3, <2>5, <3>2, <3>3
  <2>7. ASSUME NEW n \in Node, NEW r \in Requests[n], NEW k \in 0 .. Tries(r) - 1
        PROVE  k \in 0 .. 2 /\ Lapsing[r.len][k] \in Nat
    BY <1>0, <2>6, LapsingIs
  <2>8. ASSUME NEW n \in Node, NEW r \in Requests[n], NEW k \in 1 .. Tries(r) - 1
        PROVE  /\ EffectiveAckTimeout <= Lapsing[r.len][k - 1]
               /\ \A after \in RetryDelays(k - 1, SlotMs(r.len)),
                     before \in PreSendDelays(SlotMs(r.len)) :
                     EffectiveAckTimeout + after + before + AirTime[r.len]
                         + Lapsing[r.len][k] <= Lapsing[r.len][k - 1]
    <3>1. r.len \in Payload /\ k \in 1 .. 2
      BY <1>0, <2>6
    <3>2. EffectiveAckTimeout <= Lapsing[r.len][k - 1]
      BY <3>1, LapsingIs
    <3> QED BY <3>1, <3>2, AttemptsFit
  <2>9. ASSUME NEW n \in Node, NEW r \in Requests[n], NEW o \in Node
        PROVE  Lapsing[r.len][0] + unread[o] <= EffectiveDupWindow(r.len)
    BY <1>0, <2>2, <2>4, <2>5
  <2>10. CopiesInTime(Lapsing, unread)
    BY <2>5, <2>6, <2>7, <2>8, <2>9 DEF CopiesInTime
  <2> QED BY <2>10
<1> QED BY <1>1, <1>2

(* With the times the code comes with, at most three attempts, frames that *)
(* are remembered equally long, one sender that asks each node for ACKs,   *)
(* and applications that read before they send, the duplicate window is    *)
(* long enough: no message is delivered twice or out of order.             *)
THEOREM CodeTimesSuffice ==
    PromptReaders /\ OneAsker /\ OneWindow /\ CodeTimes => (Spec => []OnceInOrder)
<1> SUFFICES ASSUME PromptReaders, OneAsker, OneWindow, CodeTimes PROVE Spec => []OnceInOrder
  OBVIOUS
<1>1. PICK unread : TimelyLink(Lapsing, unread)
  BY ThreeAttemptsInTime DEF TimelyLink
<1> QED BY <1>1, DeliveredOnceInOrder
=============================================================================
