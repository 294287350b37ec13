--------------------------- MODULE SimWorldProofs ---------------------------
(***************************************************************************)
(* Proofs about SimWorld: types, nobody resumes late, receive() returns at *)
(* the instant it should; what became of a frame is final, agrees with who *)
(* was listening, and is handed over in the order the frames ended.        *)
(*                                                                         *)
(* The inductive invariant says, besides, what a blocked node waits for:   *)
(* a sender for the end of its frame (Sending), a receiver for the end of  *)
(* its time or of the frame it was given (Receiving).                      *)
(*                                                                         *)
(* A second invariant, on top of it, is about the air.  Frames that end at *)
(* one instant overlapped, so that no node got two of them; the end of a   *)
(* frame comes before a timeout of the same instant, so that a window of a *)
(* node that is listening reaches over every frame that is not over yet;   *)
(* and what a node got it holds, has buffered or was handed, in order.     *)
(***************************************************************************)
EXTENDS SimWorld, SequenceTheorems, FiniteSetTheorems, WellFoundedInduction, TLAPS

-----------------------------------------------------------------------------
(* The scheduler *)

LEMMA LeastNatural ==
    ASSUME NEW S, S # {}, S \subseteq Nat
    PROVE  \E x \in S : \A y \in S : x <= y
<1> DEFINE less == {pair \in Nat \X Nat : pair[1] < pair[2]}
<1>1. IsWellFoundedOn(less, Nat)
    <2>1. less = OpToRel(<, Nat)
        BY Zenon DEF OpToRel
    <2> QED BY <2>1, NatLessThanWellFounded, Zenon
<1> HIDE DEF less
<1>2. PICK x \in S : \A y \in S : <<y, x>> \notin less
    BY <1>1, WFMin, Zenon
<1>3. ASSUME NEW y \in S PROVE x <= y
    <2>1. <<y, x>> \notin less
        BY <1>2
    <2> QED BY <2>1 DEF less
<1> QED BY <1>3

LEMMA LeastValue ==
    ASSUME NEW S, S # {}, S \subseteq Node, NEW f \in [Node -> Nat]
    PROVE  \E n \in S : \A m \in S : f[n] <= f[m]
<1> DEFINE values == {f[n] : n \in S}
<1>1. values # {} /\ values \subseteq Nat
    OBVIOUS
<1> HIDE DEF values
<1>2. PICK x \in values : \A y \in values : x <= y
    BY <1>1, LeastNatural
<1>3. PICK n \in S : f[n] = x
    BY <1>2 DEF values
<1>4. ASSUME NEW m \in S PROVE f[n] <= f[m]
    BY <1>2, <1>3 DEF values
<1> QED BY <1>4

(* Whoever goes first exists, and nobody is due before it, or with it and *)
(* ahead of it in rank.                                                    *)
LEMMA BestIsFirst ==
    ASSUME NEW S, S # {}, S \subseteq Node, NEW at \in [Node -> Nat],
           NEW rank \in [Node -> Nat], NEW place \in [Node -> Nat]
    PROVE  /\ Best(S, at, rank, place) \in S
           /\ \A m \in S :
                 /\ at[Best(S, at, rank, place)] <= at[m]
                 /\ at[m] = at[Best(S, at, rank, place)] =>
                       rank[Best(S, at, rank, place)] <= rank[m]
<1>1. PICK t \in S : \A m \in S : at[t] <= at[m]
    BY LeastValue
<1> DEFINE due == {n \in S : at[n] = at[t]}
<1>2. PICK r \in due : \A m \in due : rank[r] <= rank[m]
    <2>1. due # {} /\ due \subseteq Node
        BY <1>1
    <2> HIDE DEF due
    <2> QED BY <2>1, LeastValue
<1> DEFINE first == {n \in due : rank[n] = rank[r]}
<1>3. PICK n \in first : \A m \in first : place[n] <= place[m]
    <2>1. first # {} /\ first \subseteq Node
        BY <1>2
    <2> HIDE DEF first
    <2> QED BY <2>1, LeastValue
<1>4. \A m \in S : Before(n, m, at, rank, place)
    <2> TAKE m \in S
    <2>1. n \in S /\ n \in Node /\ m \in Node /\ t \in Node /\ r \in Node
        BY <1>1, <1>2, <1>3
    <2>2. at[n] = at[t] /\ rank[n] = rank[r] /\ at[t] <= at[m]
        BY <1>1, <1>2, <1>3
    <2>3. at[m] = at[t] => rank[r] <= rank[m]
        BY <1>2
    <2>4. at[m] = at[t] /\ rank[m] = rank[r] => place[n] <= place[m]
        BY <1>3
    <2>5. /\ at[m] \in Nat /\ at[n] \in Nat /\ at[t] \in Nat
          /\ rank[m] \in Nat /\ rank[n] \in Nat /\ rank[r] \in Nat
        BY <2>1
    <2> QED BY <2>2, <2>3, <2>4, <2>5 DEF Before
<1>5. n \in S
    BY <1>3
<1>6. /\ Best(S, at, rank, place) \in S
      /\ \A m \in S : Before(Best(S, at, rank, place), m, at, rank, place)
    BY <1>4, <1>5 DEF Best
<1>7. ASSUME NEW b \in S, NEW m \in S, Before(b, m, at, rank, place)
      PROVE  at[b] <= at[m] /\ (at[m] = at[b] => rank[b] <= rank[m])
    <2>1. at[b] \in Nat /\ at[m] \in Nat /\ rank[b] \in Nat /\ rank[m] \in Nat
        OBVIOUS
    <2> QED BY <1>7, <2>1 DEF Before
<1> QED BY <1>6, <1>7

(* What scheduleNext() may do with time. *)
LEMMA ScheduleShape ==
    ASSUME ScheduleNext, now \in Nat, alive' \subseteq Node, wake' \in [Node -> Nat],
           priority' \in [Node -> Nat], order' \in [Node -> Nat]
    PROVE  \/ running' = NoNode /\ now' = now /\ alive' = {} /\ stopping' = stopping
           \/ running' = NoNode /\ now' = now /\ stopping' = TRUE
           \/ /\ running' \in alive' /\ wake'[running'] <= Limit
              /\ now' = Later(now, wake'[running']) /\ stopping' = stopping
              /\ \A m \in alive' : wake'[running'] <= wake'[m]
<1> DEFINE best == Best(alive', wake', priority', order')
<1>1. CASE alive' = {}
    BY <1>1 DEF ScheduleNext
<1>2. CASE alive' # {}
    <2> HIDE DEF best
    <2>1. /\ best \in alive'
          /\ \A m \in alive' : wake'[best] <= wake'[m]
        BY <1>2, BestIsFirst DEF best
    <2>2. wake'[best] \in Nat
        BY <2>1
    <2>3. CASE wake'[best] > Limit
        <3>1. running' = NoNode /\ stopping' = TRUE /\ now' = now
            BY <1>2, <2>3, Zenon DEF ScheduleNext, best
        <3> QED BY <3>1
    <2>4. CASE ~(wake'[best] > Limit)
        <3>1. running' = best /\ now' = Later(now, wake'[best]) /\ stopping' = stopping
            BY <1>2, <2>4, Zenon DEF ScheduleNext, best
        <3>2. wake'[best] <= Limit
            BY <2>2, <2>4, SimWorldAssumption
        <3> QED BY <3>1, <3>2, <2>1
    <2> QED BY <2>3, <2>4
<1> QED BY <1>1, <1>2

-----------------------------------------------------------------------------
(* The invariant *)

WorldOK ==
    /\ apart \in Topologies
    /\ now \in 0 .. Limit /\ started \in BOOLEAN /\ stopping \in BOOLEAN
    /\ running \in Node \cup {NoNode}
    /\ alive \subseteq Node
    /\ running # NoNode => started /\ ~stopping /\ running \in alive
    /\ wake \in [Node -> Nat] /\ priority \in [Node -> {0, 1}]
    /\ order \in [Node -> Nat] /\ orderCounter \in Nat
    /\ ~started => now = 0 /\ ~stopping

(* Whoever resumes from a call does so at the instant it waited for. *)
DueNow == running # NoNode /\ doing[running] # "program" => wake[running] = now

RadioOK ==
    /\ doing \in [Node -> {"program", "send", "receive"}]
    /\ listenStart \in [Node -> Nat] /\ overflow \in [Node -> Nat] /\ calls \in [Node -> Nat]
    /\ transmissions \in Seq(Transmission)
    /\ ready \in [Node -> 0 .. Len(transmissions)]
    /\ buffer \in [Node -> Seq(1 .. Len(transmissions))]
    /\ \A n \in Node : Len(buffer[n]) <= BufferSlots
    /\ windows \in [Node -> Seq(Window)]

Sent(i) ==
    LET t == transmissions[i]
    IN  /\ Over(t) => t.end <= now
        /\ ~Over(t) /\ t.src \in alive => doing[t.src] = "send" /\ t.end = wake[t.src]

Sending ==
    /\ \A i \in 1 .. Len(transmissions) : Sent(i)
    /\ \A i, j \in 1 .. Len(transmissions) :
          /\ ~Over(transmissions[i]) /\ ~Over(transmissions[j])
          /\ transmissions[i].src = transmissions[j].src /\ transmissions[i].src \in alive
          => i = j

Receives(n) ==
    LET w == windows[n][Len(windows[n])]
    IN  /\ windows[n] # <<>> /\ w.open /\ w.start <= now
        /\ ready[n] = 0 => wake[n] = w.until
        /\ ready[n] # 0 => /\ Over(transmissions[ready[n]])
                           /\ wake[n] = transmissions[ready[n]].end
                           /\ w.start <= wake[n]

Receiving == \A n \in Node : Listening(n) => Receives(n)

Stored == \A n \in Node : \A k \in 1 .. Len(buffer[n]) : Over(transmissions[buffer[n][k]])

Closed(w) ==
    ~w.open =>
        /\ w.frame \in 0 .. Len(transmissions)
        /\ w.end = IF w.frame = 0 THEN w.until ELSE Later(w.start, transmissions[w.frame].end)

AllClosed == \A n \in Node : \A k \in 1 .. Len(windows[n]) : Closed(windows[n][k])

WorldInv == WorldOK /\ NobodyOversleeps /\ DueNow
RadioInv == RadioOK /\ Sending /\ Receiving /\ Stored /\ AllClosed
IInv == WorldInv /\ RadioInv

LEMMA IInvTypeOK == IInv => TypeOK
<1>1. ASSUME RadioOK PROVE DOMAIN transmissions = 1 .. Len(transmissions)
    BY <1>1 DEF RadioOK
<1> QED BY <1>1 DEF IInv, WorldInv, RadioInv, WorldOK, RadioOK, TypeOK

LEMMA IInvReturnsAtOnce == IInv => ReturnsAtOnce
<1> SUFFICES ASSUME IInv, NEW n \in Node, NEW k \in DOMAIN windows[n]
             PROVE  LET w == windows[n][k] IN
                    ~w.open => w.end = IF w.frame = 0 THEN w.until
                                       ELSE Later(w.start, transmissions[w.frame].end)
    BY DEF ReturnsAtOnce
<1>1. k \in 1 .. Len(windows[n])
    BY DEF IInv, RadioInv, RadioOK
<1> QED BY <1>1 DEF IInv, RadioInv, AllClosed, Closed

-----------------------------------------------------------------------------
(* Handing over *)

LEMMA HandOver ==
    ASSUME WorldOK, ~stopping, ScheduleNext, started' = TRUE, apart' = apart, alive' \subseteq alive,
           wake' \in [Node -> Nat], priority' \in [Node -> {0, 1}], order' \in [Node -> Nat],
           orderCounter' \in Nat, \A m \in alive' : now <= wake'[m]
    PROVE  WorldInv' /\ now <= now'
<1>1. now \in Nat /\ now <= Limit /\ Limit \in Nat
    BY SimWorldAssumption DEF WorldOK
<1>2. alive' \subseteq Node /\ priority' \in [Node -> Nat] /\ NoNode \notin Node
    BY SimWorldAssumption DEF WorldOK
<1>3. CASE running' = NoNode /\ now' = now /\ alive' = {} /\ stopping' = stopping
    BY <1>1, <1>2, <1>3 DEF WorldInv, WorldOK, NobodyOversleeps, DueNow
<1>4. CASE running' = NoNode /\ now' = now /\ stopping' = TRUE
    BY <1>1, <1>2, <1>4 DEF WorldInv, WorldOK, NobodyOversleeps, DueNow
<1>5. CASE /\ running' \in alive' /\ wake'[running'] <= Limit
           /\ now' = Later(now, wake'[running']) /\ stopping' = stopping
           /\ \A m \in alive' : wake'[running'] <= wake'[m]
    <2>1. wake'[running'] \in Nat /\ now <= wake'[running'] /\ running' # NoNode
        BY <1>2, <1>5
    <2>2. now' = wake'[running']
        BY <1>1, <1>5, <2>1 DEF Later
    <2>3. NobodyOversleeps'
        BY <1>2, <1>5, <2>2 DEF NobodyOversleeps
    <2>4. DueNow'
        BY <2>2 DEF DueNow
    <2>5. WorldOK'
        BY <1>1, <1>2, <1>5, <2>1, <2>2 DEF WorldOK
    <2> QED BY <2>1, <2>2, <2>3, <2>4, <2>5 DEF WorldInv
<1> QED BY <1>1, <1>2, <1>3, <1>4, <1>5, ScheduleShape

LEMMA Blocks ==
    ASSUME WorldInv, NEW n \in Node, running = n, NEW at \in Nat, now <= at, NEW rank \in {0, 1},
           NEW call, BlockUntil(n, at, rank, call), UNCHANGED <<apart, started>>
    PROVE  /\ WorldInv' /\ now <= now' /\ alive' = alive
           /\ wake' = [wake EXCEPT ![n] = at] /\ doing' = [doing EXCEPT ![n] = call]
<1>1. /\ wake' = [wake EXCEPT ![n] = at] /\ doing' = [doing EXCEPT ![n] = call]
      /\ priority' = [priority EXCEPT ![n] = rank] /\ order' = [order EXCEPT ![n] = orderCounter + 1]
      /\ orderCounter' = orderCounter + 1 /\ alive' = alive /\ ScheduleNext
    BY DEF BlockUntil
<1>2. WorldOK /\ started = TRUE /\ ~stopping /\ n \in alive
    BY SimWorldAssumption DEF WorldInv, WorldOK
<1>3. /\ wake' \in [Node -> Nat] /\ priority' \in [Node -> {0, 1}] /\ order' \in [Node -> Nat]
      /\ orderCounter' \in Nat
    BY <1>1, <1>2 DEF WorldOK
<1>4. \A m \in alive' : now <= wake'[m]
    BY <1>1, <1>2 DEF WorldInv, WorldOK, NobodyOversleeps
<1> QED BY <1>1, <1>2, <1>3, <1>4, HandOver

LEMMA Records ==
    ASSUME RadioOK
    PROVE  /\ Len(transmissions) \in Nat
           /\ \A i \in 1 .. Len(transmissions) :
                 /\ transmissions[i] \in Transmission
                 /\ transmissions[i].src \in Node /\ transmissions[i].start \in Nat
                 /\ transmissions[i].end \in Nat
           /\ \A n \in Node : Len(windows[n]) \in Nat /\ \A k \in 1 .. Len(windows[n]) :
                 /\ windows[n][k] \in Window
                 /\ windows[n][k].start \in Nat /\ windows[n][k].end \in Nat
           /\ \A n \in Node : windows[n] # <<>> => Len(windows[n]) \in 1 .. Len(windows[n])
<1>1. transmissions \in Seq(Transmission) /\ \A n \in Node : windows[n] \in Seq(Window)
    BY DEF RadioOK
<1>2. \A i \in 1 .. Len(transmissions) : transmissions[i] \in Transmission
    BY <1>1, ElementOfSeq
<1>3. ASSUME NEW t \in Transmission PROVE t.src \in Node /\ t.start \in Nat /\ t.end \in Nat
    BY DEF Transmission
<1>4. \A n \in Node : \A k \in 1 .. Len(windows[n]) : windows[n][k] \in Window
    BY <1>1, ElementOfSeq
<1>5. ASSUME NEW w \in Window PROVE w.start \in Nat /\ w.end \in Nat
    BY DEF Window
<1>6. ASSUME NEW n \in Node PROVE Len(windows[n]) \in Nat
    BY <1>1, LenProperties
<1>7. ASSUME NEW n \in Node, windows[n] # <<>> PROVE Len(windows[n]) \in 1 .. Len(windows[n])
    BY <1>1, <1>6, <1>7, EmptySeq
<1>8. Len(transmissions) \in Nat
    BY <1>1, LenProperties
<1> QED BY <1>2, <1>3, <1>4, <1>5, <1>6, <1>7, <1>8

(* The radios do not mind that time passes for programs that use none. *)
LEMMA RadiosKeep ==
    ASSUME RadioInv, now \in Nat, now' \in Nat, now <= now', UNCHANGED radios, alive' \subseteq alive,
           calls' \in [Node -> Nat], doing' \in [Node -> {"program", "send", "receive"}],
           wake \in [Node -> Nat],
           \A m \in Node : doing'[m] # "program" => doing'[m] = doing[m] /\ wake'[m] = wake[m],
           \A m \in alive' : doing'[m] = doing[m]
    PROVE  RadioInv'
<1> USE DEF radios, RadioInv, Over
<1>1. RadioOK'
    BY DEF RadioOK
<1>2. RadioOK
    OBVIOUS
<1>3. Sending'
    <2>1. \A i \in 1 .. Len(transmissions) : transmissions[i].end \in Nat /\ transmissions[i].src \in Node
        BY <1>2, Records
    <2>2. ASSUME NEW i \in 1 .. Len(transmissions) PROVE Sent(i)'
        <3>1. Sent(i)
            BY DEF Sending
        <3> QED BY <2>1, <3>1 DEF Sent, Pending
    <2> QED BY <2>1, <2>2 DEF Sending, Pending
<1>4. Receiving'
    <2> SUFFICES ASSUME NEW n \in Node, Listening(n)' PROVE Receives(n)'
        BY DEF Receiving
    <2>1. Listening(n) /\ wake'[n] = wake[n]
        BY DEF Listening
    <2>2. Receives(n)
        BY <2>1 DEF Receiving
    <2>4. windows[n][Len(windows[n])].start \in Nat
        BY <1>2, <2>2, Records DEF Receives
    <2> QED BY <2>1, <2>2, <2>4 DEF Receives, Pending
<1>5. Stored' /\ AllClosed'
    BY DEF Stored, AllClosed, Closed, Pending, Later
<1> QED BY <1>1, <1>3, <1>4, <1>5

-----------------------------------------------------------------------------
(* Every step keeps the invariant *)

LEMMA InitIInv == Init => IInv
<1> SUFFICES ASSUME Init PROVE IInv
    OBVIOUS
<1> USE SimWorldAssumption DEF Init
<1>1. Cardinality(Node) \in Nat
    BY FS_CardinalityType
<1>2. WorldInv
    <2>1. wake \in [Node -> Nat] /\ now \in 0 .. Limit
        <3>1. wake \in [Node -> Delays] /\ now = 0 /\ Delays \subseteq Nat /\ Limit \in Nat
            OBVIOUS
        <3>2. \A n \in Node : wake[n] \in Nat
            BY ONLY <3>1
        <3>3. wake \in [Node -> Nat]
            BY ONLY <3>1, <3>2
        <3> QED BY ONLY <3>1, <3>3
    <2>2. order \in [Node -> Nat] /\ orderCounter \in Nat /\ priority \in [Node -> {0, 1}]
        BY <1>1
    <2>3. NobodyOversleeps /\ DueNow
        BY DEF NobodyOversleeps, DueNow
    <2> QED BY <2>1, <2>2, <2>3 DEF WorldInv, WorldOK
<1>3. Len(transmissions) = 0 /\ \A n \in Node : Len(buffer[n]) = 0 /\ Len(windows[n]) = 0
    BY EmptySeq
<1>4. RadioInv
    BY <1>3 DEF RadioInv, RadioOK, Sending, Receiving, Listening, Stored, AllClosed
<1> QED BY <1>2, <1>4 DEF IInv

(* What an action may use of the invariant. *)
LEMMA Turn ==
    ASSUME IInv
    PROVE  /\ now \in Nat /\ wake \in [Node -> Nat] /\ calls \in [Node -> Nat]
           /\ doing \in [Node -> {"program", "send", "receive"}] /\ alive \subseteq Node
           /\ \A n \in Node : running = n =>
                 /\ started = TRUE /\ ~stopping /\ n \in alive /\ n # NoNode
                 /\ doing[n] # "program" => wake[n] = now
BY SimWorldAssumption DEF IInv, WorldInv, WorldOK, RadioInv, RadioOK, DueNow

LEMMA RunKeeps == ASSUME IInv, Run PROVE IInv'
<1>1. /\ ScheduleNext /\ started' = TRUE /\ apart' = apart /\ alive' = alive /\ wake' = wake
      /\ priority' = priority /\ order' = order /\ orderCounter' = orderCounter
      /\ UNCHANGED radios /\ doing' = doing /\ calls' = calls
    BY DEF Run
<1>2. WorldOK /\ ~stopping /\ now = 0
    BY DEF IInv, WorldInv, WorldOK, Run
<1>3. \A m \in alive' : now <= wake'[m]
    BY <1>1, <1>2 DEF WorldOK
<1>4. WorldInv' /\ now <= now'
    BY <1>1, <1>2, <1>3, HandOver DEF WorldOK
<1>5. now' \in Nat
    BY <1>4, SimWorldAssumption DEF WorldInv, WorldOK
<1>6. RadioInv'
    BY <1>1, <1>4, <1>5, Turn, RadiosKeep DEF IInv
<1> QED BY <1>4, <1>6 DEF IInv

LEMMA ExitKeeps == ASSUME IInv, NEW n \in Node, Exit(n) PROVE IInv'
<1>1. /\ ScheduleNext /\ started' = started /\ apart' = apart /\ alive' = alive \ {n} /\ wake' = wake
      /\ priority' = priority /\ order' = order /\ orderCounter' = orderCounter
      /\ UNCHANGED radios /\ doing' = doing /\ calls' = calls /\ running = n
    BY DEF Exit
<1>2. WorldOK /\ ~stopping /\ started = TRUE
    BY <1>1, Turn DEF IInv, WorldInv
<1>3. \A m \in alive' : now <= wake'[m]
    BY <1>1, <1>2 DEF WorldOK, IInv, WorldInv, NobodyOversleeps
<1>4. WorldInv' /\ now <= now'
    BY <1>1, <1>2, <1>3, HandOver DEF WorldOK
<1>5. now' \in Nat
    BY <1>4, SimWorldAssumption DEF WorldInv, WorldOK
<1>6. RadioInv'
    BY <1>1, <1>4, <1>5, Turn, RadiosKeep DEF IInv
<1> QED BY <1>4, <1>6 DEF IInv

LEMMA UnwindKeeps == ASSUME IInv, NEW n \in Node, Unwind(n) PROVE IInv'
<1>1. /\ alive' = alive \ {n} /\ stopping /\ doing' = [doing EXCEPT ![n] = "program"]
      /\ apart' = apart /\ now' = now /\ started' = started /\ stopping' = stopping
      /\ running' = running /\ wake' = wake /\ priority' = priority /\ order' = order
      /\ orderCounter' = orderCounter /\ UNCHANGED radios /\ calls' = calls
    BY DEF Unwind
<1>2. running = NoNode /\ stopping = TRUE
    BY <1>1 DEF IInv, WorldInv, WorldOK
<1>3. WorldInv'
    BY <1>1, <1>2 DEF IInv, WorldInv, WorldOK, NobodyOversleeps, DueNow
<1>4. /\ doing' \in [Node -> {"program", "send", "receive"}]
      /\ \A m \in Node : doing'[m] # "program" => doing'[m] = doing[m] /\ wake'[m] = wake[m]
      /\ \A m \in alive' : doing'[m] = doing[m]
    BY <1>1, Turn
<1>5. now \in Nat /\ now <= now' /\ now' \in Nat
    BY <1>1, Turn
<1>6. RadioInv'
    BY <1>1, <1>4, <1>5, Turn, RadiosKeep DEF IInv
<1> QED BY <1>3, <1>6 DEF IInv

LEMMA SleepMsKeeps ==
    ASSUME IInv, NEW n \in Node, NEW ms \in Sleeps[n], SleepMs(n, ms) PROVE IInv'
<1>1. /\ running = n /\ doing[n] = "program" /\ calls' = [calls EXCEPT ![n] = @ + 1]
      /\ BlockUntil(n, now + ms, 1, "program") /\ apart' = apart /\ started' = started
      /\ UNCHANGED radios
    BY DEF SleepMs, MayCall
<1>2. ms \in Nat /\ now + ms \in Nat /\ now <= now + ms
    BY Turn, SimWorldAssumption
<1>3. /\ WorldInv' /\ now <= now' /\ alive' = alive
      /\ wake' = [wake EXCEPT ![n] = now + ms] /\ doing' = [doing EXCEPT ![n] = "program"]
    BY <1>1, <1>2, Blocks DEF IInv
<1>4. now' \in Nat /\ calls' \in [Node -> Nat]
    BY <1>1, <1>3, Turn, SimWorldAssumption DEF WorldInv, WorldOK
<1>5. doing' = doing /\ \A m \in Node : doing'[m] # "program" => wake'[m] = wake[m]
    BY <1>1, <1>3, Turn
<1>6. RadioInv'
    BY <1>1, <1>3, <1>4, <1>5, Turn, RadiosKeep DEF IInv
<1> QED BY <1>3, <1>6 DEF IInv

LEMMA SendKeeps ==
    ASSUME IInv, NEW n \in Node, NEW air \in Airtimes[n], Send(n, air) PROVE IInv'
<1> DEFINE end == now + Setup + air
           frame == [src |-> n, start |-> now + Setup, end |-> end, outcome |-> Pending]
           last == Len(transmissions)
<1>1. /\ running = n /\ doing[n] = "program" /\ calls' = [calls EXCEPT ![n] = @ + 1]
      /\ BlockUntil(n, end, 0, "send") /\ apart' = apart /\ started' = started
      /\ transmissions' = Append(transmissions, frame)
      /\ listenStart' = listenStart /\ ready' = ready /\ buffer' = buffer
      /\ windows' = windows /\ overflow' = overflow
    BY DEF Send, MayCall
<1>2. air \in Nat /\ Setup \in Nat /\ now + Setup \in Nat /\ end \in Nat /\ now <= end
    BY Turn, SimWorldAssumption
<1> HIDE DEF end
<1>3. /\ WorldInv' /\ now <= now' /\ alive' = alive
      /\ wake' = [wake EXCEPT ![n] = end] /\ doing' = [doing EXCEPT ![n] = "send"]
    BY <1>1, <1>2, Blocks DEF IInv
<1>4. now \in Nat /\ now' \in Nat /\ calls' \in [Node -> Nat] /\ n \in alive
    <2>1. calls' \in [Node -> Nat]
        BY <1>1, Turn
    <2>2. now' \in Nat
        BY <1>3, SimWorldAssumption DEF WorldInv, WorldOK
    <2> QED BY <1>1, <2>1, <2>2, Turn
<1>5. RadioInv /\ RadioOK
    BY DEF IInv, RadioInv
<1>6. frame \in Transmission
    BY <1>2 DEF Transmission, Pending
<1> HIDE DEF frame
<1>7. /\ transmissions' \in Seq(Transmission) /\ Len(transmissions') = last + 1 /\ last \in Nat
      /\ \A i \in 1 .. last : transmissions'[i] = transmissions[i]
      /\ transmissions'[last + 1] = frame
    BY <1>1, <1>5, <1>6, AppendProperties, Records DEF RadioOK
<1>8. RadioOK'
    <2>1. doing' \in [Node -> {"program", "send", "receive"}]
        BY <1>3, <1>5 DEF RadioOK
    <2>2. ready' \in [Node -> 0 .. last + 1]
        BY <1>1, <1>5, <1>7 DEF RadioOK
    <2>3. ASSUME NEW m \in Node PROVE buffer'[m] \in Seq(1 .. last + 1)
        <3>1. buffer[m] \in Seq(1 .. last) /\ 1 .. last \subseteq 1 .. last + 1
            BY <1>5, <1>7 DEF RadioOK
        <3> QED BY <1>1, <3>1
    <2>4. buffer' \in [Node -> Seq(1 .. last + 1)]
        BY <1>1, <1>5, <2>3 DEF RadioOK
    <2> QED BY <1>1, <1>4, <1>5, <1>7, <2>1, <2>2, <2>4 DEF RadioOK
<1>9. ~Over(frame) /\ frame.src = n /\ frame.end = end
    BY DEF frame, Over
<1>10. \A i \in 1 .. last + 1 : i \in 1 .. last \/ i = last + 1
    BY <1>7
<1>11. \A i \in 1 .. last :
          /\ transmissions[i].src \in Node /\ transmissions[i].end \in Nat
          /\ ~Over(transmissions[i]) => transmissions[i].src # n
    <2> TAKE i \in 1 .. last
    <2>1. Sent(i)
        BY <1>5 DEF RadioInv, Sending
    <2> QED BY <1>1, <1>4, <1>5, <2>1, Records DEF Sent
<1>12. Sending'
    <2>1. ASSUME NEW i \in 1 .. last + 1 PROVE Sent(i)'
        <3>1. CASE i \in 1 .. last
            <4>1. Sent(i)
                BY <1>5, <3>1 DEF RadioInv, Sending
            <4>2. transmissions[i].src # n => /\ doing'[transmissions[i].src] = doing[transmissions[i].src]
                                              /\ wake'[transmissions[i].src] = wake[transmissions[i].src]
                BY <1>3, <1>11, <3>1, Turn
            <4> QED BY <1>3, <1>4, <1>7, <1>11, <3>1, <4>1, <4>2 DEF Sent, Over, Pending
        <3>2. CASE i = last + 1
            <4>1. wake'[n] = end /\ doing'[n] = "send"
                BY <1>3, Turn
            <4>2. ~Over(transmissions'[i]) /\ transmissions'[i].src = n /\ transmissions'[i].end = end
                BY <1>7, <1>9, <3>2
            <4> QED BY <4>1, <4>2 DEF Sent, Over, Pending
        <3> QED BY <1>10, <3>1, <3>2
    <2>2. ASSUME NEW i \in 1 .. last + 1, NEW j \in 1 .. last + 1,
                 ~Over(transmissions'[i]), ~Over(transmissions'[j]),
                 transmissions'[i].src = transmissions'[j].src, transmissions'[i].src \in alive
          PROVE  i = j
        BY <1>5, <1>7, <1>9, <1>10, <1>11, <2>2 DEF RadioInv, Sending
    <2> QED BY <1>3, <1>7, <2>1, <2>2 DEF Sending, Over, Pending
<1>13. Receiving'
    <2> SUFFICES ASSUME NEW m \in Node, Listening(m)' PROVE Receives(m)'
        BY DEF Receiving
    <2>1. m # n /\ Listening(m) /\ wake'[m] = wake[m]
        BY <1>3, Turn DEF Listening
    <2>2. Receives(m)
        BY <1>5, <2>1 DEF RadioInv, Receiving
    <2>3. windows[m][Len(windows[m])].start \in Nat
        BY <1>5, <2>2, Records DEF Receives
    <2>4. ready[m] # 0 => ready[m] \in 1 .. last
        BY <1>5, <1>7 DEF RadioOK
    <2> QED BY <1>1, <1>3, <1>4, <1>7, <2>1, <2>2, <2>3, <2>4 DEF Receives, Over, Pending
<1>14. Stored'
    <2>1. \A m \in Node : \A k \in 1 .. Len(buffer[m]) : buffer[m][k] \in 1 .. last
        BY <1>5, ElementOfSeq DEF RadioOK
    <2> QED BY <1>1, <1>5, <1>7, <2>1 DEF RadioInv, Stored, Over, Pending
<1>15. AllClosed'
    <2> SUFFICES ASSUME NEW m \in Node, NEW k \in 1 .. Len(windows[m]) PROVE Closed(windows[m][k])'
        BY <1>1 DEF AllClosed
    <2>1. Closed(windows[m][k])
        BY <1>5 DEF RadioInv, AllClosed
    <2> QED BY <1>1, <1>7, <2>1 DEF Closed, Later
<1> QED BY <1>3, <1>8, <1>12, <1>13, <1>14, <1>15 DEF IInv, RadioInv

(* What the end of a frame changes. *)
LEMMA Finished ==
    ASSUME IInv, NEW n \in Node, SendReturns(n)
    PROVE  \E i \in 1 .. Len(transmissions) : \E outcome \in [Node -> {"-", "M", "C", "L", "D"}] :
           \E waiters \in SUBSET Node :
              /\ transmissions[i].src = n /\ ~Over(transmissions[i])
              /\ outcome[n] = "-"
              /\ \A m \in waiters : Listening(m)
              /\ transmissions' = [transmissions EXCEPT ![i].outcome = outcome]
              /\ ready' = [m \in Node |-> IF m \in waiters THEN i ELSE ready[m]]
              /\ wake' = [m \in Node |-> IF m \in waiters THEN now ELSE wake[m]]
              /\ priority' = [m \in Node |-> IF m \in waiters THEN 0 ELSE priority[m]]
              /\ overflow' \in [Node -> Nat]
              /\ \A m \in Node : buffer'[m] = buffer[m] \/ buffer'[m] = Kept(m, i)
              /\ buffer' \in [Node -> {buffer[m] : m \in Node} \cup {Kept(m, i) : m \in Node}]
<1>1. PICK i \in DOMAIN transmissions :
          transmissions[i].src = n /\ transmissions[i].outcome = Pending /\ FinishTransmission(i)
    BY DEF SendReturns
<1>2. RadioOK
    BY DEF IInv, RadioInv
<1>3. i \in 1 .. Len(transmissions)
    BY <1>2 DEF RadioOK
<1>4. PICK lost \in SUBSET Node :
        LET outcome == [m \in Node |-> Outcome(i, m, lost)]
            delivered == {m \in Node : outcome[m] = "D"}
            kept == delivered \ Waiters(delivered)
        IN  /\ transmissions' = [transmissions EXCEPT ![i].outcome = outcome]
            /\ ready' = [m \in Node |-> IF m \in Waiters(delivered) THEN i ELSE ready[m]]
            /\ WakeUp(delivered)
            /\ buffer' = [m \in Node |-> IF m \in kept THEN Kept(m, i) ELSE buffer[m]]
            /\ overflow' = [m \in Node |->
                    IF m \in kept /\ Full(m) THEN overflow[m] + 1 ELSE overflow[m]]
    BY <1>1, Zenon DEF FinishTransmission
<1> DEFINE outcome == [m \in Node |-> Outcome(i, m, lost)]
           delivered == {m \in Node : outcome[m] = "D"}
           waiters == Waiters(delivered)
           kept == delivered \ waiters
<1>5. outcome \in [Node -> {"-", "M", "C", "L", "D"}] /\ outcome[n] = "-"
    <2>1. \A m \in Node : Outcome(i, m, lost) \in {"-", "M", "C", "L", "D"}
        BY DEF Outcome
    <2>2. Outcome(i, n, lost) = "-"
        BY <1>1 DEF Outcome
    <2> QED BY <2>1, <2>2
<1>6. /\ transmissions' = [transmissions EXCEPT ![i].outcome = outcome]
      /\ ready' = [m \in Node |-> IF m \in waiters THEN i ELSE ready[m]]
      /\ WakeUp(delivered)
      /\ buffer' = [m \in Node |-> IF m \in kept THEN Kept(m, i) ELSE buffer[m]]
      /\ overflow' = [m \in Node |-> IF m \in kept /\ Full(m) THEN overflow[m] + 1 ELSE overflow[m]]
    BY <1>4, Zenon
<1>7. waiters \in SUBSET Node /\ \A m \in waiters : Listening(m)
    BY DEF Waiters
<1> HIDE DEF outcome, delivered, waiters, kept
<1>8. /\ wake' = [m \in Node |-> IF m \in waiters THEN now ELSE wake[m]]
      /\ priority' = [m \in Node |-> IF m \in waiters THEN 0 ELSE priority[m]]
    BY <1>6, Zenon DEF WakeUp, waiters
<1>9. overflow' \in [Node -> Nat]
    <2>1. \A m \in Node : overflow[m] \in Nat
        BY <1>2 DEF RadioOK
    <2> HIDE <1>2, <1>3
    <2>2. \A m \in Node : (IF m \in kept /\ Full(m) THEN overflow[m] + 1 ELSE overflow[m]) \in Nat
        BY ONLY <2>1
    <2> QED BY ONLY <1>6, <2>2
<1>10. /\ \A m \in Node : buffer'[m] = buffer[m] \/ buffer'[m] = Kept(m, i)
       /\ buffer' \in [Node -> {buffer[m] : m \in Node} \cup {Kept(m, i) : m \in Node}]
    <2> HIDE <1>2, <1>3
    <2> QED BY ONLY <1>6
<1>11. ~Over(transmissions[i])
    BY <1>1 DEF Over
<1> QED BY <1>1, <1>3, <1>5, <1>6, <1>7, <1>8, <1>9, <1>10, <1>11, Zenon

LEMMA KeptType ==
    ASSUME RadioOK, NEW m \in Node, NEW i \in 1 .. Len(transmissions)
    PROVE  /\ Kept(m, i) \in Seq(1 .. Len(transmissions)) /\ Len(Kept(m, i)) <= BufferSlots
           /\ \A k \in 1 .. Len(Kept(m, i)) :
                 Kept(m, i)[k] = i \/ \E l \in 1 .. Len(buffer[m]) : Kept(m, i)[k] = buffer[m][l]
<1> DEFINE S == 1 .. Len(transmissions)
<1>1. /\ buffer[m] \in Seq(S) /\ Len(buffer[m]) \in Nat /\ Len(buffer[m]) <= BufferSlots
      /\ BufferSlots \in Nat \ {0} /\ i \in S
    BY LenProperties, SimWorldAssumption DEF RadioOK
<1> HIDE DEF S
<1>2. CASE Full(m)
    <2>1. buffer[m] # <<>>
        BY <1>1, <1>2, EmptySeq DEF Full
    <2>2. /\ Tail(buffer[m]) \in Seq(S) /\ Len(Tail(buffer[m])) = Len(buffer[m]) - 1
          /\ \A k \in 1 .. Len(Tail(buffer[m])) : Tail(buffer[m])[k] = buffer[m][k + 1]
        BY <1>1, <2>1, HeadTailProperties
    <2>3. Kept(m, i) = Append(Tail(buffer[m]), i)
        BY <1>2 DEF Kept
    <2>4. /\ Kept(m, i) \in Seq(S) /\ Len(Kept(m, i)) = Len(Tail(buffer[m])) + 1
          /\ \A k \in 1 .. Len(Tail(buffer[m])) : Kept(m, i)[k] = Tail(buffer[m])[k]
          /\ Kept(m, i)[Len(Tail(buffer[m])) + 1] = i
        BY <1>1, <2>2, <2>3, AppendProperties
    <2>5. Len(Kept(m, i)) = Len(buffer[m])
        BY <1>1, <2>2, <2>4
    <2>6. ASSUME NEW k \in 1 .. Len(Kept(m, i)), Kept(m, i)[k] # i
          PROVE  \E l \in 1 .. Len(buffer[m]) : Kept(m, i)[k] = buffer[m][l]
        <3>1. k \in 1 .. Len(Tail(buffer[m])) /\ k + 1 \in 1 .. Len(buffer[m])
            BY <1>1, <2>2, <2>4, <2>6
        <3> QED BY <2>2, <2>4, <3>1
    <2> QED BY <1>1, <2>4, <2>5, <2>6 DEF S
<1>3. CASE ~Full(m)
    <2>1. Kept(m, i) = Append(buffer[m], i)
        BY <1>3 DEF Kept
    <2>2. /\ Kept(m, i) \in Seq(S) /\ Len(Kept(m, i)) = Len(buffer[m]) + 1
          /\ \A k \in 1 .. Len(buffer[m]) : Kept(m, i)[k] = buffer[m][k]
          /\ Kept(m, i)[Len(buffer[m]) + 1] = i
        BY <1>1, <2>1, AppendProperties
    <2>3. Len(Kept(m, i)) <= BufferSlots
        BY <1>1, <1>3, <2>2 DEF Full
    <2>4. ASSUME NEW k \in 1 .. Len(Kept(m, i)), Kept(m, i)[k] # i
          PROVE  \E l \in 1 .. Len(buffer[m]) : Kept(m, i)[k] = buffer[m][l]
        <3>1. k \in 1 .. Len(buffer[m])
            BY <1>1, <2>2, <2>4
        <3> QED BY <2>2, <3>1
    <2> QED BY <2>2, <2>3, <2>4 DEF S
<1> QED BY <1>2, <1>3

LEMMA SendReturnsKeeps == ASSUME IInv, NEW n \in Node, SendReturns(n) PROVE IInv'
<1>1. PICK i \in 1 .. Len(transmissions), outcome \in [Node -> {"-", "M", "C", "L", "D"}],
           waiters \in SUBSET Node :
              /\ transmissions[i].src = n /\ ~Over(transmissions[i])
              /\ outcome[n] = "-"
              /\ \A m \in waiters : Listening(m)
              /\ transmissions' = [transmissions EXCEPT ![i].outcome = outcome]
              /\ ready' = [m \in Node |-> IF m \in waiters THEN i ELSE ready[m]]
              /\ wake' = [m \in Node |-> IF m \in waiters THEN now ELSE wake[m]]
              /\ priority' = [m \in Node |-> IF m \in waiters THEN 0 ELSE priority[m]]
              /\ overflow' \in [Node -> Nat]
              /\ \A m \in Node : buffer'[m] = buffer[m] \/ buffer'[m] = Kept(m, i)
              /\ buffer' \in [Node -> {buffer[m] : m \in Node} \cup {Kept(m, i) : m \in Node}]
    BY Finished
<1>2. /\ running = n /\ doing[n] = "send" /\ doing' = [doing EXCEPT ![n] = "program"]
      /\ apart' = apart /\ now' = now /\ started' = started /\ stopping' = stopping
      /\ running' = running /\ alive' = alive /\ order' = order /\ orderCounter' = orderCounter
      /\ listenStart' = listenStart /\ windows' = windows /\ calls' = calls
    BY DEF SendReturns
<1>3. /\ now \in Nat /\ wake \in [Node -> Nat] /\ wake[n] = now /\ n \in alive
      /\ doing \in [Node -> {"program", "send", "receive"}]
    BY <1>2, Turn
<1>4. RadioInv /\ RadioOK /\ WorldInv /\ WorldOK
    BY DEF IInv, RadioInv, WorldInv
<1>5. WorldInv'
    <2>1. wake' \in [Node -> Nat] /\ priority' \in [Node -> {0, 1}]
        BY <1>1, <1>3, <1>4 DEF WorldOK
    <2>2. WorldOK'
        BY <1>2, <1>4, <2>1 DEF WorldOK
    <2>3. \A m \in Node : now <= wake[m] => now' <= wake'[m]
        BY <1>1, <1>2, <1>3
    <2>4. NobodyOversleeps'
        BY <1>2, <1>4, <2>3, <2>1, <1>3 DEF WorldInv, WorldOK, NobodyOversleeps
    <2>5. DueNow'
        BY <1>2, <1>3 DEF DueNow
    <2> QED BY <2>2, <2>4, <2>5 DEF WorldInv
<1> DEFINE last == Len(transmissions)
<1>6. transmissions[i] \in Transmission /\ transmissions[i].end \in Nat
    BY <1>4, Records
<1>7. transmissions[i].end = now
    <2>1. Sent(i)
        BY <1>4 DEF RadioInv, Sending
    <2> QED BY <1>1, <1>3, <2>1 DEF Sent
<1>8. /\ transmissions' \in Seq(Transmission) /\ Len(transmissions') = last
      /\ \A j \in 1 .. last : j # i => transmissions'[j] = transmissions[j]
      /\ Over(transmissions'[i]) /\ transmissions'[i].end = now /\ transmissions'[i].src = n
    <2> DEFINE new == [transmissions[i] EXCEPT !.outcome = outcome]
    <2>1. transmissions' = [transmissions EXCEPT ![i] = new]
        BY <1>1
    <2>2. new \in Transmission /\ new.end = now /\ new.src = n /\ new.outcome = outcome
        <3>1. outcome \in [Node -> {"?", "-", "M", "C", "L", "D"}]
            OBVIOUS
        <3>2. ASSUME NEW t \in Transmission
              PROVE  /\ [t EXCEPT !.outcome = outcome] \in Transmission
                     /\ [t EXCEPT !.outcome = outcome].end = t.end
                     /\ [t EXCEPT !.outcome = outcome].src = t.src
                     /\ [t EXCEPT !.outcome = outcome].outcome = outcome
            BY ONLY <3>1 DEF Transmission
        <3> QED BY <1>1, <1>6, <1>7, <3>2
    <2>3. outcome # Pending
        BY <1>1 DEF Pending
    <2> HIDE DEF new
    <2>4. /\ [transmissions EXCEPT ![i] = new] \in Seq(Transmission)
          /\ Len([transmissions EXCEPT ![i] = new]) = last
          /\ \A j \in 1 .. last : [transmissions EXCEPT ![i] = new][j] = IF j = i THEN new ELSE transmissions[j]
        BY <1>4, <2>2, ExceptSeq DEF RadioOK
    <2> QED BY <2>1, <2>2, <2>3, <2>4 DEF Over
<1>9. \A j \in 1 .. last : Over(transmissions[j]) =>
            Over(transmissions'[j]) /\ transmissions'[j].end = transmissions[j].end
    BY <1>1, <1>8
<1>10. RadioOK'
    <2>1. doing' \in [Node -> {"program", "send", "receive"}]
        BY <1>2, <1>3
    <2>2. ready' \in [Node -> 0 .. last]
        BY <1>1, <1>4 DEF RadioOK
    <2>3. ASSUME NEW m \in Node PROVE buffer'[m] \in Seq(1 .. last) /\ Len(buffer'[m]) <= BufferSlots
        <3>1. CASE buffer'[m] = buffer[m]
            BY <1>4, <3>1 DEF RadioOK
        <3>2. CASE buffer'[m] = Kept(m, i)
            BY <1>4, <3>2, KeptType
        <3> QED BY <1>1, <3>1, <3>2
    <2>4. buffer' \in [Node -> Seq(1 .. last)] /\ \A m \in Node : Len(buffer'[m]) <= BufferSlots
        <3>1. buffer' = [m \in Node |-> buffer'[m]]
            BY <1>1
        <3> QED BY <2>3, <3>1
    <2>5. overflow' \in [Node -> Nat]
        BY <1>1
    <2> QED BY <1>2, <1>4, <1>8, <2>1, <2>2, <2>4, <2>5 DEF RadioOK
<1>11. Sending'
    <2>1. ASSUME NEW j \in 1 .. last PROVE Sent(j)'
        <3>1. CASE j = i
            BY <1>2, <1>3, <1>8, <3>1 DEF Sent, Over, Pending
        <3>2. CASE j # i
            <4>1. Sent(j) /\ transmissions'[j] = transmissions[j] /\ transmissions[j].src \in Node
                BY <1>4, <1>8, <3>2, Records DEF RadioInv, Sending
            <4>2. ~Over(transmissions[j]) /\ transmissions[j].src \in alive =>
                    /\ transmissions[j].src # n /\ transmissions[j].src \notin waiters
                BY <1>1, <1>3, <1>4, <3>2, <4>1 DEF RadioInv, Sending, Sent, Listening
            <4> QED BY <1>1, <1>2, <1>3, <4>1, <4>2 DEF Sent, Over, Pending
        <3> QED BY <3>1, <3>2
    <2>2. ASSUME NEW j \in 1 .. last, NEW k \in 1 .. last,
                 ~Over(transmissions'[j]), ~Over(transmissions'[k]),
                 transmissions'[j].src = transmissions'[k].src, transmissions'[j].src \in alive
          PROVE  j = k
        BY <1>4, <1>8, <2>2 DEF RadioInv, Sending
    <2> QED BY <1>2, <1>8, <2>1, <2>2 DEF Sending, Over, Pending
<1>12. Receiving'
    <2> SUFFICES ASSUME NEW m \in Node, Listening(m)' PROVE Receives(m)'
        BY DEF Receiving
    <2>1. Listening(m)
        BY <1>2, <1>3 DEF Listening
    <2>2. Receives(m)
        BY <1>4, <2>1 DEF RadioInv, Receiving
    <2>3. CASE m \in waiters
        <3>1. ready'[m] = i /\ wake'[m] = now /\ i # 0
            BY <1>1, <2>3
        <3> QED BY <1>2, <1>8, <2>2, <3>1 DEF Receives, Over, Pending
    <2>4. CASE m \notin waiters
        <3>1. ready'[m] = ready[m] /\ wake'[m] = wake[m] /\ ready[m] \in 0 .. last /\ last \in Nat
            BY <1>1, <1>4, <2>4, Records DEF RadioOK
        <3>2. ready[m] # 0 => ready[m] \in 1 .. last
            BY <3>1
        <3> QED BY <1>2, <1>9, <2>2, <3>1, <3>2 DEF Receives, Over, Pending
    <2> QED BY <2>3, <2>4
<1>13. Stored'
    <2> SUFFICES ASSUME NEW m \in Node, NEW k \in 1 .. Len(buffer'[m])
                 PROVE  Over(transmissions'[buffer'[m][k]])
        BY DEF Stored, Over, Pending
    <2>1. ASSUME NEW l \in 1 .. Len(buffer[m]) PROVE Over(transmissions'[buffer[m][l]])
        <3>1. buffer[m][l] \in 1 .. last /\ Over(transmissions[buffer[m][l]])
            BY <1>4, ElementOfSeq DEF RadioInv, RadioOK, Stored
        <3> QED BY <1>9, <3>1
    <2>2. buffer'[m][k] = i \/ \E l \in 1 .. Len(buffer[m]) : buffer'[m][k] = buffer[m][l]
        <3>1. CASE buffer'[m] = buffer[m]
            BY <3>1
        <3>2. CASE buffer'[m] = Kept(m, i)
            <4>1. k \in 1 .. Len(Kept(m, i))
                BY <3>2
            <4>2. Kept(m, i)[k] = i \/ \E l \in 1 .. Len(buffer[m]) : Kept(m, i)[k] = buffer[m][l]
                BY <1>4, <4>1, KeptType
            <4> QED BY <3>2, <4>2
        <3> QED BY <1>1, <3>1, <3>2
    <2> QED BY <1>8, <2>1, <2>2
<1>14. AllClosed'
    <2> SUFFICES ASSUME NEW m \in Node, NEW k \in 1 .. Len(windows[m]) PROVE Closed(windows[m][k])'
        BY <1>2 DEF AllClosed
    <2>1. Closed(windows[m][k])
        BY <1>4 DEF RadioInv, AllClosed
    <2>2. \A j \in 1 .. last : transmissions'[j].end = transmissions[j].end
        BY <1>7, <1>8
    <2>3. last \in Nat
        BY <1>4, Records
    <2> QED BY <1>2, <1>8, <2>1, <2>2, <2>3 DEF Closed, Later
<1> QED BY <1>5, <1>10, <1>11, <1>12, <1>13, <1>14 DEF IInv, RadioInv

(* A node that only reads its radio, or starts to, leaves the frames alone. *)
LEMMA SendingKeeps ==
    ASSUME RadioInv, NEW n \in Node, doing[n] # "send", now \in Nat, now' \in Nat, now <= now',
           UNCHANGED <<transmissions, alive>>,
           \A m \in Node \ {n} : doing'[m] = doing[m] /\ wake'[m] = wake[m]
    PROVE  Sending'
<1>1. RadioOK /\ Sending
    BY DEF RadioInv
<1>2. ASSUME NEW i \in 1 .. Len(transmissions) PROVE Sent(i)'
    <2>1. Sent(i) /\ transmissions[i].src \in Node /\ transmissions[i].end \in Nat
        BY <1>1, Records DEF Sending
    <2> QED BY <2>1 DEF Sent, Over, Pending
<1> QED BY <1>1, <1>2 DEF Sending, Over, Pending

LEMMA ReceivesKept ==
    ASSUME RadioInv, NEW m \in Node, Listening(m), now \in Nat, now' \in Nat, now <= now',
           transmissions' = transmissions, windows'[m] = windows[m], ready'[m] = ready[m],
           wake'[m] = wake[m]
    PROVE  Receives(m)'
<1>1. Receives(m) /\ RadioOK
    BY DEF RadioInv, Receiving
<1>2. windows[m][Len(windows[m])].start \in Nat
    BY <1>1, Records DEF Receives
<1> QED BY <1>1, <1>2 DEF Receives, Over, Pending

LEMMA ReceiveKeeps ==
    ASSUME IInv, NEW n \in Node, NEW timeout \in Timeouts[n], Receive(n, timeout) PROVE IInv'
<1> DEFINE until == now + timeout
           w == [start |-> now, until |-> until, end |-> now, frame |-> 0, fits |-> FALSE, open |-> TRUE]
<1>1. /\ running = n /\ doing[n] = "program" /\ calls' = [calls EXCEPT ![n] = @ + 1]
      /\ BlockUntil(n, until, 1, "receive") /\ apart' = apart /\ started' = started
      /\ listenStart' = [listenStart EXCEPT ![n] = now] /\ ready' = [ready EXCEPT ![n] = 0]
      /\ windows' = [windows EXCEPT ![n] = Append(@, w)]
      /\ buffer' = buffer /\ transmissions' = transmissions /\ overflow' = overflow
    BY DEF Receive, MayCall
<1>2. until \in Nat /\ now <= until
    BY Turn, SimWorldAssumption
<1> HIDE DEF until
<1>3. /\ WorldInv' /\ now <= now' /\ alive' = alive
      /\ wake' = [wake EXCEPT ![n] = until] /\ doing' = [doing EXCEPT ![n] = "receive"]
    BY <1>1, <1>2, Blocks DEF IInv
<1>4. now \in Nat /\ now' \in Nat /\ calls' \in [Node -> Nat]
    <2>1. calls' \in [Node -> Nat]
        BY <1>1, Turn
    <2>2. now' \in Nat
        BY <1>3, SimWorldAssumption DEF WorldInv, WorldOK
    <2> QED BY <2>1, <2>2, Turn
<1>5. RadioInv /\ RadioOK
    BY DEF IInv, RadioInv
<1>6. w \in Window /\ w.open /\ w.start = now /\ w.until = until
    BY <1>2, <1>4 DEF Window
<1> HIDE DEF w
<1>7. windows'[n] = Append(windows[n], w) /\ \A m \in Node \ {n} : windows'[m] = windows[m]
    BY <1>1, <1>5 DEF RadioOK
<1>8. /\ windows'[n] \in Seq(Window) /\ windows'[n] # <<>>
      /\ Len(windows'[n]) = Len(windows[n]) + 1 /\ Len(windows[n]) \in Nat
      /\ \A k \in 1 .. Len(windows[n]) : windows'[n][k] = windows[n][k]
      /\ windows'[n][Len(windows'[n])] = w
    <2>1. windows[n] \in Seq(Window) /\ Len(windows[n]) \in Nat
        BY <1>5, Records DEF RadioOK
    <2>2. /\ Append(windows[n], w) \in Seq(Window) /\ Append(windows[n], w) # <<>>
          /\ Len(Append(windows[n], w)) = Len(windows[n]) + 1
          /\ \A k \in 1 .. Len(windows[n]) : Append(windows[n], w)[k] = windows[n][k]
          /\ Append(windows[n], w)[Len(windows[n]) + 1] = w
        BY <1>6, <2>1, AppendProperties
    <2> QED BY <1>7, <2>1, <2>2
<1>9. RadioOK'
    <2>1. doing' \in [Node -> {"program", "send", "receive"}] /\ listenStart' \in [Node -> Nat]
        BY <1>1, <1>3, <1>4, <1>5 DEF RadioOK
    <2>2. ready' \in [Node -> 0 .. Len(transmissions)]
        BY <1>1, <1>5, Records DEF RadioOK
    <2>3. windows' \in [Node -> Seq(Window)]
        BY <1>1, <1>5, <1>7, <1>8 DEF RadioOK
    <2> QED BY <1>1, <1>4, <1>5, <2>1, <2>2, <2>3 DEF RadioOK
<1>10. Sending'
    <2>1. \A m \in Node \ {n} : doing'[m] = doing[m] /\ wake'[m] = wake[m]
        BY <1>3, Turn
    <2> QED BY <1>1, <1>3, <1>4, <1>5, <2>1, SendingKeeps
<1>11. Receiving'
    <2> SUFFICES ASSUME NEW m \in Node, Listening(m)' PROVE Receives(m)'
        BY DEF Receiving
    <2>1. CASE m = n
        <3>1. ready'[n] = 0 /\ wake'[n] = until
            BY <1>1, <1>3, <1>5, Turn DEF RadioOK
        <3> QED BY <1>3, <1>6, <1>8, <2>1, <3>1 DEF Receives
    <2>2. CASE m # n
        <3>1. /\ Listening(m) /\ windows'[m] = windows[m] /\ ready'[m] = ready[m] /\ wake'[m] = wake[m]
            BY <1>1, <1>3, <1>5, <1>7, <2>2, Turn DEF Listening, RadioOK
        <3> QED BY <1>1, <1>3, <1>4, <1>5, <3>1, ReceivesKept
    <2> QED BY <2>1, <2>2
<1>12. Stored'
    BY <1>1, <1>5 DEF RadioInv, Stored, Over, Pending
<1>13. AllClosed'
    <2> SUFFICES ASSUME NEW m \in Node, NEW k \in 1 .. Len(windows'[m]) PROVE Closed(windows'[m][k])
        BY <1>1 DEF AllClosed, Closed, Later
    <2>1. CASE m = n /\ k = Len(windows'[n])
        BY <1>6, <1>8, <2>1 DEF Closed
    <2>2. CASE m = n /\ k # Len(windows'[n])
        <3>1. k \in 1 .. Len(windows[n]) /\ windows'[m][k] = windows[n][k]
            BY <1>8, <2>2
        <3> QED BY <1>5, <3>1 DEF RadioInv, AllClosed
    <2>3. CASE m # n
        BY <1>5, <1>7, <2>3 DEF RadioInv, AllClosed
    <2> QED BY <2>1, <2>2, <2>3
<1> QED BY <1>3, <1>9, <1>10, <1>11, <1>12, <1>13 DEF IInv, RadioInv

LEMMA ReceiveReturnsKeeps == ASSUME IInv, NEW n \in Node, ReceiveReturns(n) PROVE IInv'
<1> DEFINE last == Len(windows[n])
           old == windows[n][last]
           new == [old EXCEPT !.end = now, !.frame = ready[n], !.fits = Fits(n, ready[n]), !.open = FALSE]
<1>1. /\ running = n /\ doing[n] = "receive" /\ doing' = [doing EXCEPT ![n] = "program"]
      /\ windows' = [windows EXCEPT ![n][last] = new]
      /\ ready' = [ready EXCEPT ![n] = 0]
      /\ UNCHANGED <<world, listenStart, buffer, transmissions, overflow, calls>>
    BY DEF ReceiveReturns, Listening
<1>2. /\ apart' = apart /\ started' = started /\ stopping' = stopping /\ now' = now
      /\ running' = running /\ alive' = alive /\ wake' = wake /\ priority' = priority
      /\ order' = order /\ orderCounter' = orderCounter /\ listenStart' = listenStart
      /\ buffer' = buffer /\ transmissions' = transmissions /\ overflow' = overflow /\ calls' = calls
    BY <1>1 DEF world
<1>3. RadioInv /\ RadioOK /\ WorldInv
    BY DEF IInv, RadioInv
<1>4. now \in Nat /\ wake[n] = now /\ doing \in [Node -> {"program", "send", "receive"}]
    BY <1>1, Turn
<1>5. Receives(n)
    BY <1>1, <1>3 DEF RadioInv, Receiving, Listening
<1>6. last \in 1 .. last /\ last \in Nat /\ old \in Window /\ ready[n] \in 0 .. Len(transmissions)
    BY <1>3, <1>5, Records DEF Receives, RadioOK
<1>7. new \in Window
    <2>1. Fits(n, ready[n]) \in BOOLEAN
        BY DEF Fits
    <2>2. ready[n] \in Nat
        BY <1>3, <1>6, Records
    <2> HIDE DEF old
    <2> QED BY <1>4, <1>6, <2>1, <2>2 DEF Window
<1>8. Closed(new)
    <2>1. /\ new.frame = ready[n] /\ new.end = now /\ new.start = old.start /\ new.until = old.until
        BY <1>6 DEF Window
    <2>2. /\ old.start \in Nat /\ old.start <= now
          /\ ready[n] = 0 => now = old.until
          /\ ready[n] # 0 => now = transmissions[ready[n]].end
        BY <1>3, <1>4, <1>5, <1>6, Records DEF Receives
    <2> HIDE DEF new, old
    <2> QED BY <1>4, <1>6, <2>1, <2>2 DEF Closed, Later
<1> HIDE DEF new, old
<1>9. windows'[n] = [windows[n] EXCEPT ![last] = new] /\ \A m \in Node \ {n} : windows'[m] = windows[m]
    BY <1>1, <1>3 DEF RadioOK
<1>10. /\ windows'[n] \in Seq(Window) /\ Len(windows'[n]) = last
       /\ \A k \in 1 .. last : windows'[n][k] = IF k = last THEN new ELSE windows[n][k]
    <2>1. windows[n] \in Seq(Window)
        BY <1>3 DEF RadioOK
    <2> HIDE DEF last
    <2>2. /\ [windows[n] EXCEPT ![last] = new] \in Seq(Window)
          /\ Len([windows[n] EXCEPT ![last] = new]) = Len(windows[n])
          /\ \A k \in 1 .. Len(windows[n]) :
                [windows[n] EXCEPT ![last] = new][k] = IF k = last THEN new ELSE windows[n][k]
        <3>1. last \in 1 .. Len(windows[n])
            BY <1>6 DEF last
        <3> QED BY <1>7, <2>1, <3>1, ExceptSeq
    <2> QED BY <1>9, <2>2 DEF last
<1>11. WorldInv'
    BY <1>1, <1>2, <1>3, <1>4 DEF WorldInv, WorldOK, NobodyOversleeps, DueNow
<1>12. RadioOK'
    <2>1. doing' \in [Node -> {"program", "send", "receive"}]
        BY <1>1, <1>4
    <2>2. ready' \in [Node -> 0 .. Len(transmissions)]
        BY <1>1, <1>3, Records DEF RadioOK
    <2>3. windows' \in [Node -> Seq(Window)]
        BY <1>1, <1>3, <1>9, <1>10 DEF RadioOK
    <2> QED BY <1>2, <1>3, <2>1, <2>2, <2>3 DEF RadioOK
<1>13. Sending'
    <2>1. \A m \in Node \ {n} : doing'[m] = doing[m] /\ wake'[m] = wake[m]
        BY <1>1, <1>2, <1>4
    <2> QED BY <1>1, <1>2, <1>3, <1>4, <2>1, SendingKeeps
<1>14. Receiving'
    <2> SUFFICES ASSUME NEW m \in Node, Listening(m)' PROVE Receives(m)'
        BY DEF Receiving
    <2>1. /\ m # n /\ Listening(m) /\ windows'[m] = windows[m] /\ ready'[m] = ready[m]
          /\ wake'[m] = wake[m]
        BY <1>1, <1>2, <1>3, <1>4, <1>9 DEF Listening, RadioOK
    <2> QED BY <1>2, <1>3, <1>4, <2>1, ReceivesKept
<1>15. Stored'
    BY <1>2, <1>3 DEF RadioInv, Stored, Over, Pending
<1>16. AllClosed'
    <2> SUFFICES ASSUME NEW m \in Node, NEW k \in 1 .. Len(windows'[m]) PROVE Closed(windows'[m][k])
        BY <1>2 DEF AllClosed, Closed, Later
    <2>1. CASE m = n /\ k = last
        BY <1>8, <1>10, <1>6, <2>1
    <2>2. CASE m = n /\ k # last
        BY <1>3, <1>10, <2>2 DEF RadioInv, AllClosed
    <2>3. CASE m # n
        BY <1>3, <1>9, <2>3 DEF RadioInv, AllClosed
    <2> QED BY <2>1, <2>2, <2>3
<1> QED BY <1>11, <1>12, <1>13, <1>14, <1>15, <1>16 DEF IInv, RadioInv

LEMMA ReceiveBufferedKeeps == ASSUME IInv, NEW n \in Node, ReceiveBuffered(n) PROVE IInv'
<1> DEFINE i == Head(buffer[n])
           w == [start |-> now, until |-> now, end |-> now, frame |-> i, fits |-> Fits(n, i),
                 open |-> FALSE]
<1>1. /\ running = n /\ doing[n] = "program" /\ calls' = [calls EXCEPT ![n] = @ + 1]
      /\ buffer[n] # <<>> /\ buffer' = [buffer EXCEPT ![n] = Tail(@)]
      /\ windows' = [windows EXCEPT ![n] = Append(@, w)]
      /\ UNCHANGED <<world, doing, listenStart, ready, transmissions, overflow>>
    BY DEF ReceiveBuffered, MayCall, HasBuffered
<1>2. /\ apart' = apart /\ started' = started /\ stopping' = stopping /\ now' = now
      /\ running' = running /\ alive' = alive /\ wake' = wake /\ priority' = priority
      /\ order' = order /\ orderCounter' = orderCounter /\ doing' = doing
      /\ listenStart' = listenStart /\ ready' = ready /\ transmissions' = transmissions
      /\ overflow' = overflow
    BY <1>1 DEF world
<1>3. RadioInv /\ RadioOK /\ WorldInv
    BY DEF IInv, RadioInv
<1>4. now \in Nat /\ now <= now /\ calls' \in [Node -> Nat]
    <2>1. now \in Nat /\ calls \in [Node -> Nat]
        BY Turn
    <2> QED BY <1>1, <2>1
<1> DEFINE S == 1 .. Len(transmissions)
<1>5. buffer[n] \in Seq(S) /\ Len(buffer[n]) \in Nat \ {0}
    BY <1>1, <1>3, EmptySeq DEF RadioOK
<1>6. /\ i \in S /\ i = buffer[n][1] /\ 1 \in 1 .. Len(buffer[n])
      /\ Tail(buffer[n]) \in Seq(S) /\ Len(Tail(buffer[n])) = Len(buffer[n]) - 1
      /\ \A k \in 1 .. Len(Tail(buffer[n])) : Tail(buffer[n])[k] = buffer[n][k + 1]
    <2> HIDE DEF S
    <2> QED BY <1>1, <1>5, HeadTailProperties
<1>7. i \in Nat /\ i # 0 /\ transmissions[i].end \in Nat /\ transmissions[i].end <= now
    <2>1. Over(transmissions[i]) /\ Sent(i)
        BY <1>3, <1>6 DEF RadioInv, Stored, Sending
    <2> QED BY <1>3, <1>6, <2>1, Records DEF Sent
<1> HIDE DEF i
<1>8. w \in Window /\ Closed(w)
    <2>1. Fits(n, i) \in BOOLEAN
        BY DEF Fits
    <2> QED BY <1>4, <1>6, <1>7, <2>1 DEF Window, Closed, Later
<1> HIDE DEF w
<1>9. windows'[n] = Append(windows[n], w) /\ \A m \in Node \ {n} : windows'[m] = windows[m]
    BY <1>1, <1>3 DEF RadioOK
<1>10. /\ windows'[n] \in Seq(Window) /\ Len(windows'[n]) = Len(windows[n]) + 1
       /\ Len(windows[n]) \in Nat
       /\ \A k \in 1 .. Len(windows[n]) : windows'[n][k] = windows[n][k]
       /\ windows'[n][Len(windows[n]) + 1] = w
    <2>1. windows[n] \in Seq(Window) /\ Len(windows[n]) \in Nat
        BY <1>3, Records DEF RadioOK
    <2>2. /\ Append(windows[n], w) \in Seq(Window)
          /\ Len(Append(windows[n], w)) = Len(windows[n]) + 1
          /\ \A k \in 1 .. Len(windows[n]) : Append(windows[n], w)[k] = windows[n][k]
          /\ Append(windows[n], w)[Len(windows[n]) + 1] = w
        BY <1>8, <2>1, AppendProperties
    <2> QED BY <1>9, <2>1, <2>2
<1>11. WorldInv'
    BY <1>1, <1>2, <1>3 DEF WorldInv, WorldOK, NobodyOversleeps, DueNow
<1>12. buffer'[n] = Tail(buffer[n]) /\ \A m \in Node \ {n} : buffer'[m] = buffer[m]
    BY <1>1, <1>3 DEF RadioOK
<1>13. RadioOK'
    <2>1. windows' \in [Node -> Seq(Window)]
        BY <1>1, <1>3, <1>9, <1>10 DEF RadioOK
    <2>2. buffer' \in [Node -> Seq(S)]
        BY <1>1, <1>3, <1>6, <1>12 DEF RadioOK
    <2>3. ASSUME NEW m \in Node PROVE Len(buffer'[m]) <= BufferSlots
        <3>1. Len(buffer[m]) <= BufferSlots /\ BufferSlots \in Nat
            BY <1>3, SimWorldAssumption DEF RadioOK
        <3>2. m = n => Len(buffer'[m]) = Len(buffer[m]) - 1 /\ Len(buffer[m]) \in Nat
            BY <1>5, <1>6, <1>12
        <3>3. m # n => buffer'[m] = buffer[m]
            BY <1>12
        <3> QED BY ONLY <3>1, <3>2, <3>3
    <2> QED BY <1>2, <1>3, <1>4, <2>1, <2>2, <2>3 DEF RadioOK
<1>14. Sending'
    <2>1. doing[n] # "send" /\ now' \in Nat /\ now <= now'
        BY <1>1, <1>2, <1>4
    <2> QED BY <1>2, <1>3, <1>4, <2>1, SendingKeeps
<1>15. Receiving'
    <2> SUFFICES ASSUME NEW m \in Node, Listening(m)' PROVE Receives(m)'
        BY DEF Receiving
    <2>1. m # n /\ Listening(m) /\ windows'[m] = windows[m]
        BY <1>1, <1>2, <1>9 DEF Listening
    <2> QED BY <1>2, <1>3, <1>4, <2>1, ReceivesKept
<1>16. Stored'
    <2> SUFFICES ASSUME NEW m \in Node, NEW k \in 1 .. Len(buffer'[m])
                 PROVE  Over(transmissions[buffer'[m][k]])
        BY <1>2 DEF Stored, Over, Pending
    <2>1. CASE m = n
        <3>1. k \in 1 .. Len(Tail(buffer[n])) /\ buffer'[m] = Tail(buffer[n])
            BY <1>12, <2>1
        <3>2. buffer'[m][k] = buffer[n][k + 1]
            BY <1>6, <3>1
        <3>3. k + 1 \in 1 .. Len(buffer[n])
            BY ONLY <1>5, <1>6, <3>1
        <3> QED BY <1>3, <3>2, <3>3 DEF RadioInv, Stored
    <2>2. CASE m # n
        BY <1>3, <1>12, <2>2 DEF RadioInv, Stored
    <2> QED BY <2>1, <2>2
<1>17. AllClosed'
    <2> SUFFICES ASSUME NEW m \in Node, NEW k \in 1 .. Len(windows'[m]) PROVE Closed(windows'[m][k])
        BY <1>2 DEF AllClosed, Closed, Later
    <2>1. CASE m = n /\ k = Len(windows[n]) + 1
        BY <1>8, <1>10, <2>1
    <2>2. CASE m = n /\ k # Len(windows[n]) + 1
        <3>1. k \in 1 .. Len(windows[n]) /\ windows'[m][k] = windows[n][k]
            BY <1>10, <2>2
        <3> QED BY <1>3, <3>1 DEF RadioInv, AllClosed
    <2>3. CASE m # n
        BY <1>3, <1>9, <2>3 DEF RadioInv, AllClosed
    <2> QED BY <2>1, <2>2, <2>3
<1> QED BY <1>11, <1>13, <1>14, <1>15, <1>16, <1>17 DEF IInv, RadioInv

LEMMA StutterKeeps == ASSUME IInv, UNCHANGED vars PROVE IInv'
<1>1. /\ apart' = apart /\ started' = started /\ stopping' = stopping /\ now' = now
      /\ running' = running /\ alive' = alive /\ wake' = wake /\ priority' = priority
      /\ order' = order /\ orderCounter' = orderCounter /\ doing' = doing /\ calls' = calls
      /\ UNCHANGED radios
    BY DEF vars, radios
<1>2. WorldInv'
    BY <1>1 DEF IInv, WorldInv, WorldOK, NobodyOversleeps, DueNow
<1>3. now \in Nat /\ now' \in Nat /\ now <= now'
    BY <1>1, Turn
<1>4. RadioInv'
    BY <1>1, <1>3, Turn, RadiosKeep DEF IInv
<1> QED BY <1>2, <1>4 DEF IInv

LEMMA NextIInv == IInv /\ [Next]_vars => IInv'
<1> SUFFICES ASSUME IInv, [Next]_vars PROVE IInv'
    OBVIOUS
<1>1. CASE Run
    BY <1>1, RunKeeps
<1>2. ASSUME NEW n \in Node, \/ Exit(n) \/ Unwind(n) \/ SendReturns(n) \/ ReceiveReturns(n)
                             \/ ReceiveBuffered(n)
      PROVE  IInv'
    BY <1>2, ExitKeeps, UnwindKeeps, SendReturnsKeeps, ReceiveReturnsKeeps, ReceiveBufferedKeeps
<1>3. ASSUME NEW n \in Node, NEW air \in Airtimes[n], Send(n, air) PROVE IInv'
    BY <1>3, SendKeeps
<1>4. ASSUME NEW n \in Node, NEW timeout \in Timeouts[n], Receive(n, timeout) PROVE IInv'
    BY <1>4, ReceiveKeeps
<1>5. ASSUME NEW n \in Node, NEW ms \in Sleeps[n], SleepMs(n, ms) PROVE IInv'
    BY <1>5, SleepMsKeeps
<1>6. CASE UNCHANGED vars
    BY <1>6, StutterKeeps
<1> QED BY <1>1, <1>2, <1>3, <1>4, <1>5, <1>6 DEF Next

-----------------------------------------------------------------------------
(* The second invariant: the air and what the radios got from it *)

(* Frames begin in the order in which they were sent, and last.            *)
Airs ==
    /\ \A i \in 1 .. Len(transmissions) : LET t == transmissions[i] IN
          t.start <= now + Setup /\ t.start + Slack < t.end /\ t.end <= t.start + MaxAirtime
    /\ \A i, j \in 1 .. Len(transmissions) : i < j => transmissions[i].start <= transmissions[j].start

(* Until the time is over whoever is in a call is alive to return from it. *)
Returning ==
    ~stopping =>
        /\ \A n \in Node : doing[n] # "program" => n \in alive
        /\ \A i \in 1 .. Len(transmissions) : ~Over(transmissions[i]) => transmissions[i].src \in alive

(* Ends of frames go before the ends of timeouts of the same instant. *)
Ranked ==
    /\ \A n \in Node : doing[n] = "send" => priority[n] = 0
    /\ \A n \in Node : Listening(n) /\ ready[n] = 0 => priority[n] = 1

FirstRuns ==
    running # NoNode /\ doing[running] # "program" =>
        \A m \in alive : wake[m] = now => priority[running] <= priority[m]

(* The last window is open as long as its receive() lasts. *)
Opened ==
    /\ \A n \in Node : Listening(n) => listenStart[n] = windows[n][Len(windows[n])].start
    /\ \A n \in Node : \A k \in 1 .. Len(windows[n]) : LET w == windows[n][k] IN
          /\ w.end <= now
          /\ ~stopping => (w.open <=> Listening(n) /\ k = Len(windows[n]))

(* No window that is over covers a frame that is not. *)
NotCovered ==
    ~stopping =>
        \A i \in 1 .. Len(transmissions) : LET t == transmissions[i] IN
            \A n \in Node \ Continuous : ~Over(t) /\ Audible(t, n) =>
                \A k \in 1 .. Len(windows[n]) : ~windows[n][k].open => ~Covers(windows[n][k], t)

Delivered(i, n) == transmissions[i].outcome[n] = "D"

(* A node gets only frames that it can hear. *)
Heeded == \A i \in 1 .. Len(transmissions) : \A n \in Node :
    Delivered(i, n) => Audible(transmissions[i], n)

Given == \A n \in Node : ready[n] # 0 => Delivered(ready[n], n)

AirInv ==
    /\ Airs /\ Returning /\ Ranked /\ FirstRuns /\ Opened /\ NotCovered /\ Heeded /\ Given
    /\ OutcomeFinal /\ WindowsDecide

Numbered(n) == {k \in 1 .. Len(windows[n]) : windows[n][k].frame # 0}
Received(n) == {i \in 1 .. Len(transmissions) : Delivered(i, n)}

(* What node n got, and what its radio holds for it: a frame in the hands  *)
(* of receive() or those in the buffer, never both.                        *)
Handing(n) ==
    LET got == windows[n]
        held == IF ready[n] = 0 THEN Len(buffer[n]) ELSE 1
    IN  /\ \A k \in Numbered(n) : got[k].frame \in Received(n)
        /\ \A k \in 1 .. Len(buffer[n]) : buffer[n][k] \in Received(n)
        /\ \A j, k \in Numbered(n) : j < k => Earlier(got[j].frame, got[k].frame)
        /\ \A j, k \in 1 .. Len(buffer[n]) : j < k => Earlier(buffer[n][j], buffer[n][k])
        /\ ready[n] # 0 => \A k \in Numbered(n) : Earlier(got[k].frame, ready[n])
        /\ \A k \in Numbered(n), j \in 1 .. Len(buffer[n]) : Earlier(got[k].frame, buffer[n][j])
        /\ Cardinality(Numbered(n)) + held + overflow[n] = Cardinality(Received(n))
        /\ Listening(n) \/ ready[n] # 0 \/ n \notin Continuous => buffer[n] = <<>>
        /\ ready[n] # 0 => Listening(n) \/ stopping
        /\ Listening(n) /\ ~stopping => windows[n][Len(windows[n])].frame = 0

HandInv == \A n \in Node : Handing(n)

(* Who is resumed has the best rank of those who are due with it. *)
LEMMA Scheduled ==
    ASSUME ScheduleNext, WorldInv, WorldInv'
    PROVE  FirstRuns' /\ (~stopping' => ~stopping)
<1> DEFINE best == Best(alive', wake', priority', order')
<1> USE DEF WorldInv, WorldOK
<1>1. CASE alive' = {}
    BY <1>1, SimWorldAssumption DEF ScheduleNext, FirstRuns
<1>2. CASE alive' # {} /\ wake'[best] > Limit
    <2>1. running' = NoNode /\ stopping' = TRUE
        BY <1>2, Zenon DEF ScheduleNext
    <2> QED BY <2>1 DEF FirstRuns
<1>3. CASE alive' # {} /\ ~(wake'[best] > Limit)
    <2>1. running' = best /\ stopping' = stopping
        BY <1>3, Zenon DEF ScheduleNext
    <2>2. priority' \in [Node -> Nat] /\ alive' \subseteq Node
        OBVIOUS
    <2> HIDE DEF best
    <2>3. \A m \in alive' : wake'[m] = wake'[best] => priority'[best] <= priority'[m]
        BY <1>3, <2>2, BestIsFirst DEF best
    <2> QED BY <2>1, <2>3 DEF FirstRuns, DueNow
<1> QED BY <1>1, <1>2, <1>3

(* Programs that call no radio leave what the radios do as it is. *)
LEMMA QuietAir ==
    ASSUME IInv, IInv', AirInv, UNCHANGED <<radios, apart>>, FirstRuns', now <= now',
           ~stopping' => ~stopping /\ doing' = doing,
           \A m \in Node : doing'[m] # "program" => doing'[m] = doing[m] /\ priority'[m] = priority[m],
           \A m \in alive : doing[m] # "program" /\ ~stopping' => m \in alive'
    PROVE  AirInv'
<1>1. /\ listenStart' = listenStart /\ ready' = ready /\ buffer' = buffer
      /\ transmissions' = transmissions /\ windows' = windows /\ overflow' = overflow /\ apart' = apart
    BY DEF radios
<1>2. RadioOK /\ RadioInv /\ now \in Nat /\ now' \in Nat /\ Setup \in Nat
    BY SimWorldAssumption DEF IInv, RadioInv, WorldInv, WorldOK
<1>3. Airs'
    <2>1. ASSUME NEW i \in 1 .. Len(transmissions)
          PROVE  transmissions[i].start \in Nat /\ transmissions[i].start <= now + Setup
        BY <1>2, Records DEF AirInv, Airs
    <2>2. \A i \in 1 .. Len(transmissions) : transmissions[i].start <= now' + Setup
        BY <1>2, <2>1
    <2> QED BY <1>1, <2>2 DEF AirInv, Airs
<1>4. Returning'
    <2>1. ASSUME ~stopping', NEW i \in 1 .. Len(transmissions), ~Over(transmissions[i])
          PROVE  transmissions[i].src \in alive'
        <3>1. transmissions[i].src \in alive /\ Sent(i)
            BY <1>2, <2>1 DEF AirInv, Returning, RadioInv, Sending
        <3> QED BY <2>1, <3>1 DEF Sent
    <2>2. ASSUME ~stopping', NEW m \in Node, doing[m] # "program" PROVE m \in alive'
        BY <2>2 DEF AirInv, Returning
    <2> QED BY <1>1, <2>1, <2>2 DEF Returning, Over, Pending
<1>5. Ranked'
    BY <1>1 DEF AirInv, Ranked, Listening
<1>6. Opened'
    <2>1. \A m \in Node : Listening(m)' => Listening(m)
        BY DEF Listening
    <2>2. ~stopping' => ~stopping /\ \A m \in Node : Listening(m)' <=> Listening(m)
        BY DEF Listening
    <2>3. ASSUME NEW m \in Node, NEW k \in 1 .. Len(windows[m]) PROVE windows[m][k].end <= now'
        <3>1. windows[m][k].end \in Nat /\ windows[m][k].end <= now
            BY <1>2, Records DEF AirInv, Opened
        <3> QED BY <1>2, <3>1
    <2>4. ASSUME ~stopping', NEW m \in Node, NEW k \in 1 .. Len(windows[m])
          PROVE  windows[m][k].open <=> Listening(m)' /\ k = Len(windows[m])
        BY <2>2, <2>4 DEF AirInv, Opened
    <2>5. \A m \in Node : Listening(m)' => listenStart[m] = windows[m][Len(windows[m])].start
        BY <2>1 DEF AirInv, Opened
    <2> QED BY <1>1, <2>3, <2>4, <2>5 DEF Opened
<1>7. NotCovered' /\ WindowsDecide'
    BY <1>1 DEF AirInv, NotCovered, WindowsDecide, Audible, Connected, Over, Pending, Covers
<1>8. Heeded' /\ OutcomeFinal' /\ Given'
    BY <1>1 DEF AirInv, Heeded, Given, OutcomeFinal, Audible, Connected, Over, Pending, Delivered, Occupies,
                Overlaps
<1> QED BY <1>1, <1>3, <1>4, <1>5, <1>6, <1>7, <1>8 DEF AirInv

LEMMA QuietHand ==
    ASSUME HandInv, UNCHANGED radios, ~stopping' => ~stopping /\ doing' = doing,
           \A m \in Node : doing'[m] # "program" => doing'[m] = doing[m]
    PROVE  HandInv'
<1>1. /\ listenStart' = listenStart /\ ready' = ready /\ buffer' = buffer
      /\ transmissions' = transmissions /\ windows' = windows /\ overflow' = overflow
    BY DEF radios
<1> SUFFICES ASSUME NEW n \in Node PROVE Handing(n)'
    BY DEF HandInv
<1>2. Numbered(n)' = Numbered(n) /\ Received(n)' = Received(n)
    BY <1>1 DEF Numbered, Received, Delivered
<1>3. /\ Listening(n)' => Listening(n)
      /\ ~stopping' => ~stopping /\ (Listening(n)' <=> Listening(n))
    BY DEF Listening
<1>4. Handing(n)
    BY DEF HandInv
<1> QED BY <1>1, <1>2, <1>3, <1>4 DEF Handing, Delivered, Earlier

Inv == IInv /\ AirInv /\ HandInv

(* Time does not go back when somebody is resumed. *)
LEMMA TimeGoesOn ==
    ASSUME ScheduleNext, WorldInv, WorldInv'
    PROVE  now <= now'
<1>1. now \in Nat /\ now' \in Nat
    BY SimWorldAssumption DEF WorldInv, WorldOK
<1>2. now' = now \/ \E t \in Nat : now' = Later(now, t)
    <2> DEFINE best == Best(alive', wake', priority', order')
    <2>1. CASE alive' = {} \/ wake'[best] > Limit
        BY <2>1, Zenon DEF ScheduleNext
    <2>2. CASE alive' # {} /\ ~(wake'[best] > Limit)
        <3>1. now' = Later(now, wake'[best])
            BY <2>2, Zenon DEF ScheduleNext
        <3> HIDE DEF best
        <3>2. best \in alive'
            BY <2>2, BestIsFirst DEF WorldInv, WorldOK, best
        <3> QED BY <3>1, <3>2 DEF WorldInv, WorldOK
    <2> QED BY <2>1, <2>2
<1> QED BY <1>1, <1>2 DEF Later

LEMMA RunAir == ASSUME Inv, IInv', Run PROVE Inv'
<1>1. ScheduleNext /\ UNCHANGED radios /\ doing' = doing /\ apart' = apart /\ alive' = alive /\ priority' = priority
    BY DEF Run
<1>2. FirstRuns' /\ (~stopping' => ~stopping) /\ now <= now'
    BY <1>1, Scheduled, TimeGoesOn DEF Inv, IInv
<1>3. AirInv' /\ HandInv'
    BY <1>1, <1>2, QuietAir, QuietHand DEF Inv
<1> QED BY <1>3 DEF Inv

LEMMA ExitAir == ASSUME Inv, IInv', NEW n \in Node, Exit(n) PROVE Inv'
<1>1. /\ ScheduleNext /\ UNCHANGED radios /\ doing' = doing /\ apart' = apart
      /\ alive' = alive \ {n} /\ priority' = priority /\ doing[n] = "program"
    BY DEF Exit
<1>2. FirstRuns' /\ (~stopping' => ~stopping) /\ now <= now'
    BY <1>1, Scheduled, TimeGoesOn DEF Inv, IInv
<1>3. \A m \in alive : doing[m] # "program" => m \in alive'
    BY <1>1
<1>4. AirInv' /\ HandInv'
    BY <1>1, <1>2, <1>3, QuietAir, QuietHand DEF Inv
<1> QED BY <1>4 DEF Inv

LEMMA UnwindAir == ASSUME Inv, IInv', NEW n \in Node, Unwind(n) PROVE Inv'
<1>1. /\ UNCHANGED radios /\ doing' = [doing EXCEPT ![n] = "program"] /\ apart' = apart
      /\ stopping' = stopping /\ stopping /\ now' = now /\ priority' = priority /\ running' = running
    BY DEF Unwind
<1>2. running' = NoNode /\ now <= now'
    BY <1>1, SimWorldAssumption DEF Inv, IInv, WorldInv, WorldOK
<1>3. FirstRuns'
    BY <1>2 DEF FirstRuns
<1>4. \A m \in Node : doing'[m] # "program" => doing'[m] = doing[m] /\ priority'[m] = priority[m]
    BY <1>1, Turn DEF Inv
<1>5. AirInv'
    BY <1>1, <1>2, <1>3, <1>4, QuietAir DEF Inv
<1>6. HandInv'
    BY <1>1, <1>4, QuietHand DEF Inv
<1> QED BY <1>5, <1>6 DEF Inv

LEMMA SleepMsAir ==
    ASSUME Inv, IInv', NEW n \in Node, NEW ms \in Sleeps[n], SleepMs(n, ms) PROVE Inv'
<1>1. /\ ScheduleNext /\ UNCHANGED radios /\ apart' = apart /\ alive' = alive
      /\ priority' = [priority EXCEPT ![n] = 1] /\ doing[n] = "program"
      /\ doing' = [doing EXCEPT ![n] = "program"]
    BY DEF SleepMs, BlockUntil, MayCall
<1>2. doing' = doing /\ \A m \in Node : doing'[m] # "program" => priority'[m] = priority[m]
    BY <1>1, Turn DEF Inv, IInv, WorldInv, WorldOK
<1>3. FirstRuns' /\ (~stopping' => ~stopping) /\ now <= now'
    BY <1>1, Scheduled, TimeGoesOn DEF Inv, IInv
<1>4. AirInv' /\ HandInv'
    BY <1>1, <1>2, <1>3, QuietAir, QuietHand DEF Inv
<1> QED BY <1>4 DEF Inv

LEMMA StutterAir == ASSUME Inv, IInv', UNCHANGED vars PROVE Inv'
<1>1. /\ UNCHANGED radios /\ doing' = doing /\ apart' = apart /\ alive' = alive /\ wake' = wake
      /\ priority' = priority /\ stopping' = stopping /\ now' = now /\ running' = running
    BY DEF vars, radios
<1>2. FirstRuns' /\ now <= now'
    BY <1>1, SimWorldAssumption DEF FirstRuns, Inv, AirInv, IInv, WorldInv, WorldOK
<1>3. AirInv' /\ HandInv'
    BY <1>1, <1>2, QuietAir, QuietHand DEF Inv
<1> QED BY <1>3 DEF Inv

LEMMA SendAir ==
    ASSUME Inv, IInv', NEW n \in Node, NEW air \in Airtimes[n], Send(n, air) PROVE Inv'
<1> DEFINE last == Len(transmissions)
           begin == now + Setup
           end == begin + air
           frame == [src |-> n, start |-> begin, end |-> end, outcome |-> Pending]
<1>1. /\ running = n /\ doing[n] = "program" /\ ScheduleNext /\ apart' = apart /\ alive' = alive
      /\ priority' = [priority EXCEPT ![n] = 0] /\ doing' = [doing EXCEPT ![n] = "send"]
      /\ transmissions' = Append(transmissions, frame)
      /\ listenStart' = listenStart /\ ready' = ready /\ buffer' = buffer
      /\ windows' = windows /\ overflow' = overflow
    BY DEF Send, MayCall, BlockUntil
<1>2. /\ RadioOK /\ RadioInv /\ IInv /\ AirInv /\ HandInv /\ WorldInv
      /\ now \in Nat /\ now' \in Nat /\ now <= now' /\ Setup \in Nat /\ Slack \in Nat /\ MaxAirtime \in Nat
    <2>1. RadioOK /\ RadioInv /\ IInv /\ AirInv /\ HandInv /\ WorldInv /\ WorldInv'
        BY DEF Inv, IInv, RadioInv
    <2>2. now <= now'
        BY <1>1, <2>1, TimeGoesOn
    <2> QED BY <2>1, <2>2, SimWorldAssumption DEF WorldInv, WorldOK
<1>3. FirstRuns' /\ (~stopping' => ~stopping)
    BY <1>1, Scheduled DEF Inv, IInv
<1>4. begin \in Nat /\ end \in Nat /\ begin = now + Setup /\ begin + Slack < end /\ end <= begin + MaxAirtime
    <2>1. air \in Nat /\ air > Slack /\ air <= MaxAirtime
        BY <1>2, SimWorldAssumption
    <2> QED BY <1>2, <2>1
<1> HIDE DEF begin, end
<1>5. /\ frame \in Transmission /\ frame.src = n /\ frame.start = begin /\ frame.end = end
      /\ ~Over(frame) /\ \A m \in Node : frame.outcome[m] # "D"
    BY <1>4 DEF Transmission, Over, Pending
<1> HIDE DEF frame
<1>6. /\ Len(transmissions') = last + 1 /\ last \in Nat
      /\ \A i \in 1 .. last : transmissions'[i] = transmissions[i]
      /\ transmissions'[last + 1] = frame
    BY <1>1, <1>2, <1>5, AppendProperties, Records DEF RadioOK
<1>7. \A i \in 1 .. last + 1 : i \in 1 .. last \/ i = last + 1
    BY <1>6
<1>8. /\ DOMAIN transmissions = 1 .. last /\ DOMAIN transmissions' = 1 .. last + 1
    BY <1>2, <1>6 DEF IInv, RadioInv, RadioOK
<1>9. \A m \in Node : /\ Listening(m)' <=> Listening(m)
                      /\ m # n => doing'[m] = doing[m] /\ priority'[m] = priority[m]
    BY <1>1, <1>2 DEF Listening, RadioOK, WorldInv, WorldOK
<1>10. \A i \in 1 .. last : /\ transmissions[i].start \in Nat /\ transmissions[i].end \in Nat
                            /\ transmissions[i].start <= begin
                            /\ Over(transmissions[i]) => transmissions[i].end <= now
    <2> TAKE i \in 1 .. last
    <2>1. Sent(i) /\ transmissions[i].start \in Nat /\ transmissions[i].end \in Nat
        BY <1>2, Records DEF RadioInv, Sending
    <2> QED BY <1>2, <1>4, <2>1 DEF AirInv, Airs, Sent
<1>11. Airs'
    <2>1. ASSUME NEW i \in 1 .. last + 1
          PROVE  LET t == transmissions'[i] IN
                 t.start <= now' + Setup /\ t.start + Slack < t.end /\ t.end <= t.start + MaxAirtime
        <3>1. begin <= now' + Setup
            <4>1. \A x, y, z \in Nat : x <= y => x + z <= y + z
                OBVIOUS
            <4> QED BY <1>2, <1>4, <4>1
        <3>2. CASE i \in 1 .. last
            BY <1>2, <1>4, <1>6, <1>10, <3>1, <3>2 DEF AirInv, Airs
        <3>3. CASE i = last + 1
            BY <1>4, <1>5, <1>6, <3>1, <3>3
        <3> QED BY <1>7, <3>2, <3>3
    <2>2. ASSUME NEW i \in 1 .. last + 1, NEW j \in 1 .. last + 1, i < j
          PROVE  transmissions'[i].start <= transmissions'[j].start
        <3>1. i \in 1 .. last
            BY <1>6, <2>2
        <3> QED BY <1>2, <1>5, <1>6, <1>7, <1>10, <2>2, <3>1 DEF AirInv, Airs
    <2> QED BY <1>6, <2>1, <2>2 DEF Airs
<1>12. Returning'
    <2> SUFFICES ASSUME ~stopping'
                 PROVE  /\ \A m \in Node : doing'[m] # "program" => m \in alive
                        /\ \A i \in 1 .. last + 1 : ~Over(transmissions'[i]) => transmissions'[i].src \in alive
        BY <1>1, <1>6 DEF Returning, Over, Pending
    <2>1. n \in alive
        BY <1>1, <1>2, Turn
    <2> QED BY <1>2, <1>3, <1>5, <1>6, <1>7, <1>9, <2>1 DEF AirInv, Returning
<1>13. Ranked'
    <2>1. doing'[n] = "send" /\ priority'[n] = 0
        BY <1>1, <1>2 DEF RadioOK, WorldInv, WorldOK
    <2> QED BY <1>1, <1>2, <1>9, <2>1 DEF AirInv, Ranked, Listening
<1>14. Opened'
    <2>1. ASSUME NEW m \in Node, NEW k \in 1 .. Len(windows[m]) PROVE windows[m][k].end <= now'
        <3>1. windows[m][k].end \in Nat /\ windows[m][k].end <= now
            BY <1>2, Records DEF AirInv, Opened
        <3> QED BY <1>2, <3>1
    <2> QED BY <1>1, <1>2, <1>3, <1>9, <2>1 DEF AirInv, Opened
<1>15. NotCovered'
    <2> SUFFICES ASSUME ~stopping', NEW i \in 1 .. last + 1, NEW m \in Node \ Continuous,
                        ~Over(transmissions'[i]), Audible(transmissions'[i], m),
                        NEW k \in 1 .. Len(windows[m]), ~windows[m][k].open
                 PROVE  ~Covers(windows[m][k], transmissions'[i])
        BY <1>1, <1>6 DEF NotCovered, Over, Pending, Audible, Connected, Covers
    <2>1. CASE i \in 1 .. last
        BY <1>2, <1>3, <1>6, <2>1 DEF AirInv, NotCovered
    <2>2. CASE i = last + 1
        <3>1. windows[m][k].end \in Nat /\ windows[m][k].end <= now
            BY <1>2, Records DEF AirInv, Opened
        <3> QED BY <1>2, <1>4, <1>5, <1>6, <2>2, <3>1 DEF Covers
    <2> QED BY <1>7, <2>1, <2>2
<1>16. Heeded' /\ Given'
    <2>1. ASSUME NEW i \in 1 .. last + 1, NEW m \in Node, Delivered(i, m)'
          PROVE  Audible(transmissions'[i], m)
        <3>1. i \in 1 .. last /\ transmissions'[i] = transmissions[i]
            BY <1>5, <1>6, <1>7, <2>1 DEF Delivered
        <3> QED BY <1>2, <2>1, <3>1 DEF AirInv, Heeded, Delivered
    <2>2. ASSUME NEW m \in Node, ready[m] # 0 PROVE Delivered(ready[m], m)'
        <3>1. ready[m] \in 1 .. last
            BY <1>2, <2>2 DEF RadioOK
        <3> QED BY <1>1, <1>2, <1>6, <2>2, <3>1 DEF AirInv, Given, Delivered
    <2>3. Heeded'
        BY <1>1, <1>6, <2>1 DEF Heeded, Audible, Connected
    <2>4. Given'
        BY <1>1, <2>2 DEF Given
    <2> QED BY <2>3, <2>4
<1>17. ASSUME NEW i \in 1 .. last + 1, Over(transmissions'[i])
       PROVE  /\ i \in 1 .. last /\ transmissions'[i] = transmissions[i]
              /\ \A m \in Node : ~Occupies(frame, m, transmissions[i].start, transmissions[i].end)
              /\ ~(frame.start < transmissions[i].end)
    <2>1. i \in 1 .. last /\ transmissions'[i] = transmissions[i]
        BY <1>5, <1>6, <1>7, <1>17
    <2> QED BY <1>2, <1>4, <1>5, <1>10, <1>17, <2>1 DEF Occupies
<1>18. OutcomeFinal'
    <2> SUFFICES ASSUME NEW i \in 1 .. last + 1, NEW m \in Node, Over(transmissions'[i]),
                        Audible(transmissions'[i], m)
                 PROVE  LET t == transmissions'[i] IN
                        /\ m \in Continuous =>
                              (t.outcome[m] = "M" <=> \E j \in 1 .. last + 1 :
                                                Occupies(transmissions'[j], m, t.start, t.end))
                        /\ t.outcome[m] # "M" =>
                              (t.outcome[m] = "C" <=> \E j \in 1 .. last + 1 : Overlaps(i, j, m)')
        BY <1>1, <1>8 DEF OutcomeFinal, Over, Pending, Audible, Connected, Occupies
    <2>1. i \in 1 .. last /\ transmissions'[i] = transmissions[i]
        BY <1>17
    <2>2. (\E j \in 1 .. last + 1 : Occupies(transmissions'[j], m, transmissions[i].start, transmissions[i].end))
          <=> \E j \in 1 .. last : Occupies(transmissions[j], m, transmissions[i].start, transmissions[i].end)
        BY <1>6, <1>7, <1>17
    <2>3. (\E j \in 1 .. last + 1 : Overlaps(i, j, m)') <=> \E j \in 1 .. last : Overlaps(i, j, m)
        <3>1. ASSUME NEW j \in 1 .. last PROVE Overlaps(i, j, m)' <=> Overlaps(i, j, m)
            BY <1>1, <1>6, <2>1 DEF Overlaps, Connected
        <3>2. ASSUME NEW j, j = last + 1 PROVE ~Overlaps(i, j, m)'
            <4>1. transmissions'[j].start = frame.start
                BY <1>6, <3>2
            <4> QED BY <1>17, <2>1, <4>1 DEF Overlaps
        <3> QED BY <1>6, <1>7, <3>1, <3>2
    <2>4. Audible(transmissions[i], m) /\ Over(transmissions[i])
        BY <2>1
    <2> QED BY <1>2, <1>8, <2>1, <2>2, <2>3, <2>4 DEF AirInv, OutcomeFinal
<1>19. WindowsDecide'
    <2> SUFFICES ASSUME ~stopping', NEW i \in 1 .. last + 1, NEW m \in Node \ Continuous,
                        Over(transmissions'[i]), Audible(transmissions'[i], m)
                 PROVE  transmissions'[i].outcome[m] # "M" <=>
                            \E k \in DOMAIN windows[m] : Covers(windows[m][k], transmissions'[i])
        BY <1>1, <1>8 DEF WindowsDecide, Over, Pending, Audible, Connected, Covers
    <2> QED BY <1>2, <1>3, <1>8, <1>17 DEF AirInv, WindowsDecide
<1>20. HandInv'
    <2> SUFFICES ASSUME NEW m \in Node PROVE Handing(m)'
        BY DEF HandInv
    <2>1. Numbered(m)' = Numbered(m)
        BY <1>1 DEF Numbered
    <2>2. Received(m)' = Received(m)
        BY <1>5, <1>6, <1>7 DEF Received, Delivered
    <2>3. \A i, j \in Received(m) : Earlier(i, j)' <=> Earlier(i, j)
        BY <1>6 DEF Received, Earlier
    <2>4. ready[m] # 0 => ready[m] \in Received(m)
        BY <1>2 DEF AirInv, Given, Received, RadioOK
    <2>5. Handing(m)
        BY <1>2 DEF HandInv
    <2> QED BY <1>1, <1>3, <1>9, <2>1, <2>2, <2>3, <2>4, <2>5 DEF Handing
<1> QED BY <1>2, <1>3, <1>11, <1>12, <1>13, <1>14, <1>15, <1>16, <1>18, <1>19, <1>20 DEF Inv, AirInv

(* What the scan for other frames leaves out ended before this one began. *)
LEMMA RecentIsEnough ==
    ASSUME RadioOK, Airs, NEW from \in Nat, NEW j \in 1 .. Len(transmissions),
           j \notin Recent(from)
    PROVE  transmissions[j].end < from
<1>1. PICK k \in j .. Len(transmissions) : ~(transmissions[k].start + MaxAirtime >= from)
    BY DEF Recent, RadioOK
<1>2. k \in 1 .. Len(transmissions) /\ (j = k \/ j < k)
    BY Records
<1>3. transmissions[j].start <= transmissions[k].start /\ transmissions[j].end <= transmissions[j].start + MaxAirtime
    <2>1. transmissions[j].start \in Nat /\ transmissions[k].start \in Nat
        BY <1>2, Records
    <2> QED BY <1>2, <2>1 DEF Airs
<1>4. /\ transmissions[j].start \in Nat /\ transmissions[j].end \in Nat /\ transmissions[k].start \in Nat
      /\ MaxAirtime \in Nat
    BY <1>2, Records, SimWorldAssumption
<1> QED BY <1>1, <1>3, <1>4

(* What finishTransmission() decides about a frame for a node that could   *)
(* hear it.                                                                *)
LEMMA Decided ==
    ASSUME RadioOK, Airs, NEW i \in 1 .. Len(transmissions), NEW m \in Node, NEW lost,
           Audible(transmissions[i], m)
    PROVE  LET t == transmissions[i]
               o == Outcome(i, m, lost)
           IN  /\ m \in Continuous =>
                     (o = "M" <=> \E j \in 1 .. Len(transmissions) :
                                       Occupies(transmissions[j], m, t.start, t.end))
               /\ o # "M" => (o = "C" <=> \E j \in 1 .. Len(transmissions) : Overlaps(i, j, m))
               /\ m \notin Continuous =>
                     (o # "M" <=> Listening(m) /\ ready[m] = 0 /\ listenStart[m] <= t.start + Slack)
<1> DEFINE t == transmissions[i]
<1>1. t.start \in Nat /\ \A j \in 1 .. Len(transmissions) : transmissions[j].end \in Nat
    BY Records
<1>2. \A from : Recent(from) \subseteq 1 .. Len(transmissions)
    BY DEF Recent, RadioOK
<1>3. \A j \in 1 .. Len(transmissions) : j \notin Recent(t.start) => ~(transmissions[j].end > t.start)
    BY <1>1, RecentIsEnough
<1> HIDE DEF t
<1>4. WasTransmitting(m, t.start, t.end) <=>
          \E j \in 1 .. Len(transmissions) : Occupies(transmissions[j], m, t.start, t.end)
    BY <1>2, <1>3 DEF WasTransmitting, Occupies
<1>5. OverlapsOther(i, m) <=> \E j \in 1 .. Len(transmissions) : Overlaps(i, j, m)
    BY <1>2, <1>3 DEF OverlapsOther, Overlaps, t
<1>6. Outcome(i, m, lost) = IF ~Heard(i, m) THEN "M" ELSE IF OverlapsOther(i, m) THEN "C"
                            ELSE IF m \in lost THEN "L" ELSE "D"
    BY DEF Outcome, Audible
<1>7. /\ Outcome(i, m, lost) = "M" <=> ~Heard(i, m)
      /\ Outcome(i, m, lost) # "M" => (Outcome(i, m, lost) = "C" <=> OverlapsOther(i, m))
    BY <1>6
<1>8. Heard(i, m) <=> IF m \in Continuous THEN ~WasTransmitting(m, t.start, t.end)
                      ELSE Listening(m) /\ ready[m] = 0 /\ listenStart[m] <= t.start + Slack
    BY DEF Heard, t
<1> QED BY <1>4, <1>5, <1>7, <1>8 DEF t

(* What sending changes when it ends: frame i gets its outcome, and every  *)
(* node to which it is delivered keeps it where it waits for it.           *)
LEMMA Ended ==
    ASSUME IInv, NEW n \in Node, SendReturns(n)
    PROVE  \E i \in 1 .. Len(transmissions), lost \in SUBSET Node :
           \E outcome \in [Node -> {"-", "M", "C", "L", "D"}] :
              /\ transmissions[i].src = n /\ ~Over(transmissions[i]) /\ transmissions[i].end = now
              /\ \A m \in Node : outcome[m] = Outcome(i, m, lost)
              /\ transmissions' = [transmissions EXCEPT ![i].outcome = outcome]
              /\ \A m \in Node :
                    LET heard == outcome[m] = "D"
                        waits == Listening(m) /\ ready[m] = 0
                    IN  /\ ready'[m] = IF heard /\ waits THEN i ELSE ready[m]
                        /\ priority'[m] = IF heard /\ waits THEN 0 ELSE priority[m]
                        /\ buffer'[m] = IF heard /\ ~waits THEN Kept(m, i) ELSE buffer[m]
                        /\ overflow'[m] = IF heard /\ ~waits /\ Full(m) THEN overflow[m] + 1
                                                                        ELSE overflow[m]
<1>1. PICK i \in DOMAIN transmissions :
          transmissions[i].src = n /\ transmissions[i].outcome = Pending /\ FinishTransmission(i)
    BY DEF SendReturns
<1>2. i \in 1 .. Len(transmissions) /\ ~Over(transmissions[i])
    BY <1>1 DEF Over, IInv, RadioInv, RadioOK
<1>3. PICK lost \in SUBSET Node :
        LET outcome == [m \in Node |-> Outcome(i, m, lost)]
            delivered == {m \in Node : outcome[m] = "D"}
            kept == delivered \ Waiters(delivered)
        IN  /\ transmissions' = [transmissions EXCEPT ![i].outcome = outcome]
            /\ ready' = [m \in Node |-> IF m \in Waiters(delivered) THEN i ELSE ready[m]]
            /\ WakeUp(delivered)
            /\ buffer' = [m \in Node |-> IF m \in kept THEN Kept(m, i) ELSE buffer[m]]
            /\ overflow' = [m \in Node |->
                    IF m \in kept /\ Full(m) THEN overflow[m] + 1 ELSE overflow[m]]
    BY <1>1, Zenon DEF FinishTransmission
<1> DEFINE outcome == [m \in Node |-> Outcome(i, m, lost)]
           delivered == {m \in Node : outcome[m] = "D"}
           kept == delivered \ Waiters(delivered)
<1>4. outcome \in [Node -> {"-", "M", "C", "L", "D"}] /\ \A m \in Node : outcome[m] = Outcome(i, m, lost)
    <2>1. \A m \in Node : Outcome(i, m, lost) \in {"-", "M", "C", "L", "D"}
        BY DEF Outcome
    <2> QED BY <2>1
<1>5. /\ transmissions' = [transmissions EXCEPT ![i].outcome = outcome]
      /\ ready' = [m \in Node |-> IF m \in Waiters(delivered) THEN i ELSE ready[m]]
      /\ WakeUp(delivered)
      /\ buffer' = [m \in Node |-> IF m \in kept THEN Kept(m, i) ELSE buffer[m]]
      /\ overflow' = [m \in Node |-> IF m \in kept /\ Full(m) THEN overflow[m] + 1 ELSE overflow[m]]
    BY <1>3, Zenon
<1> HIDE DEF outcome
<1>6. \A m \in Node : /\ m \in delivered <=> outcome[m] = "D"
                      /\ m \in Waiters(delivered) <=> outcome[m] = "D" /\ Listening(m) /\ ready[m] = 0
    BY DEF Waiters
<1> HIDE DEF delivered
<1>7. priority' = [m \in Node |-> IF m \in Waiters(delivered) THEN 0 ELSE priority[m]]
    BY <1>5 DEF WakeUp
<1>8. transmissions[i].end = now
    <2>1. Sent(i) /\ n \in alive /\ wake[n] = now
        BY <1>2, Turn DEF SendReturns, IInv, RadioInv, Sending
    <2> QED BY <1>1, <1>2, <2>1 DEF Sent
<1>9. ASSUME NEW m \in Node
      PROVE  LET heard == outcome[m] = "D"
                 waits == Listening(m) /\ ready[m] = 0
             IN  /\ ready'[m] = IF heard /\ waits THEN i ELSE ready[m]
                 /\ priority'[m] = IF heard /\ waits THEN 0 ELSE priority[m]
                 /\ buffer'[m] = IF heard /\ ~waits THEN Kept(m, i) ELSE buffer[m]
                 /\ overflow'[m] = IF heard /\ ~waits /\ Full(m) THEN overflow[m] + 1
                                                                 ELSE overflow[m]
    BY <1>5, <1>6, <1>7
<1> QED BY <1>1, <1>2, <1>4, <1>5, <1>8, <1>9, Zenon

(* Two frames that end at the same instant collide: nothing that a node    *)
(* got ended when a frame ends that it can hear.                           *)
LEMMA NoTie ==
    ASSUME IInv, AirInv, NEW i \in 1 .. Len(transmissions), NEW m \in Node,
           ~Over(transmissions[i]), transmissions[i].end = now, Audible(transmissions[i], m),
           NEW j \in 1 .. Len(transmissions), Delivered(j, m)
    PROVE  transmissions[j].end < now
<1>1. RadioOK /\ Sent(j) /\ now \in Nat /\ Slack \in Nat
    BY SimWorldAssumption DEF IInv, RadioInv, Sending, WorldInv, WorldOK
<1>2. /\ transmissions[j].end \in Nat /\ transmissions[j].start \in Nat
      /\ transmissions[i].start \in Nat
    BY <1>1, Records
<1>3. Over(transmissions[j]) /\ Audible(transmissions[j], m)
    BY DEF AirInv, Heeded, Delivered, Over, Pending
<1>4. transmissions[j].end <= now
    BY <1>1, <1>3 DEF Sent
<1>5. ASSUME transmissions[j].end = now PROVE FALSE
    <2>1. transmissions[j].outcome[m] # "M" /\ transmissions[j].outcome[m] # "C"
        BY DEF Delivered
    <2>2. DOMAIN transmissions = 1 .. Len(transmissions)
        BY <1>1 DEF RadioOK
    <2>3. ~Overlaps(j, i, m)
        BY <1>3, <2>1, <2>2 DEF AirInv, OutcomeFinal
    <2>4. /\ transmissions[i].start + Slack < transmissions[i].end
          /\ transmissions[j].start + Slack < transmissions[j].end
        BY DEF AirInv, Airs
    <2> QED BY <1>1, <1>2, <1>3, <1>5, <2>3, <2>4 DEF Overlaps, Audible
<1> QED BY <1>1, <1>2, <1>4, <1>5

(* A full buffer loses its oldest frame to a new one. *)
LEMMA KeptShape ==
    ASSUME RadioOK, NEW m \in Node, NEW i \in 1 .. Len(transmissions)
    PROVE  \E lost \in {0, 1} :
              /\ lost = 1 <=> Full(m)
              /\ Len(buffer[m]) \in Nat /\ Len(Kept(m, i)) = Len(buffer[m]) + 1 - lost
              /\ \A k \in 1 .. Len(Kept(m, i)) :
                    \/ k + lost \in 1 .. Len(buffer[m]) /\ Kept(m, i)[k] = buffer[m][k + lost]
                    \/ k = Len(Kept(m, i)) /\ Kept(m, i)[k] = i
<1> DEFINE S == 1 .. Len(transmissions)
<1>1. /\ buffer[m] \in Seq(S) /\ Len(buffer[m]) \in Nat /\ BufferSlots \in Nat \ {0} /\ i \in S
    BY LenProperties, SimWorldAssumption DEF RadioOK
<1> HIDE DEF S
<1>2. CASE Full(m)
    <2>1. buffer[m] # <<>>
        BY <1>1, <1>2, EmptySeq DEF Full
    <2>2. /\ Tail(buffer[m]) \in Seq(S) /\ Len(Tail(buffer[m])) = Len(buffer[m]) - 1
          /\ \A k \in 1 .. Len(Tail(buffer[m])) : Tail(buffer[m])[k] = buffer[m][k + 1]
        BY <1>1, <2>1, HeadTailProperties
    <2>3. Kept(m, i) = Append(Tail(buffer[m]), i)
        BY <1>2 DEF Kept
    <2>4. /\ Len(Kept(m, i)) = Len(Tail(buffer[m])) + 1
          /\ \A k \in 1 .. Len(Tail(buffer[m])) : Kept(m, i)[k] = Tail(buffer[m])[k]
          /\ Kept(m, i)[Len(Tail(buffer[m])) + 1] = i
        BY <1>1, <2>2, <2>3, AppendProperties
    <2>5. \A k \in 1 .. Len(Kept(m, i)) :
             \/ k + 1 \in 1 .. Len(buffer[m]) /\ Kept(m, i)[k] = buffer[m][k + 1]
             \/ k = Len(Kept(m, i)) /\ Kept(m, i)[k] = i
        BY <1>1, <2>2, <2>4
    <2>6. Len(Kept(m, i)) = Len(buffer[m]) + 1 - 1
        BY <1>1, <2>2, <2>4
    <2> QED BY <1>1, <1>2, <2>5, <2>6
<1>3. CASE ~Full(m)
    <2>1. Kept(m, i) = Append(buffer[m], i)
        BY <1>3 DEF Kept
    <2>2. /\ Len(Kept(m, i)) = Len(buffer[m]) + 1
          /\ \A k \in 1 .. Len(buffer[m]) : Kept(m, i)[k] = buffer[m][k]
          /\ Kept(m, i)[Len(buffer[m]) + 1] = i
        BY <1>1, <2>1, AppendProperties
    <2>3. \A k \in 1 .. Len(Kept(m, i)) :
             \/ k + 0 \in 1 .. Len(buffer[m]) /\ Kept(m, i)[k] = buffer[m][k + 0]
             \/ k = Len(Kept(m, i)) /\ Kept(m, i)[k] = i
        BY <1>1, <2>2
    <2>4. Len(Kept(m, i)) = Len(buffer[m]) + 1 - 0
        BY <1>1, <2>2
    <2> QED BY <1>1, <1>3, <2>3, <2>4
<1> QED BY <1>2, <1>3

(* A node that has its frame already hears of no other that ends now: its  *)
(* own ended now as well.                                                  *)
LEMMA WaitsForOne ==
    ASSUME IInv, AirInv, ~stopping, started, NEW i \in 1 .. Len(transmissions), NEW m \in Node \ {running},
           ~Over(transmissions[i]), transmissions[i].end = now, Audible(transmissions[i], m),
           Listening(m)
    PROVE  ready[m] = 0
<1> SUFFICES ASSUME ready[m] # 0 PROVE FALSE
    OBVIOUS
<1>1. /\ RadioOK /\ now \in Nat /\ ready[m] \in 1 .. Len(transmissions) /\ m \in alive
    BY SimWorldAssumption DEF IInv, RadioInv, RadioOK, WorldInv, WorldOK, AirInv, Returning, Listening
<1>2. Receives(m) /\ Delivered(ready[m], m)
    BY DEF IInv, RadioInv, Receiving, AirInv, Given
<1>3. wake[m] = transmissions[ready[m]].end /\ now <= wake[m]
    BY <1>1, <1>2 DEF Receives, IInv, WorldInv, NobodyOversleeps
<1>4. transmissions[ready[m]].end < now
    BY <1>1, <1>2, NoTie
<1>5. transmissions[ready[m]].end \in Nat
    BY <1>1, Records
<1> QED BY <1>1, <1>3, <1>4, <1>5

LEMMA FrameEnds ==
    ASSUME RadioOK, NEW i \in 1 .. Len(transmissions),
           NEW outcome \in [Node -> {"-", "M", "C", "L", "D"}], NEW n \in Node, outcome[n] # "?",
           transmissions' = [transmissions EXCEPT ![i].outcome = outcome]
    PROVE  /\ Len(transmissions') = Len(transmissions)
           /\ DOMAIN transmissions = 1 .. Len(transmissions)
           /\ DOMAIN transmissions' = 1 .. Len(transmissions)
           /\ \A j \in 1 .. Len(transmissions) :
                 /\ transmissions'[j].src = transmissions[j].src
                 /\ transmissions'[j].start = transmissions[j].start
                 /\ transmissions'[j].end = transmissions[j].end
                 /\ j # i => transmissions'[j] = transmissions[j]
           /\ transmissions'[i].outcome = outcome /\ Over(transmissions'[i])
<1> DEFINE last == Len(transmissions)
           new == [transmissions[i] EXCEPT !.outcome = outcome]
<1>1. transmissions' = [transmissions EXCEPT ![i] = new] /\ transmissions[i] \in Transmission
    BY Records
<1>2. /\ new \in Transmission /\ new.outcome = outcome /\ new.src = transmissions[i].src
      /\ new.start = transmissions[i].start /\ new.end = transmissions[i].end
    <2>1. outcome \in [Node -> {"?", "-", "M", "C", "L", "D"}]
        OBVIOUS
    <2> QED BY <1>1, <2>1 DEF Transmission
<1>3. outcome # Pending
    BY DEF Pending
<1> HIDE DEF new
<1>4. /\ transmissions \in Seq(Transmission)
      /\ [transmissions EXCEPT ![i] = new] \in Seq(Transmission)
      /\ Len([transmissions EXCEPT ![i] = new]) = last
      /\ \A j \in 1 .. last : [transmissions EXCEPT ![i] = new][j] = IF j = i THEN new ELSE transmissions[j]
    BY <1>2, ExceptSeq DEF RadioOK
<1> QED BY <1>1, <1>2, <1>3, <1>4 DEF Over

LEMMA SendReturnsAir == ASSUME Inv, IInv', NEW n \in Node, SendReturns(n) PROVE AirInv'
<1> DEFINE last == Len(transmissions)
<1>1. PICK i \in 1 .. last, lost \in SUBSET Node, outcome \in [Node -> {"-", "M", "C", "L", "D"}] :
              /\ transmissions[i].src = n /\ ~Over(transmissions[i]) /\ transmissions[i].end = now
              /\ \A m \in Node : outcome[m] = Outcome(i, m, lost)
              /\ transmissions' = [transmissions EXCEPT ![i].outcome = outcome]
              /\ \A m \in Node :
                    LET heard == outcome[m] = "D"
                        waits == Listening(m) /\ ready[m] = 0
                    IN  /\ ready'[m] = IF heard /\ waits THEN i ELSE ready[m]
                        /\ priority'[m] = IF heard /\ waits THEN 0 ELSE priority[m]
                        /\ buffer'[m] = IF heard /\ ~waits THEN Kept(m, i) ELSE buffer[m]
                        /\ overflow'[m] = IF heard /\ ~waits /\ Full(m) THEN overflow[m] + 1
                                                                        ELSE overflow[m]
    BY Ended, Zenon DEF Inv
<1>2. /\ running = n /\ doing[n] = "send" /\ doing' = [doing EXCEPT ![n] = "program"]
      /\ apart' = apart /\ now' = now /\ started' = started /\ stopping' = stopping
      /\ running' = running /\ alive' = alive /\ listenStart' = listenStart /\ windows' = windows
    BY DEF SendReturns
<1>3. /\ IInv /\ AirInv /\ RadioInv /\ RadioOK /\ WorldInv /\ WorldOK
      /\ now \in Nat /\ ~stopping /\ started /\ n \in alive /\ Slack \in Nat
    BY <1>2, Turn, SimWorldAssumption DEF Inv, IInv, RadioInv, WorldInv
<1>4. /\ Len(transmissions') = last
      /\ DOMAIN transmissions = 1 .. last /\ DOMAIN transmissions' = 1 .. last
      /\ \A j \in 1 .. last : /\ transmissions'[j].src = transmissions[j].src
                              /\ transmissions'[j].start = transmissions[j].start
                              /\ transmissions'[j].end = transmissions[j].end
                              /\ j # i => transmissions'[j] = transmissions[j]
      /\ transmissions'[i].outcome = outcome /\ Over(transmissions'[i])
    <2>1. outcome[n] # "?"
        BY <1>1
    <2> QED BY <1>1, <1>3, <2>1, FrameEnds
<1>5. \A m \in Node : /\ Listening(m)' <=> Listening(m)
                      /\ doing'[m] # "program" => m # n /\ doing'[m] = doing[m]
                      /\ Listening(m) => m # n
    BY <1>2, <1>3 DEF Listening, RadioOK
<1>6. Airs'
    BY <1>2, <1>3, <1>4 DEF AirInv, Airs
<1>7. Returning'
    BY <1>2, <1>3, <1>4, <1>5 DEF AirInv, Returning, Over, Pending
<1>8. Ranked' /\ FirstRuns'
    <2>1. FirstRuns'
        BY <1>2, <1>3 DEF FirstRuns, RadioOK
    <2>2. ASSUME NEW m \in Node, doing'[m] = "send" PROVE priority'[m] = 0
        BY <1>1, <1>3, <1>5, <2>2 DEF AirInv, Ranked
    <2>3. ASSUME NEW m \in Node, Listening(m)', ready'[m] = 0 PROVE priority'[m] = 1
        BY <1>1, <1>3, <1>5, <2>3 DEF AirInv, Ranked
    <2> QED BY <2>1, <2>2, <2>3 DEF Ranked
<1>9. Opened'
    BY <1>2, <1>3, <1>5 DEF AirInv, Opened
<1>10. NotCovered'
    <2>1. \A j \in 1 .. last : ~Over(transmissions'[j]) => j # i /\ transmissions'[j] = transmissions[j]
        BY <1>4
    <2> QED BY <1>2, <1>3, <1>4, <2>1 DEF AirInv, NotCovered, Audible, Connected, Over, Pending, Covers
<1>11. \A m \in Node : outcome[m] # "-" => Audible(transmissions[i], m)
    BY <1>1 DEF Outcome, Audible
<1>12. Heeded'
    <2>1. ASSUME NEW j \in 1 .. last, NEW m \in Node, transmissions'[j].outcome[m] = "D"
          PROVE  transmissions'[j].src # m /\ {transmissions'[j].src, m} \notin apart'
        <3>1. Audible(transmissions[j], m)
            BY <1>3, <1>4, <1>11, <2>1 DEF AirInv, Heeded, Delivered
        <3> QED BY <1>2, <1>4, <3>1 DEF Audible, Connected
    <2>2. Len(transmissions') = last
        BY <1>4
    <2> QED BY <2>1, <2>2 DEF Heeded, Audible, Connected, Delivered
<1>13. Given'
    <2>1. ASSUME NEW m \in Node, ready'[m] # 0 PROVE transmissions'[ready'[m]].outcome[m] = "D"
        <3>1. CASE ready'[m] = i /\ outcome[m] = "D"
            BY <1>4, <3>1
        <3>2. CASE ready'[m] = ready[m]
            <4>1. ready[m] \in 1 .. last /\ transmissions[ready[m]].outcome[m] = "D"
                BY <1>3, <2>1, <3>2 DEF AirInv, Given, RadioOK, Delivered
            <4>2. ready[m] # i
                BY <1>1, <4>1 DEF Over, Pending
            <4> QED BY <1>4, <3>2, <4>1, <4>2
        <3> QED BY <1>1, <3>1, <3>2
    <2> QED BY <2>1 DEF Given, Delivered
<1>14. OutcomeFinal'
    <2> SUFFICES ASSUME NEW j \in 1 .. last, NEW m \in Node, Over(transmissions'[j]),
                        Audible(transmissions'[j], m)
                 PROVE  LET t == transmissions'[j] IN
                        /\ m \in Continuous =>
                              (t.outcome[m] = "M" <=> \E k \in 1 .. last :
                                                Occupies(transmissions'[k], m, t.start, t.end))
                        /\ t.outcome[m] # "M" =>
                              (t.outcome[m] = "C" <=> \E k \in 1 .. last : Overlaps(j, k, m)')
        <3>1. DOMAIN transmissions' = 1 .. last /\ apart' = apart
            BY <1>2, <1>4
        <3> QED BY <3>1 DEF OutcomeFinal, Over, Pending, Audible, Connected, Occupies
    <2>1. Audible(transmissions[j], m)
        BY <1>4 DEF Audible
    <2>2. ASSUME NEW k \in 1 .. last
          PROVE  /\ Overlaps(j, k, m)' <=> Overlaps(j, k, m)
                 /\ Occupies(transmissions'[k], m, transmissions'[j].start, transmissions'[j].end)
                      <=> Occupies(transmissions[k], m, transmissions[j].start, transmissions[j].end)
        BY <1>2, <1>4 DEF Overlaps, Occupies, Connected
    <2>3. CASE j # i
        <3>1. transmissions'[j] = transmissions[j] /\ Over(transmissions[j])
            BY <1>4, <2>3
        <3> QED BY <1>3, <1>4, <2>1, <2>2, <3>1 DEF AirInv, OutcomeFinal
    <2>4. CASE j = i
        <3>1. /\ m \in Continuous => (outcome[m] = "M" <=> \E k \in 1 .. last :
                    Occupies(transmissions[k], m, transmissions[i].start, transmissions[i].end))
              /\ outcome[m] # "M" => (outcome[m] = "C" <=> \E k \in 1 .. last : Overlaps(i, k, m))
            BY <1>1, <1>3, <2>1, <2>4, Decided DEF AirInv
        <3> QED BY <1>4, <2>2, <2>4, <3>1
    <2> QED BY <2>3, <2>4
<1>15. WindowsDecide'
    <2> SUFFICES ASSUME NEW j \in 1 .. last, NEW m \in Node \ Continuous, Over(transmissions'[j]),
                        Audible(transmissions'[j], m)
                 PROVE  transmissions'[j].outcome[m] # "M" <=>
                            \E k \in DOMAIN windows[m] : Covers(windows[m][k], transmissions'[j])
        BY <1>2, <1>4 DEF WindowsDecide, Over, Pending, Audible, Connected, Covers
    <2>1. Audible(transmissions[j], m)
        BY <1>4 DEF Audible
    <2>2. CASE j # i
        <3>1. transmissions'[j] = transmissions[j] /\ Over(transmissions[j])
            BY <1>4, <2>2
        <3> QED BY <1>3, <1>4, <2>1, <3>1 DEF AirInv, WindowsDecide
    <2>3. CASE j = i
        <3>1. outcome[m] # "M" <=> /\ Listening(m) /\ ready[m] = 0
                                   /\ listenStart[m] <= transmissions[i].start + Slack
            BY <1>1, <1>3, <2>1, <2>3, Decided DEF AirInv
        <3>2. Listening(m) => ready[m] = 0
            BY <1>1, <1>2, <1>3, <1>5, <2>1, <2>3, WaitsForOne
        <3>3. /\ DOMAIN windows[m] = 1 .. Len(windows[m])
              /\ Listening(m) => Len(windows[m]) \in 1 .. Len(windows[m])
            BY <1>3, Records DEF RadioOK, RadioInv, Receiving, Receives
        <3>4. \A k \in 1 .. Len(windows[m]) :
                 Covers(windows[m][k], transmissions[i]) <=>
                    /\ Listening(m) /\ k = Len(windows[m])
                    /\ listenStart[m] <= transmissions[i].start + Slack
            <4> TAKE k \in 1 .. Len(windows[m])
            <4>1. ~windows[m][k].open => ~Covers(windows[m][k], transmissions[i])
                BY <1>1, <1>3, <2>1, <2>3 DEF AirInv, NotCovered
            <4>2. windows[m][k].open <=> Listening(m) /\ k = Len(windows[m])
                BY <1>3 DEF AirInv, Opened
            <4>3. Listening(m) => listenStart[m] = windows[m][Len(windows[m])].start
                BY <1>3 DEF AirInv, Opened
            <4> QED BY <4>1, <4>2, <4>3 DEF Covers
        <3>5. \A k \in 1 .. Len(windows[m]) :
                 Covers(windows[m][k], transmissions'[i]) <=> Covers(windows[m][k], transmissions[i])
            BY <1>4 DEF Covers
        <3> QED BY <1>4, <2>3, <3>1, <3>2, <3>3, <3>4, <3>5
    <2> QED BY <2>2, <2>3
<1> QED BY <1>6, <1>7, <1>8, <1>9, <1>10, <1>12, <1>13, <1>14, <1>15 DEF AirInv

LEMMA ReceivedFinite ==
    ASSUME RadioOK, NEW m \in Node
    PROVE  IsFiniteSet(Received(m)) /\ Cardinality(Received(m)) \in Nat
<1>1. Len(transmissions) \in Nat
    BY Records
<1>2. IsFiniteSet(1 .. Len(transmissions)) /\ Received(m) \subseteq 1 .. Len(transmissions)
    BY <1>1, FS_Interval DEF Received
<1> QED BY <1>2, FS_Subset, FS_CardinalityType

LEMMA NumberedFinite ==
    ASSUME RadioOK, NEW m \in Node
    PROVE  IsFiniteSet(Numbered(m)) /\ Cardinality(Numbered(m)) \in Nat
<1>1. Len(windows[m]) \in Nat
    BY Records
<1>2. IsFiniteSet(1 .. Len(windows[m])) /\ Numbered(m) \subseteq 1 .. Len(windows[m])
    BY <1>1, FS_Interval DEF Numbered
<1> QED BY <1>2, FS_Subset, FS_CardinalityType

LEMMA SendReturnsHand == ASSUME Inv, IInv', NEW n \in Node, SendReturns(n) PROVE HandInv'
<1> DEFINE last == Len(transmissions)
<1>1. PICK i \in 1 .. last, lost \in SUBSET Node, outcome \in [Node -> {"-", "M", "C", "L", "D"}] :
              /\ transmissions[i].src = n /\ ~Over(transmissions[i]) /\ transmissions[i].end = now
              /\ \A m \in Node : outcome[m] = Outcome(i, m, lost)
              /\ transmissions' = [transmissions EXCEPT ![i].outcome = outcome]
              /\ \A m \in Node :
                    LET heard == outcome[m] = "D"
                        waits == Listening(m) /\ ready[m] = 0
                    IN  /\ ready'[m] = IF heard /\ waits THEN i ELSE ready[m]
                        /\ priority'[m] = IF heard /\ waits THEN 0 ELSE priority[m]
                        /\ buffer'[m] = IF heard /\ ~waits THEN Kept(m, i) ELSE buffer[m]
                        /\ overflow'[m] = IF heard /\ ~waits /\ Full(m) THEN overflow[m] + 1
                                                                        ELSE overflow[m]
    BY Ended, Zenon DEF Inv
<1>2. /\ running = n /\ doing[n] = "send" /\ doing' = [doing EXCEPT ![n] = "program"]
      /\ windows' = windows /\ stopping' = stopping
    BY DEF SendReturns
<1>3. /\ IInv /\ AirInv /\ RadioInv /\ RadioOK /\ HandInv
      /\ now \in Nat /\ ~stopping /\ started
    BY <1>2, Turn DEF Inv, IInv, RadioInv
<1>4. /\ Len(transmissions') = last
      /\ \A j \in 1 .. last : /\ transmissions'[j].end = transmissions[j].end
                              /\ j # i => transmissions'[j] = transmissions[j]
      /\ transmissions'[i].outcome = outcome
    <2>1. outcome[n] # "?"
        BY <1>1
    <2> QED BY <1>1, <1>3, <2>1, FrameEnds
<1> SUFFICES ASSUME NEW m \in Node PROVE Handing(m)'
    BY DEF HandInv
<1>5. Listening(m)' <=> Listening(m)
    BY <1>2, <1>3 DEF Listening, RadioOK
<1>6. Numbered(m)' = Numbered(m)
    BY <1>2 DEF Numbered
<1>7. i \notin Received(m)
    BY <1>1 DEF Received, Delivered, Over, Pending
<1>8. Received(m)' = IF outcome[m] = "D" THEN Received(m) \cup {i} ELSE Received(m)
    BY <1>4, <1>7 DEF Received, Delivered
<1>9. \A j, k \in Received(m) \cup {i} : Earlier(j, k)' <=> Earlier(j, k)
    BY <1>4 DEF Received, Earlier
<1>10. Handing(m) /\ (ready[m] # 0 => ready[m] \in Received(m))
    BY <1>3 DEF HandInv, AirInv, Given, Received, RadioOK
<1>11. CASE outcome[m] # "D"
    <2>1. ready'[m] = ready[m] /\ buffer'[m] = buffer[m] /\ overflow'[m] = overflow[m]
        BY <1>1, <1>11
    <2>2. Received(m)' = Received(m)
        BY <1>8, <1>11
    <2> QED BY <1>2, <1>5, <1>6, <1>9, <1>10, <2>1, <2>2 DEF Handing
<1>12. CASE outcome[m] = "D"
    <2>1. Audible(transmissions[i], m)
        BY <1>1, <1>12 DEF Outcome, Audible
    <2>2. \A j \in Received(m) : Earlier(j, i)
        BY <1>1, <1>3, <2>1, NoTie DEF Received, Earlier
    <2>3. Cardinality(Received(m)') = Cardinality(Received(m)) + 1
        BY <1>3, <1>7, <1>8, <1>12, ReceivedFinite, FS_AddElement
    <2>4. m # running
        BY <1>1, <1>2, <2>1 DEF Audible
    <2>5. Listening(m) => ready[m] = 0
        BY <1>1, <1>3, <2>1, <2>4, WaitsForOne
    <2>6. /\ Cardinality(Numbered(m)) \in Nat /\ Cardinality(Received(m)) \in Nat
          /\ overflow[m] \in Nat /\ Len(buffer[m]) \in Nat
        BY <1>3, NumberedFinite, ReceivedFinite, LenProperties DEF RadioOK
    <2>7. Received(m)' = Received(m) \cup {i} /\ i # 0
        BY <1>8, <1>12
    <2>8. CASE Listening(m)
        <3>1. ready[m] = 0 /\ buffer[m] = <<>>
            BY <1>10, <2>5, <2>8 DEF Handing
        <3>2. ready'[m] = i /\ buffer'[m] = <<>> /\ overflow'[m] = overflow[m]
            BY <1>1, <1>12, <2>8, <3>1
        <3>3. Len(buffer[m]) = 0 /\ Len(buffer'[m]) = 0
            BY <3>1, <3>2, EmptySeq
        <3>4. Cardinality(Numbered(m)) + 1 + overflow[m] = Cardinality(Received(m)')
            BY <1>10, <2>3, <2>6, <3>1, <3>3 DEF Handing
        <3>5. \A k \in Numbered(m) : windows[m][k].frame \in Received(m)
            BY <1>10 DEF Handing
        <3> QED BY <1>2, <1>3, <1>5, <1>6, <1>9, <1>10, <2>2, <2>7, <2>8, <3>2, <3>3, <3>4, <3>5 DEF Handing
    <2>9. CASE ~Listening(m)
        <3>1. ready[m] = 0
            BY <1>3, <1>10, <2>9 DEF Handing
        <3>2. m \in Continuous
            BY <1>1, <1>3, <1>12, <2>1, <2>9, Decided DEF AirInv
        <3>3. /\ ready'[m] = 0 /\ buffer'[m] = Kept(m, i)
              /\ overflow'[m] = IF Full(m) THEN overflow[m] + 1 ELSE overflow[m]
            BY <1>1, <1>12, <2>9, <3>1
        <3>4. PICK gone \in {0, 1} :
                 /\ gone = 1 <=> Full(m)
                 /\ Len(buffer'[m]) = Len(buffer[m]) + 1 - gone
                 /\ \A k \in 1 .. Len(buffer'[m]) :
                       \/ k + gone \in 1 .. Len(buffer[m]) /\ buffer'[m][k] = buffer[m][k + gone]
                       \/ k = Len(buffer'[m]) /\ buffer'[m][k] = i
            BY <1>3, <3>3, KeptShape
        <3>5. overflow'[m] = overflow[m] + gone
            BY <2>6, <3>3, <3>4
        <3>6. Cardinality(Numbered(m)) + Len(buffer'[m]) + overflow'[m] = Cardinality(Received(m)')
            <4>1. Cardinality(Numbered(m)) + Len(buffer[m]) + overflow[m] = Cardinality(Received(m))
                BY <1>10, <3>1 DEF Handing
            <4>2. \A c, l, o, r \in Nat : \A g \in {0, 1} :
                     c + l + o = r => c + (l + 1 - g) + (o + g) = r + 1
                OBVIOUS
            <4> DEFINE c == Cardinality(Numbered(m))
                       r == Cardinality(Received(m))
                       l == Len(buffer[m])
                       o == overflow[m]
            <4>3. c + (l + 1 - gone) + (o + gone) = r + 1
                <5>1. c \in Nat /\ l \in Nat /\ o \in Nat /\ r \in Nat /\ c + l + o = r
                    BY <2>6, <4>1
                <5> HIDE DEF c, r, l, o
                <5> QED BY ONLY <4>2, <5>1, gone \in {0, 1}
            <4>4. Len(buffer'[m]) = Len(buffer[m]) + 1 - gone
                BY <3>4
            <4> QED BY <2>3, <3>5, <4>3, <4>4, Zenon
        <3>7. \A k \in 1 .. Len(buffer'[m]) : buffer'[m][k] \in Received(m) \cup {i}
            BY <1>10, <3>4 DEF Handing
        <3>8. \A j, k \in 1 .. Len(buffer'[m]) : j < k => Earlier(buffer'[m][j], buffer'[m][k])
            <4> TAKE j, k \in 1 .. Len(buffer'[m])
            <4> HAVE j < k
            <4>1. j + gone \in 1 .. Len(buffer[m]) /\ buffer'[m][j] = buffer[m][j + gone]
                BY <2>6, <3>4
            <4>2. buffer[m][j + gone] \in Received(m)
                BY <1>10, <4>1 DEF Handing
            <4>3. CASE k + gone \in 1 .. Len(buffer[m]) /\ buffer'[m][k] = buffer[m][k + gone]
                <5>1. j + gone < k + gone
                    BY <3>4
                <5> QED BY <1>10, <4>1, <4>3, <5>1 DEF Handing
            <4>4. CASE buffer'[m][k] = i
                BY <2>2, <4>1, <4>2, <4>4
            <4> QED BY <3>4, <4>3, <4>4
        <3>9. \A k \in Numbered(m) : windows[m][k].frame \in Received(m)
            BY <1>10 DEF Handing
        <3>10. \A k \in Numbered(m), j \in 1 .. Len(buffer'[m]) :
                  Earlier(windows[m][k].frame, buffer'[m][j])
            BY <1>10, <2>2, <3>4, <3>9 DEF Handing
        <3>11. \A j, k \in Numbered(m) : j < k => Earlier(windows[m][j].frame, windows[m][k].frame)
            BY <1>10 DEF Handing
        <3> DEFINE ends(x, y) == transmissions'[x].end < transmissions'[y].end
        <3>12. \A j, k \in Received(m) \cup {i} : Earlier(j, k) => ends(j, k)
            BY <1>9 DEF Earlier
        <3>13. /\ \A j, k \in 1 .. Len(buffer'[m]) : j < k => ends(buffer'[m][j], buffer'[m][k])
               /\ \A k \in Numbered(m), j \in 1 .. Len(buffer'[m]) :
                     ends(windows[m][k].frame, buffer'[m][j])
               /\ \A j, k \in Numbered(m) : j < k => ends(windows[m][j].frame, windows[m][k].frame)
            <4> HIDE DEF ends
            <4> QED BY <3>7, <3>8, <3>9, <3>10, <3>11, <3>12
        <3> QED BY <1>2, <1>5, <1>6, <2>7, <2>9, <3>2, <3>3, <3>6, <3>7, <3>9, <3>13 DEF Handing, Earlier
    <2> QED BY <2>8, <2>9
<1> QED BY <1>11, <1>12

(* What has been sent keeps its times, and time goes on. *)
LEMMA AirsKept ==
    ASSUME RadioOK, Airs, now \in Nat, now' \in Nat, now <= now', transmissions' = transmissions
    PROVE  Airs'
<1>1. ASSUME NEW i \in 1 .. Len(transmissions) PROVE transmissions[i].start <= now' + Setup
    <2>1. transmissions[i].start \in Nat /\ Setup \in Nat /\ transmissions[i].start <= now + Setup
        BY Records, SimWorldAssumption DEF Airs
    <2> QED BY <2>1
<1> QED BY <1>1 DEF Airs

(* A window that opens now covers nothing that is over. *)
LEMMA TooLate ==
    ASSUME IInv, Airs, NEW i \in 1 .. Len(transmissions), Over(transmissions[i]),
           NEW w, w.start = now
    PROVE  ~Covers(w, transmissions[i])
<1>1. Sent(i) /\ RadioOK
    BY DEF IInv, RadioInv, Sending
<1>2. /\ transmissions[i].start \in Nat /\ transmissions[i].end \in Nat /\ now \in Nat /\ Slack \in Nat
      /\ transmissions[i].end <= now /\ transmissions[i].start + Slack < transmissions[i].end
    BY <1>1, Records, SimWorldAssumption DEF Sent, Airs, IInv, WorldInv, WorldOK
<1> QED BY <1>2 DEF Covers

LEMMA ReceiveAir ==
    ASSUME Inv, IInv', NEW n \in Node, NEW timeout \in Timeouts[n], Receive(n, timeout) PROVE Inv'
<1> DEFINE w == [start |-> now, until |-> now + timeout, end |-> now, frame |-> 0, fits |-> FALSE, open |-> TRUE]
           last == Len(windows[n])
<1>1. /\ running = n /\ doing[n] = "program" /\ ScheduleNext /\ alive' = alive /\ apart' = apart
      /\ ~HasBuffered(n)
      /\ priority' = [priority EXCEPT ![n] = 1] /\ doing' = [doing EXCEPT ![n] = "receive"]
      /\ listenStart' = [listenStart EXCEPT ![n] = now] /\ ready' = [ready EXCEPT ![n] = 0]
      /\ windows' = [windows EXCEPT ![n] = Append(@, w)]
      /\ buffer' = buffer /\ transmissions' = transmissions /\ overflow' = overflow
    BY DEF Receive, MayCall, BlockUntil
<1>2. /\ IInv /\ AirInv /\ HandInv /\ RadioInv /\ RadioOK /\ WorldInv /\ WorldInv'
      /\ n \in alive /\ ~stopping /\ now \in Nat
    BY <1>1, Turn DEF Inv, IInv, RadioInv
<1>3. FirstRuns' /\ (~stopping' => ~stopping) /\ now <= now' /\ now' \in Nat
    BY <1>1, <1>2, Scheduled, TimeGoesOn, SimWorldAssumption DEF WorldInv, WorldOK
<1>4. w \in Window /\ w.start = now /\ w.end = now /\ w.frame = 0 /\ w.open
    <2>1. now + timeout \in Nat
        BY <1>2, SimWorldAssumption
    <2> QED BY <1>2, <2>1 DEF Window
<1> HIDE DEF w
<1>5. windows'[n] = Append(windows[n], w) /\ \A m \in Node \ {n} : windows'[m] = windows[m]
    BY <1>1, <1>2 DEF RadioOK
<1>6. /\ Len(windows'[n]) = last + 1 /\ last \in Nat
      /\ DOMAIN windows'[n] = 1 .. last + 1 /\ DOMAIN windows[n] = 1 .. last
      /\ \A k \in 1 .. last + 1 : \/ k \in 1 .. last /\ windows'[n][k] = windows[n][k]
                                  \/ k = last + 1 /\ windows'[n][k] = w
    <2>1. windows[n] \in Seq(Window) /\ last \in Nat /\ windows'[n] \in Seq(Window)
        BY <1>2, <1>4, <1>5, Records, AppendProperties DEF RadioOK
    <2>2. /\ Len(Append(windows[n], w)) = last + 1
          /\ \A k \in 1 .. last : Append(windows[n], w)[k] = windows[n][k]
          /\ Append(windows[n], w)[last + 1] = w
        BY <1>4, <2>1, AppendProperties
    <2>3. DOMAIN windows'[n] = 1 .. Len(windows'[n]) /\ DOMAIN windows[n] = 1 .. last
        BY <2>1
    <2> HIDE DEF last
    <2> QED BY <1>5, <2>1, <2>2, <2>3
<1>7. /\ Listening(n)' /\ ~Listening(n) /\ ready'[n] = 0 /\ listenStart'[n] = now /\ priority'[n] = 1
      /\ \A m \in Node \ {n} :
            /\ (Listening(m)' <=> Listening(m)) /\ doing'[m] = doing[m] /\ ready'[m] = ready[m]
            /\ listenStart'[m] = listenStart[m] /\ priority'[m] = priority[m]
    BY <1>1, <1>2 DEF Listening, RadioOK, WorldInv, WorldOK
<1>8. Airs'
    BY <1>1, <1>2, <1>3, AirsKept DEF AirInv
<1>9. Returning' /\ Ranked'
    <2>1. Returning'
        BY <1>1, <1>2, <1>3, <1>7 DEF AirInv, Returning, Over, Pending
    <2>2. doing'[n] = "receive"
        BY <1>1, <1>2 DEF RadioOK
    <2>3. Ranked'
        BY <1>2, <1>7, <2>2 DEF AirInv, Ranked
    <2> QED BY <2>1, <2>3
<1>10. Opened'
    <2>1. ASSUME NEW m \in Node, Listening(m)'
          PROVE  listenStart'[m] = windows'[m][Len(windows'[m])].start
        <3>1. CASE m = n
            <4>1. windows'[n][last + 1] = w
                BY <1>6
            <4> QED BY <1>4, <1>6, <1>7, <3>1, <4>1
        <3>2. CASE m # n
            BY <1>2, <1>5, <1>7, <2>1, <3>2 DEF AirInv, Opened
        <3> QED BY <3>1, <3>2
    <2>2. ASSUME NEW m \in Node, NEW k \in 1 .. Len(windows'[m])
          PROVE  /\ windows'[m][k].end <= now'
                 /\ ~stopping' => (windows'[m][k].open <=> Listening(m)' /\ k = Len(windows'[m]))
        <3>1. CASE m = n /\ windows'[n][k] = w /\ k = last + 1
            BY <1>3, <1>4, <1>6, <1>7, <3>1
        <3>2. CASE m = n /\ k \in 1 .. last /\ windows'[n][k] = windows[n][k]
            <4>1. windows[n][k].end \in Nat /\ windows[n][k].end <= now
                BY <1>2, <3>2, Records DEF AirInv, Opened
            <4>2. ~windows[n][k].open /\ k # last + 1
                BY <1>2, <1>6, <1>7, <3>2 DEF AirInv, Opened
            <4> QED BY <1>2, <1>3, <1>6, <3>2, <4>1, <4>2
        <3>3. CASE m # n
            <4>1. windows[m][k].end \in Nat /\ windows[m][k].end <= now
                BY <1>2, <1>5, <3>3, Records DEF AirInv, Opened
            <4> QED BY <1>2, <1>3, <1>5, <1>7, <3>3, <4>1 DEF AirInv, Opened
        <3> QED BY <1>6, <3>1, <3>2, <3>3
    <2> QED BY <2>1, <2>2 DEF Opened
<1>11. NotCovered'
    <2> SUFFICES ASSUME ~stopping', NEW i \in 1 .. Len(transmissions), NEW m \in Node \ Continuous,
                        ~Over(transmissions[i]), Audible(transmissions[i], m),
                        NEW k \in 1 .. Len(windows'[m]), ~windows'[m][k].open
                 PROVE  ~Covers(windows'[m][k], transmissions[i])
        BY <1>1 DEF NotCovered, Over, Pending, Audible, Connected, Covers
    <2>1. k \in 1 .. Len(windows[m]) /\ windows'[m][k] = windows[m][k]
        BY <1>4, <1>5, <1>6
    <2> QED BY <1>2, <2>1 DEF AirInv, NotCovered
<1>12. Heeded' /\ OutcomeFinal' /\ Given'
    <2>1. Heeded' /\ OutcomeFinal'
        BY <1>1, <1>2 DEF AirInv, Heeded, OutcomeFinal, Audible, Connected, Over, Pending, Delivered,
                          Occupies, Overlaps
    <2>2. Given'
        BY <1>1, <1>2, <1>7 DEF AirInv, Given, Delivered
    <2> QED BY <2>1, <2>2
<1>13. WindowsDecide'
    <2> SUFFICES ASSUME NEW i \in DOMAIN transmissions, NEW m \in Node \ Continuous,
                        Over(transmissions[i]), Audible(transmissions[i], m)
                 PROVE  transmissions[i].outcome[m] # "M" <=>
                            \E k \in DOMAIN windows'[m] : Covers(windows'[m][k], transmissions[i])
        BY <1>1 DEF WindowsDecide, Over, Pending, Audible, Connected, Covers
    <2>1. transmissions[i].outcome[m] # "M" <=> \E k \in DOMAIN windows[m] : Covers(windows[m][k], transmissions[i])
        BY <1>2 DEF AirInv, WindowsDecide
    <2>2. ~Covers(w, transmissions[i])
        <3>1. i \in 1 .. Len(transmissions) /\ w.start = now
            BY <1>2, <1>4 DEF RadioOK
        <3>2. \A x : x.start = now => ~Covers(x, transmissions[i])
            BY <1>2, <3>1, TooLate DEF AirInv
        <3> QED BY <3>1, <3>2
    <2>3. \A k \in 1 .. last : k \in 1 .. last + 1 /\ windows'[n][k] = windows[n][k]
        BY <1>6
    <2> QED BY <1>5, <1>6, <2>1, <2>2, <2>3
<1>14. HandInv'
    <2> SUFFICES ASSUME NEW m \in Node PROVE Handing(m)'
        BY DEF HandInv
    <2>1. Received(m)' = Received(m) /\ Handing(m)
        BY <1>1, <1>2 DEF Received, Delivered, HandInv
    <2>2. \A j, k : Earlier(j, k)' <=> Earlier(j, k)
        BY <1>1 DEF Earlier
    <2>3. CASE m = n
        <3>1. ready[n] = 0 /\ buffer[n] = <<>>
            BY <1>1, <1>2, <1>7, <2>1, <2>3 DEF Handing, HasBuffered
        <3>2. Numbered(n)' = Numbered(n)
            BY <1>4, <1>6 DEF Numbered
        <3>3. \A k \in Numbered(n) : windows'[n][k] = windows[n][k]
            BY <1>4, <1>6 DEF Numbered
        <3>4. windows'[n][Len(windows'[n])].frame = 0
            BY <1>4, <1>6
        <3>5. buffer'[n] = <<>> /\ ready'[n] = 0 /\ Len(buffer[n]) = 0 /\ overflow'[n] = overflow[n]
            BY <1>1, <1>7, <3>1, EmptySeq
        <3>6. /\ \A k \in Numbered(n) : windows'[n][k].frame \in Received(n)
              /\ \A j, k \in Numbered(n) : j < k => Earlier(windows'[n][j].frame, windows'[n][k].frame)
            BY <2>1, <2>3, <3>3 DEF Handing
        <3>7. Cardinality(Numbered(n)) + 0 + overflow[n] = Cardinality(Received(n))
            BY <2>1, <2>3, <3>1, <3>5 DEF Handing
        <3>8. Len(buffer'[n]) = 0 /\ transmissions' = transmissions
            BY <1>1, <3>5, EmptySeq
        <3>9. Received(n)' = Received(n)
            BY <2>1, <2>3
        <3> HIDE <1>1, <1>2, <2>1
        <3> QED BY ONLY <1>7, <2>3, <3>2, <3>4, <3>5, <3>6, <3>7, <3>8, <3>9 DEF Handing, Earlier
    <2>4. CASE m # n
        <3>1. windows'[m] = windows[m] /\ Numbered(m)' = Numbered(m)
            BY <1>5, <2>4 DEF Numbered
        <3>2. ready'[m] = ready[m] /\ (Listening(m)' <=> Listening(m)) /\ (~stopping' => ~stopping)
            BY <1>3, <1>7, <2>4
        <3> QED BY <1>1, <2>1, <2>2, <3>1, <3>2 DEF Handing
    <2> QED BY <2>3, <2>4
<1> QED BY <1>2, <1>3, <1>8, <1>9, <1>10, <1>11, <1>12, <1>13, <1>14 DEF Inv, AirInv

(* Whoever returns from receive() has missed no end: the end of a frame    *)
(* goes before a timeout of the same instant, and a frame that ends with   *)
(* the one that was delivered would have collided with it.                 *)
LEMMA NothingMissed ==
    ASSUME IInv, AirInv, NEW n \in Node, running = n, Listening(n),
           NEW i \in 1 .. Len(transmissions), ~Over(transmissions[i]), Audible(transmissions[i], n)
    PROVE  now < transmissions[i].end
<1> DEFINE src == transmissions[i].src
<1>1. /\ RadioOK /\ WorldInv /\ WorldOK /\ now \in Nat /\ n \in alive /\ ~stopping /\ started
      /\ doing[n] = "receive" /\ wake[n] = now /\ running # NoNode
    BY Turn, SimWorldAssumption DEF IInv, RadioInv, WorldInv, WorldOK, Listening, DueNow
<1>2. src \in alive /\ doing[src] = "send" /\ wake[src] = transmissions[i].end
    BY <1>1 DEF AirInv, Returning, IInv, RadioInv, Sending, Sent
<1>3. src \in Node /\ src # n /\ wake[src] \in Nat /\ now <= wake[src]
    BY <1>1, <1>2 DEF WorldInv, NobodyOversleeps, WorldOK
<1>4. ASSUME transmissions[i].end = now PROVE FALSE
    <2>1. priority[src] = 0 /\ priority[n] <= priority[src]
        BY <1>1, <1>2, <1>3, <1>4 DEF AirInv, Ranked, FirstRuns
    <2>2. CASE ready[n] = 0
        BY <1>1, <2>1, <2>2 DEF AirInv, Ranked
    <2>3. CASE ready[n] # 0
        <3>1. Receives(n) /\ Delivered(ready[n], n) /\ ready[n] \in 1 .. Len(transmissions)
            BY <1>1, <2>3 DEF IInv, RadioInv, Receiving, AirInv, Given, RadioOK
        <3>2. transmissions[ready[n]].end < now
            BY <1>4, <3>1, NoTie
        <3>3. transmissions[ready[n]].end = now
            BY <1>1, <2>3, <3>1 DEF Receives
        <3> QED BY <1>1, <3>2, <3>3
    <2> QED BY <2>2, <2>3
<1> QED BY <1>1, <1>2, <1>3, <1>4

LEMMA ReceiveReturnsAir == ASSUME Inv, IInv', NEW n \in Node, ReceiveReturns(n) PROVE Inv'
<1> DEFINE last == Len(windows[n])
           old == windows[n][last]
           new == [old EXCEPT !.end = now, !.frame = ready[n], !.fits = Fits(n, ready[n]), !.open = FALSE]
<1>1. /\ running = n /\ Listening(n) /\ doing' = [doing EXCEPT ![n] = "program"]
      /\ windows' = [windows EXCEPT ![n][last] = new]
      /\ ready' = [ready EXCEPT ![n] = 0]
      /\ apart' = apart /\ stopping' = stopping /\ now' = now /\ running' = running /\ alive' = alive
      /\ wake' = wake /\ priority' = priority /\ listenStart' = listenStart
      /\ buffer' = buffer /\ transmissions' = transmissions /\ overflow' = overflow
    BY DEF ReceiveReturns, world
<1>2. /\ IInv /\ AirInv /\ HandInv /\ RadioInv /\ RadioOK /\ WorldInv
      /\ n \in alive /\ ~stopping /\ now \in Nat /\ doing[n] = "receive" /\ Receives(n)
    BY <1>1, Turn DEF Inv, IInv, RadioInv, Receiving, Listening
<1>3. last \in 1 .. last /\ last \in Nat /\ old \in Window /\ ready[n] \in 0 .. Len(transmissions)
    BY <1>2, Records DEF Receives, RadioOK
<1>4. /\ new \in Window /\ new.frame = ready[n] /\ new.end = now /\ new.start = old.start /\ ~new.open
      /\ old.open
    <2>1. Fits(n, ready[n]) \in BOOLEAN /\ ready[n] \in Nat
        BY <1>2, <1>3, Records DEF Fits
    <2> QED BY <1>2, <1>3, <2>1 DEF Window, Receives
<1> HIDE DEF new, old
<1>5. windows'[n] = [windows[n] EXCEPT ![last] = new] /\ \A m \in Node \ {n} : windows'[m] = windows[m]
    BY <1>1, <1>2 DEF RadioOK
<1>6. /\ Len(windows'[n]) = last /\ DOMAIN windows'[n] = 1 .. last /\ DOMAIN windows[n] = 1 .. last
      /\ \A k \in 1 .. last : windows'[n][k] = IF k = last THEN new ELSE windows[n][k]
      /\ windows[n][last] = old
    <2>1. windows[n] \in Seq(Window)
        BY <1>2 DEF RadioOK
    <2>2. windows[n][last] = old
        BY DEF old
    <2> HIDE DEF last
    <2>3. /\ [windows[n] EXCEPT ![last] = new] \in Seq(Window)
          /\ Len([windows[n] EXCEPT ![last] = new]) = Len(windows[n])
          /\ \A k \in 1 .. Len(windows[n]) :
                [windows[n] EXCEPT ![last] = new][k] = IF k = last THEN new ELSE windows[n][k]
        <3>1. last \in 1 .. Len(windows[n])
            BY <1>3 DEF last
        <3> QED BY <1>4, <2>1, <3>1, ExceptSeq
    <2> QED BY <1>5, <2>1, <2>2, <2>3 DEF last
<1>7. /\ ~Listening(n)' /\ ready'[n] = 0
      /\ \A m \in Node \ {n} :
            (Listening(m)' <=> Listening(m)) /\ doing'[m] = doing[m] /\ ready'[m] = ready[m]
    BY <1>1, <1>2 DEF Listening, RadioOK
<1>8. doing'[n] = "program" /\ running' = n
    BY <1>1, <1>2 DEF RadioOK
<1>9. Airs' /\ Heeded' /\ OutcomeFinal'
    <2>1. Airs' /\ Heeded'
        BY <1>1, <1>2 DEF AirInv, Airs, Heeded, Audible, Connected, Delivered
    <2>2. OutcomeFinal'
        <3>1. apart' = apart /\ transmissions' = transmissions
            BY <1>1
        <3> QED BY <1>2, <3>1 DEF AirInv, OutcomeFinal, Audible, Connected, Over, Pending, Occupies, Overlaps
    <2> QED BY <2>1, <2>2
<1>10. Returning' /\ Ranked' /\ FirstRuns'
    <2>1. Returning'
        BY <1>1, <1>2, <1>7, <1>8 DEF AirInv, Returning, Over, Pending
    <2>2. Ranked'
        BY <1>1, <1>2, <1>7, <1>8 DEF AirInv, Ranked
    <2>3. FirstRuns'
        BY <1>8 DEF FirstRuns
    <2> QED BY <2>1, <2>2, <2>3
<1>11. Opened'
    <2>1. ASSUME NEW m \in Node, Listening(m)'
          PROVE  listenStart'[m] = windows'[m][Len(windows'[m])].start
        BY <1>1, <1>2, <1>5, <1>7, <2>1 DEF AirInv, Opened
    <2>2. ASSUME NEW m \in Node, NEW k \in 1 .. Len(windows'[m])
          PROVE  /\ windows'[m][k].end <= now
                 /\ windows'[m][k].open <=> Listening(m)' /\ k = Len(windows'[m])
        <3>1. CASE m = n /\ k = last
            BY <1>2, <1>3, <1>4, <1>6, <1>7, <3>1
        <3>2. CASE m = n /\ k # last
            <4>1. k \in 1 .. last /\ windows'[n][k] = windows[n][k]
                BY <1>6, <3>2
            <4> QED BY <1>2, <1>6, <1>7, <3>2, <4>1 DEF AirInv, Opened
        <3>3. CASE m # n
            BY <1>2, <1>5, <1>7, <3>3 DEF AirInv, Opened
        <3> QED BY <3>1, <3>2, <3>3
    <2> QED BY <1>1, <2>1, <2>2 DEF Opened
<1>12. NotCovered'
    <2> SUFFICES ASSUME NEW i \in 1 .. Len(transmissions), NEW m \in Node \ Continuous,
                        ~Over(transmissions[i]), Audible(transmissions[i], m),
                        NEW k \in 1 .. Len(windows'[m]), ~windows'[m][k].open
                 PROVE  ~Covers(windows'[m][k], transmissions[i])
        BY <1>1 DEF NotCovered, Over, Pending, Audible, Connected, Covers
    <2>1. CASE m = n /\ k = last
        <3>1. now < transmissions[i].end /\ transmissions[i].end \in Nat
            BY <1>1, <1>2, <2>1, NothingMissed, Records
        <3>2. windows'[m][k] = new
            BY <1>3, <1>6, <2>1
        <3> QED BY <1>2, <1>4, <3>1, <3>2 DEF Covers
    <2>2. CASE ~(m = n /\ k = last)
        <3>1. k \in 1 .. Len(windows[m]) /\ windows'[m][k] = windows[m][k]
            BY <1>5, <1>6, <2>2
        <3> QED BY <1>2, <3>1 DEF AirInv, NotCovered
    <2> QED BY <2>1, <2>2
<1>13. WindowsDecide'
    <2> SUFFICES ASSUME NEW i \in DOMAIN transmissions, NEW m \in Node \ Continuous,
                        Over(transmissions[i]), Audible(transmissions[i], m)
                 PROVE  transmissions[i].outcome[m] # "M" <=>
                            \E k \in DOMAIN windows'[m] : Covers(windows'[m][k], transmissions[i])
        BY <1>1 DEF WindowsDecide, Over, Pending, Audible, Connected, Covers
    <2>1. transmissions[i].outcome[m] # "M" <=> \E k \in DOMAIN windows[m] : Covers(windows[m][k], transmissions[i])
        BY <1>2 DEF AirInv, WindowsDecide
    <2>2. transmissions[i].end \in Nat /\ transmissions[i].end <= now
        <3>1. i \in 1 .. Len(transmissions)
            BY <1>2 DEF RadioOK
        <3> QED BY <1>2, <3>1, Records DEF RadioInv, Sending, Sent
    <2>3. Covers(new, transmissions[i]) <=> Covers(old, transmissions[i])
        BY <1>2, <1>4, <2>2 DEF Covers
    <2>4. \A k \in 1 .. last : Covers(windows'[n][k], transmissions[i]) <=> Covers(windows[n][k], transmissions[i])
        BY <1>6, <2>3
    <2> QED BY <1>5, <1>6, <2>1, <2>4
<1>14. Given'
    BY <1>1, <1>2, <1>7 DEF AirInv, Given, Delivered
<1>15. HandInv'
    <2> SUFFICES ASSUME NEW m \in Node PROVE Handing(m)'
        BY DEF HandInv
    <2>1. Received(m)' = Received(m) /\ Handing(m)
        BY <1>1, <1>2 DEF Received, Delivered, HandInv
    <2>2. CASE m = n
        <3>1. /\ buffer[n] = <<>> /\ old.frame = 0 /\ Len(buffer[n]) = 0
            BY <1>1, <1>2, <1>6, <2>1, <2>2, EmptySeq DEF Handing
        <3>2. /\ \A k \in Numbered(n) : windows[n][k].frame \in Received(n)
              /\ \A j, k \in Numbered(n) : j < k => Earlier(windows[n][j].frame, windows[n][k].frame)
              /\ ready[n] # 0 => \A k \in Numbered(n) : Earlier(windows[n][k].frame, ready[n])
            BY <2>1, <2>2 DEF Handing
        <3>3. last \notin Numbered(n)
            BY <1>6, <3>1 DEF Numbered
        <3>4. Numbered(n)' = IF ready[n] = 0 THEN Numbered(n) ELSE Numbered(n) \cup {last}
            BY <1>3, <1>4, <1>6, <3>3 DEF Numbered
        <3>5. /\ \A k \in Numbered(n) : windows'[n][k] = windows[n][k] /\ k < last
              /\ windows'[n][last] = new
            BY <1>3, <1>6, <3>3 DEF Numbered
        <3>6. Cardinality(Numbered(n)') + 0 + overflow[n] = Cardinality(Received(n))
            <4>1. /\ Cardinality(Numbered(n)) \in Nat /\ Cardinality(Received(n)) \in Nat
                  /\ overflow[n] \in Nat
                BY <1>2, NumberedFinite, ReceivedFinite DEF RadioOK
            <4>2. /\ ready[n] = 0 => Cardinality(Numbered(n)) + 0 + overflow[n] = Cardinality(Received(n))
                  /\ ready[n] # 0 => Cardinality(Numbered(n)) + 1 + overflow[n] = Cardinality(Received(n))
                BY <2>1, <2>2, <3>1 DEF Handing
            <4>3. ready[n] # 0 => Cardinality(Numbered(n)') = Cardinality(Numbered(n)) + 1
                BY <1>2, <3>3, <3>4, NumberedFinite, FS_AddElement
            <4>4. ready[n] = 0 => Cardinality(Numbered(n)') = Cardinality(Numbered(n))
                BY <3>4
            <4> QED BY ONLY <4>1, <4>2, <4>3, <4>4
        <3>7. ready[n] # 0 => ready[n] \in Received(n)
            BY <1>2 DEF AirInv, Given, Received, RadioOK
        <3>8. \A k \in Numbered(n)' : windows'[n][k].frame \in Received(n)
            BY <1>4, <3>2, <3>4, <3>5, <3>7
        <3>9. \A j, k \in Numbered(n)' : j < k => Earlier(windows'[n][j].frame, windows'[n][k].frame)
            <4> SUFFICES ASSUME NEW j \in Numbered(n)', NEW k \in Numbered(n)', j < k
                         PROVE  Earlier(windows'[n][j].frame, windows'[n][k].frame)
                OBVIOUS
            <4>1. j \in Numbered(n)
                <5>1. \A x \in Numbered(n) : x \in 1 .. last
                    BY DEF Numbered
                <5>2. j # last
                    BY <1>3, <3>4, <3>5, <5>1
                <5> QED BY <3>4, <5>2
            <4>2. CASE k \in Numbered(n)
                BY <3>2, <3>5, <4>1, <4>2
            <4>3. CASE k = last /\ ready[n] # 0
                BY <1>4, <3>2, <3>5, <4>1, <4>3
            <4> QED BY <3>4, <4>2, <4>3
        <3>10. buffer'[n] = <<>> /\ Len(buffer'[n]) = 0 /\ overflow'[n] = overflow[n] /\ transmissions' = transmissions
            BY <1>1, <3>1
        <3>11. Received(n)' = Received(n)
            BY <2>1, <2>2
        <3> QED BY ONLY <1>7, <2>2, <3>6, <3>8, <3>9, <3>10, <3>11 DEF Handing, Earlier
    <2>3. CASE m # n
        <3>1. /\ windows'[m] = windows[m] /\ Numbered(m)' = Numbered(m)
              /\ ready'[m] = ready[m] /\ (Listening(m)' <=> Listening(m)) /\ stopping' = stopping
              /\ buffer' = buffer /\ transmissions' = transmissions /\ overflow' = overflow
            BY <1>1, <1>5, <1>7, <2>3 DEF Numbered
        <3> QED BY <2>1, <3>1 DEF Handing, Earlier
    <2> QED BY <2>2, <2>3
<1> QED BY <1>2, <1>9, <1>10, <1>11, <1>12, <1>13, <1>14, <1>15 DEF Inv, AirInv

LEMMA ReceiveBufferedAir == ASSUME Inv, IInv', NEW n \in Node, ReceiveBuffered(n) PROVE Inv'
<1> DEFINE i == Head(buffer[n])
           w == [start |-> now, until |-> now, end |-> now, frame |-> i, fits |-> Fits(n, i),
                 open |-> FALSE]
           last == Len(windows[n])
<1>1. /\ running = n /\ doing[n] = "program" /\ n \in Continuous
      /\ buffer[n] # <<>> /\ buffer' = [buffer EXCEPT ![n] = Tail(@)]
      /\ windows' = [windows EXCEPT ![n] = Append(@, w)]
      /\ apart' = apart /\ stopping' = stopping /\ now' = now /\ running' = running /\ alive' = alive
      /\ wake' = wake /\ priority' = priority /\ doing' = doing /\ listenStart' = listenStart
      /\ ready' = ready /\ transmissions' = transmissions /\ overflow' = overflow
    BY DEF ReceiveBuffered, MayCall, HasBuffered, world
<1>2. /\ IInv /\ AirInv /\ HandInv /\ RadioInv /\ RadioOK
      /\ ~stopping /\ now \in Nat /\ ~Listening(n)
    BY <1>1, Turn DEF Inv, IInv, RadioInv, Listening
<1>3. \A m \in Node : Listening(m)' <=> Listening(m)
    BY <1>1 DEF Listening
<1> DEFINE S == 1 .. Len(transmissions)
<1>4. buffer[n] \in Seq(S) /\ Len(buffer[n]) \in Nat \ {0}
    BY <1>1, <1>2, EmptySeq DEF RadioOK
<1>5. /\ i \in S /\ i = buffer[n][1] /\ 1 \in 1 .. Len(buffer[n])
      /\ Tail(buffer[n]) \in Seq(S) /\ Len(Tail(buffer[n])) = Len(buffer[n]) - 1
      /\ \A k \in 1 .. Len(Tail(buffer[n])) : Tail(buffer[n])[k] = buffer[n][k + 1]
    <2> HIDE DEF S
    <2> QED BY <1>1, <1>4, HeadTailProperties
<1>6. i \in Nat /\ i # 0
    BY <1>5, Records
<1> HIDE DEF i
<1>7. w \in Window /\ w.frame = i /\ w.end = now /\ ~w.open
    <2>1. Fits(n, i) \in BOOLEAN
        BY DEF Fits
    <2> QED BY <1>2, <1>6, <2>1 DEF Window
<1> HIDE DEF w
<1>8. windows'[n] = Append(windows[n], w) /\ \A m \in Node \ {n} : windows'[m] = windows[m]
    BY <1>1, <1>2 DEF RadioOK
<1>9. /\ Len(windows'[n]) = last + 1 /\ last \in Nat
      /\ \A k \in 1 .. last + 1 : \/ k \in 1 .. last /\ windows'[n][k] = windows[n][k]
                                  \/ k = last + 1 /\ windows'[n][k] = w
    <2>1. windows[n] \in Seq(Window) /\ last \in Nat
        BY <1>2, Records DEF RadioOK
    <2>2. /\ Len(Append(windows[n], w)) = last + 1
          /\ \A k \in 1 .. last : Append(windows[n], w)[k] = windows[n][k]
          /\ Append(windows[n], w)[last + 1] = w
        BY <1>7, <2>1, AppendProperties
    <2> HIDE DEF last
    <2> QED BY <1>8, <2>1, <2>2
<1>10. Airs' /\ Heeded' /\ Given'
    BY <1>1, <1>2 DEF AirInv, Airs, Heeded, Given, Audible, Connected, Delivered
<1>11. OutcomeFinal'
    <2>1. apart' = apart /\ transmissions' = transmissions
        BY <1>1
    <2> QED BY <1>2, <2>1 DEF AirInv, OutcomeFinal, Audible, Connected, Over, Pending, Occupies, Overlaps
<1>12. Returning' /\ Ranked' /\ FirstRuns'
    BY <1>1, <1>2 DEF AirInv, Returning, Ranked, FirstRuns, Listening, Over, Pending
<1>13. Opened'
    <2>1. ASSUME NEW m \in Node, Listening(m)
          PROVE  listenStart[m] = windows'[m][Len(windows'[m])].start
        BY <1>2, <1>8, <2>1 DEF AirInv, Opened
    <2>2. ASSUME NEW m \in Node, NEW k \in 1 .. Len(windows'[m])
          PROVE  /\ windows'[m][k].end <= now
                 /\ windows'[m][k].open <=> Listening(m) /\ k = Len(windows'[m])
        <3>1. CASE m = n /\ k = last + 1 /\ windows'[n][k] = w
            BY <1>2, <1>7, <3>1
        <3>2. CASE m = n /\ k \in 1 .. last /\ windows'[n][k] = windows[n][k]
            BY <1>2, <3>2 DEF AirInv, Opened
        <3>3. CASE m # n
            BY <1>2, <1>8, <3>3 DEF AirInv, Opened
        <3> QED BY <1>9, <3>1, <3>2, <3>3
    <2> QED BY <1>1, <1>3, <2>1, <2>2 DEF Opened
<1>14. NotCovered' /\ WindowsDecide'
    <2>1. \A m \in Node \ Continuous : windows'[m] = windows[m]
        BY <1>1, <1>8
    <2>2. apart' = apart /\ stopping' = stopping /\ transmissions' = transmissions
        BY <1>1
    <2>3. NotCovered'
        BY <1>2, <2>1, <2>2 DEF AirInv, NotCovered, Audible, Connected, Over, Pending, Covers
    <2>4. WindowsDecide'
        BY <1>2, <2>1, <2>2 DEF AirInv, WindowsDecide, Audible, Connected, Over, Pending, Covers
    <2> QED BY <2>3, <2>4
<1>15. HandInv'
    <2> SUFFICES ASSUME NEW m \in Node PROVE Handing(m)'
        BY DEF HandInv
    <2>1. Received(m)' = Received(m) /\ Handing(m)
        BY <1>1, <1>2 DEF Received, Delivered, HandInv
    <2>2. CASE m = n
        <3>1. ready[n] = 0 /\ last + 1 \notin Numbered(n)
            BY <1>1, <1>2, <1>9, <2>1, <2>2 DEF Handing, Numbered
        <3>2. /\ \A k \in Numbered(n) : windows[n][k].frame \in Received(n)
              /\ \A k \in 1 .. Len(buffer[n]) : buffer[n][k] \in Received(n)
              /\ \A j, k \in Numbered(n) : j < k => Earlier(windows[n][j].frame, windows[n][k].frame)
              /\ \A j, k \in 1 .. Len(buffer[n]) : j < k => Earlier(buffer[n][j], buffer[n][k])
              /\ \A k \in Numbered(n), j \in 1 .. Len(buffer[n]) :
                    Earlier(windows[n][k].frame, buffer[n][j])
            BY <2>1, <2>2 DEF Handing
        <3>3. Numbered(n)' = Numbered(n) \cup {last + 1}
            BY <1>6, <1>7, <1>9, <3>1 DEF Numbered
        <3>4. /\ \A k \in Numbered(n) : windows'[n][k] = windows[n][k] /\ k < last + 1
              /\ windows'[n][last + 1] = w
            BY <1>9 DEF Numbered
        <3>5. /\ buffer'[n] = Tail(buffer[n]) /\ Len(buffer'[n]) = Len(buffer[n]) - 1
              /\ \A k \in 1 .. Len(buffer'[n]) : /\ buffer'[n][k] = buffer[n][k + 1]
                                                 /\ k + 1 \in 1 .. Len(buffer[n]) /\ 1 < k + 1
            <4>1. buffer'[n] = Tail(buffer[n])
                BY <1>1, <1>2 DEF RadioOK
            <4> QED BY <1>4, <1>5, <4>1
        <3>6. Cardinality(Numbered(n)') + Len(buffer'[n]) + overflow[n] = Cardinality(Received(n))
            <4>1. /\ Cardinality(Numbered(n)) \in Nat /\ Cardinality(Received(n)) \in Nat
                  /\ overflow[n] \in Nat /\ Len(buffer[n]) \in Nat \ {0}
                BY <1>2, <1>4, NumberedFinite, ReceivedFinite DEF RadioOK
            <4>2. Cardinality(Numbered(n)) + Len(buffer[n]) + overflow[n] = Cardinality(Received(n))
                BY <2>1, <2>2, <3>1 DEF Handing
            <4>3. Cardinality(Numbered(n)') = Cardinality(Numbered(n)) + 1
                BY <1>2, <3>1, <3>3, NumberedFinite, FS_AddElement
            <4>4. Len(buffer'[n]) = Len(buffer[n]) - 1
                BY <3>5
            <4> QED BY ONLY <4>1, <4>2, <4>3, <4>4
        <3>7. \A k \in Numbered(n)' : windows'[n][k].frame \in Received(n)
            BY <1>5, <1>7, <3>2, <3>3, <3>4
        <3>8. \A j, k \in Numbered(n)' : j < k => Earlier(windows'[n][j].frame, windows'[n][k].frame)
            <4> SUFFICES ASSUME NEW j \in Numbered(n)', NEW k \in Numbered(n)', j < k
                         PROVE  Earlier(windows'[n][j].frame, windows'[n][k].frame)
                OBVIOUS
            <4>1. j \in Numbered(n)
                <5>1. \A x \in Numbered(n) : x \in 1 .. last
                    BY DEF Numbered
                <5>2. j # last + 1
                    BY <1>9, <3>3, <3>4, <5>1
                <5> QED BY <3>3, <5>2
            <4>2. CASE k \in Numbered(n)
                BY <3>2, <3>4, <4>1, <4>2
            <4>3. CASE k = last + 1
                BY <1>5, <1>7, <3>2, <3>4, <4>1, <4>3
            <4> QED BY <3>3, <4>2, <4>3
        <3>9. \A k \in 1 .. Len(buffer'[n]) : buffer'[n][k] \in Received(n) /\ Earlier(i, buffer'[n][k])
            BY <1>5, <3>2, <3>5
        <3>10. \A j, k \in 1 .. Len(buffer'[n]) : j < k => Earlier(buffer'[n][j], buffer'[n][k])
            BY <3>2, <3>5
        <3>11. \A k \in Numbered(n)', j \in 1 .. Len(buffer'[n]) :
                  Earlier(windows'[n][k].frame, buffer'[n][j])
            <4> TAKE k \in Numbered(n)', j \in 1 .. Len(buffer'[n])
            <4>1. CASE k \in Numbered(n)
                BY <3>2, <3>4, <3>5, <4>1
            <4>2. CASE k = last + 1
                BY <1>7, <3>4, <3>9, <4>2
            <4> QED BY <3>3, <4>1, <4>2
        <3>12. /\ overflow'[n] = overflow[n] /\ transmissions' = transmissions /\ Received(n)' = Received(n)
               /\ ready'[n] = 0 /\ ~Listening(n)' /\ n \in Continuous
            BY <1>1, <1>2, <1>3, <2>1, <2>2, <3>1
        <3> QED BY ONLY <2>2, <3>6, <3>7, <3>8, <3>9, <3>10, <3>11, <3>12 DEF Handing, Earlier
    <2>3. CASE m # n
        <3>1. /\ windows'[m] = windows[m] /\ Numbered(m)' = Numbered(m) /\ buffer'[m] = buffer[m]
              /\ ready' = ready /\ (Listening(m)' <=> Listening(m)) /\ stopping' = stopping
              /\ transmissions' = transmissions /\ overflow' = overflow
            BY <1>1, <1>2, <1>3, <1>8, <2>3 DEF Numbered, RadioOK
        <3> QED BY <2>1, <3>1 DEF Handing, Earlier
    <2> QED BY <2>2, <2>3
<1> QED BY <1>2, <1>10, <1>11, <1>12, <1>13, <1>14, <1>15 DEF Inv, AirInv

LEMMA InitInv == Init => Inv
<1> SUFFICES ASSUME Init PROVE Inv
    OBVIOUS
<1>1. /\ IInv /\ RadioOK /\ transmissions = <<>> /\ Len(transmissions) = 0 /\ running = NoNode
      /\ doing = [n \in Node |-> "program"] /\ ready = [n \in Node |-> 0]
      /\ priority = [n \in Node |-> 1] /\ overflow = [n \in Node |-> 0]
    BY InitIInv DEF Init, IInv, RadioInv
<1>2. \A n \in Node : /\ windows[n] = <<>> /\ Len(windows[n]) = 0 /\ buffer[n] = <<>> /\ Len(buffer[n]) = 0
                      /\ ready[n] = 0 /\ overflow[n] = 0 /\ doing[n] = "program"
    BY DEF Init
<1>3. DOMAIN transmissions = {} /\ 1 .. Len(transmissions) = {}
    BY <1>1
<1>4. Airs /\ Heeded /\ OutcomeFinal /\ NotCovered /\ WindowsDecide
    BY <1>3 DEF Airs, Heeded, OutcomeFinal, NotCovered, WindowsDecide
<1>5. Returning /\ Ranked /\ FirstRuns /\ Opened /\ Given
    BY <1>1, <1>2, <1>3 DEF Returning, Ranked, FirstRuns, Opened, Given, Listening
<1>6. ASSUME NEW n \in Node PROVE Handing(n)
    <2>1. Numbered(n) = {} /\ Received(n) = {} /\ 1 .. Len(buffer[n]) = {}
        BY <1>2, <1>3 DEF Numbered, Received
    <2>2. Cardinality(Numbered(n)) + 0 + overflow[n] = Cardinality(Received(n))
        BY <1>2, <2>1, FS_EmptySet
    <2> QED BY <1>2, <2>1, <2>2 DEF Handing, Listening
<1> QED BY <1>1, <1>4, <1>5, <1>6 DEF Inv, AirInv, HandInv

LEMMA NextInv == Inv /\ [Next]_vars => Inv'
<1> SUFFICES ASSUME Inv, [Next]_vars PROVE Inv'
    OBVIOUS
<1>1. IInv'
    BY NextIInv DEF Inv
<1>2. CASE Run
    BY <1>1, <1>2, RunAir
<1>3. ASSUME NEW n \in Node, \/ Exit(n) \/ Unwind(n) \/ ReceiveReturns(n) \/ ReceiveBuffered(n)
      PROVE  Inv'
    BY <1>1, <1>3, ExitAir, UnwindAir, ReceiveReturnsAir, ReceiveBufferedAir
<1>4. ASSUME NEW n \in Node, SendReturns(n) PROVE Inv'
    BY <1>1, <1>4, SendReturnsAir, SendReturnsHand DEF Inv
<1>5. ASSUME NEW n \in Node, NEW air \in Airtimes[n], Send(n, air) PROVE Inv'
    BY <1>1, <1>5, SendAir
<1>6. ASSUME NEW n \in Node, NEW timeout \in Timeouts[n], Receive(n, timeout) PROVE Inv'
    BY <1>1, <1>6, ReceiveAir
<1>7. ASSUME NEW n \in Node, NEW ms \in Sleeps[n], SleepMs(n, ms) PROVE Inv'
    BY <1>1, <1>7, SleepMsAir
<1>8. CASE UNCHANGED vars
    BY <1>1, <1>8, StutterAir
<1> QED BY <1>2, <1>3, <1>4, <1>5, <1>6, <1>7, <1>8 DEF Next

(* What a node holds is what is still to come. *)
LEMMA HandingInOrder == Inv => HandedOverInOrder
<1> SUFFICES ASSUME Inv, NEW n \in Node
             PROVE  /\ \A k \in Handed(n) : windows[n][k].frame \in DeliveredTo(n)
                    /\ \A k \in DOMAIN Unread(n) : Unread(n)[k] \in DeliveredTo(n)
                    /\ Cardinality(Handed(n)) + Len(Unread(n)) + overflow[n] = Cardinality(DeliveredTo(n))
                    /\ \A j, k \in Handed(n) : j < k => Earlier(windows[n][j].frame, windows[n][k].frame)
                    /\ \A j \in Handed(n), k \in DOMAIN Unread(n) :
                          Earlier(windows[n][j].frame, Unread(n)[k])
                    /\ \A j, k \in DOMAIN Unread(n) : j < k => Earlier(Unread(n)[j], Unread(n)[k])
    BY DEF HandedOverInOrder
<1>1. RadioOK /\ Handing(n) /\ (ready[n] # 0 => ready[n] \in Received(n))
    BY DEF Inv, IInv, RadioInv, HandInv, AirInv, Given, Received, RadioOK
<1>2. Handed(n) = Numbered(n) /\ DeliveredTo(n) = Received(n)
    BY <1>1 DEF RadioOK, Handed, Numbered, DeliveredTo, Received, Delivered
<1>3. buffer[n] \in Seq(1 .. Len(transmissions)) /\ Len(buffer[n]) \in Nat
    BY <1>1, LenProperties DEF RadioOK
<1>4. CASE ready[n] = 0
    <2>1. Unread(n) = buffer[n] /\ DOMAIN Unread(n) = 1 .. Len(buffer[n])
        BY <1>3, <1>4, ConcatEmptySeq DEF Unread
    <2>2. Cardinality(Numbered(n)) + Len(buffer[n]) + overflow[n] = Cardinality(Received(n))
        BY <1>1, <1>4 DEF Handing
    <2> QED BY <1>1, <1>2, <2>1, <2>2 DEF Handing
<1>5. CASE ready[n] # 0
    <2>1. buffer[n] = <<>>
        BY <1>1, <1>5 DEF Handing
    <2>2. Unread(n) = <<ready[n]>>
        <3>1. <<ready[n]>> \in Seq(Nat)
            BY <1>1, Records DEF RadioOK
        <3> QED BY <1>5, <2>1, <3>1, ConcatEmptySeq DEF Unread
    <2>3. Len(Unread(n)) = 1 /\ DOMAIN Unread(n) = 1 .. 1 /\ Unread(n)[1] = ready[n]
        BY <2>2
    <2>4. Cardinality(Numbered(n)) + 1 + overflow[n] = Cardinality(Received(n))
        BY <1>1, <1>5 DEF Handing
    <2>5. \A k \in DOMAIN Unread(n) : k = 1
        BY <2>3
    <2> QED BY <1>1, <1>2, <1>5, <2>3, <2>4, <2>5 DEF Handing
<1> QED BY <1>4, <1>5

-----------------------------------------------------------------------------
(* Theorems *)

(* In every state of a run the scheduler and the radios are as above. *)
THEOREM WorldInvariance == Spec => []IInv
<1> QED BY InitIInv, NextIInv, PTL DEF Spec

(* Every variable keeps its type, only a node that is alive runs, and no   *)
(* buffer holds more than its slots.                                       *)
THEOREM TypeCorrect == Spec => []TypeOK
<1> QED BY WorldInvariance, IInvTypeOK, PTL

(* Time never passes a node that is due. *)
THEOREM NoOversleeping == Spec => []NobodyOversleeps
<1>1. IInv => NobodyOversleeps
    BY DEF IInv, WorldInv
<1> QED BY WorldInvariance, <1>1, PTL

(* A call of receive() returns at the instant its frame ends or its time is *)
(* over, whatever the other nodes do.                                       *)
THEOREM ReturnsOnTime == Spec => []ReturnsAtOnce
<1> QED BY WorldInvariance, IInvReturnsAtOnce, PTL

(* In every state of a run the air and the hands of the radios are as above. *)
THEOREM AirInvariance == Spec => []Inv
<1> QED BY InitInv, NextInv, PTL DEF Spec

(* What finishTransmission() decides when a frame ends stays right, for any *)
(* frames that are sent later and any that were on the air with it: the     *)
(* scan back that stops at kMaxAirtimeUs leaves nothing out.                *)
THEOREM OutcomesStand == Spec => []OutcomeFinal
<1>1. Inv => OutcomeFinal
    BY DEF Inv, AirInv
<1> QED BY AirInvariance, <1>1, PTL

(* A radio that listens in windows hears a frame exactly when one window    *)
(* covers it, also when both end at the same instant.                       *)
THEOREM WindowsTell == Spec => []WindowsDecide
<1>1. Inv => WindowsDecide
    BY DEF Inv, AirInv
<1> QED BY AirInvariance, <1>1, PTL

(* A frame that was delivered is handed over once and in the order in which *)
(* the frames ended, or is still to come, or the buffer overflowed for it.  *)
THEOREM HandedOver == Spec => []HandedOverInOrder
<1> QED BY AirInvariance, HandingInOrder, PTL
=============================================================================
