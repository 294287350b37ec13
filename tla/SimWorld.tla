------------------------------ MODULE SimWorld ------------------------------
(***************************************************************************)
(* The simulated world of tests/sim: node programs in virtual time, one    *)
(* running at a time, and the medium between their radios.  Each program   *)
(* is a thread; it hands over when a call of its radio or sleepMs()        *)
(* blocks, and the world resumes whoever wakes first.                      *)
(*                                                                         *)
(* A node is its program and its radio.  A frame is its index among the    *)
(* transmissions, and its length is its time on air.                       *)
(***************************************************************************)
EXTENDS Naturals, Sequences, FiniteSets

CONSTANTS
    Node,
    NoNode,
    Spawned,        \* per node: its place in the order of spawn()
    Delays,         \* startDelayMs of spawn()
    Continuous,     \* nodes whose radio keeps receiving between calls
    BufferSlots,    \* frames such a radio keeps
    Topologies,     \* sets of pairs of nodes that do not hear each other
    Setup,          \* _txSetupUs
    Slack,          \* how late a receiver may catch the preamble
    Airtimes,       \* per node: times on air of what it sends
    MaxAirtime,     \* kMaxAirtimeUs
    MaxLength,      \* per node: maxLength of its receive() calls
    Timeouts,       \* per node: their timeoutMs
    Sleeps,         \* per node: what it calls sleepMs() with
    Limit,          \* maxVirtualMs of run()
    MaxCalls        \* bound, per node: blocking calls and receptions

ASSUME SimWorldAssumption ==
    /\ NoNode \notin Node /\ IsFiniteSet(Node)
    /\ Spawned \in [Node -> Nat] /\ \A m, n \in Node : Spawned[m] = Spawned[n] => m = n
    /\ Delays \subseteq Nat /\ Continuous \subseteq Node /\ BufferSlots \in Nat \ {0}
    /\ Topologies \subseteq SUBSET SUBSET Node
    /\ Setup \in Nat /\ Limit \in Nat /\ MaxAirtime \in Nat
    /\ \A n \in Node : Airtimes[n] \subseteq {t \in 1 .. MaxAirtime : t > Slack}
    /\ Slack \in Nat
    /\ MaxLength \in [Node -> Nat] /\ MaxCalls \in [Node -> Nat]
    /\ Timeouts \in [Node -> SUBSET Nat] /\ Sleeps \in [Node -> SUBSET Nat]

VARIABLES
    apart,          \* _disconnected
    now,            \* _nowUs
    started,        \* run() was called
    stopping,       \* _stopping: the time is over
    running,        \* the node that may run
    alive,          \* the nodes whose programs have not finished
    wake, priority, \* per node: when it resumes, and its rank at that instant
    order,          \* per node: who of the same rank goes first
    orderCounter,
    doing,          \* per node: the call it is in
    listenStart,    \* _listenStartUs
    ready,          \* _rxPacket, 0 unless _rxReady
    buffer,         \* _buffer
    transmissions,  \* with the outcome per node, once it is over
    windows,        \* receive() calls that have returned
    overflow,       \* rxOverflow
    calls           \* how often each node has called

world == <<apart, started, stopping, now, running, alive, wake, priority, order, orderCounter>>
vars == <<apart, now, started, stopping, running, alive, wake, priority, order, orderCounter,
          doing, listenStart, ready, buffer, transmissions, windows, overflow, calls>>

-----------------------------------------------------------------------------
(* The scheduler *)

Listening(n) == doing[n] = "receive"

Before(n, m, at, rank, place) ==
    \/ at[n] < at[m]
    \/ at[n] = at[m] /\ rank[n] < rank[m]
    \/ at[n] = at[m] /\ rank[n] = rank[m] /\ place[n] <= place[m]

BestByOrder(nodes, at, rank, place) ==      \* seeded fault: whoever waits longest
    CHOOSE n \in nodes : \A m \in nodes : place[n] <= place[m]

Best(nodes, at, rank, place) ==
    CHOOSE n \in nodes : \A m \in nodes : Before(n, m, at, rank, place)

Later(s, t) == IF s < t THEN t ELSE s

(* scheduleNext(): time jumps to the next node, if the limit allows it. *)
ScheduleNext ==
    LET best == Best(alive', wake', priority', order')
    IN  CASE alive' = {} ->
                running' = NoNode /\ UNCHANGED <<now, stopping>>
          [] alive' # {} /\ wake'[best] > Limit ->
                running' = NoNode /\ stopping' = TRUE /\ UNCHANGED now
          [] OTHER ->
                running' = best /\ now' = Later(now, wake'[best]) /\ UNCHANGED stopping

BlockUntil(n, at, rank, call) ==
    /\ wake' = [wake EXCEPT ![n] = at]
    /\ priority' = [priority EXCEPT ![n] = rank]
    /\ order' = [order EXCEPT ![n] = orderCounter + 1]
    /\ orderCounter' = orderCounter + 1
    /\ doing' = [doing EXCEPT ![n] = call]
    /\ UNCHANGED alive
    /\ ScheduleNext

Init ==
    /\ apart \in Topologies
    /\ now = 0 /\ started = FALSE /\ stopping = FALSE /\ running = NoNode
    /\ alive = Node
    /\ order = Spawned /\ orderCounter = Cardinality(Node)
    /\ wake \in [Node -> Delays]
    /\ priority = [n \in Node |-> 1]
    /\ doing = [n \in Node |-> "program"]
    /\ listenStart = [n \in Node |-> 0]
    /\ ready = [n \in Node |-> 0]
    /\ buffer = [n \in Node |-> <<>>]
    /\ transmissions = <<>>
    /\ windows = [n \in Node |-> <<>>]
    /\ overflow = [n \in Node |-> 0]
    /\ calls = [n \in Node |-> 0]

radios == <<listenStart, ready, buffer, transmissions, windows, overflow>>

Run ==
    /\ ~started /\ started' = TRUE
    /\ UNCHANGED <<alive, wake, priority, order, orderCounter>>
    /\ ScheduleNext
    /\ UNCHANGED <<apart, doing, radios, calls>>

ExitSilently(n) ==       \* seeded fault: nobody is resumed
    /\ running = n /\ doing[n] = "program"
    /\ alive' = alive \ {n} /\ running' = NoNode
    /\ UNCHANGED <<apart, now, started, stopping, wake, priority, order, orderCounter, doing, radios,
                   calls>>

Exit(n) ==
    /\ running = n /\ doing[n] = "program"
    /\ alive' = alive \ {n}
    /\ UNCHANGED <<wake, priority, order, orderCounter>>
    /\ ScheduleNext
    /\ UNCHANGED <<apart, started, doing, radios, calls>>

(* SimStop unwinds a program that is blocked when the time is over. *)
Unwind(n) ==
    /\ stopping /\ n \in alive
    /\ alive' = alive \ {n}
    /\ doing' = [doing EXCEPT ![n] = "program"]
    /\ UNCHANGED <<apart, now, started, stopping, running, wake, priority, order,
                   orderCounter, radios, calls>>

MayCall(n) ==
    /\ running = n /\ doing[n] = "program" /\ calls[n] < MaxCalls[n]
    /\ calls' = [calls EXCEPT ![n] = @ + 1]

SleepMs(n, ms) ==
    /\ MayCall(n)
    /\ BlockUntil(n, now + ms, 1, "program")
    /\ UNCHANGED <<apart, started, radios>>

-----------------------------------------------------------------------------
(* The medium *)

Connected(m, n) == {m, n} \notin apart

RecentByStart(from) ==      \* seeded fault: a long frame is forgotten while it lasts
    {i \in DOMAIN transmissions : transmissions[i].start >= from}

(* Going back through the transmissions ends at one too old to matter. *)
Recent(from) ==
    {i \in DOMAIN transmissions :
        \A j \in i .. Len(transmissions) : transmissions[j].start + MaxAirtime >= from}

(* A radio is busy from the call of send() until the last symbol has left. *)
Occupies(t, n, from, to) == t.src = n /\ t.start < to + Setup /\ t.end > from

WasTransmitting(n, from, to) ==
    \E i \in Recent(from) : Occupies(transmissions[i], n, from, to)

Overlaps(i, j, n) ==
    LET t == transmissions[i]
        other == transmissions[j]
    IN  /\ i # j /\ other.src # n /\ Connected(other.src, n)
        /\ other.start < t.end /\ other.end > t.start

OverlapsOther(i, n) == \E j \in Recent(transmissions[i].start) : Overlaps(i, j, n)

Heard(i, n) ==
    LET t == transmissions[i]
    IN  IF n \in Continuous THEN ~WasTransmitting(n, t.start, t.end)
        ELSE Listening(n) /\ ready[n] = 0 /\ listenStart[n] <= t.start + Slack

Outcome(i, n, lost) ==
    IF n = transmissions[i].src \/ ~Connected(transmissions[i].src, n) THEN "-"
    ELSE IF ~Heard(i, n) THEN "M"
    ELSE IF OverlapsOther(i, n) THEN "C"
    ELSE IF n \in lost THEN "L"
    ELSE "D"

Waiters(delivered) == {n \in delivered : Listening(n) /\ ready[n] = 0}

NoWakeUp(delivered) == UNCHANGED <<wake, priority>>     \* seeded fault

WakeUp(delivered) ==
    /\ wake' = [n \in Node |-> IF n \in Waiters(delivered) THEN now ELSE wake[n]]
    /\ priority' = [n \in Node |-> IF n \in Waiters(delivered) THEN 0 ELSE priority[n]]

Full(n) == Len(buffer[n]) >= BufferSlots

Kept(n, i) == Append(IF Full(n) THEN Tail(buffer[n]) ELSE buffer[n], i)

(* Loss, and the delivery filter, may take any reception that was good. *)
FinishTransmission(i) ==
    \E lost \in SUBSET Node :
        LET outcome == [n \in Node |-> Outcome(i, n, lost)]
            delivered == {n \in Node : outcome[n] = "D"}
            kept == delivered \ Waiters(delivered)
        IN  /\ \A n \in lost : outcome[n] = "L"
            /\ transmissions' = [transmissions EXCEPT ![i].outcome = outcome]
            /\ ready' = [n \in Node |-> IF n \in Waiters(delivered) THEN i ELSE ready[n]]
            /\ WakeUp(delivered)
            /\ buffer' = [n \in Node |-> IF n \in kept THEN Kept(n, i) ELSE buffer[n]]
            /\ overflow' = [n \in Node |->
                    IF n \in kept /\ Full(n) THEN overflow[n] + 1 ELSE overflow[n]]

-----------------------------------------------------------------------------
(* SimRadio *)

Pending == [n \in Node |-> "?"]

SendLowPriority(n, air) ==      \* seeded fault: a timeout at the same instant goes first
    /\ MayCall(n)
    /\ transmissions' = Append(transmissions,
            [src |-> n, start |-> now + Setup, end |-> now + Setup + air, outcome |-> Pending])
    /\ BlockUntil(n, now + Setup + air, 1, "send")
    /\ UNCHANGED <<apart, started, listenStart, ready, buffer, windows, overflow>>

Send(n, air) ==
    /\ MayCall(n)
    /\ transmissions' = Append(transmissions,
            [src |-> n, start |-> now + Setup, end |-> now + Setup + air, outcome |-> Pending])
    /\ BlockUntil(n, now + Setup + air, 0, "send")
    /\ UNCHANGED <<apart, started, listenStart, ready, buffer, windows, overflow>>

SendReturns(n) ==
    /\ running = n /\ doing[n] = "send"
    /\ \E i \in DOMAIN transmissions :
          /\ transmissions[i].src = n /\ transmissions[i].outcome = Pending
          /\ FinishTransmission(i)
    /\ doing' = [doing EXCEPT ![n] = "program"]
    /\ UNCHANGED <<apart, now, started, stopping, running, alive, order, orderCounter,
                   listenStart, windows, calls>>

HasBuffered(n) == n \in Continuous /\ buffer[n] # <<>>

Receive(n, timeout) ==
    /\ MayCall(n) /\ ~HasBuffered(n)
    /\ listenStart' = [listenStart EXCEPT ![n] = now]
    /\ ready' = [ready EXCEPT ![n] = 0]
    /\ BlockUntil(n, now + timeout, 1, "receive")
    /\ windows' = [windows EXCEPT ![n] =
            Append(@, [start |-> now, until |-> now + timeout, end |-> now, frame |-> 0, fits |-> FALSE, open |-> TRUE])]
    /\ UNCHANGED <<apart, started, buffer, transmissions, overflow>>

(* What is too large for the caller is dropped. *)
Fits(n, i) == i # 0 /\ transmissions[i].end - transmissions[i].start <= MaxLength[n]

ReceiveReturns(n) ==
    /\ running = n /\ Listening(n)
    /\ doing' = [doing EXCEPT ![n] = "program"]
    /\ windows' = [windows EXCEPT ![n][Len(windows[n])] =
            [@ EXCEPT !.end = now, !.frame = ready[n], !.fits = Fits(n, ready[n]), !.open = FALSE]]
    /\ ready' = [ready EXCEPT ![n] = 0]
    /\ UNCHANGED <<world, listenStart, buffer, transmissions, overflow, calls>>

ReceiveNewest(n) ==     \* seeded fault: the latest frame first
    /\ MayCall(n) /\ HasBuffered(n)
    /\ LET i == buffer[n][Len(buffer[n])]
       IN  windows' = [windows EXCEPT ![n] =
                Append(@, [start |-> now, until |-> now, end |-> now, frame |-> i, fits |-> Fits(n, i), open |-> FALSE])]
    /\ buffer' = [buffer EXCEPT ![n] = SubSeq(@, 1, Len(@) - 1)]
    /\ UNCHANGED <<world, doing, listenStart, ready, transmissions, overflow>>

ReceiveBuffered(n) ==
    /\ MayCall(n) /\ HasBuffered(n)
    /\ LET i == Head(buffer[n])
       IN  windows' = [windows EXCEPT ![n] =
                Append(@, [start |-> now, until |-> now, end |-> now, frame |-> i, fits |-> Fits(n, i), open |-> FALSE])]
    /\ buffer' = [buffer EXCEPT ![n] = Tail(@)]
    /\ UNCHANGED <<world, doing, listenStart, ready, transmissions, overflow>>

Next ==
    \/ Run
    \/ \E n \in Node :
          \/ Exit(n) \/ Unwind(n) \/ SendReturns(n) \/ ReceiveReturns(n) \/ ReceiveBuffered(n)
          \/ \E air \in Airtimes[n] : Send(n, air)
          \/ \E timeout \in Timeouts[n] : Receive(n, timeout)
          \/ \E ms \in Sleeps[n] : SleepMs(n, ms)

Spec == Init /\ [][Next]_vars

(* The operating system runs the one thread that may run, and the threads *)
(* that the end of the time has released.                                 *)
FairSpec == Spec /\ WF_vars(Next)

-----------------------------------------------------------------------------
(* Properties *)

Transmission ==
    [src : Node, start : Nat, end : Nat, outcome : [Node -> {"?", "-", "M", "C", "L", "D"}]]

Window == [start : Nat, until : Nat, end : Nat, frame : Nat, fits : BOOLEAN, open : BOOLEAN]

(* Every variable keeps its type, nobody runs before run() or after its    *)
(* end, and a buffer never holds more than it has slots for.               *)
TypeOK ==
    /\ apart \in Topologies
    /\ now \in 0 .. Limit /\ started \in BOOLEAN /\ stopping \in BOOLEAN
    /\ running \in Node \cup {NoNode}
    /\ alive \subseteq Node
    /\ running # NoNode => started /\ ~stopping /\ running \in alive
    /\ wake \in [Node -> Nat] /\ priority \in [Node -> {0, 1}]
    /\ order \in [Node -> Nat] /\ orderCounter \in Nat
    /\ doing \in [Node -> {"program", "send", "receive"}]
    /\ listenStart \in [Node -> Nat] /\ overflow \in [Node -> Nat] /\ calls \in [Node -> Nat]
    /\ transmissions \in Seq(Transmission)
    /\ ready \in [Node -> 0 .. Len(transmissions)]
    /\ buffer \in [Node -> Seq(DOMAIN transmissions)]
    /\ \A n \in Node : Len(buffer[n]) <= BufferSlots
    /\ windows \in [Node -> Seq(Window)]

(* The clock never passes a node that is due: no sleep, timeout or frame is *)
(* late, however the nodes block (SimRadio.cpp:91-121).                     *)
NobodyOversleeps ==
    started /\ ~stopping => \A n \in alive \ {running} : wake[n] >= now

Over(t) == t.outcome # Pending
Audible(t, n) == t.src # n /\ Connected(t.src, n)

(* What finishTransmission() decides when a frame ends stands, whatever is  *)
(* sent later and however far back a frame began that it met on the air.    *)
OutcomeFinal ==
    \A i \in DOMAIN transmissions : LET t == transmissions[i] IN
        \A n \in Node : Over(t) /\ Audible(t, n) =>
            /\ n \in Continuous =>
                  (t.outcome[n] = "M" <=> \E j \in DOMAIN transmissions :
                                              Occupies(transmissions[j], n, t.start, t.end))
            /\ t.outcome[n] # "M" =>
                  (t.outcome[n] = "C" <=> \E j \in DOMAIN transmissions : Overlaps(i, j, n))

Covers(w, t) == w.start <= t.start + Slack /\ (w.open \/ w.end >= t.end)

(* A radio that listens in windows hears a frame exactly when one window    *)
(* covers it from the preamble to its last symbol, also when the window and *)
(* the frame end at the same instant (SimRadio.cpp:214, SimRadio.cpp:289).  *)
WindowsDecide ==
    ~stopping =>
        \A i \in DOMAIN transmissions : LET t == transmissions[i] IN
            \A n \in Node \ Continuous : Over(t) /\ Audible(t, n) =>
                (t.outcome[n] # "M" <=> \E k \in DOMAIN windows[n] : Covers(windows[n][k], t))

(* receive() returns at the instant a frame it waits for ends, at once with *)
(* one that is waiting, and otherwise when its time is over.                *)
ReturnsAtOnce ==
    \A n \in Node : \A k \in DOMAIN windows[n] : LET w == windows[n][k] IN
        ~w.open => w.end = IF w.frame = 0 THEN w.until
                           ELSE Later(w.start, transmissions[w.frame].end)

Handed(n) == {k \in DOMAIN windows[n] : windows[n][k].frame # 0}
Unread(n) == (IF ready[n] = 0 THEN <<>> ELSE <<ready[n]>>) \o buffer[n]
DeliveredTo(n) == {i \in DOMAIN transmissions : transmissions[i].outcome[n] = "D"}
Earlier(i, j) == transmissions[i].end < transmissions[j].end

(* A frame that was delivered is handed over once, in the order in which    *)
(* the frames ended, or is still to come, unless the buffer overflowed.     *)
HandedOverInOrder ==
    \A n \in Node :
        LET got == windows[n]
            next == Unread(n)
        IN  /\ \A k \in Handed(n) : got[k].frame \in DeliveredTo(n)
            /\ \A k \in DOMAIN next : next[k] \in DeliveredTo(n)
            /\ Cardinality(Handed(n)) + Len(next) + overflow[n] = Cardinality(DeliveredTo(n))
            /\ \A j, k \in Handed(n) : j < k => Earlier(got[j].frame, got[k].frame)
            /\ \A j \in Handed(n), k \in DOMAIN next : Earlier(got[j].frame, next[k])
            /\ \A j, k \in DOMAIN next : j < k => Earlier(next[j], next[k])

(* Every run ends: somebody runs until all programs have returned or the   *)
(* time is over, and then every program that is blocked is unwound.        *)
RunEnds == <>[](started /\ alive = {})
=============================================================================
