------------------------------ MODULE RollCall ------------------------------
(***************************************************************************)
(* RollCall: nodes on one broadcast medium give themselves addresses and   *)
(* names, announce them, resolve collisions and answer each other's        *)
(* queries.  There is no server: each node acts on what it happened to     *)
(* hear.                                                                   *)
(*                                                                         *)
(* A node is one thread of control.  call[n] says which call it is in:     *)
(*   "off"    powered down, or never started                               *)
(*   "idle"   outside RollCall: the application may call it                *)
(*   "hush"   in begin(), listening for a random time before it announces  *)
(*   "probe"  in begin(), listening for objections (COLLISION_LISTEN_MS)   *)
(*   "serve"  in processMessages()                                         *)
(*   "query"  in queryAndWait(), called by whoIs() or whereIs()            *)
(* left[n] is the number of ticks until that call gives up, due[n] the     *)
(* number of ticks to _nextAnnounceAt (0: overdue).                        *)
(*                                                                         *)
(* inbox[n] holds what the link below keeps for the node between its       *)
(* receive calls: a few frames, the newest of which the driver replaces    *)
(* when the next one arrives.                                              *)
(***************************************************************************)
EXTENDS PeerTable, Sequences

CONSTANTS
    Node,
    Configured,     \* per node: the name its application asks for
    Nonce,          \* values of the random nonce
    HushTimes,      \* ticks begin() listens before it announces
    ProbeTime,      \* COLLISION_LISTEN_MS
    SettleDelays,   \* to the announcement that follows begin()
    MoveDelays,     \* to the announcement of a changed identity
    NoticeDelays,   \* to an expedited announcement
    FirstPeriod,    \* PERIODIC_ANNOUNCE_INTERVAL_MS
    PeriodDelays,   \* the same with its jitter
    ServeTimes,     \* arguments of processMessages()
    AskedNames,     \* per node: names whoIs() is called with
    AskedIds,       \* per node: addresses whereIs() is called with
    QueryTimes,     \* the timeouts of both
    QuerySends,     \* QUERY_SENDS
    InboxSize,      \* frames the link and its driver keep unread
    Everyone,       \* the broadcast address
    SendTo,         \* per node: addresses its application sends payloads of its own to
    Payload,        \* these payloads
    MaxBoots        \* bound, per node: how often it runs begin()

ASSUME RollCallAssumption ==
    /\ IsFiniteSet(Node)
    /\ Configured \in [Node -> Name]
    /\ Nonce \subseteq Nat
    /\ HushTimes \subseteq Nat /\ ProbeTime \in Nat
    /\ SettleDelays \subseteq Nat \ {0} /\ MoveDelays \subseteq Nat \ {0}
    /\ NoticeDelays \subseteq Nat \ {0} /\ PeriodDelays \subseteq Nat \ {0}
    /\ FirstPeriod \in Nat \ {0}
    /\ ServeTimes \subseteq Nat /\ QueryTimes \subseteq Nat
    /\ QuerySends \in Nat \ {0} /\ InboxSize \in Nat \ {0}
    /\ AskedNames \in [Node -> SUBSET Name] /\ AskedIds \in [Node -> SUBSET NodeId]
    /\ Everyone \notin NodeId
    /\ SendTo \in [Node -> SUBSET (NodeId \cup {Everyone})]
    /\ MaxBoots \in [Node -> Nat]

VARIABLES
    book,       \* per node: _nodeName, _nodeId, _nameToId, _idToName
    nonce,      \* _nonce
    call,       \* the call the node is in
    left,       \* ticks until that call gives up
    due,        \* ticks to _nextAnnounceAt
    query,      \* the arguments of queryAndWait() and its count of transmissions
    inbox,      \* frames the node has not read
    boots,      \* history: how often begin() has run
    held        \* history: every <<name, id>> a node has gone by

vars == <<book, nonce, call, left, due, query, inbox, boots, held>>

-----------------------------------------------------------------------------
(* Messages *)

NoNonce == 0

Hello(b, k) == [kind |-> "helloIam", name |-> b.name, id |-> b.id, nonce |-> k]
Response(b) == [kind |-> "response", name |-> b.name, id |-> b.id, nonce |-> NoNonce]
Whois(x)    == [kind |-> "whois", name |-> x, id |-> Unknown, nonce |-> NoNonce]
Whereis(i)  == [kind |-> "whereis", name |-> Unknown, id |-> i, nonce |-> NoNonce]

(* What is not for RollCall: a payload for the data handler of some node. *)
Data(b, to, payload) == [kind |-> "data", from |-> b.id, to |-> to, payload |-> payload]

DataFrame ==
    [kind : {"data"}, from : NodeId, to : NodeId \cup {Everyone}, payload : Payload]

Message ==
    DataFrame
    \cup [kind : {"helloIam", "response"}, name : Name, id : NodeId, nonce : Nat]
    \cup [kind : {"whois"}, name : Name, id : {Unknown}, nonce : {NoNonce}]
    \cup [kind : {"whereis"}, name : {Unknown}, id : NodeId, nonce : {NoNonce}]

NoQuery == [msg |-> Whois(Unknown), timeout |-> 0, sends |-> 0]

Running(n) == call[n] # "off"
Calling(n) == call[n] \notin {"off", "idle"}

KeptUnbounded(frames, msg) == Append(frames, msg)    \* seeded fault

Kept(frames, msg) ==
    IF Len(frames) < InboxSize THEN Append(frames, msg)
    ELSE [frames EXCEPT ![Len(frames)] = msg]

(* A broadcast of node n is heard by any of the other running nodes. *)
Audience(n) == SUBSET {m \in Node \ {n} : Running(m)}

Broadcast(boxes, msg, hearers) ==
    [m \in Node |-> IF m \in hearers THEN Kept(boxes[m], msg) ELSE boxes[m]]

Taken(n) == [inbox EXCEPT ![n] = Tail(@)]

-----------------------------------------------------------------------------
(* Announcement times *)

Schedule(n, delays) == \E d \in delays : due' = [due EXCEPT ![n] = d]

(* expediteAnnouncement() only ever moves the announcement earlier. *)
Expedite(n) ==
    \E d \in NoticeDelays : due' = [due EXCEPT ![n] = IF d < @ THEN d ELSE @]

(* A listening node stops to announce itself, but not while a query waits, *)
(* and not when the listening ends at that very time.                      *)
AnnouncementDue(n) == call[n] \in {"hush", "probe", "serve"} /\ left[n] > 0 /\ due[n] = 0

-----------------------------------------------------------------------------
(* Collisions *)

Clashes(b, msg) == msg.name = b.name \/ msg.id = b.id

IsOwn(b, k, msg) == msg.name = b.name /\ msg.id = b.id /\ msg.nonce = k

GivesWayAlways(b, k, msg) == TRUE     \* seeded fault: both nodes rename, as version 1 did
GivesWayById(b, k, msg) == msg.id = b.id    \* seeded fault: a name collision is nobody's duty

(* The rule by which one of two colliding nodes has to move. *)
GivesWay(b, k, msg) ==
    \/ msg.name = b.name /\ msg.id = b.id /\ k > msg.nonce
    \/ msg.name # b.name /\ msg.id = b.id /\ b.name > msg.name
    \/ msg.name = b.name /\ msg.id # b.id /\ b.id > msg.id

(* The books of a node that moves: what collides is drawn anew, and the *)
(* node that stays is learned.                                          *)
Moved(b, msg) ==
    LET rehomed == IF msg.id = b.id THEN WithNewId(b) ELSE {b}
        renamed == IF msg.name = b.name THEN UNION {WithNewName(c) : c \in rehomed} ELSE rehomed
    IN  {Learn(c, msg.name, msg.id) : c \in renamed}

-----------------------------------------------------------------------------
Init ==
    /\ book = [n \in Node |-> Blank(Configured[n])]
    /\ nonce = [n \in Node |-> 0]
    /\ call = [n \in Node |-> "off"]
    /\ left = [n \in Node |-> 0]
    /\ due = [n \in Node |-> 0]
    /\ query = [n \in Node |-> NoQuery]
    /\ inbox = [n \in Node |-> <<>>]
    /\ boots = [n \in Node |-> 0]
    /\ held = {}

Enter(n, c, ticks) ==
    /\ call' = [call EXCEPT ![n] = c]
    /\ left' = [left EXCEPT ![n] = ticks]

Leave(n) ==
    /\ Enter(n, "idle", 0)
    /\ query' = [query EXCEPT ![n] = NoQuery]

(* Node n goes by the identity of b from now on. *)
Become(n, b) ==
    /\ book' = [book EXCEPT ![n] = b]
    /\ held' = held \cup {<<b.name, b.id>>}

-----------------------------------------------------------------------------
(* begin() *)

Begin(n) ==
    /\ call[n] \in {"off", "idle"}
    /\ boots[n] < MaxBoots[n]
    /\ \E i \in NodeId \ {book[n].id} :
          Become(n, RegisterSelf([Blank(book[n].name) EXCEPT !.id = i]))
    /\ \E k \in Nonce : nonce' = [nonce EXCEPT ![n] = k]
    /\ \E t \in HushTimes : Enter(n, "hush", t)
    /\ due' = [due EXCEPT ![n] = FirstPeriod]
    /\ boots' = [boots EXCEPT ![n] = @ + 1]
    /\ UNCHANGED <<query, inbox>>

(* The listening is over; the node announces itself, or cannot and begin() *)
(* returns FALSE with the node started.                                    *)
Introduce(n) ==
    /\ call[n] = "hush" /\ left[n] = 0
    /\ \E hearers \in Audience(n) :
          inbox' = Broadcast(inbox, Hello(book[n], nonce[n]), hearers)
    /\ Enter(n, "probe", ProbeTime)
    /\ UNCHANGED <<book, nonce, due, query, boots, held>>

IntroduceFails(n) ==
    /\ call[n] = "hush" /\ left[n] = 0
    /\ Leave(n)
    /\ UNCHANGED <<book, nonce, due, inbox, boots, held>>

Settle(n) ==
    /\ call[n] = "probe" /\ left[n] = 0
    /\ Schedule(n, SettleDelays)
    /\ Leave(n)
    /\ UNCHANGED <<book, nonce, inbox, boots, held>>

(* The node loses power: nothing of RollCall is kept anywhere. *)
PowerOff(n) ==
    /\ Running(n)
    /\ boots[n] < MaxBoots[n]
    /\ book' = [book EXCEPT ![n] = Blank(Configured[n])]
    /\ nonce' = [nonce EXCEPT ![n] = 0]
    /\ Enter(n, "off", 0)
    /\ due' = [due EXCEPT ![n] = 0]
    /\ query' = [query EXCEPT ![n] = NoQuery]
    /\ inbox' = [inbox EXCEPT ![n] = <<>>]
    /\ UNCHANGED <<boots, held>>

-----------------------------------------------------------------------------
(* processMessages() *)

(* The next announcement is scheduled first, so that a failing radio is not *)
(* tried again at once.                                                     *)
AnnounceIfDue(n, hearers) ==
    IF due[n] = 0
    THEN /\ hearers \in Audience(n)
         /\ Schedule(n, PeriodDelays)
         /\ inbox' = Broadcast(inbox, Hello(book[n], nonce[n]), hearers)
    ELSE hearers = {} /\ UNCHANGED <<due, inbox>>

Serve(n, hearers) ==
    /\ call[n] = "idle"
    /\ AnnounceIfDue(n, hearers)
    /\ \E t \in ServeTimes : Enter(n, "serve", t)
    /\ UNCHANGED <<book, nonce, query, boots, held>>

Announce(n, hearers) ==
    /\ AnnouncementDue(n)
    /\ AnnounceIfDue(n, hearers)
    /\ UNCHANGED <<book, nonce, call, left, query, boots, held>>

ServeTimeout(n) ==
    /\ call[n] = "serve" /\ left[n] = 0 /\ inbox[n] = <<>>
    /\ Leave(n)
    /\ UNCHANGED <<book, nonce, due, inbox, boots, held>>

Elapsed(n) == query[n].timeout - left[n]

ResendDue(n) ==
    /\ call[n] = "query" /\ left[n] > 0
    /\ query[n].sends < QuerySends
    /\ Elapsed(n) >= (query[n].timeout \div QuerySends) * query[n].sends

(* A frame is read by whichever call is receiving. *)
CanRead(n) ==
    /\ Calling(n) /\ inbox[n] # <<>>
    /\ ~AnnouncementDue(n) /\ ~ResendDue(n)
    /\ call[n] # "serve" => left[n] > 0

Answered(b, msg) ==
    IF msg.kind = "whois" THEN b.nameToId[msg.name] # Unknown ELSE b.idToName[msg.id] # Unknown

AfterFrameRestarting(n) ==  \* seeded fault: a query waits its full time again after each frame
    IF \/ call[n] = "serve"
       \/ call[n] = "query" /\ Answered(book'[n], query[n].msg)
    THEN Leave(n)
    ELSE /\ left' = [left EXCEPT ![n] = IF call[n] = "query" THEN query[n].timeout ELSE @]
         /\ UNCHANGED <<call, query>>

(* A handled frame ends processMessages(), and a query once its answer is known. *)
AfterFrame(n) ==
    IF \/ call[n] = "serve"
       \/ call[n] = "query" /\ Answered(book'[n], query[n].msg)
    THEN Leave(n)
    ELSE UNCHANGED <<call, left, query>>

-----------------------------------------------------------------------------
(* handleHelloIam() *)

HearHello(n) == CanRead(n) /\ Head(inbox[n]).kind = "helloIam" /\ inbox' = Taken(n)

(* Its own announcement, reflected back. *)
RecogniseSelf(n) ==
    /\ HearHello(n)
    /\ IsOwn(book[n], nonce[n], Head(inbox[n]))
    /\ UNCHANGED <<book, nonce, due, boots, held>>
    /\ AfterFrame(n)

GiveWay(n) ==
    /\ HearHello(n)
    /\ LET msg == Head(inbox[n])
       IN  /\ Clashes(book[n], msg) /\ ~IsOwn(book[n], nonce[n], msg)
           /\ GivesWay(book[n], nonce[n], msg)
           /\ \E b \in Moved(book[n], msg) : Become(n, b)
    /\ Schedule(n, MoveDelays)
    /\ UNCHANGED <<nonce, boots>>
    /\ AfterFrame(n)

(* The other node has to move: it should hear soon that it does. *)
StandFirm(n) ==
    /\ HearHello(n)
    /\ LET msg == Head(inbox[n])
       IN  /\ Clashes(book[n], msg) /\ ~IsOwn(book[n], nonce[n], msg)
           /\ ~GivesWay(book[n], nonce[n], msg)
    /\ Expedite(n)
    /\ UNCHANGED <<book, nonce, boots, held>>
    /\ AfterFrame(n)

(* A newcomer is answered before the next periodic announcement. *)
LearnPeer(n) ==
    /\ HearHello(n)
    /\ LET msg == Head(inbox[n])
       IN  /\ ~Clashes(book[n], msg)
           /\ book' = [book EXCEPT ![n] = Learn(@, msg.name, msg.id)]
           /\ IF book[n].nameToId[msg.name] = Unknown THEN Expedite(n) ELSE UNCHANGED due
    /\ UNCHANGED <<nonce, boots, held>>
    /\ AfterFrame(n)

-----------------------------------------------------------------------------
(* handleWhois(), handleWhereis(), handleResponse() *)

AnswersAsAsked(b, msg) ==   \* seeded fault: whoever hears a WHOIS claims the name
    IF msg.kind = "whois" THEN {[Response(b) EXCEPT !.name = msg.name]} ELSE {}

(* Only the owner of the name or address answers. *)
Answers(b, msg) ==
    IF \/ msg.kind = "whois" /\ msg.name = b.name
       \/ msg.kind = "whereis" /\ msg.id = b.id
    THEN {Response(b)} ELSE {}

HearQuery(n, hearers) ==
    /\ CanRead(n) /\ Head(inbox[n]).kind \in {"whois", "whereis"}
    /\ hearers \in Audience(n)
    /\ LET answers == Answers(book[n], Head(inbox[n]))
       IN  \/ \E msg \in answers : inbox' = Broadcast(Taken(n), msg, hearers)
           \/ answers = {} /\ hearers = {} /\ inbox' = Taken(n)
    /\ UNCHANGED <<book, nonce, due, boots, held>>
    /\ AfterFrame(n)

(* A response never starts a collision; a claim to the node's own name or *)
(* address is ignored by learn().                                         *)
HearResponse(n) ==
    /\ CanRead(n) /\ Head(inbox[n]).kind = "response"
    /\ inbox' = Taken(n)
    /\ LET msg == Head(inbox[n])
       IN  book' = [book EXCEPT ![n] = Learn(@, msg.name, msg.id)]
    /\ UNCHANGED <<nonce, due, boots, held>>
    /\ AfterFrame(n)

-----------------------------------------------------------------------------
(* Payloads of the application *)

IsFor(b, msg) == msg.to \in {b.id, Everyone}

(* The link passes over what is addressed to others ... *)
Overhear(n) ==
    /\ CanRead(n) /\ Head(inbox[n]).kind = "data"
    /\ ~IsFor(book[n], Head(inbox[n]))
    /\ inbox' = Taken(n)
    /\ UNCHANGED <<book, nonce, call, left, due, query, boots, held>>

(* ... and what is not for RollCall goes to the data handler, whichever call *)
(* is receiving.                                                             *)
HearData(n) ==
    /\ CanRead(n) /\ Head(inbox[n]).kind = "data"
    /\ IsFor(book[n], Head(inbox[n]))
    /\ inbox' = Taken(n)
    /\ UNCHANGED <<book, nonce, due, boots, held>>
    /\ AfterFrame(n)

SendData(n, to, payload, hearers) ==
    /\ call[n] = "idle"
    /\ hearers \in Audience(n)
    /\ inbox' = Broadcast(inbox, Data(book[n], to, payload), hearers)
    /\ UNCHANGED <<book, nonce, call, left, due, query, boots, held>>

-----------------------------------------------------------------------------
(* whoIs(), whereIs() *)

(* The answer is not known: the question goes out and the node listens.  If *)
(* it cannot be sent the call returns at once, with nothing changed.        *)
Ask(n, msg, hearers) ==
    /\ call[n] = "idle"
    /\ ~Answered(book[n], msg)
    /\ hearers \in Audience(n)
    /\ inbox' = Broadcast(inbox, msg, hearers)
    /\ \E t \in QueryTimes :
          /\ Enter(n, "query", t)
          /\ query' = [query EXCEPT ![n] = [msg |-> msg, timeout |-> t, sends |-> 1]]
    /\ UNCHANGED <<book, nonce, due, boots, held>>

AskAgain(n, hearers) ==
    /\ ResendDue(n)
    /\ hearers \in Audience(n)
    /\ inbox' = Broadcast(inbox, query[n].msg, hearers)
    /\ query' = [query EXCEPT ![n].sends = @ + 1]
    /\ UNCHANGED <<book, nonce, call, left, due, boots, held>>

QueryTimeout(n) ==
    /\ call[n] = "query" /\ left[n] = 0
    /\ Leave(n)
    /\ UNCHANGED <<book, nonce, due, inbox, boots, held>>

-----------------------------------------------------------------------------
(* Time.  A tick passes when every node is outside RollCall or waiting for *)
(* a frame: what the code does without waiting takes no time.              *)

Waiting(n) ==
    Calling(n) =>
        left[n] > 0 /\ inbox[n] = <<>> /\ ~AnnouncementDue(n) /\ ~ResendDue(n)

LessOne(t) == IF t > 0 THEN t - 1 ELSE 0

Tick ==
    /\ \A n \in Node : Waiting(n)
    /\ left' = [n \in Node |-> LessOne(left[n])]
    /\ due' = [n \in Node |-> LessOne(due[n])]
    /\ UNCHANGED <<book, nonce, call, query, inbox, boots, held>>

-----------------------------------------------------------------------------
Questions(n) == {Whois(x) : x \in AskedNames[n]} \cup {Whereis(i) : i \in AskedIds[n]}

ReadHello(n) == RecogniseSelf(n) \/ GiveWay(n) \/ StandFirm(n) \/ LearnPeer(n)

Handle(n) ==
    \/ ReadHello(n)
    \/ \E hearers \in SUBSET Node : HearQuery(n, hearers)
    \/ HearResponse(n)
    \/ Overhear(n)

Read(n) == Handle(n) \/ HearData(n)

Send(n) ==
    \E to \in SendTo[n], payload \in Payload, hearers \in SUBSET Node :
        SendData(n, to, payload, hearers)

Call(n) ==
    \/ Begin(n)
    \/ \E hearers \in SUBSET Node : Serve(n, hearers)
    \/ \E msg \in Questions(n), hearers \in SUBSET Node : Ask(n, msg, hearers)

Return(n) == IntroduceFails(n) \/ Settle(n) \/ ServeTimeout(n) \/ QueryTimeout(n)

Continue(n) ==
    \/ Introduce(n)
    \/ \E hearers \in SUBSET Node : Announce(n, hearers) \/ AskAgain(n, hearers)

Next ==
    \/ Tick
    \/ \E n \in Node : Call(n) \/ Read(n) \/ Continue(n) \/ Return(n) \/ PowerOff(n)

(* What the layer above may do with the node's link meanwhile. *)
Step == Next \/ \E n \in Node : Send(n)

Spec == Init /\ [][Step]_vars

(* A network that only settles: nodes start, announce themselves and move;   *)
(* nobody asks, sends payloads (a node that never stopped would fill every   *)
(* inbox) or loses power.                                                    *)
Settling ==
    \/ Tick
    \/ \E n \in Node :
          \/ Begin(n) \/ Introduce(n) \/ IntroduceFails(n) \/ Settle(n)
          \/ \E hearers \in SUBSET Node : Serve(n, hearers) \/ Announce(n, hearers)
          \/ ServeTimeout(n)
          \/ ReadHello(n)

(* Time passes, every node's thread runs on and its application calls        *)
(* processMessages() again and again.  Announcements go out at random times, *)
(* so that one made over and over is heard by each other node now and then.  *)
Runs(n) ==
    Read(n) \/ Continue(n) \/ Return(n) \/ \E hearers \in SUBSET Node : Serve(n, hearers)

AnnounceTo(n, m) ==
    \E hearers \in SUBSET Node : m \in hearers /\ (Announce(n, hearers) \/ Serve(n, hearers))

Fairness ==
    /\ SF_vars(Tick)
    /\ \A n \in Node : WF_vars(Runs(n))
    /\ \A n \in Node : \A m \in Node \ {n} : SF_vars(AnnounceTo(n, m))

FairSpec == Init /\ [][Settling]_vars /\ Fairness

-----------------------------------------------------------------------------
(* Properties *)

NodesOK ==
    /\ book \in [Node -> Book]
    /\ nonce \in [Node -> Nat]
    /\ \A n \in Node : Running(n) => book[n].id \in NodeId
    /\ boots \in [Node -> Nat]
    /\ held \subseteq Name \X NodeId

CallsOK ==
    /\ call \in [Node -> {"off", "idle", "hush", "probe", "serve", "query"}]
    /\ left \in [Node -> Nat]
    /\ due \in [Node -> Nat]
    /\ query \in [Node -> [msg : Message \cup {NoQuery.msg}, timeout : Nat, sends : Nat]]
    /\ \A n \in Node : call[n] = "query" => query[n].msg \in Questions(n)

InboxOK ==
    /\ inbox \in [Node -> Seq(Message)]
    /\ \A n \in Node : Len(inbox[n]) <= InboxSize

(* Every variable keeps its type, a running node has an address, and no    *)
(* more frames wait than the link and its driver hold.                     *)
TypeOK == NodesOK /\ CallsOK /\ InboxOK

(* _nameToId and _idToName are inverse to each other through every order   *)
(* of learning, moving and being renamed: whoIs() and whereIs() never      *)
(* contradict each other, and no stale half of an entry survives.          *)
TablesAgree == \A n \in Node : InverseMaps(book[n]) /\ OwnEntry(book[n])

(* The table never outgrows ROLLCALL_MAX_PEERS, although a node that moves *)
(* enters its new identity without looking for room.                       *)
TableFits == \A n \in Node : Cardinality(KnownNames(book[n])) <= MaxPeers

(* A table holds no pair of name and address that no node ever went by:    *)
(* collisions, moves and late answers never mix the halves of two          *)
(* identities, so what whoIs() returns was once true.                      *)
EntriesWereTrue ==
    \A n \in Node, x \in Name :
        book[n].nameToId[x] # Unknown => <<x, book[n].nameToId[x]>> \in held

(* Of nodes configured with one name somebody keeps it: "exactly one of    *)
(* them changes" (RollCall.h:23-24, CHANGELOG.md:90-91), never all.        *)
SomeoneKeepsName == \A n \in Node : \E m \in Node : book[m].name = Configured[n]

(* When that can be told of any number of nodes.  All have one name, or each *)
(* has its own; nobody begins twice, so that no announcement of an earlier   *)
(* life is on its way; and what suffixes make of a name comes after it in    *)
(* the order of names, as it does when the name leaves room for a suffix.    *)
NamesAlike == \A n, m \in Node : Configured[n] = Configured[m]
NamesApart == \A n, m \in Node : n # m => Configured[n] # Configured[m]

OneBoot == \A n \in Node : MaxBoots[n] <= 1

SuffixesIn(longer) ==
    /\ \A n \in Node : /\ Suffixed[Configured[n]] \subseteq longer
                       /\ \A x \in longer : x > Configured[n]
    /\ \A x \in longer : Suffixed[x] \subseteq longer

RoomForSuffix == \E longer \in SUBSET Name : SuffixesIn(longer)

(* Two nodes have found each other: neither shares name or address, and    *)
(* each has the other's true entry.                                        *)
Acquainted(n, m) ==
    /\ book[n].name # book[m].name /\ book[n].id # book[m].id
    /\ book[n].nameToId[book[m].name] = book[m].id

(* Running nodes that drew different nonces resolve every collision of     *)
(* names and addresses, and from then on know each other as they are.      *)
Converges ==
    <>[](\A n, m \in Node :
            n # m /\ Running(n) /\ Running(m) /\ nonce[n] # nonce[m] => Acquainted(n, m))

(* Every call returns, whatever is heard meanwhile and however often       *)
(* announcements and queries are repeated.                                 *)
CallsReturn == \A n \in Node : Calling(n) ~> ~Calling(n)
=============================================================================
