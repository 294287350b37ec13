--------------------------- MODULE RollCallProofs ---------------------------
(***************************************************************************)
(* For any number of nodes, names, addresses and frames, and whatever the  *)
(* timing: every variable of RollCall keeps its type, the two maps of each *)
(* node stay inverse and within their limit, and no table ever holds an    *)
(* identity that no node went by.                                          *)
(*                                                                         *)
(* The invariant has to speak of the frames under way: a table entry is    *)
(* true because the announcement it was learned from was, and that was     *)
(* true because a node announces nothing but what it is called at that     *)
(* time, which the history variable held remembers.                        *)
(*                                                                         *)
(* A second invariant is about who keeps a name that several nodes share:  *)
(* the one that began with the smallest address and nonce.                 *)
(***************************************************************************)
EXTENDS RollCall, FiniteSetTheorems, SequenceTheorems, TLAPS

(***************************************************************************)
(* What the operations on one node's book preserve: the two maps stay      *)
(* inverse, the node's own entry stays, no entry is made up, and the table *)
(* does not outgrow its limit.                                             *)
(***************************************************************************)

(* A book in order. *)
GoodBook(tables) == tables \in Book /\ InverseMaps(tables) /\ OwnEntry(tables)

(* Every entry of new is one of old, or says that x is at i. *)
AddsOnly(new, old, x, i) ==
    \A y \in Name : new.nameToId[y] # Unknown =>
        new.nameToId[y] = old.nameToId[y] \/ (y = x /\ new.nameToId[y] = i)

(* An empty table is in order. *)
LEMMA BlankGood ==
    ASSUME NEW x \in Name
    PROVE  /\ GoodBook(Blank(x))
           /\ KnownNames(Blank(x)) = {}
BY PeerTableAssumption DEF GoodBook, Book, InverseMaps, OwnEntry, Blank, KnownNames, Unknown

(* begin() leaves the node's own entry and nothing else. *)
LEMMA FirstEntryGood ==
    ASSUME NEW x \in Name, NEW i \in NodeId,
           NEW b, b = RegisterSelf([Blank(x) EXCEPT !.id = i])
    PROVE  /\ GoodBook(b) /\ b.name = x /\ b.id = i
           /\ AddsOnly(b, Blank(x), x, i)
           /\ KnownNames(b) = {x}
<1> USE DEF Unknown
<1>1. b = [name |-> x, id |-> i,
           nameToId |-> [y \in Name |-> IF y = x THEN i ELSE Unknown],
           idToName |-> [j \in NodeId |-> IF j = i THEN x ELSE Unknown]]
  BY DEF RegisterSelf, Blank
<1>2. b \in Book /\ b.name = x /\ b.id = i
  BY <1>1 DEF Book
<1>3. InverseMaps(b) /\ OwnEntry(b)
  BY <1>1, PeerTableAssumption DEF InverseMaps, OwnEntry
<1>4. AddsOnly(b, Blank(x), x, i) /\ KnownNames(b) = {x}
  BY <1>1, PeerTableAssumption DEF AddsOnly, KnownNames, Blank
<1> QED BY <1>2, <1>3, <1>4 DEF GoodBook

(* changeId() moves the node's own entry to the new address. *)
LEMMA NewIdGood ==
    ASSUME NEW b, GoodBook(b), b.id \in NodeId, NEW c \in WithNewId(b)
    PROVE  /\ GoodBook(c) /\ c.name = b.name /\ c.id \in NodeId
           /\ AddsOnly(c, b, c.name, c.id)
           /\ KnownNames(c) = KnownNames(b)
<1> USE DEF Unknown
<1> b \in Book
  BY DEF GoodBook
<1>1. PICK i \in FreshIds(b) : c = RegisterSelf([WithoutSelf(b) EXCEPT !.id = i])
  BY DEF WithNewId
<1>2. i \in NodeId /\ i # b.id /\ b.idToName[i] = Unknown
  BY <1>1 DEF FreshIds
<1>3. c = [name |-> b.name, id |-> i,
           nameToId |-> [y \in Name |-> IF y = b.name THEN i ELSE b.nameToId[y]],
           idToName |-> [j \in NodeId |-> IF j = i THEN b.name
                                          ELSE IF j = b.id THEN Unknown ELSE b.idToName[j]]]
  BY <1>1, <1>2 DEF RegisterSelf, WithoutSelf, Book
<1>4. c \in Book /\ c.name = b.name /\ c.id = i
  BY <1>2, <1>3 DEF Book
<1>5. b.nameToId[b.name] = b.id /\ b.idToName[b.id] = b.name
  BY PeerTableAssumption DEF GoodBook, OwnEntry, InverseMaps, Book
<1>6. InverseMaps(c)
  <2> SUFFICES ASSUME NEW x \in Name, NEW j \in NodeId
               PROVE  c.nameToId[x] = j <=> c.idToName[j] = x
    BY DEF InverseMaps
  <2>1. b.nameToId[x] = j <=> b.idToName[j] = x
    BY DEF GoodBook, InverseMaps
  <2>2. b.nameToId[x] # i
    BY <1>2, PeerTableAssumption DEF GoodBook, InverseMaps
  <2> QED BY <1>2, <1>3, <1>5, <2>1, <2>2, PeerTableAssumption DEF Book
<1>7. OwnEntry(c)
  BY <1>3 DEF OwnEntry, Book
<1>8. AddsOnly(c, b, c.name, c.id)
  BY <1>3 DEF AddsOnly
<1>9. KnownNames(c) = KnownNames(b)
  BY <1>2, <1>3, <1>5, PeerTableAssumption DEF KnownNames
<1> QED BY <1>2, <1>4, <1>6, <1>7, <1>8, <1>9 DEF GoodBook

(* changeName() moves the node's own entry to the new name. *)
LEMMA NewNameGood ==
    ASSUME NEW b, GoodBook(b), b.id \in NodeId, NEW c \in WithNewName(b)
    PROVE  /\ GoodBook(c) /\ c.id = b.id
           /\ AddsOnly(c, b, c.name, c.id)
           /\ c.name # b.name => c.nameToId[b.name] = Unknown
           /\ KnownNames(c) = (KnownNames(b) \ {b.name}) \cup {c.name}
<1> USE DEF Unknown
<1> b \in Book
  BY DEF GoodBook
<1>1. PICK x \in FreshNames(b) : c = RegisterSelf([WithoutSelf(b) EXCEPT !.name = x])
  BY DEF WithNewName
<1>2. x \in Name /\ (x = b.name \/ b.nameToId[x] = Unknown)
  BY <1>1, PeerTableAssumption DEF FreshNames, Book
<1>3. c = [name |-> x, id |-> b.id,
           nameToId |-> [y \in Name |-> IF y = x THEN b.id
                                        ELSE IF y = b.name THEN Unknown ELSE b.nameToId[y]],
           idToName |-> [j \in NodeId |-> IF j = b.id THEN x ELSE b.idToName[j]]]
  BY <1>1, <1>2 DEF RegisterSelf, WithoutSelf, Book
<1>4. c \in Book /\ c.name = x /\ c.id = b.id
  BY <1>2, <1>3 DEF Book
<1>5. b.nameToId[b.name] = b.id /\ b.idToName[b.id] = b.name
  BY PeerTableAssumption DEF GoodBook, OwnEntry, InverseMaps, Book
<1>6. InverseMaps(c)
  <2> SUFFICES ASSUME NEW y \in Name, NEW j \in NodeId
               PROVE  c.nameToId[y] = j <=> c.idToName[j] = y
    BY DEF InverseMaps
  <2>1. b.nameToId[y] = j <=> b.idToName[j] = y
    BY DEF GoodBook, InverseMaps
  <2>2. b.nameToId[x] = j <=> b.idToName[j] = x
    BY <1>2 DEF GoodBook, InverseMaps
  <2>3. b.nameToId[b.name] = j <=> b.idToName[j] = b.name
    BY DEF GoodBook, InverseMaps, Book
  <2>4. b.nameToId[y] = b.id <=> b.idToName[b.id] = y
    BY DEF GoodBook, InverseMaps
  <2> QED BY <1>2, <1>3, <1>5, <2>1, <2>2, <2>3, <2>4, PeerTableAssumption DEF Book
<1>7. OwnEntry(c)
  BY <1>2, <1>3 DEF OwnEntry
<1>8. AddsOnly(c, b, c.name, c.id)
  BY <1>3 DEF AddsOnly
<1>9. KnownNames(c) = (KnownNames(b) \ {b.name}) \cup {c.name}
  BY <1>2, <1>3, <1>5, PeerTableAssumption DEF KnownNames
<1>10. c.name # b.name => c.nameToId[b.name] = Unknown
  BY <1>3 DEF Book
<1> QED BY <1>4, <1>6, <1>7, <1>8, <1>9, <1>10 DEF GoodBook

(* learn() keeps a book in order, whatever stale entries it replaces, and  *)
(* enters at most the one pair it was told.                                *)
LEMMA LearnGood ==
    ASSUME NEW b, GoodBook(b), NEW x \in Name, NEW i \in NodeId
    PROVE  /\ GoodBook(Learn(b, x, i))
           /\ Learn(b, x, i).name = b.name /\ Learn(b, x, i).id = b.id
           /\ AddsOnly(Learn(b, x, i), b, x, i)
           /\ \/ KnownNames(Learn(b, x, i)) \subseteq KnownNames(b)
              \/ HasRoom(b) /\ KnownNames(Learn(b, x, i)) \subseteq KnownNames(b) \cup {x}
<1> USE DEF Unknown
<1> DEFINE c == Learn(b, x, i)
<1> b \in Book
  BY DEF GoodBook
<1>1. CASE IgnoresPeer(b, x, i)
  BY <1>1 DEF Learn, AddsOnly
<1>2. CASE ~IgnoresPeer(b, x, i)
  <2>1. x # b.name /\ i # b.id /\ b.nameToId[x] # i
        /\ (b.nameToId[x] # Unknown \/ HasRoom(b))
    BY <1>2 DEF IgnoresPeer
  <2>2. c = [name |-> b.name, id |-> b.id,
             nameToId |-> [y \in Name |-> IF y = x THEN i
                             ELSE IF y = b.idToName[i] THEN Unknown ELSE b.nameToId[y]],
             idToName |-> [j \in NodeId |-> IF j = i THEN x
                             ELSE IF j = b.nameToId[x] THEN Unknown ELSE b.idToName[j]]]
    BY <1>2 DEF Learn, Book
  <2>3. c \in Book
    BY <2>2 DEF Book
  <2>4. InverseMaps(c)
    <3> SUFFICES ASSUME NEW y \in Name, NEW j \in NodeId
                 PROVE  c.nameToId[y] = j <=> c.idToName[j] = y
      BY DEF InverseMaps
    <3>1. b.nameToId[y] = j <=> b.idToName[j] = y
      BY DEF GoodBook, InverseMaps
    <3>2. b.nameToId[y] = i <=> b.idToName[i] = y
      BY DEF GoodBook, InverseMaps
    <3>3. b.nameToId[x] = j <=> b.idToName[j] = x
      BY DEF GoodBook, InverseMaps
    <3> QED BY <2>1, <2>2, <3>1, <3>2, <3>3, PeerTableAssumption DEF Book
  <2>5. OwnEntry(c)
    <3>1. b.id # Unknown => b.id \in NodeId /\ b.nameToId[b.name] = b.id
      BY DEF GoodBook, OwnEntry, Book
    <3>2. b.id # Unknown => b.name # b.idToName[i]
      BY <2>1, <3>1 DEF GoodBook, InverseMaps, Book
    <3> QED BY <2>1, <2>2, <3>1, <3>2 DEF OwnEntry, Book
  <2>6. AddsOnly(c, b, x, i)
    BY <2>2 DEF AddsOnly
  <2>7. KnownNames(c) \subseteq KnownNames(b) \cup {x}
    BY <2>2 DEF KnownNames
  <2>8. b.nameToId[x] # Unknown => x \in KnownNames(b)
    BY DEF KnownNames
  <2> QED BY <2>1, <2>2, <2>3, <2>4, <2>5, <2>6, <2>7, <2>8 DEF GoodBook
<1> QED BY <1>1, <1>2

-----------------------------------------------------------------------------
(* The number of entries *)

Fits(b) == Cardinality(KnownNames(b)) <= MaxPeers

LEMMA KnownNamesFinite ==
    ASSUME NEW b
    PROVE  IsFiniteSet(KnownNames(b)) /\ Cardinality(KnownNames(b)) \in Nat
<1>1. KnownNames(b) \subseteq Name
  BY DEF KnownNames
<1> QED BY <1>1, PeerTableAssumption, FS_Subset, FS_CardinalityType

LEMMA AddedElement ==
    ASSUME NEW S, NEW x, IsFiniteSet(S)
    PROVE  /\ IsFiniteSet(S \cup {x})
           /\ Cardinality(S) \in Nat /\ Cardinality(S \cup {x}) \in Nat
           /\ Cardinality(S \cup {x}) <= Cardinality(S) + 1
<1>1. IsFiniteSet(S \cup {x})
      /\ (Cardinality(S \cup {x}) = Cardinality(S) \/ Cardinality(S \cup {x}) = Cardinality(S) + 1)
  <2>1. CASE x \in S
    <3>1. S \cup {x} = S
      BY <2>1
    <3> QED BY <3>1
  <2>2. CASE x \notin S
    BY <2>2, FS_AddElement
  <2> QED BY <2>1, <2>2
<1>2. Cardinality(S) \in Nat
  BY FS_CardinalityType
<1> QED BY <1>1, <1>2

(* begin() starts with one entry, changeId() and changeName() replace the  *)
(* node's own, and learn() looks for room before it adds one.              *)
LEMMA LearnFits ==
    ASSUME NEW b, GoodBook(b), Fits(b), NEW x \in Name, NEW i \in NodeId
    PROVE  Fits(Learn(b, x, i))
<1> DEFINE c == Learn(b, x, i)
<1>1. IsFiniteSet(KnownNames(b)) /\ Cardinality(KnownNames(b)) \in Nat
  BY KnownNamesFinite
<1>2. CASE KnownNames(c) \subseteq KnownNames(b)
  BY <1>1, <1>2, FS_Subset, FS_CardinalityType, PeerTableAssumption DEF Fits
<1>3. CASE HasRoom(b) /\ KnownNames(c) \subseteq KnownNames(b) \cup {x}
  <2>1. IsFiniteSet(KnownNames(b) \cup {x})
        /\ Cardinality(KnownNames(b) \cup {x}) <= Cardinality(KnownNames(b)) + 1
    BY <1>1, AddedElement
  <2>2. Cardinality(KnownNames(c)) <= Cardinality(KnownNames(b) \cup {x})
    BY <1>3, <2>1, FS_Subset
  <2>3. Cardinality(KnownNames(b)) < MaxPeers
    BY <1>3 DEF HasRoom
  <2>4. Cardinality(KnownNames(c)) \in Nat /\ Cardinality(KnownNames(b) \cup {x}) \in Nat
    BY <2>1, KnownNamesFinite, FS_CardinalityType
  <2> QED BY <1>1, <2>1, <2>2, <2>3, <2>4, PeerTableAssumption DEF Fits
<1> QED BY <1>2, <1>3, LearnGood

LEMMA NewIdFits ==
    ASSUME NEW b, GoodBook(b), b.id \in NodeId, Fits(b), NEW c \in WithNewId(b)
    PROVE  Fits(c)
BY NewIdGood DEF Fits

LEMMA NewNameFits ==
    ASSUME NEW b, GoodBook(b), b.id \in NodeId, Fits(b), NEW c \in WithNewName(b)
    PROVE  Fits(c)
<1> DEFINE K == KnownNames(b)
<1>1. IsFiniteSet(K) /\ Cardinality(K) \in Nat
  BY KnownNamesFinite
<1>2. b.name \in K
  BY PeerTableAssumption DEF GoodBook, OwnEntry, KnownNames, Book, Unknown
<1>3. IsFiniteSet(K \ {b.name}) /\ Cardinality(K \ {b.name}) = Cardinality(K) - 1
  BY <1>1, <1>2, FS_RemoveElement
<1>4. Cardinality((K \ {b.name}) \cup {c.name}) <= Cardinality(K)
  <2> DEFINE R == K \ {b.name}
  <2> HIDE DEF R, K
  <2>1. IsFiniteSet(R) /\ Cardinality(R) = Cardinality(K) - 1
    BY <1>3 DEF R
  <2>2. Cardinality(R \cup {c.name}) <= Cardinality(R) + 1
        /\ Cardinality(R) \in Nat /\ Cardinality(R \cup {c.name}) \in Nat
    BY <2>1, AddedElement
  <2>3. Cardinality(R \cup {c.name}) <= Cardinality(K)
    BY <1>1, <2>1, <2>2
  <2> QED BY <2>3 DEF R
<1>5. KnownNames(c) = (K \ {b.name}) \cup {c.name}
  BY NewNameGood
<1>6. Cardinality(KnownNames(c)) \in Nat
  BY KnownNamesFinite
<1> QED BY <1>1, <1>4, <1>5, <1>6, PeerTableAssumption DEF Fits

-----------------------------------------------------------------------------

(* The messages that claim an identity some node has gone by. *)
TrueMessages(h) ==
    {msg \in Message : msg.kind \in {"helloIam", "response"} => <<msg.name, msg.id>> \in h}

BooksInv ==
    /\ book \in [Node -> Book]
    /\ \A n \in Node : GoodBook(book[n]) /\ Fits(book[n])
    /\ \A n \in Node : Running(n) => book[n].id \in NodeId

HeldInv ==
    /\ held \subseteq Name \X NodeId
    /\ EntriesWereTrue
    /\ \A n \in Node : Running(n) => <<book[n].name, book[n].id>> \in held

InboxInv ==
    /\ inbox \in [Node -> Seq(TrueMessages(held))]
    /\ \A n \in Node : Len(inbox[n]) <= InboxSize

ClockInv ==
    /\ nonce \in [Node -> Nat] /\ due \in [Node -> Nat] /\ boots \in [Node -> Nat]

CallInv ==
    /\ call \in [Node -> {"off", "idle", "hush", "probe", "serve", "query"}]
    /\ left \in [Node -> Nat]
    /\ query \in [Node -> [msg : Message \cup {NoQuery.msg}, timeout : Nat, sends : Nat]]
    /\ \A n \in Node : call[n] = "query" => query[n].msg \in Questions(n)

IInv == BooksInv /\ HeldInv /\ InboxInv /\ ClockInv /\ CallInv

LEMMA IInvTypeOK == IInv => TypeOK
<1> SUFFICES ASSUME IInv PROVE TypeOK
  OBVIOUS
<1>1. NodesOK /\ CallsOK
  BY DEF IInv, BooksInv, HeldInv, ClockInv, CallInv, NodesOK, CallsOK
<1>2. TrueMessages(held) \subseteq Message
  BY DEF TrueMessages
<1>3. InboxOK
  <2>1. \A n \in Node : inbox[n] \in Seq(Message)
    BY <1>2, SeqDef DEF IInv, InboxInv
  <2> QED BY <2>1 DEF IInv, InboxInv, InboxOK
<1> QED BY <1>1, <1>3 DEF TypeOK

LEMMA IInvTables == IInv => TablesAgree /\ TableFits /\ EntriesWereTrue
BY DEF IInv, BooksInv, HeldInv, TablesAgree, TableFits, GoodBook, Fits

-----------------------------------------------------------------------------
(* Frames *)

(* A frame that is kept joins the others or replaces the newest. *)
LEMMA KeptType ==
    ASSUME NEW S, NEW frames \in Seq(S), Len(frames) <= InboxSize, NEW msg \in S
    PROVE  Kept(frames, msg) \in Seq(S) /\ Len(Kept(frames, msg)) <= InboxSize
<1>1. CASE Len(frames) < InboxSize
  BY <1>1, RollCallAssumption DEF Kept
<1>2. CASE ~(Len(frames) < InboxSize)
  <2>1. Len(frames) \in Nat \ {0}
    BY <1>2, RollCallAssumption
  <2>2. Kept(frames, msg) = [frames EXCEPT ![Len(frames)] = msg]
    BY <1>2 DEF Kept
  <2> QED BY <2>1, <2>2
<1> QED BY <1>1, <1>2

LEMMA BroadcastType ==
    ASSUME NEW S, NEW boxes \in [Node -> Seq(S)], NEW msg \in S, NEW hearers,
           \A n \in Node : Len(boxes[n]) <= InboxSize
    PROVE  /\ Broadcast(boxes, msg, hearers) \in [Node -> Seq(S)]
           /\ \A n \in Node : Len(Broadcast(boxes, msg, hearers)[n]) <= InboxSize
<1>1. \A n \in Node : Kept(boxes[n], msg) \in Seq(S) /\ Len(Kept(boxes[n], msg)) <= InboxSize
  BY KeptType
<1> QED BY <1>1 DEF Broadcast

LEMMA TakenType ==
    ASSUME NEW n \in Node, InboxInv, inbox[n] # <<>>
    PROVE  /\ Head(inbox[n]) \in TrueMessages(held)
           /\ Taken(n) \in [Node -> Seq(TrueMessages(held))]
           /\ \A m \in Node : Len(Taken(n)[m]) <= InboxSize
<1>1. inbox[n] \in Seq(TrueMessages(held)) /\ inbox \in [Node -> Seq(TrueMessages(held))]
      /\ \A m \in Node : Len(inbox[m]) <= InboxSize
  BY DEF InboxInv
<1>2. /\ Head(inbox[n]) \in TrueMessages(held)
      /\ Tail(inbox[n]) \in Seq(TrueMessages(held))
      /\ Len(Tail(inbox[n])) = Len(inbox[n]) - 1
      /\ Len(inbox[n]) \in Nat
  BY <1>1
<1>3. Len(Tail(inbox[n])) <= InboxSize
  BY <1>1, <1>2, RollCallAssumption
<1> QED BY <1>1, <1>2, <1>3 DEF Taken

(* More identities on record leave every message as true as it was. *)
LEMMA HeldGrows ==
    ASSUME NEW h, NEW boxes \in [Node -> Seq(TrueMessages(held))], held \subseteq h
    PROVE  boxes \in [Node -> Seq(TrueMessages(h))]
<1>1. TrueMessages(held) \subseteq TrueMessages(h)
  BY DEF TrueMessages
<1>2. \A n \in Node : boxes[n] \in Seq(TrueMessages(h))
  BY <1>1, SeqDef
<1> QED BY <1>2

(* What a node says of itself is true. *)
LEMMA OwnMessages ==
    ASSUME BooksInv, HeldInv, ClockInv, NEW n \in Node, Running(n)
    PROVE  /\ Hello(book[n], nonce[n]) \in TrueMessages(held)
           /\ Response(book[n]) \in TrueMessages(held)
<1>1. book[n].name \in Name /\ book[n].id \in NodeId /\ nonce[n] \in Nat
      /\ <<book[n].name, book[n].id>> \in held
  BY DEF BooksInv, HeldInv, ClockInv, Book
<1> QED BY <1>1 DEF Hello, Response, TrueMessages, Message, DataFrame, NoNonce

(* A payload claims nothing but the address of its sender. *)
LEMMA DataTrue ==
    ASSUME BooksInv, NEW n \in Node, Running(n),
           NEW to \in NodeId \cup {Everyone}, NEW payload \in Payload
    PROVE  Data(book[n], to, payload) \in TrueMessages(held)
<1>1. book[n].id \in NodeId
  BY DEF BooksInv
<1> QED BY <1>1 DEF Data, TrueMessages, Message, DataFrame

(* A question claims nothing. *)
LEMMA QuestionsTrue ==
    ASSUME NEW n \in Node, NEW msg \in Questions(n)
    PROVE  msg \in TrueMessages(held) /\ msg \in Message
BY RollCallAssumption DEF Questions, Whois, Whereis, TrueMessages, Message, DataFrame

-----------------------------------------------------------------------------
(* Moving *)

(* A node that moves keeps its book in order; each entry it then has is an *)
(* old one, its own, or the identity it gave way to.                       *)
LEMMA MovedGood ==
    ASSUME NEW b, GoodBook(b), b.id \in NodeId, Fits(b),
           NEW msg, msg.name \in Name, msg.id \in NodeId,
           NEW c \in Moved(b, msg)
    PROVE  /\ GoodBook(c) /\ Fits(c) /\ c.id \in NodeId
           /\ \A y \in Name : c.nameToId[y] # Unknown =>
                 \/ c.nameToId[y] = b.nameToId[y]
                 \/ y = c.name /\ c.nameToId[y] = c.id
                 \/ y = msg.name /\ c.nameToId[y] = msg.id
<1> DEFINE rehomed == IF msg.id = b.id THEN WithNewId(b) ELSE {b}
<1> DEFINE renamed == IF msg.name = b.name THEN UNION {WithNewName(d) : d \in rehomed} ELSE rehomed
<1>1. PICK r \in renamed : c = Learn(r, msg.name, msg.id)
  BY DEF Moved
<1>2. \A d \in rehomed :
         /\ GoodBook(d) /\ Fits(d) /\ d.id \in NodeId /\ d.name = b.name
         /\ \A y \in Name : d.nameToId[y] # Unknown => d.nameToId[y] = b.nameToId[y] \/ y = b.name
  <2> TAKE d \in rehomed
  <2>1. CASE msg.id = b.id
    <3>1. d \in WithNewId(b)
      BY <2>1
    <3> QED BY <3>1, NewIdGood, NewIdFits DEF AddsOnly
  <2>2. CASE msg.id # b.id
    BY <2>2
  <2> QED BY <2>1, <2>2
<1>3. /\ GoodBook(r) /\ Fits(r) /\ r.id \in NodeId
      /\ \A y \in Name : r.nameToId[y] # Unknown =>
            r.nameToId[y] = b.nameToId[y] \/ (y = r.name /\ r.nameToId[y] = r.id)
  <2>1. CASE msg.name = b.name
    <3>1. PICK d \in rehomed : r \in WithNewName(d)
      BY <2>1
    <3>2. GoodBook(d) /\ Fits(d) /\ d.id \in NodeId /\ d.name = b.name
      BY <1>2
    <3>3. /\ GoodBook(r) /\ r.id = d.id /\ AddsOnly(r, d, r.name, r.id)
          /\ r.name # d.name => r.nameToId[d.name] = Unknown
      BY <3>1, <3>2, NewNameGood
    <3>4. Fits(r)
      BY <3>1, <3>2, NewNameFits
    <3>5. r.id # Unknown /\ r.nameToId[r.name] = r.id
      BY <3>2, <3>3, PeerTableAssumption DEF GoodBook, OwnEntry
    <3> QED BY <1>2, <3>2, <3>3, <3>4, <3>5 DEF AddsOnly
  <2>2. CASE msg.name # b.name
    <3>1. r \in rehomed
      BY <2>2
    <3>2. r.id # Unknown /\ r.nameToId[r.name] = r.id
      BY <1>2, <3>1, PeerTableAssumption DEF GoodBook, OwnEntry
    <3> QED BY <1>2, <3>1, <3>2
  <2> QED BY <2>1, <2>2
<1>4. GoodBook(c) /\ c.name = r.name /\ c.id = r.id /\ AddsOnly(c, r, msg.name, msg.id)
  BY <1>1, <1>3, LearnGood
<1>5. Fits(c)
  BY <1>1, <1>3, LearnFits
<1> QED BY <1>3, <1>4, <1>5 DEF AddsOnly

-----------------------------------------------------------------------------
(* What the parts of the invariant need of a step *)

(* A step that leaves the books and the record alone. *)
LEMMA SameBooks ==
    ASSUME BooksInv, HeldInv, UNCHANGED <<book, held>>,
           \A m \in Node : Running(m)' => Running(m)
    PROVE  BooksInv' /\ HeldInv'
<1>1. BooksInv'
  BY DEF BooksInv
<1>2. HeldInv'
  BY DEF HeldInv, EntriesWereTrue
<1> QED BY <1>1, <1>2

(* A node exchanges its book for one in order, and goes by it. *)
LEMMA NewBook ==
    ASSUME BooksInv, HeldInv, NEW n \in Node, NEW b, Become(n, b),
           GoodBook(b), Fits(b), b.id \in NodeId,
           \A y \in Name : b.nameToId[y] # Unknown =>
              <<y, b.nameToId[y]>> \in held \cup {<<b.name, b.id>>},
           \A m \in Node \ {n} : Running(m)' => Running(m)
    PROVE  BooksInv' /\ HeldInv' /\ held \subseteq held'
<1>1. /\ book' = [book EXCEPT ![n] = b] /\ held' = held \cup {<<b.name, b.id>>}
      /\ book \in [Node -> Book] /\ b \in Book /\ b.name \in Name
  BY DEF Become, BooksInv, GoodBook, Book
<1>2. book'[n] = b /\ \A m \in Node \ {n} : book'[m] = book[m]
  BY <1>1
<1>3. BooksInv'
  <2>1. book' \in [Node -> Book]
    BY <1>1
  <2>2. \A m \in Node : GoodBook(book'[m]) /\ Fits(book'[m])
    BY <1>2 DEF BooksInv
  <2>3. \A m \in Node : Running(m)' => book'[m].id \in NodeId
    BY <1>2 DEF BooksInv
  <2> QED BY <2>1, <2>2, <2>3 DEF BooksInv
<1>4. HeldInv'
  <2>1. held' \subseteq Name \X NodeId
    BY <1>1 DEF HeldInv
  <2>2. EntriesWereTrue'
    BY <1>1, <1>2 DEF HeldInv, EntriesWereTrue
  <2>3. \A m \in Node : Running(m)' => <<book'[m].name, book'[m].id>> \in held'
    BY <1>1, <1>2 DEF HeldInv
  <2> QED BY <2>1, <2>2, <2>3 DEF HeldInv
<1> QED BY <1>1, <1>3, <1>4

(* A node learns an identity that was true. *)
LEMMA LearnedBook ==
    ASSUME BooksInv, HeldInv, NEW n \in Node, NEW x \in Name, NEW i \in NodeId,
           <<x, i>> \in held, Running(n),
           book' = [book EXCEPT ![n] = Learn(@, x, i)], UNCHANGED held,
           \A m \in Node : Running(m)' => Running(m)
    PROVE  BooksInv' /\ HeldInv'
<1> DEFINE b == Learn(book[n], x, i)
<1>1. GoodBook(book[n]) /\ Fits(book[n]) /\ book[n].id \in NodeId
  BY DEF BooksInv
<1>2. /\ GoodBook(b) /\ b.name = book[n].name /\ b.id = book[n].id
      /\ AddsOnly(b, book[n], x, i)
  BY <1>1, LearnGood
<1>3. Fits(b)
  BY <1>1, LearnFits
<1>4. <<b.name, b.id>> \in held
  BY <1>2 DEF HeldInv
<1>5. Become(n, b)
  BY <1>4 DEF Become
<1>6. \A y \in Name : b.nameToId[y] # Unknown => <<y, b.nameToId[y]>> \in held
  BY <1>2 DEF AddsOnly, HeldInv, EntriesWereTrue
<1> HIDE DEF b
<1> QED BY <1>1, <1>2, <1>3, <1>5, <1>6, NewBook

(* A frame goes on the air. *)
LEMMA SentInbox ==
    ASSUME InboxInv, NEW boxes \in [Node -> Seq(TrueMessages(held))],
           \A m \in Node : Len(boxes[m]) <= InboxSize,
           NEW msg \in TrueMessages(held), NEW hearers,
           inbox' = Broadcast(boxes, msg, hearers), UNCHANGED held
    PROVE  InboxInv'
<1>1. /\ inbox' \in [Node -> Seq(TrueMessages(held))]
      /\ \A m \in Node : Len(inbox'[m]) <= InboxSize
  BY BroadcastType
<1>2. TrueMessages(held)' = TrueMessages(held)
  BY DEF TrueMessages
<1> QED BY <1>1, <1>2 DEF InboxInv

LEMMA SameInbox ==
    ASSUME InboxInv, UNCHANGED inbox, held \subseteq held'
    PROVE  InboxInv'
<1>1. inbox' \in [Node -> Seq(TrueMessages(held'))]
  BY HeldGrows DEF InboxInv
<1> QED BY <1>1 DEF InboxInv, TrueMessages

LEMMA ReadInbox ==
    ASSUME InboxInv, NEW n \in Node, inbox[n] # <<>>, inbox' = Taken(n), held \subseteq held'
    PROVE  InboxInv'
<1>1. Taken(n) \in [Node -> Seq(TrueMessages(held))]
      /\ \A m \in Node : Len(Taken(n)[m]) <= InboxSize
  BY TakenType
<1>2. Taken(n) \in [Node -> Seq(TrueMessages(held'))]
  BY <1>1, HeldGrows
<1> QED BY <1>1, <1>2 DEF InboxInv, TrueMessages

(* A node enters a call, or leaves it. *)
LEMMA EnterCall ==
    ASSUME CallInv, NEW n \in Node, NEW c \in {"off", "idle", "hush", "probe", "serve"},
           NEW t \in Nat, Enter(n, c, t),
           query' = query \/ query' = [query EXCEPT ![n] = NoQuery]
    PROVE  /\ CallInv'
           /\ \A m \in Node \ {n} : Running(m)' <=> Running(m)
           /\ Running(n)' <=> c # "off"
<1>1. NoQuery \in [msg : Message \cup {NoQuery.msg}, timeout : Nat, sends : Nat]
  BY DEF NoQuery
<1>2. /\ call' = [call EXCEPT ![n] = c] /\ left' = [left EXCEPT ![n] = t]
      /\ call \in [Node -> {"off", "idle", "hush", "probe", "serve", "query"}]
      /\ left \in [Node -> Nat]
      /\ query \in [Node -> [msg : Message \cup {NoQuery.msg}, timeout : Nat, sends : Nat]]
  BY DEF Enter, CallInv
<1>3. query' \in [Node -> [msg : Message \cup {NoQuery.msg}, timeout : Nat, sends : Nat]]
  BY <1>1, <1>2
<1>4. \A m \in Node : call'[m] = "query" => query'[m].msg \in Questions(m)
  BY <1>2 DEF CallInv
<1>5. /\ \A m \in Node \ {n} : Running(m)' <=> Running(m)
      /\ Running(n)' <=> c # "off"
  BY <1>2 DEF Running
<1>6. call' \in [Node -> {"off", "idle", "hush", "probe", "serve", "query"}]
      /\ left' \in [Node -> Nat]
  BY <1>2
<1>7. CallInv'
  BY <1>3, <1>4, <1>6, Zenon DEF CallInv
<1> QED BY <1>5, <1>7

LEMMA LeaveCall ==
    ASSUME CallInv, NEW n \in Node, Leave(n), Running(n)
    PROVE  CallInv' /\ \A m \in Node : Running(m)' <=> Running(m)
BY EnterCall, 0 \in Nat DEF Leave

LEMMA SameCall ==
    ASSUME CallInv, UNCHANGED <<call, left, query>>
    PROVE  CallInv' /\ \A m \in Node : Running(m)' <=> Running(m)
BY DEF CallInv, Running

LEMMA CallAfterFrame ==
    ASSUME CallInv, NEW n \in Node, AfterFrame(n), Running(n)
    PROVE  CallInv' /\ \A m \in Node : Running(m)' <=> Running(m)
BY LeaveCall, SameCall DEF AfterFrame

LEMMA NewClocks ==
    ASSUME ClockInv, NEW n \in Node,
           \/ due' = due
           \/ \E d \in Nat : due' = [due EXCEPT ![n] = d],
           UNCHANGED <<nonce, boots>>
    PROVE  ClockInv'
BY DEF ClockInv

LEMMA SchedulesNat ==
    ASSUME ClockInv, NEW n \in Node, NEW delays \in SUBSET Nat,
           Schedule(n, delays) \/ Expedite(n)
    PROVE  \E d \in Nat : due' = [due EXCEPT ![n] = d]
<1>1. CASE Schedule(n, delays)
  BY <1>1 DEF Schedule
<1>2. CASE Expedite(n)
  <2>1. PICK d \in NoticeDelays : due' = [due EXCEPT ![n] = IF d < @ THEN d ELSE @]
    BY <1>2 DEF Expedite
  <2>2. d \in Nat /\ due[n] \in Nat
    BY RollCallAssumption DEF ClockInv
  <2> QED BY <2>1, <2>2
<1> QED BY <1>1, <1>2

LEMMA Scheduled ==
    ASSUME ClockInv, NEW n \in Node, NEW delays \in SUBSET Nat,
           Schedule(n, delays) \/ Expedite(n), UNCHANGED <<nonce, boots>>
    PROVE  ClockInv'
BY SchedulesNat, NewClocks

(* announceIfDue() sends what is true, or nothing. *)
LEMMA Announced ==
    ASSUME BooksInv, HeldInv, InboxInv, ClockInv, NEW n \in Node, Running(n), NEW hearers,
           AnnounceIfDue(n, hearers), UNCHANGED <<nonce, boots, held>>
    PROVE  InboxInv' /\ ClockInv'
<1>1. CASE due[n] = 0
  <2>1. /\ Schedule(n, PeriodDelays)
        /\ inbox' = Broadcast(inbox, Hello(book[n], nonce[n]), hearers)
    BY <1>1 DEF AnnounceIfDue
  <2>2. InboxInv'
    BY <2>1, OwnMessages, SentInbox DEF InboxInv
  <2>3. ClockInv'
    BY <2>1, Scheduled, RollCallAssumption
  <2> QED BY <2>2, <2>3
<1>2. CASE due[n] # 0
  BY <1>2, SameInbox DEF AnnounceIfDue, ClockInv
<1> QED BY <1>1, <1>2

-----------------------------------------------------------------------------
(* The invariant *)

LEMMA InitIInv == Init => IInv
<1> SUFFICES ASSUME Init PROVE IInv
  OBVIOUS
<1>1. \A n \in Node : Configured[n] \in Name
  BY RollCallAssumption
<1>2. \A n \in Node : book[n] = Blank(Configured[n]) /\ ~Running(n)
  BY DEF Init, Running
<1>3. \A n \in Node : GoodBook(book[n]) /\ KnownNames(book[n]) = {}
  BY <1>1, <1>2, BlankGood
<1>4. BooksInv
  <2>1. Cardinality({}) = 0
    BY FS_EmptySet
  <2>2. \A n \in Node : Fits(book[n])
    BY <1>3, <2>1, PeerTableAssumption DEF Fits
  <2>3. book \in [Node -> Book]
    BY <1>3 DEF Init, GoodBook
  <2> QED BY <1>2, <1>3, <2>2, <2>3 DEF BooksInv
<1>5. HeldInv
  <2>1. EntriesWereTrue
    BY <1>3 DEF EntriesWereTrue, KnownNames
  <2> QED BY <1>2, <2>1 DEF HeldInv, Init
<1>6. InboxInv
  <2>1. \A n \in Node : inbox[n] = <<>>
    BY DEF Init
  <2>2. <<>> \in Seq(TrueMessages(held)) /\ Len(<<>>) = 0
    OBVIOUS
  <2>3. inbox \in [Node -> Seq(TrueMessages(held))]
    BY <2>1, <2>2 DEF Init
  <2> QED BY <2>1, <2>2, <2>3, RollCallAssumption DEF InboxInv
<1>7. ClockInv
  BY DEF Init, ClockInv
<1>8. CallInv
  BY DEF Init, CallInv, NoQuery
<1> QED BY <1>4, <1>5, <1>6, <1>7, <1>8 DEF IInv

LEMMA BeginKeepsIInv ==
    ASSUME IInv, NEW n \in Node, Begin(n)
    PROVE  IInv'
<1>1. BooksInv /\ HeldInv /\ InboxInv /\ ClockInv /\ CallInv
  BY DEF IInv
<1>2. PICK i \in NodeId \ {book[n].id} :
         Become(n, RegisterSelf([Blank(book[n].name) EXCEPT !.id = i]))
  BY DEF Begin
<1> DEFINE b == RegisterSelf([Blank(book[n].name) EXCEPT !.id = i])
<1>3. book[n].name \in Name
  BY <1>1 DEF BooksInv, Book
<1>4. /\ GoodBook(b) /\ b.name = book[n].name /\ b.id = i
      /\ AddsOnly(b, Blank(book[n].name), book[n].name, i) /\ KnownNames(b) = {book[n].name}
  BY <1>3, FirstEntryGood
<1>5. Fits(b)
  <2>1. Cardinality({book[n].name}) = 1
    BY FS_Singleton
  <2> HIDE DEF b
  <2> QED BY <1>4, <2>1, PeerTableAssumption DEF Fits
<1>6. \A y \in Name : b.nameToId[y] # Unknown => <<y, b.nameToId[y]>> = <<b.name, b.id>>
  BY <1>4 DEF AddsOnly, Blank
<1>7. PICK t \in HushTimes : Enter(n, "hush", t)
  BY DEF Begin
<1>8. CallInv' /\ \A m \in Node \ {n} : Running(m)' <=> Running(m)
  BY <1>1, <1>7, EnterCall, RollCallAssumption DEF Begin
<1>9. BooksInv' /\ HeldInv' /\ held \subseteq held'
  <2> HIDE DEF b
  <2>1. Become(n, b)
    BY <1>2 DEF b
  <2> QED BY <1>1, <1>4, <1>5, <1>6, <1>8, <2>1, NewBook
<1>10. InboxInv'
  BY <1>1, <1>9, SameInbox DEF Begin
<1>11. ClockInv'
  <2>1. PICK k \in Nonce : nonce' = [nonce EXCEPT ![n] = k]
    BY DEF Begin
  <2> QED BY <1>1, <2>1, RollCallAssumption DEF Begin, ClockInv
<1> QED BY <1>8, <1>9, <1>10, <1>11 DEF IInv

LEMMA PowerOffKeepsIInv ==
    ASSUME IInv, NEW n \in Node, PowerOff(n)
    PROVE  IInv'
<1>1. BooksInv /\ HeldInv /\ InboxInv /\ ClockInv /\ CallInv
  BY DEF IInv
<1>2. CallInv' /\ (\A m \in Node \ {n} : Running(m)' <=> Running(m)) /\ ~Running(n)'
  BY <1>1, EnterCall, 0 \in Nat DEF PowerOff
<1>3. /\ GoodBook(Blank(Configured[n])) /\ KnownNames(Blank(Configured[n])) = {}
  BY BlankGood, RollCallAssumption
<1>4. book'[n] = Blank(Configured[n]) /\ \A m \in Node \ {n} : book'[m] = book[m]
  BY <1>1 DEF PowerOff, BooksInv
<1>5. BooksInv'
  <2>1. Fits(book'[n])
    BY <1>3, <1>4, FS_EmptySet, PeerTableAssumption DEF Fits
  <2>2. book' \in [Node -> Book]
    BY <1>1, <1>3 DEF PowerOff, BooksInv, GoodBook
  <2>3. \A m \in Node : GoodBook(book'[m]) /\ Fits(book'[m])
    BY <1>1, <1>3, <1>4, <2>1 DEF BooksInv
  <2> QED BY <1>1, <1>2, <1>4, <2>2, <2>3 DEF BooksInv
<1>6. HeldInv'
  <2>1. EntriesWereTrue'
    BY <1>1, <1>3, <1>4 DEF PowerOff, HeldInv, EntriesWereTrue, KnownNames
  <2> QED BY <1>1, <1>2, <1>4, <2>1 DEF PowerOff, HeldInv
<1>7. InboxInv'
  <2>1. <<>> \in Seq(TrueMessages(held)) /\ Len(<<>>) = 0
    OBVIOUS
  <2>2. TrueMessages(held)' = TrueMessages(held)
    BY DEF PowerOff, TrueMessages
  <2> QED BY <1>1, <2>1, <2>2, RollCallAssumption DEF PowerOff, InboxInv
<1>8. ClockInv'
  BY <1>1 DEF PowerOff, ClockInv
<1> QED BY <1>2, <1>5, <1>6, <1>7, <1>8 DEF IInv

LEMMA GiveWayKeepsIInv ==
    ASSUME IInv, NEW n \in Node, GiveWay(n)
    PROVE  IInv'
<1>1. BooksInv /\ HeldInv /\ InboxInv /\ ClockInv /\ CallInv
  BY DEF IInv
<1> DEFINE msg == Head(inbox[n])
<1>2. Running(n) /\ inbox[n] # <<>> /\ msg.kind = "helloIam" /\ inbox' = Taken(n)
  BY DEF GiveWay, HearHello, CanRead, Calling, Running
<1>3. PICK b \in Moved(book[n], msg) : Become(n, b)
  BY DEF GiveWay
<1>4. msg \in TrueMessages(held)
  BY <1>1, <1>2, TakenType
<1>5. msg.name \in Name /\ msg.id \in NodeId /\ <<msg.name, msg.id>> \in held
  BY <1>2, <1>4 DEF TrueMessages, Message, DataFrame
<1>6. GoodBook(book[n]) /\ Fits(book[n]) /\ book[n].id \in NodeId
  BY <1>1, <1>2 DEF BooksInv
<1>7. /\ GoodBook(b) /\ Fits(b) /\ b.id \in NodeId
      /\ \A y \in Name : b.nameToId[y] # Unknown =>
            \/ b.nameToId[y] = book[n].nameToId[y]
            \/ y = b.name /\ b.nameToId[y] = b.id
            \/ y = msg.name /\ b.nameToId[y] = msg.id
  <2> HIDE DEF msg
  <2> QED BY <1>3, <1>5, <1>6, MovedGood
<1>8. CallInv' /\ \A m \in Node : Running(m)' <=> Running(m)
  BY <1>1, <1>2, CallAfterFrame DEF GiveWay
<1>9. \A y \in Name : b.nameToId[y] # Unknown =>
         <<y, b.nameToId[y]>> \in held \cup {<<b.name, b.id>>}
  BY <1>1, <1>5, <1>7 DEF HeldInv, EntriesWereTrue
<1>10. BooksInv' /\ HeldInv' /\ held \subseteq held'
  BY <1>1, <1>3, <1>7, <1>8, <1>9, NewBook
<1>11. InboxInv'
  BY <1>1, <1>2, <1>10, ReadInbox
<1>12. ClockInv'
  BY <1>1, Scheduled, RollCallAssumption DEF GiveWay
<1> QED BY <1>8, <1>10, <1>11, <1>12 DEF IInv

(* Whatever else a node reads leaves its identity alone. *)
LEMMA ReadKeepsIInv ==
    ASSUME IInv, NEW n \in Node, Read(n)
    PROVE  IInv'
<1> USE DEF IInv
<1> DEFINE msg == Head(inbox[n])
<1>1. /\ Running(n) /\ inbox[n] # <<>>
      /\ AfterFrame(n) \/ UNCHANGED <<call, left, query>>
  BY DEF Read, Handle, ReadHello, RecogniseSelf, GiveWay, StandFirm, LearnPeer, HearHello,
         HearQuery, HearResponse, Overhear, HearData, CanRead, Calling, Running
<1>2. CallInv' /\ \A m \in Node : Running(m)' <=> Running(m)
  BY <1>1, CallAfterFrame, SameCall
<1>3. /\ msg \in TrueMessages(held) /\ Taken(n) \in [Node -> Seq(TrueMessages(held))]
      /\ \A m \in Node : Len(Taken(n)[m]) <= InboxSize
  BY <1>1, TakenType
<1>4. CASE RecogniseSelf(n)
  <2>1. inbox' = Taken(n) /\ UNCHANGED <<book, nonce, due, boots, held>>
    BY <1>4 DEF RecogniseSelf, HearHello
  <2>2. BooksInv' /\ HeldInv'
    BY <1>2, <2>1, SameBooks
  <2>3. InboxInv'
    BY <1>1, <2>1, ReadInbox
  <2>4. ClockInv'
    BY <2>1 DEF ClockInv
  <2> QED BY <1>2, <2>2, <2>3, <2>4
<1>5. CASE GiveWay(n)
  BY <1>5, GiveWayKeepsIInv
<1>6. CASE StandFirm(n)
  <2>1. inbox' = Taken(n) /\ UNCHANGED <<book, nonce, boots, held>> /\ Expedite(n)
    BY <1>6 DEF StandFirm, HearHello
  <2>2. BooksInv' /\ HeldInv'
    BY <1>2, <2>1, SameBooks
  <2>3. InboxInv'
    BY <1>1, <2>1, ReadInbox
  <2>4. ClockInv'
    BY <2>1, Scheduled
  <2> QED BY <1>2, <2>2, <2>3, <2>4
<1>7. CASE LearnPeer(n)
  <2>1. /\ inbox' = Taken(n) /\ UNCHANGED <<nonce, boots, held>>
        /\ msg.kind = "helloIam"
        /\ book' = [book EXCEPT ![n] = Learn(@, msg.name, msg.id)]
        /\ Expedite(n) \/ UNCHANGED due
    BY <1>7 DEF LearnPeer, HearHello
  <2>2. msg.name \in Name /\ msg.id \in NodeId /\ <<msg.name, msg.id>> \in held
    BY <1>3, <2>1 DEF TrueMessages, Message, DataFrame
  <2>3. BooksInv' /\ HeldInv'
    <3> HIDE DEF msg
    <3> QED BY <1>1, <1>2, <2>1, <2>2, LearnedBook
  <2>4. InboxInv'
    BY <1>1, <2>1, ReadInbox
  <2>5. ClockInv'
    BY <2>1, Scheduled DEF ClockInv
  <2> QED BY <1>2, <2>3, <2>4, <2>5
<1>8. CASE \E hearers \in SUBSET Node : HearQuery(n, hearers)
  <2>1. PICK hearers \in SUBSET Node : HearQuery(n, hearers)
    BY <1>8
  <2>2. UNCHANGED <<book, nonce, due, boots, held>>
    BY <2>1 DEF HearQuery
  <2>3. BooksInv' /\ HeldInv'
    BY <1>2, <2>2, SameBooks
  <2>4. InboxInv'
    <3>1. CASE inbox' = Taken(n)
      BY <1>1, <2>2, <3>1, ReadInbox
    <3>2. CASE inbox' = Broadcast(Taken(n), Response(book[n]), hearers)
      BY <1>1, <1>3, <2>2, <3>2, OwnMessages, SentInbox
    <3> QED BY <2>1, <3>1, <3>2 DEF HearQuery, Answers
  <2>5. ClockInv'
    BY <2>2 DEF ClockInv
  <2> QED BY <1>2, <2>3, <2>4, <2>5
<1>9. CASE HearResponse(n)
  <2>1. /\ inbox' = Taken(n) /\ UNCHANGED <<nonce, due, boots, held>>
        /\ msg.kind = "response"
        /\ book' = [book EXCEPT ![n] = Learn(@, msg.name, msg.id)]
    BY <1>9 DEF HearResponse
  <2>2. msg.name \in Name /\ msg.id \in NodeId /\ <<msg.name, msg.id>> \in held
    BY <1>3, <2>1 DEF TrueMessages, Message, DataFrame
  <2>3. BooksInv' /\ HeldInv'
    <3> HIDE DEF msg
    <3> QED BY <1>1, <1>2, <2>1, <2>2, LearnedBook
  <2>4. InboxInv'
    BY <1>1, <2>1, ReadInbox
  <2>5. ClockInv'
    BY <2>1 DEF ClockInv
  <2> QED BY <1>2, <2>3, <2>4, <2>5
<1>10. CASE Overhear(n) \/ HearData(n)
  <2>1. inbox' = Taken(n) /\ UNCHANGED <<book, nonce, due, boots, held>>
    BY <1>10 DEF Overhear, HearData
  <2>2. BooksInv' /\ HeldInv'
    BY <1>2, <2>1, SameBooks
  <2>3. InboxInv'
    BY <1>1, <2>1, ReadInbox
  <2>4. ClockInv'
    BY <2>1 DEF ClockInv
  <2> QED BY <1>2, <2>2, <2>3, <2>4
<1> QED BY <1>4, <1>5, <1>6, <1>7, <1>8, <1>9, <1>10 DEF Read, Handle, ReadHello

(* Calls, timeouts and transmissions leave every book alone. *)
LEMMA CallKeepsIInv ==
    ASSUME IInv, NEW n \in Node, Return(n) \/ Continue(n)
           \/ (\E hearers \in SUBSET Node : Serve(n, hearers))
           \/ (\E msg \in Questions(n), hearers \in SUBSET Node : Ask(n, msg, hearers))
           \/ Send(n)
    PROVE  IInv'
<1> USE DEF IInv
<1>1. CASE \E hearers \in SUBSET Node : Serve(n, hearers)
  <2>1. PICK hearers \in SUBSET Node : Serve(n, hearers)
    BY <1>1
  <2>2. Running(n)
    BY <2>1 DEF Serve, Running
  <2>3. PICK t \in ServeTimes : Enter(n, "serve", t)
    BY <2>1 DEF Serve
  <2>4. CallInv' /\ \A m \in Node : Running(m)' <=> Running(m)
    BY <2>1, <2>2, <2>3, EnterCall, RollCallAssumption DEF Serve
  <2>5. InboxInv' /\ ClockInv'
    BY <2>1, <2>2, Announced DEF Serve
  <2> QED BY <2>1, <2>4, <2>5, SameBooks DEF Serve
<1>2. CASE IntroduceFails(n) \/ ServeTimeout(n) \/ QueryTimeout(n)
  <2>1. Leave(n) /\ Running(n) /\ UNCHANGED <<book, nonce, due, inbox, boots, held>>
    BY <1>2 DEF IntroduceFails, ServeTimeout, QueryTimeout, Running
  <2>2. CallInv' /\ \A m \in Node : Running(m)' <=> Running(m)
    BY <2>1, LeaveCall
  <2> QED BY <2>1, <2>2, SameBooks, SameInbox DEF ClockInv
<1>3. CASE Settle(n)
  <2>1. CallInv' /\ \A m \in Node : Running(m)' <=> Running(m)
    BY <1>3, LeaveCall DEF Settle, Running
  <2>2. ClockInv'
    BY <1>3, Scheduled, RollCallAssumption DEF Settle
  <2> QED BY <1>3, <2>1, <2>2, SameBooks, SameInbox DEF Settle
<1>4. CASE Introduce(n)
  <2>1. PICK hearers \in Audience(n) :
           inbox' = Broadcast(inbox, Hello(book[n], nonce[n]), hearers)
    BY <1>4 DEF Introduce
  <2>2. Running(n)
    BY <1>4 DEF Introduce, Running
  <2>3. CallInv' /\ \A m \in Node : Running(m)' <=> Running(m)
    BY <1>4, <2>2, EnterCall, RollCallAssumption DEF Introduce
  <2>4. InboxInv'
    BY <1>4, <2>1, <2>2, OwnMessages, SentInbox DEF Introduce, InboxInv
  <2> QED BY <1>4, <2>3, <2>4, SameBooks DEF Introduce, ClockInv
<1>5. CASE \E hearers \in SUBSET Node : Announce(n, hearers)
  <2>1. PICK hearers \in SUBSET Node : Announce(n, hearers)
    BY <1>5
  <2>2. Running(n)
    BY <2>1 DEF Announce, AnnouncementDue, Running
  <2>3. CallInv' /\ \A m \in Node : Running(m)' <=> Running(m)
    BY <2>1, SameCall DEF Announce
  <2>4. InboxInv' /\ ClockInv'
    BY <2>1, <2>2, Announced DEF Announce
  <2> QED BY <2>1, <2>3, <2>4, SameBooks DEF Announce
<1>6. CASE \E hearers \in SUBSET Node : AskAgain(n, hearers)
  <2>1. PICK hearers \in SUBSET Node : AskAgain(n, hearers)
    BY <1>6
  <2>2. query[n].msg \in Questions(n)
    BY <2>1 DEF AskAgain, ResendDue, CallInv
  <2>3. CallInv'
    BY <2>1 DEF AskAgain, CallInv
  <2>4. \A m \in Node : Running(m)' <=> Running(m)
    BY <2>1 DEF AskAgain, Running
  <2>5. InboxInv'
    BY <2>1, <2>2, QuestionsTrue, SentInbox DEF AskAgain, InboxInv
  <2> QED BY <2>1, <2>3, <2>4, <2>5, SameBooks DEF AskAgain, ClockInv
<1>7. CASE \E msg \in Questions(n), hearers \in SUBSET Node : Ask(n, msg, hearers)
  <2>1. PICK msg \in Questions(n), hearers \in SUBSET Node : Ask(n, msg, hearers)
    BY <1>7
  <2>2. PICK t \in QueryTimes :
           /\ Enter(n, "query", t)
           /\ query' = [query EXCEPT ![n] = [msg |-> msg, timeout |-> t, sends |-> 1]]
    BY <2>1 DEF Ask
  <2>3. msg \in Message /\ msg \in TrueMessages(held) /\ t \in Nat
    BY QuestionsTrue, RollCallAssumption
  <2>4. CallInv'
    BY <2>2, <2>3 DEF Enter, CallInv
  <2>5. \A m \in Node : Running(m)' <=> Running(m)
    BY <2>1, <2>2 DEF Ask, Enter, Running, CallInv
  <2>6. InboxInv'
    BY <2>1, <2>3, SentInbox DEF Ask, InboxInv
  <2> QED BY <2>1, <2>4, <2>5, <2>6, SameBooks DEF Ask, ClockInv
<1>8. CASE Send(n)
  <2>1. PICK to \in SendTo[n], payload \in Payload, hearers \in SUBSET Node :
                SendData(n, to, payload, hearers)
    BY <1>8 DEF Send
  <2>2. Running(n) /\ to \in NodeId \cup {Everyone}
    BY <2>1, RollCallAssumption DEF SendData, Running
  <2>3. CallInv' /\ \A m \in Node : Running(m)' <=> Running(m)
    BY <2>1, SameCall DEF SendData
  <2>4. InboxInv'
    BY <2>1, <2>2, DataTrue, SentInbox DEF SendData, InboxInv
  <2> QED BY <2>1, <2>3, <2>4, SameBooks DEF SendData, ClockInv
<1> QED BY <1>1, <1>2, <1>3, <1>4, <1>5, <1>6, <1>7, <1>8 DEF Return, Continue

LEMMA TickKeepsIInv ==
    ASSUME IInv, Tick
    PROVE  IInv'
<1> USE DEF IInv
<1>1. \A t \in Nat : LessOne(t) \in Nat
  BY DEF LessOne
<1>2. CallInv' /\ ClockInv'
  BY <1>1 DEF Tick, CallInv, ClockInv
<1>3. \A m \in Node : Running(m)' <=> Running(m)
  BY DEF Tick, Running
<1> QED BY <1>2, <1>3, SameBooks, SameInbox DEF Tick

LEMMA StepKeepsIInv == IInv /\ [Step]_vars => IInv'
<1> SUFFICES ASSUME IInv, [Step]_vars PROVE IInv'
  OBVIOUS
<1>1. CASE Tick
  BY <1>1, TickKeepsIInv
<1>2. CASE \E n \in Node : Call(n) \/ Read(n) \/ Continue(n) \/ Return(n) \/ PowerOff(n)
  <2>1. PICK n \in Node : Call(n) \/ Read(n) \/ Continue(n) \/ Return(n) \/ PowerOff(n)
    BY <1>2
  <2>2. CASE Call(n)
    BY <2>2, BeginKeepsIInv, CallKeepsIInv DEF Call
  <2>3. CASE Read(n)
    BY <2>3, ReadKeepsIInv
  <2>4. CASE Continue(n) \/ Return(n)
    BY <2>4, CallKeepsIInv
  <2>5. CASE PowerOff(n)
    BY <2>5, PowerOffKeepsIInv
  <2> QED BY <2>1, <2>2, <2>3, <2>4, <2>5
<1>3. CASE \E n \in Node : Send(n)
  BY <1>3, CallKeepsIInv
<1>4. CASE UNCHANGED vars
  <2>1. /\ UNCHANGED <<book, held>> /\ UNCHANGED <<call, left, query>> /\ UNCHANGED inbox
        /\ UNCHANGED <<nonce, due, boots>>
    BY <1>4 DEF vars
  <2>2. CallInv' /\ \A m \in Node : Running(m)' <=> Running(m)
    BY <2>1, SameCall DEF IInv
  <2> QED BY <2>1, <2>2, SameBooks, SameInbox DEF IInv, ClockInv
<1> QED BY <1>1, <1>2, <1>3, <1>4 DEF Step, Next

-----------------------------------------------------------------------------
(* What a step does to the identities and the inboxes *)

(* What a running node may put on the air, payloads apart. *)
Said(n) == {Hello(book[n], nonce[n]), Response(book[n])} \cup Questions(n)

Act(n) == Call(n) \/ Read(n) \/ Continue(n) \/ Return(n) \/ Send(n)

LEMMA SaidTrue ==
    ASSUME IInv, NEW n \in Node, Running(n)
    PROVE  Said(n) \subseteq {msg \in Message : msg.kind # "data"}
<1>1. Hello(book[n], nonce[n]) \in Message /\ Response(book[n]) \in Message
  BY OwnMessages DEF IInv, TrueMessages
<1>2. \A msg \in Questions(n) : msg \in Message /\ msg.kind # "data"
  BY QuestionsTrue DEF Questions, Whois, Whereis
<1>3. Hello(book[n], nonce[n]).kind # "data" /\ Response(book[n]).kind # "data"
  BY DEF Hello, Response
<1> QED BY <1>1, <1>2, <1>3 DEF Said

LEMMA LeaveShape == ASSUME NEW n \in Node, Leave(n) PROVE call' = [call EXCEPT ![n] = "idle"]
BY DEF Leave, Enter

LEMMA ReadShape ==
    ASSUME NEW n \in Node, Handle(n) \/ HearData(n)
    PROVE  /\ Running(n) /\ inbox[n] # <<>>
           /\ UNCHANGED call \/ call' = [call EXCEPT ![n] = "idle"]
<1>1. CanRead(n) /\ (AfterFrame(n) \/ UNCHANGED call)
  BY DEF Handle, ReadHello, RecogniseSelf, GiveWay, StandFirm, LearnPeer, HearHello,
         HearQuery, HearResponse, Overhear, HearData
<1> QED BY <1>1, LeaveShape DEF AfterFrame, CanRead, Calling, Running

LEMMA CallShape ==
    ASSUME NEW n \in Node, Call(n) \/ Handle(n) \/ HearData(n) \/ Continue(n) \/ Return(n)
    PROVE  \/ Running(n) /\ UNCHANGED call
           \/ \E c \in {"idle", "hush", "probe", "serve", "query"} : call' = [call EXCEPT ![n] = c]
<1>1. CASE Call(n)
  BY <1>1 DEF Call, Begin, Serve, Ask, Enter
<1>2. CASE Handle(n) \/ HearData(n)
  BY <1>2, ReadShape
<1>3. CASE Continue(n)
  BY <1>3 DEF Continue, Introduce, Announce, AskAgain, AnnouncementDue, ResendDue, Enter, Running
<1>4. CASE Return(n)
  BY <1>4, LeaveShape DEF Return, IntroduceFails, Settle, ServeTimeout, QueryTimeout
<1> QED BY <1>1, <1>2, <1>3, <1>4

(* An inbox changes when its node reads from it or another node transmits. *)
LEMMA InboxChange ==
    ASSUME IInv, NEW n \in Node, Call(n) \/ Read(n) \/ Continue(n) \/ Return(n)
    PROVE  \/ UNCHANGED inbox
           \/ inbox[n] # <<>> /\ inbox' = Taken(n)
           \/ \E msg \in Said(n), hearers \in SUBSET (Node \ {n}) :
                 /\ Running(n)
                 /\ \/ inbox' = Broadcast(inbox, msg, hearers)
                    \/ inbox[n] # <<>> /\ inbox' = Broadcast(Taken(n), msg, hearers)
<1>1. CASE Begin(n) \/ Return(n)
  BY <1>1 DEF Begin, Return, IntroduceFails, Settle, ServeTimeout, QueryTimeout
<1>2. CASE \E hearers \in SUBSET Node : Serve(n, hearers)
  BY <1>2 DEF Serve, AnnounceIfDue, Running, Audience, Said
<1>3. CASE \E msg \in Questions(n), hearers \in SUBSET Node : Ask(n, msg, hearers)
  BY <1>3 DEF Ask, Running, Audience, Said
<1>4. CASE ReadHello(n) \/ HearResponse(n) \/ Overhear(n) \/ HearData(n)
  BY <1>4, ReadShape DEF Handle, ReadHello, RecogniseSelf, GiveWay, StandFirm, LearnPeer, HearHello,
     HearResponse, Overhear, HearData
<1>5. CASE \E hearers \in SUBSET Node : HearQuery(n, hearers)
  <2>1. PICK hearers \in SUBSET Node : HearQuery(n, hearers)
    BY <1>5
  <2>2. Running(n) /\ inbox[n] # <<>>
    BY <1>5, ReadShape DEF Handle
  <2>3. inbox' = Taken(n) \/ inbox' = Broadcast(Taken(n), Response(book[n]), hearers)
    BY <2>1 DEF HearQuery, Answers
  <2>4. hearers \in SUBSET (Node \ {n})
    BY <2>1 DEF HearQuery, Audience
  <2>5. Response(book[n]) \in Said(n)
    BY DEF Said
  <2> QED BY <2>2, <2>3, <2>4, <2>5
<1>6. CASE Introduce(n)
  <2>1. PICK hearers \in Audience(n) : inbox' = Broadcast(inbox, Hello(book[n], nonce[n]), hearers)
    BY <1>6 DEF Introduce
  <2> QED BY <1>6, <2>1 DEF Introduce, Running, Audience, Said
<1>7. CASE \E hearers \in SUBSET Node : Announce(n, hearers)
  BY <1>7 DEF Announce, AnnounceIfDue, AnnouncementDue, Running, Audience, Said
<1>8. CASE \E hearers \in SUBSET Node : AskAgain(n, hearers)
  <2>1. query[n].msg \in Said(n)
    BY <1>8 DEF AskAgain, ResendDue, IInv, CallInv, Said
  <2> QED BY <1>8, <2>1 DEF AskAgain, ResendDue, Running, Audience
<1> QED BY <1>1, <1>2, <1>3, <1>4, <1>5, <1>6, <1>7, <1>8 DEF Call, Read, Handle, Continue

(* What each inbox may hold it goes on holding, if that is closed under what *)
(* the node that acts says.                                                  *)
LEMMA BoxesStep ==
    ASSUME IInv, NEW n \in Node, Act(n), NEW S,
           \A m \in Node : inbox[m] \in Seq(S[m]),
           \A m \in Node : {msg \in Message : msg.kind # "helloIam"} \subseteq S[m],
           Running(n) => \A m \in Node \ {n} : Hello(book[n], nonce[n]) \in S[m]
    PROVE  \A m \in Node : inbox'[m] \in Seq(S[m])
<1>1. /\ DOMAIN inbox = Node /\ \A m \in Node : Len(inbox[m]) <= InboxSize
  BY DEF IInv, InboxInv
<1>2. ASSUME inbox[n] # <<>>
      PROVE  \A m \in Node : Taken(n)[m] \in Seq(S[m]) /\ Len(Taken(n)[m]) <= InboxSize
  <2>1. Tail(inbox[n]) \in Seq(S[n])
    <3>1. ASSUME NEW T, inbox[n] \in Seq(T) PROVE Tail(inbox[n]) \in Seq(T)
      BY <1>2, <3>1
    <3> QED BY <3>1
  <2>2. \A m \in Node : Len(Taken(n)[m]) <= InboxSize
    BY <1>2, TakenType DEF IInv
  <2> QED BY <1>1, <2>1, <2>2 DEF Taken
<1>3. ASSUME NEW boxes, \A m \in Node : boxes[m] \in Seq(S[m]) /\ Len(boxes[m]) <= InboxSize,
             NEW hearers \in SUBSET Node, NEW msg, \A m \in hearers : msg \in S[m]
      PROVE  \A m \in Node : Broadcast(boxes, msg, hearers)[m] \in Seq(S[m])
  <2>1. \A m \in hearers : Kept(boxes[m], msg) \in Seq(S[m])
    BY <1>3, KeptType
  <2> QED BY <1>3, <2>1 DEF Broadcast
<1>4. CASE Send(n)
  <2>1. PICK to \in SendTo[n], payload \in Payload, hearers \in SUBSET Node :
           SendData(n, to, payload, hearers)
    BY <1>4 DEF Send
  <2>2. /\ Running(n) /\ to \in NodeId \cup {Everyone}
        /\ inbox' = Broadcast(inbox, Data(book[n], to, payload), hearers)
    BY <2>1, RollCallAssumption DEF SendData, Running
  <2>3. Data(book[n], to, payload) \in Message /\ Data(book[n], to, payload).kind # "helloIam"
    <3>1. Data(book[n], to, payload) \in Message
      BY <2>2, DataTrue DEF IInv, TrueMessages
    <3> QED BY <3>1 DEF Data
  <2>4. \A m \in hearers : Data(book[n], to, payload) \in S[m]
    BY <2>3
  <2> QED BY <1>1, <1>3, <2>2, <2>4
<1>5. CASE Call(n) \/ Read(n) \/ Continue(n) \/ Return(n)
  <2>1. CASE UNCHANGED inbox
    BY <2>1
  <2>2. CASE inbox[n] # <<>> /\ inbox' = Taken(n)
    BY <1>2, <2>2
  <2>3. CASE \E msg \in Said(n), hearers \in SUBSET (Node \ {n}) :
                /\ Running(n)
                /\ \/ inbox' = Broadcast(inbox, msg, hearers)
                   \/ inbox[n] # <<>> /\ inbox' = Broadcast(Taken(n), msg, hearers)
    <3>1. PICK msg \in Said(n), hearers \in SUBSET (Node \ {n}) :
                /\ Running(n)
                /\ \/ inbox' = Broadcast(inbox, msg, hearers)
                   \/ inbox[n] # <<>> /\ inbox' = Broadcast(Taken(n), msg, hearers)
      BY <2>3
    <3>2. \A m \in hearers : msg \in S[m]
      <4>1. msg \in Message
        BY <3>1, SaidTrue
      <4>2. msg = Hello(book[n], nonce[n]) \/ msg.kind # "helloIam"
        BY DEF Said, Response, Questions, Whois, Whereis
      <4> QED BY <3>1, <4>1, <4>2
    <3>3. CASE inbox' = Broadcast(inbox, msg, hearers)
      BY <1>1, <1>3, <3>2, <3>3
    <3>4. CASE inbox[n] # <<>> /\ inbox' = Broadcast(Taken(n), msg, hearers)
      BY <1>2, <1>3, <3>2, <3>4
    <3> QED BY <3>1, <3>3, <3>4
  <2> QED BY <1>5, <2>1, <2>2, <2>3, InboxChange
<1> QED BY <1>4, <1>5 DEF Act

(* A node that acts without begin() keeps its name and address but when it *)
(* gives way; nonces are drawn in begin() alone.                           *)
LEMMA IdentityShape ==
    ASSUME IInv, NEW n \in Node, Act(n), ~Begin(n)
    PROVE  /\ UNCHANGED <<nonce, boots>> /\ Running(n)
           /\ \A m \in Node : Running(m)' => Running(m)
           /\ \A m \in Node \ {n} : book'[m] = book[m]
           /\ GiveWay(n) \/ (book'[n].name = book[n].name /\ book'[n].id = book[n].id)
<1>1. /\ UNCHANGED <<nonce, boots>> /\ Running(n)
      /\ \/ UNCHANGED book
         \/ \E x, i : book' = [book EXCEPT ![n] = Learn(@, x, i)]
         \/ GiveWay(n)
  <2>1. CASE Call(n)
    BY <2>1 DEF Call, Serve, Ask, Running
  <2>2. CASE Read(n)
    <3>1. Running(n)
      BY <2>2, ReadShape DEF Read
    <3> QED BY <2>2, <3>1 DEF Read, Handle, ReadHello, RecogniseSelf, GiveWay, StandFirm, LearnPeer,
            HearQuery, HearResponse, Overhear, HearData
  <2>3. CASE Continue(n)
    BY <2>3 DEF Continue, Introduce, Announce, AskAgain, AnnouncementDue, ResendDue, Running
  <2>4. CASE Return(n)
    BY <2>4 DEF Return, IntroduceFails, Settle, ServeTimeout, QueryTimeout, Running
  <2>5. CASE Send(n)
    BY <2>5 DEF Send, SendData, Running
  <2> QED BY <2>1, <2>2, <2>3, <2>4, <2>5 DEF Act
<1>2. \A m \in Node : Running(m)' => Running(m)
  <2>1. UNCHANGED call \/ \E c : call' = [call EXCEPT ![n] = c]
    <3>1. CASE Send(n)
      BY <3>1 DEF Send, SendData
    <3> QED BY <3>1, CallShape DEF Act, Read
  <2> QED BY <1>1, <2>1 DEF Running, IInv, CallInv
<1>3. book \in [Node -> Book]
  BY DEF IInv, BooksInv
<1>4. ASSUME NEW x, NEW i PROVE Learn(book[n], x, i).name = book[n].name
                                /\ Learn(book[n], x, i).id = book[n].id
  BY <1>3 DEF Learn, Book
<1>5. \A m \in Node \ {n} : book'[m] = book[m]
  BY <1>1, <1>3 DEF GiveWay, Become
<1>6. GiveWay(n) \/ (book'[n].name = book[n].name /\ book'[n].id = book[n].id)
  BY <1>1, <1>3, <1>4
<1> QED BY <1>1, <1>2, <1>5, <1>6

-----------------------------------------------------------------------------
(* Who keeps a name                                                        *)
(*                                                                         *)
(* A node that gives up the name yields to an announcement with a smaller  *)
(* address, or the same address and a smaller nonce, under which another   *)
(* node began.  As no node begins twice, the node with the smallest pair   *)
(* of those that have begun is never asked to.                             *)

Original(n) == book[n].name = Configured[n]
Booted(n) == boots[n] > 0

(* birth[n] is the address n drew in begin(). *)
Before(birth, n, m) == birth[n] < birth[m] \/ (birth[n] = birth[m] /\ nonce[n] < nonce[m])

Unbeaten(birth, n) == \A m \in Node : Booted(m) => ~Before(birth, m, n)

(* Announcements of a name nobody has suffixed are of a node's first identity. *)
Announcements(birth, longer) ==
    {msg \in Message : msg.kind = "helloIam" =>
        \/ msg.name \in longer
        \/ \E m \in Node : /\ Booted(m) /\ msg.name = Configured[m]
                           /\ msg.id = birth[m] /\ msg.nonce = nonce[m]}

KeepsName(birth, longer) ==
    /\ \A n \in Node :
          /\ Original(n) \/ book[n].name \in longer
          /\ ~Booted(n) => ~Running(n) /\ Original(n)
          /\ Booted(n) /\ Original(n) => book[n].id = birth[n]
          /\ inbox[n] \in Seq(Announcements(birth, longer))
    /\ (\E n \in Node : Booted(n)) => \E n \in Node : Booted(n) /\ Original(n) /\ Unbeaten(birth, n)

KeepInv(longer) == \E birth \in [Node -> NodeId \cup {Unknown}] : KeepsName(birth, longer)

LEMMA SuffixesFollow ==
    ASSUME NEW longer \in SUBSET Name, SuffixesIn(longer), NEW n \in Node
    PROVE  /\ Configured[n] \in Name /\ Suffixed[Configured[n]] \subseteq longer
           /\ \A x \in longer : /\ x # Configured[n] /\ ~(Configured[n] > x)
                               /\ Suffixed[x] \subseteq longer
<1>1. Configured[n] \in Name /\ Configured[n] \in Nat /\ \A x \in longer : x \in Nat
  BY RollCallAssumption, PeerTableAssumption
<1>2. /\ Suffixed[Configured[n]] \subseteq longer
      /\ \A x \in longer : x > Configured[n] /\ Suffixed[x] \subseteq longer
  BY DEF SuffixesIn
<1>3. \A x, y \in Nat : x > y => x # y /\ ~(y > x)
  OBVIOUS
<1> QED BY <1>1, <1>2, <1>3

LEMMA FirstBegin ==
    ASSUME OneBoot, ClockInv, NEW n \in Node, boots[n] < MaxBoots[n]
    PROVE  boots[n] = 0
<1>1. boots[n] \in Nat /\ MaxBoots[n] \in Nat /\ MaxBoots[n] <= 1
  BY RollCallAssumption DEF OneBoot, ClockInv
<1> QED BY ONLY <1>1, boots[n] < MaxBoots[n]

(* changeName() takes a suffixed name, and nothing else changes the name. *)
LEMMA MovedName ==
    ASSUME NEW b, GoodBook(b), b.id \in NodeId, NEW msg, NEW c \in Moved(b, msg)
    PROVE  /\ msg.name = b.name => c.name \in Suffixed[b.name]
           /\ msg.name # b.name => c.name = b.name
<1> DEFINE rehomed == IF msg.id = b.id THEN WithNewId(b) ELSE {b}
<1> DEFINE renamed == IF msg.name = b.name THEN UNION {WithNewName(d) : d \in rehomed} ELSE rehomed
<1>1. PICK r \in renamed : c = Learn(r, msg.name, msg.id)
  BY DEF Moved
<1>2. \A d \in rehomed : GoodBook(d) /\ d.id \in NodeId /\ d.name = b.name
  BY NewIdGood
<1>3. \A d \in rehomed : \A e \in WithNewName(d) : e.name \in Suffixed[d.name] /\ e \in Book
  <2> TAKE d \in rehomed
  <2> TAKE e \in WithNewName(d)
  <2>1. PICK x \in FreshNames(d) : e = RegisterSelf([WithoutSelf(d) EXCEPT !.name = x])
    BY DEF WithNewName
  <2>2. e.name = x /\ x \in Suffixed[d.name]
    BY <1>2, <2>1 DEF RegisterSelf, WithoutSelf, FreshNames, GoodBook, Book
  <2>3. e \in Book
    BY <1>2, NewNameGood DEF GoodBook
  <2> QED BY <2>2, <2>3
<1>4. /\ r \in Book
      /\ msg.name = b.name => r.name \in Suffixed[b.name]
      /\ msg.name # b.name => r.name = b.name
  <2>1. CASE msg.name = b.name
    BY <1>2, <1>3, <2>1
  <2>2. CASE msg.name # b.name
    BY <1>2, <2>2 DEF GoodBook
  <2> QED BY <2>1, <2>2
<1>5. c.name = r.name
  BY <1>1, <1>4 DEF Learn, Book
<1> QED BY <1>4, <1>5

(* The node that gives way was beaten: by name, and under its first identity. *)
LEMMA BeatenMoves ==
    ASSUME IInv, NamesAlike, NEW longer \in SUBSET Name, SuffixesIn(longer), NEW birth,
           KeepsName(birth, longer), NEW n \in Node, GiveWay(n)
    PROVE  /\ Original(n) => ~Unbeaten(birth, n) /\ book'[n].name \in longer
           /\ ~Original(n) => book'[n].name \in longer
<1> DEFINE msg == Head(inbox[n])
           b == book[n]
           C == Configured[n]
<1>1. /\ inbox[n] # <<>> /\ Running(n) /\ msg.kind = "helloIam"
      /\ GivesWay(b, nonce[n], msg)
      /\ \E c \in Moved(b, msg) : Become(n, c)
  BY DEF GiveWay, HearHello, CanRead, Calling, Running
<1>2. msg \in Announcements(birth, longer) /\ msg \in Message
  <2>1. inbox[n] \in Seq(Announcements(birth, longer))
    BY DEF KeepsName
  <2> QED BY <1>1, <2>1 DEF Announcements
<1>3. /\ GoodBook(b) /\ b.id \in NodeId /\ b.name \in Name /\ book \in [Node -> Book]
      /\ Booted(n) /\ nonce[n] \in Nat
  BY <1>1 DEF IInv, BooksInv, GoodBook, Book, KeepsName, ClockInv
<1>4. PICK c \in Moved(b, msg) : book' = [book EXCEPT ![n] = c]
  BY <1>1 DEF Become
<1>5. /\ msg.name = b.name => book'[n].name \in Suffixed[b.name]
      /\ msg.name # b.name => book'[n].name = b.name
  <2>1. /\ msg.name = b.name => c.name \in Suffixed[b.name]
        /\ msg.name # b.name => c.name = b.name
    BY <1>3, MovedName
  <2> QED BY <1>3, <1>4, <2>1
<1>6. /\ C \in Name /\ Suffixed[C] \subseteq longer
      /\ \A x \in longer : x # C /\ ~(C > x) /\ Suffixed[x] \subseteq longer
      /\ \A m \in Node : Configured[m] = C
  BY SuffixesFollow DEF NamesAlike
<1> HIDE DEF msg, b, C
<1>7. CASE Original(n)
  <2>1. b.name = C
    BY <1>7 DEF Original, b, C
  <2>2. msg.name = C
    <3>1. ASSUME msg.name \in longer PROVE FALSE
      <4>1. msg.name # b.name /\ ~(b.name > msg.name)
        BY <1>6, <2>1, <3>1
      <4> QED BY <1>1, <4>1 DEF GivesWay
    <3> QED BY <1>1, <1>2, <1>6, <3>1 DEF Announcements
  <2>3. PICK m \in Node : Booted(m) /\ msg.id = birth[m] /\ msg.nonce = nonce[m]
    BY <1>1, <1>2, <1>6, <2>2 DEF Announcements
  <2>4. b.id = birth[n]
    BY <1>3, <1>7 DEF KeepsName, b
  <2>5. msg.id < b.id \/ (msg.id = b.id /\ msg.nonce < nonce[n])
    BY <1>1, <2>1, <2>2 DEF GivesWay
  <2>6. Before(birth, m, n)
    BY <2>3, <2>4, <2>5 DEF Before
  <2>7. book'[n].name \in longer
    BY <1>5, <1>6, <2>1, <2>2
  <2> QED BY <1>7, <2>3, <2>6, <2>7 DEF Unbeaten
<1>8. CASE ~Original(n)
  <2>1. b.name \in longer
    BY <1>8 DEF KeepsName, b
  <2> QED BY <1>5, <1>6, <1>8, <2>1
<1> QED BY <1>7, <1>8

LEMMA BeginKeepsName ==
    ASSUME IInv, NamesAlike, OneBoot, NEW longer \in SUBSET Name, SuffixesIn(longer),
           NEW birth \in [Node -> NodeId \cup {Unknown}], KeepsName(birth, longer),
           NEW n \in Node, Begin(n)
    PROVE  KeepInv(longer)'
<1>1. PICK i \in NodeId :
        book' = [book EXCEPT ![n] = RegisterSelf([Blank(book[n].name) EXCEPT !.id = i])]
  BY DEF Begin, Become
<1>2. PICK k \in Nonce : nonce' = [nonce EXCEPT ![n] = k]
  BY DEF Begin
<1>3. /\ boots[n] = 0 /\ boots' = [boots EXCEPT ![n] = @ + 1] /\ UNCHANGED inbox
      /\ \A m \in Node \ {n} : Running(m)' => Running(m)
  BY FirstBegin DEF Begin, IInv, CallInv, Enter, Running
<1> DEFINE born == [birth EXCEPT ![n] = i]
<1>4. /\ ~Booted(n) /\ Booted(n)' /\ born \in [Node -> NodeId \cup {Unknown}] /\ born[n] = i
      /\ \A m \in Node \ {n} : /\ Booted(m)' <=> Booted(m)
                               /\ nonce'[m] = nonce[m] /\ born[m] = birth[m]
                               /\ book'[m] = book[m]
  BY <1>1, <1>2, <1>3 DEF Booted, IInv, ClockInv, BooksInv
<1>5. /\ Original(n) /\ book'[n].name = book[n].name /\ book'[n].id = i
  <2>1. Original(n)
    BY <1>4 DEF KeepsName
  <2>2. book[n] \in Book /\ book \in [Node -> Book]
    BY DEF IInv, BooksInv
  <2> QED BY <1>1, <2>1, <2>2 DEF RegisterSelf, Blank, Book
<1>6. \A m \in Node : nonce[m] \in Nat /\ nonce'[m] \in Nat /\ birth[m] \in Nat /\ born[m] \in Nat
  <2>1. NodeId \cup {Unknown} \subseteq Nat /\ k \in Nat
    BY RollCallAssumption, PeerTableAssumption DEF Unknown
  <2>2. \A m \in Node : nonce[m] \in Nat /\ nonce'[m] \in Nat
    BY <1>2, <2>1 DEF IInv, ClockInv
  <2> HIDE DEF born
  <2>3. \A m \in Node : birth[m] \in Nat /\ born[m] \in Nat
    BY <1>4, <2>1
  <2> QED BY <2>2, <2>3
<1> HIDE DEF born
<1>7. \A m \in Node : inbox'[m] \in Seq(Announcements(born, longer)')
  <2>1. Announcements(birth, longer) \subseteq Announcements(born, longer)'
    BY <1>4 DEF Announcements
  <2> QED BY <1>3, <2>1, SeqDef DEF KeepsName
<1>8. \A m \in Node :
          /\ Original(m)' \/ book'[m].name \in longer
          /\ ~Booted(m)' => ~Running(m)' /\ Original(m)'
          /\ Booted(m)' /\ Original(m)' => book'[m].id = born[m]
  BY <1>3, <1>4, <1>5 DEF KeepsName, Original
<1>9. \E m \in Node : Booted(m)' /\ Original(m)' /\ Unbeaten(born, m)'
  <2>1. Booted(n)' /\ Original(n)'
    BY <1>4, <1>5 DEF Original
  <2>2. CASE \E m \in Node : Booted(m)
    <3>1. PICK w \in Node : Booted(w) /\ Original(w) /\ Unbeaten(birth, w)
      BY <2>2 DEF KeepsName
    <3>2. w # n /\ Booted(w)' /\ Original(w)'
      BY <1>4, <3>1 DEF Original
    <3> DEFINE Beats(p, q) ==
                 born[p] < born[q] \/ (born[p] = born[q] /\ nonce'[p] < nonce'[q])
    <3>3. \A p, q, r \in Node : Beats(p, q) /\ Beats(q, r) => Beats(p, r)
      BY <1>6
    <3>4. \A p \in Node : ~Beats(p, p)
      BY <1>6
    <3>5. \A p \in Node \ {n} : Booted(p)' => ~Beats(p, w)
      BY <1>4, <3>1, <3>2 DEF Unbeaten, Before
    <3> HIDE DEF Beats
    <3>6. \A q \in Node : Unbeaten(born, q)' <=> \A p \in Node : Booted(p)' => ~Beats(p, q)
      BY DEF Unbeaten, Before, Beats
    <3> QED BY <2>1, <3>2, <3>3, <3>4, <3>5, <3>6
  <2>3. CASE ~ \E m \in Node : Booted(m)
    <3>1. Unbeaten(born, n)'
      BY <1>4, <1>6, <2>3 DEF Unbeaten, Before
    <3> QED BY <2>1, <3>1
  <2> QED BY <2>2, <2>3
<1>10. KeepsName(born, longer)'
  BY <1>7, <1>8, <1>9 DEF KeepsName
<1> QED BY <1>4, <1>10 DEF KeepInv

LEMMA ActKeepsName ==
    ASSUME IInv, NamesAlike, OneBoot, NEW longer \in SUBSET Name, SuffixesIn(longer),
           NEW birth \in [Node -> NodeId \cup {Unknown}], KeepsName(birth, longer),
           NEW n \in Node, Act(n), ~Begin(n)
    PROVE  KeepsName(birth, longer)'
<1>1. /\ UNCHANGED <<nonce, boots>> /\ Running(n)
      /\ \A m \in Node : Running(m)' => Running(m)
      /\ \A m \in Node \ {n} : book'[m] = book[m]
      /\ GiveWay(n) \/ (book'[n].name = book[n].name /\ book'[n].id = book[n].id)
  BY IdentityShape
<1>2. /\ \A m \in Node : (Booted(m)' <=> Booted(m)) /\ (Unbeaten(birth, m)' <=> Unbeaten(birth, m))
      /\ Announcements(birth, longer)' = Announcements(birth, longer)
  BY <1>1 DEF Booted, Unbeaten, Before, Announcements
<1>3. \A m \in Node : inbox'[m] \in Seq(Announcements(birth, longer))
  <2> DEFINE S == [m \in Node |-> Announcements(birth, longer)]
  <2>1. \A m \in Node : S[m] = Announcements(birth, longer) /\ inbox[m] \in Seq(S[m])
    BY DEF KeepsName
  <2>2. {msg \in Message : msg.kind # "helloIam"} \subseteq Announcements(birth, longer)
    BY DEF Announcements
  <2>3. Hello(book[n], nonce[n]) \in Announcements(birth, longer)
    <3>1. Hello(book[n], nonce[n]) \in Message
      BY <1>1, OwnMessages DEF IInv, TrueMessages
    <3>2. /\ Booted(n) /\ (Original(n) \/ book[n].name \in longer)
          /\ Original(n) => book[n].id = birth[n]
      BY <1>1 DEF KeepsName
    <3> QED BY <3>1, <3>2 DEF Announcements, Hello, Original
  <2> HIDE DEF S
  <2>4. /\ \A m \in Node : {msg \in Message : msg.kind # "helloIam"} \subseteq S[m]
        /\ \A m \in Node \ {n} : Hello(book[n], nonce[n]) \in S[m]
    BY <2>1, <2>2, <2>3
  <2>5. \A m \in Node : inbox'[m] \in Seq(S[m])
    BY <2>1, <2>4, BoxesStep
  <2> QED BY <2>1, <2>5
<1>4. /\ Original(n)' \/ book'[n].name \in longer
      /\ Original(n)' => Original(n) /\ book'[n].id = book[n].id
      /\ Unbeaten(birth, n) => (Original(n) => Original(n)')
  <2>1. CASE GiveWay(n)
    <3>1. /\ book'[n].name \in longer
          /\ Original(n) => ~Unbeaten(birth, n)
      BY <2>1, BeatenMoves
    <3>2. ~Original(n)'
      BY <3>1, SuffixesFollow DEF Original
    <3> QED BY <3>1, <3>2
  <2>2. CASE book'[n].name = book[n].name /\ book'[n].id = book[n].id
    BY <2>2 DEF Original, KeepsName
  <2> QED BY <1>1, <2>1, <2>2
<1>5. \A m \in Node \ {n} : Original(m)' <=> Original(m)
  BY <1>1 DEF Original
<1>6. \A m \in Node :
          /\ Original(m)' \/ book'[m].name \in longer
          /\ ~Booted(m)' => ~Running(m)' /\ Original(m)'
          /\ Booted(m)' /\ Original(m)' => book'[m].id = birth[m]
  <2> TAKE m \in Node
  <2>1. CASE m = n
    <3>1. Booted(n)
      BY <1>1 DEF KeepsName
    <3> QED BY <1>2, <1>4, <2>1, <3>1 DEF KeepsName
  <2>2. CASE m # n
    BY <1>1, <1>2, <1>5, <2>2 DEF KeepsName
  <2> QED BY <2>1, <2>2
<1>7. ASSUME \E m \in Node : Booted(m)'
      PROVE  \E m \in Node : Booted(m)' /\ Original(m)' /\ Unbeaten(birth, m)'
  <2>1. PICK w \in Node : Booted(w) /\ Original(w) /\ Unbeaten(birth, w)
    BY <1>2, <1>7 DEF KeepsName
  <2>2. Original(w)'
    BY <1>4, <1>5, <2>1
  <2> QED BY <1>2, <2>1, <2>2
<1> QED BY <1>2, <1>3, <1>6, <1>7 DEF KeepsName

LEMMA InitKeepInv ==
    ASSUME Init, NEW longer \in SUBSET Name
    PROVE  KeepInv(longer)
<1>1. PICK birth \in [Node -> NodeId \cup {Unknown}] : birth = [n \in Node |-> Unknown]
  OBVIOUS
<1>2. \A S : <<>> \in Seq(S)
  OBVIOUS
<1>3. KeepsName(birth, longer)
  BY <1>2 DEF Init, KeepsName, Original, Booted, Running, Blank
<1> QED BY <1>3 DEF KeepInv

LEMMA StepKeepInv ==
    ASSUME IInv, NamesAlike, OneBoot, NEW longer \in SUBSET Name, SuffixesIn(longer),
           KeepInv(longer), [Step]_vars
    PROVE  KeepInv(longer)'
<1>1. PICK birth \in [Node -> NodeId \cup {Unknown}] : KeepsName(birth, longer)
  BY DEF KeepInv
<1>2. CASE Tick \/ UNCHANGED vars
  <2>1. UNCHANGED <<book, nonce, call, inbox, boots>>
    BY <1>2 DEF Tick, vars
  <2>2. KeepsName(birth, longer)'
    BY <1>1, <2>1 DEF KeepsName, Original, Booted, Running, Announcements, Unbeaten, Before
  <2> QED BY <2>2 DEF KeepInv
<1>3. CASE \E n \in Node : Act(n)
  <2>1. PICK n \in Node : Act(n)
    BY <1>3
  <2>2. CASE Begin(n)
    BY <1>1, <2>2, BeginKeepsName
  <2>3. CASE ~Begin(n)
    BY <1>1, <2>1, <2>3, ActKeepsName DEF KeepInv
  <2> QED BY <2>2, <2>3
<1>4. CASE \E n \in Node : PowerOff(n)
  <2>1. PICK n \in Node : PowerOff(n)
    BY <1>4
  <2>2. boots[n] = 0 /\ Running(n)
    BY <2>1, FirstBegin DEF PowerOff, IInv
  <2> QED BY <1>1, <2>2 DEF KeepsName, Booted
<1> QED BY <1>2, <1>3, <1>4 DEF Step, Next, Act

LEMMA KeepInvKeeps ==
    ASSUME NamesAlike, NEW longer \in SUBSET Name, KeepInv(longer)
    PROVE  SomeoneKeepsName
BY DEF KeepInv, KeepsName, SomeoneKeepsName, NamesAlike, Original

-----------------------------------------------------------------------------
(* Nodes with names of their own *)

ApartInv ==
    \A n \in Node :
        /\ Original(n)
        /\ inbox[n] \in Seq({msg \in Message : msg.kind = "helloIam" => msg.name # Configured[n]})

LEMMA StepKeepsApart ==
    ASSUME IInv, NamesApart, ApartInv, [Step]_vars
    PROVE  ApartInv'
<1> DEFINE Others(n) == {msg \in Message : msg.kind = "helloIam" => msg.name # Configured[n]}
<1>1. book \in [Node -> Book] /\ DOMAIN inbox = Node
  BY DEF IInv, BooksInv, InboxInv
<1>2. CASE Tick \/ UNCHANGED vars
  BY <1>2 DEF Tick, vars, ApartInv, Original
<1>3. CASE \E n \in Node : Act(n)
  <2>1. PICK n \in Node : Act(n)
    BY <1>3
  <2>2. \A m \in Node : inbox'[m] \in Seq(Others(m))
    <3> DEFINE S == [m \in Node |-> Others(m)]
    <3>1. \A m \in Node : S[m] = Others(m) /\ inbox[m] \in Seq(S[m])
      BY DEF ApartInv
    <3>2. Running(n) => \A m \in Node \ {n} : Hello(book[n], nonce[n]) \in Others(m)
      <4>1. Running(n) => Hello(book[n], nonce[n]) \in Message
        BY OwnMessages DEF IInv, TrueMessages
      <4> QED BY <4>1 DEF Hello, ApartInv, Original, NamesApart
    <3>3. \A m \in Node : {msg \in Message : msg.kind # "helloIam"} \subseteq Others(m)
      OBVIOUS
    <3> HIDE DEF S, Others
    <3>4. /\ \A m \in Node : {msg \in Message : msg.kind # "helloIam"} \subseteq S[m]
          /\ Running(n) => \A m \in Node \ {n} : Hello(book[n], nonce[n]) \in S[m]
      BY <3>1, <3>2, <3>3
    <3>5. \A m \in Node : inbox'[m] \in Seq(S[m])
      BY <2>1, <3>1, <3>4, BoxesStep
    <3> QED BY <3>1, <3>5
  <2>3. \A m \in Node : book'[m].name = book[m].name
    <3>1. CASE Begin(n)
      BY <1>1, <3>1 DEF Begin, Become, RegisterSelf, Blank, Book
    <3>2. CASE GiveWay(n)
      <4> DEFINE msg == Head(inbox[n])
      <4>1. /\ inbox[n] # <<>> /\ msg.kind = "helloIam" /\ Running(n)
            /\ \E c \in Moved(book[n], msg) : book' = [book EXCEPT ![n] = c]
        BY <3>2 DEF GiveWay, HearHello, CanRead, Calling, Running, Become
      <4>2. msg \in Others(n)
        <5>1. inbox[n] \in Seq(Others(n))
          BY DEF ApartInv
        <5> HIDE DEF Others
        <5> QED BY <4>1, <5>1
      <4>3. msg.name # book[n].name
        BY <4>1, <4>2 DEF ApartInv, Original
      <4>4. GoodBook(book[n]) /\ book[n].id \in NodeId
        BY <4>1 DEF IInv, BooksInv
      <4> HIDE DEF msg
      <4>5. \A c \in Moved(book[n], msg) : c.name = book[n].name
        BY <4>3, <4>4, MovedName
      <4> QED BY <1>1, <4>1, <4>5 DEF msg
    <3>3. CASE ~Begin(n) /\ ~GiveWay(n)
      BY <2>1, <3>3, IdentityShape
    <3> QED BY <3>1, <3>2, <3>3
  <2> QED BY <2>2, <2>3 DEF ApartInv, Original
<1>4. CASE \E n \in Node : PowerOff(n)
  <2>1. PICK n \in Node : PowerOff(n)
    BY <1>4
  <2>2. /\ \A m \in Node : book'[m].name = book[m].name
        /\ \A m \in Node : inbox'[m] = inbox[m] \/ inbox'[m] = <<>>
    BY <1>1, <2>1 DEF PowerOff, Blank, ApartInv, Original
  <2>3. \A T : <<>> \in Seq(T)
    OBVIOUS
  <2> QED BY <2>2, <2>3 DEF ApartInv, Original
<1> QED BY <1>2, <1>3, <1>4 DEF Step, Next, Act

LEMMA InitApart ==
    ASSUME Init
    PROVE  ApartInv
<1>1. \A T : <<>> \in Seq(T)
  OBVIOUS
<1> QED BY <1>1 DEF Init, ApartInv, Original, Blank

LEMMA ApartKeeps == ApartInv => SomeoneKeepsName
BY DEF ApartInv, Original, SomeoneKeepsName

-----------------------------------------------------------------------------
(* The invariant that ties books to the record of identities, and frames   *)
(* under way to what their senders were called (RollCall.cpp:292-434).     *)
THEOREM Invariance == Spec => []IInv
BY InitIInv, StepKeepsIInv, PTL DEF Spec

(* Every variable of RollCall keeps its type, whatever is heard. *)
THEOREM TypeCorrect == Spec => []TypeOK
BY Invariance, IInvTypeOK, PTL

(* The two maps of every node stay inverse to each other, and its own      *)
(* entry stays in them, through learning, moving and renaming              *)
(* (RollCall.cpp:394-434).                                                 *)
THEOREM TablesStayInverse == Spec => []TablesAgree
BY Invariance, IInvTables, PTL

(* No table outgrows ROLLCALL_MAX_PEERS (RollCall.cpp:406).                *)
THEOREM TablesStayBounded == Spec => []TableFits
BY Invariance, IInvTables, PTL

(* Every pair of name and address in a table was some node's identity:     *)
(* whoIs() and whereIs() never return what never was (RollCall.cpp:292-388). *)
THEOREM EntriesStayTrue == Spec => []EntriesWereTrue
BY Invariance, IInvTables, PTL

(* Of nodes configured with one name somebody keeps it, for any number of  *)
(* nodes, addresses, nonces and losses, if no node begins twice and the    *)
(* name leaves room for a suffix; and nodes with names of their own keep   *)
(* them through any restarts (RollCall.cpp:292-340, 425-433).              *)
THEOREM NameIsKept ==
    ASSUME NamesApart \/ (NamesAlike /\ OneBoot /\ RoomForSuffix)
    PROVE  Spec => []SomeoneKeepsName
<1>1. CASE NamesApart
  <2>1. Init => ApartInv
    BY InitApart
  <2>2. IInv /\ ApartInv /\ [Step]_vars => ApartInv'
    BY <1>1, StepKeepsApart
  <2> QED BY <2>1, <2>2, Invariance, ApartKeeps, PTL DEF Spec
<1>2. CASE NamesAlike /\ OneBoot /\ RoomForSuffix
  <2>1. PICK longer \in SUBSET Name : SuffixesIn(longer)
    BY <1>2 DEF RoomForSuffix
  <2>2. Init => KeepInv(longer)
    BY InitKeepInv
  <2>3. IInv /\ KeepInv(longer) /\ [Step]_vars => KeepInv(longer)'
    BY <1>2, <2>1, StepKeepInv
  <2>4. KeepInv(longer) => SomeoneKeepsName
    BY <1>2, KeepInvKeeps
  <2> QED BY <2>2, <2>3, <2>4, Invariance, PTL DEF Spec
<1> QED BY <1>1, <1>2
=============================================================================
