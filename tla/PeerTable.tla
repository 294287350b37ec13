----------------------------- MODULE PeerTable -----------------------------
(***************************************************************************)
(* What one RollCall node knows: its own name and ID, and the two maps     *)
(* _nameToId and _idToName.  A map is a total function whose value Unknown *)
(* stands for an absent key, as the 0 of whoIs() and the empty string of   *)
(* whereIs() do.  Every operator takes such a book and yields a book, or   *)
(* the set of books the random source may lead to.                         *)
(*                                                                         *)
(* Names are numbers in the order in which std::string compares them.      *)
(***************************************************************************)
EXTENDS Naturals, FiniteSets

CONSTANTS
    Name,       \* node names
    NodeId,     \* usable addresses: neither 0 nor the broadcast address
    Suffixed,   \* per name: the names generateSuffixedName() can make of it
    MaxPeers    \* ROLLCALL_MAX_PEERS, the node itself included

Unknown == 0

ASSUME PeerTableAssumption ==
    /\ Name \subseteq Nat \ {Unknown} /\ IsFiniteSet(Name)
    /\ NodeId \subseteq Nat \ {Unknown}
    /\ Suffixed \in [Name -> SUBSET Name]
    /\ MaxPeers \in Nat \ {0}

Book == [name : Name, id : NodeId \cup {Unknown},
         nameToId : [Name -> NodeId \cup {Unknown}],
         idToName : [NodeId -> Name \cup {Unknown}]]

(* The names a book has an address for. *)
KnownNames(book) == {x \in Name : book.nameToId[x] # Unknown}

(* A node called x before begin(). *)
Blank(x) == [name |-> x, id |-> Unknown,
             nameToId |-> [y \in Name |-> Unknown], idToName |-> [i \in NodeId |-> Unknown]]

(* The two maps are inverse to each other. *)
InverseMaps(book) == \A x \in Name, i \in NodeId : book.nameToId[x] = i <=> book.idToName[i] = x

(* A node with an address finds itself in its table. *)
OwnEntry(book) == book.id # Unknown => book.nameToId[book.name] = book.id

-----------------------------------------------------------------------------
(* A node's own entry *)

(* Addresses generateRandomId() may return. *)
FreshIds(book) == {i \in NodeId : i # book.id /\ book.idToName[i] = Unknown}

(* Names generateSuffixedName() may return once the old name is erased.  A *)
(* name of full length loses its old suffix: it may get itself back.       *)
FreshNames(book) ==
    {x \in Suffixed[book.name] : x = book.name \/ book.nameToId[x] = Unknown}

WithoutSelf(book) ==
    [book EXCEPT !.nameToId[book.name] = Unknown, !.idToName[book.id] = Unknown]

RegisterSelf(book) ==
    [book EXCEPT !.nameToId[book.name] = book.id, !.idToName[book.id] = book.name]

WithNewId(book) ==
    {RegisterSelf([WithoutSelf(book) EXCEPT !.id = i]) : i \in FreshIds(book)}

WithNewName(book) ==
    {RegisterSelf([WithoutSelf(book) EXCEPT !.name = x]) : x \in FreshNames(book)}

-----------------------------------------------------------------------------
(* Entries for other nodes *)

HasRoomAlways(book) == TRUE     \* seeded fault: the table grows without limit

HasRoom(book) == Cardinality(KnownNames(book)) < MaxPeers

IgnoresPeer(book, x, i) ==
    \/ x = book.name \/ i = book.id             \* own entries are not up for grabs
    \/ book.nameToId[x] = i                     \* already known
    \/ book.nameToId[x] = Unknown /\ ~HasRoom(book)

LearnKeepingOldId(book, x, i) ==    \* seeded fault: the old address keeps its name
    IF IgnoresPeer(book, x, i) THEN book
    ELSE [book EXCEPT
            !.nameToId = [y \in Name |-> IF y = x THEN i
                                         ELSE IF y = book.idToName[i] THEN Unknown ELSE @[y]],
            !.idToName[i] = x]

(* learn(): x is at i from now on; the address x had, and the name that *)
(* had address i, are forgotten.                                        *)
Learn(book, x, i) ==
    IF IgnoresPeer(book, x, i) THEN book
    ELSE [book EXCEPT
            !.nameToId = [y \in Name |-> IF y = x THEN i
                                         ELSE IF y = book.idToName[i] THEN Unknown ELSE @[y]],
            !.idToName = [j \in NodeId |-> IF j = i THEN x
                                           ELSE IF j = book.nameToId[x] THEN Unknown ELSE @[j]]]
=============================================================================
