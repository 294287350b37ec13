--------------------------- MODULE MCPeerMessenger ---------------------------
(* An instance of PeerMessenger for TLC. *)
EXTENDS PeerMessenger, TLC

CONSTANTS a, b,         \* nodes
          p, q, r, s    \* texts

Names == 1 .. 3
Suffixes == [x \in Names |-> {2, 3}]

SameName == [n \in Node |-> 1]
AAsks == (a :> {2}) @@ (b :> {})
BAsks == (a :> {}) @@ (b :> {2})
Addresses == (a :> NodeId) @@ (b :> {1})
NobodyAsks == [n \in Node |-> {}]
BySight == (a :> {}) @@ (b :> {1})
Texts == (a :> {p}) @@ (b :> {q, r, s})
OneEach == (a :> {p}) @@ (b :> {q})
Once == [n \in Node |-> 1]
BRestarts == (a :> 1) @@ (b :> 2)
=============================================================================
