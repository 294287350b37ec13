----------------------------- MODULE MCRollCall -----------------------------
(* Instances of RollCall for TLC. *)
EXTENDS RollCall, TLC

CONSTANTS a, b, c,    \* nodes
          p           \* a payload

(* 1 is a name as long as leaves just room for a suffix, 2 and 3 are the  *)
(* names a suffix makes of it: of full length, so that a further suffix   *)
(* replaces the first.                                                    *)
Names == 1 .. 3
Suffixes == [x \in Names |-> {2, 3}]

SameName == [n \in Node |-> 1]
TwoOfAName == (a :> 2) @@ (b :> 2) @@ (c :> 1)
NobodyAsks == [n \in Node |-> {}]
Once == [n \in Node |-> 1]
Alike == Permutations({a, b})
=============================================================================
