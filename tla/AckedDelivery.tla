--------------------------- MODULE AckedDelivery ---------------------------
(***************************************************************************)
(* What the link layer promises its applications, without radio, frames,   *)
(* timers or retries.  The k-th message node n submits is <<n, k>>.  Every *)
(* node takes messages in, those of one sender in the order of submission  *)
(* and each at most once, hands them to its application first in, first    *)
(* out, and a sender is told that a message was delivered only after some  *)
(* node has taken it in.  Messages may be lost: nothing says that one is   *)
(* taken in, only what follows when it is.                                 *)
(***************************************************************************)
EXTENDS Integers, Sequences

CONSTANT Node

VARIABLES
    called,     \* per node: how many messages it has submitted
    taken,      \* per node: the messages it has taken in
    handed,     \* per node: the messages it has handed to its application
    confirmed   \* the messages reported as delivered to their senders

vars == <<called, taken, handed, confirmed>>

Message == UNION {{n} \X (1 .. called[n]) : n \in Node}

(* m is neither a repetition nor older than what n has of its sender. *)
IsNews(n, m) ==
    \A i \in 1 .. Len(taken[n]) : taken[n][i][1] = m[1] => taken[n][i][2] < m[2]

Take(n, m) == IsNews(n, m) /\ taken' = [taken EXCEPT ![n] = Append(@, m)]

Init ==
    /\ called = [n \in Node |-> 0]
    /\ taken = [n \in Node |-> <<>>]
    /\ handed = [n \in Node |-> <<>>]
    /\ confirmed = {}

Submit(n) ==
    /\ called' = [called EXCEPT ![n] = @ + 1]
    /\ UNCHANGED <<taken, handed, confirmed>>

Keep(n, m) == Take(n, m) /\ UNCHANGED <<called, handed, confirmed>>

HandOver(n) ==
    /\ Len(handed[n]) < Len(taken[n])
    /\ handed' = [handed EXCEPT ![n] = Append(@, taken[n][Len(@) + 1])]
    /\ UNCHANGED <<called, taken, confirmed>>

(* Taken in by an application that is waiting for it. *)
TakeDirectly(n, m) ==
    /\ handed[n] = taken[n]
    /\ Take(n, m)
    /\ handed' = [handed EXCEPT ![n] = Append(@, m)]
    /\ UNCHANGED <<called, confirmed>>

Confirm(m) ==
    /\ \E n \in Node : \E i \in 1 .. Len(taken[n]) : taken[n][i] = m
    /\ confirmed' = confirmed \cup {m}
    /\ UNCHANGED <<called, taken, handed>>

Next ==
    \/ \E n \in Node : Submit(n) \/ HandOver(n)
    \/ \E n \in Node, m \in Message : Keep(n, m) \/ TakeDirectly(n, m)
    \/ \E m \in Message : Confirm(m)

Spec == Init /\ [][Next]_vars
=============================================================================
