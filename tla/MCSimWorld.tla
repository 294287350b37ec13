----------------------------- MODULE MCSimWorld -----------------------------
(* An instance of SimWorld for TLC: a and b send, c only listens, in        *)
(* windows; b's radio receives all the time.                                *)
EXTENDS SimWorld, TLC

CONSTANTS a, b, c    \* nodes

InOrder == (a :> 1) @@ (b :> 2) @@ (c :> 3)
Hidden == {{}, {{a, b}}}
FrameTimes == (a :> {2, 4}) @@ (b :> {2}) @@ (c :> {})
Lengths == (a :> 4) @@ (b :> 2) @@ (c :> 4)
Patience == (a :> {3}) @@ (b :> {2}) @@ (c :> {2, 5})
Naps == (a :> {1}) @@ (b :> {7}) @@ (c :> {1})
Calls == (a :> 3) @@ (b :> 2) @@ (c :> 2)
=============================================================================
