-------------------------- MODULE MCEncryptedLink --------------------------
(* An instance of EncryptedLoRaLink and its ciphers for TLC. *)
EXTENDS SealedFrames, TLC

CONSTANTS a, b, c, d    \* nodes

(* a and b are of one network, c is of another, d does without encryption. *)
Keys == (a :> "home") @@ (b :> "home") @@ (c :> "next door") @@ (d :> NoKey)
Addresses == (a :> 1) @@ (b :> 2) @@ (c :> 1) @@ (d :> 1)
Clocks == (a :> FALSE) @@ (b :> TRUE) @@ (c :> FALSE) @@ (d :> FALSE)
Patience == (a :> {1}) @@ (b :> {0, 3}) @@ (c :> {}) @@ (d :> {})
Sends == (a :> 2) @@ (b :> 0) @@ (c :> 1) @@ (d :> 1)
Restarts == (a :> 1) @@ (b :> 0) @@ (c :> 0) @@ (d :> 0)
=============================================================================
