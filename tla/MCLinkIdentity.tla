--------------------------- MODULE MCLinkIdentity ---------------------------
(* Instances on which TLC also checks the inductive invariant of           *)
(* LoRaLinkCoreProofs.                                                     *)
EXTENDS MCLink, LoRaLinkCoreProofs
=============================================================================
