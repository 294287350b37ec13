--------------------------- MODULE MCSemtechRadio ---------------------------
(* Instances of SemtechRadio for TLC. *)
EXTENDS SemtechRadioProofs

OnTimeLateNever == {1, 2, Off}
=============================================================================
