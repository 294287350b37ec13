--------------------------- MODULE MCRollConverge ---------------------------
(* The instance of RollCall that settles: what is proved of who keeps a name *)
(* applies to it.                                                            *)
EXTENDS MCRollCall

ASSUME InstanceSharesAName == NamesAlike /\ OneBoot /\ RoomForSuffix
=============================================================================
