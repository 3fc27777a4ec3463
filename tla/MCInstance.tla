------------------------------- MODULE MCInstance -------------------------------
(* One collector with two devices; a wall clock set back or right. *)
EXTENDS Instance

MCOffsets == {-1, 0}
=============================================================================
