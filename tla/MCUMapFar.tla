----------------------------- MODULE MCUMapFar ------------------------------
(* A small map for TLC, with keys further apart than an int can say. *)
EXTENDS UMap

FarKeys == 0..4
=============================================================================
