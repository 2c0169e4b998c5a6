------------------------------- MODULE MCUMap -------------------------------
(* Small maps for TLC. *)
EXTENDS UMapNear

ManyKeys == 1..6
FewKeys == 1..3
=============================================================================
