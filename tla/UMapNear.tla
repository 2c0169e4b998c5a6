------------------------------ MODULE UMapNear ------------------------------
(***************************************************************************)
(* UMap for keys as near to each other as the maps of the daemon need them *)
(* to be: the difference of any two is an int, so that n_cmp is their      *)
(* order.  That is so for strings, which strcmp compares, and for          *)
(* addresses within 2^31 bytes.  Nothing in the code sees to the latter;   *)
(* MCUMapFar has what happens to others.                                   *)
(***************************************************************************)
EXTENDS UMap

ASSUME KeysNear == \A j, k \in Keys : j - k < HalfInt
=============================================================================
