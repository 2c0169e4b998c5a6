------------------------------ MODULE MCSendto ------------------------------
(***************************************************************************)
(* Two local users, a server link with two users behind it and a second    *)
(* server link.  Of two channels one has its members in a list, as a tree  *)
(* may come to look when keys are deleted, the other in a list or in a     *)
(* balanced tree.                                                          *)
(***************************************************************************)
EXTENDS Sendto

CONSTANTS c1, c2, l1, l2, s1, s2

TheChans == {c1, c2}
TheUsers == 1..4
TheMembers == c1 :> {1, 2, 3} @@ c2 :> {2, 3, 4}
TheLinks == 1 :> l1 @@ 2 :> s1 @@ 3 :> l2 @@ 4 :> s1

\* Members, in the order of their numbers, level by level and down to the right.
At(o, i) == IF i \in 1..Len(o) THEN o[i] ELSE None
Place(o, u) == CHOOSE i \in 1..(Len(o) + 1) : i > Len(o) \/ o[i] = u
Heap(o) == [root |-> At(o, 1),
            left |-> [u \in TheUsers |-> At(o, 2 * Place(o, u))],
            right |-> [u \in TheUsers |-> At(o, 2 * Place(o, u) + 1)]]
List(o) == [root |-> At(o, 1),
            left |-> [u \in TheUsers |-> None],
            right |-> [u \in TheUsers |-> At(o, Place(o, u) + 1)]]
TheTrees ==
    [s \in SUBSET TheUsers |->
        LET o == SetToSortSeq(s, LAMBDA a, b : a < b)
        IN  IF s = {1, 2, 3} THEN {Heap(o), List(o)}
            ELSE {IF 1 \in s THEN Heap(o) ELSE List(o)}]
=============================================================================
