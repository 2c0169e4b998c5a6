----------------------------- MODULE Dictionary -----------------------------
(***************************************************************************)
(* What u_map promises its callers: a partial function from keys to data   *)
(* that changes at one key at a time, and its size.                        *)
(***************************************************************************)
EXTENDS Integers, FiniteSets

CONSTANTS Keys, Data, None

VARIABLES dict, count

Empty == [k \in Keys |-> None]
Live(d) == {k \in Keys : d[k] # None}

DictInit == dict = Empty /\ count = 0

\* One key is assigned or removed, or the map is emptied at once.
DictNext ==
    LET old == dict
        new == dict'
    IN  /\ new = Empty \/ \E k \in Keys : \A j \in Keys \ {k} : new[j] = old[j]
        /\ count' = Cardinality(Live(new))

DictSpec == DictInit /\ [][DictNext]_<<dict, count>>
=============================================================================
