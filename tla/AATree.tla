------------------------------- MODULE AATree -------------------------------
(***************************************************************************)
(* The balanced tree under u_map (src/src/map.c), as operators on tree     *)
(* values.  A tree is Nil or a record of a key, its data, a level and two  *)
(* children; level 0 stands for the null pointer.  Keys are integers: the  *)
(* addresses, or strings numbered in the order of strcmp.  The difference  *)
(* of two addresses is returned as an int, which keeps its lowest bits.    *)
(***************************************************************************)
EXTENDS Integers, Sequences, FiniteSets

CONSTANTS Keys,     \* keys of the map
          Data,     \* what the map holds
          None,     \* the null pointer
          HalfInt   \* an int is in -HalfInt..HalfInt-1

ASSUME AATreeAssumption ==
    /\ Keys \subseteq Int /\ IsFiniteSet(Keys) /\ None \notin Data
    /\ HalfInt \in Nat \ {0}

LEFT == "left"
RIGHT == "right"
Dirs == {LEFT, RIGHT}
Other(dir) == IF dir = LEFT THEN RIGHT ELSE LEFT

Nil == [level |-> 0]
IsNil(t) == t.level = 0

\* The trees of at most h nodes from the root down.  No two nodes of a tree have
\* the same key, so that in Tree are all of them.
HighTrees[h \in 0..Cardinality(Keys)] ==
    {Nil} \cup (IF h = 0 THEN {}
                ELSE [level : Nat \ {0}, key : Keys, data : Data \cup {None},
                      child : [Dirs -> HighTrees[h - 1]]])
Tree == HighTrees[Cardinality(Keys)]

\* u_map_n_new
NewNode(key, data) ==
    [level |-> 1, key |-> key, data |-> data, child |-> [dir \in Dirs |-> Nil]]

\* n_cmp: the difference, truncated to an int.  Of keys further apart than that
\* the sign may be wrong, and different ones may compare as equal.
n_cmp(j, k) == ((j - k + HalfInt) % (2 * HalfInt)) - HalfInt

\* Where a key is, seen from the root of t: at it, or on which side.
At(t, k) == n_cmp(t.key, k) = 0
Side(t, k) == IF n_cmp(t.key, k) < 0 THEN RIGHT ELSE LEFT

\* dumb_fetch: the node of a key, or Nil.
Fetch(t, k) ==
    LET fetch[n \in Tree] ==
            IF IsNil(n) \/ At(n, k) THEN n ELSE fetch[n.child[Side(n, k)]]
    IN  fetch[t]

\* The keys in the order of u_map_each_n.
InOrder[t \in Tree] ==
    IF IsNil(t) THEN << >>
    ELSE InOrder[t.child[LEFT]] \o << t.key >> \o InOrder[t.child[RIGHT]]

\* The assignment n->data = d at the node of key k.
SetData(t, k, d) ==
    LET set[n \in Tree] ==
            IF IsNil(n) THEN n
            ELSE IF At(n, k) THEN [n EXCEPT !.data = d]
            ELSE [n EXCEPT !.child[Side(n, k)] = set[@]]
    IN  set[t]

-----------------------------------------------------------------------------
\* Variant of Skew with a fault: the right child of the node that moves up is dropped.
SkewDrops(n) ==
    IF IsNil(n) \/ IsNil(n.child[LEFT]) \/ n.child[LEFT].level # n.level THEN n
    ELSE [n.child[LEFT] EXCEPT !.child[RIGHT] = [n EXCEPT !.child[LEFT] = Nil]]

Skew(n) ==
    IF IsNil(n) \/ IsNil(n.child[LEFT]) \/ n.child[LEFT].level # n.level THEN n
    ELSE LET m == n.child[LEFT]
         IN  [m EXCEPT !.child[RIGHT] = [n EXCEPT !.child[LEFT] = m.child[RIGHT]]]

Split(n) ==
    IF \/ IsNil(n) \/ IsNil(n.child[RIGHT])
       \/ n.level # n.child[RIGHT].child[RIGHT].level
    THEN n
    ELSE LET m == n.child[RIGHT]
         IN  [m EXCEPT !.level = @ + 1,
                       !.child[LEFT] = [n EXCEPT !.child[RIGHT] = m.child[LEFT]]]

\* A node that has only a right child takes the level above that child, not
\* level 1 as the textbook has it.
ShouldBe(l, r) ==
    1 + IF IsNil(l) THEN r.level
        ELSE IF IsNil(r) \/ l.level < r.level THEN l.level ELSE r.level

DecreaseLevel(t) ==
    LET level == ShouldBe(t.child[LEFT], t.child[RIGHT])
    IN  IF level >= t.level THEN t
        ELSE [t EXCEPT !.level = level,
                       !.child[RIGHT].level = IF level < @ THEN level ELSE @]

\* aa_insert
Insert(t, n) ==
    LET insert[m \in Tree] ==
            IF IsNil(m) THEN n
            ELSE Split(Skew([m EXCEPT !.child[Side(m, n.key)] = insert[@]]))
    IN  insert[t]

\* next: the node next to a node in key order, on the side dir.  Going away
\* from dir as far as possible from a child of the node.
Farthest(t, dir) ==
    LET next[n \in Tree] ==
            IF IsNil(n) \/ IsNil(n.child[dir]) THEN n ELSE next[n.child[dir]]
    IN  next[t]

\* The key of that node becomes k.
Rekey(t, dir, k) ==
    LET rekey[n \in Tree] ==
            IF IsNil(n) THEN n
            ELSE IF IsNil(n.child[dir]) THEN [n EXCEPT !.key = k]
            ELSE [n EXCEPT !.child[dir] = rekey[@]]
    IN  rekey[t]

\* The rotations after a deletion below t.
Rebalance(t) ==
    LET a == Skew(DecreaseLevel(t))
        b == [a EXCEPT !.child[RIGHT] = Skew(@)]
        c == IF IsNil(b.child[RIGHT]) THEN b
             ELSE [b EXCEPT !.child[RIGHT].child[RIGHT] = Skew(@)]
        d == Split(c)
    IN  [d EXCEPT !.child[RIGHT] = Split(@)]

\* aa_delete
Delete(t, k) ==
    LET delete[n \in Tree] ==
            IF IsNil(n) THEN Nil
            ELSE IF ~At(n, k)
            THEN Rebalance([n EXCEPT !.child[Side(n, k)] = delete[@]])
            ELSE IF \A dir \in Dirs : IsNil(n.child[dir]) THEN Nil
            ELSE LET c == IF IsNil(n.child[LEFT]) THEN RIGHT ELSE LEFT
                     m == Farthest(n.child[c], Other(c))
                 IN  Rebalance([n EXCEPT !.key = m.key, !.data = m.data,
                                         !.child[c] = delete[Rekey(@, Other(c), k)]])
    IN  delete[t]

-----------------------------------------------------------------------------
Height[t \in Tree] ==
    IF IsNil(t) THEN 0
    ELSE LET l == Height[t.child[LEFT]]
             r == Height[t.child[RIGHT]]
         IN  1 + IF l < r THEN r ELSE l
=============================================================================
