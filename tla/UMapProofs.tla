----------------------------- MODULE UMapProofs -----------------------------
(***************************************************************************)
(* Proofs about UMap and the tree under it, for any data and any finite    *)
(* set of keys no two of which are further apart than an int can say       *)
(* (KeysNear): the tree holds what was set through every rotation, a loop  *)
(* visits everything once, and the map implements Dictionary.  Without     *)
(* that assumption n_cmp is no order and the map loses keys (MCUMapFar).   *)
(***************************************************************************)
EXTENDS UMapNear, WellFoundedInduction, FiniteSetTheorems, TLAPS

(***************************************************************************)
(* Induction and recursion in a form the provers can apply: about sets and *)
(* functions, not about operators.                                         *)
(***************************************************************************)
(* What holds at 0 and at i when it does at i - 1 holds up to a bound.      *)
LEMMA IndexInduction ==
  ASSUME NEW b \in Nat, NEW S, 0 \in S, \A i \in 1..b : i - 1 \in S => i \in S
  PROVE  0..b \subseteq S
<1> DEFINE T == 0..b \ S
           R == {ss \in Nat \X Nat : ss[1] < ss[2]}
<1>. SUFFICES ASSUME T # {} PROVE FALSE
  OBVIOUS
<1>1. IsWellFoundedOn(R, Nat)
  BY NatLessThanWellFounded DEF OpToRel
<1>2. PICK x \in T : \A y \in T : ~(<<y, x>> \in R)
  <2>1. T \subseteq Nat
    OBVIOUS
  <2> HIDE DEF R, T
  <2>. QED BY <1>1, <2>1, WFMin
<1>3. x \in 1..b /\ x - 1 \in 0..b /\ <<x - 1, x>> \in R
  OBVIOUS
<1>. QED BY <1>2, <1>3

(* b steps from x, of which the i-th applies the function G[i]: the values  *)
(* along the way are those of a recursive function, and in the set S.      *)
LEMMA StepsExist ==
  ASSUME NEW S, NEW x \in S, NEW b \in Nat, NEW G \in [1..b -> [S -> S]]
  PROVE  \E f \in [0..b -> S] : f[0] = x /\ \A i \in 1..b : f[i] = G[i][f[i - 1]]
<1> DEFINE Good(n, f) == /\ f \in [0..n -> S] /\ f[0] = x
                         /\ \A i \in 1..n : f[i] = G[i][f[i - 1]]
           T == {n \in 0..b : \E f : Good(n, f)}
<1>1. 0 \in T
  <2>1. Good(0, [i \in 0..0 |-> x])
    OBVIOUS
  <2> HIDE DEF Good
  <2>. QED BY <2>1
<1>2. ASSUME NEW n \in 1..b, n - 1 \in T PROVE n \in T
  <2>1. PICK f : Good(n - 1, f)
    BY <1>2
  <2> DEFINE g == [i \in 0..n |-> IF i = n THEN G[n][f[n - 1]] ELSE f[i]]
  <2>2. Good(n, g)
    BY <2>1
  <2> HIDE DEF Good, g
  <2>. QED BY <2>2
<1>3. b \in T
  <2> HIDE DEF T
  <2>1. 0..b \subseteq T
    BY <1>1, <1>2, IndexInduction
  <2>. QED BY <2>1
<1>. QED BY <1>3

(***************************************************************************)
(* Part 1: trees, and the recursive functions over them.                   *)
(***************************************************************************)
Values == Data \cup {None}
N == Cardinality(Keys)

\* Nodes over the trees of T, and a node by its fields.
Nodes(T) == [level : Nat \ {0}, key : Keys, data : Values, child : [Dirs -> T]]
Node(v, k, d, l, r) ==
    [level |-> v, key |-> k, data |-> d,
     child |-> [dir \in Dirs |-> IF dir = LEFT THEN l ELSE r]]

(* The number of keys is a number.                                         *)
LEMMA KeysCount == N \in Nat
BY AATreeAssumption, FS_CardinalityType DEF N

(* HighTrees is what its definition says: the recursion over the height    *)
(* has a solution.                                                         *)
LEMMA HighTreesDef ==
  HighTrees = [h \in 0..N |-> {Nil} \cup IF h = 0 THEN {} ELSE Nodes(HighTrees[h - 1])]
<1> DEFINE Is(n, f) == f = [h \in 0..n |-> {Nil} \cup IF h = 0 THEN {} ELSE Nodes(f[h - 1])]
           S == {n \in 0..N : \E f : Is(n, f)}
<1>0. N \in Nat
  BY KeysCount
<1>1. 0 \in S
  <2>1. Is(0, [h \in 0..0 |-> {Nil}])
    OBVIOUS
  <2> HIDE DEF Is
  <2>. QED BY <1>0, <2>1
<1>2. ASSUME NEW n \in 1..N, n - 1 \in S PROVE n \in S
  <2>1. PICK f : Is(n - 1, f)
    BY <1>2
  <2> DEFINE g == [h \in 0..n |-> IF h = n THEN {Nil} \cup Nodes(f[n - 1]) ELSE f[h]]
  <2>2. \A h \in 0..(n - 1) : g[h] = f[h]
    OBVIOUS
  <2>3. g[n] = {Nil} \cup Nodes(g[n - 1])
    BY <2>2, n - 1 \in 0..(n - 1)
  <2>4. ASSUME NEW h \in 0..n
        PROVE  g[h] = {Nil} \cup IF h = 0 THEN {} ELSE Nodes(g[h - 1])
    <3>1. CASE h = n
      BY <2>3, <3>1
    <3>2. CASE h # n
      <4>1. h \in 0..(n - 1) /\ (h # 0 => h - 1 \in 0..(n - 1))
        BY <3>2
      <4> HIDE DEF g
      <4>2. f[h] = {Nil} \cup IF h = 0 THEN {} ELSE Nodes(f[h - 1])
        BY <2>1, <4>1
      <4>. QED BY <2>2, <4>1, <4>2
    <3>. QED BY <3>1, <3>2
  <2>5. g = [h \in 0..n |-> g[h]]
    OBVIOUS
  <2>6. Is(n, g)
    <3> HIDE DEF g
    <3>. QED BY <2>4, <2>5
  <2> HIDE DEF Is, g
  <2>. QED BY <2>6
<1>3. N \in S
  <2> HIDE DEF S
  <2>. QED BY <1>0, <1>1, <1>2, IndexInduction
<1>4. \E f : Is(N, f)
  BY <1>3
<1>5. HighTrees = CHOOSE f : Is(N, f)
  BY DEF HighTrees, Nodes, Values, N
<1> HIDE DEF Is
<1>6. Is(N, HighTrees)
  BY <1>4, <1>5
<1>. QED BY <1>6 DEF Is

(* The trees of one height more.                                           *)
LEMMA HighTreesAt ==
  /\ HighTrees[0] = {Nil}
  /\ \A h \in 1..N : HighTrees[h] = {Nil} \cup Nodes(HighTrees[h - 1])
<1>1. \A h \in 0..N : HighTrees[h] = {Nil} \cup IF h = 0 THEN {} ELSE Nodes(HighTrees[h - 1])
  <2> DEFINE e(h) == {Nil} \cup IF h = 0 THEN {} ELSE Nodes(HighTrees[h - 1])
  <2>1. HighTrees = [h \in 0..N |-> e(h)]
    BY HighTreesDef
  <2> HIDE DEF e
  <2>2. \A h \in 0..N : HighTrees[h] = e(h)
    BY <2>1
  <2>. QED BY <2>2 DEF e
<1>2. 0 \in 0..N
  BY KeysCount
<1>. QED BY <1>1, <1>2, KeysCount

(* A tree of a height is one of every greater height.                      *)
LEMMA Higher ==
  ASSUME NEW i \in 0..N, NEW j \in 0..N, i <= j
  PROVE  HighTrees[i] \subseteq HighTrees[j]
<1> DEFINE S == {h \in 0..N : h = 0 \/ HighTrees[h - 1] \subseteq HighTrees[h]}
<1>0. N \in Nat
  BY KeysCount
<1>1. 0 \in S
  BY <1>0
<1>2. ASSUME NEW h \in 1..N, h - 1 \in S PROVE h \in S
  <2>1. HighTrees[h] = {Nil} \cup Nodes(HighTrees[h - 1])
    BY HighTreesAt
  <2>2. CASE h - 1 = 0
    <3>1. h \in 0..N
      BY <1>0
    <3>2. HighTrees[h - 1] = {Nil}
      BY <2>2, HighTreesAt
    <3>3. HighTrees[h - 1] \subseteq HighTrees[h]
      BY <2>1, <3>2
    <3>. QED BY <3>3, <1>0
  <2>3. CASE h - 1 # 0
    <3>1. h - 1 \in 1..N
      BY <2>3, <1>0
    <3>2. HighTrees[h - 1] = {Nil} \cup Nodes(HighTrees[h - 1 - 1])
      BY <3>1, HighTreesAt
    <3>3. HighTrees[h - 1 - 1] \subseteq HighTrees[h - 1]
      BY <1>2, <2>3
    <3>4. Nodes(HighTrees[h - 1 - 1]) \subseteq Nodes(HighTrees[h - 1])
      BY <3>3 DEF Nodes
    <3>5. HighTrees[h - 1] \subseteq HighTrees[h]
      BY <2>1, <3>2, <3>4
    <3>. QED BY <3>5, <1>0
  <2>. QED BY <2>2, <2>3
<1>3. 0..N \subseteq S
  <2> HIDE DEF S
  <2>. QED BY <1>0, <1>1, <1>2, IndexInduction
<1>4. \A h \in 1..N : HighTrees[h - 1] \subseteq HighTrees[h]
  BY <1>3
<1> DEFINE T == {h \in 0..N : i <= h => HighTrees[i] \subseteq HighTrees[h]}
<1>5. 0 \in T
  BY <1>0
<1>6. ASSUME NEW h \in 1..N, h - 1 \in T PROVE h \in T
  <2>1. CASE i = h BY <2>1
  <2>2. CASE i # h
    BY <2>2, <1>6, <1>4
  <2>. QED BY <2>1, <2>2
<1>7. 0..N \subseteq T
  <2> HIDE DEF T
  <2>. QED BY <1>0, <1>5, <1>6, IndexInduction
<1>. QED BY <1>7

(* Every tree of a height has at most the height of Tree.                   *)
LEMMA InHighTree ==
  /\ \A h \in 0..N : HighTrees[h] \subseteq Tree
  /\ \A h \in 1..N : HighTrees[h - 1] \subseteq HighTrees[h]
<1>1. Tree = HighTrees[N]
  BY DEF Tree, N
<1>2. \A h \in 0..N : HighTrees[h] \subseteq HighTrees[N]
  BY Higher, KeysCount
<1>3. ASSUME NEW h \in 1..N PROVE HighTrees[h - 1] \subseteq HighTrees[h]
  <2>1. h - 1 \in 0..N /\ h \in 0..N /\ h - 1 <= h
    BY KeysCount
  <2>. QED BY <2>1, Higher
<1>. QED BY <1>1, <1>2, <1>3

(* What a tree is, if it is not Nil.                                       *)
LEMMA NodeForm ==
  ASSUME NEW T, NEW t \in Nodes(T)
  PROVE  /\ ~IsNil(t) /\ t.level \in Nat \ {0} /\ t.key \in Keys /\ t.data \in Values
         /\ t.child[LEFT] \in T /\ t.child[RIGHT] \in T
         /\ \A dir \in Dirs : t.child[dir] \in T
         /\ t = Node(t.level, t.key, t.data, t.child[LEFT], t.child[RIGHT])
BY DEF Nodes, Node, IsNil, Dirs, LEFT, RIGHT

(* The fields of a node.                                                   *)
LEMMA NodeFields ==
  ASSUME NEW v \in Nat \ {0}, NEW k, NEW d, NEW l, NEW r
  PROVE  LET t == Node(v, k, d, l, r)
         IN  /\ ~IsNil(t) /\ t.level = v /\ t.key = k /\ t.data = d
             /\ t.child[LEFT] = l /\ t.child[RIGHT] = r
BY DEF Node, IsNil, Dirs, LEFT, RIGHT

(* A node over typed fields is a node.                                     *)
LEMMA NodeIn ==
  ASSUME NEW T, NEW v \in Nat \ {0}, NEW k \in Keys, NEW d \in Values, NEW l \in T, NEW r \in T
  PROVE  Node(v, k, d, l, r) \in Nodes(T)
BY DEF Nodes, Node, Dirs, LEFT, RIGHT

(* A node after an assignment to the level.                                 *)
LEMMA ExceptLevel ==
  ASSUME NEW T, NEW t \in Nodes(T), NEW x
  PROVE  [t EXCEPT !.level = x] = Node(x, t.key, t.data, t.child[LEFT], t.child[RIGHT])
BY DEF Node, Nodes, Dirs, LEFT, RIGHT

(* A node after an assignment to the key.                                   *)
LEMMA ExceptKey ==
  ASSUME NEW T, NEW t \in Nodes(T), NEW x
  PROVE  [t EXCEPT !.key = x] = Node(t.level, x, t.data, t.child[LEFT], t.child[RIGHT])
BY DEF Node, Nodes, Dirs, LEFT, RIGHT

(* A node after an assignment to the data.                                  *)
LEMMA ExceptData ==
  ASSUME NEW T, NEW t \in Nodes(T), NEW x
  PROVE  [t EXCEPT !.data = x] = Node(t.level, t.key, x, t.child[LEFT], t.child[RIGHT])
BY DEF Node, Nodes, Dirs, LEFT, RIGHT

(* A node after an assignment to the left child.                            *)
LEMMA ExceptLeft ==
  ASSUME NEW T, NEW t \in Nodes(T), NEW x
  PROVE  [t EXCEPT !.child[LEFT] = x] = Node(t.level, t.key, t.data, x, t.child[RIGHT])
BY DEF Node, Nodes, Dirs, LEFT, RIGHT

(* A node after an assignment to the right child.                           *)
LEMMA ExceptRight ==
  ASSUME NEW T, NEW t \in Nodes(T), NEW x
  PROVE  [t EXCEPT !.child[RIGHT] = x] = Node(t.level, t.key, t.data, t.child[LEFT], x)
BY DEF Node, Nodes, Dirs, LEFT, RIGHT

(* The children of a tree are trees of a smaller height.                   *)
LEMMA Children ==
  /\ Nil \in Tree /\ IsNil(Nil)
  /\ \A h \in 0..N : Nil \in HighTrees[h]
  /\ \A n \in HighTrees[0] : n = Nil
  /\ \A h \in 1..N : \A n \in HighTrees[h] :
        ~IsNil(n) => /\ n \in Nodes(HighTrees[h - 1])
                     /\ \A dir \in Dirs : n.child[dir] \in HighTrees[h - 1]
<1>1. IsNil(Nil)
  BY DEF Nil, IsNil
<1>2. \A h \in 0..N : Nil \in HighTrees[h]
  <2>1. Nil \in HighTrees[0]
    BY HighTreesAt
  <2>2. ASSUME NEW h \in 0..N PROVE HighTrees[0] \subseteq HighTrees[h]
    <3>1. 0 \in 0..N /\ 0 <= h
      BY KeysCount
    <3>. QED BY <3>1, Higher
  <2>. QED BY <2>1, <2>2
<1>3. Nil \in Tree
  BY <1>2, KeysCount DEF Tree, N
<1>4. ASSUME NEW h \in 1..N, NEW n \in HighTrees[h], ~IsNil(n)
      PROVE  /\ n \in Nodes(HighTrees[h - 1])
             /\ \A dir \in Dirs : n.child[dir] \in HighTrees[h - 1]
  <2>1. n \in Nodes(HighTrees[h - 1])
    BY <1>1, <1>4, HighTreesAt
  <2>. QED BY <2>1, NodeForm
<1>. QED BY <1>1, <1>2, <1>3, <1>4, HighTreesAt

(* A tree is Nil or a node over trees.                                      *)
LEMMA TreeForm ==
  ASSUME NEW t \in Tree, ~IsNil(t)
  PROVE  t \in Nodes(Tree)
<1>1. t \in HighTrees[N]
  BY DEF Tree, N
<1>2. N \in 1..N
  BY <1>1, Children, KeysCount
<1>3. t \in Nodes(HighTrees[N - 1])
  BY <1>1, <1>2, Children
<1>4. HighTrees[N - 1] \subseteq Tree
  BY <1>2, InHighTree
<1>. QED BY <1>3, <1>4 DEF Nodes

(* A side is a direction.                                                   *)
LEMMA SideType == \A t, k : Side(t, k) \in Dirs
BY DEF Side, Dirs

(* Of near keys the difference is no other for being an int, so n_cmp is   *)
(* the order of the integers.                                               *)
LEMMA NearOrder == \A j, k \in Keys : n_cmp(j, k) = j - k
<1>1. ASSUME NEW x \in Int, NEW m \in Int, 0 <= x, x < m PROVE x % m = x
  BY <1>1
<1>2. SUFFICES ASSUME NEW j \in Keys, NEW k \in Keys PROVE n_cmp(j, k) = j - k
  OBVIOUS
<1>3. j \in Int /\ k \in Int /\ HalfInt \in Nat \ {0}
  BY AATreeAssumption
<1>4. 0 <= j - k + HalfInt /\ j - k + HalfInt < 2 * HalfInt
  BY <1>3, KeysNear
<1>5. j - k + HalfInt \in Int /\ 2 * HalfInt \in Int
  BY <1>3
<1>6. (j - k + HalfInt) % (2 * HalfInt) = j - k + HalfInt
  BY <1>1, <1>4, <1>5
<1>. QED BY <1>3, <1>6 DEF n_cmp

(* So a search turns at a node as the keys are ordered.                    *)
LEMMA SideOf ==
  ASSUME NEW t, t.key \in Keys, NEW k \in Keys
  PROVE  /\ At(t, k) <=> t.key = k
         /\ Side(t, k) = IF t.key < k THEN RIGHT ELSE LEFT
<1>1. n_cmp(t.key, k) = t.key - k
  BY NearOrder
<1>2. t.key \in Int /\ k \in Int
  BY AATreeAssumption
<1>. QED BY <1>1, <1>2 DEF At, Side

LEMMA AtKey == \A t \in Tree : \A k \in Keys : ~IsNil(t) => (At(t, k) <=> t.key = k)
<1>. SUFFICES ASSUME NEW t \in Tree, NEW k \in Keys, ~IsNil(t) PROVE At(t, k) <=> t.key = k
  OBVIOUS
<1>1. t.key \in Keys
  BY TreeForm, NodeForm
<1>. QED BY <1>1, SideOf

(* The search goes down one child.                                          *)
LEMMA FetchDef ==
  ASSUME NEW k \in Keys
  PROVE  \A t \in Tree : Fetch(t, k) =
             IF IsNil(t) \/ t.key = k THEN t ELSE Fetch(t.child[Side(t, k)], k)
<1> DEFINE body(f, n) ==
             IF IsNil(n) \/ At(n, k) THEN n ELSE f[n.child[Side(n, k)]]
           Is(h, f) == f = [n \in HighTrees[h] |-> body(f, n)]
           S == {h \in 0..N : \E f : Is(h, f)}
<1>0. N \in Nat
  BY KeysCount
<1>1. 0 \in S
  <2> DEFINE g == [n \in HighTrees[0] |-> n]
  <2>1. \A n \in HighTrees[0] : IsNil(n)
    BY Children
  <2>2. \A n \in HighTrees[0] : body(g, n) = n
    BY <2>1
  <2>3. Is(0, g)
    <3> HIDE DEF body
    <3>. QED BY <2>2
  <2> HIDE DEF Is, g
  <2>. QED BY <1>0, <2>3
<1>2. ASSUME NEW h \in 1..N, h - 1 \in S PROVE h \in S
  <2>1. PICK f : Is(h - 1, f)
    BY <1>2
  <2> DEFINE g == [n \in HighTrees[h] |-> body(f, n)]
  <2>2. ASSUME NEW c \in HighTrees[h - 1] PROVE g[c] = f[c]
    <3>1. c \in HighTrees[h]
      BY InHighTree
    <3> HIDE DEF body
    <3>. QED BY <2>1, <3>1
  <2> HIDE DEF g
  <2>3. ASSUME NEW n \in HighTrees[h] PROVE body(g, n) = body(f, n)
    <3>1. CASE IsNil(n)
      BY <3>1
    <3>2. CASE ~IsNil(n)
      <4>1. \A dir \in Dirs : g[n.child[dir]] = f[n.child[dir]]
        BY <2>2, <3>2, Children
      <4>. QED BY <4>1, SideType DEF Dirs
    <3>. QED BY <3>1, <3>2
  <2>4. Is(h, g)
    <3> HIDE DEF body
    <3>. QED BY <2>3 DEF g
  <2> HIDE DEF Is
  <2>. QED BY <2>4, <1>0
<1>3. N \in S
  <2> HIDE DEF S
  <2>. QED BY <1>0, <1>1, <1>2, IndexInduction
<1>4. \E f : Is(N, f)
  BY <1>3
<1> DEFINE all == CHOOSE f : Is(N, f)
<1>5. Is(N, all)
  <2> HIDE DEF Is
  <2>. QED BY <1>4
<1>6. \A t \in Tree : all[t] = body(all, t)
  <2> HIDE DEF body, all
  <2>. QED BY <1>5 DEF Tree, N
<1>7. \A t : Fetch(t, k) = all[t]
  BY DEF Fetch, Tree, N
<1> HIDE DEF all
<1>8. \A t \in Tree : body(all, t) =
             IF IsNil(t) \/ t.key = k THEN t ELSE Fetch(t.child[Side(t, k)], k)
  BY <1>7, SideType, AtKey DEF Dirs
<1> HIDE DEF body
<1>. QED BY <1>6, <1>7, <1>8

(* The assignment goes down one child.                                      *)
LEMMA SetDataDef ==
  ASSUME NEW k \in Keys, NEW d
  PROVE  \A t \in Tree : SetData(t, k, d) =
             IF IsNil(t) THEN t
             ELSE IF t.key = k THEN [t EXCEPT !.data = d]
             ELSE [t EXCEPT !.child[Side(t, k)] = SetData(@, k, d)]
<1> DEFINE body(f, n) ==
             IF IsNil(n) THEN n
             ELSE IF At(n, k) THEN [n EXCEPT !.data = d]
             ELSE [n EXCEPT !.child[Side(n, k)] = f[@]]
           Is(h, f) == f = [n \in HighTrees[h] |-> body(f, n)]
           S == {h \in 0..N : \E f : Is(h, f)}
<1>0. N \in Nat
  BY KeysCount
<1>1. 0 \in S
  <2> DEFINE g == [n \in HighTrees[0] |-> n]
  <2>1. \A n \in HighTrees[0] : IsNil(n)
    BY Children
  <2>2. \A n \in HighTrees[0] : body(g, n) = n
    BY <2>1
  <2>3. Is(0, g)
    <3> HIDE DEF body
    <3>. QED BY <2>2
  <2> HIDE DEF Is, g
  <2>. QED BY <1>0, <2>3
<1>2. ASSUME NEW h \in 1..N, h - 1 \in S PROVE h \in S
  <2>1. PICK f : Is(h - 1, f)
    BY <1>2
  <2> DEFINE g == [n \in HighTrees[h] |-> body(f, n)]
  <2>2. ASSUME NEW c \in HighTrees[h - 1] PROVE g[c] = f[c]
    <3>1. c \in HighTrees[h]
      BY InHighTree
    <3> HIDE DEF body
    <3>. QED BY <2>1, <3>1
  <2> HIDE DEF g
  <2>3. ASSUME NEW n \in HighTrees[h] PROVE body(g, n) = body(f, n)
    <3>1. CASE IsNil(n)
      BY <3>1
    <3>2. CASE ~IsNil(n)
      <4>1. \A dir \in Dirs : g[n.child[dir]] = f[n.child[dir]]
        BY <2>2, <3>2, Children
      <4>. QED BY <4>1, SideType DEF Dirs
    <3>. QED BY <3>1, <3>2
  <2>4. Is(h, g)
    <3> HIDE DEF body
    <3>. QED BY <2>3 DEF g
  <2> HIDE DEF Is
  <2>. QED BY <2>4, <1>0
<1>3. N \in S
  <2> HIDE DEF S
  <2>. QED BY <1>0, <1>1, <1>2, IndexInduction
<1>4. \E f : Is(N, f)
  BY <1>3
<1> DEFINE all == CHOOSE f : Is(N, f)
<1>5. Is(N, all)
  <2> HIDE DEF Is
  <2>. QED BY <1>4
<1>6. \A t \in Tree : all[t] = body(all, t)
  <2> HIDE DEF body, all
  <2>. QED BY <1>5 DEF Tree, N
<1>7. \A t : SetData(t, k, d) = all[t]
  BY DEF SetData, Tree, N
<1> HIDE DEF all
<1>8. \A t \in Tree : body(all, t) =
             IF IsNil(t) THEN t
             ELSE IF t.key = k THEN [t EXCEPT !.data = d]
             ELSE [t EXCEPT !.child[Side(t, k)] = SetData(@, k, d)]
  BY <1>7, SideType, AtKey DEF Dirs
<1> HIDE DEF body
<1>. QED BY <1>6, <1>7, <1>8

(* The insertion goes down one child and rotates on its way back.           *)
LEMMA InsertDef ==
  ASSUME NEW m
  PROVE  \A t \in Tree : Insert(t, m) =
             IF IsNil(t) THEN m
             ELSE Split(Skew([t EXCEPT !.child[Side(t, m.key)] = Insert(@, m)]))
<1> DEFINE body(f, n) ==
             IF IsNil(n) THEN m
             ELSE Split(Skew([n EXCEPT !.child[Side(n, m.key)] = f[@]]))
           Is(h, f) == f = [n \in HighTrees[h] |-> body(f, n)]
           S == {h \in 0..N : \E f : Is(h, f)}
<1>0. N \in Nat
  BY KeysCount
<1>1. 0 \in S
  <2> DEFINE g == [n \in HighTrees[0] |-> m]
  <2>1. \A n \in HighTrees[0] : IsNil(n)
    BY Children
  <2>2. \A n \in HighTrees[0] : body(g, n) = m
    BY <2>1
  <2>3. Is(0, g)
    <3> HIDE DEF body
    <3>. QED BY <2>2
  <2> HIDE DEF Is, g
  <2>. QED BY <1>0, <2>3
<1>2. ASSUME NEW h \in 1..N, h - 1 \in S PROVE h \in S
  <2>1. PICK f : Is(h - 1, f)
    BY <1>2
  <2> DEFINE g == [n \in HighTrees[h] |-> body(f, n)]
  <2>2. ASSUME NEW c \in HighTrees[h - 1] PROVE g[c] = f[c]
    <3>1. c \in HighTrees[h]
      BY InHighTree
    <3> HIDE DEF body
    <3>. QED BY <2>1, <3>1
  <2> HIDE DEF g
  <2>3. ASSUME NEW n \in HighTrees[h] PROVE body(g, n) = body(f, n)
    <3>1. CASE IsNil(n)
      BY <3>1
    <3>2. CASE ~IsNil(n)
      <4>1. \A dir \in Dirs : g[n.child[dir]] = f[n.child[dir]]
        BY <2>2, <3>2, Children
      <4>. QED BY <4>1, SideType DEF Dirs
    <3>. QED BY <3>1, <3>2
  <2>4. Is(h, g)
    <3> HIDE DEF body
    <3>. QED BY <2>3 DEF g
  <2> HIDE DEF Is
  <2>. QED BY <2>4, <1>0
<1>3. N \in S
  <2> HIDE DEF S
  <2>. QED BY <1>0, <1>1, <1>2, IndexInduction
<1>4. \E f : Is(N, f)
  BY <1>3
<1> DEFINE all == CHOOSE f : Is(N, f)
<1>5. Is(N, all)
  <2> HIDE DEF Is
  <2>. QED BY <1>4
<1>6. \A t \in Tree : all[t] = body(all, t)
  <2> HIDE DEF body, all
  <2>. QED BY <1>5 DEF Tree, N
<1>7. \A t : Insert(t, m) = all[t]
  BY DEF Insert, Tree, N
<1> HIDE DEF all
<1>8. \A t \in Tree : body(all, t) =
             IF IsNil(t) THEN m
             ELSE Split(Skew([t EXCEPT !.child[Side(t, m.key)] = Insert(@, m)]))
  BY <1>7, SideType DEF Dirs
<1> HIDE DEF body
<1>. QED BY <1>6, <1>7, <1>8

(* The search for the neighbour goes down in one direction.                 *)
LEMMA FarthestDef ==
  ASSUME NEW dir \in Dirs
  PROVE  \A t \in Tree : Farthest(t, dir) =
             IF IsNil(t) \/ IsNil(t.child[dir]) THEN t ELSE Farthest(t.child[dir], dir)
<1> DEFINE body(f, n) ==
             IF IsNil(n) \/ IsNil(n.child[dir]) THEN n ELSE f[n.child[dir]]
           Is(h, f) == f = [n \in HighTrees[h] |-> body(f, n)]
           S == {h \in 0..N : \E f : Is(h, f)}
<1>0. N \in Nat
  BY KeysCount
<1>1. 0 \in S
  <2> DEFINE g == [n \in HighTrees[0] |-> n]
  <2>1. \A n \in HighTrees[0] : IsNil(n)
    BY Children
  <2>2. \A n \in HighTrees[0] : body(g, n) = n
    BY <2>1
  <2>3. Is(0, g)
    <3> HIDE DEF body
    <3>. QED BY <2>2
  <2> HIDE DEF Is, g
  <2>. QED BY <1>0, <2>3
<1>2. ASSUME NEW h \in 1..N, h - 1 \in S PROVE h \in S
  <2>1. PICK f : Is(h - 1, f)
    BY <1>2
  <2> DEFINE g == [n \in HighTrees[h] |-> body(f, n)]
  <2>2. ASSUME NEW c \in HighTrees[h - 1] PROVE g[c] = f[c]
    <3>1. c \in HighTrees[h]
      BY InHighTree
    <3> HIDE DEF body
    <3>. QED BY <2>1, <3>1
  <2> HIDE DEF g
  <2>3. ASSUME NEW n \in HighTrees[h] PROVE body(g, n) = body(f, n)
    <3>1. CASE IsNil(n)
      BY <3>1
    <3>2. CASE ~IsNil(n)
      <4>1. \A e \in Dirs : g[n.child[e]] = f[n.child[e]]
        BY <2>2, <3>2, Children
      <4>. QED BY <4>1 DEF Dirs
    <3>. QED BY <3>1, <3>2
  <2>4. Is(h, g)
    <3> HIDE DEF body
    <3>. QED BY <2>3 DEF g
  <2> HIDE DEF Is
  <2>. QED BY <2>4, <1>0
<1>3. N \in S
  <2> HIDE DEF S
  <2>. QED BY <1>0, <1>1, <1>2, IndexInduction
<1>4. \E f : Is(N, f)
  BY <1>3
<1> DEFINE all == CHOOSE f : Is(N, f)
<1>5. Is(N, all)
  <2> HIDE DEF Is
  <2>. QED BY <1>4
<1>6. \A t \in Tree : all[t] = body(all, t)
  <2> HIDE DEF body, all
  <2>. QED BY <1>5 DEF Tree, N
<1>7. \A t : Farthest(t, dir) = all[t]
  BY DEF Farthest, Tree, N
<1> HIDE DEF all
<1>8. \A t \in Tree : body(all, t) =
             IF IsNil(t) \/ IsNil(t.child[dir]) THEN t ELSE Farthest(t.child[dir], dir)
  BY <1>7 DEF Dirs
<1> HIDE DEF body
<1>. QED BY <1>6, <1>7, <1>8

(* So does the assignment of a key to it.                                   *)
LEMMA RekeyDef ==
  ASSUME NEW dir \in Dirs, NEW k
  PROVE  \A t \in Tree : Rekey(t, dir, k) =
             IF IsNil(t) THEN t
             ELSE IF IsNil(t.child[dir]) THEN [t EXCEPT !.key = k]
             ELSE [t EXCEPT !.child[dir] = Rekey(@, dir, k)]
<1> DEFINE body(f, n) ==
             IF IsNil(n) THEN n
             ELSE IF IsNil(n.child[dir]) THEN [n EXCEPT !.key = k]
             ELSE [n EXCEPT !.child[dir] = f[@]]
           Is(h, f) == f = [n \in HighTrees[h] |-> body(f, n)]
           S == {h \in 0..N : \E f : Is(h, f)}
<1>0. N \in Nat
  BY KeysCount
<1>1. 0 \in S
  <2> DEFINE g == [n \in HighTrees[0] |-> n]
  <2>1. \A n \in HighTrees[0] : IsNil(n)
    BY Children
  <2>2. \A n \in HighTrees[0] : body(g, n) = n
    BY <2>1
  <2>3. Is(0, g)
    <3> HIDE DEF body
    <3>. QED BY <2>2
  <2> HIDE DEF Is, g
  <2>. QED BY <1>0, <2>3
<1>2. ASSUME NEW h \in 1..N, h - 1 \in S PROVE h \in S
  <2>1. PICK f : Is(h - 1, f)
    BY <1>2
  <2> DEFINE g == [n \in HighTrees[h] |-> body(f, n)]
  <2>2. ASSUME NEW c \in HighTrees[h - 1] PROVE g[c] = f[c]
    <3>1. c \in HighTrees[h]
      BY InHighTree
    <3> HIDE DEF body
    <3>. QED BY <2>1, <3>1
  <2> HIDE DEF g
  <2>3. ASSUME NEW n \in HighTrees[h] PROVE body(g, n) = body(f, n)
    <3>1. CASE IsNil(n)
      BY <3>1
    <3>2. CASE ~IsNil(n)
      <4>1. \A e \in Dirs : g[n.child[e]] = f[n.child[e]]
        BY <2>2, <3>2, Children
      <4>. QED BY <4>1 DEF Dirs
    <3>. QED BY <3>1, <3>2
  <2>4. Is(h, g)
    <3> HIDE DEF body
    <3>. QED BY <2>3 DEF g
  <2> HIDE DEF Is
  <2>. QED BY <2>4, <1>0
<1>3. N \in S
  <2> HIDE DEF S
  <2>. QED BY <1>0, <1>1, <1>2, IndexInduction
<1>4. \E f : Is(N, f)
  BY <1>3
<1> DEFINE all == CHOOSE f : Is(N, f)
<1>5. Is(N, all)
  <2> HIDE DEF Is
  <2>. QED BY <1>4
<1>6. \A t \in Tree : all[t] = body(all, t)
  <2> HIDE DEF body, all
  <2>. QED BY <1>5 DEF Tree, N
<1>7. \A t : Rekey(t, dir, k) = all[t]
  BY DEF Rekey, Tree, N
<1> HIDE DEF all
<1>8. \A t \in Tree : body(all, t) =
             IF IsNil(t) THEN t
             ELSE IF IsNil(t.child[dir]) THEN [t EXCEPT !.key = k]
             ELSE [t EXCEPT !.child[dir] = Rekey(@, dir, k)]
  BY <1>7 DEF Dirs
<1> HIDE DEF body
<1>. QED BY <1>6, <1>7, <1>8

(* The order of a tree is that of its parts.                                 *)
LEMMA InOrderDef ==
  \A t \in Tree : InOrder[t] =
             IF IsNil(t) THEN << >>
             ELSE InOrder[t.child[LEFT]] \o << t.key >> \o InOrder[t.child[RIGHT]]
<1> DEFINE body(f, n) ==
             IF IsNil(n) THEN << >>
             ELSE f[n.child[LEFT]] \o << n.key >> \o f[n.child[RIGHT]]
           Is(h, f) == f = [n \in HighTrees[h] |-> body(f, n)]
           S == {h \in 0..N : \E f : Is(h, f)}
<1>0. N \in Nat
  BY KeysCount
<1>1. 0 \in S
  <2> DEFINE g == [n \in HighTrees[0] |-> << >>]
  <2>1. \A n \in HighTrees[0] : IsNil(n)
    BY Children
  <2>2. \A n \in HighTrees[0] : body(g, n) = << >>
    BY <2>1
  <2>3. Is(0, g)
    <3> HIDE DEF body
    <3>. QED BY <2>2
  <2> HIDE DEF Is, g
  <2>. QED BY <1>0, <2>3
<1>2. ASSUME NEW h \in 1..N, h - 1 \in S PROVE h \in S
  <2>1. PICK f : Is(h - 1, f)
    BY <1>2
  <2> DEFINE g == [n \in HighTrees[h] |-> body(f, n)]
  <2>2. ASSUME NEW c \in HighTrees[h - 1] PROVE g[c] = f[c]
    <3>1. c \in HighTrees[h]
      BY InHighTree
    <3> HIDE DEF body
    <3>. QED BY <2>1, <3>1
  <2> HIDE DEF g
  <2>3. ASSUME NEW n \in HighTrees[h] PROVE body(g, n) = body(f, n)
    <3>1. CASE IsNil(n)
      BY <3>1
    <3>2. CASE ~IsNil(n)
      <4>1. \A dir \in Dirs : g[n.child[dir]] = f[n.child[dir]]
        BY <2>2, <3>2, Children
      <4>. QED BY <4>1 DEF Dirs
    <3>. QED BY <3>1, <3>2
  <2>4. Is(h, g)
    <3> HIDE DEF body
    <3>. QED BY <2>3 DEF g
  <2> HIDE DEF Is
  <2>. QED BY <2>4, <1>0
<1>3. N \in S
  <2> HIDE DEF S
  <2>. QED BY <1>0, <1>1, <1>2, IndexInduction
<1>4. \E f : Is(N, f)
  BY <1>3
<1> DEFINE all == CHOOSE f : Is(N, f)
<1>5. Is(N, all)
  <2> HIDE DEF Is
  <2>. QED BY <1>4
<1>6. \A t \in Tree : all[t] = body(all, t)
  <2> HIDE DEF body, all
  <2>. QED BY <1>5 DEF Tree, N
<1>7. \A t : InOrder[t] = all[t]
  BY DEF InOrder, Tree, N
<1> HIDE DEF all
<1>8. \A t \in Tree : body(all, t) =
             IF IsNil(t) THEN << >>
             ELSE InOrder[t.child[LEFT]] \o << t.key >> \o InOrder[t.child[RIGHT]]
  BY <1>7 DEF Dirs
<1> HIDE DEF body
<1>. QED BY <1>6, <1>7, <1>8

(* An assignment to a key or to a child keeps the height.                    *)
LEMMA NodesExcept ==
  ASSUME NEW T, NEW t \in Nodes(T)
  PROVE  /\ \A k \in Keys : [t EXCEPT !.key = k] \in Nodes(T)
         /\ \A d \in Values : [t EXCEPT !.data = d] \in Nodes(T)
         /\ \A dir \in Dirs : \A c \in T : [t EXCEPT !.child[dir] = c] \in Nodes(T)
<1>1. ASSUME NEW k \in Keys PROVE [t EXCEPT !.key = k] \in Nodes(T)
  BY DEF Nodes
<1>2. ASSUME NEW d \in Values PROVE [t EXCEPT !.data = d] \in Nodes(T)
  BY DEF Nodes
<1>3. ASSUME NEW dir \in Dirs, NEW c \in T PROVE [t EXCEPT !.child[dir] = c] \in Nodes(T)
  BY DEF Nodes
<1>. QED BY <1>1, <1>2, <1>3

(* Another key does not change the height of a tree.                         *)
LEMMA RekeyHigh ==
  ASSUME NEW dir \in Dirs, NEW k \in Keys
  PROVE  \A h \in 0..N : \A t \in HighTrees[h] : Rekey(t, dir, k) \in HighTrees[h]
<1> DEFINE S == {h \in 0..N : \A t \in HighTrees[h] : Rekey(t, dir, k) \in HighTrees[h]}
<1>0. N \in Nat
  BY KeysCount
<1>1. 0 \in S
  BY <1>0, Children, RekeyDef
<1>2. ASSUME NEW h \in 1..N, h - 1 \in S PROVE h \in S
  <2>1. SUFFICES ASSUME NEW t \in HighTrees[h] PROVE Rekey(t, dir, k) \in HighTrees[h]
    BY <1>0
  <2>2. t \in Tree
    BY InHighTree, <1>0
  <2>3. CASE IsNil(t)
    BY <2>2, <2>3, RekeyDef
  <2>4. CASE ~IsNil(t)
    <3>1. t \in Nodes(HighTrees[h - 1]) /\ t.child[dir] \in HighTrees[h - 1]
      BY <2>4, Children
    <3>2. Nodes(HighTrees[h - 1]) \subseteq HighTrees[h]
      BY HighTreesAt
    <3>3. CASE IsNil(t.child[dir])
      <4>1. Rekey(t, dir, k) = [t EXCEPT !.key = k]
        BY <2>2, <2>4, <3>3, RekeyDef
      <4>. QED BY <3>1, <3>2, <4>1, NodesExcept
    <3>4. CASE ~IsNil(t.child[dir])
      <4>1. Rekey(t, dir, k) = [t EXCEPT !.child[dir] = Rekey(t.child[dir], dir, k)]
        BY <2>2, <2>4, <3>4, RekeyDef
      <4>2. Rekey(t.child[dir], dir, k) \in HighTrees[h - 1]
        BY <1>2, <3>1
      <4>. QED BY <3>1, <3>2, <4>1, <4>2, NodesExcept
    <3>. QED BY <3>3, <3>4
  <2>. QED BY <2>3, <2>4
<1>3. 0..N \subseteq S
  <2> HIDE DEF S
  <2>. QED BY <1>0, <1>1, <1>2, IndexInduction
<1>. QED BY <1>3

\* The child whose nearest node takes the place of n, and what remains of n where
\* x and y remain of the child on the way to k and of the child given the key k.
NextSide(n) == IF IsNil(n.child[LEFT]) THEN RIGHT ELSE LEFT
Deleted(n, k, x, y) ==
    IF IsNil(n) THEN Nil
    ELSE IF ~At(n, k) THEN Rebalance([n EXCEPT !.child[Side(n, k)] = x])
    ELSE IF \A dir \in Dirs : IsNil(n.child[dir]) THEN Nil
    ELSE LET c == NextSide(n)
             m == Farthest(n.child[c], Other(c))
         IN  Rebalance([n EXCEPT !.key = m.key, !.data = m.data, !.child[c] = y])

(* The deletion goes down one child, that of the neighbour once it is found. *)
LEMMA DeleteDef ==
  ASSUME NEW k \in Keys
  PROVE  \A t \in Tree : Delete(t, k) =
             Deleted(t, k, Delete(t.child[Side(t, k)], k),
                     Delete(Rekey(t.child[NextSide(t)], Other(NextSide(t)), k), k))
<1> DEFINE body(f, n) ==
             Deleted(n, k, f[n.child[Side(n, k)]],
                     f[Rekey(n.child[NextSide(n)], Other(NextSide(n)), k)])
           Is(h, f) == f = [n \in HighTrees[h] |-> body(f, n)]
           S == {h \in 0..N : \E f : Is(h, f)}
<1>0. N \in Nat
  BY KeysCount
<1>1. 0 \in S
  <2> DEFINE g == [n \in HighTrees[0] |-> Nil]
  <2>1. \A n \in HighTrees[0] : IsNil(n)
    BY Children
  <2>2. \A n \in HighTrees[0] : body(g, n) = Nil
    BY <2>1 DEF Deleted
  <2>3. Is(0, g)
    <3> HIDE DEF body
    <3>. QED BY <2>2
  <2> HIDE DEF Is, g
  <2>. QED BY <1>0, <2>3
<1>2. ASSUME NEW h \in 1..N, h - 1 \in S PROVE h \in S
  <2>1. PICK f : Is(h - 1, f)
    BY <1>2
  <2> DEFINE g == [n \in HighTrees[h] |-> body(f, n)]
  <2>2. ASSUME NEW c \in HighTrees[h - 1] PROVE g[c] = f[c]
    <3>1. c \in HighTrees[h]
      BY InHighTree
    <3> HIDE DEF body
    <3>. QED BY <2>1, <3>1
  <2> HIDE DEF g
  <2>3. ASSUME NEW n \in HighTrees[h] PROVE body(g, n) = body(f, n)
    <3>1. CASE IsNil(n)
      BY <3>1 DEF Deleted
    <3>2. CASE ~IsNil(n)
      <4>1. \A dir \in Dirs : g[n.child[dir]] = f[n.child[dir]]
        BY <2>2, <3>2, Children
      <4>2. Side(n, k) \in Dirs /\ NextSide(n) \in Dirs /\ Other(NextSide(n)) \in Dirs
        BY DEF Side, NextSide, Other, Dirs
      <4>3. n.child[NextSide(n)] \in HighTrees[h - 1] /\ h - 1 \in 0..N
        BY <4>2, <3>2, <1>0, Children
      <4>4. \A e \in Dirs : Rekey(n.child[NextSide(n)], e, k) \in HighTrees[h - 1]
        BY <4>3, RekeyHigh
      <4>5. Rekey(n.child[NextSide(n)], Other(NextSide(n)), k) \in HighTrees[h - 1]
        BY <4>2, <4>4
      <4>. QED BY <4>1, <4>2, <4>5, <2>2
    <3>. QED BY <3>1, <3>2
  <2>4. Is(h, g)
    <3> HIDE DEF body
    <3>. QED BY <2>3 DEF g
  <2> HIDE DEF Is
  <2>. QED BY <2>4, <1>0
<1>3. N \in S
  <2> HIDE DEF S
  <2>. QED BY <1>0, <1>1, <1>2, IndexInduction
<1>4. \E f : Is(N, f)
  BY <1>3
<1> DEFINE all == CHOOSE f : Is(N, f)
<1>5. Is(N, all)
  <2> HIDE DEF Is
  <2>. QED BY <1>4
<1>6. \A t \in Tree : all[t] = body(all, t)
  <2> HIDE DEF body, all
  <2>. QED BY <1>5 DEF Tree, N
<1>7. \A t : Delete(t, k) = all[t]
  BY DEF Delete, Deleted, NextSide, Tree, N
<1> HIDE DEF all
<1>8. \A t \in Tree : body(all, t) =
             Deleted(t, k, Delete(t.child[Side(t, k)], k),
                     Delete(Rekey(t.child[NextSide(t)], Other(NextSide(t)), k), k))
  BY <1>7
<1> HIDE DEF body
<1>. QED BY <1>6, <1>7, <1>8

(***************************************************************************)
(* Part 2: what a tree holds.                                              *)
(***************************************************************************)
\* What a tree holds is at each key nothing or one value.  Two such maps around a
\* key and its value:
Maps == [Keys -> SUBSET Values]
NoKeys == [k \in Keys |-> {}]
KeysOf(m) == {k \in Keys : m[k] # {}}
Fits(l, k, r) == (\A j \in KeysOf(l) : j < k) /\ (\A j \in KeysOf(r) : k < j)
Join(l, k, d, r) ==
    [j \in Keys |-> IF j = k THEN {d} ELSE IF j < k THEN l[j] ELSE r[j]]

\* A tree holds a map if the pair is in every set of pairs that has Nil and is
\* closed under new roots.
Pairs == {p \in Tree \X Maps : p[1] \in HighTrees[Cardinality(KeysOf(p[2]))]}
Closed(R) ==
    /\ << Nil, NoKeys >> \in R
    /\ \A v \in Nat \ {0}, k \in Keys, d \in Values : \A p, q \in R :
          Fits(p[2], k, q[2]) => << Node(v, k, d, p[1], q[1]), Join(p[2], k, d, q[2]) >> \in R
Holding == {p \in Pairs : \A R \in SUBSET Pairs : Closed(R) => p \in R}
Holds(t, m) == << t, m >> \in Holding

(* The maps of a new root.                                                 *)
LEMMA JoinType ==
  ASSUME NEW l \in Maps, NEW k \in Keys, NEW d \in Values, NEW r \in Maps
  PROVE  /\ Join(l, k, d, r) \in Maps
         /\ \A j \in Keys : Join(l, k, d, r)[j] =
               IF j = k THEN {d} ELSE IF j < k THEN l[j] ELSE r[j]
BY DEF Join, Maps

(* The empty map is one, with no keys.                                     *)
LEMMA NoKeysType == NoKeys \in Maps /\ KeysOf(NoKeys) = {}
BY DEF NoKeys, Maps, KeysOf

(* The keys of a map are at most all of them.                              *)
LEMMA KeysOfCount ==
  ASSUME NEW m
  PROVE  IsFiniteSet(KeysOf(m)) /\ Cardinality(KeysOf(m)) \in 0..N
<1>1. IsFiniteSet(KeysOf(m)) /\ Cardinality(KeysOf(m)) <= Cardinality(Keys)
  BY AATreeAssumption, FS_Subset DEF KeysOf
<1>. QED BY <1>1, KeysCount, FS_CardinalityType DEF N

(* A new root adds a key to those of each of its children.                 *)
LEMMA JoinKeys ==
  ASSUME NEW l \in Maps, NEW k \in Keys, NEW d \in Values, NEW r \in Maps, Fits(l, k, r)
  PROVE  LET m == Join(l, k, d, r)
         IN  /\ KeysOf(m) = KeysOf(l) \cup {k} \cup KeysOf(r)
             /\ k \notin KeysOf(l) /\ k \notin KeysOf(r)
             /\ KeysOf(l) \cap KeysOf(r) = {}
             /\ Cardinality(KeysOf(l)) < Cardinality(KeysOf(m))
             /\ Cardinality(KeysOf(r)) < Cardinality(KeysOf(m))
<1> DEFINE m == Join(l, k, d, r)
<1>1. KeysOf(l) \subseteq Keys /\ KeysOf(r) \subseteq Keys /\ Keys \subseteq Int
  BY AATreeAssumption DEF KeysOf
<1>2. KeysOf(l) \cap KeysOf(r) = {} /\ k \notin KeysOf(l) /\ k \notin KeysOf(r)
  <2>1. \A j \in KeysOf(l) : j \in Int /\ j < k
    BY <1>1 DEF Fits
  <2>2. \A j \in KeysOf(r) : j \in Int /\ k < j
    BY <1>1 DEF Fits
  <2>3. k \in Int
    BY <1>1
  <2>. QED BY <2>1, <2>2, <2>3
<1>3. KeysOf(m) = KeysOf(l) \cup {k} \cup KeysOf(r)
  <2>1. ASSUME NEW j \in Keys PROVE m[j] # {} <=> l[j] # {} \/ j = k \/ r[j] # {}
    <3>1. j \in Int /\ k \in Int
      BY <1>1
    <3>2. (l[j] # {} => j < k) /\ (r[j] # {} => k < j)
      BY DEF Fits, KeysOf
    <3>3. m[j] = IF j = k THEN {d} ELSE IF j < k THEN l[j] ELSE r[j]
      BY JoinType
    <3> HIDE DEF m
    <3>. QED BY <3>1, <3>2, <3>3
  <2> HIDE DEF m
  <2>. QED BY <2>1 DEF KeysOf
<1>4. ASSUME NEW s, k \notin KeysOf(s), KeysOf(s) \subseteq KeysOf(m)
      PROVE  Cardinality(KeysOf(s)) < Cardinality(KeysOf(m))
  <2>1. KeysOf(s) \cup {k} \subseteq KeysOf(m)
    BY <1>3, <1>4
  <2>2. /\ IsFiniteSet(KeysOf(s)) /\ IsFiniteSet(KeysOf(m))
        /\ Cardinality(KeysOf(s)) \in Nat /\ Cardinality(KeysOf(m)) \in Nat
    <3>1. Cardinality(KeysOf(s)) \in 0..N /\ Cardinality(KeysOf(m)) \in 0..N
      BY KeysOfCount
    <3>. QED BY <3>1, KeysOfCount, KeysCount
  <2>3. Cardinality(KeysOf(s) \cup {k}) = Cardinality(KeysOf(s)) + 1
    BY <2>2, <1>4, FS_AddElement
  <2>4. Cardinality(KeysOf(s) \cup {k}) <= Cardinality(KeysOf(m))
    BY <2>1, <2>2, FS_Subset
  <2>. QED BY <2>2, <2>3, <2>4
<1> HIDE DEF m
<1>5. Cardinality(KeysOf(l)) < Cardinality(KeysOf(m))
  BY <1>2, <1>3, <1>4
<1>6. Cardinality(KeysOf(r)) < Cardinality(KeysOf(m))
  BY <1>2, <1>3, <1>4
<1>. QED BY <1>2, <1>3, <1>5, <1>6 DEF m

(* The pairs themselves are closed: a tree has no more levels of nodes than *)
(* keys.                                                                   *)
LEMMA PairsClosed == Closed(Pairs)
<1>1. << Nil, NoKeys >> \in Pairs
  <2>1. Nil \in HighTrees[Cardinality(KeysOf(NoKeys))]
    BY KeysOfCount, Children
  <2>. QED BY <2>1, Children, NoKeysType DEF Pairs
<1>2. ASSUME NEW v \in Nat \ {0}, NEW k \in Keys, NEW d \in Values, NEW p \in Pairs, NEW q \in Pairs,
             Fits(p[2], k, q[2])
      PROVE  << Node(v, k, d, p[1], q[1]), Join(p[2], k, d, q[2]) >> \in Pairs
  <2> DEFINE m == Join(p[2], k, d, q[2])
             n == Node(v, k, d, p[1], q[1])
             c == Cardinality(KeysOf(m))
  <2>1. /\ p[2] \in Maps /\ p[1] \in HighTrees[Cardinality(KeysOf(p[2]))]
        /\ q[2] \in Maps /\ q[1] \in HighTrees[Cardinality(KeysOf(q[2]))]
    BY DEF Pairs
  <2>2. m \in Maps
    BY <2>1, JoinType
  <2>3. Cardinality(KeysOf(p[2])) < c /\ Cardinality(KeysOf(q[2])) < c
    BY <1>2, <2>1, JoinKeys
  <2>4. /\ c \in 0..N
        /\ Cardinality(KeysOf(p[2])) \in 0..N
        /\ Cardinality(KeysOf(q[2])) \in 0..N
    BY KeysOfCount
  <2> HIDE DEF c
  <2>5. c \in 1..N /\ c - 1 \in 0..N
    BY <2>3, <2>4, KeysCount
  <2>6. ASSUME NEW i \in 0..N, i < c PROVE HighTrees[i] \subseteq HighTrees[c - 1]
    <3>1. i <= c - 1
      BY <2>5, <2>6, KeysCount
    <3>. QED BY <3>1, <2>5, Higher
  <2>7. p[1] \in HighTrees[c - 1] /\ q[1] \in HighTrees[c - 1]
    BY <2>1, <2>3, <2>4, <2>6
  <2>8. n \in Nodes(HighTrees[c - 1])
    BY <2>7, NodeIn
  <2>9. n \in HighTrees[c] /\ n \in Tree
    BY <2>5, <2>8, <2>4, HighTreesAt, InHighTree
  <2> HIDE DEF m, n
  <2>. QED BY <2>2, <2>9 DEF Pairs, c, m, n
<1>. QED BY <1>1, <1>2 DEF Closed

(* The rules of Holds.                                                     *)
LEMMA HoldsNil == Holds(Nil, NoKeys)
BY PairsClosed DEF Holds, Holding, Closed

(* A root over two trees, with a key between those of either, holds what   *)
(* they hold and its own data.                                             *)
LEMMA HoldsNode ==
  ASSUME NEW v \in Nat \ {0}, NEW k \in Keys, NEW d \in Values, NEW l, NEW r, NEW x, NEW y,
         Holds(l, x), Holds(r, y), Fits(x, k, y)
  PROVE  Holds(Node(v, k, d, l, r), Join(x, k, d, y))
<1> DEFINE p == << l, x >>
           q == << r, y >>
           new == << Node(v, k, d, l, r), Join(x, k, d, y) >>
<1>1. p \in Holding /\ q \in Holding
  BY DEF Holds
<1>2. p[1] = l /\ p[2] = x /\ q[1] = r /\ q[2] = y
  OBVIOUS
<1> HIDE DEF p, q
<1>3. ASSUME NEW R \in SUBSET Pairs, Closed(R) PROVE new \in R
  <2>1. p \in R /\ q \in R
    BY <1>1, <1>3 DEF Holding
  <2>. QED BY <2>1, <1>2, <1>3 DEF Closed
<1>4. new \in Pairs
  BY <1>3, PairsClosed
<1>. QED BY <1>3, <1>4 DEF Holds, Holding

(* Trees hold maps.                                                        *)
LEMMA HoldsType ==
  ASSUME NEW t, NEW m, Holds(t, m)
  PROVE  t \in Tree /\ m \in Maps
BY DEF Holds, Holding, Pairs

\* A set of pairs that has Nil and, with the pairs of two trees, that of any new
\* root over them.
HasRoots(P) ==
    \A v \in Nat \ {0}, k \in Keys, d \in Values, l, r \in Tree, x, y \in Maps :
       /\ Holds(l, x) /\ << l, x >> \in P
       /\ Holds(r, y) /\ << r, y >> \in P
       /\ Fits(x, k, y)
       => << Node(v, k, d, l, r), Join(x, k, d, y) >> \in P

(* Induction over what holds what: a set with the empty tree, and with     *)
(* every root over two of its trees, has all of them.                      *)
LEMMA HoldsInduction ==
  ASSUME NEW P, << Nil, NoKeys >> \in P, HasRoots(P)
  PROVE  \A t, m : Holds(t, m) => << t, m >> \in P
<1> DEFINE R == {p \in Holding : p \in P}
<1>1. R \in SUBSET Pairs
  BY DEF Holding
<1>2. << Nil, NoKeys >> \in R
  BY HoldsNil DEF Holds
<1>3. ASSUME NEW v \in Nat \ {0}, NEW k \in Keys, NEW d \in Values, NEW p \in R, NEW q \in R,
             Fits(p[2], k, q[2])
      PROVE  << Node(v, k, d, p[1], q[1]), Join(p[2], k, d, q[2]) >> \in R
  <2> DEFINE l == p[1]  x == p[2]  r == q[1]  y == q[2]
  <2>1. p = << l, x >> /\ q = << r, y >>
    BY DEF Holding, Pairs
  <2>2. Holds(l, x) /\ Holds(r, y) /\ << l, x >> \in P /\ << r, y >> \in P
    BY <2>1 DEF Holds
  <2> HIDE DEF l, x, r, y
  <2>3. Fits(x, k, y)
    BY <1>3 DEF x, y
  <2>4. l \in Tree /\ x \in Maps /\ r \in Tree /\ y \in Maps
    BY <2>2, HoldsType
  <2>5. Holds(Node(v, k, d, l, r), Join(x, k, d, y))
    BY <2>2, <2>3, HoldsNode
  <2>6. << Node(v, k, d, l, r), Join(x, k, d, y) >> \in P
    BY <2>2, <2>3, <2>4 DEF HasRoots
  <2>. QED BY <2>5, <2>6 DEF Holds, l, x, r, y
<1>4. Closed(R)
  <2> HIDE DEF R
  <2>. QED BY <1>2, <1>3 DEF Closed
<1>5. ASSUME NEW t, NEW m, Holds(t, m) PROVE << t, m >> \in P
  BY <1>1, <1>4, <1>5 DEF Holds, Holding
<1>. QED BY <1>5

\* The maps of the two children of a node.
Parts(t, m, x, y) ==
    /\ Holds(t.child[LEFT], x) /\ Holds(t.child[RIGHT], y) /\ Fits(x, t.key, y)
    /\ m = Join(x, t.key, t.data, y)

(* A tree that holds a map is Nil, or its children hold the parts of it.    *)
LEMMA HoldsParts ==
  ASSUME NEW t, NEW m, Holds(t, m)
  PROVE  /\ IsNil(t) => t = Nil /\ m = NoKeys
         /\ ~IsNil(t) => t \in Nodes(Tree) /\ \E x, y \in Maps : Parts(t, m, x, y)
<1> DEFINE Q(u, z) == /\ IsNil(u) => u = Nil /\ z = NoKeys
                      /\ ~IsNil(u) => /\ u \in Nodes(Tree)
                                      /\ \E x, y \in Maps : Parts(u, z, x, y)
           P == {p \in Tree \X Maps : Q(p[1], p[2])}
<1>1. << Nil, NoKeys >> \in P
  <2>1. Q(Nil, NoKeys)
    BY Children
  <2> HIDE DEF Q
  <2>. QED BY <2>1, Children, NoKeysType
<1>2. ASSUME NEW v \in Nat \ {0}, NEW k \in Keys, NEW d \in Values,
             NEW l \in Tree, NEW r \in Tree, NEW x \in Maps, NEW y \in Maps,
             Holds(l, x), Holds(r, y), Fits(x, k, y)
      PROVE  << Node(v, k, d, l, r), Join(x, k, d, y) >> \in P
  <2> DEFINE u == Node(v, k, d, l, r)
             z == Join(x, k, d, y)
  <2>1. /\ ~IsNil(u) /\ u.level = v /\ u.key = k /\ u.data = d
        /\ u.child[LEFT] = l /\ u.child[RIGHT] = r
    BY NodeFields
  <2>2. u \in Nodes(Tree)
    BY NodeIn
  <2>3. Holds(u, z)
    BY <1>2, HoldsNode
  <2>4. z = Join(x, u.key, u.data, y)
    BY <2>1
  <2> HIDE DEF u, z
  <2>5. Parts(u, z, x, y)
    BY <1>2, <2>1, <2>4 DEF Parts
  <2>6. Q(u, z) /\ u \in Tree /\ z \in Maps
    BY <2>1, <2>2, <2>3, <2>5, HoldsType
  <2> HIDE DEF Q
  <2>. QED BY <2>6 DEF u, z
<1>3. HasRoots(P)
  <2> HIDE DEF P
  <2>. QED BY <1>2 DEF HasRoots
<1>4. << t, m >> \in P
  <2> HIDE DEF P
  <2>. QED BY <1>1, <1>3, HoldsInduction
<1>5. Q(t, m)
  <2> HIDE DEF Q
  <2>. QED BY <1>4
<1>. QED BY <1>5

(* Where a root parts its map.                                             *)
LEMMA PartsAt ==
  ASSUME NEW t, NEW m, NEW x \in Maps, NEW y \in Maps, t \in Nodes(Tree), Parts(t, m, x, y)
  PROVE  /\ m \in Maps /\ t.key \in Keys /\ t.data \in Values /\ t.key \in Int
         /\ m[t.key] = {t.data} /\ x[t.key] = {} /\ y[t.key] = {}
         /\ \A j \in Keys :
               /\ j \in Int
               /\ j < t.key => m[j] = x[j] /\ y[j] = {}
               /\ t.key < j => m[j] = y[j] /\ x[j] = {}
<1>1. t.key \in Keys /\ t.data \in Values
  BY NodeForm
<1>2. Keys \subseteq Int
  BY AATreeAssumption
<1>3. /\ m \in Maps
      /\ \A j \in Keys : m[j] = IF j = t.key THEN {t.data} ELSE IF j < t.key THEN x[j] ELSE y[j]
  <2>1. PICK k \in Keys, d \in Values : k = t.key /\ d = t.data
    BY <1>1
  <2>2. m = Join(x, k, d, y)
    BY <2>1 DEF Parts
  <2>3. m = [j \in Keys |-> IF j = k THEN {d} ELSE IF j < k THEN x[j] ELSE y[j]]
    BY ONLY <2>2 DEF Join
  <2>4. {d} \in SUBSET Values /\ \A j \in Keys : x[j] \in SUBSET Values /\ y[j] \in SUBSET Values
    BY DEF Maps
  <2>5. m \in Maps
    BY ONLY <2>3, <2>4 DEF Maps
  <2>6. \A j \in Keys : m[j] = IF j = k THEN {d} ELSE IF j < k THEN x[j] ELSE y[j]
    BY ONLY <2>3
  <2>. QED BY ONLY <2>1, <2>5, <2>6
<1>4. \A j \in Keys : (x[j] # {} => j < t.key) /\ (y[j] # {} => t.key < j)
  BY DEF Parts, Fits, KeysOf
<1> DEFINE k == t.key
           d == t.data
<1>5. k \in Int /\ m[k] = {d} /\ x[k] = {} /\ y[k] = {}
  <2>1. k \in Keys /\ k \in Int
    BY <1>1, <1>2
  <2>2. m[k] = IF k = t.key THEN {t.data} ELSE IF k < t.key THEN x[k] ELSE y[k]
    BY <1>3, <2>1
  <2>3. (x[k] # {} => k < t.key) /\ (y[k] # {} => t.key < k)
    BY <1>4, <2>1
  <2>. QED BY <2>1, <2>2, <2>3
<1>6. ASSUME NEW j \in Keys
      PROVE  /\ j \in Int
             /\ j < k => m[j] = x[j] /\ y[j] = {}
             /\ k < j => m[j] = y[j] /\ x[j] = {}
  <2>1. j \in Int /\ k \in Int
    BY <1>1, <1>2
  <2>2. m[j] = IF j = k THEN {d} ELSE IF j < k THEN x[j] ELSE y[j]
    BY <1>3
  <2>3. (x[j] # {} => j < k) /\ (y[j] # {} => k < j)
    BY <1>4
  <2> HIDE DEF k, d
  <2>. QED BY <2>1, <2>2, <2>3
<1>. QED BY <1>1, <1>3, <1>5, <1>6

(* A rotation to the right and one to the left part the same map.          *)
LEMMA Rotate ==
  ASSUME NEW a \in Maps, NEW b \in Maps, NEW c \in Maps, NEW i \in Keys, NEW k \in Keys,
         NEW d \in Values, NEW e \in Values
  PROVE  LET x == Join(a, i, d, b)
             y == Join(b, k, e, c)
         IN  /\ Fits(a, i, b) /\ Fits(x, k, c) <=> Fits(b, k, c) /\ Fits(a, i, y)
             /\ Fits(a, i, b) /\ Fits(x, k, c) => Join(x, k, e, c) = Join(a, i, d, y)
<1> DEFINE x == Join(a, i, d, b)
           y == Join(b, k, e, c)
<1>1. Keys \subseteq Int /\ KeysOf(a) \subseteq Keys /\ KeysOf(b) \subseteq Keys /\ KeysOf(c) \subseteq Keys
  BY AATreeAssumption DEF KeysOf
<1>2. x \in Maps /\ y \in Maps
  BY JoinType
<1>3. ASSUME Fits(a, i, b), Fits(x, k, c)
      PROVE  Fits(b, k, c) /\ Fits(a, i, y) /\ i < k
  <2>1. KeysOf(x) = KeysOf(a) \cup {i} \cup KeysOf(b)
    BY <1>3, JoinKeys
  <2> HIDE DEF x
  <2>2. i < k /\ Fits(b, k, c)
    BY <1>3, <2>1 DEF Fits
  <2>3. KeysOf(y) = KeysOf(b) \cup {k} \cup KeysOf(c)
    BY <2>2, JoinKeys
  <2> HIDE DEF y
  <2>4. \A j \in KeysOf(c) : i < j
    <3>1. ASSUME NEW j \in KeysOf(c) PROVE i < j
      <4>1. k < j
        BY <1>3 DEF Fits
      <4>2. i \in Int /\ j \in Int /\ k \in Int
        BY <1>1
      <4>. QED BY <2>2, <4>1, <4>2
    <3>. QED BY <3>1
  <2>. QED BY <1>3, <2>2, <2>3, <2>4 DEF Fits
<1>4. ASSUME Fits(b, k, c), Fits(a, i, y)
      PROVE  Fits(a, i, b) /\ Fits(x, k, c)
  <2>1. KeysOf(y) = KeysOf(b) \cup {k} \cup KeysOf(c)
    BY <1>4, JoinKeys
  <2> HIDE DEF y
  <2>2. i < k /\ Fits(a, i, b)
    BY <1>4, <2>1 DEF Fits
  <2>3. KeysOf(x) = KeysOf(a) \cup {i} \cup KeysOf(b)
    BY <2>2, JoinKeys
  <2> HIDE DEF x
  <2>4. \A j \in KeysOf(a) : j < k
    <3>1. ASSUME NEW j \in KeysOf(a) PROVE j < k
      <4>1. j < i
        BY <1>4 DEF Fits
      <4>2. i \in Int /\ j \in Int /\ k \in Int
        BY <1>1
      <4>. QED BY <2>2, <4>1, <4>2
    <3>. QED BY <3>1
  <2>. QED BY <1>4, <2>2, <2>3, <2>4 DEF Fits
<1>5. ASSUME Fits(a, i, b), Fits(x, k, c)
      PROVE  Join(x, k, e, c) = Join(a, i, d, y)
  <2>1. i < k
    BY <1>3, <1>5
  <2>2. ASSUME NEW j \in Keys PROVE Join(x, k, e, c)[j] = Join(a, i, d, y)[j]
    <3>1. x[j] = IF j = i THEN {d} ELSE IF j < i THEN a[j] ELSE b[j]
      BY DEF Join
    <3>3. y[j] = IF j = k THEN {e} ELSE IF j < k THEN b[j] ELSE c[j]
      BY DEF Join
    <3> HIDE DEF x, y
    <3>5. Join(x, k, e, c)[j] = IF j = k THEN {e} ELSE IF j < k THEN x[j] ELSE c[j]
      BY DEF Join
    <3>6. Join(a, i, d, y)[j] = IF j = i THEN {d} ELSE IF j < i THEN a[j] ELSE y[j]
      BY DEF Join
    <3>2. i \in Int /\ j \in Int /\ k \in Int
      BY <1>1
    <3> DEFINE u == Join(x, k, e, c)
               v == Join(a, i, d, y)
    <3> HIDE DEF u, v
    <3>4. u[j] = v[j]
      BY <2>1, <3>1, <3>2, <3>3, <3>5, <3>6 DEF u, v
    <3>. QED BY <3>4 DEF u, v
  <2>3. Join(x, k, e, c) \in Maps /\ Join(a, i, d, y) \in Maps
    BY <1>2, JoinType
  <2> DEFINE u == Join(x, k, e, c)
             v == Join(a, i, d, y)
  <2> HIDE DEF x, y, u, v
  <2>4. u = v
    BY <2>2, <2>3 DEF Maps, u, v
  <2>. QED BY <2>4 DEF u, v
<1>. QED BY <1>3, <1>4, <1>5

\* u holds whatever t holds.
Same(t, u) == \A m : Holds(t, m) => Holds(u, m)

(* A level and what the children do inside does not matter to what a node  *)
(* holds.                                                                  *)
LEMMA SameNode ==
  ASSUME NEW t, NEW m, Holds(t, m), ~IsNil(t), NEW v \in Nat \ {0}, NEW l, NEW r,
         Same(t.child[LEFT], l), Same(t.child[RIGHT], r)
  PROVE  Holds(Node(v, t.key, t.data, l, r), m)
<1>1. t \in Nodes(Tree)
  BY HoldsParts
<1>2. PICK x \in Maps, y \in Maps : Parts(t, m, x, y)
  BY HoldsParts
<1>3. t.key \in Keys /\ t.data \in Values
  BY <1>1, NodeForm
<1>4. Holds(l, x) /\ Holds(r, y) /\ Fits(x, t.key, y)
  BY <1>2 DEF Same, Parts
<1>5. Holds(Node(v, t.key, t.data, l, r), Join(x, t.key, t.data, y))
  BY <1>3, <1>4, HoldsNode
<1>. QED BY <1>2, <1>5 DEF Parts

(* Skew keeps what a tree holds.                                           *)
LEMMA SkewSame ==
  ASSUME NEW n, NEW m, Holds(n, m)
  PROVE  Holds(Skew(n), m) /\ (IsNil(Skew(n)) => IsNil(n))
<1>1. CASE IsNil(n) \/ IsNil(n.child[LEFT]) \/ n.child[LEFT].level # n.level
  BY <1>1 DEF Skew
<1>2. CASE ~(IsNil(n) \/ IsNil(n.child[LEFT]) \/ n.child[LEFT].level # n.level)
  <2> DEFINE p == n.child[LEFT]
             w == [n EXCEPT !.child[LEFT] = p.child[RIGHT]]
             z == [p EXCEPT !.child[RIGHT] = w]
  <2>1. Skew(n) = z
    BY <1>2 DEF Skew
  <2>2. n \in Nodes(Tree) /\ ~IsNil(p)
    BY <1>2, HoldsParts
  <2>3. PICK x \in Maps, c \in Maps : Parts(n, m, x, c)
    BY <1>2, HoldsParts
  <2>4. Holds(p, x) /\ Holds(n.child[RIGHT], c) /\ Fits(x, n.key, c)
        /\ m = Join(x, n.key, n.data, c)
    BY <2>3 DEF Parts
  <2>5. p \in Nodes(Tree)
    BY <2>2, <2>4, HoldsParts
  <2>6. PICK a \in Maps, b \in Maps : Parts(p, x, a, b)
    BY <2>2, <2>4, HoldsParts
  <2>7. Holds(p.child[LEFT], a) /\ Holds(p.child[RIGHT], b) /\ Fits(a, p.key, b)
        /\ x = Join(a, p.key, p.data, b)
    BY <2>6 DEF Parts
  <2>8. /\ n.key \in Keys /\ n.data \in Values /\ n.level \in Nat \ {0}
        /\ p.key \in Keys /\ p.data \in Values /\ p.level \in Nat \ {0}
    BY <2>2, <2>5, NodeForm
  <2> DEFINE y == Join(b, n.key, n.data, c)
  <2>9. Fits(b, n.key, c) /\ Fits(a, p.key, y) /\ m = Join(a, p.key, p.data, y)
    BY <2>4, <2>7, <2>8, Rotate
  <2>10. w = Node(n.level, n.key, n.data, p.child[RIGHT], n.child[RIGHT])
    BY <2>2, ExceptLeft
  <2>11. z = Node(p.level, p.key, p.data, p.child[LEFT], w)
    <3> HIDE DEF w, p
    <3>. QED BY <2>5, ExceptRight
  <2> HIDE DEF p, w, y, z
  <2>12. Holds(w, y)
    BY <2>4, <2>7, <2>8, <2>9, <2>10, HoldsNode DEF y
  <2>13. Holds(z, m)
    BY <2>7, <2>8, <2>9, <2>11, <2>12, HoldsNode
  <2>14. ~IsNil(z)
    BY <2>8, <2>11, NodeFields
  <2>. QED BY <2>1, <2>13, <2>14
<1>. QED BY <1>1, <1>2

(* Split keeps what a tree holds.                                          *)
LEMMA SplitSame ==
  ASSUME NEW n, NEW m, Holds(n, m)
  PROVE  Holds(Split(n), m) /\ (IsNil(Split(n)) => IsNil(n))
<1> DEFINE stays == \/ IsNil(n) \/ IsNil(n.child[RIGHT])
                    \/ n.level # n.child[RIGHT].child[RIGHT].level
<1>1. CASE stays
  BY <1>1 DEF Split
<1>2. CASE ~stays
  <2> DEFINE p == n.child[RIGHT]
             w == [n EXCEPT !.child[RIGHT] = p.child[LEFT]]
             z == [p EXCEPT !.level = @ + 1, !.child[LEFT] = w]
  <2>1. Split(n) = z
    BY <1>2 DEF Split
  <2>2. n \in Nodes(Tree) /\ ~IsNil(p)
    BY <1>2, HoldsParts
  <2>3. PICK a \in Maps, y \in Maps : Parts(n, m, a, y)
    BY <1>2, HoldsParts
  <2>4. Holds(p, y) /\ Holds(n.child[LEFT], a) /\ Fits(a, n.key, y)
        /\ m = Join(a, n.key, n.data, y)
    BY <2>3 DEF Parts
  <2>5. p \in Nodes(Tree)
    BY <2>2, <2>4, HoldsParts
  <2>6. PICK b \in Maps, c \in Maps : Parts(p, y, b, c)
    BY <2>2, <2>4, HoldsParts
  <2>7. Holds(p.child[LEFT], b) /\ Holds(p.child[RIGHT], c) /\ Fits(b, p.key, c)
        /\ y = Join(b, p.key, p.data, c)
    BY <2>6 DEF Parts
  <2>8. /\ n.key \in Keys /\ n.data \in Values /\ n.level \in Nat \ {0}
        /\ p.key \in Keys /\ p.data \in Values /\ p.level \in Nat \ {0}
    BY <2>2, <2>5, NodeForm
  <2> DEFINE x == Join(a, n.key, n.data, b)
  <2>9. Fits(a, n.key, b) /\ Fits(x, p.key, c) /\ m = Join(x, p.key, p.data, c)
    BY <2>4, <2>7, <2>8, Rotate
  <2>10. w = Node(n.level, n.key, n.data, n.child[LEFT], p.child[LEFT])
    BY <2>2, ExceptRight
  <2>11. z = Node(p.level + 1, p.key, p.data, w, p.child[RIGHT])
    <3> DEFINE q == [p EXCEPT !.level = @ + 1]
    <3> HIDE DEF w, p
    <3>1. q = Node(p.level + 1, p.key, p.data, p.child[LEFT], p.child[RIGHT])
      BY <2>5, ExceptLevel
    <3>2. p.child[LEFT] \in Tree /\ p.child[RIGHT] \in Tree /\ p.level + 1 \in Nat \ {0}
      BY <2>5, <2>8, NodeForm
    <3>3. q \in Nodes(Tree)
      BY <3>1, <3>2, <2>8, NodeIn
    <3>4. /\ q.level = p.level + 1 /\ q.key = p.key /\ q.data = p.data
          /\ q.child[RIGHT] = p.child[RIGHT]
      BY <3>1, <3>2, NodeFields
    <3>5. z = [q EXCEPT !.child[LEFT] = w]
      OBVIOUS
    <3> HIDE DEF q, z
    <3>6. z = Node(q.level, q.key, q.data, w, q.child[RIGHT])
      BY <3>3, <3>5, ExceptLeft
    <3>. QED BY <3>4, <3>6
  <2> HIDE DEF p, w, x, z
  <2>12. Holds(w, x)
    BY <2>4, <2>7, <2>8, <2>9, <2>10, HoldsNode DEF x
  <2>13. p.level + 1 \in Nat \ {0}
    BY <2>8
  <2>14. Holds(z, m)
    BY <2>7, <2>8, <2>9, <2>11, <2>12, <2>13, HoldsNode
  <2>15. ~IsNil(z)
    BY <2>11, <2>13, NodeFields
  <2>. QED BY <2>1, <2>14, <2>15
<1>. QED BY <1>1, <1>2

(* The rotations leave the same map in a tree, as does nothing.            *)
LEMMA SameSteps ==
  /\ \A t : Same(t, t)
  /\ \A t : Same(t, Skew(t))
  /\ \A t : Same(t, Split(t))
BY SkewSame, SplitSame DEF Same

(* What the right child does inside does not matter to what a node holds.  *)
LEMMA SameRight ==
  ASSUME NEW t, NEW m, Holds(t, m), ~IsNil(t), NEW r, Same(t.child[RIGHT], r)
  PROVE  LET u == [t EXCEPT !.child[RIGHT] = r] IN Holds(u, m) /\ ~IsNil(u)
<1>1. t \in Nodes(Tree)
  BY HoldsParts
<1>2. t.level \in Nat \ {0}
  BY <1>1, NodeForm
<1> DEFINE u == [t EXCEPT !.child[RIGHT] = r]
           w == Node(t.level, t.key, t.data, t.child[LEFT], r)
<1>3. u = w
  BY <1>1, ExceptRight
<1>4. Same(t.child[LEFT], t.child[LEFT])
  BY SameSteps
<1>5. Holds(w, m)
  BY <1>2, <1>4, SameNode
<1>6. ~IsNil(w)
  BY <1>2, NodeFields
<1>. QED BY <1>3, <1>5, <1>6

(* A new level of a tree, Nil apart, does not matter to what it holds.     *)
LEMMA SameLevel ==
  ASSUME NEW t, NEW e \in Nat, IsNil(t) => e = 0, ~IsNil(t) => e # 0
  PROVE  Same(t, [t EXCEPT !.level = e])
<1>1. SUFFICES ASSUME NEW m, Holds(t, m) PROVE Holds([t EXCEPT !.level = e], m)
  BY DEF Same
<1>2. CASE IsNil(t)
  <2>1. t = Nil
    BY <1>1, <1>2, HoldsParts
  <2>2. [Nil EXCEPT !.level = 0] = Nil
    BY DEF Nil
  <2>. QED BY <1>1, <1>2, <2>1, <2>2
<1>3. CASE ~IsNil(t)
  <2>1. t \in Nodes(Tree)
    BY <1>1, <1>3, HoldsParts
  <2>2. [t EXCEPT !.level = e] = Node(e, t.key, t.data, t.child[LEFT], t.child[RIGHT])
    BY <2>1, ExceptLevel
  <2>3. Same(t.child[LEFT], t.child[LEFT]) /\ Same(t.child[RIGHT], t.child[RIGHT])
    BY SameSteps
  <2>4. e \in Nat \ {0}
    BY <1>3
  <2>. QED BY <1>1, <1>3, <2>2, <2>3, <2>4, SameNode
<1>. QED BY <1>2, <1>3

(* The level of a tree.                                                    *)
LEMMA LevelType ==
  ASSUME NEW t \in Tree
  PROVE  t.level \in Nat /\ (IsNil(t) <=> t.level = 0)
<1>1. CASE IsNil(t)
  BY <1>1 DEF IsNil
<1>2. CASE ~IsNil(t)
  BY <1>2, TreeForm, NodeForm DEF IsNil
<1>. QED BY <1>1, <1>2

(* DecreaseLevel keeps what a tree holds.                                  *)
LEMMA DecreaseSame ==
  ASSUME NEW t, NEW m, Holds(t, m), ~IsNil(t)
  PROVE  Holds(DecreaseLevel(t), m) /\ ~IsNil(DecreaseLevel(t))
<1> DEFINE l == t.child[LEFT]
           r == t.child[RIGHT]
           v == ShouldBe(l, r)
           e == IF v < r.level THEN v ELSE r.level
<1>1. t \in Nodes(Tree)
  BY HoldsParts
<1>2. l \in Tree /\ r \in Tree
  BY <1>1, NodeForm
<1>3. l.level \in Nat /\ r.level \in Nat /\ (IsNil(r) <=> r.level = 0)
  BY <1>2, LevelType
<1>4. v \in Nat \ {0}
  <2> HIDE DEF l, r
  <2>. QED BY <1>3 DEF ShouldBe
<1>5. CASE v >= t.level
  BY <1>5 DEF DecreaseLevel
<1>6. CASE ~(v >= t.level)
  <2> DEFINE q == [t EXCEPT !.level = v]
             s == [r EXCEPT !.level = e]
             u == [q EXCEPT !.child[RIGHT] = s]
             w == Node(v, t.key, t.data, l, r)
  <2>1. w \in Nodes(Tree) /\ t.key \in Keys /\ t.data \in Values
    <3>1. t.key \in Keys /\ t.data \in Values
      BY <1>1, NodeForm
    <3> HIDE DEF l, r, v
    <3>. QED BY <1>2, <1>4, <3>1, NodeIn
  <2>2. q = w
    <3> HIDE DEF v
    <3>. QED BY <1>1, ExceptLevel DEF l, r
  <2>3. /\ w.level = v /\ w.key = t.key /\ w.data = t.data
        /\ w.child[LEFT] = l /\ w.child[RIGHT] = r
    <3> HIDE DEF l, r, v
    <3>. QED BY <1>4, NodeFields
  <2>4. DecreaseLevel(t) = u
    <3>1. DecreaseLevel(t) = [t EXCEPT !.level = v, !.child[RIGHT].level = e]
      BY <1>6 DEF DecreaseLevel
    <3>2. q.child[RIGHT] = r
      BY <2>2, <2>3
    <3>3. u = [q EXCEPT !.child[RIGHT] = [q.child[RIGHT] EXCEPT !.level = e]]
      <4> HIDE DEF q, r, e
      <4>. QED BY <3>2
    <3>4. [t EXCEPT !.level = v, !.child[RIGHT].level = e]
            = [q EXCEPT !.child[RIGHT] = [q.child[RIGHT] EXCEPT !.level = e]]
      OBVIOUS
    <3>. QED BY <3>1, <3>3, <3>4
  <2>5. u = Node(v, t.key, t.data, l, s)
    <3>1. [w EXCEPT !.child[RIGHT] = s] = Node(w.level, w.key, w.data, w.child[LEFT], s)
      <4> HIDE DEF w, s
      <4>. QED BY <2>1, ExceptRight
    <3>2. u = [w EXCEPT !.child[RIGHT] = s]
      BY <2>2
    <3>3. Node(w.level, w.key, w.data, w.child[LEFT], s) = Node(v, t.key, t.data, l, s)
      BY <2>3
    <3>. QED BY <3>1, <3>2, <3>3
  <2>6. Same(r, s)
    <3>1. e \in Nat /\ (IsNil(r) => e = 0) /\ (~IsNil(r) => e # 0)
      <4> HIDE DEF v, r
      <4>. QED BY <1>3, <1>4
    <3> HIDE DEF e, r
    <3>. QED BY <3>1, SameLevel
  <2>7. Same(l, l)
    BY SameSteps
  <2>8. Holds(Node(v, t.key, t.data, l, s), m)
    <3> HIDE DEF v, s
    <3>. QED BY <1>4, <2>6, <2>7, SameNode
  <2>9. ~IsNil(Node(v, t.key, t.data, l, s))
    <3> HIDE DEF v, s, l
    <3>. QED BY <1>4, NodeFields
  <2>. QED BY <2>4, <2>5, <2>8, <2>9
<1>. QED BY <1>5, <1>6

(* The rotations after a deletion keep what a tree holds.                  *)
LEMMA RebalanceSame ==
  ASSUME NEW t, NEW m, Holds(t, m), ~IsNil(t)
  PROVE  Holds(Rebalance(t), m)
<1> DEFINE a == Skew(DecreaseLevel(t))
           b == [a EXCEPT !.child[RIGHT] = Skew(@)]
           r == [b.child[RIGHT] EXCEPT !.child[RIGHT] = Skew(@)]
           c == IF IsNil(b.child[RIGHT]) THEN b ELSE [b EXCEPT !.child[RIGHT] = r]
           d == Split(c)
           e == [d EXCEPT !.child[RIGHT] = Split(@)]
<1>1. Rebalance(t) = e
  BY DEF Rebalance
<1>2. Holds(a, m) /\ ~IsNil(a)
  BY DecreaseSame, SkewSame
<1>3. Holds(b, m) /\ ~IsNil(b)
  <2> HIDE DEF a
  <2>1. Same(a.child[RIGHT], Skew(a.child[RIGHT]))
    BY SameSteps
  <2>. QED BY <1>2, <2>1, SameRight
<1>4. Holds(c, m) /\ ~IsNil(c)
  <2> HIDE DEF b
  <2>1. CASE IsNil(b.child[RIGHT])
    BY <1>3, <2>1
  <2>2. CASE ~IsNil(b.child[RIGHT])
    <3> DEFINE f == b.child[RIGHT]
    <3>1. ASSUME NEW z, Holds(f, z) PROVE Holds(r, z)
      <4>1. Same(f.child[RIGHT], Skew(f.child[RIGHT]))
        BY SameSteps
      <4>2. r = [f EXCEPT !.child[RIGHT] = Skew(f.child[RIGHT])]
        OBVIOUS
      <4> HIDE DEF f, r
      <4>. QED BY <2>2, <3>1, <4>1, <4>2, SameRight DEF f
    <3>2. Same(f, r)
      <4> HIDE DEF f, r
      <4>. QED BY <3>1 DEF Same
    <3>3. c = [b EXCEPT !.child[RIGHT] = r]
      BY <2>2
    <3> HIDE DEF c, r
    <3>. QED BY <1>3, <3>2, <3>3, SameRight
  <2>. QED BY <2>1, <2>2
<1>5. Holds(d, m) /\ ~IsNil(d)
  <2> HIDE DEF c
  <2>. QED BY <1>4, SplitSame
<1>6. Holds(e, m)
  <2> HIDE DEF d
  <2>1. Same(d.child[RIGHT], Split(d.child[RIGHT]))
    BY SameSteps
  <2>. QED BY <1>5, <2>1, SameRight
<1>. QED BY <1>1, <1>6

(***************************************************************************)
(* Part 3: what the operations of the tree do.                             *)
(***************************************************************************)
\* A set of pairs that has a node with its map if it has its children with theirs.
HasNodes(P) ==
    \A t \in Nodes(Tree), m, x, y \in Maps :
       /\ Holds(t, m) /\ Parts(t, m, x, y)
       /\ << t.child[LEFT], x >> \in P /\ << t.child[RIGHT], y >> \in P
       => << t, m >> \in P

(* Induction over trees that hold a map.                                   *)
LEMMA TreeInduction ==
  ASSUME NEW P, << Nil, NoKeys >> \in P, HasNodes(P)
  PROVE  \A t, m : Holds(t, m) => << t, m >> \in P
<1>1. ASSUME NEW v \in Nat \ {0}, NEW k \in Keys, NEW d \in Values,
             NEW l \in Tree, NEW r \in Tree, NEW x \in Maps, NEW y \in Maps,
             Holds(l, x), << l, x >> \in P, Holds(r, y), << r, y >> \in P, Fits(x, k, y)
      PROVE  << Node(v, k, d, l, r), Join(x, k, d, y) >> \in P
  <2> DEFINE u == Node(v, k, d, l, r)
             z == Join(x, k, d, y)
  <2>1. /\ u.level = v /\ u.key = k /\ u.data = d
        /\ u.child[LEFT] = l /\ u.child[RIGHT] = r
    BY NodeFields
  <2>2. u \in Nodes(Tree)
    BY NodeIn
  <2>3. Holds(u, z)
    BY <1>1, HoldsNode
  <2>4. z = Join(x, u.key, u.data, y)
    BY <2>1
  <2>5. z \in Maps
    BY JoinType
  <2> HIDE DEF u, z
  <2>6. Parts(u, z, x, y)
    BY <1>1, <2>1, <2>4 DEF Parts
  <2>7. << u, z >> \in P
    BY <1>1, <2>1, <2>2, <2>3, <2>5, <2>6 DEF HasNodes
  <2>. QED BY <2>7 DEF u, z
<1>2. HasRoots(P)
  BY <1>1 DEF HasRoots
<1>. QED BY <1>2, HoldsInduction

\* The part of the map for the child on the way to k, and that all of its keys are
\* on that side.
Part(t, k, x, y) == IF Side(t, k) = LEFT THEN x ELSE y
OnSide(t, k, m, z) ==
    \A j \in KeysOf(z) : j # t.key /\ Side(t, j) = Side(t, k) /\ m[j] = z[j]

(* The child on the way to another key than that of the root has its part  *)
(* of the map, and all keys in there are on the same side.                  *)
LEMMA PartsSide ==
  ASSUME NEW t \in Nodes(Tree), NEW m, NEW x \in Maps, NEW y \in Maps, Parts(t, m, x, y),
         NEW k \in Keys, k # t.key
  PROVE  LET z == Part(t, k, x, y)
         IN  /\ Holds(t.child[Side(t, k)], z) /\ z \in Maps /\ m[k] = z[k]
             /\ OnSide(t, k, m, z)
<1> DEFINE z == Part(t, k, x, y)
           a == t.key
<1>1. /\ a \in Int /\ k \in Int
      /\ \A j \in Keys : /\ j \in Int
                         /\ j < a => m[j] = x[j] /\ y[j] = {}
                         /\ a < j => m[j] = y[j] /\ x[j] = {}
      /\ x[a] = {} /\ y[a] = {}
  BY PartsAt
<1>7. \A j \in Keys : Side(t, j) = IF a < j THEN RIGHT ELSE LEFT
  BY NodeForm, SideOf
<1>2. Holds(t.child[LEFT], x) /\ Holds(t.child[RIGHT], y)
  BY DEF Parts
<1>3. LEFT # RIGHT
  BY DEF LEFT, RIGHT
<1>4. CASE k < a
  <2>1. Side(t, k) = LEFT /\ z = x
    BY <1>1, <1>4, <1>7 DEF Part
  <2>2. ASSUME NEW j \in KeysOf(x) PROVE j # a /\ Side(t, j) = LEFT /\ m[j] = x[j]
    <3>1. j \in Keys /\ x[j] # {}
      BY DEF KeysOf
    <3>2. j < a /\ ~(a < j) /\ j # a
      <4> HIDE DEF a
      <4>1. j # a
        BY <1>1, <3>1
      <4>2. ~(a < j)
        BY <1>1, <3>1
      <4>3. j \in Int /\ a \in Int
        BY <1>1, <3>1
      <4>. QED BY <4>1, <4>2, <4>3
    <3>. QED BY <1>1, <1>7, <3>1, <3>2
  <2>3. m[k] = x[k]
    <3> HIDE DEF a
    <3>. QED BY <1>1, <1>4
  <2>. QED BY <1>2, <2>1, <2>2, <2>3 DEF OnSide
<1>5. CASE a < k
  <2>1. Side(t, k) = RIGHT /\ z = y
    BY <1>1, <1>3, <1>5, <1>7 DEF Part
  <2>2. ASSUME NEW j \in KeysOf(y) PROVE j # a /\ Side(t, j) = RIGHT /\ m[j] = y[j]
    <3>1. j \in Keys /\ y[j] # {}
      BY DEF KeysOf
    <3>2. a < j /\ j # a
      <4> HIDE DEF a
      <4>. QED BY <1>1, <3>1
    <3>. QED BY <1>1, <1>7, <3>1, <3>2
  <2>3. m[k] = y[k]
    <3> HIDE DEF a
    <3>. QED BY <1>1, <1>5
  <2>. QED BY <1>2, <2>1, <2>2, <2>3 DEF OnSide
<1>6. k < a \/ a < k
  <2> HIDE DEF a
  <2>. QED BY <1>1 DEF a
<1>. QED BY <1>4, <1>5, <1>6

(* If one key of a part changes and a tree holds the new part, the node    *)
(* with that child holds the map with the same change.                     *)
LEMMA PutSide ==
  ASSUME NEW t \in Nodes(Tree), NEW m, NEW x \in Maps, NEW y \in Maps, Parts(t, m, x, y),
         NEW k \in Keys, k # t.key, NEW s \in SUBSET Values, NEW c,
         Holds(c, [Part(t, k, x, y) EXCEPT ![k] = s])
  PROVE  LET u == [t EXCEPT !.child[Side(t, k)] = c]
         IN  Holds(u, [m EXCEPT ![k] = s]) /\ ~IsNil(u)
<1> DEFINE a == t.key
           d == t.data
           l == t.child[LEFT]
           r == t.child[RIGHT]
           n == [m EXCEPT ![k] = s]
<1>1. /\ a \in Keys /\ d \in Values /\ t.level \in Nat \ {0}
  BY NodeForm
<1>2. Keys \subseteq Int /\ a \in Int /\ k \in Int
  BY <1>1, AATreeAssumption
<1>3. Holds(l, x) /\ Holds(r, y) /\ Fits(x, a, y) /\ m = Join(x, a, d, y)
  BY DEF Parts
<1>4. m \in Maps
  BY PartsAt
<1>5. n \in Maps
  BY <1>4 DEF Maps
<1>6. CASE k < a
  <2> DEFINE z == [x EXCEPT ![k] = s]
             u == Node(t.level, a, d, c, r)
  <2>1. Side(t, k) = LEFT
    BY <1>1, <1>2, <1>6, SideOf
  <2>2. Holds(c, z)
    BY <2>1 DEF Part
  <2>3. z \in Maps
    BY DEF Maps
  <2>4. Fits(z, a, y)
    <3>1. \A j \in KeysOf(z) : j < a
      BY <1>3, <1>6 DEF Fits, KeysOf, Maps
    <3>. QED BY <3>1, <1>3 DEF Fits
  <2>5. Join(z, a, d, y) = n
    <3> DEFINE o == Join(z, a, d, y)
    <3>1. ASSUME NEW j \in Keys PROVE o[j] = n[j]
      <4>1. o[j] = IF j = a THEN {d} ELSE IF j < a THEN z[j] ELSE y[j]
        BY DEF Join
      <4>2. m[j] = IF j = a THEN {d} ELSE IF j < a THEN x[j] ELSE y[j]
        BY <1>3 DEF Join
      <4>3. n[j] = IF j = k THEN s ELSE m[j]
        BY <1>4 DEF Maps
      <4>4. z[j] = IF j = k THEN s ELSE x[j]
        BY DEF Maps
      <4>5. j \in Int
        BY <1>2
      <4> HIDE DEF a, n, z, d, o
      <4>. QED BY <1>2, <1>6, <4>1, <4>2, <4>3, <4>4, <4>5
    <3>2. o \in Maps
      <4> HIDE DEF z
      <4>. QED BY <1>1, <2>3, JoinType
    <3> HIDE DEF o, n
    <3>3. o = n
      BY <1>5, <3>1, <3>2 DEF Maps
    <3>. QED BY <3>3 DEF o
  <2>6. Holds(u, Join(z, a, d, y))
    <3> HIDE DEF z, a, d, r
    <3>. QED BY <1>1, <1>3, <2>2, <2>3, <2>4, HoldsNode DEF a, d, r
  <2>7. [t EXCEPT !.child[LEFT] = c] = u
    BY ExceptLeft
  <2>8. ~IsNil(u)
    BY <1>1, NodeFields
  <2>. QED BY <2>1, <2>5, <2>6, <2>7, <2>8
<1>7. CASE a < k
  <2> DEFINE z == [y EXCEPT ![k] = s]
             u == Node(t.level, a, d, l, c)
  <2>1. Side(t, k) = RIGHT /\ LEFT # RIGHT
    BY <1>1, <1>2, <1>7, SideOf DEF LEFT, RIGHT
  <2>2. Holds(c, z)
    BY <2>1 DEF Part
  <2>3. z \in Maps
    BY DEF Maps
  <2>4. Fits(x, a, z)
    <3>1. \A j \in KeysOf(z) : a < j
      BY <1>3, <1>7 DEF Fits, KeysOf, Maps
    <3>. QED BY <3>1, <1>3 DEF Fits
  <2>5. Join(x, a, d, z) = n
    <3> DEFINE o == Join(x, a, d, z)
    <3>1. ASSUME NEW j \in Keys PROVE o[j] = n[j]
      <4>1. o[j] = IF j = a THEN {d} ELSE IF j < a THEN x[j] ELSE z[j]
        BY DEF Join
      <4>2. m[j] = IF j = a THEN {d} ELSE IF j < a THEN x[j] ELSE y[j]
        BY <1>3 DEF Join
      <4>3. n[j] = IF j = k THEN s ELSE m[j]
        BY <1>4 DEF Maps
      <4>4. z[j] = IF j = k THEN s ELSE y[j]
        BY DEF Maps
      <4>5. j \in Int
        BY <1>2
      <4> HIDE DEF a, n, z, d, o
      <4>. QED BY <1>2, <1>7, <4>1, <4>2, <4>3, <4>4, <4>5
    <3>2. o \in Maps
      <4> HIDE DEF z
      <4>. QED BY <1>1, <2>3, JoinType
    <3> HIDE DEF o, n
    <3>3. o = n
      BY <1>5, <3>1, <3>2 DEF Maps
    <3>. QED BY <3>3 DEF o
  <2>6. Holds(u, Join(x, a, d, z))
    <3> HIDE DEF z, a, d, l
    <3>. QED BY <1>1, <1>3, <2>2, <2>3, <2>4, HoldsNode DEF a, d, l
  <2>7. [t EXCEPT !.child[RIGHT] = c] = u
    BY ExceptRight
  <2>8. ~IsNil(u)
    BY <1>1, NodeFields
  <2>. QED BY <2>1, <2>5, <2>6, <2>7, <2>8
<1>8. k < a \/ a < k
  <2> HIDE DEF a
  <2>. QED BY <1>2 DEF a
<1>. QED BY <1>6, <1>7, <1>8

\* The node of k in t is there if m has k, with its data, and holds a part of m
\* whose keys are found through it.
Found(t, m, k) ==
    LET n == Fetch(t, k)
    IN  /\ IsNil(n) => m[k] = {}
        /\ ~IsNil(n) => /\ n \in Nodes(Tree) /\ n.key = k /\ m[k] = {n.data}
                        /\ \E s \in Maps : /\ Holds(n, s)
                                           /\ \A j \in KeysOf(s) : /\ m[j] = s[j]
                                                                   /\ Fetch(t, j) = Fetch(n, j)

(* A search finds the node of the key.                                     *)
LEMMA FetchFinds ==
  ASSUME NEW k \in Keys
  PROVE  \A t, m : Holds(t, m) => Found(t, m, k)
<1> DEFINE P == {p \in Tree \X Maps : Found(p[1], p[2], k)}
<1>1. << Nil, NoKeys >> \in P
  <2>1. IsNil(Fetch(Nil, k)) /\ NoKeys[k] = {}
    BY Children, FetchDef DEF NoKeys
  <2>2. Found(Nil, NoKeys, k)
    BY <2>1 DEF Found
  <2>. QED BY <2>2, Children, NoKeysType
<1>2. ASSUME NEW t \in Nodes(Tree), NEW m \in Maps, NEW x \in Maps, NEW y \in Maps,
             Holds(t, m), Parts(t, m, x, y),
             << t.child[LEFT], x >> \in P, << t.child[RIGHT], y >> \in P
      PROVE  << t, m >> \in P
  <2>0. t \in Tree /\ ~IsNil(t)
    BY <1>2, HoldsType, NodeForm
  <2>1. CASE t.key = k
    <3>1. \A j : Fetch(t, k) = t
      BY <2>0, <2>1, FetchDef
    <3>2. m[k] = {t.data}
      BY <1>2, <2>1, PartsAt
    <3>3. \E s \in Maps : /\ Holds(t, s)
                          /\ \A j \in KeysOf(s) : m[j] = s[j] /\ Fetch(t, j) = Fetch(t, j)
      BY <1>2
    <3>4. Found(t, m, k)
      BY <2>0, <2>1, <3>1, <3>2, <3>3 DEF Found
    <3>. QED BY <2>0, <3>4
  <2>2. CASE t.key # k
    <3> DEFINE c == t.child[Side(t, k)]
               z == Part(t, k, x, y)
               n == Fetch(c, k)
    <3>0. Holds(c, z) /\ z \in Maps /\ m[k] = z[k] /\ OnSide(t, k, m, z)
      BY <1>2, <2>2, PartsSide
    <3>1. /\ Holds(c, z) /\ z \in Maps /\ m[k] = z[k]
          /\ \A j \in KeysOf(z) : j # t.key /\ Side(t, j) = Side(t, k) /\ m[j] = z[j]
      <4> HIDE DEF c, z
      <4>. QED BY <3>0 DEF OnSide
    <3>2. Fetch(t, k) = n
      BY <2>0, <2>2, FetchDef
    <3>3. Found(c, z, k)
      <4>1. << c, z >> \in P
        BY <1>2, SideType DEF Part, Dirs
      <4> HIDE DEF c, z
      <4>. QED BY <4>1
    <3>4. \A j \in KeysOf(z) : Fetch(t, j) = Fetch(c, j)
      <4>1. ASSUME NEW j \in KeysOf(z) PROVE Fetch(t, j) = Fetch(c, j)
        <5>1. Fetch(t, j) = Fetch(t.child[Side(t, j)], j)
          BY <2>0, <3>1, FetchDef DEF KeysOf
        <5>. QED BY <3>1, <5>1
      <4>. QED BY <4>1
    <3> HIDE DEF c, z
    <3>5. IsNil(n) => m[k] = {}
      BY <3>1, <3>3 DEF Found
    <3>6. ASSUME ~IsNil(n)
          PROVE  /\ n \in Nodes(Tree) /\ n.key = k /\ m[k] = {n.data}
                 /\ \E s \in Maps : /\ Holds(n, s)
                                    /\ \A j \in KeysOf(s) : m[j] = s[j] /\ Fetch(t, j) = Fetch(n, j)
      <4>1. n \in Nodes(Tree) /\ n.key = k /\ m[k] = {n.data}
        BY <3>1, <3>3, <3>6 DEF Found
      <4>2. PICK s \in Maps : /\ Holds(n, s)
                              /\ \A j \in KeysOf(s) : z[j] = s[j] /\ Fetch(c, j) = Fetch(n, j)
        BY <3>3, <3>6 DEF Found
      <4>3. \A j \in KeysOf(s) : j \in KeysOf(z)
        BY <4>2 DEF KeysOf
      <4>4. \A j \in KeysOf(s) : m[j] = s[j] /\ Fetch(t, j) = Fetch(n, j)
        <5> HIDE DEF n
        <5>. QED BY <3>1, <3>4, <4>2, <4>3
      <4>. QED BY <4>1, <4>2, <4>4
    <3>7. Found(t, m, k)
      <4> HIDE DEF n
      <4>. QED BY <3>2, <3>5, <3>6 DEF Found
    <3>. QED BY <2>0, <3>7
  <2>. QED BY <2>1, <2>2
<1>3. HasNodes(P)
  <2> HIDE DEF P
  <2>. QED BY <1>2 DEF HasNodes
<1>4. \A t, m : Holds(t, m) => << t, m >> \in P
  <2> HIDE DEF P
  <2>. QED BY <1>1, <1>3, TreeInduction
<1>. QED BY <1>4

(* SetData changes the data of its key and nothing else.                   *)
LEMMA SetDataHolds ==
  ASSUME NEW k \in Keys, NEW d \in Values
  PROVE  \A t, m : Holds(t, m) /\ m[k] # {} => Holds(SetData(t, k, d), [m EXCEPT ![k] = {d}])
<1> DEFINE Q(t, m) == m[k] # {} => Holds(SetData(t, k, d), [m EXCEPT ![k] = {d}])
           P == {p \in Tree \X Maps : Q(p[1], p[2])}
<1>1. << Nil, NoKeys >> \in P
  BY Children, NoKeysType DEF NoKeys
<1>2. ASSUME NEW t \in Nodes(Tree), NEW m \in Maps, NEW x \in Maps, NEW y \in Maps,
             Holds(t, m), Parts(t, m, x, y),
             << t.child[LEFT], x >> \in P, << t.child[RIGHT], y >> \in P, m[k] # {}
      PROVE  Holds(SetData(t, k, d), [m EXCEPT ![k] = {d}])
  <2>0. t \in Tree /\ ~IsNil(t)
    BY <1>2, HoldsType, NodeForm
  <2>1. CASE t.key = k
    <3> DEFINE n == [m EXCEPT ![k] = {d}]
               o == Join(x, k, d, y)
               u == Node(t.level, k, d, t.child[LEFT], t.child[RIGHT])
    <3>1. SetData(t, k, d) = [t EXCEPT !.data = d]
      BY <2>0, <2>1, SetDataDef
    <3>2. [t EXCEPT !.data = d] = u
      BY <2>1, ExceptData
    <3>3. Holds(t.child[LEFT], x) /\ Holds(t.child[RIGHT], y) /\ Fits(x, k, y)
          /\ m = Join(x, k, t.data, y)
      BY <1>2, <2>1 DEF Parts
    <3>4. t.level \in Nat \ {0}
      BY NodeForm
    <3>5. Holds(u, o)
      BY <3>3, <3>4, HoldsNode
    <3>6. \A j \in Keys : o[j] = n[j]
      BY <3>3 DEF Join
    <3>7. n \in Maps /\ o \in Maps
      <4>1. n \in Maps
        BY DEF Maps
      <4>2. o \in Maps
        BY JoinType
      <4>. QED BY <4>1, <4>2
    <3> HIDE DEF n, o, u
    <3>8. n = o
      BY <3>6, <3>7 DEF Maps
    <3>. QED BY <3>1, <3>2, <3>5, <3>8 DEF n
  <2>2. CASE t.key # k
    <3> DEFINE c == t.child[Side(t, k)]
               z == Part(t, k, x, y)
    <3>1. /\ Holds(c, z) /\ z \in Maps /\ m[k] = z[k]
      BY <1>2, <2>2, PartsSide
    <3>2. SetData(t, k, d) = [t EXCEPT !.child[Side(t, k)] = SetData(c, k, d)]
      BY <2>0, <2>2, SetDataDef
    <3>3. Q(c, z)
      <4>1. << c, z >> \in P
        BY <1>2, SideType DEF Part, Dirs
      <4> HIDE DEF c, z, Q
      <4>. QED BY <4>1
    <3>4. Holds(SetData(c, k, d), [z EXCEPT ![k] = {d}])
      <4> HIDE DEF c, z
      <4>. QED BY <1>2, <3>1, <3>3
    <3>5. Holds([t EXCEPT !.child[Side(t, k)] = SetData(c, k, d)], [m EXCEPT ![k] = {d}])
      <4> DEFINE e == SetData(c, k, d)
                 s == {d}
      <4>1. s \in SUBSET Values
        OBVIOUS
      <4>2. Holds(e, [z EXCEPT ![k] = s])
        BY <3>4
      <4> HIDE DEF e, s, c
      <4>3. Holds([t EXCEPT !.child[Side(t, k)] = e], [m EXCEPT ![k] = s])
        BY <1>2, <2>2, <4>1, <4>2, PutSide
      <4>. QED BY <4>3 DEF e, s
    <3>. QED BY <3>2, <3>5
  <2>. QED BY <2>1, <2>2
<1>3. HasNodes(P)
  <2>1. ASSUME NEW t \in Nodes(Tree), NEW m \in Maps, NEW x \in Maps, NEW y \in Maps,
               Holds(t, m), Parts(t, m, x, y),
               << t.child[LEFT], x >> \in P, << t.child[RIGHT], y >> \in P
        PROVE  << t, m >> \in P
    <3>1. Q(t, m)
      <4> HIDE DEF P
      <4>. QED BY <1>2, <2>1
    <3>2. t \in Tree
      BY <2>1, HoldsType
    <3> HIDE DEF Q
    <3>. QED BY <3>1, <3>2
  <2> HIDE DEF P
  <2>. QED BY <2>1 DEF HasNodes
<1>4. \A t, m : Holds(t, m) => << t, m >> \in P
  <2> HIDE DEF P
  <2>. QED BY <1>1, <1>3, TreeInduction
<1>5. \A t, m : Holds(t, m) => Q(t, m)
  <2> HIDE DEF Q
  <2>. QED BY <1>4
<1>. QED BY <1>5

\* o has d at k, what x has below and what y has above.
Blends(o, x, k, d, y) ==
    \A j \in Keys : o[j] = IF j = k THEN {d} ELSE IF j < k THEN x[j] ELSE y[j]

(* Two ways to the map of a new root: by its values.                       *)
LEMMA JoinIs ==
  ASSUME NEW x \in Maps, NEW y \in Maps, NEW k \in Keys, NEW d \in Values, NEW o \in Maps,
         Blends(o, x, k, d, y)
  PROVE  o = Join(x, k, d, y)
<1> DEFINE p == Join(x, k, d, y)
<1>1. p \in Maps
  BY JoinType
<1>2. \A j \in Keys : p[j] = IF j = k THEN {d} ELSE IF j < k THEN x[j] ELSE y[j]
  BY DEF Join
<1> HIDE DEF p
<1>3. \A j \in Keys : o[j] = p[j]
  BY <1>2 DEF Blends
<1>4. o = p
  BY <1>1, <1>3 DEF Maps
<1>. QED BY <1>4 DEF p

(* A change of a map at one key.                                           *)
LEMMA PutAt ==
  ASSUME NEW m \in Maps, NEW k \in Keys, NEW s \in SUBSET Values
  PROVE  /\ [m EXCEPT ![k] = s] \in Maps
         /\ \A j \in Keys : [m EXCEPT ![k] = s][j] = IF j = k THEN s ELSE m[j]
BY DEF Maps

(* Among near keys (KeysNear), Insert adds its node and nothing else.      *)
LEMMA InsertHolds ==
  ASSUME NEW k \in Keys, NEW d \in Data
  PROVE  \A t, m : Holds(t, m) /\ m[k] = {} =>
            Holds(Insert(t, NewNode(k, d)), [m EXCEPT ![k] = {d}])
<1> DEFINE new == NewNode(k, d)
           Q(t, m) == m[k] = {} => Holds(Insert(t, new), [m EXCEPT ![k] = {d}])
           P == {p \in Tree \X Maps : Q(p[1], p[2])}
<1>0. new = Node(1, k, d, Nil, Nil) /\ new.key = k /\ d \in Values
  BY DEF NewNode, Node, Dirs, Values
<1> HIDE DEF new
<1>1. Q(Nil, NoKeys)
  <2>1. Insert(Nil, new) = new
    BY Children, InsertDef
  <2>2. Fits(NoKeys, k, NoKeys)
    BY NoKeysType DEF Fits
  <2>3. Holds(new, Join(NoKeys, k, d, NoKeys))
    <3>1. 1 \in Nat \ {0}
      OBVIOUS
    <3>. QED BY <1>0, <2>2, <3>1, HoldsNil, HoldsNode
  <2> DEFINE o == [NoKeys EXCEPT ![k] = {d}]
  <2>4. o \in Maps
    <3>1. {d} \in SUBSET Values /\ NoKeys \in Maps
      BY <1>0, NoKeysType
    <3>. QED BY ONLY k \in Keys, <3>1, PutAt
  <2>5. \A j \in Keys : o[j] = IF j = k THEN {d} ELSE IF j < k THEN NoKeys[j] ELSE NoKeys[j]
    BY DEF NoKeys
  <2> DEFINE p == Join(NoKeys, k, d, NoKeys)
  <2>6. p \in Maps /\ \A j \in Keys : o[j] = p[j]
    <3>1. p \in Maps
      BY <1>0, NoKeysType, JoinType
    <3>. QED BY <2>5, <3>1 DEF Join
  <2> HIDE DEF o, p
  <2>7. o = p
    BY <2>4, <2>6 DEF Maps
  <2>. QED BY <2>1, <2>3, <2>7 DEF o, p
<1>2. ASSUME NEW t \in Nodes(Tree), NEW m \in Maps, NEW x \in Maps, NEW y \in Maps,
             Holds(t, m), Parts(t, m, x, y),
             << t.child[LEFT], x >> \in P, << t.child[RIGHT], y >> \in P
      PROVE  << t, m >> \in P
  <2>0. t \in Tree /\ ~IsNil(t)
    BY <1>2, HoldsType, NodeForm
  <2>1. SUFFICES ASSUME m[k] = {} PROVE Holds(Insert(t, new), [m EXCEPT ![k] = {d}])
    <3>1. CASE m[k] = {}
      BY <2>0, <2>1, <3>1
    <3>2. CASE m[k] # {}
      BY <2>0, <3>2
    <3>. QED BY <3>1, <3>2
  <2> HIDE DEF P, Q
  <2>2. t.key # k
    <3>1. m[t.key] = {t.data}
      BY <1>2, PartsAt
    <3>. QED BY <2>1, <3>1
  <2> DEFINE c == t.child[Side(t, k)]
             z == Part(t, k, x, y)
             e == Insert(c, new)
             s == {d}
             u == [t EXCEPT !.child[Side(t, k)] = e]
             n == [m EXCEPT ![k] = s]
  <2>3. Holds(c, z) /\ z \in Maps /\ m[k] = z[k]
    BY <1>2, <2>2, PartsSide
  <2>4. Insert(t, new) = Split(Skew(u))
    BY <1>0, <2>0, InsertDef
  <2>5. Q(c, z)
    <3>1. << c, z >> \in P
      BY <1>2, SideType DEF Part, Dirs
    <3> HIDE DEF c, z
    <3>. QED BY <3>1 DEF P
  <2>6. Holds(e, [z EXCEPT ![k] = s])
    <3> HIDE DEF c, z
    <3>. QED BY <2>1, <2>3, <2>5 DEF Q
  <2>7. Holds(u, n)
    <3>1. s \in SUBSET Values
      BY <1>0
    <3> HIDE DEF e, s
    <3>. QED BY <1>2, <2>2, <2>6, <3>1, PutSide
  <2> HIDE DEF u, n
  <2>8. Holds(Split(Skew(u)), n)
    BY <2>7, SkewSame, SplitSame
  <2>. QED BY <2>4, <2>8 DEF n
<1>3. HasNodes(P)
  <2> HIDE DEF P
  <2>. QED BY <1>2 DEF HasNodes
<1>4. << Nil, NoKeys >> \in P
  <2> HIDE DEF Q
  <2>. QED BY <1>1, Children, NoKeysType
<1>5. \A t, m : Holds(t, m) => << t, m >> \in P
  <2> HIDE DEF P
  <2>. QED BY <1>3, <1>4, TreeInduction
<1>6. \A t, m : Holds(t, m) => Q(t, m)
  <2> HIDE DEF Q
  <2>. QED BY <1>5
<1>. QED BY <1>6 DEF new

\* Every key of m is on the other side of k than dir.
Beyond(m, dir, k) == \A j \in KeysOf(m) : IF dir = LEFT THEN k < j ELSE j < k

\* n is a node that holds the outermost key of m.
Outermost(m, dir, n) ==
    /\ n \in Nodes(Tree) /\ m[n.key] = {n.data}
    /\ \A j \in KeysOf(m) : j # n.key => IF dir = LEFT THEN n.key < j ELSE j < n.key

(* Going in one direction from a node leads to the outermost one.          *)
LEMMA FarthestIs ==
  ASSUME NEW dir \in Dirs
  PROVE  \A t, m : Holds(t, m) /\ ~IsNil(t) => Outermost(m, dir, Farthest(t, dir))
<1> DEFINE Q(t, m) == ~IsNil(t) => Outermost(m, dir, Farthest(t, dir))
           P == {p \in Tree \X Maps : Q(p[1], p[2])}
<1>1. << Nil, NoKeys >> \in P
  BY Children, NoKeysType
<1>2. ASSUME NEW t \in Nodes(Tree), NEW m \in Maps, NEW x \in Maps, NEW y \in Maps,
             Holds(t, m), Parts(t, m, x, y),
             << t.child[LEFT], x >> \in P, << t.child[RIGHT], y >> \in P
      PROVE  << t, m >> \in P
  <2>0. t \in Tree /\ ~IsNil(t)
    BY <1>2, HoldsType, NodeForm
  <2> DEFINE a == t.key
             z == IF dir = LEFT THEN x ELSE y
             c == t.child[dir]
  <2>1. /\ a \in Keys /\ a \in Int /\ m[a] = {t.data}
        /\ \A j \in Keys : /\ j \in Int
                           /\ j < a => m[j] = x[j] /\ y[j] = {}
                           /\ a < j => m[j] = y[j] /\ x[j] = {}
    BY <1>2, PartsAt
  <2>2. Holds(c, z) /\ << c, z >> \in P
    BY <1>2 DEF Parts, Dirs
  <2>3. CASE IsNil(c)
    <3>1. z = NoKeys
      <4> HIDE DEF c, z
      <4>. QED BY <2>2, <2>3, HoldsParts
    <3>2. Farthest(t, dir) = t
      BY <2>0, <2>3, FarthestDef
    <3>3. \A j \in KeysOf(m) : j # a => IF dir = LEFT THEN a < j ELSE j < a
      <4>1. ASSUME NEW j \in KeysOf(m), j # a
            PROVE  IF dir = LEFT THEN a < j ELSE j < a
        <5>1. j \in Keys /\ m[j] # {} /\ NoKeys[j] = {}
          BY DEF KeysOf, NoKeys
        <5> HIDE DEF a
        <5>2. j < a \/ a < j
          BY <2>1, <4>1, <5>1
        <5>3. dir = LEFT => x[j] = {}
          BY <3>1, <5>1
        <5>4. dir # LEFT => y[j] = {}
          BY <3>1, <5>1
        <5>. QED BY <2>1, <5>1, <5>2, <5>3, <5>4
      <4>. QED BY <4>1
    <3>4. Outermost(m, dir, t)
      BY <2>1, <3>3 DEF Outermost
    <3>. QED BY <2>0, <3>2, <3>4
  <2>4. CASE ~IsNil(c)
    <3> DEFINE n == Farthest(c, dir)
    <3>1. Farthest(t, dir) = n
      BY <2>0, <2>4, FarthestDef
    <3>2. Outermost(z, dir, n)
      <4> HIDE DEF c, z, n
      <4>. QED BY <2>2, <2>4 DEF n
    <3> HIDE DEF n
    <3>3. n.key \in Keys /\ n \in Nodes(Tree)
      BY <3>2, NodeForm DEF Outermost
    <3>4. z[n.key] = {n.data}
      BY <3>2 DEF Outermost
    <3>5. /\ dir = LEFT => n.key < a /\ m[n.key] = x[n.key]
          /\ dir # LEFT => a < n.key /\ m[n.key] = y[n.key]
      <4>1. \A j \in Keys : (x[j] # {} => j < a) /\ (y[j] # {} => a < j)
        BY <1>2 DEF Parts, Fits, KeysOf
      <4> HIDE DEF a
      <4>. QED BY <2>1, <3>3, <3>4, <4>1
    <3>6. m[n.key] = {n.data}
      BY <3>4, <3>5
    <3>7. ASSUME NEW j \in KeysOf(m), j # n.key
          PROVE  IF dir = LEFT THEN n.key < j ELSE j < n.key
      <4>1. j \in Keys /\ m[j] # {} /\ j \in Int /\ n.key \in Int
        BY <2>1, <3>3 DEF KeysOf
      <4>2. z[j] # {} => IF dir = LEFT THEN n.key < j ELSE j < n.key
        BY <3>2, <3>7, <4>1 DEF Outermost, KeysOf
      <4>3. CASE j = a
        BY <3>5, <4>3
      <4>4. CASE j # a
        <5>1. j < a \/ a < j
          <6> HIDE DEF a
          <6>. QED BY <2>1, <4>1, <4>4
        <5>2. (j < a => m[j] = x[j]) /\ (a < j => m[j] = y[j])
          BY <2>1, <4>1
        <5>3. CASE dir = LEFT
          <6>1. j < a => n.key < j
            BY <4>1, <4>2, <5>2, <5>3
          <6>2. a < j => n.key < j
            <7> HIDE DEF a
            <7>. QED BY <2>1, <3>5, <4>1, <5>3
          <6>. QED BY <5>1, <5>3, <6>1, <6>2
        <5>4. CASE dir # LEFT
          <6>1. a < j => j < n.key
            BY <4>1, <4>2, <5>2, <5>4
          <6>2. j < a => j < n.key
            <7> HIDE DEF a
            <7>. QED BY <2>1, <3>5, <4>1, <5>4
          <6>. QED BY <5>1, <5>4, <6>1, <6>2
        <5>. QED BY <5>3, <5>4
      <4>. QED BY <4>3, <4>4
    <3>8. Outermost(m, dir, n)
      BY <3>3, <3>6, <3>7 DEF Outermost
    <3>. QED BY <2>0, <3>1, <3>8
  <2>. QED BY <2>3, <2>4
<1>3. HasNodes(P)
  <2> HIDE DEF P
  <2>. QED BY <1>2 DEF HasNodes
<1>4. \A t, m : Holds(t, m) => << t, m >> \in P
  <2> HIDE DEF P
  <2>. QED BY <1>1, <1>3, TreeInduction
<1>5. \A t, m : Holds(t, m) => Q(t, m)
  <2> HIDE DEF Q
  <2>. QED BY <1>4
<1>. QED BY <1>5

\* What m becomes when the value e of the key a moves to the key k.
Moved(m, a, k, e) == [[m EXCEPT ![a] = {}] EXCEPT ![k] = {e}]

(* What a map has at each key after the data of one moved to another.      *)
LEMMA MovedAt ==
  ASSUME NEW m \in Maps, NEW a \in Keys, NEW k \in Keys, NEW e \in Values
  PROVE  /\ Moved(m, a, k, e) \in Maps
         /\ \A j \in Keys : Moved(m, a, k, e)[j] =
               IF j = k THEN {e} ELSE IF j = a THEN {} ELSE m[j]
<1> DEFINE n == [m EXCEPT ![a] = {}]
<1>1. n \in Maps /\ \A j \in Keys : n[j] = IF j = a THEN {} ELSE m[j]
  BY DEF Maps
<1> HIDE DEF n
<1> DEFINE o == [n EXCEPT ![k] = {e}]
<1>2. o \in Maps /\ \A j \in Keys : o[j] = IF j = k THEN {e} ELSE n[j]
  BY <1>1, PutAt
<1>3. Moved(m, a, k, e) = o
  BY DEF Moved, n
<1> HIDE DEF o
<1>. QED BY <1>1, <1>2, <1>3

\* What Rekey is for: k is beyond all keys of m.
Rekeyed(t, m, dir, k) ==
    ~IsNil(t) /\ Beyond(m, dir, k) =>
        LET n == Farthest(t, dir)
        IN  Holds(Rekey(t, dir, k), Moved(m, n.key, k, n.data))

(* A key beyond those of the left child's map and of the root; the same to *)
(* the right.                                                              *)
LEMMA RekeyLeft ==
  ASSUME NEW t \in Nodes(Tree), NEW m \in Maps, NEW x \in Maps, NEW y \in Maps,
         Holds(t, m), Parts(t, m, x, y), NEW k \in Keys, Rekeyed(t.child[LEFT], x, LEFT, k)
  PROVE  Rekeyed(t, m, LEFT, k)
<1>0. t \in Tree /\ ~IsNil(t) /\ LEFT \in Dirs
  BY HoldsType, NodeForm DEF Dirs
<1>1. SUFFICES ASSUME Beyond(m, LEFT, k)
      PROVE  LET n == Farthest(t, LEFT)
             IN  Holds(Rekey(t, LEFT, k), Moved(m, n.key, k, n.data))
  BY DEF Rekeyed
<1> DEFINE b == t.key
           d == t.data
           c == t.child[LEFT]
           r == t.child[RIGHT]
<1>2. /\ b \in Keys /\ b \in Int /\ m[b] = {d}
      /\ \A j \in Keys : /\ j \in Int
                         /\ j < b => m[j] = x[j] /\ y[j] = {}
                         /\ b < j => m[j] = y[j] /\ x[j] = {}
  BY PartsAt
<1>3. d \in Values /\ t.level \in Nat \ {0} /\ x[b] = {} /\ y[b] = {}
  BY NodeForm, PartsAt
<1>4. Holds(c, x) /\ Holds(r, y) /\ Fits(x, b, y) /\ m = Join(x, b, d, y)
  BY DEF Parts
<1>5. k < b /\ \A j \in Keys : m[j] # {} => k < j
  BY <1>1, <1>2 DEF Beyond, KeysOf
<1>6. CASE IsNil(c)
  <2> DEFINE u == Node(t.level, k, d, c, r)
             o == Moved(m, b, k, d)
  <2>1. Farthest(t, LEFT) = t /\ Rekey(t, LEFT, k) = [t EXCEPT !.key = k]
    BY <1>0, <1>6, FarthestDef, RekeyDef
  <2>2. [t EXCEPT !.key = k] = u
    BY ExceptKey
  <2>3. x = NoKeys
    BY <1>4, <1>6, HoldsParts
  <2>4. Fits(x, k, y)
    <3>1. \A j \in KeysOf(y) : k < j
      <4>1. ASSUME NEW j \in KeysOf(y) PROVE k < j
        <5>1. j \in Keys /\ b < j
          BY <1>4 DEF Fits, KeysOf
        <5> HIDE DEF b
        <5>. QED BY <1>2, <1>5, <5>1
      <4>. QED BY <4>1
    <3>. QED BY <2>3, <3>1, NoKeysType DEF Fits
  <2>5. o \in Maps /\ \A j \in Keys : o[j] = IF j = k THEN {d} ELSE IF j = b THEN {} ELSE m[j]
    <3> HIDE DEF b, d
    <3>1. m \in Maps /\ b \in Keys /\ d \in Values
      BY <1>2, <1>3
    <3>2. o \in Maps
      BY ONLY k \in Keys, <3>1, MovedAt
    <3>3. \A j \in Keys : o[j] = IF j = k THEN {d} ELSE IF j = b THEN {} ELSE m[j]
      BY ONLY k \in Keys, <3>1 DEF Moved, Maps
    <3>. QED BY ONLY <3>2, <3>3
  <2>6. \A j \in Keys : o[j] = IF j = k THEN {d} ELSE IF j < k THEN x[j] ELSE y[j]
    <3>1. ASSUME NEW j \in Keys
          PROVE  o[j] = IF j = k THEN {d} ELSE IF j < k THEN x[j] ELSE y[j]
      <4>1. x[j] = {}
        BY <2>3 DEF NoKeys
      <4>2. (j < b => m[j] = x[j] /\ y[j] = {}) /\ (b < j => m[j] = y[j] /\ x[j] = {})
        BY <1>2
      <4>3. m[j] # {} => k < j
        BY <1>5
      <4>4. j \in Int /\ b \in Int /\ k \in Int
        BY <1>2
      <4>5. o[j] = IF j = k THEN {d} ELSE IF j = b THEN {} ELSE m[j]
        BY <2>5
      <4>6. j = b => y[j] = {} /\ x[j] = {}
        BY <1>3
      <4> HIDE DEF o, b, d
      <4>7. CASE j = k
        BY ONLY <4>5, <4>7
      <4>8. CASE j = b /\ j # k
        BY ONLY <4>1, <4>5, <4>6, <4>8
      <4>9. CASE j < b /\ j # k
        BY ONLY <1>5, <4>1, <4>2, <4>3, <4>4, <4>5, <4>9
      <4>10. CASE b < j /\ j # k
        BY ONLY <1>5, <4>1, <4>2, <4>3, <4>4, <4>5, <4>10
      <4>. QED BY ONLY <4>4, <4>7, <4>8, <4>9, <4>10
    <3>. QED BY <3>1
  <2>7. o = Join(x, k, d, y)
    <3> HIDE DEF o, d
    <3>1. Blends(o, x, k, d, y)
      BY ONLY <2>6 DEF Blends
    <3>. QED BY ONLY x \in Maps, y \in Maps, k \in Keys, <1>3, <2>5, <3>1, JoinIs
  <2>8. Holds(u, Join(x, k, d, y))
    <3> HIDE DEF c, r, d
    <3>. QED BY <1>3, <1>4, <2>4, HoldsNode
  <2>. QED BY <2>1, <2>2, <2>7, <2>8
<1>7. CASE ~IsNil(c)
  <2> DEFINE n == Farthest(c, LEFT)
             a == n.key
             e == n.data
             w == Rekey(c, LEFT, k)
             z == Moved(x, a, k, e)
             o == Moved(m, a, k, e)
             u == Node(t.level, b, d, w, r)
  <2>1. Farthest(t, LEFT) = n /\ Rekey(t, LEFT, k) = [t EXCEPT !.child[LEFT] = w]
    BY <1>0, <1>7, FarthestDef, RekeyDef
  <2>2. [t EXCEPT !.child[LEFT] = w] = u
    <3> HIDE DEF w
    <3>. QED BY ExceptLeft
  <2>3. Outermost(x, LEFT, n)
    <3> HIDE DEF c
    <3>. QED BY <1>0, <1>4, <1>7, FarthestIs
  <2> HIDE DEF n
  <2>4. a \in Keys /\ e \in Values /\ x[a] = {e}
    BY <2>3, NodeForm DEF Outermost
  <2>5. Beyond(x, LEFT, k)
    <3>1. \A j \in Keys : x[j] # {} => m[j] # {}
      <4>1. \A j \in Keys : x[j] # {} => j < b
        BY <1>4 DEF Fits, KeysOf
      <4> HIDE DEF b
      <4>. QED BY <1>2, <4>1
    <3>. QED BY <1>5, <3>1 DEF Beyond, KeysOf
  <2>6. Holds(w, z)
    BY <1>7, <2>5 DEF Rekeyed, n
  <2>7. z \in Maps /\ \A j \in Keys : z[j] = IF j = k THEN {e} ELSE IF j = a THEN {} ELSE x[j]
    <3> HIDE DEF a, e
    <3>1. a \in Keys /\ e \in Values
      BY <2>4
    <3>2. z \in Maps
      BY <3>1, MovedAt
    <3>3. \A j \in Keys : z[j] = IF j = k THEN {e} ELSE IF j = a THEN {} ELSE x[j]
      BY <3>1 DEF Moved, Maps
    <3>. QED BY <3>2, <3>3
  <2>8. o \in Maps /\ \A j \in Keys : o[j] = IF j = k THEN {e} ELSE IF j = a THEN {} ELSE m[j]
    <3> HIDE DEF a, e
    <3>1. a \in Keys /\ e \in Values
      BY <2>4
    <3>2. o \in Maps
      BY <3>1, MovedAt
    <3>3. \A j \in Keys : o[j] = IF j = k THEN {e} ELSE IF j = a THEN {} ELSE m[j]
      BY <3>1 DEF Moved, Maps
    <3>. QED BY <3>2, <3>3
  <2>9. a < b
    BY <1>4, <2>4 DEF Fits, KeysOf
  <2>10. Fits(z, b, y)
    <3>1. \A j \in KeysOf(z) : j < b
      <4>1. ASSUME NEW j \in KeysOf(z) PROVE j < b
        <5>1. j \in Keys /\ (j = k \/ x[j] # {})
          <6> HIDE DEF z, a, e
          <6>. QED BY <2>7 DEF KeysOf
        <5>. QED BY <1>4, <1>5, <5>1 DEF Fits, KeysOf
      <4>. QED BY <4>1
    <3>. QED BY <1>4, <3>1 DEF Fits
  <2>11. \A j \in Keys : o[j] = IF j = b THEN {d} ELSE IF j < b THEN z[j] ELSE y[j]
    <3>1. ASSUME NEW j \in Keys
          PROVE  o[j] = IF j = b THEN {d} ELSE IF j < b THEN z[j] ELSE y[j]
      <4>1. o[j] = IF j = k THEN {e} ELSE IF j = a THEN {} ELSE m[j]
        BY <2>8
      <4>2. z[j] = IF j = k THEN {e} ELSE IF j = a THEN {} ELSE x[j]
        BY <2>7
      <4>3. (j < b => m[j] = x[j] /\ y[j] = {}) /\ (b < j => m[j] = y[j] /\ x[j] = {})
        BY <1>2
      <4>4. j \in Int /\ a \in Int /\ b \in Int /\ k \in Int /\ m[b] = {d}
        BY <1>2, <2>4
      <4> HIDE DEF o, z, a, b, d, e
      <4>5. CASE j = b
        BY ONLY <1>5, <2>9, <4>1, <4>4, <4>5
      <4>6. CASE j < b
        BY ONLY <1>5, <2>9, <4>1, <4>2, <4>3, <4>4, <4>6
      <4>7. CASE b < j
        BY ONLY <1>5, <2>9, <4>1, <4>2, <4>3, <4>4, <4>7
      <4>. QED BY ONLY <4>4, <4>5, <4>6, <4>7
    <3>. QED BY <3>1
  <2>12. o = Join(z, b, d, y)
    <3>1. b \in Keys /\ d \in Values /\ z \in Maps /\ o \in Maps
      BY <1>2, <1>3, <2>7, <2>8
    <3> HIDE DEF o, z, b, d
    <3>2. Blends(o, z, b, d, y)
      BY ONLY <2>11 DEF Blends
    <3>. QED BY ONLY x \in Maps, y \in Maps, <3>1, <3>2, JoinIs
  <2>13. Holds(u, Join(z, b, d, y))
    <3> HIDE DEF w, z, r, b, d
    <3>. QED BY <1>2, <1>3, <1>4, <2>6, <2>10, HoldsNode
  <2>. QED BY <2>1, <2>2, <2>12, <2>13
<1>. QED BY <1>6, <1>7

(* The same to the right.                                                  *)
LEMMA RekeyRight ==
  ASSUME NEW t \in Nodes(Tree), NEW m \in Maps, NEW x \in Maps, NEW y \in Maps,
         Holds(t, m), Parts(t, m, x, y), NEW k \in Keys, Rekeyed(t.child[RIGHT], y, RIGHT, k)
  PROVE  Rekeyed(t, m, RIGHT, k)
<1>0. t \in Tree /\ ~IsNil(t) /\ RIGHT \in Dirs /\ LEFT # RIGHT
  BY HoldsType, NodeForm DEF Dirs, LEFT, RIGHT
<1>1. SUFFICES ASSUME Beyond(m, RIGHT, k)
      PROVE  LET n == Farthest(t, RIGHT)
             IN  Holds(Rekey(t, RIGHT, k), Moved(m, n.key, k, n.data))
  BY DEF Rekeyed
<1> DEFINE b == t.key
           d == t.data
           c == t.child[RIGHT]
           r == t.child[LEFT]
<1>2. /\ b \in Keys /\ b \in Int /\ m[b] = {d}
      /\ \A j \in Keys : /\ j \in Int
                         /\ j < b => m[j] = x[j] /\ y[j] = {}
                         /\ b < j => m[j] = y[j] /\ x[j] = {}
  BY PartsAt
<1>3. d \in Values /\ t.level \in Nat \ {0} /\ x[b] = {} /\ y[b] = {}
  BY NodeForm, PartsAt
<1>4. Holds(c, y) /\ Holds(r, x) /\ Fits(x, b, y) /\ m = Join(x, b, d, y)
  BY DEF Parts
<1>5. b < k /\ \A j \in Keys : m[j] # {} => j < k
  BY <1>0, <1>1, <1>2 DEF Beyond, KeysOf
<1>6. CASE IsNil(c)
  <2> DEFINE u == Node(t.level, k, d, r, c)
             o == Moved(m, b, k, d)
  <2>1. Farthest(t, RIGHT) = t /\ Rekey(t, RIGHT, k) = [t EXCEPT !.key = k]
    BY <1>0, <1>6, FarthestDef, RekeyDef
  <2>2. [t EXCEPT !.key = k] = u
    BY ExceptKey
  <2>3. y = NoKeys
    BY <1>4, <1>6, HoldsParts
  <2>4. Fits(x, k, y)
    <3>1. \A j \in KeysOf(x) : j < k
      <4>1. ASSUME NEW j \in KeysOf(x) PROVE j < k
        <5>1. j \in Keys /\ j < b
          BY <1>4 DEF Fits, KeysOf
        <5> HIDE DEF b
        <5>. QED BY <1>2, <1>5, <5>1
      <4>. QED BY <4>1
    <3>. QED BY <2>3, <3>1, NoKeysType DEF Fits
  <2>5. o \in Maps /\ \A j \in Keys : o[j] = IF j = k THEN {d} ELSE IF j = b THEN {} ELSE m[j]
    <3> HIDE DEF b, d
    <3>1. m \in Maps /\ b \in Keys /\ d \in Values
      BY <1>2, <1>3
    <3>2. o \in Maps
      BY ONLY k \in Keys, <3>1, MovedAt
    <3>3. \A j \in Keys : o[j] = IF j = k THEN {d} ELSE IF j = b THEN {} ELSE m[j]
      BY ONLY k \in Keys, <3>1 DEF Moved, Maps
    <3>. QED BY ONLY <3>2, <3>3
  <2>6. \A j \in Keys : o[j] = IF j = k THEN {d} ELSE IF j < k THEN x[j] ELSE y[j]
    <3>1. ASSUME NEW j \in Keys
          PROVE  o[j] = IF j = k THEN {d} ELSE IF j < k THEN x[j] ELSE y[j]
      <4>1. y[j] = {}
        BY <2>3 DEF NoKeys
      <4>2. (j < b => m[j] = x[j] /\ y[j] = {}) /\ (b < j => m[j] = y[j] /\ x[j] = {})
        BY <1>2
      <4>3. m[j] # {} => j < k
        BY <1>5
      <4>4. j \in Int /\ b \in Int /\ k \in Int
        BY <1>2
      <4>5. o[j] = IF j = k THEN {d} ELSE IF j = b THEN {} ELSE m[j]
        BY <2>5
      <4>6. j = b => y[j] = {} /\ x[j] = {}
        BY <1>3
      <4> HIDE DEF o, b, d
      <4>7. CASE j = k
        BY ONLY <4>5, <4>7
      <4>8. CASE j = b /\ j # k
        BY ONLY <4>1, <4>5, <4>6, <4>8
      <4>9. CASE j < b /\ j # k
        BY ONLY <1>5, <4>1, <4>2, <4>3, <4>4, <4>5, <4>9
      <4>10. CASE b < j /\ j # k
        BY ONLY <1>5, <4>1, <4>2, <4>3, <4>4, <4>5, <4>10
      <4>. QED BY ONLY <4>4, <4>7, <4>8, <4>9, <4>10
    <3>. QED BY <3>1
  <2>7. o = Join(x, k, d, y)
    <3> HIDE DEF o, d
    <3>1. Blends(o, x, k, d, y)
      BY ONLY <2>6 DEF Blends
    <3>. QED BY ONLY x \in Maps, y \in Maps, k \in Keys, <1>3, <2>5, <3>1, JoinIs
  <2>8. Holds(u, Join(x, k, d, y))
    <3> HIDE DEF c, r, d
    <3>. QED BY <1>3, <1>4, <2>4, HoldsNode
  <2>. QED BY <2>1, <2>2, <2>7, <2>8
<1>7. CASE ~IsNil(c)
  <2> DEFINE n == Farthest(c, RIGHT)
             a == n.key
             e == n.data
             w == Rekey(c, RIGHT, k)
             z == Moved(y, a, k, e)
             o == Moved(m, a, k, e)
             u == Node(t.level, b, d, r, w)
  <2>1. Farthest(t, RIGHT) = n /\ Rekey(t, RIGHT, k) = [t EXCEPT !.child[RIGHT] = w]
    BY <1>0, <1>7, FarthestDef, RekeyDef
  <2>2. [t EXCEPT !.child[RIGHT] = w] = u
    <3> HIDE DEF w
    <3>. QED BY ExceptRight
  <2>3. Outermost(y, RIGHT, n)
    <3> HIDE DEF c
    <3>. QED BY <1>0, <1>4, <1>7, FarthestIs
  <2> HIDE DEF n
  <2>4. a \in Keys /\ e \in Values /\ y[a] = {e}
    BY <2>3, NodeForm DEF Outermost
  <2>5. Beyond(y, RIGHT, k)
    <3>1. \A j \in Keys : y[j] # {} => m[j] # {}
      <4>1. \A j \in Keys : y[j] # {} => b < j
        BY <1>4 DEF Fits, KeysOf
      <4> HIDE DEF b
      <4>. QED BY <1>2, <4>1
    <3>. QED BY <1>0, <1>5, <3>1 DEF Beyond, KeysOf
  <2>6. Holds(w, z)
    BY <1>7, <2>5 DEF Rekeyed, n
  <2>7. z \in Maps /\ \A j \in Keys : z[j] = IF j = k THEN {e} ELSE IF j = a THEN {} ELSE y[j]
    <3> HIDE DEF a, e
    <3>1. a \in Keys /\ e \in Values
      BY <2>4
    <3>2. z \in Maps
      BY <3>1, MovedAt
    <3>3. \A j \in Keys : z[j] = IF j = k THEN {e} ELSE IF j = a THEN {} ELSE y[j]
      BY <3>1 DEF Moved, Maps
    <3>. QED BY <3>2, <3>3
  <2>8. o \in Maps /\ \A j \in Keys : o[j] = IF j = k THEN {e} ELSE IF j = a THEN {} ELSE m[j]
    <3> HIDE DEF a, e
    <3>1. a \in Keys /\ e \in Values
      BY <2>4
    <3>2. o \in Maps
      BY <3>1, MovedAt
    <3>3. \A j \in Keys : o[j] = IF j = k THEN {e} ELSE IF j = a THEN {} ELSE m[j]
      BY <3>1 DEF Moved, Maps
    <3>. QED BY <3>2, <3>3
  <2>9. b < a
    BY <1>4, <2>4 DEF Fits, KeysOf
  <2>10. Fits(x, b, z)
    <3>1. \A j \in KeysOf(z) : b < j
      <4>1. ASSUME NEW j \in KeysOf(z) PROVE b < j
        <5>1. j \in Keys /\ (j = k \/ y[j] # {})
          <6> HIDE DEF z, a, e
          <6>. QED BY <2>7 DEF KeysOf
        <5>. QED BY <1>4, <1>5, <5>1 DEF Fits, KeysOf
      <4>. QED BY <4>1
    <3>. QED BY <1>4, <3>1 DEF Fits
  <2>11. \A j \in Keys : o[j] = IF j = b THEN {d} ELSE IF j < b THEN x[j] ELSE z[j]
    <3>1. ASSUME NEW j \in Keys
          PROVE  o[j] = IF j = b THEN {d} ELSE IF j < b THEN x[j] ELSE z[j]
      <4>1. o[j] = IF j = k THEN {e} ELSE IF j = a THEN {} ELSE m[j]
        BY <2>8
      <4>2. z[j] = IF j = k THEN {e} ELSE IF j = a THEN {} ELSE y[j]
        BY <2>7
      <4>3. (j < b => m[j] = x[j] /\ y[j] = {}) /\ (b < j => m[j] = y[j] /\ x[j] = {})
        BY <1>2
      <4>4. j \in Int /\ a \in Int /\ b \in Int /\ k \in Int /\ m[b] = {d}
        BY <1>2, <2>4
      <4> HIDE DEF o, z, a, b, d, e
      <4>5. CASE j = b
        BY ONLY <1>5, <2>9, <4>1, <4>4, <4>5
      <4>6. CASE j < b
        BY ONLY <1>5, <2>9, <4>1, <4>2, <4>3, <4>4, <4>6
      <4>7. CASE b < j
        BY ONLY <1>5, <2>9, <4>1, <4>2, <4>3, <4>4, <4>7
      <4>. QED BY ONLY <4>4, <4>5, <4>6, <4>7
    <3>. QED BY <3>1
  <2>12. o = Join(x, b, d, z)
    <3>1. b \in Keys /\ d \in Values /\ z \in Maps /\ o \in Maps
      BY <1>2, <1>3, <2>7, <2>8
    <3> HIDE DEF o, z, b, d
    <3>2. Blends(o, x, b, d, z)
      BY ONLY <2>11 DEF Blends
    <3>. QED BY ONLY x \in Maps, y \in Maps, <3>1, <3>2, JoinIs
  <2>13. Holds(u, Join(x, b, d, z))
    <3> HIDE DEF w, z, r, b, d
    <3>. QED BY <1>2, <1>3, <1>4, <2>6, <2>10, HoldsNode
  <2>. QED BY <2>1, <2>2, <2>12, <2>13
<1>. QED BY <1>6, <1>7

(* Rekey moves the outermost node of a tree to a key beyond all of it.     *)
LEMMA RekeyHolds ==
  ASSUME NEW dir \in Dirs, NEW k \in Keys
  PROVE  \A t, m : Holds(t, m) => Rekeyed(t, m, dir, k)
<1> DEFINE P == {p \in Tree \X Maps : Rekeyed(p[1], p[2], dir, k)}
<1>1. << Nil, NoKeys >> \in P
  <2>1. Rekeyed(Nil, NoKeys, dir, k)
    BY Children DEF Rekeyed
  <2>. QED BY <2>1, Children, NoKeysType
<1>2. ASSUME NEW t \in Nodes(Tree), NEW m \in Maps, NEW x \in Maps, NEW y \in Maps,
             Holds(t, m), Parts(t, m, x, y),
             << t.child[LEFT], x >> \in P, << t.child[RIGHT], y >> \in P
      PROVE  << t, m >> \in P
  <2>1. Rekeyed(t.child[LEFT], x, dir, k) /\ Rekeyed(t.child[RIGHT], y, dir, k)
    BY <1>2
  <2>2. Rekeyed(t, m, dir, k)
    <3>1. CASE dir = LEFT
      <4>1. Rekeyed(t.child[LEFT], x, LEFT, k)
        BY <2>1, <3>1
      <4>2. Rekeyed(t, m, LEFT, k)
        BY <1>2, <4>1, RekeyLeft
      <4>. QED BY <3>1, <4>2
    <3>2. CASE dir = RIGHT
      <4>1. Rekeyed(t.child[RIGHT], y, RIGHT, k)
        BY <2>1, <3>2
      <4>2. Rekeyed(t, m, RIGHT, k)
        BY <1>2, <4>1, RekeyRight
      <4>. QED BY <3>2, <4>2
    <3>. QED BY <3>1, <3>2 DEF Dirs
  <2>3. t \in Tree
    BY <1>2, HoldsType
  <2>. QED BY <2>2, <2>3
<1>3. HasNodes(P)
  <2> HIDE DEF P
  <2>. QED BY <1>2 DEF HasNodes
<1>4. \A t, m : Holds(t, m) => << t, m >> \in P
  <2> HIDE DEF P
  <2>. QED BY <1>1, <1>3, TreeInduction
<1>. QED BY <1>4

(* The outermost node of the left child takes the place of the root; the   *)
(* same on the right.                                                      *)
LEMMA TakeLeft ==
  ASSUME NEW t \in Nodes(Tree), NEW m, NEW x \in Maps, NEW y \in Maps, Parts(t, m, x, y),
         NEW n, Outermost(x, RIGHT, n), NEW w, Holds(w, [x EXCEPT ![n.key] = {}])
  PROVE  Holds(Node(t.level, n.key, n.data, w, t.child[RIGHT]), [m EXCEPT ![t.key] = {}])
<1> DEFINE b == t.key
           a == n.key
           e == n.data
           r == t.child[RIGHT]
           z == [x EXCEPT ![a] = {}]
           o == [m EXCEPT ![b] = {}]
<1>1. /\ b \in Keys /\ b \in Int /\ m \in Maps
      /\ \A j \in Keys : /\ j \in Int
                         /\ j < b => m[j] = x[j] /\ y[j] = {}
                         /\ b < j => m[j] = y[j] /\ x[j] = {}
  BY PartsAt
<1>2. t.level \in Nat \ {0} /\ x[b] = {} /\ y[b] = {}
  BY NodeForm, PartsAt
<1>3. Holds(r, y) /\ (\A j \in Keys : x[j] # {} => j < b) /\ (\A j \in Keys : y[j] # {} => b < j)
  BY DEF Parts, Fits, KeysOf
<1>4. a \in Keys /\ e \in Values /\ x[a] = {e}
  BY NodeForm DEF Outermost
<1>5. LEFT # RIGHT
  BY DEF LEFT, RIGHT
<1>6. \A j \in Keys : x[j] # {} /\ j # a => j < a
  BY <1>5 DEF Outermost, KeysOf
<1>7. a \in Int /\ a < b
  BY <1>1, <1>3, <1>4
<1>8. z \in Maps /\ \A j \in Keys : z[j] = IF j = a THEN {} ELSE x[j]
  BY <1>4 DEF Maps
<1>9. o \in Maps /\ \A j \in Keys : o[j] = IF j = b THEN {} ELSE m[j]
  BY <1>1 DEF Maps
<1>10. Fits(z, a, y)
  <2>1. \A j \in KeysOf(z) : j < a
    <3>1. ASSUME NEW j \in KeysOf(z) PROVE j < a
      <4>1. j \in Keys /\ z[j] # {}
        BY DEF KeysOf
      <4> HIDE DEF z, a
      <4>. QED BY <1>6, <1>8, <4>1
    <3>. QED BY <3>1
  <2>2. \A j \in KeysOf(y) : a < j
    <3>1. ASSUME NEW j \in KeysOf(y) PROVE a < j
      <4>1. j \in Keys /\ y[j] # {} /\ b < j /\ j \in Int
        BY <1>1, <1>3 DEF KeysOf
      <4> HIDE DEF a, b
      <4>. QED BY <1>1, <1>7, <4>1
    <3>. QED BY <3>1
  <2>. QED BY <2>1, <2>2 DEF Fits
<1>11. \A j \in Keys : o[j] = IF j = a THEN {e} ELSE IF j < a THEN z[j] ELSE y[j]
  <2>1. ASSUME NEW j \in Keys
        PROVE  o[j] = IF j = a THEN {e} ELSE IF j < a THEN z[j] ELSE y[j]
    <3>1. o[j] = IF j = b THEN {} ELSE m[j]
      BY <1>9
    <3>2. z[j] = IF j = a THEN {} ELSE x[j]
      BY <1>8
    <3>3. (j < b => m[j] = x[j] /\ y[j] = {}) /\ (b < j => m[j] = y[j] /\ x[j] = {})
      BY <1>1
    <3>4. j \in Int /\ b \in Int /\ a \in Int
      BY <1>1, <1>7
    <3>5. x[j] # {} /\ j # a => j < a
      BY <1>6
    <3>6. (j = b => y[j] = {}) /\ (j = a => x[j] = {e})
      BY <1>2, <1>4
    <3> HIDE DEF o, z, a, b, e
    <3>7. CASE j = b
      BY ONLY <1>7, <3>1, <3>2, <3>4, <3>6, <3>7
    <3>8. CASE j = a
      BY ONLY <1>7, <3>1, <3>2, <3>3, <3>4, <3>6, <3>8
    <3>9. CASE j # a /\ j < b
      BY ONLY <1>7, <3>1, <3>2, <3>3, <3>4, <3>5, <3>9
    <3>10. CASE j # a /\ b < j
      BY ONLY <1>7, <3>1, <3>2, <3>3, <3>4, <3>5, <3>10
    <3>. QED BY ONLY <3>4, <3>7, <3>8, <3>9, <3>10
  <2>. QED BY <2>1
<1>12. o = Join(z, a, e, y)
  <2>1. a \in Keys /\ e \in Values /\ z \in Maps /\ o \in Maps
    BY <1>4, <1>8, <1>9
  <2> HIDE DEF o, z, a, e
  <2>2. Blends(o, z, a, e, y)
    BY ONLY <1>11 DEF Blends
  <2>. QED BY ONLY x \in Maps, y \in Maps, <2>1, <2>2, JoinIs
<1>13. Holds(Node(t.level, a, e, w, r), Join(z, a, e, y))
  <2>1. Holds(w, z)
    OBVIOUS
  <2> HIDE DEF z, a, e, r
  <2>. QED BY <1>2, <1>3, <1>4, <1>10, <2>1, HoldsNode
<1>. QED BY <1>12, <1>13

(* The same with the least key of the right side.                          *)
LEMMA TakeRight ==
  ASSUME NEW t \in Nodes(Tree), NEW m, NEW x \in Maps, NEW y \in Maps, Parts(t, m, x, y),
         NEW n, Outermost(y, LEFT, n), NEW w, Holds(w, [y EXCEPT ![n.key] = {}])
  PROVE  Holds(Node(t.level, n.key, n.data, t.child[LEFT], w), [m EXCEPT ![t.key] = {}])
<1> DEFINE b == t.key
           a == n.key
           e == n.data
           l == t.child[LEFT]
           z == [y EXCEPT ![a] = {}]
           o == [m EXCEPT ![b] = {}]
<1>1. /\ b \in Keys /\ b \in Int /\ m \in Maps
      /\ \A j \in Keys : /\ j \in Int
                         /\ j < b => m[j] = x[j] /\ y[j] = {}
                         /\ b < j => m[j] = y[j] /\ x[j] = {}
  BY PartsAt
<1>2. t.level \in Nat \ {0} /\ x[b] = {} /\ y[b] = {}
  BY NodeForm, PartsAt
<1>3. Holds(l, x) /\ (\A j \in Keys : x[j] # {} => j < b) /\ (\A j \in Keys : y[j] # {} => b < j)
  BY DEF Parts, Fits, KeysOf
<1>4. a \in Keys /\ e \in Values /\ y[a] = {e}
  BY NodeForm DEF Outermost
<1>5. LEFT # RIGHT
  BY DEF LEFT, RIGHT
<1>6. \A j \in Keys : y[j] # {} /\ j # a => a < j
  BY <1>5 DEF Outermost, KeysOf
<1>7. a \in Int /\ b < a
  BY <1>1, <1>3, <1>4
<1>8. z \in Maps /\ \A j \in Keys : z[j] = IF j = a THEN {} ELSE y[j]
  BY <1>4 DEF Maps
<1>9. o \in Maps /\ \A j \in Keys : o[j] = IF j = b THEN {} ELSE m[j]
  BY <1>1 DEF Maps
<1>10. Fits(x, a, z)
  <2>1. \A j \in KeysOf(z) : a < j
    <3>1. ASSUME NEW j \in KeysOf(z) PROVE a < j
      <4>1. j \in Keys /\ z[j] # {}
        BY DEF KeysOf
      <4> HIDE DEF z, a
      <4>. QED BY <1>6, <1>8, <4>1
    <3>. QED BY <3>1
  <2>2. \A j \in KeysOf(x) : j < a
    <3>1. ASSUME NEW j \in KeysOf(x) PROVE j < a
      <4>1. j \in Keys /\ x[j] # {} /\ j < b /\ j \in Int
        BY <1>1, <1>3 DEF KeysOf
      <4> HIDE DEF a, b
      <4>. QED BY <1>1, <1>7, <4>1
    <3>. QED BY <3>1
  <2>. QED BY <2>1, <2>2 DEF Fits
<1>11. \A j \in Keys : o[j] = IF j = a THEN {e} ELSE IF j < a THEN x[j] ELSE z[j]
  <2>1. ASSUME NEW j \in Keys
        PROVE  o[j] = IF j = a THEN {e} ELSE IF j < a THEN x[j] ELSE z[j]
    <3>1. o[j] = IF j = b THEN {} ELSE m[j]
      BY <1>9
    <3>2. z[j] = IF j = a THEN {} ELSE y[j]
      BY <1>8
    <3>3. (j < b => m[j] = x[j] /\ y[j] = {}) /\ (b < j => m[j] = y[j] /\ x[j] = {})
      BY <1>1
    <3>4. j \in Int /\ b \in Int /\ a \in Int
      BY <1>1, <1>7
    <3>5. y[j] # {} /\ j # a => a < j
      BY <1>6
    <3>6. (j = b => x[j] = {}) /\ (j = a => y[j] = {e})
      BY <1>2, <1>4
    <3> HIDE DEF o, z, a, b, e
    <3>7. CASE j = b
      BY ONLY <1>7, <3>1, <3>2, <3>4, <3>6, <3>7
    <3>8. CASE j = a
      BY ONLY <1>7, <3>1, <3>2, <3>3, <3>4, <3>6, <3>8
    <3>9. CASE j # a /\ j < b
      BY ONLY <1>7, <3>1, <3>2, <3>3, <3>4, <3>5, <3>9
    <3>10. CASE j # a /\ b < j
      BY ONLY <1>7, <3>1, <3>2, <3>3, <3>4, <3>5, <3>10
    <3>. QED BY ONLY <3>4, <3>7, <3>8, <3>9, <3>10
  <2>. QED BY <2>1
<1>12. o = Join(x, a, e, z)
  <2>1. a \in Keys /\ e \in Values /\ z \in Maps /\ o \in Maps
    BY <1>4, <1>8, <1>9
  <2> HIDE DEF o, z, a, e
  <2>2. Blends(o, x, a, e, z)
    BY ONLY <1>11 DEF Blends
  <2>. QED BY ONLY x \in Maps, y \in Maps, <2>1, <2>2, JoinIs
<1>13. Holds(Node(t.level, a, e, l, w), Join(x, a, e, z))
  <2>1. Holds(w, z)
    OBVIOUS
  <2> HIDE DEF z, a, e, l
  <2>. QED BY <1>2, <1>3, <1>4, <1>10, <2>1, HoldsNode
<1>. QED BY <1>12, <1>13

(* A node that takes the key and the data of another one and a new child.  *)
LEMMA ExceptTaken ==
  ASSUME NEW t \in Nodes(Tree), NEW a \in Keys, NEW e \in Values, NEW w, NEW dir \in Dirs
  PROVE  [t EXCEPT !.key = a, !.data = e, !.child[dir] = w] =
            IF dir = LEFT THEN Node(t.level, a, e, w, t.child[RIGHT])
            ELSE Node(t.level, a, e, t.child[LEFT], w)
<1> DEFINE p == [t EXCEPT !.key = a]
           q == [p EXCEPT !.data = e]
           u == [q EXCEPT !.child[dir] = w]
<1>1. [t EXCEPT !.key = a, !.data = e, !.child[dir] = w] = u
  OBVIOUS
<1>2. p \in Nodes(Tree) /\ p.level = t.level /\ p.key = a /\ p.child = t.child
  BY DEF Nodes
<1> HIDE DEF p
<1>3. /\ q \in Nodes(Tree) /\ q.level = t.level /\ q.key = a /\ q.data = e
      /\ q.child = t.child
  BY <1>2 DEF Nodes
<1> HIDE DEF q, u
<1>4. CASE dir = LEFT
  <2>1. u = Node(q.level, q.key, q.data, w, q.child[RIGHT])
    BY <1>3, <1>4, ExceptLeft DEF u
  <2>. QED BY <1>1, <1>3, <1>4, <2>1
<1>5. CASE dir = RIGHT
  <2>1. u = Node(q.level, q.key, q.data, q.child[LEFT], w)
    BY <1>3, <1>5, ExceptRight DEF u
  <2>2. LEFT # RIGHT
    BY DEF LEFT, RIGHT
  <2>. QED BY <1>1, <1>3, <1>5, <2>1, <2>2
<1>. QED BY <1>4, <1>5 DEF Dirs

(* Among near keys (KeysNear), Delete removes its key and nothing else.    *)
LEMMA DeleteHolds ==
  ASSUME NEW k \in Keys
  PROVE  \A t, m : Holds(t, m) => Holds(Delete(t, k), [m EXCEPT ![k] = {}])
<1> DEFINE Q(t, m) == Holds(t, m) => Holds(Delete(t, k), [m EXCEPT ![k] = {}])
           S == {h \in 0..N : \A t \in HighTrees[h] : \A m \in Maps : Q(t, m)}
<1>0. N \in Nat
  BY KeysCount
<1>1. ASSUME NEW t, NEW m, Holds(t, m), IsNil(t) PROVE Q(t, m)
  <2>1. t = Nil /\ m = NoKeys /\ t \in Tree
    BY <1>1, HoldsParts, Children
  <2>2. Delete(t, k) = Nil
    BY <1>1, <2>1, DeleteDef DEF Deleted
  <2>3. [NoKeys EXCEPT ![k] = {}] = NoKeys
    BY DEF NoKeys
  <2>. QED BY <2>1, <2>2, <2>3, HoldsNil
<1>2. 0 \in S
  <2>1. \A t \in HighTrees[0] : IsNil(t)
    BY Children
  <2>2. \A t \in HighTrees[0] : \A m \in Maps : Q(t, m)
    <3>1. ASSUME NEW t \in HighTrees[0], NEW m \in Maps PROVE Q(t, m)
      <4>1. CASE Holds(t, m)
        <5> HIDE DEF Q
        <5>. QED BY <1>1, <2>1, <4>1
      <4>2. CASE ~Holds(t, m)
        BY <4>2
      <4>. QED BY <4>1, <4>2
    <3> HIDE DEF Q
    <3>. QED BY <3>1
  <2> HIDE DEF Q
  <2>. QED BY <1>0, <2>2
<1>3. ASSUME NEW h \in 1..N, h - 1 \in S PROVE h \in S
  <2>1. \A c \in HighTrees[h - 1] : \A z : Holds(c, z) => Holds(Delete(c, k), [z EXCEPT ![k] = {}])
    <3>1. ASSUME NEW c \in HighTrees[h - 1], NEW z, Holds(c, z)
          PROVE  Holds(Delete(c, k), [z EXCEPT ![k] = {}])
      <4>1. z \in Maps
        BY <3>1, HoldsType
      <4>2. Q(c, z)
        <5> HIDE DEF Q
        <5>. QED BY <1>3, <4>1
      <4>. QED BY <3>1, <4>2
    <3>. QED BY <3>1
  <2>2. ASSUME NEW t \in HighTrees[h], NEW m \in Maps, Holds(t, m), ~IsNil(t)
        PROVE  Holds(Delete(t, k), [m EXCEPT ![k] = {}])
    <3>1. t \in Tree /\ t \in Nodes(Tree)
      BY <2>2, HoldsParts, HoldsType
    <3>2. PICK x \in Maps, y \in Maps : Parts(t, m, x, y)
      BY <2>2, HoldsParts
    <3>3. \A dir \in Dirs : t.child[dir] \in HighTrees[h - 1]
      BY <2>2, Children
    <3>4. Side(t, k) \in Dirs /\ LEFT \in Dirs /\ RIGHT \in Dirs /\ LEFT # RIGHT
      BY SideType DEF Dirs, LEFT, RIGHT
    <3>5. CASE t.key # k
      <4> DEFINE c == t.child[Side(t, k)]
                 z == Part(t, k, x, y)
                 e == Delete(c, k)
                 s == {}
                 u == [t EXCEPT !.child[Side(t, k)] = e]
                 n == [m EXCEPT ![k] = s]
      <4>1. Holds(c, z)
        BY <3>1, <3>2, <3>5, PartsSide
      <4>2. Holds(e, [z EXCEPT ![k] = s])
        <5>1. c \in HighTrees[h - 1]
          BY <3>3, <3>4
        <5> HIDE DEF c, z
        <5>. QED BY <2>1, <4>1, <5>1
      <4>3. Delete(t, k) = Rebalance(u)
        BY <2>2, <3>1, <3>5, DeleteDef, AtKey DEF Deleted
      <4>4. Holds(u, n) /\ ~IsNil(u)
        <5>1. s \in SUBSET Values
          OBVIOUS
        <5> HIDE DEF e, s
        <5>. QED BY <3>1, <3>2, <3>5, <4>2, <5>1, PutSide
      <4>5. Holds(Rebalance(u), n)
        <5> HIDE DEF u, n
        <5>. QED BY <4>4, RebalanceSame
      <4>. QED BY <4>3, <4>5
    <3>6. CASE t.key = k /\ \A dir \in Dirs : IsNil(t.child[dir])
      <4>1. Delete(t, k) = Nil
        BY <2>2, <3>1, <3>6, DeleteDef, AtKey DEF Deleted
      <4>2. x = NoKeys /\ y = NoKeys
        BY <3>2, <3>4, <3>6, HoldsParts DEF Parts
      <4> DEFINE n == [m EXCEPT ![k] = {}]
      <4>3. \A j \in Keys : n[j] = NoKeys[j]
        <5>1. m = Join(x, t.key, t.data, y)
          BY <3>2 DEF Parts
        <5>. QED BY <3>6, <4>2, <5>1 DEF Join, NoKeys
      <4>4. n \in Maps
        BY DEF Maps
      <4> HIDE DEF n
      <4>5. n = NoKeys
        BY <4>3, <4>4, NoKeysType DEF Maps
      <4>. QED BY <4>1, <4>5, HoldsNil DEF n
    <3>7. CASE t.key = k /\ ~(\A dir \in Dirs : IsNil(t.child[dir]))
      <4> DEFINE d == NextSide(t)
                 c == t.child[d]
                 z == IF d = LEFT THEN x ELSE y
                 n == Farthest(c, Other(d))
                 v == Rekey(c, Other(d), k)
                 w == Delete(v, k)
                 u == [t EXCEPT !.key = n.key, !.data = n.data, !.child[d] = w]
                 o == [m EXCEPT ![k] = {}]
      <4>1. d \in Dirs /\ Other(d) \in Dirs /\ ~IsNil(c)
        BY <3>4, <3>7 DEF NextSide, Other, Dirs
      <4>2. Delete(t, k) = Rebalance(u)
        BY <2>2, <3>1, <3>7, DeleteDef, AtKey DEF Deleted
      <4>3. Holds(c, z)
        BY <3>2, <4>1 DEF Parts, Dirs
      <4>4. Outermost(z, Other(d), n)
        <5> HIDE DEF c, z, d
        <5>. QED BY <4>1, <4>3, FarthestIs
      <4>5. Beyond(z, Other(d), k)
        BY <3>2, <3>4, <3>7, <4>1 DEF Parts, Fits, Beyond, Other, Dirs
      <4>6. Rekeyed(c, z, Other(d), k)
        <5> HIDE DEF c, z, d
        <5>. QED BY <4>1, <4>3, RekeyHolds
      <4>7. Holds(v, Moved(z, n.key, k, n.data))
        <5> HIDE DEF c, z, d
        <5>. QED BY <4>1, <4>5, <4>6 DEF Rekeyed
      <4>8. v \in HighTrees[h - 1]
        <5>1. c \in HighTrees[h - 1] /\ h - 1 \in 0..N
          BY <1>0, <3>3, <4>1
        <5> HIDE DEF c, d
        <5>. QED BY <4>1, <5>1, RekeyHigh
      <4>9. n \in Nodes(Tree) /\ n.key \in Keys /\ n.data \in Values
        <5> HIDE DEF n
        <5>. QED BY <4>4, NodeForm DEF Outermost
      <4>10. z \in Maps /\ z[k] = {}
        <5>1. x[t.key] = {} /\ y[t.key] = {}
          BY <3>1, <3>2, PartsAt
        <5>. QED BY <3>7, <5>1
      <4> DEFINE p == [z EXCEPT ![n.key] = {}]
      <4>11. Holds(w, p)
        <5> DEFINE q == Moved(z, n.key, k, n.data)
                   r == [q EXCEPT ![k] = {}]
        <5>1. Holds(w, r)
          <6> HIDE DEF q, v
          <6>. QED BY <2>1, <4>7, <4>8 DEF q
        <5> HIDE DEF z, n
        <5>2. q \in Maps
          BY <4>9, <4>10, MovedAt
        <5>3. \A j \in Keys : q[j] = IF j = k THEN {n.data} ELSE IF j = n.key THEN {} ELSE z[j]
          BY <4>9, <4>10 DEF Moved, Maps
        <5> HIDE DEF q
        <5>4. r \in Maps /\ \A j \in Keys : r[j] = IF j = k THEN {} ELSE q[j]
          BY <5>2 DEF Maps
        <5>5. p \in Maps /\ \A j \in Keys : p[j] = IF j = n.key THEN {} ELSE z[j]
          BY <4>9, <4>10 DEF Maps
        <5> HIDE DEF r, p
        <5>6. \A j \in Keys : p[j] = r[j]
          BY <4>10, <5>3, <5>4, <5>5
        <5>7. p = r
          BY <5>4, <5>5, <5>6 DEF Maps
        <5>. QED BY <5>1, <5>7
      <4>12. Holds(u, o) /\ ~IsNil(u)
        <5> HIDE DEF n, v, w
        <5>0. t.level \in Nat \ {0}
          BY <3>1, NodeForm
        <5>1. CASE d = LEFT
          <6> DEFINE new == Node(t.level, n.key, n.data, w, t.child[RIGHT])
          <6>1. Outermost(x, RIGHT, n) /\ Holds(w, [x EXCEPT ![n.key] = {}])
            BY <4>4, <4>11, <5>1, <3>4 DEF Other
          <6>2. Holds(new, [m EXCEPT ![t.key] = {}])
            BY <3>1, <3>2, <6>1, TakeLeft
          <6>3. u = new
            <7> HIDE DEF d
            <7>. QED BY <3>1, <4>1, <4>9, <5>1, ExceptTaken
          <6>4. ~IsNil(new)
            BY <5>0, NodeFields
          <6>. QED BY <3>7, <6>2, <6>3, <6>4
        <5>2. CASE d = RIGHT
          <6> DEFINE new == Node(t.level, n.key, n.data, t.child[LEFT], w)
          <6>1. Outermost(y, LEFT, n) /\ Holds(w, [y EXCEPT ![n.key] = {}])
            BY <4>4, <4>11, <5>2, <3>4 DEF Other
          <6>2. Holds(new, [m EXCEPT ![t.key] = {}])
            BY <3>1, <3>2, <6>1, TakeRight
          <6>3. u = new
            <7> HIDE DEF d
            <7>1. u = IF d = LEFT THEN Node(t.level, n.key, n.data, w, t.child[RIGHT]) ELSE new
              BY <3>1, <4>1, <4>9, ExceptTaken
            <7>2. d # LEFT
              BY <3>4, <5>2
            <7> HIDE DEF u, new
            <7>. QED BY <7>1, <7>2
          <6>4. ~IsNil(new)
            BY <5>0, NodeFields
          <6>. QED BY <3>7, <6>2, <6>3, <6>4
        <5>. QED BY <4>1, <5>1, <5>2 DEF Dirs
      <4>13. Holds(Rebalance(u), o)
        <5> HIDE DEF u, o
        <5>. QED BY <4>12, RebalanceSame
      <4>. QED BY <4>2, <4>13
    <3>. QED BY <3>5, <3>6, <3>7
  <2>3. \A t \in HighTrees[h] : \A m \in Maps : Q(t, m)
    <3>1. ASSUME NEW t \in HighTrees[h], NEW m \in Maps PROVE Q(t, m)
      <4>1. CASE Holds(t, m) /\ IsNil(t)
        <5> HIDE DEF Q
        <5>. QED BY <1>1, <4>1
      <4>2. CASE Holds(t, m) /\ ~IsNil(t)
        BY <2>2, <4>2
      <4>. QED BY <4>1, <4>2
    <3> HIDE DEF Q
    <3>. QED BY <3>1
  <2> HIDE DEF Q
  <2>. QED BY <1>0, <2>3
<1>4. 0..N \subseteq S
  <2> HIDE DEF S
  <2>. QED BY <1>0, <1>2, <1>3, IndexInduction
<1>5. ASSUME NEW t, NEW m, Holds(t, m) PROVE Holds(Delete(t, k), [m EXCEPT ![k] = {}])
  <2>1. t \in HighTrees[N] /\ m \in Maps
    BY <1>5, HoldsType DEF Tree, N
  <2>2. N \in S
    BY <1>0, <1>4
  <2>3. Q(t, m)
    <3> HIDE DEF Q
    <3>. QED BY <2>1, <2>2
  <2>. QED BY <1>5, <2>3
<1>. QED BY <1>5

\* No two elements of s have something in common under g; all that they have.
Apart(g, s) == \A i, j \in DOMAIN s : i # j => g[s[i]] \cap g[s[j]] = {}
Span(g, s) == UNION {g[s[i]] : i \in DOMAIN s}

(* Sequences that are apart and have nothing in common are apart together.  *)
LEMMA ConcatApart ==
  ASSUME NEW S, NEW a \in Seq(S), NEW b \in Seq(S), NEW g, Apart(g, a), Apart(g, b),
         Span(g, a) \cap Span(g, b) = {}
  PROVE  /\ a \o b \in Seq(S) /\ Apart(g, a \o b)
         /\ Span(g, a \o b) = Span(g, a) \cup Span(g, b)
<1> DEFINE c == a \o b
<1>1. /\ c \in Seq(S) /\ Len(c) = Len(a) + Len(b) /\ Len(a) \in Nat /\ Len(b) \in Nat
      /\ DOMAIN c = 1..Len(c) /\ DOMAIN a = 1..Len(a) /\ DOMAIN b = 1..Len(b)
  OBVIOUS
<1>2. \A i \in 1..Len(c) : c[i] = IF i <= Len(a) THEN a[i] ELSE b[i - Len(a)]
  OBVIOUS
<1> HIDE DEF c
<1>3. ASSUME NEW i \in DOMAIN c
      PROVE  \/ i \in DOMAIN a /\ c[i] = a[i]
             \/ i - Len(a) \in DOMAIN b /\ c[i] = b[i - Len(a)]
  BY <1>1, <1>2
<1>4. /\ \A i \in DOMAIN a : g[a[i]] \subseteq Span(g, a)
      /\ \A i \in DOMAIN b : g[b[i]] \subseteq Span(g, b)
  BY DEF Span
<1>5. ASSUME NEW i \in DOMAIN c, NEW j \in DOMAIN c, i # j PROVE g[c[i]] \cap g[c[j]] = {}
  <2>1. CASE i \in DOMAIN a /\ c[i] = a[i] /\ j \in DOMAIN a /\ c[j] = a[j]
    BY <1>5, <2>1 DEF Apart
  <2>2. CASE \/ /\ i \in DOMAIN a /\ c[i] = a[i]
                /\ j - Len(a) \in DOMAIN b /\ c[j] = b[j - Len(a)]
             \/ /\ i - Len(a) \in DOMAIN b /\ c[i] = b[i - Len(a)]
                /\ j \in DOMAIN a /\ c[j] = a[j]
    BY <1>4, <2>2
  <2>3. CASE /\ i - Len(a) \in DOMAIN b /\ c[i] = b[i - Len(a)]
             /\ j - Len(a) \in DOMAIN b /\ c[j] = b[j - Len(a)]
    <3>1. i - Len(a) # j - Len(a)
      BY <1>1, <1>5
    <3>. QED BY <2>3, <3>1 DEF Apart
  <2>. QED BY <1>3, <2>1, <2>2, <2>3
<1>6. \A i \in DOMAIN c : g[c[i]] \subseteq Span(g, a) \cup Span(g, b)
  BY <1>3, <1>4
<1>7. \A i \in DOMAIN a : i \in DOMAIN c /\ c[i] = a[i]
  BY <1>1, <1>2
<1>8. \A i \in DOMAIN b : i + Len(a) \in DOMAIN c /\ c[i + Len(a)] = b[i]
  <2>1. ASSUME NEW i \in DOMAIN b PROVE i + Len(a) \in DOMAIN c /\ c[i + Len(a)] = b[i]
    <3>1. i \in Nat /\ i + Len(a) \in 1..Len(c) /\ ~(i + Len(a) <= Len(a)) /\ i + Len(a) - Len(a) = i
      BY <1>1
    <3>. QED BY <1>1, <1>2, <3>1
  <2>. QED BY <2>1
<1>9. Span(g, c) = Span(g, a) \cup Span(g, b)
  <2>1. Span(g, c) \subseteq Span(g, a) \cup Span(g, b)
    <3>1. ASSUME NEW i \in DOMAIN c PROVE g[c[i]] \subseteq Span(g, a) \cup Span(g, b)
      BY <1>6
    <3>. QED BY <3>1 DEF Span
  <2>2. \A i \in DOMAIN c : g[c[i]] \subseteq Span(g, c)
    BY DEF Span
  <2>3. \A i \in DOMAIN a : g[a[i]] \subseteq Span(g, c)
    BY <1>7, <2>2
  <2>4. \A i \in DOMAIN b : g[b[i]] \subseteq Span(g, c)
    <3>1. ASSUME NEW i \in DOMAIN b PROVE g[b[i]] \subseteq Span(g, c)
      <4>1. i + Len(a) \in DOMAIN c /\ c[i + Len(a)] = b[i]
        BY <1>8
      <4>. QED BY <2>2, <4>1
    <3>. QED BY <3>1
  <2>5. Span(g, a) \subseteq Span(g, c)
    BY <2>3 DEF Span
  <2>6. Span(g, b) \subseteq Span(g, c)
    BY <2>4 DEF Span
  <2>. QED BY <2>1, <2>5, <2>6
<1>. QED BY <1>1, <1>5, <1>9 DEF Apart, c

(* So a sequence without its first element.                                *)
LEMMA TailApart ==
  ASSUME NEW S, NEW s \in Seq(S), s # << >>, NEW g, Apart(g, s)
  PROVE  /\ Head(s) \in S /\ Tail(s) \in Seq(S) /\ Apart(g, Tail(s))
         /\ Span(g, s) = g[Head(s)] \cup Span(g, Tail(s))
         /\ g[Head(s)] \cap Span(g, Tail(s)) = {}
<1> DEFINE u == Tail(s)
<1>1. /\ Head(s) = s[1] /\ Head(s) \in S /\ 1 \in DOMAIN s /\ u \in Seq(S)
      /\ Len(s) \in Nat /\ DOMAIN s = 1..Len(s) /\ DOMAIN u = 1..(Len(s) - 1)
  OBVIOUS
<1>2. \A i \in DOMAIN u : i + 1 \in DOMAIN s /\ i + 1 # 1 /\ u[i] = s[i + 1]
  OBVIOUS
<1> HIDE DEF u
<1>3. Apart(g, u)
  <2>1. ASSUME NEW i \in DOMAIN u, NEW j \in DOMAIN u, i # j PROVE g[u[i]] \cap g[u[j]] = {}
    <3>1. i + 1 # j + 1
      BY <1>1, <2>1
    <3>. QED BY <1>2, <3>1 DEF Apart
  <2>. QED BY <2>1 DEF Apart
<1>4. \A i \in DOMAIN s : i = 1 \/ i - 1 \in DOMAIN u
  BY <1>1
<1>5. \A i \in DOMAIN s : i # 1 => u[i - 1] = s[i]
  <2>1. ASSUME NEW i \in DOMAIN s, i # 1 PROVE u[i - 1] = s[i]
    <3>1. i - 1 \in DOMAIN u /\ i - 1 + 1 = i
      BY <1>1, <2>1
    <3>2. u[i - 1] = s[i - 1 + 1]
      BY <1>2, <3>1
    <3>. QED BY <3>1, <3>2
  <2>. QED BY <2>1
<1>6. Span(g, u) \subseteq Span(g, s)
  <2>1. \A i \in DOMAIN s : g[s[i]] \subseteq Span(g, s)
    BY DEF Span
  <2>2. \A i \in DOMAIN u : g[u[i]] \subseteq Span(g, s)
    BY <1>2, <2>1
  <2>. QED BY <2>2 DEF Span
<1>7. g[s[1]] \subseteq Span(g, s)
  BY <1>1 DEF Span
<1>8. Span(g, s) \subseteq g[s[1]] \cup Span(g, u)
  <2>1. \A i \in DOMAIN u : g[u[i]] \subseteq Span(g, u)
    BY DEF Span
  <2>2. ASSUME NEW i \in DOMAIN s PROVE g[s[i]] \subseteq g[s[1]] \cup Span(g, u)
    <3>1. CASE i = 1 BY <3>1
    <3>2. CASE i # 1
      <4>1. i - 1 \in DOMAIN u /\ u[i - 1] = s[i]
        BY <1>4, <1>5, <3>2
      <4>. QED BY <2>1, <4>1
    <3>. QED BY <3>1, <3>2
  <2>. QED BY <2>2 DEF Span
<1>9. g[s[1]] \cap Span(g, u) = {}
  <2>1. \A i \in DOMAIN u : g[s[1]] \cap g[u[i]] = {}
    BY <1>1, <1>2 DEF Apart
  <2>. QED BY <2>1 DEF Span
<1>. QED BY <1>1, <1>3, <1>6, <1>7, <1>8, <1>9 DEF u

\* No key occurs twice.
Distinct(s) == \A i, j \in DOMAIN s : i # j => s[i] # s[j]

(* A sequence is distinct when the sets of one element each are apart.     *)
LEMMA DistinctApart ==
  ASSUME NEW S, NEW s \in Seq(S)
  PROVE  LET g == [x \in S |-> {x}]
         IN  (Distinct(s) <=> Apart(g, s)) /\ ToSet(s) = Span(g, s)
<1> DEFINE g == [x \in S |-> {x}]
<1>1. \A i \in DOMAIN s : g[s[i]] = {s[i]}
  OBVIOUS
<1>2. (Distinct(s) <=> Apart(g, s)) /\ ToSet(s) = Span(g, s)
  <2> HIDE DEF g
  <2>1. Distinct(s) <=> Apart(g, s)
    <3>1. \A i, j \in DOMAIN s : s[i] # s[j] <=> g[s[i]] \cap g[s[j]] = {}
      <4>1. ASSUME NEW i \in DOMAIN s, NEW j \in DOMAIN s
            PROVE  s[i] # s[j] <=> g[s[i]] \cap g[s[j]] = {}
        <5>1. PICK a, b : a = s[i] /\ b = s[j]
          OBVIOUS
        <5>2. g[a] = {a} /\ g[b] = {b}
          BY <1>1, <5>1
        <5>3. a # b <=> {a} \cap {b} = {}
          OBVIOUS
        <5>. QED BY ONLY <5>1, <5>2, <5>3
      <4>. QED BY <4>1
    <3>. QED BY ONLY <3>1 DEF Distinct, Apart
  <2>2. ToSet(s) = Span(g, s)
    BY <1>1 DEF ToSet, Span
  <2>. QED BY <2>1, <2>2
<1>. QED BY <1>2

(* Distinct sequences with nothing in common are distinct together.        *)
LEMMA ConcatDistinct ==
  ASSUME NEW S, NEW a \in Seq(S), NEW b \in Seq(S), Distinct(a), Distinct(b),
         ToSet(a) \cap ToSet(b) = {}
  PROVE  a \o b \in Seq(S) /\ Distinct(a \o b) /\ ToSet(a \o b) = ToSet(a) \cup ToSet(b)
<1> DEFINE g == [x \in S |-> {x}]
<1>1. \A s \in Seq(S) : (Distinct(s) <=> Apart(g, s)) /\ ToSet(s) = Span(g, s)
  BY DistinctApart
<1> HIDE DEF g
<1>2. /\ a \o b \in Seq(S) /\ Apart(g, a \o b)
      /\ Span(g, a \o b) = Span(g, a) \cup Span(g, b)
  BY <1>1, ConcatApart
<1>. QED BY <1>1, <1>2

\* The order of t has the keys of m, each once.
Ordered(t, m) ==
    InOrder[t] \in Seq(Keys) /\ Distinct(InOrder[t]) /\ ToSet(InOrder[t]) = KeysOf(m)

(* The order of a tree is one of its keys.                                 *)
LEMMA InOrderHolds == \A t, m : Holds(t, m) => Ordered(t, m)
<1> DEFINE P == {p \in Tree \X Maps : Ordered(p[1], p[2])}
<1>1. << Nil, NoKeys >> \in P
  <2>1. InOrder[Nil] = << >>
    BY Children, InOrderDef
  <2>2. Ordered(Nil, NoKeys)
    BY <2>1, NoKeysType DEF Ordered, Distinct, ToSet
  <2>. QED BY <2>2, Children, NoKeysType
<1>2. ASSUME NEW t \in Nodes(Tree), NEW m \in Maps, NEW x \in Maps, NEW y \in Maps,
             Holds(t, m), Parts(t, m, x, y),
             << t.child[LEFT], x >> \in P, << t.child[RIGHT], y >> \in P
      PROVE  << t, m >> \in P
  <2>0. t \in Tree /\ ~IsNil(t) /\ t.key \in Keys /\ t.data \in Values
    BY <1>2, HoldsType, NodeForm
  <2> DEFINE a == InOrder[t.child[LEFT]]
             b == << t.key >>
             c == InOrder[t.child[RIGHT]]
  <2>1. /\ a \in Seq(Keys) /\ Distinct(a) /\ ToSet(a) = KeysOf(x)
        /\ c \in Seq(Keys) /\ Distinct(c) /\ ToSet(c) = KeysOf(y)
    BY <1>2 DEF Ordered
  <2>2. b \in Seq(Keys) /\ Distinct(b) /\ ToSet(b) = {t.key}
    BY <2>0 DEF Distinct, ToSet
  <2>3. InOrder[t] = (a \o b) \o c
    BY <2>0, InOrderDef
  <2>4. /\ KeysOf(m) = KeysOf(x) \cup {t.key} \cup KeysOf(y)
        /\ t.key \notin KeysOf(x) /\ t.key \notin KeysOf(y)
        /\ KeysOf(x) \cap KeysOf(y) = {}
    BY <1>2, <2>0, JoinKeys DEF Parts
  <2> HIDE DEF a, b, c
  <2>5. a \o b \in Seq(Keys) /\ Distinct(a \o b) /\ ToSet(a \o b) = ToSet(a) \cup ToSet(b)
    <3>1. ToSet(a) \cap ToSet(b) = {}
      BY <2>1, <2>2, <2>4
    <3>. QED BY <2>1, <2>2, <3>1, ConcatDistinct
  <2> DEFINE e == a \o b
  <2> HIDE DEF e
  <2>6. e \o c \in Seq(Keys) /\ Distinct(e \o c) /\ ToSet(e \o c) = ToSet(e) \cup ToSet(c)
    <3>1. ToSet(e) \cap ToSet(c) = {}
      BY <2>1, <2>2, <2>4, <2>5 DEF e
    <3>2. e \in Seq(Keys) /\ Distinct(e)
      BY <2>5 DEF e
    <3>. QED BY <2>1, <3>1, <3>2, ConcatDistinct
  <2>7. Ordered(t, m)
    BY <2>1, <2>2, <2>3, <2>4, <2>5, <2>6 DEF Ordered, e
  <2>. QED BY <2>0, <2>7
<1>3. HasNodes(P)
  <2> HIDE DEF P
  <2>. QED BY <1>2 DEF HasNodes
<1>4. \A t, m : Holds(t, m) => << t, m >> \in P
  <2> HIDE DEF P
  <2>. QED BY <1>1, <1>3, TreeInduction
<1>. QED BY <1>4

\* The keys at and below the node of a key.
Below(t, j) == ToSet(InOrder[Fetch(t, j)])

(* SetData leaves every node with the keys below it.                       *)
LEMMA SetDataBelow ==
  ASSUME NEW k \in Keys, NEW d \in Values
  PROVE  \A t, m : Holds(t, m) /\ m[k] # {} =>
            \A j \in Keys : Below(SetData(t, k, d), j) = Below(t, j)
<1> DEFINE Q(t, m) == m[k] # {} => \A j \in Keys : Below(SetData(t, k, d), j) = Below(t, j)
           P == {p \in Tree \X Maps : Q(p[1], p[2])}
<1>1. << Nil, NoKeys >> \in P
  BY Children, NoKeysType DEF NoKeys
<1>2. ASSUME NEW t \in Nodes(Tree), NEW m \in Maps, NEW x \in Maps, NEW y \in Maps,
             Holds(t, m), Parts(t, m, x, y),
             << t.child[LEFT], x >> \in P, << t.child[RIGHT], y >> \in P, m[k] # {},
             NEW j \in Keys
      PROVE  Below(SetData(t, k, d), j) = Below(t, j)
  <2> DEFINE u == SetData(t, k, d)
             n == [m EXCEPT ![k] = {d}]
  <2>0. t \in Tree /\ ~IsNil(t)
    BY <1>2, HoldsType, NodeForm
  <2>1. Holds(u, n) /\ u \in Tree
    <3>1. Holds(u, n)
      BY <1>2, SetDataHolds
    <3>. QED BY <3>1, HoldsType
  <2>2. u.key = t.key /\ ~IsNil(u)
    <3>1. CASE t.key = k
      <4>1. u = [t EXCEPT !.data = d]
        BY <2>0, <3>1, SetDataDef
      <4>2. u \in Nodes(Tree) /\ u.key = t.key
        BY <4>1 DEF Nodes
      <4>. QED BY <4>2, NodeForm
    <3>2. CASE t.key # k
      <4> DEFINE e == SetData(t.child[Side(t, k)], k, d)
      <4>1. u = [t EXCEPT !.child[Side(t, k)] = e]
        BY <2>0, <3>2, SetDataDef
      <4> HIDE DEF e
      <4>2. u.key = t.key /\ u.level = t.level
        BY <4>1 DEF Nodes
      <4>. QED BY <2>0, <4>2 DEF IsNil
    <3>. QED BY <3>1, <3>2
  <2>3. CASE t.key = j
    <3>1. Fetch(t, j) = t /\ Fetch(u, j) = u
      BY <2>0, <2>1, <2>2, <2>3, FetchDef
    <3>2. ToSet(InOrder[t]) = KeysOf(m) /\ ToSet(InOrder[u]) = KeysOf(n)
      BY <1>2, <2>1, InOrderHolds DEF Ordered
    <3>3. KeysOf(n) = KeysOf(m)
      BY <1>2 DEF KeysOf, Maps
    <3>. QED BY <3>1, <3>2, <3>3 DEF Below
  <2>4. CASE t.key # j
    <3>1. Side(u, j) = Side(t, j)
      BY <2>2 DEF Side, n_cmp
    <3>2. /\ Fetch(t, j) = Fetch(t.child[Side(t, j)], j)
          /\ Fetch(u, j) = Fetch(u.child[Side(t, j)], j)
      BY <2>0, <2>1, <2>2, <2>4, <3>1, FetchDef
    <3>3. CASE t.key = k
      <4>1. u = [t EXCEPT !.data = d]
        BY <2>0, <3>3, SetDataDef
      <4>2. u.child = t.child
        BY <4>1 DEF Nodes
      <4>. QED BY <3>2, <4>2 DEF Below
    <3>4. CASE t.key # k
      <4> DEFINE c == t.child[Side(t, k)]
                 z == Part(t, k, x, y)
                 e == SetData(c, k, d)
      <4>1. u = [t EXCEPT !.child[Side(t, k)] = e]
        BY <2>0, <3>4, SetDataDef
      <4>2. /\ Side(t, k) = Side(t, j) => u.child[Side(t, j)] = e
            /\ Side(t, k) # Side(t, j) => u.child[Side(t, j)] = t.child[Side(t, j)]
        <5>1. Side(t, k) \in Dirs /\ Side(t, j) \in Dirs
          BY SideType
        <5> HIDE DEF e
        <5>. QED BY <4>1, <5>1 DEF Nodes
      <4>3. Holds(c, z) /\ m[k] = z[k]
        BY <1>2, <3>4, PartsSide
      <4>4. << c, z >> \in P
        BY <1>2, SideType DEF Part, Dirs
      <4>5. Below(e, j) = Below(c, j)
        <5>1. Q(c, z)
          <6> HIDE DEF Q, c, z
          <6>. QED BY <4>4
        <5> HIDE DEF c, z
        <5>. QED BY <1>2, <4>3, <5>1
      <4>6. CASE Side(t, k) = Side(t, j)
        BY <3>2, <4>2, <4>5, <4>6 DEF Below
      <4>7. CASE Side(t, k) # Side(t, j)
        BY <3>2, <4>2, <4>7 DEF Below
      <4>. QED BY <4>6, <4>7
    <3>. QED BY <3>3, <3>4
  <2>. QED BY <2>3, <2>4
<1>3. HasNodes(P)
  <2>1. ASSUME NEW t \in Nodes(Tree), NEW m \in Maps, NEW x \in Maps, NEW y \in Maps,
               Holds(t, m), Parts(t, m, x, y),
               << t.child[LEFT], x >> \in P, << t.child[RIGHT], y >> \in P
        PROVE  << t, m >> \in P
    <3>1. Q(t, m)
      <4> HIDE DEF P
      <4>. QED BY <1>2, <2>1
    <3>2. t \in Tree
      BY <2>1, HoldsType
    <3> HIDE DEF Q
    <3>. QED BY <3>1, <3>2
  <2> HIDE DEF P
  <2>. QED BY <2>1 DEF HasNodes
<1>4. \A t, m : Holds(t, m) => << t, m >> \in P
  <2> HIDE DEF P
  <2>. QED BY <1>1, <1>3, TreeInduction
<1>5. \A t, m : Holds(t, m) => Q(t, m)
  <2> HIDE DEF Q
  <2>. QED BY <1>4
<1>. QED BY <1>5

(***************************************************************************)
(* Part 4: the invariant of the map and its loops.                         *)
(***************************************************************************)
\* The keys that u_map_get still finds data for, and those whose deletion waits.
Shown(m) == {k \in Keys : m[k] # {} /\ m[k] # {None}}
Waiting(m) == {k \in Keys : m[k] = {None}}

(* What u_map_get returns.                                                 *)
LEMMA LookupIs ==
  ASSUME NEW t, NEW m, Holds(t, m), NEW k \in Keys
  PROVE  /\ m \in Maps
         /\ IsNil(Fetch(t, k)) <=> m[k] = {}
         /\ k \in Shown(m) <=> Lookup(t, k) # None
         /\ k \in Shown(m) => m[k] = {Lookup(t, k)}
         /\ k \in Shown(m) \/ m[k] = {} \/ m[k] = {None}
<1>1. Found(t, m, k) /\ m \in Maps
  BY FetchFinds, HoldsType
<1> DEFINE n == Fetch(t, k)
<1>2. (IsNil(n) => m[k] = {}) /\ (~IsNil(n) => m[k] = {n.data})
  BY <1>1 DEF Found
<1> HIDE DEF n
<1>3. Lookup(t, k) = IF IsNil(n) THEN None ELSE n.data
  BY DEF Lookup, n
<1>4. CASE IsNil(n)
  BY <1>1, <1>2, <1>3, <1>4 DEF Shown, n
<1>5. CASE ~IsNil(n)
  BY <1>1, <1>2, <1>3, <1>5 DEF Shown, n
<1>. QED BY <1>4, <1>5

\* s is the set of the keys below the child c of a node.
ChildBelow(t, m, c, s) ==
    /\ IsNil(c) => s = {}
    /\ ~IsNil(c) => c.key \in KeysOf(m) /\ Below(t, c.key) = s

(* Below a node there are its key and what is below its children.          *)
LEMMA BelowSplits ==
  ASSUME NEW t, NEW m, Holds(t, m), NEW k \in KeysOf(m)
  PROVE  LET n == Fetch(t, k)
         IN  \E a, b \in SUBSET Keys :
                /\ Below(t, k) = {k} \cup a \cup b
                /\ k \notin a /\ k \notin b /\ a \cap b = {}
                /\ ChildBelow(t, m, n.child[LEFT], a) /\ ChildBelow(t, m, n.child[RIGHT], b)
<1> DEFINE n == Fetch(t, k)
           l == n.child[LEFT]
           r == n.child[RIGHT]
<1>1. k \in Keys /\ m[k] # {} /\ m \in Maps
  BY HoldsType DEF KeysOf
<1>2. Found(t, m, k)
  BY <1>1, FetchFinds
<1>3. /\ n \in Nodes(Tree) /\ n.key = k
      /\ \E s \in Maps : Holds(n, s) /\ \A j \in KeysOf(s) : m[j] = s[j] /\ Fetch(t, j) = Fetch(n, j)
  BY <1>1, <1>2 DEF Found
<1> HIDE DEF n
<1>4. PICK s \in Maps : Holds(n, s) /\ \A j \in KeysOf(s) : m[j] = s[j] /\ Fetch(t, j) = Fetch(n, j)
  BY <1>3
<1>5. ~IsNil(n) /\ n \in Tree
  BY <1>3, <1>4, NodeForm, HoldsType
<1>6. PICK x \in Maps, y \in Maps : Parts(n, s, x, y)
  BY <1>4, <1>5, HoldsParts
<1>7. Holds(l, x) /\ Holds(r, y) /\ Fits(x, k, y) /\ s = Join(x, k, n.data, y)
  BY <1>3, <1>6 DEF Parts
<1>8. n.data \in Values
  BY <1>3, NodeForm
<1>9. /\ KeysOf(s) = KeysOf(x) \cup {k} \cup KeysOf(y)
      /\ k \notin KeysOf(x) /\ k \notin KeysOf(y) /\ KeysOf(x) \cap KeysOf(y) = {}
  BY <1>1, <1>7, <1>8, JoinKeys
<1>10. Below(t, k) = KeysOf(s)
  BY <1>4, InOrderHolds DEF Below, n, Ordered
<1>11. KeysOf(s) \subseteq KeysOf(m)
  BY <1>4 DEF KeysOf
<1>12. ASSUME NEW dir \in Dirs, NEW z \in Maps, Holds(n.child[dir], z), KeysOf(z) \subseteq KeysOf(s),
              \A j \in KeysOf(z) : j # k /\ Side(n, j) = dir
       PROVE  ChildBelow(t, m, n.child[dir], KeysOf(z))
  <2> DEFINE c == n.child[dir]
  <2>1. CASE IsNil(c)
    <3>1. z = NoKeys
      BY <1>12, <2>1, HoldsParts
    <3>. QED BY <2>1, <3>1, NoKeysType DEF ChildBelow
  <2>2. CASE ~IsNil(c)
    <3>1. c \in Nodes(Tree) /\ c \in Tree
      BY <1>12, <2>2, HoldsParts, HoldsType
    <3>2. PICK u \in Maps, v \in Maps : Parts(c, z, u, v)
      BY <1>12, <2>2, HoldsParts
    <3>3. c.key \in Keys /\ z[c.key] # {}
      <4> HIDE DEF c
      <4>1. z[c.key] = {c.data}
        BY <3>1, <3>2, PartsAt
      <4>. QED BY <3>1, <4>1, NodeForm
    <3>4. c.key \in KeysOf(z)
      BY <3>3 DEF KeysOf
    <3>5. Fetch(t, c.key) = Fetch(n, c.key) /\ Side(n, c.key) = dir /\ c.key # k
      BY <1>4, <1>12, <3>4
    <3>6. Fetch(n, c.key) = Fetch(c, c.key)
      BY <1>3, <1>5, <3>3, <3>5, FetchDef
    <3>7. Fetch(c, c.key) = c
      BY <3>1, <3>3, FetchDef
    <3>8. Below(t, c.key) = KeysOf(z)
      BY <1>12, <3>5, <3>6, <3>7, InOrderHolds DEF Below, Ordered
    <3>9. c.key \in KeysOf(m)
      BY <1>11, <1>12, <3>4
    <3>. QED BY <2>2, <3>8, <3>9 DEF ChildBelow
  <2>. QED BY <2>1, <2>2
<1>13. Keys \subseteq Int /\ KeysOf(x) \subseteq Keys /\ KeysOf(y) \subseteq Keys
  BY AATreeAssumption DEF KeysOf
<1>14. \A j \in KeysOf(x) : j # k /\ Side(n, j) = LEFT
  <2>1. ASSUME NEW j \in KeysOf(x) PROVE j # k /\ ~(k < j)
    <3>1. j < k /\ j \in Int /\ k \in Int
      BY <1>1, <1>7, <1>13 DEF Fits
    <3>. QED BY <3>1
  <2>. QED BY <1>1, <1>3, <1>13, <2>1, SideOf
<1>15. \A j \in KeysOf(y) : j # k /\ Side(n, j) = RIGHT
  <2>1. ASSUME NEW j \in KeysOf(y) PROVE j # k /\ k < j
    <3>1. k < j /\ j \in Int /\ k \in Int
      BY <1>1, <1>7, <1>13 DEF Fits
    <3>. QED BY <3>1
  <2>. QED BY <1>1, <1>3, <1>13, <2>1, SideOf
<1>16. ChildBelow(t, m, l, KeysOf(x))
  <2>1. LEFT \in Dirs /\ KeysOf(x) \subseteq KeysOf(s)
    BY <1>9 DEF Dirs
  <2>. QED BY <1>7, <1>12, <1>14, <2>1
<1>17. ChildBelow(t, m, r, KeysOf(y))
  <2>1. RIGHT \in Dirs /\ KeysOf(y) \subseteq KeysOf(s)
    BY <1>9 DEF Dirs
  <2>. QED BY <1>7, <1>12, <1>15, <2>1
<1>. QED BY <1>9, <1>10, <1>13, <1>16, <1>17 DEF n

\* What a loop meets at a node it has yet to visit: the key itself, or all keys below.
Meets(t, kind) == [k \in Keys |-> IF kind = "each" THEN {k} ELSE Below(t, k)]

\* A loop over the set K has seen some of it, each key once, and will meet the rest.
Covers(g, K, todo, seen) ==
    /\ ToSet(todo) \subseteq K /\ Apart(g, todo)
    /\ Cardinality(ToSet(seen)) = Len(seen)
    /\ ToSet(seen) \cap Span(g, todo) = {}
    /\ ToSet(seen) \cup Span(g, todo) = K

(* It still does after a visit that puts what it met but the key in q.     *)
LEMMA VisitCovers ==
  ASSUME NEW g, NEW K \in SUBSET Keys, NEW todo \in Seq(Keys), NEW seen \in Seq(Keys),
         Covers(g, K, todo, seen), todo # << >>,
         NEW q \in Seq(Keys), ToSet(q) \subseteq K, Apart(g, q),
         g[Head(todo)] = {Head(todo)} \cup Span(g, q), Head(todo) \notin Span(g, q)
  PROVE  /\ Tail(todo) \o q \in Seq(Keys) /\ Append(seen, Head(todo)) \in Seq(Keys)
         /\ Covers(g, K, Tail(todo) \o q, Append(seen, Head(todo)))
<1> DEFINE a == Head(todo)
           u == Tail(todo)
           v == Append(seen, a)
<1>1. /\ a \in Keys /\ u \in Seq(Keys) /\ Apart(g, u) /\ Span(g, todo) = g[a] \cup Span(g, u)
      /\ g[a] \cap Span(g, u) = {}
  BY TailApart DEF Covers
<1>2. ToSet(u) \subseteq K
  BY DEF Covers, ToSet
<1>3. v \in Seq(Keys) /\ Len(v) = Len(seen) + 1 /\ ToSet(v) = ToSet(seen) \cup {a}
  <2>1. a \in Keys
    BY <1>1
  <2> HIDE DEF a
  <2>2. v \in Seq(Keys) /\ Len(v) = Len(seen) + 1
    BY <2>1
  <2>3. /\ DOMAIN v = 1..(Len(seen) + 1) /\ DOMAIN seen = 1..Len(seen) /\ Len(seen) \in Nat
        /\ \A i \in DOMAIN seen : v[i] = seen[i]
        /\ v[Len(seen) + 1] = a
    BY <2>1
  <2> HIDE DEF v
  <2>4. \A i \in DOMAIN v : i \in DOMAIN seen \/ i = Len(seen) + 1
    BY <2>3
  <2>5. \A i \in DOMAIN seen : i \in DOMAIN v
    BY <2>3
  <2>6. Len(seen) + 1 \in DOMAIN v
    BY <2>3
  <2>. QED BY <2>2, <2>3, <2>4, <2>5, <2>6 DEF ToSet
<1>4. a \notin ToSet(seen)
  BY <1>1 DEF Covers
<1>5. Cardinality(ToSet(v)) = Len(v)
  <2>1. ToSet(seen) \subseteq Keys
    BY DEF ToSet
  <2>2. IsFiniteSet(ToSet(seen))
    BY <2>1, AATreeAssumption, FS_Subset
  <2>3. Cardinality(ToSet(seen) \cup {a}) = Cardinality(ToSet(seen)) + 1
    <3> HIDE DEF a
    <3>. QED BY <1>4, <2>2, FS_AddElement
  <2>. QED BY <1>3, <2>3 DEF Covers
<1> HIDE DEF u, v
<1>6. /\ u \o q \in Seq(Keys) /\ Apart(g, u \o q)
      /\ Span(g, u \o q) = Span(g, u) \cup Span(g, q)
  <2>1. Span(g, u) \cap Span(g, q) = {}
    BY <1>1
  <2>. QED BY <1>1, <2>1, ConcatApart
<1>7. ToSet(u \o q) \subseteq K
  <2>1. ASSUME NEW i \in DOMAIN (u \o q) PROVE (u \o q)[i] \in K
    <3>1. /\ Len(u) \in Nat /\ Len(q) \in Nat /\ DOMAIN u = 1..Len(u) /\ DOMAIN q = 1..Len(q)
          /\ i \in 1..(Len(u) + Len(q))
          /\ (u \o q)[i] = IF i <= Len(u) THEN u[i] ELSE q[i - Len(u)]
      BY <1>1
    <3>2. CASE i <= Len(u)
      <4>1. i \in DOMAIN u
        BY <3>1, <3>2
      <4>. QED BY <1>2, <3>1, <3>2, <4>1 DEF ToSet
    <3>3. CASE ~(i <= Len(u))
      <4>1. i - Len(u) \in DOMAIN q
        BY <3>1, <3>3
      <4>. QED BY <3>1, <3>3, <4>1 DEF ToSet
    <3>. QED BY <3>2, <3>3
  <2>. QED BY <2>1 DEF ToSet
<1>8. /\ ToSet(v) \cap Span(g, u \o q) = {}
      /\ ToSet(v) \cup Span(g, u \o q) = K
  <2>1. ToSet(seen) \cap (g[a] \cup Span(g, u)) = {} /\ ToSet(seen) \cup (g[a] \cup Span(g, u)) = K
    BY <1>1 DEF Covers
  <2>2. a \notin Span(g, u)
    BY <1>1
  <2>. QED BY <1>3, <1>6, <2>1, <2>2
<1>9. Covers(g, K, u \o q, v)
  BY <1>5, <1>6, <1>7, <1>8 DEF Covers
<1>. QED BY <1>3, <1>6, <1>9 DEF u, v

\* Queueing the child c adds nodes that have the keys of a below them.
AddsQueue(t, m, s, c, a) ==
    \E q \in Seq(Keys) : /\ Queued(s, c) = s \o q /\ Queued(s, c) \in Seq(Keys)
                         /\ ToSet(q) \subseteq KeysOf(m)
                         /\ Apart(Meets(t, "iter"), q) /\ Span(Meets(t, "iter"), q) = a

(* One child that is queued, or not for being null.                        *)
LEMMA QueuedChild ==
  \A t, m, c, a : \A s \in Seq(Keys) :
     m \in Maps /\ ChildBelow(t, m, c, a) => AddsQueue(t, m, s, c, a)
<1>. SUFFICES ASSUME NEW t, NEW m, NEW s \in Seq(Keys), NEW c, NEW a, m \in Maps,
                     ChildBelow(t, m, c, a)
              PROVE  AddsQueue(t, m, s, c, a)
  OBVIOUS
<1> DEFINE g == Meets(t, "iter")
<1>1. CASE IsNil(c)
  <2>1. Queued(s, c) = s \o << >> /\ Queued(s, c) \in Seq(Keys)
    BY <1>1 DEF Queued
  <2>2. a = {}
    BY <1>1 DEF ChildBelow
  <2>3. ToSet(<< >>) = {} /\ Apart(g, << >>) /\ Span(g, << >>) = {} /\ << >> \in Seq(Keys)
    BY DEF ToSet, Apart, Span
  <2>. QED BY <2>1, <2>2, <2>3 DEF AddsQueue
<1>2. CASE ~IsNil(c)
  <2>1. c.key \in KeysOf(m) /\ c.key \in Keys /\ Below(t, c.key) = a
    BY <1>2 DEF ChildBelow, KeysOf
  <2> DEFINE k == c.key
             q == << k >>
  <2>2. g[k] = a
    BY <2>1 DEF Meets
  <2> HIDE DEF g
  <2>3. Queued(s, c) = s \o q /\ Queued(s, c) \in Seq(Keys)
    BY <1>2, <2>1 DEF Queued
  <2>4. ToSet(q) \subseteq KeysOf(m) /\ Apart(g, q) /\ Span(g, q) = a /\ q \in Seq(Keys)
    BY <2>1, <2>2 DEF ToSet, Apart, Span
  <2>. QED BY <2>3, <2>4 DEF g, AddsQueue
<1>. QED BY <1>1, <1>2

(* Both children: what the loop will meet at them is what it met at k, but k. *)
LEMMA QueuedChildren ==
  ASSUME NEW t, NEW m, Holds(t, m), NEW k \in KeysOf(m), NEW s \in Seq(Keys)
  PROVE  LET g == Meets(t, "iter")
             n == Fetch(t, k)
         IN  \E q \in Seq(Keys) :
                /\ Queued(Queued(s, n.child[LEFT]), n.child[RIGHT]) = s \o q
                /\ ToSet(q) \subseteq KeysOf(m) /\ Apart(g, q)
                /\ g[k] = {k} \cup Span(g, q) /\ k \notin Span(g, q)
<1> DEFINE g == Meets(t, "iter")
           n == Fetch(t, k)
           l == n.child[LEFT]
           r == n.child[RIGHT]
<1>1. m \in Maps /\ k \in Keys
  BY HoldsType DEF KeysOf
<1>2. g[k] = Below(t, k)
  BY <1>1 DEF Meets
<1>3. PICK a \in SUBSET Keys, b \in SUBSET Keys :
        /\ Below(t, k) = {k} \cup a \cup b
        /\ k \notin a /\ k \notin b /\ a \cap b = {}
        /\ ChildBelow(t, m, l, a) /\ ChildBelow(t, m, r, b)
  BY BelowSplits
<1> HIDE DEF l, r
<1>4. PICK p \in Seq(Keys) : /\ Queued(s, l) = s \o p /\ Queued(s, l) \in Seq(Keys)
                             /\ ToSet(p) \subseteq KeysOf(m) /\ Apart(g, p) /\ Span(g, p) = a
  <2>1. AddsQueue(t, m, s, l, a)
    BY <1>1, <1>3, QueuedChild
  <2>. QED BY <2>1 DEF AddsQueue
<1>5. PICK q \in Seq(Keys) : /\ Queued(Queued(s, l), r) = Queued(s, l) \o q
                             /\ ToSet(q) \subseteq KeysOf(m) /\ Apart(g, q) /\ Span(g, q) = b
  <2> DEFINE e == Queued(s, l)
  <2>1. e \in Seq(Keys)
    BY <1>4
  <2> HIDE DEF e
  <2>2. AddsQueue(t, m, e, r, b)
    BY <1>1, <1>3, <2>1, QueuedChild
  <2>. QED BY <2>2 DEF e, AddsQueue
<1> HIDE DEF g
<1>6. p \o q \in Seq(Keys) /\ Apart(g, p \o q) /\ Span(g, p \o q) = a \cup b
  BY <1>3, <1>4, <1>5, ConcatApart
<1>7. Queued(Queued(s, l), r) = s \o (p \o q)
  <2>1. \A u, v, w \in Seq(Keys) : (u \o v) \o w = u \o (v \o w)
    OBVIOUS
  <2>2. (s \o p) \o q = s \o (p \o q)
    BY <2>1
  <2>. QED BY <1>4, <1>5, <2>2
<1>8. ToSet(p \o q) \subseteq KeysOf(m)
  <2>1. ASSUME NEW i \in DOMAIN (p \o q) PROVE (p \o q)[i] \in KeysOf(m)
    <3>1. /\ Len(p) \in Nat /\ Len(q) \in Nat /\ DOMAIN p = 1..Len(p) /\ DOMAIN q = 1..Len(q)
          /\ i \in 1..(Len(p) + Len(q))
          /\ (p \o q)[i] = IF i <= Len(p) THEN p[i] ELSE q[i - Len(p)]
      OBVIOUS
    <3>2. CASE i <= Len(p)
      <4>1. i \in DOMAIN p
        BY <3>1, <3>2
      <4>. QED BY <1>4, <3>1, <3>2, <4>1 DEF ToSet
    <3>3. CASE ~(i <= Len(p))
      <4>1. i - Len(p) \in DOMAIN q
        BY <3>1, <3>3
      <4>. QED BY <1>5, <3>1, <3>3, <4>1 DEF ToSet
    <3>. QED BY <3>2, <3>3
  <2>. QED BY <2>1 DEF ToSet
<1>9. g[k] = {k} \cup Span(g, p \o q) /\ k \notin Span(g, p \o q)
  BY <1>2, <1>3, <1>6
<1>. QED BY <1>6, <1>7, <1>8, <1>9 DEF g, n, l, r

\* x is m without the first i keys of p.
Wiped(m, p, i, x) ==
    x \in Maps /\ \A k \in Keys : x[k] = IF \E j \in 1..i : p[j] = k THEN {} ELSE m[k]

(* The end of the outermost loop removes every key of the list, even when  *)
(* a key is in it twice.                                                   *)
LEMMA DeletePendingHolds ==
  ASSUME NEW m, Holds(root, m), pending \in Seq(Keys)
  PROVE  \E x : Holds(DeletePending, x) /\ Wiped(m, pending, Len(pending), x)
<1>1. PICK r : r = root
  OBVIOUS
<1>2. PICK p : p = pending
  OBVIOUS
<1>3. Holds(r, m) /\ r \in Tree /\ m \in Maps /\ p \in Seq(Keys)
  BY <1>1, <1>2, HoldsType
<1> DEFINE L == Len(p)
<1>4. L \in Nat /\ \A i \in 1..L : p[i] \in Keys
  BY <1>3
<1> HIDE DEF L
<1> DEFINE S == {t \in Tree : \E x : Holds(t, x)}
           G == [i \in 1..L |-> [t \in S |-> Delete(t, p[i])]]
<1>5. ASSUME NEW t, NEW x, Holds(t, x), NEW i \in 1..L
      PROVE  t \in S /\ Holds(Delete(t, p[i]), [x EXCEPT ![p[i]] = {}])
  <2>1. t \in S
    BY <1>5, HoldsType
  <2>2. p[i] \in Keys
    BY <1>4
  <2>. QED BY <1>5, <2>1, <2>2, DeleteHolds
<1>6. G \in [1..L -> [S -> S]]
  <2>1. ASSUME NEW i \in 1..L, NEW t \in S PROVE Delete(t, p[i]) \in S
    <3>1. PICK x : Holds(t, x)
      OBVIOUS
    <3>2. Holds(Delete(t, p[i]), [x EXCEPT ![p[i]] = {}])
      BY <1>5, <3>1
    <3>. QED BY <3>2, HoldsType
  <2> HIDE DEF S
  <2>. QED BY <2>1
<1>7. r \in S
  BY <1>3
<1>8. PICK f \in [0..L -> S] : f[0] = r /\ \A i \in 1..L : f[i] = G[i][f[i - 1]]
  <2> HIDE DEF S, G
  <2>1. \A n \in Nat : \A H \in [1..n -> [S -> S]] :
           \E f \in [0..n -> S] : f[0] = r /\ \A i \in 1..n : f[i] = H[i][f[i - 1]]
    BY ONLY <1>7, StepsExist
  <2>. QED BY ONLY <1>4, <1>6, <2>1
<1>9. ASSUME NEW i \in 1..L PROVE f[i] = Delete(f[i - 1], p[i])
  <2>1. i - 1 \in 0..L
    BY <1>4
  <2>2. f[i - 1] \in S
    BY <1>8, <2>1
  <2> HIDE DEF S
  <2>. QED BY <1>8, <2>2
<1> DEFINE Def(g) == g = [i \in 0..L |-> IF i = 0 THEN r ELSE Delete(g[i - 1], p[i])]
           after == CHOOSE g : Def(g)
<1>10. Def(f)
  <2>1. \A i \in 0..L : f[i] = IF i = 0 THEN r ELSE Delete(f[i - 1], p[i])
    <3>1. \A i \in 0..L : i = 0 \/ i \in 1..L
      BY <1>4
    <3>. QED BY <1>8, <1>9, <3>1
  <2>2. f = [i \in 0..L |-> f[i]]
    <3> HIDE DEF S
    <3>. QED BY <1>8
  <2> HIDE DEF S
  <2>. QED BY <2>1, <2>2
<1>11. Def(after)
  <2> HIDE DEF Def
  <2>. QED BY <1>10
<1>12. DeletePending = after[L]
  BY <1>1, <1>2 DEF DeletePending, L
<1>13. PICK g : g = after
  OBVIOUS
<1>14. \A i \in 0..L : g[i] = IF i = 0 THEN r ELSE Delete(g[i - 1], p[i])
  <2>1. g = [i \in 0..L |-> IF i = 0 THEN r ELSE Delete(g[i - 1], p[i])]
    BY <1>11, <1>13
  <2>. QED BY ONLY <2>1
<1> DEFINE Q == {i \in 0..L : \E x : Holds(g[i], x) /\ Wiped(m, p, i, x)}
<1>15. 0 \in Q
  <2>1. 0 \in 0..L /\ g[0] = r
    BY <1>4, <1>14
  <2>2. Wiped(m, p, 0, m)
    BY <1>3 DEF Wiped
  <2>. QED BY <1>3, <2>1, <2>2
<1>16. ASSUME NEW i \in 1..L, i - 1 \in Q PROVE i \in Q
  <2>1. PICK x : Holds(g[i - 1], x) /\ Wiped(m, p, i - 1, x)
    BY <1>16
  <2> DEFINE y == [x EXCEPT ![p[i]] = {}]
  <2>2. i \in 0..L /\ i # 0 /\ p[i] \in Keys /\ x \in Maps
    BY <1>4, <2>1, HoldsType
  <2>3. g[i] = Delete(g[i - 1], p[i])
    BY <1>14, <2>2
  <2>4. Holds(g[i], y)
    BY <1>5, <2>1, <2>3
  <2>5. Wiped(m, p, i, y)
    <3>1. y \in Maps /\ y[p[i]] = {} /\ \A k \in Keys : k # p[i] => y[k] = x[k]
      BY <2>2 DEF Maps
    <3> HIDE DEF y
    <3>2. \A k : (\E j \in 1..i : p[j] = k) <=> (k = p[i] \/ \E j \in 1..(i - 1) : p[j] = k)
      <4>1. \A j : j \in 1..i <=> j = i \/ j \in 1..(i - 1)
        BY <1>4
      <4>. QED BY <4>1
    <3>3. ASSUME NEW k \in Keys
          PROVE  y[k] = IF \E j \in 1..i : p[j] = k THEN {} ELSE m[k]
      <4>1. x[k] = IF \E j \in 1..(i - 1) : p[j] = k THEN {} ELSE m[k]
        BY <2>1 DEF Wiped
      <4>. QED BY <3>1, <3>2, <4>1
    <3>. QED BY <3>1, <3>3 DEF Wiped
  <2> HIDE DEF y
  <2>. QED BY <2>2, <2>4, <2>5
<1>17. L \in Q
  <2> HIDE DEF Q
  <2>1. 0..L \subseteq Q
    BY <1>4, <1>15, <1>16, IndexInduction
  <2>. QED BY <1>4, <2>1
<1>18. \E x : Holds(DeletePending, x) /\ Wiped(m, p, L, x)
  BY <1>12, <1>13, <1>17
<1>. QED BY <1>2, <1>18 DEF L

Frames == [kind : {"each", "iter"}, todo : Seq(Keys), seen : Seq(Keys)]

FrameOK(t, K, f) == Covers(Meets(t, f.kind), K, f.todo, f.seen)
FramesOK(t, K, fs) == fs \in Seq(Frames) /\ \A i \in DOMAIN fs : FrameOK(t, K, fs[i])

\* What there is when the tree t holds m: the size n counts the data, deletions
\* wait in p while the depth is dep, and every loop on the stack fs covers the keys.
State(t, n, dep, p, fs, m) ==
    /\ Holds(t, m) /\ n = Cardinality(Shown(m))
    /\ dep \in Nat /\ p \in Seq(Keys)
    /\ Waiting(m) = IF dep = 0 THEN {} ELSE ToSet(p)
    /\ FramesOK(t, KeysOf(m), fs) /\ Len(fs) <= dep

\* The size and the deletions that were counted twice are the keys with data.
Held == size + twice
Typed == size \in Int /\ twice \in Int

Now(m) == Typed /\ State(root, Held, iterdepth, pending, frames, m)

\* From m to x data changes at one key, or at none, or all of it goes.
Changes(m, x) ==
    \/ Shown(x) = {}
    \/ \E k \in Keys : \A j \in Keys \ {k} : x[j] = m[j]
    \/ Shown(x) = Shown(m) /\ \A k \in Shown(m) : x[k] = m[k]
Then(m, x) ==
    Typed' /\ State(root', Held', iterdepth', pending', frames', x) /\ Changes(m, x)

(* One frame more on top of the stack.                                     *)
LEMMA PushFrame ==
  ASSUME NEW t, NEW K, NEW fs, FramesOK(t, K, fs), NEW f \in Frames, FrameOK(t, K, f)
  PROVE  FramesOK(t, K, << f >> \o fs) /\ Len(<< f >> \o fs) = Len(fs) + 1
<1> DEFINE gs == << f >> \o fs
<1>1. fs \in Seq(Frames) /\ \A i \in DOMAIN fs : FrameOK(t, K, fs[i])
  BY DEF FramesOK
<1>2. /\ gs \in Seq(Frames) /\ Len(gs) = Len(fs) + 1 /\ Len(fs) \in Nat
      /\ DOMAIN gs = 1..(Len(fs) + 1) /\ DOMAIN fs = 1..Len(fs)
      /\ \A i \in DOMAIN gs : gs[i] = IF i = 1 THEN f ELSE fs[i - 1]
  <2> HIDE DEF Frames
  <2>. QED BY <1>1
<1> HIDE DEF gs
<1>3. ASSUME NEW i \in DOMAIN gs PROVE FrameOK(t, K, gs[i])
  <2>1. i # 1 => i - 1 \in DOMAIN fs
    BY <1>2
  <2>. QED BY <1>1, <1>2, <2>1
<1>. QED BY <1>2, <1>3 DEF FramesOK, gs

(* What is left of the stack when the innermost loop ends.                 *)
LEMMA PopFrame ==
  ASSUME NEW t, NEW K, NEW fs, FramesOK(t, K, fs), fs # << >>
  PROVE  FramesOK(t, K, Tail(fs)) /\ Len(fs) \in Nat \ {0} /\ Len(Tail(fs)) = Len(fs) - 1
<1>1. fs \in Seq(Frames) /\ \A i \in DOMAIN fs : FrameOK(t, K, fs[i])
  BY DEF FramesOK
<1>2. /\ Tail(fs) \in Seq(Frames) /\ Len(Tail(fs)) = Len(fs) - 1 /\ Len(fs) \in Nat \ {0}
      /\ \A i \in DOMAIN Tail(fs) : i + 1 \in DOMAIN fs /\ Tail(fs)[i] = fs[i + 1]
  <2> HIDE DEF Frames
  <2>. QED BY <1>1
<1>. QED BY <1>1, <1>2 DEF FramesOK

\* The stack after the innermost loop has gone on.
Going(fs, u, v) == [fs EXCEPT ![1].todo = u, ![1].seen = v]

(* The innermost loop, and the stack when it goes on.                      *)
LEMMA TopFrame ==
  ASSUME NEW t, NEW K, NEW fs, FramesOK(t, K, fs), fs # << >>
  PROVE  /\ fs[1] \in Frames /\ FrameOK(t, K, fs[1])
         /\ \A u, v \in Seq(Keys) :
               Covers(Meets(t, fs[1].kind), K, u, v) =>
                  FramesOK(t, K, Going(fs, u, v)) /\ Len(Going(fs, u, v)) = Len(fs)
<1>1. fs \in Seq(Frames) /\ \A i \in DOMAIN fs : FrameOK(t, K, fs[i])
  BY DEF FramesOK
<1>2. 1 \in DOMAIN fs /\ fs[1] \in Frames /\ DOMAIN fs = 1..Len(fs) /\ Len(fs) \in Nat
  <2> HIDE DEF Frames
  <2>. QED BY <1>1
<1>3. ASSUME NEW u \in Seq(Keys), NEW v \in Seq(Keys), Covers(Meets(t, fs[1].kind), K, u, v)
      PROVE  FramesOK(t, K, Going(fs, u, v)) /\ Len(Going(fs, u, v)) = Len(fs)
  <2> DEFINE h == [fs[1] EXCEPT !.todo = u, !.seen = v]
             gs == Going(fs, u, v)
  <2>1. h \in Frames /\ h.kind = fs[1].kind /\ h.todo = u /\ h.seen = v
    BY <1>2 DEF Frames
  <2>2. gs = [fs EXCEPT ![1] = h]
    BY <1>1, <1>2 DEF Frames, Going
  <2> HIDE DEF h, gs
  <2>3. FrameOK(t, K, h)
    BY <1>3, <2>1 DEF FrameOK
  <2>4. /\ gs \in Seq(Frames) /\ Len(gs) = Len(fs) /\ DOMAIN gs = DOMAIN fs
        /\ \A i \in DOMAIN fs : gs[i] = IF i = 1 THEN h ELSE fs[i]
    <3> HIDE DEF Frames
    <3>. QED BY <1>1, <1>2, <2>1, <2>2
  <2>5. FramesOK(t, K, gs)
    BY <1>1, <2>3, <2>4 DEF FramesOK
  <2>. QED BY <2>4, <2>5 DEF gs
<1>. QED BY <1>1, <1>2, <1>3

(* At depth 0 there is no loop.                                            *)
LEMMA NoFrames ==
  ASSUME NEW t, NEW K, NEW fs, FramesOK(t, K, fs), Len(fs) <= 0
  PROVE  fs = << >> /\ \A u, J : FramesOK(u, J, fs)
<1>1. fs = << >>
  BY DEF FramesOK
<1>2. \A u, J : FramesOK(u, J, << >>)
  BY DEF FramesOK
<1>. QED BY <1>1, <1>2

(* A tree with the same keys below every key serves the loops as well.     *)
LEMMA SameFrames ==
  ASSUME NEW t, NEW u, NEW K, NEW fs, FramesOK(t, K, fs),
         \A j \in Keys : Below(u, j) = Below(t, j)
  PROVE  FramesOK(u, K, fs)
<1>1. \A kind : Meets(u, kind) = Meets(t, kind)
  BY DEF Meets
<1>. QED BY <1>1 DEF FramesOK, FrameOK

(* The three kinds of keys of a map, and how one assignment moves a key.    *)
LEMMA Kinds ==
  ASSUME NEW t, NEW m, Holds(t, m)
  PROVE  /\ m \in Maps /\ IsFiniteSet(Shown(m)) /\ Shown(m) \subseteq Keys
         /\ KeysOf(m) = Shown(m) \cup Waiting(m) /\ Shown(m) \cap Waiting(m) = {}
<1>1. \A k \in Keys : k \in Shown(m) \/ m[k] = {} \/ m[k] = {None}
  BY LookupIs
<1>2. KeysOf(m) = Shown(m) \cup Waiting(m) /\ Shown(m) \cap Waiting(m) = {}
  BY <1>1 DEF KeysOf, Shown, Waiting
<1>3. IsFiniteSet(Shown(m))
  BY AATreeAssumption, FS_Subset DEF Shown
<1>. QED BY <1>2, <1>3, HoldsType DEF Shown

\* What the assignment of s to the key k makes of m.
Assigns(m, k, s, x) ==
    /\ x[k] = s /\ \A j \in Keys \ {k} : x[j] = m[j]
    /\ Shown(x) = IF s \in {{}, {None}} THEN Shown(m) \ {k} ELSE Shown(m) \cup {k}
    /\ Waiting(x) = IF s = {None} THEN Waiting(m) \cup {k} ELSE Waiting(m) \ {k}
    /\ KeysOf(x) = IF s = {} THEN KeysOf(m) \ {k} ELSE KeysOf(m) \cup {k}

(* A key is shown, or waits, or is not there, by what is assigned to it.   *)
LEMMA Assigned ==
  \A m \in Maps : \A k \in Keys : \A s \in SUBSET Values : Assigns(m, k, s, [m EXCEPT ![k] = s])
<1>. SUFFICES ASSUME NEW m \in Maps, NEW k \in Keys, NEW s \in SUBSET Values
              PROVE  Assigns(m, k, s, [m EXCEPT ![k] = s])
  OBVIOUS
<1> DEFINE x == [m EXCEPT ![k] = s]
<1>1. x[k] = s /\ \A j \in Keys \ {k} : x[j] = m[j]
  BY DEF Maps
<1> HIDE DEF x
<1>2. Shown(x) = IF s \in {{}, {None}} THEN Shown(m) \ {k} ELSE Shown(m) \cup {k}
  BY <1>1 DEF Shown
<1>3. Waiting(x) = IF s = {None} THEN Waiting(m) \cup {k} ELSE Waiting(m) \ {k}
  BY <1>1 DEF Waiting
<1>4. KeysOf(x) = IF s = {} THEN KeysOf(m) \ {k} ELSE KeysOf(m) \cup {k}
  BY <1>1 DEF KeysOf
<1>. QED BY <1>1, <1>2, <1>3, <1>4 DEF x, Assigns

(* u_map_set, outside any loop: the key has the new data, once.            *)
LEMMA SetKeeps ==
  ASSUME NEW m, Now(m), NEW k \in Keys, NEW d \in Data, Set(k, d)
  PROVE  \E x : Then(m, x)
<1>1. /\ Holds(root, m) /\ Held = Cardinality(Shown(m)) /\ Typed /\ iterdepth \in Nat
      /\ pending \in Seq(Keys) /\ Waiting(m) = IF iterdepth = 0 THEN {} ELSE ToSet(pending)
      /\ FramesOK(root, KeysOf(m), frames) /\ Len(frames) <= iterdepth
  BY DEF Now, State
<1>2. iterdepth' = iterdepth /\ pending' = pending /\ frames' = frames
  BY DEF Set
<1>3. CASE iterdepth > 0
  <2>1. root' = root /\ Held' = Held /\ Typed'
    BY <1>1, <1>3 DEF Set, Held, Typed
  <2>2. Then(m, m)
    BY <1>1, <1>2, <2>1 DEF Then, State, Changes
  <2>. QED BY <2>2
<1>4. CASE ~(iterdepth > 0)
  <2> DEFINE x == [m EXCEPT ![k] = {d}]
  <2>1. iterdepth = 0 /\ Waiting(m) = {} /\ m \in Maps /\ IsFiniteSet(Shown(m))
    BY <1>1, <1>4, Kinds
  <2>2. frames = << >> /\ \A u, J : FramesOK(u, J, frames)
    <3>1. Len(frames) <= 0
      BY <1>1, <2>1
    <3>. QED BY <1>1, <3>1, NoFrames
  <2>3. /\ x[k] = {d} /\ \A j \in Keys \ {k} : x[j] = m[j]
        /\ Shown(x) = Shown(m) \cup {k} /\ Waiting(x) = {}
    <3>1. {d} \in SUBSET Values /\ {d} \notin {{}, {None}}
      BY AATreeAssumption DEF Values
    <3>2. Assigns(m, k, {d}, x)
      BY <2>1, <3>1, Assigned
    <3> HIDE DEF x
    <3>. QED BY <2>1, <3>1, <3>2 DEF Assigns
  <2>4. IsNil(Fetch(root, k)) <=> m[k] = {}
    BY <1>1, LookupIs
  <2>5. Holds(root', x) /\ Held' = Cardinality(Shown(x)) /\ Typed'
    <3>1. CASE m[k] = {}
      <4>1. root' = Insert(root, NewNode(k, d)) /\ Held' = Held + 1 /\ Typed'
        BY <1>1, <1>4, <2>4, <3>1 DEF Set, Held, Typed
      <4>2. k \notin Shown(m)
        BY <3>1 DEF Shown
      <4>3. Holds(root', x)
        BY <1>1, <3>1, <4>1, InsertHolds
      <4>4. Cardinality(Shown(m) \cup {k}) = Cardinality(Shown(m)) + 1
        BY <2>1, <4>2, FS_AddElement
      <4> HIDE DEF x
      <4>. QED BY <1>1, <2>3, <4>1, <4>3, <4>4
    <3>2. CASE m[k] # {}
      <4>1. root' = SetData(root, k, d) /\ Held' = Held /\ Typed'
        BY <1>1, <1>4, <2>4, <3>2 DEF Set, Held, Typed
      <4>2. k \in Shown(m)
        BY <1>1, <2>1, <3>2, Kinds DEF KeysOf
      <4>3. Holds(root', x)
        <5>1. d \in Values
          BY DEF Values
        <5>. QED BY <1>1, <3>2, <4>1, <5>1, SetDataHolds
      <4> HIDE DEF x
      <4>4. Shown(x) = Shown(m)
        BY <2>3, <4>2
      <4>. QED BY <1>1, <4>1, <4>3, <4>4
    <3>. QED BY <3>1, <3>2
  <2> HIDE DEF x
  <2>6. Then(m, x)
    <3>1. FramesOK(root', KeysOf(x), frames) /\ Len(frames) <= iterdepth
      BY <1>1, <2>2
    <3>2. Changes(m, x)
      BY <2>3 DEF Changes
    <3>. QED BY <1>1, <1>2, <2>1, <2>3, <2>5, <3>1, <3>2 DEF Then, State
  <2>. QED BY <2>6
<1>. QED BY <1>3, <1>4

(* u_map_del: the key is gone at once, or waits for the loops, perhaps for *)
(* the second time.                                                         *)
LEMMA DelKeeps ==
  ASSUME NEW m, Now(m), NEW k \in Keys, Del(k)
  PROVE  \E x : Then(m, x)
<1>1. /\ Holds(root, m) /\ Held = Cardinality(Shown(m)) /\ Typed /\ iterdepth \in Nat
      /\ pending \in Seq(Keys) /\ Waiting(m) = IF iterdepth = 0 THEN {} ELSE ToSet(pending)
      /\ FramesOK(root, KeysOf(m), frames) /\ Len(frames) <= iterdepth
  BY DEF Now, State
<1>2. /\ iterdepth' = iterdepth /\ frames' = frames /\ Typed'
      /\ Held' = IF Lookup(root, k) = None THEN Held ELSE Held - 1
      /\ ~IsNil(Fetch(root, k))
  BY <1>1 DEF Del, Held, Typed
<1>3. m[k] # {} /\ k \in KeysOf(m) /\ (k \in Shown(m) <=> Lookup(root, k) # None)
  BY <1>1, <1>2, LookupIs DEF KeysOf
<1>4. m \in Maps /\ IsFiniteSet(Shown(m))
  BY <1>1, Kinds
<1>5. Held' = Cardinality(Shown(m) \ {k})
  <2>1. CASE k \in Shown(m)
    BY <1>1, <1>2, <1>3, <1>4, <2>1, FS_RemoveElement
  <2>2. CASE k \notin Shown(m)
    <3>1. Shown(m) \ {k} = Shown(m)
      BY <2>2
    <3>. QED BY <1>1, <1>2, <1>3, <2>2, <3>1
  <2>. QED BY <2>1, <2>2
<1>6. CASE iterdepth > 0
  <2> DEFINE s == {None}
             x == [m EXCEPT ![k] = s]
  <2>1. root' = SetData(root, k, None) /\ pending' = Append(pending, k)
    BY <1>6 DEF Del
  <2>2. None \in Values /\ s \in SUBSET Values /\ s \in {{}, {None}} /\ s # {}
    BY DEF Values
  <2>3. Holds(root', x)
    BY <1>1, <1>3, <2>1, <2>2, SetDataHolds
  <2>4. \A j \in Keys : Below(root', j) = Below(root, j)
    BY <1>1, <1>3, <2>1, <2>2, SetDataBelow
  <2>5. s = {None}
    OBVIOUS
  <2> HIDE DEF s
  <2>6. /\ \A j \in Keys \ {k} : x[j] = m[j]
        /\ Shown(x) = Shown(m) \ {k} /\ Waiting(x) = Waiting(m) \cup {k} /\ KeysOf(x) = KeysOf(m)
    <3>1. Assigns(m, k, s, x)
      BY <1>4, <2>2, Assigned
    <3> HIDE DEF x
    <3>2. KeysOf(m) \cup {k} = KeysOf(m)
      BY <1>3
    <3>. QED BY <2>2, <2>5, <3>1, <3>2 DEF Assigns
  <2> HIDE DEF x
  <2>7. pending' \in Seq(Keys) /\ ToSet(pending') = ToSet(pending) \cup {k}
    <3>1. PICK p : p = pending
      OBVIOUS
    <3>2. PICK q : q = pending'
      OBVIOUS
    <3>3. p \in Seq(Keys) /\ q = Append(p, k)
      BY <1>1, <2>1, <3>1, <3>2
    <3>4. /\ q \in Seq(Keys) /\ Len(p) \in Nat /\ DOMAIN p = 1..Len(p) /\ DOMAIN q = 1..(Len(p) + 1)
          /\ q[Len(p) + 1] = k /\ \A i \in DOMAIN p : q[i] = p[i]
      BY <3>3
    <3>5. \A i \in DOMAIN q : i \in DOMAIN p \/ i = Len(p) + 1
      BY <3>4
    <3>6. Len(p) + 1 \in DOMAIN q /\ \A i \in DOMAIN p : i \in DOMAIN q
      BY <3>4
    <3>7. ToSet(q) = ToSet(p) \cup {k}
      BY <3>4, <3>5, <3>6 DEF ToSet
    <3>. QED BY <3>1, <3>2, <3>4, <3>7
  <2>8. FramesOK(root', KeysOf(x), frames)
    BY <1>1, <2>4, <2>6, SameFrames
  <2>9. Changes(m, x)
    BY <2>6 DEF Changes
  <2>10. Waiting(x) = IF iterdepth' = 0 THEN {} ELSE ToSet(pending')
    BY <1>1, <1>2, <1>6, <2>6, <2>7
  <2>11. Held' = Cardinality(Shown(x))
    BY <1>5, <2>6
  <2>12. Then(m, x)
    BY <1>1, <1>2, <2>3, <2>7, <2>8, <2>9, <2>10, <2>11 DEF Then, State
  <2>. QED BY <2>12
<1>7. CASE ~(iterdepth > 0)
  <2> DEFINE s == {}
             x == [m EXCEPT ![k] = s]
  <2>1. root' = Delete(root, k) /\ pending' = pending
    BY <1>7 DEF Del
  <2>2. Holds(root', x)
    BY <1>1, <2>1, DeleteHolds
  <2>3. s \in SUBSET Values /\ s \in {{}, {None}} /\ s # {None} /\ s = {}
    OBVIOUS
  <2> HIDE DEF s
  <2>4. /\ \A j \in Keys \ {k} : x[j] = m[j]
        /\ Shown(x) = Shown(m) \ {k} /\ Waiting(x) = Waiting(m) \ {k}
    <3>1. Assigns(m, k, s, x)
      BY <1>4, <2>3, Assigned
    <3> HIDE DEF x
    <3>. QED BY <2>3, <3>1 DEF Assigns
  <2> HIDE DEF x
  <2>5. iterdepth = 0 /\ Waiting(x) = {}
    BY <1>1, <1>7, <2>4
  <2>6. FramesOK(root', KeysOf(x), frames) /\ Len(frames) <= iterdepth
    <3>1. Len(frames) <= 0
      BY <1>1, <2>5
    <3>. QED BY <1>1, <3>1, NoFrames
  <2>7. Changes(m, x)
    BY <2>4 DEF Changes
  <2>8. Held' = Cardinality(Shown(x))
    BY <1>5, <2>4
  <2>9. Then(m, x)
    BY <1>1, <1>2, <2>1, <2>2, <2>5, <2>6, <2>7, <2>8 DEF Then, State
  <2>. QED BY <2>9
<1>. QED BY <1>6, <1>7

(* u_map_free: nothing is left.                                            *)
LEMMA FreeKeeps ==
  ASSUME NEW m, Now(m), Free
  PROVE  \E x : Then(m, x)
<1>1. Holds(Nil, NoKeys) /\ Shown(NoKeys) = {} /\ Waiting(NoKeys) = {}
  BY HoldsNil DEF Shown, Waiting, NoKeys
<1>2. Cardinality({}) = 0
  BY FS_EmptySet
<1>3. /\ root' = Nil /\ iterdepth' = 0 /\ pending' = << >> /\ frames' = << >>
      /\ Held' = 0 /\ Typed'
  BY DEF Free, Held, Typed
<1>4. \A t, K : FramesOK(t, K, << >>)
  BY DEF FramesOK
<1>5. Then(m, NoKeys)
  BY <1>1, <1>2, <1>3, <1>4 DEF Then, State, Changes
<1>. QED BY <1>5

(* The beginning of a loop whose frame covers the keys.                    *)
LEMMA BeginKeeps ==
  ASSUME NEW m, Now(m), NEW f \in Frames, FrameOK(root, KeysOf(m), f), Begin(f)
  PROVE  \E x : Then(m, x)
<1>1. /\ Holds(root, m) /\ Held = Cardinality(Shown(m)) /\ Typed /\ iterdepth \in Nat
      /\ pending \in Seq(Keys) /\ Waiting(m) = IF iterdepth = 0 THEN {} ELSE ToSet(pending)
      /\ FramesOK(root, KeysOf(m), frames) /\ Len(frames) <= iterdepth
  BY DEF Now, State
<1>2. /\ root' = root /\ Held' = Held /\ Typed' /\ iterdepth' = iterdepth + 1
      /\ pending' = IF iterdepth = 0 THEN << >> ELSE pending
      /\ frames' = << f >> \o frames
  BY <1>1 DEF Begin, Held, Typed
<1>3. FramesOK(root, KeysOf(m), frames') /\ Len(frames') = Len(frames) + 1
  BY <1>1, <1>2, PushFrame
<1>4. Len(frames) \in Nat
  BY <1>1 DEF FramesOK
<1>5. ToSet(<< >>) = {}
  BY DEF ToSet
<1>6. pending' \in Seq(Keys) /\ Waiting(m) = IF iterdepth' = 0 THEN {} ELSE ToSet(pending')
  <2>1. CASE iterdepth = 0
    <3>1. pending' = << >> /\ iterdepth' = 1 /\ Waiting(m) = {}
      BY <1>1, <1>2, <2>1
    <3>. QED BY <1>5, <3>1
  <2>2. CASE iterdepth # 0
    <3>1. pending' = pending /\ iterdepth' # 0 /\ Waiting(m) = ToSet(pending)
      BY <1>1, <1>2, <2>2
    <3>. QED BY <1>1, <3>1
  <2>. QED BY <2>1, <2>2
<1>7. iterdepth' \in Nat /\ Len(frames') <= iterdepth'
  BY <1>1, <1>2, <1>3, <1>4
<1>8. Changes(m, m)
  BY DEF Changes
<1>9. Then(m, m)
  BY <1>1, <1>2, <1>3, <1>6, <1>7, <1>8 DEF Then, State
<1>. QED BY <1>9

(* u_map_each begins with all keys in order.                               *)
LEMMA EachBeginKeeps ==
  ASSUME NEW m, Now(m), EachBegin
  PROVE  \E x : Then(m, x)
<1> DEFINE f == Frame("each", InOrder[root])
           g == Meets(root, "each")
<1>1. Holds(root, m)
  BY DEF Now, State
<1>2. PICK s : s = InOrder[root]
  OBVIOUS
<1>3. s \in Seq(Keys) /\ Distinct(s) /\ ToSet(s) = KeysOf(m)
  BY <1>1, <1>2, InOrderHolds DEF Ordered
<1>4. f \in Frames /\ f.kind = "each" /\ f.todo = s /\ f.seen = << >>
  BY <1>2, <1>3 DEF Frame, Frames
<1> HIDE DEF f
<1>5. g = [k \in Keys |-> {k}]
  BY DEF Meets
<1>6. Apart(g, s) /\ Span(g, s) = ToSet(s)
  BY <1>3, <1>5, DistinctApart
<1>7. ToSet(<< >>) = {} /\ Len(<< >>) = 0 /\ Cardinality({}) = 0
  BY FS_EmptySet DEF ToSet
<1> HIDE DEF g
<1>8. Covers(g, KeysOf(m), s, << >>)
  BY <1>3, <1>6, <1>7 DEF Covers
<1>9. FrameOK(root, KeysOf(m), f) /\ Begin(f)
  BY <1>4, <1>8 DEF FrameOK, g, f, EachBegin
<1>. QED BY <1>4, <1>9, BeginKeeps

(* U_MAP_EACH begins with the root, which has all keys below it.           *)
LEMMA IterBeginKeeps ==
  ASSUME NEW m, Now(m), IterBegin
  PROVE  \E x : Then(m, x)
<1> DEFINE f == Frame("iter", Queued(<< >>, root))
           g == Meets(root, "iter")
<1>1. Holds(root, m) /\ m \in Maps
  BY HoldsType DEF Now, State
<1>2. PICK s : s = Queued(<< >>, root)
  OBVIOUS
<1>3. ToSet(<< >>) = {} /\ Len(<< >>) = 0 /\ Cardinality({}) = 0
  BY FS_EmptySet DEF ToSet
<1>4. s \in Seq(Keys) /\ Covers(g, KeysOf(m), s, << >>)
  <2>1. CASE IsNil(root)
    <3>1. m = NoKeys
      BY <1>1, <2>1, HoldsParts
    <3>2. s = << >> /\ KeysOf(m) = {}
      BY <1>2, <2>1, <3>1, NoKeysType DEF Queued
    <3>3. Apart(g, << >>) /\ Span(g, << >>) = {} /\ << >> \in Seq(Keys)
      BY DEF Apart, Span
    <3> HIDE DEF g
    <3>. QED BY <1>3, <3>2, <3>3 DEF Covers
  <2>2. CASE ~IsNil(root)
    <3> DEFINE k == root.key
    <3>1. root \in Tree /\ k \in Keys
      <4>1. root \in Tree
        BY <1>1, HoldsType
      <4>. QED BY <2>2, <4>1, TreeForm, NodeForm
    <3>2. Fetch(root, k) = root
      BY <3>1, FetchDef
    <3>3. k \in KeysOf(m)
      BY <1>1, <2>2, <3>1, <3>2, LookupIs DEF KeysOf
    <3>4. g[k] = KeysOf(m)
      <4>1. ToSet(InOrder[root]) = KeysOf(m)
        BY <1>1, InOrderHolds DEF Ordered
      <4>. QED BY <3>1, <3>2, <4>1 DEF Meets, Below
    <3>5. s = << k >>
      BY <1>2, <2>2 DEF Queued
    <3> HIDE DEF g, k
    <3>6. s \in Seq(Keys) /\ ToSet(s) \subseteq KeysOf(m) /\ Apart(g, s) /\ Span(g, s) = KeysOf(m)
      BY <3>1, <3>3, <3>4, <3>5 DEF ToSet, Apart, Span
    <3>. QED BY <1>3, <3>6 DEF Covers
  <2>. QED BY <2>1, <2>2
<1>5. f \in Frames /\ f.kind = "iter" /\ f.todo = s /\ f.seen = << >>
  BY <1>2, <1>4 DEF Frame, Frames
<1> HIDE DEF f
<1>6. FrameOK(root, KeysOf(m), f) /\ Begin(f)
  BY <1>4, <1>5 DEF FrameOK, f, IterBegin
<1>. QED BY <1>5, <1>6, BeginKeeps

(* The end of a loop: the outermost removes what waited.                   *)
LEMMA EndKeeps ==
  ASSUME NEW m, Now(m), frames # << >>, End
  PROVE  \E x : Then(m, x)
<1>1. /\ Holds(root, m) /\ Held = Cardinality(Shown(m)) /\ Typed /\ iterdepth \in Nat
      /\ pending \in Seq(Keys) /\ Waiting(m) = IF iterdepth = 0 THEN {} ELSE ToSet(pending)
      /\ FramesOK(root, KeysOf(m), frames) /\ Len(frames) <= iterdepth
  BY DEF Now, State
<1>2. /\ iterdepth' = iterdepth - 1 /\ frames' = Tail(frames)
      /\ Held' = Held /\ Typed'
  BY <1>1 DEF End, Held, Typed
<1>3. /\ FramesOK(root, KeysOf(m), frames') /\ Len(frames) \in Nat \ {0}
      /\ Len(frames') = Len(frames) - 1
  BY <1>1, <1>2, PopFrame
<1>4. iterdepth' \in Nat /\ Len(frames') <= iterdepth'
  BY <1>1, <1>2, <1>3
<1>5. CASE iterdepth = 1
  <2>1. root' = DeletePending /\ pending' = << >>
    BY <1>5 DEF End
  <2>2. PICK x : Holds(DeletePending, x) /\ Wiped(m, pending, Len(pending), x)
    BY <1>1, DeletePendingHolds
  <2>3. Waiting(m) = ToSet(pending) /\ DOMAIN pending = 1..Len(pending)
    BY <1>1, <1>5
  <2>4. \A k \in Keys : x[k] = IF k \in Waiting(m) THEN {} ELSE m[k]
    BY <2>2, <2>3 DEF Wiped, ToSet
  <2>5. Shown(x) = Shown(m) /\ Waiting(x) = {} /\ \A k \in Shown(m) : x[k] = m[k]
    BY <2>4 DEF Shown, Waiting
  <2>6. FramesOK(root', KeysOf(x), frames')
    <3>1. Len(frames') <= 0
      BY <1>2, <1>4, <1>5
    <3>. QED BY <1>3, <3>1, NoFrames
  <2>7. Changes(m, x)
    BY <2>5 DEF Changes
  <2>8. Then(m, x)
    BY <1>1, <1>2, <1>4, <1>5, <2>1, <2>2, <2>5, <2>6, <2>7 DEF Then, State
  <2>. QED BY <2>8
<1>6. CASE iterdepth # 1
  <2>1. root' = root /\ pending' = pending
    BY <1>6 DEF End
  <2>2. iterdepth # 0 /\ iterdepth' # 0
    BY <1>1, <1>2, <1>3, <1>6
  <2>3. Changes(m, m)
    BY DEF Changes
  <2>4. Then(m, m)
    BY <1>1, <1>2, <1>3, <1>4, <2>1, <2>2, <2>3 DEF Then, State
  <2>. QED BY <2>4
<1>. QED BY <1>5, <1>6

(* A break: the frame goes, the depth stays.                               *)
LEMMA BreakKeeps ==
  ASSUME NEW m, Now(m), IterBreak
  PROVE  \E x : Then(m, x)
<1>1. FramesOK(root, KeysOf(m), frames) /\ Len(frames) <= iterdepth /\ iterdepth \in Nat
  BY DEF Now, State
<1>2. /\ frames # << >> /\ frames' = Tail(frames) /\ root' = root
      /\ iterdepth' = iterdepth /\ pending' = pending /\ Held' = Held /\ Typed'
  BY DEF IterBreak, Running, Now, Held, Typed
<1>3. /\ FramesOK(root, KeysOf(m), frames') /\ Len(frames) \in Nat \ {0}
      /\ Len(frames') = Len(frames) - 1
  BY <1>1, <1>2, PopFrame
<1>4. Len(frames') <= iterdepth'
  BY <1>1, <1>2, <1>3
<1>5. Then(m, m)
  BY <1>2, <1>3, <1>4 DEF Then, State, Changes, Now
<1>. QED BY <1>5

(* A step of the innermost loop that puts in q what it has yet to meet.    *)
LEMMA VisitKeeps ==
  ASSUME NEW m, Now(m), frames # << >>, frames[1].todo # << >>, NEW q \in Seq(Keys),
         ToSet(q) \subseteq KeysOf(m), Apart(Meets(root, frames[1].kind), q),
         LET g == Meets(root, frames[1].kind)
             a == Head(frames[1].todo)
         IN  g[a] = {a} \cup Span(g, q) /\ a \notin Span(g, q),
         Visit(Tail(frames[1].todo) \o q)
  PROVE  \E x : Then(m, x)
<1>1. FramesOK(root, KeysOf(m), frames) /\ Len(frames) <= iterdepth
  BY DEF Now, State
<1>2. PICK f : f = frames[1]
  OBVIOUS
<1>3. PICK g : g = Meets(root, f.kind)
  OBVIOUS
<1> DEFINE u == Tail(f.todo) \o q
           v == Append(f.seen, Head(f.todo))
<1>4. f \in Frames /\ FrameOK(root, KeysOf(m), f)
  BY <1>1, <1>2, TopFrame
<1>5. f.todo \in Seq(Keys) /\ f.seen \in Seq(Keys) /\ Covers(g, KeysOf(m), f.todo, f.seen)
  BY <1>3, <1>4 DEF FrameOK, Frames
<1>6. u \in Seq(Keys) /\ v \in Seq(Keys) /\ Covers(g, KeysOf(m), u, v)
  <2>1. KeysOf(m) \in SUBSET Keys
    BY DEF KeysOf
  <2>. QED BY <1>2, <1>3, <1>5, <2>1, VisitCovers
<1>7. frames' = Going(frames, u, v)
  <2>1. frames' = [frames EXCEPT ![1].todo = u, ![1].seen = Append(@, Head(f.todo))]
    BY <1>2 DEF Visit
  <2>2. frames \in Seq(Frames) /\ 1 \in DOMAIN frames
    BY <1>1 DEF FramesOK
  <2> HIDE DEF u
  <2>. QED BY <1>2, <1>4, <2>1, <2>2 DEF Frames, Going
<1> HIDE DEF u, v
<1>8. FramesOK(root, KeysOf(m), frames') /\ Len(frames') = Len(frames)
  <2>1. Covers(Meets(root, frames[1].kind), KeysOf(m), u, v)
    BY <1>2, <1>3, <1>6
  <2>. QED BY <1>1, <1>6, <1>7, <2>1, TopFrame
<1>9. /\ root' = root /\ iterdepth' = iterdepth /\ pending' = pending
      /\ Held' = Held /\ Typed'
  BY DEF Visit, Now, Held, Typed
<1>10. Then(m, m)
  BY <1>1, <1>8, <1>9 DEF Then, State, Changes, Now
<1>. QED BY <1>10

(* u_map_each goes on with the next key.                                   *)
LEMMA EachVisitKeeps ==
  ASSUME NEW m, Now(m), EachVisit
  PROVE  \E x : Then(m, x)
<1>1. /\ frames # << >> /\ frames[1].kind = "each" /\ frames[1].todo # << >>
      /\ Visit(Tail(frames[1].todo))
  BY DEF EachVisit, Running
<1>2. FramesOK(root, KeysOf(m), frames)
  BY DEF Now, State
<1>3. PICK f : f = frames[1]
  OBVIOUS
<1>4. f \in Frames /\ f.todo \in Seq(Keys)
  BY <1>1, <1>2, <1>3, TopFrame DEF Frames
<1> DEFINE g == Meets(root, "each")
           a == Head(f.todo)
<1>5. a \in Keys /\ Tail(f.todo) \in Seq(Keys)
  BY <1>1, <1>3, <1>4
<1>6. g[a] = {a}
  BY <1>5 DEF Meets
<1> HIDE DEF g
<1>7. /\ << >> \in Seq(Keys) /\ ToSet(<< >>) \subseteq KeysOf(m) /\ Apart(g, << >>)
      /\ Span(g, << >>) = {} /\ Tail(f.todo) \o << >> = Tail(f.todo)
  BY <1>5 DEF ToSet, Apart, Span
<1>8. g[a] = {a} \cup Span(g, << >>) /\ a \notin Span(g, << >>)
  BY <1>6, <1>7
<1>. QED BY <1>1, <1>3, <1>7, <1>8, VisitKeeps DEF g

(* U_MAP_EACH goes on with the node at the head of its queue.              *)
LEMMA IterVisitKeeps ==
  ASSUME NEW m, Now(m), IterVisit
  PROVE  \E x : Then(m, x)
<1>1. /\ frames # << >> /\ frames[1].kind = "iter" /\ frames[1].todo # << >>
  BY DEF IterVisit, Running
<1>2. FramesOK(root, KeysOf(m), frames) /\ Holds(root, m)
  BY DEF Now, State
<1>3. PICK f : f = frames[1]
  OBVIOUS
<1>4. f.todo \in Seq(Keys) /\ ToSet(f.todo) \subseteq KeysOf(m)
  BY <1>1, <1>2, <1>3, TopFrame DEF Frames, FrameOK, Covers
<1> DEFINE g == Meets(root, "iter")
           a == Head(f.todo)
           s == Tail(f.todo)
           n == Fetch(root, a)
<1>5. a \in KeysOf(m) /\ s \in Seq(Keys)
  <2>1. f.todo # << >> /\ a = f.todo[1] /\ 1 \in DOMAIN f.todo
    BY <1>1, <1>3, <1>4
  <2>. QED BY <1>4, <2>1 DEF ToSet
<1>6. Visit(Queued(Queued(s, n.child[LEFT]), n.child[RIGHT]))
  BY <1>3 DEF IterVisit
<1> HIDE DEF a, s
<1>7. PICK q \in Seq(Keys) :
        /\ Queued(Queued(s, n.child[LEFT]), n.child[RIGHT]) = s \o q
        /\ ToSet(q) \subseteq KeysOf(m) /\ Apart(g, q)
        /\ g[a] = {a} \cup Span(g, q) /\ a \notin Span(g, q)
  BY <1>2, <1>5, QueuedChildren
<1>. QED BY <1>1, <1>3, <1>6, <1>7, VisitKeeps DEF a, s

(***************************************************************************)
(* Part 5: the theorems.                                                   *)
(***************************************************************************)
IInv == \E m : Now(m)

(* Every step keeps it, and changes the data of one key at most.           *)
LEMMA NextKeeps ==
  ASSUME NEW m, Now(m), Next
  PROVE  \E x : Then(m, x)
<1>1. CASE Operate
  <2>1. CASE \E k \in Keys, d \in Data : Set(k, d)
    BY <2>1, SetKeeps
  <2>2. CASE \E k \in Keys : Del(k)
    BY <2>2, DelKeeps
  <2>3. CASE Free
    BY <2>3, FreeKeeps
  <2>. QED BY <1>1, <2>1, <2>2, <2>3 DEF Operate
<1>2. CASE Loop
  <2>1. CASE EachBegin
    BY <2>1, EachBeginKeeps
  <2>2. CASE EachVisit
    BY <2>2, EachVisitKeeps
  <2>3. CASE EachEnd \/ IterEnd
    BY <2>3, EndKeeps DEF EachEnd, IterEnd, Running
  <2>4. CASE IterBegin
    BY <2>4, IterBeginKeeps
  <2>5. CASE IterVisit
    BY <2>5, IterVisitKeeps
  <2>6. CASE IterBreak
    BY <2>6, BreakKeeps
  <2>. QED BY <1>2, <2>1, <2>2, <2>3, <2>4, <2>5, <2>6 DEF Loop
<1>. QED BY <1>1, <1>2 DEF Next

(* With near keys (KeysNear) the tree holds a map: its order, levels and   *)
(* rotations never lose or duplicate a key, the size counts the data less  *)
(* the deletions made twice, deletions that wait are those of the list,    *)
(* and every loop that runs has each key seen or ahead.                    *)
THEOREM Invariant == Spec => []IInv
<1>1. Init => IInv
  <2> SUFFICES ASSUME Init PROVE Now(NoKeys)
    BY DEF IInv
  <2>1. Holds(Nil, NoKeys) /\ Shown(NoKeys) = {} /\ Waiting(NoKeys) = {}
    BY HoldsNil DEF Shown, Waiting, NoKeys
  <2>2. Cardinality({}) = 0
    BY FS_EmptySet
  <2>3. \A t, K : FramesOK(t, K, << >>)
    BY DEF FramesOK
  <2>. QED BY <2>1, <2>2, <2>3 DEF Init, Now, State, Held, Typed
<1>2. IInv /\ [Next]_vars => IInv'
  <2> SUFFICES ASSUME NEW m, Now(m), [Next]_vars PROVE IInv'
    BY DEF IInv
  <2>1. CASE Next
    <3>1. PICK x : Then(m, x)
      BY <2>1, NextKeeps
    <3>. QED BY <3>1 DEF Then, IInv, Now
  <2>2. CASE UNCHANGED vars
    BY <2>2 DEF vars, IInv, Now, Held, Typed
  <2>. QED BY <2>1, <2>2
<1>. QED BY <1>1, <1>2, PTL DEF Spec

(* The keys in the tree and those with data are those of the map it holds. *)
LEMMA KeysInTree ==
  ASSUME NEW m, Holds(root, m)
  PROVE  InTree = KeysOf(m) /\ LiveKeys = Shown(m)
<1>1. InTree = KeysOf(m)
  BY InOrderHolds DEF InTree, Ordered
<1>2. \A k \in Keys : k \in Shown(m) <=> Lookup(root, k) # None
  BY LookupIs
<1>3. LiveKeys = Shown(m)
  BY <1>2 DEF LiveKeys, Shown
<1>. QED BY <1>1, <1>3

(* A loop over a map of any size, with any deletions from its body and any *)
(* loops inside it, visits every key that was there at its beginning once. *)
THEOREM VisitsRight == Spec => []VisitsAllOnce
<1>1. IInv => VisitsAllOnce
  <2> SUFFICES ASSUME NEW m, Now(m), NEW i \in DOMAIN frames
               PROVE  LET f == frames[i]
                          seen == ToSet(f.seen)
                          rest == ToVisit(f)
                      IN  /\ Cardinality(seen) = Len(f.seen)
                          /\ seen \cap rest = {} /\ seen \cup rest = InTree
    BY DEF IInv, VisitsAllOnce
  <2>1. PICK f : f = frames[i]
    OBVIOUS
  <2>2. FramesOK(root, KeysOf(m), frames) /\ Holds(root, m)
    BY DEF Now, State
  <2>3. f \in Frames /\ Covers(Meets(root, f.kind), KeysOf(m), f.todo, f.seen)
    BY <2>1, <2>2 DEF FramesOK, FrameOK
  <2>4. InTree = KeysOf(m)
    BY <2>2, KeysInTree
  <2> DEFINE g == Meets(root, f.kind)
             s == f.todo
  <2>5. s \in Seq(Keys) /\ f.kind \in {"each", "iter"} /\ \A j \in DOMAIN s : s[j] \in Keys
    BY <2>3 DEF Frames
  <2>6. ToVisit(f) = Span(g, s)
    <3>1. CASE f.kind = "each"
      <4>1. \A j \in DOMAIN s : g[s[j]] = {s[j]}
        BY <2>5, <3>1 DEF Meets
      <4>2. ToVisit(f) = ToSet(s)
        BY <3>1 DEF ToVisit
      <4> HIDE DEF g, s
      <4>. QED BY <4>1, <4>2 DEF ToSet, Span
    <3>2. CASE f.kind # "each"
      <4>1. \A j \in DOMAIN s : g[s[j]] = Below(root, s[j])
        BY <2>5, <3>2 DEF Meets
      <4>2. ToVisit(f) = UNION {Below(root, k) : k \in ToSet(s)}
        BY <3>2 DEF ToVisit, Below
      <4> HIDE DEF g, s
      <4>3. ToSet(s) = {s[j] : j \in DOMAIN s}
        BY DEF ToSet
      <4>. QED BY <4>1, <4>2, <4>3 DEF Span
    <3>. QED BY <3>1, <3>2
  <2> HIDE DEF g, s
  <2>. QED BY <2>1, <2>3, <2>4, <2>6 DEF Covers, g, s
<1>. QED BY <1>1, Invariant, PTL

(* A deleted key is in the tree only while a loop runs, or was left early, *)
(* and the end of the outermost one will remove it.                        *)
THEOREM DeletionsRight == Spec => []DeletionsWait
<1>1. IInv => DeletionsWait
  <2> SUFFICES ASSUME NEW m, Now(m) PROVE DeletionsWait
    BY DEF IInv
  <2>1. Holds(root, m) /\ Waiting(m) = IF iterdepth = 0 THEN {} ELSE ToSet(pending)
    BY DEF Now, State
  <2>2. InTree = KeysOf(m) /\ LiveKeys = Shown(m)
    BY <2>1, KeysInTree
  <2>3. KeysOf(m) \ Shown(m) = Waiting(m)
    BY <2>1, Kinds
  <2>. QED BY <2>1, <2>2, <2>3 DEF DeletionsWait
<1>. QED BY <1>1, Invariant, PTL

(* What a lookup returns is what the map has, so data that does not change *)
(* in the map does not for a caller.                                       *)
LEMMA SameLookup ==
  ASSUME NEW t, NEW m, NEW u, NEW x, Holds(t, m), Holds(u, x), NEW k \in Keys,
         k \in Shown(m) \/ k \in Shown(x) => m[k] = x[k]
  PROVE  Lookup(t, k) = Lookup(u, k)
<1>1. (k \in Shown(m) <=> Lookup(t, k) # None) /\ (k \in Shown(m) => m[k] = {Lookup(t, k)})
  BY LookupIs
<1>2. (k \in Shown(x) <=> Lookup(u, k) # None) /\ (k \in Shown(x) => x[k] = {Lookup(u, k)})
  BY LookupIs
<1>3. CASE k \in Shown(m) \/ k \in Shown(x)
  <2>1. m[k] = x[k] /\ k \in Shown(m) /\ k \in Shown(x)
    BY <1>3 DEF Shown
  <2>. QED BY <1>1, <1>2, <2>1
<1>4. CASE k \notin Shown(m) /\ k \notin Shown(x)
  BY <1>1, <1>2, <1>4
<1>. QED BY <1>3, <1>4

(* With near keys (KeysNear) the map is a dictionary: every operation      *)
(* changes one key, or empties it, loops and the deletions they delay      *)
(* change nothing, and the size is the number of keys with data, less the  *)
(* deletions of keys that were deleted already.                            *)
THEOREM MapRefines == Spec => ImplementsMap
<1> DEFINE dict == [k \in Keys |-> Lookup(root, k)]
<1>1. Init => Abstract!DictInit
  <2> SUFFICES ASSUME Init PROVE Abstract!DictInit
    OBVIOUS
  <2>1. ASSUME NEW k \in Keys PROVE Lookup(root, k) = None
    <3>1. Holds(root, NoKeys) /\ k \notin Shown(NoKeys)
      BY HoldsNil DEF Init, Shown, NoKeys
    <3>. QED BY <3>1, LookupIs
  <2>. QED BY <2>1 DEF Init, Abstract!DictInit, Abstract!Empty
<1>2. IInv /\ [Next]_vars => [Abstract!DictNext]_<<dict, size + twice>>
  <2> SUFFICES ASSUME NEW m, Now(m), [Next]_vars
               PROVE  [Abstract!DictNext]_<<dict, size + twice>>
    BY DEF IInv
  <2>1. CASE UNCHANGED vars
    BY <2>1 DEF vars
  <2>2. CASE Next
    <3>1. PICK x : Then(m, x)
      BY <2>2, NextKeeps
    <3>2. /\ Holds(root, m) /\ Holds(root', x)
          /\ size + twice = Cardinality(Shown(m))
          /\ (size + twice)' = Cardinality(Shown(x)) /\ Changes(m, x)
      BY <3>1 DEF Now, Then, State, Held
    <3>3. PICK t : t = root
      OBVIOUS
    <3>4. PICK u : u = root'
      OBVIOUS
    <3> DEFINE old == [k \in Keys |-> Lookup(t, k)]
               new == [k \in Keys |-> Lookup(u, k)]
    <3>5. dict = old /\ dict' = new
      BY <3>3, <3>4
    <3>6. Holds(t, m) /\ Holds(u, x)
      BY <3>2, <3>3, <3>4
    <3>7. \A k \in Keys : (k \in Shown(m) \/ k \in Shown(x) => m[k] = x[k]) => old[k] = new[k]
      BY <3>6, SameLookup
    <3>8. Shown(x) = {k \in Keys : new[k] # None}
      <4>1. \A k \in Keys : k \in Shown(x) <=> new[k] # None
        BY <3>6, LookupIs
      <4>. QED BY <4>1 DEF Shown
    <3> DEFINE shown == {k \in Keys : (dict')[k] # None}
    <3>9. (size + twice)' = Abstract!Cardinality(shown)
      <4>1. Shown(x) = shown
        BY <3>5, <3>8
      <4> HIDE DEF dict, shown
      <4>2. (size + twice)' = Cardinality(shown)
        BY <3>2, <4>1
      <4>. QED BY <4>2 DEF Cardinality, Abstract!Cardinality
    <3>10. CASE Shown(x) = {}
      <4>1. dict' = Abstract!Empty
        BY <3>5, <3>8, <3>10 DEF Abstract!Empty
      <4>. QED BY <3>9, <4>1 DEF Abstract!DictNext, Abstract!Live
    <3>11. CASE \E k \in Keys : \A j \in Keys \ {k} : x[j] = m[j]
      <4>1. \E k \in Keys : \A j \in Keys \ {k} : (dict')[j] = dict[j]
        BY <3>5, <3>7, <3>11
      <4>. QED BY <3>9, <4>1 DEF Abstract!DictNext, Abstract!Live
    <3>12. CASE Shown(x) = Shown(m) /\ \A k \in Shown(m) : x[k] = m[k]
      <4>1. \A k \in Keys : old[k] = new[k]
        BY <3>7, <3>12
      <4>2. dict' = dict
        BY <3>5, <4>1
      <4>3. (size + twice)' = size + twice
        BY <3>2, <3>12
      <4>. QED BY <4>2, <4>3
    <3>. QED BY <3>2, <3>10, <3>11, <3>12 DEF Changes
  <2>. QED BY <2>1, <2>2
<1>. QED BY <1>1, <1>2, Invariant, PTL DEF Spec, ImplementsMap, Abstract!DictSpec
=============================================================================
