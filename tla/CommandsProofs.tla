--------------------------- MODULE CommandsProofs ---------------------------
(***************************************************************************)
(* Proofs about the registry of commands: the linked lists stay whole,     *)
(* whatever modules and commands there are and however they share names;   *)
(* and no repeat aborts.                                                   *)
(***************************************************************************)
EXTENDS Commands, WellFoundedInduction, FiniteSetTheorems, SequenceTheorems, TLAPS

(***************************************************************************)
(* Induction and recursion in a form the provers can apply: about sets and *)
(* functions, not about operators.                                         *)
(***************************************************************************)
(* What holds at 0 and at i when it does at i - 1 holds up to a bound.      *)
LEMMA IndexInduction ==
  ASSUME NEW b \in Nat, NEW S, 0 \in S, \A i \in 1..b : i - 1 \in S => i \in S
  PROVE  0..b \subseteq S
<1> DEFINE T == 0..b \ S
           R == {ss \in Nat \X Nat : ss[1] < ss[2]}
<1>. SUFFICES ASSUME T # {} PROVE FALSE
  OBVIOUS
<1>1. IsWellFoundedOn(R, Nat)
  BY NatLessThanWellFounded DEF OpToRel
<1>2. PICK x \in T : \A y \in T : ~(<<y, x>> \in R)
  <2>1. T \subseteq Nat
    OBVIOUS
  <2> HIDE DEF R, T
  <2>. QED BY <1>1, <2>1, WFMin
<1>3. x \in 1..b /\ x - 1 \in 0..b /\ <<x - 1, x>> \in R
  OBVIOUS
<1>. QED BY <1>2, <1>3

(* b steps from x, of which the i-th applies the function G[i]: the values  *)
(* along the way are those of a recursive function, and in the set S.      *)
LEMMA StepsExist ==
  ASSUME NEW S, NEW x \in S, NEW b \in Nat, NEW G \in [1..b -> [S -> S]]
  PROVE  \E f \in [0..b -> S] : f[0] = x /\ \A i \in 1..b : f[i] = G[i][f[i - 1]]
<1> DEFINE Good(n, f) == /\ f \in [0..n -> S] /\ f[0] = x
                         /\ \A i \in 1..n : f[i] = G[i][f[i - 1]]
           T == {n \in 0..b : \E f : Good(n, f)}
<1>1. 0 \in T
  <2>1. Good(0, [i \in 0..0 |-> x])
    OBVIOUS
  <2> HIDE DEF Good
  <2>. QED BY <2>1
<1>2. ASSUME NEW n \in 1..b, n - 1 \in T PROVE n \in T
  <2>1. PICK f : Good(n - 1, f)
    BY <1>2
  <2> DEFINE g == [i \in 0..n |-> IF i = n THEN G[n][f[n - 1]] ELSE f[i]]
  <2>2. Good(n, g)
    BY <2>1
  <2> HIDE DEF Good, g
  <2>. QED BY <2>2
<1>3. b \in T
  <2> HIDE DEF T
  <2>1. 0..b \subseteq T
    BY <1>1, <1>2, IndexInduction
  <2>. QED BY <2>1
<1>. QED BY <1>3

(* What holds at 0 and at n + 1 when it does at n holds of every number.    *)
LEMMA SetInduction ==
  ASSUME NEW S, 0 \in S, \A n \in Nat : n \in S => n + 1 \in S
  PROVE  Nat \subseteq S
<1>. SUFFICES ASSUME NEW k \in Nat PROVE k \in S
  OBVIOUS
<1>1. \A i \in 1..k : i - 1 \in S => i \in S
  <2> SUFFICES ASSUME NEW i \in 1..k, i - 1 \in S PROVE i \in S
    OBVIOUS
  <2>1. i - 1 \in Nat /\ i - 1 + 1 = i
    OBVIOUS
  <2>. QED BY <2>1
<1>2. 0..k \subseteq S
  BY <1>1, IndexInduction
<1>. QED BY <1>2


CmdType == [next : Cmds \cup {None}, prev : Cmds \cup {None},
            owner : Modules \cup {None}, loaded : BOOLEAN]
RegType == [head : [Names -> Cmds \cup {None}], cmd : [Cmds -> CmdType]]

\* The commands "on" are those on the lists, and the pointers of these agree.
Pointers(r, on) ==
    /\ r \in RegType /\ on \subseteq Cmds
    /\ \A c \in on : r.cmd[c].next # None =>
           /\ r.cmd[c].next \in on /\ r.cmd[r.cmd[c].next].prev = c
           /\ Info[r.cmd[c].next].name = Info[c].name
    /\ \A c \in on :
           IF r.cmd[c].prev = None THEN r.head[Info[c].name] = c
           ELSE r.cmd[c].prev \in on /\ r.cmd[r.cmd[c].prev].next = c
    /\ \A n \in Names : r.head[n] # None =>
           r.head[n] \in on /\ Info[r.head[n]].name = n /\ r.cmd[r.head[n]].prev = None
    /\ \A c, d \in on : c # d /\ Info[c].name = Info[d].name
                            => Info[c].mask \cap Info[d].mask = {}

\* No list is a circle: "next" leads down in rank.
Ranked(r, rank) ==
    /\ rank \in [Cmds -> Nat] /\ \E N \in Nat : \A c \in Cmds : rank[c] <= N
    /\ \A c \in Cmds : r.cmd[c].next # None => rank[r.cmd[c].next] < rank[c]

-----------------------------------------------------------------------------
(* Lists.                                                                  *)

(* None is no command, and every command has a name.                       *)
LEMMA NoneApart ==
  /\ None \notin Cmds /\ None \notin Modules /\ None \notin Names
  /\ \A c \in Cmds : Info[c].name \in Names
BY CommandsAssumption DEF Names

(* The fields of a registry                                                *)
LEMMA RegFields ==
  ASSUME NEW r \in RegType
  PROVE  /\ r.head \in [Names -> Cmds \cup {None}] /\ r.cmd \in [Cmds -> CmdType]
         /\ \A c \in Cmds : /\ r.cmd[c].next \in Cmds \cup {None}
                            /\ r.cmd[c].prev \in Cmds \cup {None}
                            /\ r.cmd[c].owner \in Modules \cup {None}
                            /\ r.cmd[c].loaded \in BOOLEAN
BY DEF RegType, CmdType

\* A registry's lists, one "next" further than g has them.
Unfold(r, g) ==
    [c \in Cmds \cup {None} |-> IF c = None THEN << >> ELSE << c >> \o g[r.cmd[c].next]]

ListMaps == [Cmds \cup {None} -> Seq(Cmds)]

(* Unfolding keeps lists lists.                                            *)
LEMMA UnfoldType ==
  ASSUME NEW r \in RegType, NEW g \in ListMaps
  PROVE  Unfold(r, g) \in ListMaps
<1>1. ASSUME NEW c \in Cmds \cup {None}
      PROVE  (IF c = None THEN << >> ELSE << c >> \o g[r.cmd[c].next]) \in Seq(Cmds)
  <2>1. CASE c = None
    BY <2>1
  <2>2. CASE c # None
    <3>1. c \in Cmds
      BY <2>2
    <3>2. r.cmd[c].next \in Cmds \cup {None}
      BY <3>1, RegFields
    <3>3. g[r.cmd[c].next] \in Seq(Cmds)
      BY <3>2 DEF ListMaps
    <3>4. << c >> \in Seq(Cmds)
      BY <3>1
    <3>5. << c >> \o g[r.cmd[c].next] \in Seq(Cmds)
      BY ONLY <3>3, <3>4
    <3>. QED BY <2>2, <3>5
  <2>. QED BY <2>1, <2>2
<1>. QED BY <1>1 DEF Unfold, ListMaps

(* Where "next" leads down in rank, unfolding comes to an end.             *)
LEMMA ListsExist ==
  ASSUME NEW r \in RegType, NEW rank, Ranked(r, rank)
  PROVE  \E F \in ListMaps : F = Unfold(r, F)
<1>1. PICK N \in Nat : \A c \in Cmds : rank[c] <= N
  BY DEF Ranked
<1>2. PICK e \in ListMaps : e[None] = << >>
  <2>1. << >> \in Seq(Cmds)
    OBVIOUS
  <2>2. [c \in Cmds \cup {None} |-> << >>] \in ListMaps
    BY <2>1 DEF ListMaps
  <2>. QED BY <2>2
<1>3. PICK step \in [ListMaps -> ListMaps] : \A g \in ListMaps : step[g] = Unfold(r, g)
  <2>1. [g \in ListMaps |-> Unfold(r, g)] \in [ListMaps -> ListMaps]
    BY UnfoldType
  <2>. QED BY <2>1
<1>4. PICK G \in [1..(N + 2) -> [ListMaps -> ListMaps]] : \A i \in 1..(N + 2) : G[i] = step
  <2>1. [i \in 1..(N + 2) |-> step] \in [1..(N + 2) -> [ListMaps -> ListMaps]]
    BY <1>3
  <2>. QED BY <2>1
<1>5. PICK f \in [0..(N + 2) -> ListMaps] :
        f[0] = e /\ \A i \in 1..(N + 2) : f[i] = G[i][f[i - 1]]
  <2>1. N + 2 \in Nat
    OBVIOUS
  <2>. QED BY ONLY <1>2, <1>4, <2>1, StepsExist
<1>6. ASSUME NEW i \in 1..(N + 2) PROVE f[i - 1] \in ListMaps /\ f[i] = Unfold(r, f[i - 1])
  <2>1. i - 1 \in 0..(N + 2)
    OBVIOUS
  <2>2. f[i - 1] \in ListMaps /\ f[i] = G[i][f[i - 1]] /\ G[i] = step
    BY <1>4, <1>5, <2>1
  <2>. QED BY <1>3, <2>2
<1>7. \A i \in 0..(N + 2) : f[i] \in ListMaps /\ f[i][None] = << >>
  <2> SUFFICES ASSUME NEW i \in 0..(N + 2) PROVE f[i][None] = << >>
    BY <1>5
  <2>1. CASE i = 0
    BY <1>2, <1>5, <2>1
  <2>2. CASE i # 0
    <3>1. f[i] = Unfold(r, f[i - 1])
      BY <1>6, <2>2
    <3>. QED BY <3>1 DEF Unfold
  <2>. QED BY <2>1, <2>2
<1> DEFINE Q == {k \in 0..(N + 1) : \A c \in Cmds : rank[c] < k => f[k][c] = f[k + 1][c]}
<1>8. 0 \in Q
  BY DEF Ranked
<1>9. ASSUME NEW k \in 1..(N + 1), k - 1 \in Q PROVE k \in Q
  <2>1. f[k] = Unfold(r, f[k - 1]) /\ f[k + 1] = Unfold(r, f[k])
    <3>1. k \in 1..(N + 2) /\ k + 1 \in 1..(N + 2) /\ k + 1 - 1 = k
      OBVIOUS
    <3>. QED BY <1>6, <3>1
  <2>2. ASSUME NEW c \in Cmds, rank[c] < k PROVE f[k][c] = f[k + 1][c]
    <3>1. PICK d \in Cmds \cup {None} : d = r.cmd[c].next
      BY RegFields
    <3>2. f[k - 1][d] = f[k][d]
      <4>1. CASE d = None
        <5>1. k - 1 \in 0..(N + 2) /\ k \in 0..(N + 2)
          OBVIOUS
        <5>. QED BY <1>7, <4>1, <5>1
      <4>2. CASE d # None
        <5>1. d \in Cmds /\ rank[d] \in Nat /\ rank[c] \in Nat /\ rank[d] < rank[c]
          BY <3>1, <4>2 DEF Ranked
        <5>2. rank[d] < k - 1 /\ k - 1 + 1 = k
          BY <2>2, <5>1
        <5>3. f[k - 1][d] = f[k - 1 + 1][d]
          BY <1>9, <5>1, <5>2
        <5>. QED BY <5>2, <5>3
      <4>. QED BY <4>1, <4>2
    <3>3. c # None
      BY NoneApart
    <3>4. f[k][c] = << c >> \o f[k - 1][d] /\ f[k + 1][c] = << c >> \o f[k][d]
      BY <2>1, <3>1, <3>3 DEF Unfold
    <3>. QED BY ONLY <3>2, <3>4
  <2>3. k \in 0..(N + 1)
    OBVIOUS
  <2>. QED BY <2>2, <2>3
<1>10. N + 1 \in Q
  <2> HIDE DEF Q
  <2>1. N + 1 \in Nat
    OBVIOUS
  <2>2. 0..(N + 1) \subseteq Q
    BY ONLY <1>8, <1>9, <2>1, IndexInduction
  <2>. QED BY <2>2
<1>11. /\ N + 1 \in 0..(N + 2) /\ N + 2 \in 0..(N + 2) /\ N + 2 \in 1..(N + 2)
       /\ N + 2 - 1 = N + 1 /\ N + 1 + 1 = N + 2
  OBVIOUS
<1>12. \A c \in Cmds : f[N + 1][c] = f[N + 2][c]
  <2>1. \A c \in Cmds : rank[c] < N + 1
    BY <1>1 DEF Ranked
  <2>. QED BY <1>10, <1>11, <2>1
<1>13. \A c \in Cmds \cup {None} : f[N + 1][c] = f[N + 2][c]
  BY <1>7, <1>11, <1>12
<1>14. f[N + 1] \in ListMaps /\ f[N + 2] \in ListMaps /\ f[N + 2] = Unfold(r, f[N + 1])
  <2>1. f[N + 2 - 1] \in ListMaps /\ f[N + 2] = Unfold(r, f[N + 2 - 1])
    BY <1>6, <1>11
  <2>. QED BY <1>7, <1>11, <2>1
<1>15. f[N + 1] = f[N + 2]
  BY <1>13, <1>14 DEF ListMaps
<1>. QED BY <1>14, <1>15

\* L is the list from c on: every command is followed by its "next", and lower
\* in rank than those before.
ListFrom(r, rank, c, L) ==
    /\ L \in Seq(Cmds)
    /\ IF c = None THEN L = << >> ELSE Len(L) > 0 /\ L[1] = c
    /\ \A i \in 1..Len(L) :
           r.cmd[L[i]].next = IF i = Len(L) THEN None ELSE L[i + 1]
    /\ \A i \in 1..Len(L) : c # None /\ rank[L[i]] <= rank[c]
    /\ \A i, j \in 1..Len(L) : i < j => rank[L[j]] < rank[L[i]]

(* A command in front of the list of its "next" makes a list.              *)
LEMMA ListGrows ==
  ASSUME NEW r \in RegType, NEW rank, Ranked(r, rank), NEW c \in Cmds, NEW M,
         ListFrom(r, rank, r.cmd[c].next, M)
  PROVE  ListFrom(r, rank, c, << c >> \o M)
<1>1. PICK d \in Cmds \cup {None} : d = r.cmd[c].next
  BY RegFields
<1>2. M \in Seq(Cmds) /\ Len(M) \in Nat
  BY DEF ListFrom
<1>3. PICK L : L = << c >> \o M
  OBVIOUS
<1>4. /\ L \in Seq(Cmds) /\ Len(L) = Len(M) + 1 /\ L[1] = c
      /\ \A i \in 1..Len(M) : L[i + 1] = M[i]
  BY <1>2, <1>3
<1>5. \A i \in 1..Len(L) : i = 1 \/ \E k \in 1..Len(M) : i = k + 1
  <2> SUFFICES ASSUME NEW i \in 1..Len(L), i # 1 PROVE i - 1 \in 1..Len(M) /\ i = i - 1 + 1
    OBVIOUS
  <2>. QED BY <1>2, <1>4
<1>6. \A k \in 1..Len(M) : rank[M[k]] \in Nat /\ rank[M[k]] < rank[c]
  <2> SUFFICES ASSUME NEW k \in 1..Len(M) PROVE rank[M[k]] \in Nat /\ rank[M[k]] < rank[c]
    OBVIOUS
  <2>1. M[k] \in Cmds
    BY <1>2
  <2>2. d # None /\ rank[M[k]] <= rank[d]
    BY <1>1 DEF ListFrom
  <2>3. rank[M[k]] \in Nat /\ rank[d] \in Nat /\ rank[c] \in Nat /\ rank[d] < rank[c]
    BY <1>1, <2>1, <2>2 DEF Ranked
  <2>. QED BY <2>2, <2>3
<1>7. c # None /\ rank[c] \in Nat
  BY NoneApart DEF Ranked
<1>8. ASSUME NEW i \in 1..Len(L)
      PROVE  r.cmd[L[i]].next = IF i = Len(L) THEN None ELSE L[i + 1]
  <2>1. CASE i = 1
    <3>1. CASE d = None
      <4>1. M = << >>
        BY <1>1, <3>1 DEF ListFrom
      <4>2. Len(L) = 1
        BY <1>4, <4>1
      <4>. QED BY <1>1, <1>4, <2>1, <3>1, <4>2
    <3>2. CASE d # None
      <4>1. Len(M) > 0 /\ M[1] = d
        BY <1>1, <3>2 DEF ListFrom
      <4>2. 1 \in 1..Len(M) /\ L[1 + 1] = M[1] /\ 1 # Len(L)
        BY <1>2, <1>4, <4>1
      <4>. QED BY <1>1, <1>4, <2>1, <4>1, <4>2
    <3>. QED BY <3>1, <3>2
  <2>2. CASE i # 1
    <3>1. PICK k \in 1..Len(M) : i = k + 1
      BY <1>5, <2>2
    <3>2. r.cmd[M[k]].next = IF k = Len(M) THEN None ELSE M[k + 1]
      BY DEF ListFrom
    <3>3. L[i] = M[k]
      BY <1>4, <3>1
    <3>4. CASE k = Len(M)
      BY <1>2, <1>4, <3>1, <3>2, <3>3, <3>4
    <3>5. CASE k # Len(M)
      <4>1. k + 1 \in 1..Len(M) /\ i # Len(L)
        BY <1>2, <1>4, <3>1, <3>5
      <4>2. L[k + 1 + 1] = M[k + 1]
        BY <1>4, <4>1
      <4>. QED BY <3>1, <3>2, <3>3, <3>5, <4>1, <4>2
    <3>. QED BY <3>4, <3>5
  <2>. QED BY <2>1, <2>2
<1>9. ASSUME NEW i \in 1..Len(L) PROVE rank[L[i]] <= rank[c]
  <2>1. CASE i = 1
    BY <1>4, <1>7, <2>1
  <2>2. CASE i # 1
    <3>1. PICK k \in 1..Len(M) : i = k + 1
      BY <1>5, <2>2
    <3>. QED BY <1>4, <1>6, <1>7, <3>1
  <2>. QED BY <2>1, <2>2
<1>10. ASSUME NEW i \in 1..Len(L), NEW j \in 1..Len(L), i < j
       PROVE  rank[L[j]] < rank[L[i]]
  <2>1. PICK l \in 1..Len(M) : j = l + 1
    <3>1. j # 1
      BY <1>10
    <3>. QED BY <1>5, <3>1
  <2>2. CASE i = 1
    BY <1>4, <1>6, <2>1, <2>2
  <2>3. CASE i # 1
    <3>1. PICK k \in 1..Len(M) : i = k + 1
      BY <1>5, <2>3
    <3>2. k < l
      BY <1>10, <2>1, <3>1
    <3>3. rank[M[l]] < rank[M[k]]
      BY <3>2 DEF ListFrom
    <3>. QED BY <1>4, <2>1, <3>1, <3>3
  <2>. QED BY <2>2, <2>3
<1>11. Len(L) > 0
  BY <1>2, <1>4
<1>12. ListFrom(r, rank, c, L)
  BY <1>4, <1>7, <1>8, <1>9, <1>10, <1>11 DEF ListFrom
<1>. QED BY <1>3, <1>12

(* What unfolds to itself has the list of every command.                   *)
LEMMA ListShape ==
  ASSUME NEW r \in RegType, NEW rank, Ranked(r, rank), NEW F, F = Unfold(r, F)
  PROVE  \A c \in Cmds \cup {None} : ListFrom(r, rank, c, F[c])
<1>1. F[None] = << >> /\ \A c \in Cmds : F[c] = << c >> \o F[r.cmd[c].next]
  <2>1. \A c \in Cmds \cup {None} :
          F[c] = IF c = None THEN << >> ELSE << c >> \o F[r.cmd[c].next]
    BY DEF Unfold
  <2>. QED BY <2>1, NoneApart
<1>2. ListFrom(r, rank, None, F[None])
  BY <1>1 DEF ListFrom
<1> DEFINE S == {k \in Nat : \A c \in Cmds : rank[c] < k => ListFrom(r, rank, c, F[c])}
<1>3. 0 \in S
  BY DEF Ranked
<1>4. ASSUME NEW k \in Nat, k \in S PROVE k + 1 \in S
  <2> SUFFICES ASSUME NEW c \in Cmds, rank[c] < k + 1 PROVE ListFrom(r, rank, c, F[c])
    OBVIOUS
  <2>1. PICK d \in Cmds \cup {None} : d = r.cmd[c].next
    BY RegFields
  <2>2. ListFrom(r, rank, d, F[d])
    <3>1. CASE d = None
      BY <1>2, <3>1
    <3>2. CASE d # None
      <4>1. d \in Cmds /\ rank[d] \in Nat /\ rank[c] \in Nat /\ rank[d] < rank[c]
        BY <2>1, <3>2 DEF Ranked
      <4>2. rank[d] < k
        BY <4>1
      <4>. QED BY <1>4, <4>1, <4>2
    <3>. QED BY <3>1, <3>2
  <2>. QED BY <1>1, <2>1, <2>2, ListGrows
<1>5. Nat \subseteq S
  <2> HIDE DEF S
  <2>. QED BY ONLY <1>3, <1>4, SetInduction
<1>6. ASSUME NEW c \in Cmds PROVE ListFrom(r, rank, c, F[c])
  <2>1. rank[c] + 1 \in Nat /\ rank[c] < rank[c] + 1
    BY DEF Ranked
  <2>. QED BY <1>5, <2>1
<1>. QED BY <1>2, <1>6

(* Chain is the list from the head on.                                     *)
LEMMA ChainShape ==
  ASSUME NEW r \in RegType, NEW rank, Ranked(r, rank), NEW n \in Names
  PROVE  ListFrom(r, rank, r.head[n], Chain(r, n))
<1> DEFINE from == CHOOSE f : f = Unfold(r, f)
<1>1. from = Unfold(r, from)
  BY ListsExist
<1>2. Chain(r, n) = from[r.head[n]]
  BY DEF Chain, Unfold
<1>3. r.head[n] \in Cmds \cup {None}
  BY RegFields
<1> HIDE DEF from
<1>. QED BY <1>1, <1>2, <1>3, ListShape

-----------------------------------------------------------------------------
(* Lists whose pointers agree.                                             *)

\* All of a registry but its owners and modules.
Lists(r, on, rank) == Pointers(r, on) /\ Ranked(r, rank)

(* The elements of a list are the commands on it of one name, once each,   *)
(* and "prev" is the way back.                                             *)
LEMMA ChainOn ==
  ASSUME NEW r, NEW on, NEW rank, Lists(r, on, rank), NEW n \in Names
  PROVE  LET ch == Chain(r, n)
         IN  /\ ch \in Seq(Cmds) /\ (ch = << >> <=> r.head[n] = None)
             /\ ch # << >> => ch[1] = r.head[n]
             /\ ToSet(ch) = {c \in on : Info[c].name = n}
             /\ \A i \in 1..Len(ch) : r.cmd[ch[i]].prev = IF i = 1 THEN None ELSE ch[i - 1]
             /\ \A i, j \in 1..Len(ch) : i < j => rank[ch[j]] < rank[ch[i]]
<1>. PICK ch : ch = Chain(r, n)
  OBVIOUS
<1>1. r \in RegType /\ on \subseteq Cmds /\ Pointers(r, on) /\ Ranked(r, rank)
  BY DEF Lists, Pointers
<1>2. PICK h \in Cmds \cup {None} : h = r.head[n]
  BY <1>1, RegFields
<1>3. ListFrom(r, rank, h, ch)
  BY <1>1, <1>2, ChainShape
<1>4. ch \in Seq(Cmds) /\ Len(ch) \in Nat /\ \A i \in 1..Len(ch) : ch[i] \in Cmds /\ ch[i] # None
  BY <1>3, NoneApart DEF ListFrom
<1>5. h = None <=> Len(ch) = 0
  BY <1>3, <1>4 DEF ListFrom
<1>6. Len(ch) > 0 => ch[1] = h /\ h # None
  BY <1>3, <1>4, <1>5 DEF ListFrom
<1>7. ASSUME NEW i \in 1..Len(ch), i # Len(ch)
      PROVE  r.cmd[ch[i]].next = ch[i + 1] /\ i + 1 \in 1..Len(ch)
  BY <1>3, <1>4, <1>7 DEF ListFrom
<1> DEFINE S == {i \in 0..Len(ch) : i # 0 => ch[i] \in on /\ Info[ch[i]].name = n}
<1>8. 0..Len(ch) \subseteq S
  <2>1. 0 \in S
    <3>1. 0 \in 0..Len(ch)
      BY ONLY Len(ch) \in Nat, <1>4
    <3>. QED BY ONLY <3>1
  <2>2. ASSUME NEW i \in 1..Len(ch), i - 1 \in S PROVE i \in S
    <3>1. CASE i = 1
      BY <1>1, <1>2, <1>6, <3>1 DEF Pointers
    <3>2. CASE i # 1
      <4>1. i - 1 \in 1..Len(ch) /\ i - 1 # Len(ch) /\ i - 1 + 1 = i
        BY <1>4, <3>2
      <4>2. r.cmd[ch[i - 1]].next = ch[i] /\ ch[i] # None
        BY <1>4, <1>7, <4>1
      <4>3. ch[i - 1] \in on /\ Info[ch[i - 1]].name = n
        BY <2>2, <4>1
      <4>4. ch[i] \in on /\ Info[ch[i]].name = n
        BY <1>1, <4>2, <4>3 DEF Pointers
      <4>. QED BY <1>4, <4>4
    <3>. QED BY <3>1, <3>2
  <2> HIDE DEF S
  <2>. QED BY ONLY <1>4, <2>1, <2>2, IndexInduction
<1>9. \A i \in 1..Len(ch) : ch[i] \in on /\ Info[ch[i]].name = n
  BY <1>4, <1>8
<1>10. ASSUME NEW i \in 1..Len(ch)
       PROVE  r.cmd[ch[i]].prev = IF i = 1 THEN None ELSE ch[i - 1]
  <2>1. CASE i = 1
    BY <1>1, <1>2, <1>6, <2>1 DEF Pointers
  <2>2. CASE i # 1
    <3>1. i - 1 \in 1..Len(ch) /\ i - 1 # Len(ch) /\ i - 1 + 1 = i
      BY <1>4, <2>2
    <3>2. r.cmd[ch[i - 1]].next = ch[i] /\ ch[i] # None /\ ch[i - 1] \in on
      BY <1>4, <1>7, <1>9, <3>1
    <3>. QED BY <1>1, <2>2, <3>2 DEF Pointers
  <2>. QED BY <2>1, <2>2
<1>11. PICK N \in Nat : \A c \in Cmds : rank[c] \in Nat /\ rank[c] <= N
  BY <1>1 DEF Ranked
<1> DEFINE T == {k \in Nat : \A c \in on : Info[c].name = n /\ rank[c] + k > N
                                            => \E i \in 1..Len(ch) : ch[i] = c}
<1>12. 0 \in T
  BY <1>1, <1>11
<1>13. ASSUME NEW k \in Nat, k \in T PROVE k + 1 \in T
  <2> SUFFICES ASSUME NEW c \in on, Info[c].name = n, rank[c] + (k + 1) > N
               PROVE  \E i \in 1..Len(ch) : ch[i] = c
    OBVIOUS
  <2>1. CASE r.cmd[c].prev = None
    <3>1. h = c
      BY <1>1, <1>2, <2>1 DEF Pointers
    <3>2. c # None
      BY <1>1, NoneApart
    <3>3. Len(ch) > 0
      BY <1>4, <1>5, <3>1, <3>2
    <3>4. 1 \in 1..Len(ch) /\ ch[1] = c
      BY <1>4, <1>6, <3>1, <3>3
    <3>. QED BY <3>4
  <2>2. CASE r.cmd[c].prev # None
    <3>1. PICK p \in on : p = r.cmd[c].prev /\ r.cmd[p].next = c
      BY <1>1, <2>2 DEF Pointers
    <3>2. c \in Cmds /\ p \in Cmds /\ c # None
      BY <1>1, <3>1, NoneApart
    <3>3. Info[p].name = n
      BY <1>1, <3>1, <3>2 DEF Pointers
    <3>4. rank[c] < rank[p]
      BY <1>1, <3>1, <3>2 DEF Ranked
    <3>5. rank[c] \in Nat /\ rank[p] \in Nat
      BY <1>11, <3>2
    <3>6. rank[p] + k > N
      BY <3>4, <3>5
    <3>7. PICK i \in 1..Len(ch) : ch[i] = p
      BY <1>13, <3>3, <3>6
    <3>8. i # Len(ch)
      BY <1>3, <3>1, <3>2, <3>7 DEF ListFrom
    <3>9. ch[i + 1] = c /\ i + 1 \in 1..Len(ch)
      BY <1>7, <3>1, <3>7, <3>8
    <3>. QED BY <3>9
  <2>. QED BY <2>1, <2>2
<1>14. Nat \subseteq T
  <2> HIDE DEF T
  <2>. QED BY ONLY <1>12, <1>13, SetInduction
<1>15. \A c \in on : Info[c].name = n => \E i \in 1..Len(ch) : ch[i] = c
  <2>1. N + 1 \in T
    BY <1>14
  <2>2. \A c \in on : rank[c] + (N + 1) > N
    BY <1>1, <1>11
  <2>. QED BY <2>1, <2>2
<1>16. ToSet(ch) = {c \in on : Info[c].name = n}
  <2>1. DOMAIN ch = 1..Len(ch)
    BY <1>4
  <2>. QED BY <1>9, <1>15, <2>1 DEF ToSet
<1>17. ch = << >> <=> Len(ch) = 0
  BY <1>4
<1>18. \A i, j \in 1..Len(ch) : i < j => rank[ch[j]] < rank[ch[i]]
  BY <1>3 DEF ListFrom
<1>. QED BY <1>2, <1>4, <1>5, <1>6, <1>10, <1>16, <1>17, <1>18

(* What is registered is what is on the lists.                             *)
LEMMA RegisteredOn ==
  ASSUME NEW r, NEW on, NEW rank, Lists(r, on, rank)
  PROVE  Registered(r) = on
<1>1. on \subseteq Cmds
  BY DEF Lists, Pointers
<1>2. \A n \in Names : ToSet(Chain(r, n)) = {c \in on : Info[c].name = n}
  BY ChainOn
<1>3. Registered(r) = UNION { {c \in on : Info[c].name = n} : n \in Names }
  BY <1>2 DEF Registered
<1>. QED BY <1>1, <1>3, NoneApart

(* The first command of a name is the highest in rank.                     *)
LEMMA HeadHighest ==
  ASSUME NEW r, NEW on, NEW rank, Lists(r, on, rank),
         NEW c \in on, r.cmd[c].prev = None, NEW d \in on, Info[d].name = Info[c].name
  PROVE  ~(rank[c] < rank[d])
<1>1. r \in RegType /\ on \subseteq Cmds /\ Pointers(r, on) /\ Ranked(r, rank)
  BY DEF Lists, Pointers
<1>2. PICK n \in Names : n = Info[c].name
  BY <1>1, NoneApart
<1>3. PICK ch : ch = Chain(r, n)
  OBVIOUS
<1>4. /\ ch \in Seq(Cmds) /\ (ch = << >> <=> r.head[n] = None)
      /\ ch # << >> => ch[1] = r.head[n]
      /\ ToSet(ch) = {x \in on : Info[x].name = n}
      /\ \A i, j \in 1..Len(ch) : i < j => rank[ch[j]] < rank[ch[i]]
  BY <1>2, <1>3, ChainOn
<1>5. r.head[n] = c /\ c # None
  BY <1>1, <1>2, NoneApart DEF Pointers
<1>6. ch[1] = c /\ Len(ch) \in Nat /\ Len(ch) > 0
  BY <1>4, <1>5
<1>7. PICK j \in 1..Len(ch) : ch[j] = d
  <2>1. d \in ToSet(ch) /\ DOMAIN ch = 1..Len(ch)
    BY <1>2, <1>4
  <2>. QED BY <2>1 DEF ToSet
<1>8. rank[c] \in Nat /\ rank[d] \in Nat
  BY <1>1 DEF Ranked
<1>9. CASE j = 1
  BY <1>6, <1>7, <1>8, <1>9
<1>10. CASE j # 1
  <2>1. 1 \in 1..Len(ch) /\ 1 < j
    BY <1>6, <1>10
  <2>2. rank[d] < rank[c]
    BY <1>4, <1>6, <1>7, <2>1
  <2>. QED BY <1>8, <2>2
<1>. QED BY <1>9, <1>10

-----------------------------------------------------------------------------
(* One command goes: u_cmd_unreg.                                          *)

(* The fields after u_cmd_unreg, where the neighbours are apart.           *)
LEMMA UnregFields ==
  ASSUME NEW r \in RegType, NEW c \in Cmds
  PROVE  LET q == UnregOne(r, c)
             nx == r.cmd[c].next
             pv == r.cmd[c].prev
         IN  /\ q \in RegType
             /\ \A n \in Names :
                    q.head[n] = IF pv = None /\ n = Info[c].name THEN nx ELSE r.head[n]
             /\ \A d \in Cmds :
                    /\ q.cmd[d].owner = r.cmd[d].owner /\ q.cmd[d].loaded = r.cmd[d].loaded
                    /\ q.cmd[d].prev = IF d = nx THEN pv ELSE r.cmd[d].prev
                    /\ d # nx \/ d # pv =>
                         q.cmd[d].next = IF d = pv THEN nx ELSE r.cmd[d].next
                    /\ d # nx /\ d # pv => q.cmd[d] = r.cmd[d]
<1>1. PICK q : q = UnregOne(r, c)
  OBVIOUS
<1>2. PICK nx \in Cmds \cup {None}, pv \in Cmds \cup {None} :
        nx = r.cmd[c].next /\ pv = r.cmd[c].prev
  BY RegFields
<1>3. Info[c].name \in Names
  BY NoneApart
<1>4. /\ r.head \in [Names -> Cmds \cup {None}] /\ r.cmd \in [Cmds -> CmdType]
      /\ \A d \in Cmds : r.cmd[d] \in CmdType
  BY RegFields
<1>5. q.head = IF pv = None THEN [r.head EXCEPT ![Info[c].name] = nx] ELSE r.head
  BY <1>1, <1>2 DEF UnregOne
<1>6. q.cmd = [d \in Cmds |-> IF d = nx THEN [r.cmd[d] EXCEPT !.prev = pv]
                              ELSE IF d = pv THEN [r.cmd[d] EXCEPT !.next = nx]
                              ELSE r.cmd[d]]
  BY <1>1, <1>2 DEF UnregOne
<1>7. q.head \in [Names -> Cmds \cup {None}]
  BY <1>2, <1>3, <1>4, <1>5
<1>8. \A n \in Names : q.head[n] = IF pv = None /\ n = Info[c].name THEN nx ELSE r.head[n]
  BY <1>3, <1>4, <1>5
<1>9. ASSUME NEW d \in Cmds
      PROVE  /\ q.cmd[d] \in CmdType
             /\ q.cmd[d].owner = r.cmd[d].owner /\ q.cmd[d].loaded = r.cmd[d].loaded
             /\ q.cmd[d].prev = IF d = nx THEN pv ELSE r.cmd[d].prev
             /\ d # nx \/ d # pv =>
                  q.cmd[d].next = IF d = pv THEN nx ELSE r.cmd[d].next
             /\ d # nx /\ d # pv => q.cmd[d] = r.cmd[d]
  <2>1. r.cmd[d] \in CmdType
    BY <1>4
  <2>2. CASE d = nx
    <3>1. q.cmd[d] = [r.cmd[d] EXCEPT !.prev = pv]
      BY <1>6, <2>2
    <3>. QED BY <1>2, <2>1, <2>2, <3>1 DEF CmdType
  <2>3. CASE d # nx /\ d = pv
    <3>1. q.cmd[d] = [r.cmd[d] EXCEPT !.next = nx]
      BY <1>6, <2>3
    <3>. QED BY <1>2, <2>1, <2>3, <3>1 DEF CmdType
  <2>4. CASE d # nx /\ d # pv
    <3>1. q.cmd[d] = r.cmd[d]
      BY <1>6, <2>4
    <3>. QED BY <2>1, <2>4, <3>1
  <2>. QED BY <2>2, <2>3, <2>4
<1>10. q \in RegType
  <2>1. q.cmd \in [Cmds -> CmdType]
    BY <1>6, <1>9
  <2>2. q = [head |-> q.head, cmd |-> q.cmd]
    BY <1>1 DEF UnregOne
  <2>. QED BY <1>7, <2>1, <2>2 DEF RegType
<1>. QED BY <1>1, <1>2, <1>8, <1>9, <1>10

(* The lists stay whole without the command, and what was off them is left *)
(* alone.                                                                  *)
LEMMA UnregOneKeeps ==
  ASSUME NEW r, NEW on, NEW rank, Lists(r, on, rank), NEW c \in on
  PROVE  LET q == UnregOne(r, c)
         IN  /\ Lists(q, on \ {c}, rank)
             /\ \A d \in Cmds : q.cmd[d].owner = r.cmd[d].owner
                                /\ q.cmd[d].loaded = r.cmd[d].loaded
             /\ \A d \in Cmds \ on : q.cmd[d] = r.cmd[d]
<1>1. r \in RegType /\ on \subseteq Cmds /\ Pointers(r, on) /\ Ranked(r, rank) /\ c \in Cmds
  BY DEF Lists, Pointers
<1>2. PICK nx \in Cmds \cup {None}, pv \in Cmds \cup {None} :
        nx = r.cmd[c].next /\ pv = r.cmd[c].prev
  BY <1>1, RegFields
<1>3. PICK q : q = UnregOne(r, c)
  OBVIOUS
<1>4. /\ q \in RegType
      /\ \A n \in Names :
             q.head[n] = IF pv = None /\ n = Info[c].name THEN nx ELSE r.head[n]
      /\ \A d \in Cmds :
             /\ q.cmd[d].owner = r.cmd[d].owner /\ q.cmd[d].loaded = r.cmd[d].loaded
             /\ q.cmd[d].prev = IF d = nx THEN pv ELSE r.cmd[d].prev
             /\ d # nx \/ d # pv =>
                  q.cmd[d].next = IF d = pv THEN nx ELSE r.cmd[d].next
             /\ d # nx /\ d # pv => q.cmd[d] = r.cmd[d]
  <2>1. r \in RegType /\ c \in Cmds
    BY <1>1
  <2>. QED BY ONLY <1>2, <1>3, <2>1, UnregFields
<1>5. \A d \in Cmds : d # None /\ rank[d] \in Nat
  BY <1>1, NoneApart DEF Ranked
<1>6. nx # None => /\ nx \in on /\ r.cmd[nx].prev = c /\ Info[nx].name = Info[c].name
                   /\ rank[nx] < rank[c]
  BY <1>1, <1>2 DEF Pointers, Ranked
<1>7. pv # None => /\ pv \in on /\ r.cmd[pv].next = c /\ Info[pv].name = Info[c].name
                   /\ rank[c] < rank[pv]
  <2>1. pv # None => pv \in on /\ r.cmd[pv].next = c
    BY <1>1, <1>2 DEF Pointers
  <2>2. pv # None => Info[pv].name = Info[c].name /\ rank[c] < rank[pv]
    BY <1>1, <1>5, <2>1 DEF Pointers, Ranked
  <2>. QED BY <2>1, <2>2
<1>8. /\ nx # c /\ pv # c
      /\ nx # None \/ pv # None => nx # pv
  BY <1>1, <1>5, <1>6, <1>7
<1>9. \A d \in Cmds : q.cmd[d].next = IF d = pv THEN nx ELSE r.cmd[d].next
  BY <1>4, <1>5, <1>8
<1>10. \A d \in Cmds : q.cmd[d].prev = IF d = nx THEN pv ELSE r.cmd[d].prev
  BY <1>4
<1>11. ASSUME NEW d \in on \ {c}, q.cmd[d].next # None
       PROVE  /\ q.cmd[d].next \in on \ {c} /\ q.cmd[q.cmd[d].next].prev = d
              /\ Info[q.cmd[d].next].name = Info[d].name
  <2>1. CASE d = pv
    <3>1. q.cmd[d].next = nx /\ nx # None
      BY <1>1, <1>9, <1>11, <2>1
    <3>. QED BY <1>1, <1>5, <1>6, <1>7, <1>8, <1>10, <2>1, <3>1
  <2>2. CASE d # pv
    <3>1. PICK e : e = r.cmd[d].next
      OBVIOUS
    <3>2. q.cmd[d].next = e /\ e # None
      BY <1>1, <1>9, <1>11, <2>2, <3>1
    <3>3. e \in on /\ r.cmd[e].prev = d /\ Info[e].name = Info[d].name
      BY <1>1, <3>1, <3>2 DEF Pointers
    <3>4. e # c
      BY <1>2, <2>2, <3>3
    <3>5. e # nx
      BY <1>6, <3>2, <3>3
    <3>. QED BY <1>1, <1>10, <3>2, <3>3, <3>4, <3>5
  <2>. QED BY <2>1, <2>2
<1>12. ASSUME NEW d \in on \ {c}
       PROVE  IF q.cmd[d].prev = None THEN q.head[Info[d].name] = d
              ELSE q.cmd[d].prev \in on \ {c} /\ q.cmd[q.cmd[d].prev].next = d
  <2>0. Info[d].name \in Names
    BY <1>1, NoneApart
  <2>1. CASE d = nx
    <3>1. q.cmd[d].prev = pv /\ nx # None
      BY <1>1, <1>5, <1>10, <2>1
    <3>2. CASE pv = None
      BY <1>4, <1>6, <2>0, <2>1, <3>1, <3>2
    <3>3. CASE pv # None
      BY <1>1, <1>7, <1>8, <1>9, <2>1, <3>1, <3>3
    <3>. QED BY <3>2, <3>3
  <2>2. CASE d # nx
    <3>1. PICK p : p = r.cmd[d].prev
      OBVIOUS
    <3>2. q.cmd[d].prev = p
      BY <1>1, <1>10, <2>2, <3>1
    <3>3. CASE p = None
      <4>1. r.head[Info[d].name] = d
        BY <1>1, <3>1, <3>3 DEF Pointers
      <4>2. ~(pv = None /\ Info[d].name = Info[c].name)
        BY <1>1, <1>2, <4>1 DEF Pointers
      <4>. QED BY <1>4, <2>0, <3>2, <3>3, <4>1, <4>2
    <3>4. CASE p # None
      <4>1. p \in on /\ r.cmd[p].next = d
        BY <1>1, <3>1, <3>4 DEF Pointers
      <4>2. p # c
        BY <1>2, <2>2, <4>1
      <4>3. p # pv
        BY <1>7, <3>4, <4>1
      <4>. QED BY <1>1, <1>9, <3>2, <3>4, <4>1, <4>2, <4>3
    <3>. QED BY <3>3, <3>4
  <2>. QED BY <2>1, <2>2
<1>13. ASSUME NEW n \in Names, q.head[n] # None
       PROVE  q.head[n] \in on \ {c} /\ Info[q.head[n]].name = n /\ q.cmd[q.head[n]].prev = None
  <2>1. CASE pv = None /\ n = Info[c].name
    <3>1. q.head[n] = nx /\ nx # None
      BY <1>4, <1>13, <2>1
    <3>. QED BY <1>1, <1>6, <1>8, <1>10, <2>1, <3>1
  <2>2. CASE ~(pv = None /\ n = Info[c].name)
    <3>1. PICK h : h = r.head[n]
      OBVIOUS
    <3>2. q.head[n] = h /\ h # None
      BY <1>4, <1>13, <2>2, <3>1
    <3>3. h \in on /\ Info[h].name = n /\ r.cmd[h].prev = None
      BY <1>1, <3>1, <3>2 DEF Pointers
    <3>4. h # c
      BY <1>2, <2>2, <3>3
    <3>5. h # nx
      BY <1>1, <1>5, <1>6, <3>2, <3>3
    <3>. QED BY <1>1, <1>10, <3>2, <3>3, <3>4, <3>5
  <2>. QED BY <2>1, <2>2
<1>14. \A d, e \in on \ {c} : d # e /\ Info[d].name = Info[e].name
                                  => Info[d].mask \cap Info[e].mask = {}
  BY <1>1 DEF Pointers
<1>15. Pointers(q, on \ {c})
  BY <1>1, <1>4, <1>11, <1>12, <1>13, <1>14 DEF Pointers
<1>16. Ranked(q, rank)
  <2>1. ASSUME NEW d \in Cmds, q.cmd[d].next # None
        PROVE  rank[q.cmd[d].next] < rank[d]
    <3>1. CASE d = pv
      <4>1. q.cmd[d].next = nx /\ nx # None /\ pv # None
        BY <1>5, <1>9, <2>1, <3>1
      <4>. QED BY <1>1, <1>5, <1>6, <1>7, <3>1, <4>1
    <3>2. CASE d # pv
      BY <1>1, <1>9, <2>1, <3>2 DEF Ranked
    <3>. QED BY <3>1, <3>2
  <2>. QED BY <1>1, <2>1 DEF Ranked
<1>17. \A d \in Cmds \ on : q.cmd[d] = r.cmd[d]
  BY <1>4, <1>5, <1>6, <1>7
<1>. QED BY <1>3, <1>4, <1>15, <1>16, <1>17 DEF Lists

-----------------------------------------------------------------------------
(* Many commands go.                                                       *)

\* q is r after the commands "off" went.
Gone(r, q, on, off, rank) ==
    /\ Lists(q, on \ off, rank)
    /\ \A d \in Cmds : q.cmd[d].owner = r.cmd[d].owner /\ q.cmd[d].loaded = r.cmd[d].loaded
    /\ \A d \in Cmds \ on : q.cmd[d] = r.cmd[d]

(* What goes in two parts goes.                                            *)
LEMMA GoneTwice ==
  ASSUME NEW r, NEW q, NEW p, NEW on, NEW off, NEW more, NEW rank,
         Gone(r, q, on, off, rank), Gone(q, p, on \ off, more, rank)
  PROVE  Gone(r, p, on, off \cup more, rank)
<1>1. (on \ off) \ more = on \ (off \cup more)
  OBVIOUS
<1>. QED BY <1>1 DEF Gone

(* A sequence of the elements of a finite set has them all, once each.     *)
LEMMA SetToSeqRight ==
  ASSUME NEW S, IsFiniteSet(S)
  PROVE  /\ SetToSeq(S) \in Seq(S) /\ ToSet(SetToSeq(S)) = S
         /\ \A i, j \in 1..Len(SetToSeq(S)) : i < j => SetToSeq(S)[i] # SetToSeq(S)[j]
<1>1. Cardinality(S) \in Nat /\ ExistsBijection(1..Cardinality(S), S)
  BY FS_CardinalityType
<1>2. PICK n \in Nat : n = Cardinality(S)
  BY <1>1
<1>3. \E f \in [1..n -> S] : IsInjective(f)
  BY <1>1, <1>2 DEF ExistsBijection, Bijection, Injection, IsInjective
<1>4. PICK f : f = SetToSeq(S)
  OBVIOUS
<1>5. f \in [1..n -> S] /\ IsInjective(f)
  BY <1>2, <1>3, <1>4 DEF SetToSeq
<1>6. f \in Seq(S) /\ Len(f) = n /\ DOMAIN f = 1..n
  BY <1>5
<1>7. f \in Injection(1..n, S)
  BY <1>5 DEF Injection, IsInjective
<1>8. Cardinality(1..n) = n
  BY FS_Interval
<1>9. f \in Surjection(1..n, S)
  BY <1>2, <1>7, <1>8, FS_Injection
<1>10. ToSet(f) = S
  BY <1>5, <1>6, <1>9 DEF ToSet, Surjection
<1>11. \A i, j \in 1..n : i < j => f[i] # f[j]
  BY <1>5, <1>6 DEF IsInjective
<1>. QED BY <1>4, <1>6, <1>10, <1>11

(* A round of the loops keeps the type.                                    *)
LEMMA UnregOwnedType ==
  ASSUME NEW r \in RegType, NEW c \in Cmds, NEW owners
  PROVE  UnregOwned(r, c, owners) \in RegType
<1>1. UnregOne(r, c) \in RegType
  BY UnregFields
<1>. QED BY <1>1 DEF UnregOwned

(* Unreg is a loop over the sequence.                                      *)
LEMMA UnregSteps ==
  ASSUME NEW r \in RegType, NEW cs, cs \in Seq(Cmds), NEW owners
  PROVE  \E f : /\ f[0] = r
                /\ \A i \in 1..Len(cs) : f[i] = UnregOwned(f[i - 1], cs[i], owners)
                /\ Unreg(r, cs, owners) = f[Len(cs)]
<1>1. PICK N \in Nat : N = Len(cs)
  OBVIOUS
<1>2. \A i \in 1..N : cs[i] \in Cmds
  BY <1>1
<1>3. PICK G \in [1..N -> [RegType -> RegType]] :
        \A i \in 1..N : \A q \in RegType : G[i][q] = UnregOwned(q, cs[i], owners)
  <2>1. \A i \in 1..N : [q \in RegType |-> UnregOwned(q, cs[i], owners)] \in [RegType -> RegType]
    BY <1>2, UnregOwnedType
  <2>2. [i \in 1..N |-> [q \in RegType |-> UnregOwned(q, cs[i], owners)]]
          \in [1..N -> [RegType -> RegType]]
    BY <2>1
  <2>. QED BY <2>2
<1>4. PICK f \in [0..N -> RegType] : f[0] = r /\ \A i \in 1..N : f[i] = G[i][f[i - 1]]
  BY ONLY StepsExist
<1>5. \A i \in 1..N : f[i] = UnregOwned(f[i - 1], cs[i], owners)
  <2> SUFFICES ASSUME NEW i \in 1..N PROVE f[i] = UnregOwned(f[i - 1], cs[i], owners)
    OBVIOUS
  <2>1. i - 1 \in 0..N
    OBVIOUS
  <2>. QED BY <1>3, <1>4, <2>1
<1> DEFINE Def(g) == g = [i \in 0..N |-> IF i = 0 THEN r ELSE UnregOwned(g[i - 1], cs[i], owners)]
           after == CHOOSE g : Def(g)
<1>6. Def(f)
  <2>1. \A i \in 0..N : i = 0 \/ i \in 1..N
    OBVIOUS
  <2>2. \A i \in 0..N : f[i] = IF i = 0 THEN r ELSE UnregOwned(f[i - 1], cs[i], owners)
    BY ONLY <1>4, <1>5, <2>1
  <2>. QED BY ONLY <1>4, <2>2
<1>7. Def(after)
  <2> HIDE DEF Def
  <2>. QED BY <1>6
<1>8. PICK g : g = after
  OBVIOUS
<1>9. \A i \in 0..N : g[i] = IF i = 0 THEN r ELSE UnregOwned(g[i - 1], cs[i], owners)
  <2>1. g = [i \in 0..N |-> IF i = 0 THEN r ELSE UnregOwned(g[i - 1], cs[i], owners)]
    BY <1>7, <1>8
  <2>. QED BY ONLY <2>1
<1>10. Unreg(r, cs, owners) = g[N]
  BY <1>1, <1>8 DEF Unreg
<1>11. 0 \in 0..N /\ \A i \in 1..N : i \in 0..N /\ i # 0
  OBVIOUS
<1> HIDE DEF after, Def
<1>. QED BY <1>1, <1>9, <1>10, <1>11

(* Those of a sequence of commands on lists that "owners" registered go.   *)
LEMMA UnregKeeps ==
  ASSUME NEW r, NEW on, NEW rank, Lists(r, on, rank), NEW cs \in Seq(Cmds), ToSet(cs) \subseteq on,
         \A i, j \in 1..Len(cs) : i < j => cs[i] # cs[j], NEW owners
  PROVE  Gone(r, Unreg(r, cs, owners), on, {c \in ToSet(cs) : r.cmd[c].owner \in owners}, rank)
<1>1. r \in RegType /\ on \subseteq Cmds
  BY DEF Lists, Pointers
<1>2. PICK f : /\ f[0] = r
               /\ \A i \in 1..Len(cs) : f[i] = UnregOwned(f[i - 1], cs[i], owners)
               /\ Unreg(r, cs, owners) = f[Len(cs)]
  BY <1>1, UnregSteps
<1>3. PICK N \in Nat : N = Len(cs)
  OBVIOUS
<1>4. \A i \in 1..N : cs[i] \in on /\ cs[i] \in Cmds
  BY <1>1, <1>3 DEF ToSet
<1> DEFINE Off(i) == {c \in on : r.cmd[c].owner \in owners /\ \E j \in 1..i : cs[j] = c}
           S == {i \in 0..N : Gone(r, f[i], on, Off(i), rank)}
<1>5. 0 \in S
  <2>1. Off(0) = {} /\ on \ {} = on /\ 0 \in 0..N
    OBVIOUS
  <2>2. Gone(r, f[0], on, {}, rank)
    BY <1>2, <2>1 DEF Gone
  <2>. QED BY <2>1, <2>2
<1>6. ASSUME NEW i \in 1..N, i - 1 \in S PROVE i \in S
  <2>1. PICK q, c, off : q = f[i - 1] /\ c = cs[i] /\ off = Off(i - 1)
    OBVIOUS
  <2>2. Gone(r, q, on, off, rank)
    BY <1>6, <2>1
  <2>3. f[i] = UnregOwned(q, c, owners)
    BY <1>2, <1>3, <2>1
  <2>4. c \in on /\ c \in Cmds /\ q.cmd[c].owner = r.cmd[c].owner
    BY <1>4, <2>1, <2>2 DEF Gone
  <2>5. c \notin off
    <3>1. \A j \in 1..(i - 1) : j \in 1..Len(cs) /\ i \in 1..Len(cs) /\ j < i
      BY <1>3
    <3>2. \A j \in 1..(i - 1) : cs[j] # c
      BY <2>1, <3>1
    <3>. QED BY <2>1, <3>2
  <2>6. \A j : j \in 1..i <=> j \in 1..(i - 1) \/ j = i
    OBVIOUS
  <2>9. i \in 0..N
    OBVIOUS
  <2>7. CASE r.cmd[c].owner \in owners
    <3>1. Off(i) = off \cup {c}
      BY <2>1, <2>4, <2>6, <2>7
    <3>2. f[i] = UnregOne(q, c)
      BY <2>3, <2>4, <2>7 DEF UnregOwned
    <3>3. Lists(q, on \ off, rank) /\ c \in on \ off
      BY <2>2, <2>4, <2>5 DEF Gone
    <3>4. Gone(q, f[i], on \ off, {c}, rank)
      <4>1. PICK p, now1 : p = UnregOne(q, c) /\ now1 = on \ off
        OBVIOUS
      <4>2. /\ Lists(p, now1 \ {c}, rank)
            /\ \A d \in Cmds : p.cmd[d].owner = q.cmd[d].owner
                               /\ p.cmd[d].loaded = q.cmd[d].loaded
            /\ \A d \in Cmds \ now1 : p.cmd[d] = q.cmd[d]
        BY ONLY <3>3, <4>1, UnregOneKeeps
      <4>. QED BY ONLY <3>2, <4>1, <4>2 DEF Gone
    <3>5. Gone(r, f[i], on, off \cup {c}, rank)
      BY ONLY <2>2, <3>4, GoneTwice
    <3>. QED BY <2>9, <3>1, <3>5
  <2>8. CASE r.cmd[c].owner \notin owners
    <3>1. Off(i) = off
      BY <2>1, <2>4, <2>6, <2>8
    <3>2. f[i] = q
      BY <2>3, <2>4, <2>8 DEF UnregOwned
    <3>. QED BY <2>2, <2>9, <3>1, <3>2
  <2>. QED BY <2>7, <2>8
<1>7. N \in S
  <2> HIDE DEF S
  <2>1. 0..N \subseteq S
    BY ONLY <1>5, <1>6, N \in Nat, IndexInduction
  <2>. QED BY <2>1
<1>8. Off(N) = {c \in ToSet(cs) : r.cmd[c].owner \in owners}
  <2>1. DOMAIN cs = 1..N
    BY <1>3
  <2>2. ToSet(cs) = {cs[j] : j \in 1..N}
    BY <2>1 DEF ToSet
  <2>. QED BY <1>4, <2>2
<1>9. Unreg(r, cs, owners) = f[N]
  BY <1>2, <1>3
<1>. QED BY <1>7, <1>8, <1>9

(* A round of on_module_unload: the commands of m with the name n go.      *)
LEMMA UnregNameKeeps ==
  ASSUME NEW r, NEW on, NEW rank, Lists(r, on, rank), NEW n \in Names, NEW m
  PROVE  Gone(r, UnregName(r, n, m), on,
              {c \in on : Info[c].name = n /\ r.cmd[c].owner = m}, rank)
<1>1. PICK ch : ch = Chain(r, n)
  OBVIOUS
<1>2. /\ ch \in Seq(Cmds) /\ ToSet(ch) = {c \in on : Info[c].name = n}
      /\ \A i, j \in 1..Len(ch) : i < j => rank[ch[j]] < rank[ch[i]]
  BY <1>1, ChainOn
<1>3. \A i, j \in 1..Len(ch) : i < j => ch[i] # ch[j]
  <2> SUFFICES ASSUME NEW i \in 1..Len(ch), NEW j \in 1..Len(ch), i < j, ch[i] = ch[j]
               PROVE  FALSE
    OBVIOUS
  <2>1. rank[ch[i]] < rank[ch[i]]
    BY <1>2
  <2>2. rank[ch[i]] \in Nat
    BY <1>2 DEF Lists, Ranked
  <2>. QED BY <2>1, <2>2
<1>4. Gone(r, Unreg(r, ch, {m}), on, {c \in ToSet(ch) : r.cmd[c].owner \in {m}}, rank)
  BY <1>2, <1>3, UnregKeeps
<1>5. {c \in ToSet(ch) : r.cmd[c].owner \in {m}}
        = {c \in on : Info[c].name = n /\ r.cmd[c].owner = m}
  BY <1>2
<1>. QED BY <1>1, <1>4, <1>5 DEF UnregName

(* There are finitely many names.                                          *)
LEMMA NamesFinite == IsFiniteSet(Names)
<1> DEFINE f == [c \in Cmds |-> Info[c].name]
<1>1. f \in Surjection(Cmds, Names)
  BY DEF Surjection, Names
<1>2. IsFiniteSet(Cmds)
  BY TableAssumption
<1>. QED BY <1>1, <1>2, FS_Surjection

\* Registries with lists that "rank" orders.
Ordered(rank) == {q \in RegType : \E on \in SUBSET Cmds : Lists(q, on, rank)}

(* A round of on_module_unload, for any registry with whole lists          *)
LEMMA RoundTyped ==
  ASSUME NEW rank, NEW q \in Ordered(rank), NEW n \in Names, NEW m
  PROVE  UnregName(q, n, m) \in Ordered(rank)
<1>1. PICK on \in SUBSET Cmds : Lists(q, on, rank)
  BY DEF Ordered
<1>2. PICK p : p = UnregName(q, n, m)
  OBVIOUS
<1>3. PICK off : Lists(p, on \ off, rank)
  BY <1>1, <1>2, UnregNameKeeps DEF Gone
<1>4. p \in RegType /\ on \ off \in SUBSET Cmds
  BY <1>3 DEF Lists, Pointers
<1>. QED BY <1>2, <1>3, <1>4 DEF Ordered

(* on_module_unload is a loop over the names.                              *)
LEMMA UnloadSteps ==
  ASSUME NEW rank, NEW r \in Ordered(rank), NEW names, names \in Seq(Names),
         names = SetToSeq(Names), NEW m
  PROVE  \E f : /\ f[0] = r
                /\ \A i \in 1..Len(names) : f[i] = UnregName(f[i - 1], names[i], m)
                /\ OnModuleUnload(r, m) = f[Len(names)]
<1>1. PICK N \in Nat : N = Len(names)
  OBVIOUS
<1>2. \A i \in 1..N : names[i] \in Names
  BY <1>1
<1>3. PICK G \in [1..N -> [Ordered(rank) -> Ordered(rank)]] :
        \A i \in 1..N : \A q \in Ordered(rank) : G[i][q] = UnregName(q, names[i], m)
  <2>1. \A i \in 1..N : [q \in Ordered(rank) |-> UnregName(q, names[i], m)]
                          \in [Ordered(rank) -> Ordered(rank)]
    BY <1>2, RoundTyped
  <2>2. [i \in 1..N |-> [q \in Ordered(rank) |-> UnregName(q, names[i], m)]]
          \in [1..N -> [Ordered(rank) -> Ordered(rank)]]
    BY <2>1
  <2>. QED BY <2>2
<1>4. PICK f \in [0..N -> Ordered(rank)] : f[0] = r /\ \A i \in 1..N : f[i] = G[i][f[i - 1]]
  BY ONLY StepsExist
<1>5. \A i \in 1..N : f[i] = UnregName(f[i - 1], names[i], m)
  <2> SUFFICES ASSUME NEW i \in 1..N PROVE f[i] = UnregName(f[i - 1], names[i], m)
    OBVIOUS
  <2>1. i - 1 \in 0..N
    OBVIOUS
  <2>. QED BY <1>3, <1>4, <2>1
<1> DEFINE Def(g) == g = [i \in 0..N |-> IF i = 0 THEN r ELSE UnregName(g[i - 1], names[i], m)]
           after == CHOOSE g : Def(g)
<1>6. Def(f)
  <2>1. \A i \in 0..N : i = 0 \/ i \in 1..N
    OBVIOUS
  <2>2. \A i \in 0..N : f[i] = IF i = 0 THEN r ELSE UnregName(f[i - 1], names[i], m)
    BY ONLY <1>4, <1>5, <2>1
  <2>. QED BY ONLY <1>4, <2>2
<1>7. Def(after)
  <2> HIDE DEF Def
  <2>. QED BY <1>6
<1>8. PICK g : g = after
  OBVIOUS
<1>9. \A i \in 0..N : g[i] = IF i = 0 THEN r ELSE UnregName(g[i - 1], names[i], m)
  <2>1. g = [i \in 0..N |-> IF i = 0 THEN r ELSE UnregName(g[i - 1], names[i], m)]
    BY <1>7, <1>8
  <2>. QED BY ONLY <2>1
<1>10. OnModuleUnload(r, m) = g[N]
  BY <1>1, <1>8 DEF OnModuleUnload
<1>11. 0 \in 0..N /\ \A i \in 1..N : i \in 0..N /\ i # 0
  OBVIOUS
<1> HIDE DEF after, Def
<1>. QED BY <1>1, <1>9, <1>10, <1>11

(* on_module_unload takes the commands of the module, and no other.        *)
LEMMA ModuleUnloadKeeps ==
  ASSUME NEW r, NEW on, NEW rank, Lists(r, on, rank), NEW m
  PROVE  Gone(r, OnModuleUnload(r, m), on, {c \in on : r.cmd[c].owner = m}, rank)
<1>1. r \in RegType /\ on \in SUBSET Cmds
  BY DEF Lists, Pointers
<1>2. r \in Ordered(rank)
  BY <1>1 DEF Ordered
<1>3. PICK names : names = SetToSeq(Names)
  OBVIOUS
<1>4. names \in Seq(Names) /\ ToSet(names) = Names
  BY <1>3, NamesFinite, SetToSeqRight
<1>5. PICK f : /\ f[0] = r
               /\ \A i \in 1..Len(names) : f[i] = UnregName(f[i - 1], names[i], m)
               /\ OnModuleUnload(r, m) = f[Len(names)]
  BY <1>2, <1>3, <1>4, UnloadSteps
<1>6. PICK N \in Nat : N = Len(names) /\ DOMAIN names = 1..N
  BY <1>4
<1>7. \A i \in 1..N : names[i] \in Names
  BY <1>4, <1>6
<1> DEFINE Off(i) == {c \in on : r.cmd[c].owner = m /\ \E j \in 1..i : names[j] = Info[c].name}
           S == {i \in 0..N : Gone(r, f[i], on, Off(i), rank)}
<1>8. 0 \in S
  <2>1. Off(0) = {} /\ on \ {} = on /\ 0 \in 0..N
    OBVIOUS
  <2>2. Gone(r, f[0], on, {}, rank)
    BY <1>5, <2>1 DEF Gone
  <2>. QED BY <2>1, <2>2
<1>9. ASSUME NEW i \in 1..N, i - 1 \in S PROVE i \in S
  <2>1. PICK q, n, off, left : q = f[i - 1] /\ n = names[i] /\ off = Off(i - 1) /\ left = on \ off
    OBVIOUS
  <2>2. Gone(r, q, on, off, rank)
    BY <1>9, <2>1
  <2>3. f[i] = UnregName(q, n, m) /\ n \in Names
    BY <1>5, <1>6, <1>7, <2>1
  <2>4. Lists(q, left, rank)
    BY <2>1, <2>2 DEF Gone
  <2>5. PICK more : more = {c \in left : Info[c].name = n /\ q.cmd[c].owner = m}
    OBVIOUS
  <2>6. Gone(q, f[i], left, more, rank)
    BY ONLY <2>3, <2>4, <2>5, UnregNameKeeps
  <2>7. Gone(r, f[i], on, off \cup more, rank)
    BY ONLY <2>1, <2>2, <2>6, GoneTwice
  <2>8. Off(i) = off \cup more
    <3>1. \A j : j \in 1..i <=> j \in 1..(i - 1) \/ j = i
      OBVIOUS
    <3>2. \A c \in on : q.cmd[c].owner = r.cmd[c].owner
      BY <1>1, <2>2 DEF Gone
    <3>. QED BY <2>1, <2>5, <3>1, <3>2
  <2>9. i \in 0..N
    OBVIOUS
  <2>. QED BY <2>7, <2>8, <2>9
<1>10. N \in S
  <2> HIDE DEF S
  <2>1. 0..N \subseteq S
    BY ONLY <1>8, <1>9, N \in Nat, IndexInduction
  <2>. QED BY <2>1
<1>11. Off(N) = {c \in on : r.cmd[c].owner = m}
  <2>1. \A c \in on : Info[c].name \in Names
    BY <1>1, NoneApart
  <2>2. Names = {names[j] : j \in 1..N}
    BY <1>4, <1>6 DEF ToSet
  <2>3. \A n \in Names : \E j \in 1..N : names[j] = n
    BY ONLY <2>2
  <2>. QED BY <2>1, <2>3
<1>12. OnModuleUnload(r, m) = f[N]
  BY <1>5, <1>6
<1>. QED BY <1>10, <1>11, <1>12

(* Memory that no list leads to may go.                                    *)
LEMMA ForgetKeeps ==
  ASSUME NEW r, NEW on, NEW rank, Lists(r, on, rank), NEW cs, cs \cap on = {}
  PROVE  LET q == Forget(r, cs)
         IN  /\ Lists(q, on, rank)
             /\ \A c \in Cmds : q.cmd[c] = IF c \in cs THEN Blank ELSE r.cmd[c]
<1>1. r \in RegType /\ on \subseteq Cmds /\ Pointers(r, on) /\ Ranked(r, rank)
  BY DEF Lists, Pointers
<1>2. /\ r.head \in [Names -> Cmds \cup {None}] /\ r.cmd \in [Cmds -> CmdType]
      /\ r = [head |-> r.head, cmd |-> r.cmd]
  BY <1>1 DEF RegType
<1>3. PICK q : q = Forget(r, cs)
  OBVIOUS
<1>4. q.head = r.head /\ q.cmd = [c \in Cmds |-> IF c \in cs THEN Blank ELSE r.cmd[c]]
      /\ q = [head |-> q.head, cmd |-> q.cmd]
  BY <1>2, <1>3 DEF Forget
<1>5. \A c \in Cmds : q.cmd[c] = IF c \in cs THEN Blank ELSE r.cmd[c]
  BY <1>4
<1>6. q \in RegType
  <2>1. Blank \in CmdType
    BY DEF Blank, CmdType
  <2>2. q.cmd \in [Cmds -> CmdType]
    BY <1>2, <1>4, <2>1
  <2>. QED BY <1>2, <1>4, <2>2 DEF RegType
<1>7. \A c \in on : q.cmd[c] = r.cmd[c]
  BY <1>1, <1>5
<1>8. Pointers(q, on)
  <2>1. ASSUME NEW c \in on, q.cmd[c].next # None
        PROVE  /\ q.cmd[c].next \in on /\ q.cmd[q.cmd[c].next].prev = c
               /\ Info[q.cmd[c].next].name = Info[c].name
    BY <1>1, <1>7, <2>1 DEF Pointers
  <2>2. ASSUME NEW c \in on
        PROVE  IF q.cmd[c].prev = None THEN q.head[Info[c].name] = c
               ELSE q.cmd[c].prev \in on /\ q.cmd[q.cmd[c].prev].next = c
    BY <1>1, <1>4, <1>7 DEF Pointers
  <2>3. ASSUME NEW n \in Names, q.head[n] # None
        PROVE  q.head[n] \in on /\ Info[q.head[n]].name = n /\ q.cmd[q.head[n]].prev = None
    BY <1>1, <1>4, <1>7, <2>3 DEF Pointers
  <2>. QED BY <1>1, <1>6, <2>1, <2>2, <2>3 DEF Pointers
<1>9. Ranked(q, rank)
  BY <1>1, <1>5 DEF Ranked, Blank
<1>. QED BY <1>3, <1>5, <1>8, <1>9 DEF Lists

-----------------------------------------------------------------------------
(* The registry with its modules.                                          *)

\* Who registered the commands that are on lists.
Owned(r, ms, on) ==
    \A c \in on :
        /\ r.cmd[c].loaded
        /\ c \in Aliases => r.cmd[c].owner = None /\ Alias \in ms
        /\ c \notin Aliases => r.cmd[c].owner \in ms /\ c \in ToSet(Table[r.cmd[c].owner])

\* A command that asks for a repeat is behind another of its name and module.
Behind(r, on, rank) ==
    \A c \in on : Repeats(c) =>
        \E d \in on : /\ Info[d].name = Info[c].name /\ r.cmd[d].owner = r.cmd[c].owner
                      /\ rank[c] < rank[d]

Sound(r, ms, on, rank) ==
    /\ Lists(r, on, rank) /\ ms \subseteq Modules
    /\ \A c \in Cmds \ on : r.cmd[c] = Blank
    /\ Owned(r, ms, on) /\ Behind(r, on, rank)

\* What leaves the lists with a module.
Leaving(r, on, m) ==
    {c \in on : r.cmd[c].owner = m \/ (m = Alias /\ c \in Aliases)}

(* Only the commands of a module are in its table.                         *)
LEMMA TableOwner ==
  ASSUME NEW r, NEW ms, ms \subseteq Modules, NEW on, Owned(r, ms, on),
         NEW m \in Modules, NEW c \in on, c \in ToSet(Table[m])
  PROVE  c \notin Aliases /\ r.cmd[c].owner = m /\ m \in ms
<1>1. c \in StaticCmds /\ c \notin Aliases
  BY TableAssumption DEF StaticCmds
<1>2. r.cmd[c].owner \in ms /\ c \in ToSet(Table[r.cmd[c].owner])
  BY <1>1 DEF Owned
<1>3. r.cmd[c].owner = m
  BY <1>2, TableAssumption
<1>. QED BY <1>1, <1>2, <1>3

\* The aliases go with extra/alias.
AliasesGone(on, m) == IF m = Alias THEN on \cap Aliases ELSE {}

\* q is r without its aliases, if m is extra/alias.
AliasesWent(r, q, on, rank, m) ==
    /\ Lists(q, on \ AliasesGone(on, m), rank)
    /\ \A c \in Cmds : IF m = Alias /\ c \in Aliases
                       THEN q.cmd[c] = Blank
                       ELSE q.cmd[c].owner = r.cmd[c].owner /\ q.cmd[c].loaded = r.cmd[c].loaded
    /\ \A c \in Cmds \ on : q.cmd[c] = r.cmd[c] \/ q.cmd[c] = Blank

(* alias_deinit takes the aliases.                                         *)
LEMMA DeinitKeeps ==
  ASSUME NEW r, NEW on, NEW rank, Lists(r, on, rank), NEW m
  PROVE  AliasesWent(r, Deinit(r, m), on, rank, m)
<1>1. CASE m # Alias
  <2>1. AliasesGone(on, m) = {} /\ on \ {} = on
    BY <1>1 DEF AliasesGone
  <2>. QED BY <1>1, <2>1 DEF Deinit, AliasesWent
<1>2. CASE m = Alias
  <2>1. PICK as : as = on \cap Aliases
    OBVIOUS
  <2>2. Registered(r) \cap Aliases = as
    BY <2>1, RegisteredOn
  <2>3. on \subseteq Cmds /\ as \subseteq Cmds /\ IsFiniteSet(as)
    <3>1. on \subseteq Cmds
      BY DEF Lists, Pointers
    <3>2. IsFiniteSet(as)
      BY <2>1, <3>1, TableAssumption, FS_Subset
    <3>. QED BY <2>1, <3>1, <3>2
  <2>4. PICK cs : cs = SetToSeq(as)
    OBVIOUS
  <2>5. /\ cs \in Seq(as) /\ ToSet(cs) = as
        /\ \A i, j \in 1..Len(cs) : i < j => cs[i] # cs[j]
    BY <2>3, <2>4, SetToSeqRight
  <2>6. cs \in Seq(Cmds) /\ ToSet(cs) \subseteq on
    BY <2>1, <2>3, <2>5
  <2>7. PICK p : p = Unreg(r, cs, Modules \cup {None})
    OBVIOUS
  <2>8. Gone(r, p, on, {c \in ToSet(cs) : r.cmd[c].owner \in Modules \cup {None}}, rank)
    <3>1. Lists(r, on, rank)
      OBVIOUS
    <3>2. cs \in Seq(Cmds)
      BY <2>6
    <3>3. ToSet(cs) \subseteq on
      BY <2>6
    <3>4. \A i, j \in 1..Len(cs) : i < j => cs[i] # cs[j]
      BY <2>5
    <3>5. Gone(r, Unreg(r, cs, Modules \cup {None}), on,
               {c \in ToSet(cs) : r.cmd[c].owner \in Modules \cup {None}}, rank)
      BY ONLY <3>1, <3>2, <3>3, <3>4, UnregKeeps
    <3>. QED BY ONLY <2>7, <3>5
  <2>9. {c \in ToSet(cs) : r.cmd[c].owner \in Modules \cup {None}} = as
    BY <2>3, <2>5, RegFields DEF Lists, Pointers
  <2>10. Gone(r, p, on, as, rank)
    BY <2>8, <2>9
  <2>11. PICK q : q = Deinit(r, m)
    OBVIOUS
  <2>12. q = Forget(p, Aliases)
    BY <1>2, <2>2, <2>4, <2>7, <2>11 DEF Deinit
  <2>13. Lists(p, on \ as, rank) /\ Aliases \cap (on \ as) = {}
    BY <2>1, <2>10 DEF Gone
  <2>14. /\ Lists(q, on \ as, rank)
         /\ \A c \in Cmds : q.cmd[c] = IF c \in Aliases THEN Blank ELSE p.cmd[c]
    <3>1. PICK rest : rest = on \ as
      OBVIOUS
    <3>2. Lists(p, rest, rank) /\ Aliases \cap rest = {}
      BY ONLY <2>13, <3>1
    <3>3. LET z == Forget(p, Aliases)
          IN  /\ Lists(z, rest, rank)
              /\ \A c \in Cmds : z.cmd[c] = IF c \in Aliases THEN Blank ELSE p.cmd[c]
      BY ONLY <3>2, ForgetKeeps
    <3>. QED BY ONLY <2>12, <3>1, <3>3
  <2>15. AliasesGone(on, m) = as
    BY <1>2, <2>1 DEF AliasesGone
  <2>. QED BY <1>2, <2>10, <2>11, <2>14, <2>15 DEF Gone, AliasesWent
<1>. QED BY <1>1, <1>2

\* "st" comes of the unload of m.
Unloaded(r, ms, on, rank, m, st) ==
    /\ st.ms = ms \ {m}
    /\ Sound(st.r, ms \ {m}, on \ Leaving(r, on, m), rank)

(* module_unload leaves a sound registry, without what the module brought. *)
LEMMA UnloadKeeps ==
  ASSUME NEW r, NEW ms, NEW on, NEW rank, Sound(r, ms, on, rank), NEW m \in ms, m # Manager
  PROVE  Unloaded(r, ms, on, rank, m, Unload([r |-> r, ms |-> ms], m))
<1>1. /\ Lists(r, on, rank) /\ ms \subseteq Modules /\ m \in Modules
      /\ \A c \in Cmds \ on : r.cmd[c] = Blank
      /\ Owned(r, ms, on) /\ Behind(r, on, rank) /\ on \subseteq Cmds
  BY DEF Sound, Lists, Pointers
<1>2. PICK q, own, rest : /\ q = OnModuleUnload(r, m)
                          /\ own = {c \in on : r.cmd[c].owner = m} /\ rest = on \ own
  OBVIOUS
<1>3. Gone(r, q, on, own, rank)
  BY <1>1, <1>2, ModuleUnloadKeeps
<1>4. /\ Lists(q, rest, rank)
      /\ \A d \in Cmds : q.cmd[d].owner = r.cmd[d].owner /\ q.cmd[d].loaded = r.cmd[d].loaded
      /\ \A d \in Cmds \ on : q.cmd[d] = r.cmd[d]
  BY <1>2, <1>3 DEF Gone
<1>6. PICK p, as, left : /\ p = Deinit(q, m) /\ as = AliasesGone(rest, m)
                         /\ left = rest \ as
  OBVIOUS
<1>7. /\ Lists(p, left, rank)
      /\ \A c \in Cmds : IF m = Alias /\ c \in Aliases
                         THEN p.cmd[c] = Blank
                         ELSE p.cmd[c].owner = q.cmd[c].owner /\ p.cmd[c].loaded = q.cmd[c].loaded
      /\ \A c \in Cmds \ rest : p.cmd[c] = q.cmd[c] \/ p.cmd[c] = Blank
  <2>1. AliasesWent(q, Deinit(q, m), rest, rank, m)
    BY <1>4, DeinitKeeps
  <2>. QED BY <1>6, <2>1 DEF AliasesWent
<1>8. left = on \ Leaving(r, on, m) /\ left \subseteq on
  BY <1>2, <1>6 DEF Leaving, AliasesGone
<1>9. ToSet(Table[m]) \cap left = {}
  <2> SUFFICES ASSUME NEW c \in left, c \in ToSet(Table[m]) PROVE FALSE
    OBVIOUS
  <2>1. r.cmd[c].owner = m
    BY <1>1, <1>8, TableOwner
  <2>. QED BY <1>8, <2>1 DEF Leaving
<1>10. PICK z : z = Forget(p, ToSet(Table[m]))
  OBVIOUS
<1>11. /\ Lists(z, left, rank)
       /\ \A c \in Cmds : z.cmd[c] = IF c \in ToSet(Table[m]) THEN Blank ELSE p.cmd[c]
  BY <1>7, <1>9, <1>10, ForgetKeeps
<1>12. Unload([r |-> r, ms |-> ms], m) = [r |-> z, ms |-> ms \ {m}]
  BY <1>2, <1>6, <1>10 DEF Unload
<1>13. \A c \in left : z.cmd[c].owner = r.cmd[c].owner /\ z.cmd[c].loaded = r.cmd[c].loaded
  <2> SUFFICES ASSUME NEW c \in left
               PROVE  z.cmd[c].owner = r.cmd[c].owner /\ z.cmd[c].loaded = r.cmd[c].loaded
    OBVIOUS
  <2>1. c \in Cmds /\ c \notin ToSet(Table[m]) /\ ~(m = Alias /\ c \in Aliases)
    BY <1>1, <1>8, <1>9 DEF Leaving
  <2>. QED BY <1>4, <1>7, <1>11, <2>1
<1>14. ASSUME NEW c \in Cmds \ left PROVE z.cmd[c] = Blank
  <2>1. CASE c \notin on
    BY <1>1, <1>2, <1>4, <1>7, <1>11, <2>1
  <2>2. CASE c \in on /\ m = Alias /\ c \in Aliases
    BY <1>7, <1>11, <2>2
  <2>3. CASE c \in on /\ r.cmd[c].owner = m
    <3>1. c \notin Aliases
      BY <1>1, <2>3, NoneApart DEF Owned
    <3>2. c \in ToSet(Table[m])
      BY <1>1, <2>3, <3>1 DEF Owned
    <3>. QED BY <1>11, <3>2
  <2>. QED BY <1>8, <2>1, <2>2, <2>3 DEF Leaving
<1>15. Owned(z, ms \ {m}, left)
  <2> SUFFICES ASSUME NEW c \in left
               PROVE  /\ z.cmd[c].loaded
                      /\ c \in Aliases => z.cmd[c].owner = None /\ Alias \in ms \ {m}
                      /\ c \notin Aliases => /\ z.cmd[c].owner \in ms \ {m}
                                             /\ c \in ToSet(Table[z.cmd[c].owner])
    BY DEF Owned
  <2>1. c \in on /\ r.cmd[c].owner # m /\ ~(m = Alias /\ c \in Aliases)
    BY <1>8 DEF Leaving
  <2>2. /\ r.cmd[c].loaded
        /\ c \in Aliases => r.cmd[c].owner = None /\ Alias \in ms
        /\ c \notin Aliases => r.cmd[c].owner \in ms /\ c \in ToSet(Table[r.cmd[c].owner])
    BY <1>1, <2>1 DEF Owned
  <2>. QED BY <1>13, <2>1, <2>2
<1>16. Behind(z, left, rank)
  <2> SUFFICES ASSUME NEW c \in left, Repeats(c)
               PROVE  \E d \in left : /\ Info[d].name = Info[c].name
                                      /\ z.cmd[d].owner = z.cmd[c].owner
                                      /\ rank[c] < rank[d]
    BY DEF Behind
  <2>1. c \in on /\ r.cmd[c].owner # m /\ c \notin Aliases
    BY <1>8, RepeatAssumption DEF Leaving
  <2>2. PICK d \in on : /\ Info[d].name = Info[c].name /\ r.cmd[d].owner = r.cmd[c].owner
                        /\ rank[c] < rank[d]
    BY <1>1, <2>1 DEF Behind
  <2>3. r.cmd[c].owner # None
    BY <1>1, <2>1, NoneApart DEF Owned
  <2>4. d \notin Aliases
    BY <1>1, <2>2, <2>3 DEF Owned
  <2>5. d \in left
    BY <1>8, <2>1, <2>2, <2>4 DEF Leaving
  <2>. QED BY <1>13, <2>2, <2>5
<1>17. Sound(z, ms \ {m}, left, rank)
  BY <1>1, <1>11, <1>14, <1>15, <1>16 DEF Sound
<1>. QED BY <1>8, <1>12, <1>17 DEF Unloaded

-----------------------------------------------------------------------------
(* One command comes: reg_one.                                             *)

\* A command that a list has, or one that serves the same source.
Refused(on, c) ==
    c \in on \/ \E d \in on : Info[d].name = Info[c].name /\ Info[d].mask \cap Info[c].mask # {}

\* q is r after "owner" registered the commands "new".
Grown(r, q, on, new, owner, rank, rank2) ==
    /\ Lists(q, on \cup new, rank2)
    /\ \A d \in on : q.cmd[d].owner = r.cmd[d].owner /\ rank2[d] = rank[d]
    /\ \A d \in new : q.cmd[d].owner = owner
    /\ \A d \in on \cup new : q.cmd[d].loaded
    /\ \A d \in Cmds \ (on \cup new) : q.cmd[d] = Blank

\* Everything that is not on a list is as it was before any registration.
Clean(r, on) == (\A d \in on : r.cmd[d].loaded) /\ \A d \in Cmds \ on : r.cmd[d] = Blank

(* When reg_one returns early, and what it does otherwise.                 *)
LEMMA RegOneCases ==
  ASSUME NEW r, NEW on, NEW rank, Lists(r, on, rank), Clean(r, on),
         NEW c \in Cmds, NEW owner
  PROVE  /\ Refused(on, c) => RegOne(r, c, owner) = r
         /\ ~Refused(on, c) =>
              RegOne(r, c, owner) =
                [head |-> [r.head EXCEPT ![Info[c].name] = c],
                 cmd |-> [d \in Cmds |->
                            IF d = c THEN [next |-> r.head[Info[c].name], prev |-> None,
                                           owner |-> owner, loaded |-> TRUE]
                            ELSE IF d = r.head[Info[c].name] THEN [r.cmd[d] EXCEPT !.prev = c]
                            ELSE r.cmd[d]]]
<1>1. PICK n \in Names : n = Info[c].name
  BY NoneApart
<1>2. ToSet(Chain(r, n)) = {d \in on : Info[d].name = n}
  BY ChainOn
<1>3. r.cmd[c].loaded <=> c \in on
  BY DEF Clean, Blank
<1>4. Refused(on, c) <=> \/ \E d \in ToSet(Chain(r, n)) : Info[d].mask \cap Info[c].mask # {}
                         \/ r.cmd[c].loaded
  BY <1>1, <1>2, <1>3 DEF Refused
<1>. QED BY <1>1, <1>4 DEF RegOne

(* The command comes to the front of its list.                             *)
LEMMA RegOneKeeps ==
  ASSUME NEW r, NEW on, NEW rank, Lists(r, on, rank), Clean(r, on),
         NEW c \in Cmds, NEW owner \in Modules \cup {None}, ~Refused(on, c)
  PROVE  \E rank2 : /\ Grown(r, RegOne(r, c, owner), on, {c}, owner, rank, rank2)
                    /\ \A d \in on : rank2[d] < rank2[c]
<1>1. r \in RegType /\ on \subseteq Cmds /\ Pointers(r, on) /\ Ranked(r, rank)
  BY DEF Lists, Pointers
<1>2. PICK n \in Names : n = Info[c].name
  BY NoneApart
<1>3. PICK at \in Cmds \cup {None} : at = r.head[n]
  BY <1>1, RegFields
<1>4. /\ r.head \in [Names -> Cmds \cup {None}] /\ r.cmd \in [Cmds -> CmdType]
      /\ \A d \in Cmds : r.cmd[d] \in CmdType
  BY <1>1, RegFields
<1>5. PICK q : q = RegOne(r, c, owner)
  OBVIOUS
<1>6. q = [head |-> [r.head EXCEPT ![n] = c],
           cmd |-> [d \in Cmds |->
                      IF d = c THEN [next |-> at, prev |-> None, owner |-> owner, loaded |-> TRUE]
                      ELSE IF d = at THEN [r.cmd[d] EXCEPT !.prev = c]
                      ELSE r.cmd[d]]]
  BY <1>2, <1>3, <1>5, RegOneCases
<1>7. /\ c \notin on /\ c # None
      /\ \A d \in on : Info[d].name = n => Info[d].mask \cap Info[c].mask = {}
  BY <1>2, NoneApart DEF Refused
<1>8. at # None => at \in on /\ Info[at].name = n /\ r.cmd[at].prev = None
  BY <1>1, <1>3 DEF Pointers
<1>9. \A m \in Names : q.head[m] = IF m = n THEN c ELSE r.head[m]
  BY <1>4, <1>6
<1>10. q.cmd[c] = [next |-> at, prev |-> None, owner |-> owner, loaded |-> TRUE]
  BY <1>6
<1>11. ASSUME NEW d \in Cmds, d # c
       PROVE  /\ q.cmd[d].next = r.cmd[d].next
              /\ q.cmd[d].prev = IF d = at THEN c ELSE r.cmd[d].prev
              /\ q.cmd[d].owner = r.cmd[d].owner /\ q.cmd[d].loaded = r.cmd[d].loaded
              /\ q.cmd[d] \in CmdType
              /\ d # at => q.cmd[d] = r.cmd[d]
  <2>1. r.cmd[d] \in CmdType
    BY <1>4
  <2>2. CASE d = at
    <3>1. q.cmd[d] = [r.cmd[d] EXCEPT !.prev = c]
      BY <1>6, <1>11, <2>2
    <3>. QED BY <2>1, <2>2, <3>1 DEF CmdType
  <2>3. CASE d # at
    <3>1. q.cmd[d] = r.cmd[d]
      BY <1>6, <1>11, <2>3
    <3>. QED BY <2>1, <2>3, <3>1
  <2>. QED BY <2>2, <2>3
<1>12. q \in RegType
  <2>1. q.cmd[c] \in CmdType
    BY <1>10 DEF CmdType
  <2>2. \A d \in Cmds : q.cmd[d] \in CmdType
    BY <1>11, <2>1
  <2>3. /\ q.head = [r.head EXCEPT ![n] = c]
        /\ q.cmd = [d \in Cmds |-> q.cmd[d]]
        /\ q = [head |-> q.head, cmd |-> q.cmd]
    BY <1>6
  <2>4. q.head \in [Names -> Cmds \cup {None}]
    BY <1>4, <2>3
  <2>5. q.cmd \in [Cmds -> CmdType]
    BY ONLY <2>2, <2>3
  <2>. QED BY ONLY <2>3, <2>4, <2>5 DEF RegType
<1> DEFINE with == on \cup {c}
<1>13. ASSUME NEW d \in with, q.cmd[d].next # None
       PROVE  /\ q.cmd[d].next \in with /\ q.cmd[q.cmd[d].next].prev = d
              /\ Info[q.cmd[d].next].name = Info[d].name
  <2>1. CASE d = c
    <3>1. q.cmd[d].next = at /\ at # None
      BY <1>10, <1>13, <2>1
    <3>. QED BY <1>1, <1>2, <1>7, <1>8, <1>11, <2>1, <3>1
  <2>2. CASE d # c
    <3>1. d \in on /\ d \in Cmds
      BY <1>1, <2>2
    <3>2. PICK e : e = r.cmd[d].next
      OBVIOUS
    <3>3. q.cmd[d].next = e /\ e # None
      BY <1>11, <1>13, <2>2, <3>1, <3>2
    <3>4. e \in on /\ r.cmd[e].prev = d /\ Info[e].name = Info[d].name
      BY <1>1, <3>1, <3>2, <3>3 DEF Pointers
    <3>5. e # at /\ e # c
      BY <1>1, <1>7, <1>8, <3>1, <3>3, <3>4, NoneApart
    <3>. QED BY <1>1, <1>11, <3>3, <3>4, <3>5
  <2>. QED BY <2>1, <2>2
<1>14. ASSUME NEW d \in with
       PROVE  IF q.cmd[d].prev = None THEN q.head[Info[d].name] = d
              ELSE q.cmd[d].prev \in with /\ q.cmd[q.cmd[d].prev].next = d
  <2>0. Info[d].name \in Names
    BY <1>1, NoneApart
  <2>1. CASE d = c
    BY <1>2, <1>9, <1>10, <2>1
  <2>2. CASE d # c /\ d = at
    BY <1>1, <1>7, <1>10, <1>11, <2>2
  <2>3. CASE d # c /\ d # at
    <3>1. d \in on /\ d \in Cmds
      BY <1>1, <2>3
    <3>2. PICK p : p = r.cmd[d].prev
      OBVIOUS
    <3>3. q.cmd[d].prev = p
      BY <1>11, <2>3, <3>1, <3>2
    <3>4. CASE p = None
      <4>0. IF p = None THEN r.head[Info[d].name] = d ELSE p \in on /\ r.cmd[p].next = d
        BY ONLY <1>1, <3>1, <3>2 DEF Pointers
      <4>1. r.head[Info[d].name] = d
        BY ONLY <3>4, <4>0
      <4>2. Info[d].name # n
        BY <1>3, <2>3, <4>1
      <4>. QED BY <1>9, <2>0, <3>3, <3>4, <4>1, <4>2
    <3>5. CASE p # None
      <4>1. p \in on /\ r.cmd[p].next = d
        BY <1>1, <3>1, <3>2, <3>5 DEF Pointers
      <4>. QED BY <1>1, <1>7, <1>11, <3>3, <3>5, <4>1
    <3>. QED BY <3>4, <3>5
  <2>. QED BY <2>1, <2>2, <2>3
<1>15. ASSUME NEW m \in Names, q.head[m] # None
       PROVE  q.head[m] \in with /\ Info[q.head[m]].name = m /\ q.cmd[q.head[m]].prev = None
  <2>1. CASE m = n
    BY <1>2, <1>9, <1>10, <2>1
  <2>2. CASE m # n
    <3>1. PICK h : h = r.head[m]
      OBVIOUS
    <3>2. q.head[m] = h /\ h # None
      BY <1>9, <1>15, <2>2, <3>1
    <3>3. h \in on /\ Info[h].name = m /\ r.cmd[h].prev = None
      BY <1>1, <3>1, <3>2 DEF Pointers
    <3>4. h # at /\ h # c
      BY <1>7, <1>8, <2>2, <3>2, <3>3
    <3>. QED BY <1>1, <1>11, <3>2, <3>3, <3>4
  <2>. QED BY <2>1, <2>2
<1>16. ASSUME NEW d \in with, NEW e \in with, d # e, Info[d].name = Info[e].name
       PROVE  Info[d].mask \cap Info[e].mask = {}
  <2>1. CASE d = c
    BY <1>2, <1>7, <1>16, <2>1
  <2>2. CASE e = c
    <3>1. d \in on /\ Info[d].name = n
      BY <1>2, <1>16, <2>2
    <3>. QED BY <1>7, <2>2, <3>1
  <2>3. CASE d # c /\ e # c
    BY <1>1, <1>16, <2>3 DEF Pointers
  <2>. QED BY <2>1, <2>2, <2>3
<1>17. Pointers(q, with)
  <2>1. with \subseteq Cmds
    BY <1>1
  <2> HIDE DEF with
  <2>. QED BY <1>12, <1>13, <1>14, <1>15, <1>16, <2>1 DEF Pointers
<1>18. PICK N \in Nat : \A d \in Cmds : rank[d] <= N /\ rank[d] \in Nat
  BY <1>1 DEF Ranked
<1>19. PICK rank2 : rank2 = [rank EXCEPT ![c] = N + 1]
  OBVIOUS
<1>20. /\ rank2 \in [Cmds -> Nat] /\ rank2[c] = N + 1
       /\ \A d \in Cmds : d # c => rank2[d] = rank[d]
  BY <1>1, <1>19 DEF Ranked
<1>21. Ranked(q, rank2)
  <2>1. \A d \in Cmds : rank2[d] <= N + 1
    BY <1>18, <1>20
  <2>2. ASSUME NEW d \in Cmds, q.cmd[d].next # None
        PROVE  rank2[q.cmd[d].next] < rank2[d]
    <3>1. CASE d = c
      <4>1. q.cmd[d].next = at /\ at # None
        BY <1>10, <2>2, <3>1
      <4>2. at \in Cmds /\ at # c
        BY <1>1, <1>7, <1>8, <4>1
      <4>. QED BY <1>18, <1>20, <3>1, <4>1, <4>2
    <3>2. CASE d # c
      <4>1. PICK e : e = r.cmd[d].next
        OBVIOUS
      <4>2. q.cmd[d].next = e /\ e # None
        BY <1>11, <2>2, <3>2, <4>1
      <4>3. d \in on
        BY <4>1, <4>2 DEF Clean, Blank
      <4>4. e \in on
        BY <1>1, <4>1, <4>2, <4>3 DEF Pointers
      <4>5. e \in Cmds /\ e # c
        BY <1>1, <1>7, <4>4
      <4>6. rank[e] < rank[d]
        BY <1>1, <4>1, <4>2 DEF Ranked
      <4>. QED BY <1>20, <3>2, <4>2, <4>5, <4>6
    <3>. QED BY <3>1, <3>2
  <2>3. N + 1 \in Nat
    OBVIOUS
  <2>. QED BY <1>20, <2>1, <2>2, <2>3 DEF Ranked
<1>22. \A d \in on : rank2[d] < rank2[c] /\ rank2[d] = rank[d]
  BY <1>1, <1>7, <1>18, <1>20
<1>23. /\ \A d \in on : q.cmd[d].owner = r.cmd[d].owner /\ q.cmd[d].loaded
       /\ \A d \in {c} : q.cmd[d].owner = owner /\ q.cmd[d].loaded
       /\ \A d \in Cmds \ with : q.cmd[d] = Blank
  <2>1. \A d \in on : q.cmd[d].owner = r.cmd[d].owner /\ q.cmd[d].loaded
    BY <1>1, <1>7, <1>11 DEF Clean
  <2>2. \A d \in Cmds \ with : q.cmd[d] = Blank
    <3> SUFFICES ASSUME NEW d \in Cmds \ with PROVE q.cmd[d] = Blank
      OBVIOUS
    <3>1. d # c /\ d \notin on /\ d # at
      BY <1>8, NoneApart
    <3>. QED BY <1>11, <3>1 DEF Clean
  <2>. QED BY <1>10, <2>1, <2>2
<1> HIDE DEF with
<1>24. Lists(q, with, rank2)
  BY <1>17, <1>21 DEF Lists
<1>25. Grown(r, q, on, {c}, owner, rank, rank2)
  BY <1>22, <1>23, <1>24 DEF Grown, with
<1>. QED BY <1>5, <1>22, <1>25

-----------------------------------------------------------------------------
(* Many commands come: u_cmds_reg.                                         *)

(* reg_one keeps the type, whatever the registry.                          *)
LEMMA RegOneType ==
  ASSUME NEW r \in RegType, NEW c \in Cmds, NEW owner \in Modules \cup {None}
  PROVE  RegOne(r, c, owner) \in RegType
<1>1. PICK n \in Names : n = Info[c].name
  BY NoneApart
<1>2. PICK at \in Cmds \cup {None} : at = r.head[n]
  BY RegFields
<1>3. /\ r.head \in [Names -> Cmds \cup {None}] /\ r.cmd \in [Cmds -> CmdType]
      /\ \A d \in Cmds : r.cmd[d] \in CmdType
  BY RegFields
<1>4. PICK head, cmd :
        /\ head = [r.head EXCEPT ![n] = c]
        /\ cmd = [d \in Cmds |->
                    IF d = c THEN [next |-> at, prev |-> None, owner |-> owner, loaded |-> TRUE]
                    ELSE IF d = at THEN [r.cmd[d] EXCEPT !.prev = c]
                    ELSE r.cmd[d]]
  OBVIOUS
<1>5. RegOne(r, c, owner) = r \/ RegOne(r, c, owner) = [head |-> head, cmd |-> cmd]
  BY <1>1, <1>2, <1>4 DEF RegOne
<1>6. head \in [Names -> Cmds \cup {None}]
  BY <1>3, <1>4
<1>7. ASSUME NEW d \in Cmds
      PROVE  (IF d = c THEN [next |-> at, prev |-> None, owner |-> owner, loaded |-> TRUE]
              ELSE IF d = at THEN [r.cmd[d] EXCEPT !.prev = c] ELSE r.cmd[d]) \in CmdType
  <2>1. r.cmd[d] \in CmdType
    BY <1>3
  <2>2. [next |-> at, prev |-> None, owner |-> owner, loaded |-> TRUE] \in CmdType
    BY DEF CmdType
  <2>3. [r.cmd[d] EXCEPT !.prev = c] \in CmdType
    BY <2>1 DEF CmdType
  <2>. QED BY <2>1, <2>2, <2>3
<1>8. cmd \in [Cmds -> CmdType]
  BY <1>4, <1>7
<1>9. [head |-> head, cmd |-> cmd] \in RegType
  BY <1>6, <1>8 DEF RegType
<1>. QED BY <1>5, <1>9

(* u_cmds_reg is a loop over the table.                                    *)
LEMMA CmdsRegSteps ==
  ASSUME NEW r \in RegType, NEW m \in Modules, NEW T, T = Table[m], T \in Seq(Cmds)
  PROVE  \E f : /\ f[0] = r
                /\ \A i \in 1..Len(T) : f[i] = RegOne(f[i - 1], T[i], m)
                /\ CmdsReg(r, m) = f[Len(T)]
<1>1. PICK N \in Nat : N = Len(T)
  OBVIOUS
<1>2. \A i \in 1..N : T[i] \in Cmds
  BY <1>1
<1>3. PICK G \in [1..N -> [RegType -> RegType]] :
        \A i \in 1..N : \A q \in RegType : G[i][q] = RegOne(q, T[i], m)
  <2>1. \A i \in 1..N : [q \in RegType |-> RegOne(q, T[i], m)] \in [RegType -> RegType]
    BY <1>2, RegOneType
  <2>2. [i \in 1..N |-> [q \in RegType |-> RegOne(q, T[i], m)]]
          \in [1..N -> [RegType -> RegType]]
    BY <2>1
  <2>. QED BY <2>2
<1>4. PICK f \in [0..N -> RegType] : f[0] = r /\ \A i \in 1..N : f[i] = G[i][f[i - 1]]
  BY ONLY StepsExist
<1>5. \A i \in 1..N : f[i] = RegOne(f[i - 1], T[i], m)
  <2> SUFFICES ASSUME NEW i \in 1..N PROVE f[i] = RegOne(f[i - 1], T[i], m)
    OBVIOUS
  <2>1. i - 1 \in 0..N
    OBVIOUS
  <2>. QED BY <1>3, <1>4, <2>1
<1> DEFINE Def(g) == g = [i \in 0..N |-> IF i = 0 THEN r ELSE RegOne(g[i - 1], T[i], m)]
           after == CHOOSE g : Def(g)
<1>6. Def(f)
  <2>1. \A i \in 0..N : i = 0 \/ i \in 1..N
    OBVIOUS
  <2>2. \A i \in 0..N : f[i] = IF i = 0 THEN r ELSE RegOne(f[i - 1], T[i], m)
    BY ONLY <1>4, <1>5, <2>1
  <2>. QED BY ONLY <1>4, <2>2
<1>7. Def(after)
  <2> HIDE DEF Def
  <2>. QED BY <1>6
<1>8. PICK g : g = after
  OBVIOUS
<1>9. \A i \in 0..N : g[i] = IF i = 0 THEN r ELSE RegOne(g[i - 1], T[i], m)
  <2>1. g = [i \in 0..N |-> IF i = 0 THEN r ELSE RegOne(g[i - 1], T[i], m)]
    BY <1>7, <1>8
  <2>. QED BY ONLY <2>1
<1>10. CmdsReg(r, m) = g[N]
  BY <1>1, <1>8 DEF CmdsReg
<1>11. 0 \in 0..N /\ \A i \in 1..N : i \in 0..N /\ i # 0
  OBVIOUS
<1> HIDE DEF after, Def
<1>. QED BY <1>1, <1>9, <1>10, <1>11

\* Those of a table that are not refused.
Fresh(on, m) == {c \in ToSet(Table[m]) : ~Refused(on, c)}

(* What the commands of a table are.                                       *)
LEMMA TableFacts ==
  ASSUME NEW m \in Modules
  PROVE  /\ Table[m] \in Seq(Cmds) /\ DOMAIN Table[m] = 1..Len(Table[m])
         /\ ToSet(Table[m]) \subseteq Cmds /\ ToSet(Table[m]) \cap Aliases = {}
         /\ \A i, j \in 1..Len(Table[m]) :
                i # j => /\ Table[m][i] # Table[m][j]
                         /\ Info[Table[m][i]].name = Info[Table[m][j]].name =>
                              Info[Table[m][i]].mask \cap Info[Table[m][j]].mask = {}
<1>1. PICK T : T = Table[m]
  OBVIOUS
<1>2. T \in Seq(StaticCmds) /\ IsInjective(T)
  BY <1>1, TableAssumption
<1>3. DOMAIN T = 1..Len(T) /\ \A i \in 1..Len(T) : T[i] \in StaticCmds
  BY <1>2
<1>4. ToSet(T) \subseteq StaticCmds
  BY <1>3 DEF ToSet
<1>5. \A i, j \in 1..Len(T) : i # j => T[i] # T[j]
  BY <1>2, <1>3 DEF IsInjective
<1>6. \A c, d \in ToSet(T) :
        c # d /\ Info[c].name = Info[d].name => Info[c].mask \cap Info[d].mask = {}
  BY <1>1, TableAssumption
<1>7. \A i \in 1..Len(T) : T[i] \in ToSet(T)
  BY <1>3 DEF ToSet
<1>8. T \in Seq(Cmds) /\ ToSet(T) \subseteq Cmds /\ ToSet(T) \cap Aliases = {}
  <2>1. StaticCmds \subseteq Cmds /\ StaticCmds \cap Aliases = {}
    BY TableAssumption DEF Cmds
  <2>2. T \in Seq(Cmds)
    BY <1>2, <2>1
  <2>. QED BY <1>4, <2>1, <2>2
<1>. QED BY <1>1, <1>3, <1>5, <1>6, <1>7, <1>8

\* p is q after one more command came, the highest in rank.
OneMore(r, p, on, new, c, m, rank, rank2) ==
    \E rank3 : /\ Grown(r, p, on, new \cup {c}, m, rank, rank3)
               /\ \A d \in on \cup new : rank3[d] = rank2[d] /\ rank3[d] < rank3[c]

(* A round of the loop.                                                    *)
LEMMA GrownMore ==
  ASSUME NEW r, NEW q, NEW on, NEW new, NEW m \in Modules, NEW rank, NEW rank2,
         Grown(r, q, on, new, m, rank, rank2), NEW c \in Cmds, ~Refused(on \cup new, c)
  PROVE  OneMore(r, RegOne(q, c, m), on, new, c, m, rank, rank2)
<1>1. PICK with, p : with = on \cup new /\ p = RegOne(q, c, m)
  OBVIOUS
<1>2. Lists(q, with, rank2) /\ Clean(q, with)
  BY <1>1 DEF Grown, Clean
<1>3. ~Refused(with, c) /\ m \in Modules \cup {None}
  BY <1>1
<1>4. PICK rank3 : Grown(q, p, with, {c}, m, rank2, rank3) /\ \A d \in with : rank3[d] < rank3[c]
  BY <1>1, <1>2, <1>3, RegOneKeeps
<1>5. with \cup {c} = on \cup (new \cup {c})
  BY <1>1
<1>6. Grown(r, p, on, new \cup {c}, m, rank, rank3)
  BY <1>1, <1>4, <1>5 DEF Grown
<1>7. \A d \in with : rank3[d] = rank2[d]
  BY <1>4 DEF Grown
<1>. QED BY <1>1, <1>4, <1>6, <1>7 DEF OneMore

(* The commands of a table that are not refused come, the later ones in    *)
(* front.                                                                  *)
LEMMA CmdsRegKeeps ==
  ASSUME NEW r, NEW on, NEW rank, Lists(r, on, rank), Clean(r, on), NEW m \in Modules
  PROVE  \E rank2 :
           /\ Grown(r, CmdsReg(r, m), on, Fresh(on, m), m, rank, rank2)
           /\ \A i, j \in 1..Len(Table[m]) :
                i < j /\ Table[m][i] \in Fresh(on, m) /\ Table[m][j] \in Fresh(on, m)
                  => rank2[Table[m][i]] < rank2[Table[m][j]]
<1>1. PICK T : T = Table[m]
  OBVIOUS
<1>2. /\ T \in Seq(Cmds) /\ DOMAIN T = 1..Len(T) /\ ToSet(T) \subseteq Cmds
      /\ \A i, j \in 1..Len(T) :
             i # j => /\ T[i] # T[j]
                      /\ Info[T[i]].name = Info[T[j]].name =>
                           Info[T[i]].mask \cap Info[T[j]].mask = {}
  BY <1>1, TableFacts
<1>3. r \in RegType /\ on \subseteq Cmds
  BY DEF Lists, Pointers
<1>4. PICK f : /\ f[0] = r
               /\ \A i \in 1..Len(T) : f[i] = RegOne(f[i - 1], T[i], m)
               /\ CmdsReg(r, m) = f[Len(T)]
  BY <1>1, <1>2, <1>3, CmdsRegSteps
<1>5. PICK N \in Nat : N = Len(T)
  <2>1. T \in Seq(Cmds)
    BY <1>2
  <2>2. Len(T) \in Nat
    BY ONLY <2>1
  <2>. QED BY ONLY <2>2
<1>6. \A i \in 1..N : T[i] \in Cmds
  <2>1. T \in Seq(Cmds)
    BY <1>2
  <2>. QED BY ONLY <1>5, <2>1
<1> DEFINE New(i) == {c \in Cmds : ~Refused(on, c) /\ \E j \in 1..i : T[j] = c}
           InOrder(i, rk) == \A j, k \in 1..i :
             j < k /\ ~Refused(on, T[j]) /\ ~Refused(on, T[k]) => rk[T[j]] < rk[T[k]]
           S == {i \in 0..N : \E rk : Grown(r, f[i], on, New(i), m, rank, rk) /\ InOrder(i, rk)}
<1>7. 0 \in S
  <2>1. New(0) = {} /\ on \cup {} = on /\ 0 \in 0..N /\ InOrder(0, rank)
    OBVIOUS
  <2>2. Grown(r, f[0], on, {}, m, rank, rank)
    BY <1>4, <2>1 DEF Grown, Clean
  <2>. QED BY <2>1, <2>2
<1>8. ASSUME NEW i \in 1..N, i - 1 \in S PROVE i \in S
  <2>1. PICK rk : Grown(r, f[i - 1], on, New(i - 1), m, rank, rk) /\ InOrder(i - 1, rk)
    BY <1>8
  <2>2. PICK q, c, new : q = f[i - 1] /\ c = T[i] /\ new = New(i - 1)
    OBVIOUS
  <2>3. c \in Cmds /\ f[i] = RegOne(q, c, m) /\ Grown(r, q, on, new, m, rank, rk)
    BY <1>4, <1>5, <1>6, <2>1, <2>2
  <2>4. /\ i \in 0..N /\ \A j : j \in 1..i <=> j \in 1..(i - 1) \/ j = i
        /\ \A j \in 1..(i - 1) : j \in 1..N /\ j # i /\ j < i
    OBVIOUS
  <2>5. \A d \in new : d # c /\ (Info[d].name = Info[c].name =>
                                   Info[d].mask \cap Info[c].mask = {})
    <3> SUFFICES ASSUME NEW d \in new
                 PROVE  d # c /\ (Info[d].name = Info[c].name =>
                                   Info[d].mask \cap Info[c].mask = {})
      OBVIOUS
    <3>1. PICK j \in 1..(i - 1) : T[j] = d
      BY <2>2
    <3>. QED BY <1>2, <1>5, <2>2, <2>4, <3>1
  <2>6. Refused(on \cup new, c) <=> Refused(on, c)
    BY <2>5 DEF Refused
  <2>7. CASE Refused(on, c)
    <3>1. New(i) = new
      BY <2>2, <2>4, <2>7
    <3>2. f[i] = q
      <4>1. PICK with : with = on \cup new
        OBVIOUS
      <4>2. Lists(q, with, rk) /\ Clean(q, with) /\ Refused(with, c)
        BY <2>3, <2>6, <2>7, <4>1 DEF Grown, Clean
      <4>3. RegOne(q, c, m) = q
        BY ONLY <2>3, <4>2, RegOneCases
      <4>. QED BY <2>3, <4>3
    <3>3. InOrder(i, rk)
      <4> SUFFICES ASSUME NEW j \in 1..i, NEW k \in 1..i,
                          j < k, ~Refused(on, T[j]), ~Refused(on, T[k])
                   PROVE  rk[T[j]] < rk[T[k]]
        OBVIOUS
      <4>1. j # i /\ k # i
        BY <2>2, <2>7
      <4>2. j \in 1..(i - 1) /\ k \in 1..(i - 1)
        BY <2>4, <4>1
      <4>. QED BY <2>1, <4>2
    <3>. QED BY <2>3, <2>4, <3>1, <3>2, <3>3
  <2>8. CASE ~Refused(on, c)
    <3>1. PICK rk3 : /\ Grown(r, f[i], on, new \cup {c}, m, rank, rk3)
                     /\ \A d \in on \cup new : rk3[d] = rk[d] /\ rk3[d] < rk3[c]
      <4>1. c \in Cmds /\ Grown(r, q, on, new, m, rank, rk) /\ ~Refused(on \cup new, c)
        BY <2>3, <2>6, <2>8
      <4>2. OneMore(r, RegOne(q, c, m), on, new, c, m, rank, rk)
        BY ONLY <4>1, m \in Modules, GrownMore
      <4>. QED BY <2>3, <4>2 DEF OneMore
    <3>2. New(i) = new \cup {c}
      BY <2>2, <2>3, <2>4, <2>8
    <3>3. InOrder(i, rk3)
      <4> SUFFICES ASSUME NEW j \in 1..i, NEW k \in 1..i,
                          j < k, ~Refused(on, T[j]), ~Refused(on, T[k])
                   PROVE  rk3[T[j]] < rk3[T[k]]
        OBVIOUS
      <4>1. j \in 1..(i - 1) /\ (k \in 1..(i - 1) \/ k = i)
        BY <2>4
      <4>2. T[j] \in new
        BY <1>6, <2>2, <2>4, <4>1
      <4>3. CASE k = i
        BY <2>2, <3>1, <4>2, <4>3
      <4>4. CASE k \in 1..(i - 1)
        <5>1. T[k] \in new
          BY <1>6, <2>2, <2>4, <4>4
        <5>2. rk[T[j]] < rk[T[k]]
          BY <2>1, <4>1, <4>4
        <5>. QED BY <3>1, <4>2, <5>1, <5>2
      <4>. QED BY <4>1, <4>3, <4>4
    <3>. QED BY <2>4, <3>1, <3>2, <3>3
  <2>. QED BY <2>7, <2>8
<1>9. N \in S
  <2> HIDE DEF S
  <2>1. 0..N \subseteq S
    BY ONLY <1>7, <1>8, N \in Nat, IndexInduction
  <2>. QED BY <2>1
<1>10. PICK rk : Grown(r, f[N], on, New(N), m, rank, rk) /\ InOrder(N, rk)
  BY <1>9
<1>11. New(N) = Fresh(on, m)
  <2>1. ToSet(T) = {T[j] : j \in 1..N}
    BY <1>2, <1>5 DEF ToSet
  <2>. QED BY <1>1, <1>2, <2>1 DEF Fresh
<1>12. \A i, j \in 1..Len(T) :
         i < j /\ T[i] \in Fresh(on, m) /\ T[j] \in Fresh(on, m) => rk[T[i]] < rk[T[j]]
  BY <1>5, <1>10 DEF Fresh
<1>13. Grown(r, CmdsReg(r, m), on, Fresh(on, m), m, rank, rk)
  BY <1>4, <1>5, <1>10, <1>11
<1>. QED BY <1>1, <1>12, <1>13
-----------------------------------------------------------------------------
(* Loads, aliases and reloads.                                             *)

(* New commands that know their module, and of which those that ask for a  *)
(* repeat are behind another, leave the registry sound.                    *)
LEMMA GrownSound ==
  ASSUME NEW r, NEW q, NEW ms, NEW ms2, NEW on, NEW new, NEW owner, NEW rank, NEW rank2,
         Sound(r, ms, on, rank), Grown(r, q, on, new, owner, rank, rank2),
         ms \subseteq ms2, ms2 \subseteq Modules,
         \A c \in new : /\ c \in Aliases => owner = None /\ Alias \in ms2
                        /\ c \notin Aliases => owner \in ms2 /\ c \in ToSet(Table[owner]),
         \A c \in new : Repeats(c) =>
             \E d \in new : Info[d].name = Info[c].name /\ rank2[c] < rank2[d]
  PROVE  Sound(q, ms2, on \cup new, rank2)
<1>1. /\ Lists(q, on \cup new, rank2)
      /\ \A d \in on : q.cmd[d].owner = r.cmd[d].owner /\ rank2[d] = rank[d]
      /\ \A d \in new : q.cmd[d].owner = owner
      /\ \A d \in on \cup new : q.cmd[d].loaded
      /\ \A d \in Cmds \ (on \cup new) : q.cmd[d] = Blank
  BY DEF Grown
<1>2. Owned(r, ms, on) /\ Behind(r, on, rank)
  BY DEF Sound
<1>3. Owned(q, ms2, on \cup new)
  BY <1>1, <1>2 DEF Owned
<1>4. Behind(q, on \cup new, rank2)
  <2> SUFFICES ASSUME NEW c \in on \cup new, Repeats(c)
               PROVE  \E d \in on \cup new :
                        /\ Info[d].name = Info[c].name /\ q.cmd[d].owner = q.cmd[c].owner
                        /\ rank2[c] < rank2[d]
    BY DEF Behind
  <2>1. CASE c \in on
    <3>1. PICK d \in on : /\ Info[d].name = Info[c].name /\ r.cmd[d].owner = r.cmd[c].owner
                          /\ rank[c] < rank[d]
      BY <1>2, <2>1 DEF Behind
    <3>. QED BY <1>1, <2>1, <3>1
  <2>2. CASE c \in new
    <3>1. PICK d \in new : Info[d].name = Info[c].name /\ rank2[c] < rank2[d]
      BY <2>2
    <3>. QED BY <1>1, <2>2, <3>1
  <2>. QED BY <2>1, <2>2
<1>. QED BY <1>1, <1>3, <1>4 DEF Sound

\* A sound registry of the modules "ms" has the commands "on".
Whole(r, ms, on) == \E rank : Sound(r, ms, on, rank)

(* u_cmds_reg for a module that is not loaded.                             *)
LEMMA LoadKeeps ==
  ASSUME NEW r, NEW ms, NEW on, Whole(r, ms, on), NEW m \in Modules, m \notin ms
  PROVE  Whole(CmdsReg(r, m), ms \cup {m}, on \cup Fresh(on, m))
<1>1. PICK rank : Sound(r, ms, on, rank)
  BY DEF Whole
<1>2. Lists(r, on, rank) /\ ms \subseteq Modules /\ on \subseteq Cmds /\ Owned(r, ms, on)
      /\ \A c \in Cmds \ on : r.cmd[c] = Blank
  BY <1>1 DEF Sound, Lists, Pointers
<1>3. Clean(r, on)
  BY <1>2 DEF Clean, Owned
<1>4. PICK T, new : T = Table[m] /\ new = Fresh(on, m)
  OBVIOUS
<1>5. PICK rank2 :
        /\ Grown(r, CmdsReg(r, m), on, Fresh(on, m), m, rank, rank2)
        /\ \A i, j \in 1..Len(Table[m]) :
             i < j /\ Table[m][i] \in Fresh(on, m) /\ Table[m][j] \in Fresh(on, m)
               => rank2[Table[m][i]] < rank2[Table[m][j]]
  BY ONLY <1>2, <1>3, m \in Modules, CmdsRegKeeps
<1>6. /\ T \in Seq(Cmds) /\ DOMAIN T = 1..Len(T) /\ ToSet(T) \subseteq Cmds
      /\ ToSet(T) \cap Aliases = {}
  BY <1>4, TableFacts
<1>7. new \subseteq ToSet(T)
  BY <1>4 DEF Fresh
<1>8. ASSUME NEW c \in new, Repeats(c)
      PROVE  \E d \in new : Info[d].name = Info[c].name /\ rank2[c] < rank2[d]
  <2>1. PICK i \in 1..Len(T) : T[i] = c
    BY <1>6, <1>7 DEF ToSet
  <2>2. PICK j \in (i + 1)..Len(T) :
          /\ Info[T[j]].name = Info[c].name
          /\ \A d \in Cmds \ {T[j]} : Info[d].name = Info[T[j]].name
                                        => Info[d].mask \cap Info[T[j]].mask = {}
    BY <1>4, <1>6, <1>8, <2>1, RepeatAssumption
  <2>3. j \in 1..Len(T) /\ i < j
    BY <1>6, <2>1, <2>2
  <2>4. T[j] \in ToSet(T)
    BY <1>6, <2>3 DEF ToSet
  <2>5. T[j] \notin on
    BY <1>2, <1>4, <2>4, TableOwner
  <2>6. \A d \in on : Info[d].name = Info[T[j]].name => Info[d].mask \cap Info[T[j]].mask = {}
    BY <1>2, <2>2, <2>5
  <2>7. T[j] \in new
    BY <1>4, <2>4, <2>5, <2>6 DEF Fresh, Refused
  <2>8. rank2[T[i]] < rank2[T[j]]
    BY <1>4, <1>5, <2>1, <2>3, <2>7
  <2>. QED BY <2>1, <2>2, <2>7, <2>8
<1>9. /\ \A c \in new : /\ c \in Aliases => m = None /\ Alias \in ms \cup {m}
                        /\ c \notin Aliases => m \in ms \cup {m} /\ c \in ToSet(Table[m])
      /\ \A c \in new : Repeats(c) =>
             \E d \in new : Info[d].name = Info[c].name /\ rank2[c] < rank2[d]
  BY <1>4, <1>6, <1>7, <1>8
<1>10. ms \subseteq ms \cup {m} /\ ms \cup {m} \subseteq Modules
  BY <1>2
<1>11. Grown(r, CmdsReg(r, m), on, new, m, rank, rank2)
  BY <1>4, <1>5
<1>12. Sound(CmdsReg(r, m), ms \cup {m}, on \cup new, rank2)
  BY ONLY <1>1, <1>9, <1>10, <1>11, GrownSound
<1>. QED BY <1>4, <1>12 DEF Whole

(* add_alias; an alias that is refused is given back.                      *)
LEMMA AliasKeeps ==
  ASSUME NEW r, NEW ms, NEW on, Whole(r, ms, on), NEW a \in Aliases, Alias \in ms,
         ~r.cmd[a].loaded
  PROVE  Whole(AddAlias(r, a), ms, on) \/ Whole(AddAlias(r, a), ms, on \cup {a})
<1>1. PICK rank : Sound(r, ms, on, rank)
  BY DEF Whole
<1>2. /\ Lists(r, on, rank) /\ ms \subseteq Modules /\ on \subseteq Cmds
      /\ Owned(r, ms, on) /\ Behind(r, on, rank)
      /\ \A c \in Cmds \ on : r.cmd[c] = Blank
  BY <1>1 DEF Sound, Lists, Pointers
<1>3. Clean(r, on)
  BY <1>2 DEF Clean, Owned
<1>4. a \in Cmds /\ a \notin on /\ r.cmd[a] = Blank
  BY <1>2 DEF Cmds, Owned
<1>5. CASE Refused(on, a)
  <2>1. RegOne(r, a, None) = r
    BY <1>2, <1>3, <1>4, <1>5, RegOneCases
  <2>2. PICK q : q = Forget(r, {a})
    OBVIOUS
  <2>3. AddAlias(r, a) = q
    BY <2>1, <2>2 DEF AddAlias
  <2>4. {a} \cap on = {}
    BY <1>4
  <2>5. Lists(q, on, rank) /\ \A c \in Cmds : q.cmd[c] = IF c \in {a} THEN Blank ELSE r.cmd[c]
    BY <1>2, <2>2, <2>4, ForgetKeeps
  <2>6. \A c \in Cmds : q.cmd[c] = r.cmd[c]
    BY <1>4, <2>5
  <2>7. Owned(q, ms, on) /\ Behind(q, on, rank)
    BY <1>2, <2>6 DEF Owned, Behind
  <2>8. Sound(q, ms, on, rank)
    BY <1>2, <2>5, <2>6, <2>7 DEF Sound
  <2>. QED BY <2>3, <2>8 DEF Whole
<1>6. CASE ~Refused(on, a)
  <2>1. PICK q : q = RegOne(r, a, None)
    OBVIOUS
  <2>2. None \in Modules \cup {None}
    OBVIOUS
  <2>3. PICK rank2 : Grown(r, RegOne(r, a, None), on, {a}, None, rank, rank2)
    BY <1>2, <1>3, <1>4, <1>6, <2>2, RegOneKeeps
  <2>4. Grown(r, q, on, {a}, None, rank, rank2)
    BY <2>1, <2>3
  <2>5. q # r
    BY <2>4 DEF Grown
  <2>6. AddAlias(r, a) = q
    BY <2>1, <2>5 DEF AddAlias
  <2>7. /\ \A c \in {a} : /\ c \in Aliases => None = None /\ Alias \in ms
                          /\ c \notin Aliases => None \in ms /\ c \in ToSet(Table[None])
        /\ \A c \in {a} : Repeats(c) =>
             \E d \in {a} : Info[d].name = Info[c].name /\ rank2[c] < rank2[d]
    BY RepeatAssumption
  <2>8. Sound(q, ms, on \cup {a}, rank2)
    BY ONLY <1>1, <1>2, <2>4, <2>7, GrownSound
  <2>. QED BY <2>6, <2>8 DEF Whole
<1>. QED BY <1>5, <1>6
\* What a change of the modules "ms" into "ms2" may take from the lists.
Stays(ms, ms2, on, on2) ==
    LET gone == on \ on2
    IN  \/ gone = {}
        \/ gone \subseteq Aliases /\ Alias \in ms
        \/ \E m \in ms \ ms2 : gone \subseteq ToSet(Table[m])

\* The registry and modules "st" come of such a change.
Managed(ms, on, st) == \E on2 : Whole(st.r, st.ms, on2) /\ Stays(ms, st.ms, on, on2)

(* do_module_load takes nothing away.                                      *)
LEMMA LoadManaged ==
  ASSUME NEW r, NEW ms, NEW on, Whole(r, ms, on), NEW m \in Modules
  PROVE  Managed(ms, on, Load([r |-> r, ms |-> ms], m))
<1>1. PICK st : st = Load([r |-> r, ms |-> ms], m)
  OBVIOUS
<1>2. CASE m \in ms
  <2>1. st.r = r /\ st.ms = ms
    BY <1>1, <1>2 DEF Load
  <2>. QED BY <1>1, <2>1 DEF Managed, Stays
<1>3. CASE m \notin ms
  <2>1. st.r = CmdsReg(r, m) /\ st.ms = ms \cup {m}
    BY <1>1, <1>3 DEF Load, LoadPath
  <2>2. Whole(st.r, st.ms, on \cup Fresh(on, m))
    BY <1>3, <2>1, LoadKeeps
  <2>3. Stays(ms, st.ms, on, on \cup Fresh(on, m))
    BY DEF Stays
  <2>. QED BY <1>1, <2>2, <2>3 DEF Managed
<1>. QED BY <1>2, <1>3

(* Only the commands of a module leave with it: those of its table, or the *)
(* aliases.                                                                *)
LEMMA LeavingWhat ==
  ASSUME NEW r, NEW ms, NEW on, NEW rank, Sound(r, ms, on, rank), NEW m \in ms
  PROVE  IF m = Alias THEN Leaving(r, on, m) \subseteq Aliases
         ELSE Leaving(r, on, m) \subseteq ToSet(Table[m])
<1>1. Owned(r, ms, on) /\ ms \subseteq Modules
  BY DEF Sound
<1>2. ToSet(Table[Alias]) = {}
  BY TableAssumption DEF ToSet
<1>3. ASSUME NEW c \in on, r.cmd[c].owner = m
      PROVE  c \in ToSet(Table[m])
  BY <1>1, <1>3, NoneApart DEF Owned
<1>4. CASE m = Alias
  BY <1>2, <1>3, <1>4 DEF Leaving
<1>5. CASE m # Alias
  BY <1>3, <1>5 DEF Leaving
<1>. QED BY <1>4, <1>5

(* module_unload takes away what the module brought.                       *)
LEMMA UnloadManaged ==
  ASSUME NEW r, NEW ms, NEW on, Whole(r, ms, on), NEW m \in Modules
  PROVE  Managed(ms, on, Unload([r |-> r, ms |-> ms], m))
<1>1. PICK st : st = Unload([r |-> r, ms |-> ms], m)
  OBVIOUS
<1>2. CASE m \notin ms \/ m = Manager
  <2>1. st.r = r /\ st.ms = ms
    BY <1>1, <1>2 DEF Unload
  <2>. QED BY <1>1, <2>1 DEF Managed, Stays
<1>3. CASE m \in ms /\ m # Manager
  <2>1. PICK rank : Sound(r, ms, on, rank)
    BY DEF Whole
  <2>2. PICK left : left = on \ Leaving(r, on, m)
    OBVIOUS
  <2>3. st.ms = ms \ {m} /\ Sound(st.r, ms \ {m}, left, rank)
    <3>1. m \in ms /\ m # Manager
      BY <1>3
    <3>2. Unloaded(r, ms, on, rank, m, Unload([r |-> r, ms |-> ms], m))
      BY ONLY <2>1, <3>1, UnloadKeeps
    <3>. QED BY <1>1, <2>2, <3>2 DEF Unloaded
  <2>4. on \ left \subseteq Leaving(r, on, m)
    BY <2>2
  <2>5. Stays(ms, st.ms, on, left)
    BY <1>3, <2>1, <2>3, <2>4, LeavingWhat DEF Stays
  <2>. QED BY <1>1, <2>3, <2>5 DEF Managed, Whole
<1>. QED BY <1>2, <1>3

(* A reload brings back what the unload took, but for the aliases: what    *)
(* stayed on the lists in between refuses none of it.                      *)
LEMMA ReloadManaged ==
  ASSUME NEW r, NEW ms, NEW on, Whole(r, ms, on), NEW m \in Modules
  PROVE  Managed(ms, on, Reload([r |-> r, ms |-> ms], m))
<1>1. PICK st : st = Unload([r |-> r, ms |-> ms], m)
  OBVIOUS
<1>2. CASE m \notin ms \/ m = Manager
  <2>1. Unload([r |-> r, ms |-> ms], m) = [r |-> r, ms |-> ms]
    BY <1>2 DEF Unload
  <2>. QED BY <2>1, LoadManaged DEF Reload
<1>3. CASE m \in ms /\ m # Manager
  <2>1. PICK rank : Sound(r, ms, on, rank)
    BY DEF Whole
  <2>2. PICK left : left = on \ Leaving(r, on, m)
    OBVIOUS
  <2>3. st.ms = ms \ {m} /\ Sound(st.r, ms \ {m}, left, rank)
    <3>1. m \in ms /\ m # Manager
      BY <1>3
    <3>2. Unloaded(r, ms, on, rank, m, Unload([r |-> r, ms |-> ms], m))
      BY ONLY <2>1, <3>1, UnloadKeeps
    <3>. QED BY <1>1, <2>2, <3>2 DEF Unloaded
  <2>4. PICK p : p = Load(st, m)
    OBVIOUS
  <2>5. p.r = CmdsReg(st.r, m) /\ p.ms = st.ms \cup {m} /\ m \notin st.ms
    BY <2>3, <2>4 DEF Load, LoadPath
  <2>6. Whole(st.r, st.ms, left)
    BY <2>3 DEF Whole
  <2>7. Whole(p.r, p.ms, left \cup Fresh(left, m))
    BY <2>5, <2>6, LoadKeeps
  <2>8. Stays(ms, p.ms, on, left \cup Fresh(left, m))
    <3>1. CASE m = Alias
      <4>1. on \ (left \cup Fresh(left, m)) \subseteq Aliases
        BY <1>3, <2>1, <2>2, <3>1, LeavingWhat
      <4>. QED BY <1>3, <3>1, <4>1 DEF Stays
    <3>2. CASE m # Alias
      <4>1. \A c, d \in on : c # d /\ Info[c].name = Info[d].name
                               => Info[c].mask \cap Info[d].mask = {}
        BY <2>1 DEF Sound, Lists, Pointers
      <4>2. ASSUME NEW c \in on, c \notin left PROVE c \in Fresh(left, m)
        <5>1. c \in ToSet(Table[m])
          BY <1>3, <2>1, <2>2, <3>2, <4>2, LeavingWhat
        <5>2. ~Refused(left, c)
          BY <2>2, <4>1, <4>2 DEF Refused
        <5>. QED BY <5>1, <5>2 DEF Fresh
      <4>3. on \ (left \cup Fresh(left, m)) = {}
        BY <4>2
      <4>. QED BY <4>3 DEF Stays
    <3>. QED BY <3>1, <3>2
  <2>9. Reload([r |-> r, ms |-> ms], m) = p
    BY <1>1, <2>4 DEF Reload
  <2>. QED BY <2>7, <2>8, <2>9 DEF Managed
<1>. QED BY <1>2, <1>3

(* c_lo_module.                                                            *)
LEMMA ManageKeeps ==
  ASSUME NEW r, NEW ms, NEW on, Whole(r, ms, on), NEW m \in Modules,
         NEW op \in {"load", "unload", "reload"}
  PROVE  Managed(ms, on, Manage([r |-> r, ms |-> ms], op, m))
<1>1. CASE op = "load"
  BY <1>1, LoadManaged DEF Manage
<1>2. CASE op = "unload"
  BY <1>2, UnloadManaged DEF Manage
<1>3. CASE op = "reload"
  BY <1>3, ReloadManaged DEF Manage
<1>. QED BY <1>1, <1>2, <1>3
-----------------------------------------------------------------------------
(* Dispatch.                                                               *)

(* A set of natural numbers that is not empty has a least one.             *)
LEMMA LeastExists ==
  ASSUME NEW S, S \subseteq Nat, S # {}
  PROVE  \E i \in S : \A j \in S : i <= j
<1> DEFINE T == {n \in Nat : \A k \in 0..n : k \notin S}
<1>1. SUFFICES ASSUME \A i \in S : \E j \in S : j < i PROVE FALSE
  OBVIOUS
<1>2. 0 \in T
  BY <1>1
<1>3. \A n \in Nat : n \in T => n + 1 \in T
  <2> SUFFICES ASSUME NEW n \in Nat, n \in T PROVE n + 1 \in T
    OBVIOUS
  <2>1. \A k \in 0..(n + 1) : k \in 0..n \/ k = n + 1
    OBVIOUS
  <2>2. n + 1 \notin S
    BY <1>1
  <2>. QED BY <2>1, <2>2
<1>4. Nat \subseteq T
  <2> HIDE DEF T
  <2>. QED BY <1>2, <1>3, SetInduction
<1>5. PICK x \in Nat : x \in S
  OBVIOUS
<1>6. x \in T
  BY <1>4
<1>7. x \in 0..x
  OBVIOUS
<1>. QED BY <1>5, <1>6, <1>7

(* find_command finds the first command of the name that serves the mask.  *)
LEMMA FoundRight ==
  ASSUME NEW on, NEW rank, Lists(reg, on, rank), NEW n \in Names, NEW mask,
         FindCommand(n, mask) # None
  PROVE  \E i \in 1..Len(Chain(reg, n)) :
            /\ Chain(reg, n)[i] = FindCommand(n, mask)
            /\ Info[FindCommand(n, mask)].mask \cap mask # {}
            /\ \A j \in 1..Len(Chain(reg, n)) :
                   Info[Chain(reg, n)[j]].mask \cap mask # {} => i <= j
<1>1. PICK ch : ch = Chain(reg, n)
  OBVIOUS
<1>2. ch \in Seq(Cmds)
  BY <1>1, ChainOn
<1>3. DOMAIN ch = 1..Len(ch) /\ Len(ch) \in Nat
  BY <1>2
<1>4. PICK hits : hits = {i \in DOMAIN ch : Info[ch[i]].mask \cap mask # {}}
  OBVIOUS
<1>5. FindCommand(n, mask) = IF hits = {} THEN None
                             ELSE ch[CHOOSE i \in hits : \A j \in hits : i <= j]
  BY <1>1, <1>4 DEF FindCommand
<1>6. hits # {} /\ hits \subseteq Nat
  BY <1>3, <1>4, <1>5
<1>7. \E i \in hits : \A j \in hits : i <= j
  BY ONLY <1>6, LeastExists
<1>8. PICK i : i = CHOOSE k \in hits : \A j \in hits : k <= j
  OBVIOUS
<1>9. i \in hits /\ \A j \in hits : i <= j
  BY <1>7, <1>8
<1>10. ch[i] = FindCommand(n, mask)
  BY <1>5, <1>6, <1>8
<1>. QED BY <1>1, <1>3, <1>4, <1>9, <1>10

(* What find_command finds is on the lists and has the name.               *)
LEMMA FoundOn ==
  ASSUME NEW on, NEW rank, Lists(reg, on, rank), NEW n \in Names, NEW mask,
         FindCommand(n, mask) # None
  PROVE  /\ FindCommand(n, mask) \in on /\ FindCommand(n, mask) \in Cmds
         /\ Info[FindCommand(n, mask)].name = n
<1>1. PICK c : c = FindCommand(n, mask)
  OBVIOUS
<1>2. PICK ch : ch = Chain(reg, n)
  OBVIOUS
<1>3. \E i \in 1..Len(ch) : ch[i] = c
  BY <1>1, <1>2, FoundRight
<1>4. ch \in Seq(Cmds) /\ ToSet(ch) = {x \in on : Info[x].name = n}
  BY <1>2, ChainOn
<1>5. c \in ToSet(ch)
  BY <1>3, <1>4 DEF ToSet
<1>6. on \subseteq Cmds
  BY DEF Lists, Pointers
<1>. QED BY <1>1, <1>4, <1>5, <1>6

\* What a line can come from.
AllSources == Bits \cup {"unusable", "unknownUser"}

(* A command that asks for a repeat answers the first line of a link only: *)
(* every other source either does not match it or matches the command in   *)
(* front of it.                                                            *)
LEMMA RepeatsFirstOnly ==
  ASSUME NEW on, NEW rank, Sound(reg, modules, on, rank), NEW n \in Names,
         NEW src \in AllSources, src # "first", FindCommand(n, MaskOf(src)) # None
  PROVE  ~Repeats(FindCommand(n, MaskOf(src)))
<1>1. PICK c, mask : c = FindCommand(n, MaskOf(src)) /\ mask = MaskOf(src)
  OBVIOUS
<1>2. Lists(reg, on, rank) /\ Owned(reg, modules, on) /\ Behind(reg, on, rank)
      /\ modules \subseteq Modules
  BY DEF Sound
<1>3. c \in on /\ c \in Cmds /\ Info[c].name = n
  BY <1>1, <1>2, FoundOn
<1>4. SUFFICES ASSUME Repeats(c) PROVE FALSE
  BY <1>1
<1>5. c \notin Aliases
  BY <1>4, RepeatAssumption
<1>6. Info[c].mask = {"first"}
  <2>1. PICK m \in Modules : c \in ToSet(Table[m])
    BY <1>2, <1>3, <1>5 DEF Owned
  <2>. QED BY <1>4, <2>1, RepeatAssumption DEF ToSet
<1>7. PICK ch : ch = Chain(reg, n)
  OBVIOUS
<1>8. PICK i \in 1..Len(ch) :
        /\ ch[i] = c /\ Info[c].mask \cap mask # {}
        /\ \A j \in 1..Len(ch) : Info[ch[j]].mask \cap mask # {} => i <= j
  BY <1>1, <1>2, <1>7, FoundRight
<1>9. src = "unusable"
  <2>1. "first" \in mask
    BY <1>6, <1>8
  <2>. QED BY <1>1, <2>1 DEF MaskOf, AllSources, Bits
<1>10. mask = Bits
  BY <1>1, <1>9 DEF MaskOf
<1>11. /\ ch \in Seq(Cmds) /\ (ch # << >> => ch[1] = reg.head[n])
  BY <1>2, <1>7, ChainOn
<1>12. Len(ch) \in Nat /\ i \in Nat /\ 1 <= i /\ i <= Len(ch)
  BY <1>11
<1>13. 1 \in 1..Len(ch) /\ ch # << >> /\ ch[1] \in Cmds
  BY <1>11, <1>12
<1>14. Info[ch[1]].mask \cap mask # {}
  BY <1>10, <1>13, CommandsAssumption
<1>15. i = 1
  BY <1>8, <1>12, <1>13, <1>14
<1>16. reg.head[n] = c /\ c # None
  BY <1>3, <1>8, <1>11, <1>13, <1>15, NoneApart
<1>17. reg.cmd[c].prev = None
  BY <1>2, <1>16 DEF Lists, Pointers
<1>18. PICK d \in on : Info[d].name = Info[c].name /\ rank[c] < rank[d]
  BY <1>2, <1>3, <1>4 DEF Behind
<1>. QED BY <1>2, <1>3, <1>17, <1>18, HeadHighest

-----------------------------------------------------------------------------
(* The rate limit.                                                         *)

LimitType == [tokens : 0..FloodTokens, last : 0..MaxNow]

(* u_ratelimit_allow keeps the tokens in their range.                      *)
LEMMA AllowRight ==
  ASSUME NEW lim \in LimitType, now \in 0..MaxNow, NEW c \in Cmds
  PROVE  Allow(lim, Info[c].rate).lim \in LimitType
<1>1. PICK rate \in Nat : rate = Info[c].rate
  BY CommandsAssumption
<1>2. /\ FloodTokens \in Nat /\ RefillPeriod \in Nat /\ RefillPeriod > 0 /\ MaxNow \in Nat
      /\ Wrap \in Nat /\ Wrap > FloodTokens + MaxNow /\ rate < FloodTokens
  BY <1>1, CommandsAssumption
<1>3. PICK tokens \in 0..FloodTokens, last \in 0..MaxNow : lim.tokens = tokens /\ lim.last = last
  BY DEF LimitType
<1>4. PICK quot : quot = Quot(now - last, RefillPeriod)
  OBVIOUS
<1>5. quot \in Int
  BY <1>2, <1>4 DEF Quot
<1>7. PICK sum : sum = (tokens + quot) % Wrap
  OBVIOUS
<1>8. sum \in Int /\ 0 <= sum
  BY <1>2, <1>5, <1>7
<1>10. PICK t : t = IF sum > FloodTokens THEN FloodTokens ELSE sum
  OBVIOUS
<1>11. t \in 0..FloodTokens
  BY <1>2, <1>8, <1>10
<1>12. Allow(lim, Info[c].rate) =
         [ok |-> t > rate, lim |-> [tokens |-> IF t > rate THEN t ELSE 0, last |-> now]]
  BY <1>1, <1>3, <1>4, <1>7, <1>10 DEF Allow
<1>13. PICK a : a = Allow(lim, Info[c].rate)
  OBVIOUS
<1>14. a.ok = (t > rate) /\ a.lim.tokens = (IF t > rate THEN t ELSE 0) /\ a.lim.last = now
  BY <1>12, <1>13
<1>15. a.lim = [tokens |-> a.lim.tokens, last |-> a.lim.last]
  BY <1>12, <1>13
<1>16. a.lim.tokens \in 0..FloodTokens
  BY <1>2, <1>11, <1>14
<1>17. a.lim \in LimitType
  BY <1>14, <1>15, <1>16 DEF LimitType
<1>. QED BY <1>13, <1>17
-----------------------------------------------------------------------------
(* The invariant.                                                          *)

\* The registry after a step is sound, and has what it may not have lost.
Moved(on) == \E on2 : Whole(reg', modules', on2) /\ Stays(modules, modules', on, on2)

(* A registry of which nothing changes is the same.                        *)
LEMMA MovedNot ==
  ASSUME NEW on, Whole(reg, modules, on), reg' = reg, modules' = modules
  PROVE  Moved(on)
<1>1. Whole(reg', modules', on)
  OBVIOUS
<1>2. Stays(modules, modules', on, on)
  BY DEF Stays
<1>. QED BY <1>1, <1>2 DEF Moved

(* A step that becomes what a change of the modules makes.                 *)
LEMMA MovedManaged ==
  ASSUME NEW on, NEW st, Managed(modules, on, st), Becomes(st)
  PROVE  Moved(on)
<1>1. PICK on2 : Whole(st.r, st.ms, on2) /\ Stays(modules, st.ms, on, on2)
  BY DEF Managed
<1>2. reg' = st.r /\ modules' = st.ms
  BY DEF Becomes
<1>. QED BY <1>1, <1>2 DEF Moved

(* Every step leaves the registry sound.                                   *)
LEMMA RegistryMoves ==
  ASSUME NEW on, Whole(reg, modules, on), [Next]_vars
  PROVE  Moved(on)
<1>1. modules \subseteq Modules
  BY DEF Whole, Sound
<1>2. State = [r |-> reg, ms |-> modules]
  BY DEF State
<1>3. ASSUME NEW m \in Modules, Autoload(m) PROVE Moved(on)
  <2>1. /\ m \notin modules /\ Becomes(LoadPath(State, m))
    BY <1>3 DEF Autoload
  <2>2. reg' = CmdsReg(reg, m) /\ modules' = modules \cup {m}
    BY <1>2, <2>1 DEF Becomes, LoadPath
  <2>3. Whole(CmdsReg(reg, m), modules \cup {m}, on \cup Fresh(on, m))
    BY <2>1, LoadKeeps
  <2>4. Whole(reg', modules', on \cup Fresh(on, m))
    BY <2>2, <2>3
  <2>5. Stays(modules, modules', on, on \cup Fresh(on, m))
    BY DEF Stays
  <2>. QED BY <2>4, <2>5 DEF Moved
<1>4. ASSUME NEW m \in Modules, ConfLoad(m) PROVE Moved(on)
  <2>1. Becomes(Load(State, m))
    BY <1>4 DEF ConfLoad
  <2>2. Managed(modules, on, Load(State, m))
    BY <1>2, LoadManaged
  <2>. QED BY <2>1, <2>2, MovedManaged
<1>5. ASSUME NEW a \in Aliases, ConfAlias(a) PROVE Moved(on)
  <2>1. /\ Alias \in modules /\ ~reg.cmd[a].loaded /\ reg' = AddAlias(reg, a)
        /\ modules' = modules
    BY <1>5 DEF ConfAlias
  <2>2. PICK on2 \in {on, on \cup {a}} : Whole(AddAlias(reg, a), modules, on2)
    BY <2>1, AliasKeeps
  <2>3. Whole(reg', modules', on2)
    BY <2>1, <2>2
  <2>4. Stays(modules, modules', on, on2)
    BY <2>2 DEF Stays
  <2>. QED BY <2>3, <2>4 DEF Moved
<1>6. CASE Round
  <2>1. CASE reg' = reg /\ modules' = modules
    BY <2>1, MovedNot
  <2>2. CASE \E op \in {"load", "unload", "reload"}, m \in Modules : Becomes(Manage(State, op, m))
    <3>1. PICK op \in {"load", "unload", "reload"}, m \in Modules : Becomes(Manage(State, op, m))
      BY <2>2
    <3>2. Managed(modules, on, Manage(State, op, m))
      BY <1>2, ManageKeeps
    <3>. QED BY <3>1, <3>2, MovedManaged
  <2>. QED BY <1>6, <2>1, <2>2 DEF Round, Handler
<1>7. CASE \/ \E n \in Names, s \in Bits \cup {"unusable", "unknownUser"} : Line(n, s)
           \/ Start \/ Replace \/ SyncTime \/ UNCHANGED vars
  <2>1. reg' = reg /\ modules' = modules
    BY <1>7 DEF Line, Start, Replace, SyncTime, vars, registry
  <2>. QED BY <2>1, MovedNot
<1>. QED BY <1>3, <1>4, <1>5, <1>6, <1>7 DEF Next

Phases == {"directory", "conf", "running"}
Kinds == {"first", "unregUser", "unregServer", "localUser", "localOper", "server"}

\* The types, but those of the registry.
Typed ==
    /\ phase \in Phases /\ kind \in Kinds
    /\ limit \in LimitType /\ now \in 0..MaxNow

\* A line is from the link; a command that asked for a repeat no longer serves it.
CurOK ==
    cur # None =>
        /\ cur \in [name : Names, src : AllSources, last : Cmds \cup {None}]
        /\ cur.src \in Sources
        /\ cur.last # None => Repeats(cur.last) /\ cur.src # "first"

IInv ==
    /\ \E on : Whole(reg, modules, on)
    /\ Typed /\ CurOK /\ ~aborted

(* The first state.                                                        *)
LEMMA InitIInv == Init => IInv
<1> SUFFICES ASSUME Init PROVE IInv
  OBVIOUS
<1>1. Whole(reg, modules, {})
  <2> DEFINE rank == [c \in Cmds |-> 0]
  <2>1. reg.head = [n \in Names |-> None] /\ reg.cmd = [c \in Cmds |-> Blank]
        /\ reg = [head |-> reg.head, cmd |-> reg.cmd]
    BY DEF Init
  <2>2. Blank \in CmdType
    BY DEF Blank, CmdType
  <2>3. reg \in RegType
    BY <2>1, <2>2 DEF RegType
  <2>4. Pointers(reg, {})
    BY <2>1, <2>3 DEF Pointers
  <2>5. Ranked(reg, rank)
    <3>1. \A c \in Cmds : reg.cmd[c].next = None
      <4>1. Blank.next = None
        BY DEF Blank
      <4>. QED BY ONLY <2>1, <4>1
    <3>2. rank \in [Cmds -> Nat] /\ \A c \in Cmds : rank[c] <= 0
      OBVIOUS
    <3> HIDE DEF rank
    <3>3. \E N \in Nat : \A c \in Cmds : rank[c] <= N
      BY ONLY <3>2
    <3>. QED BY ONLY <3>1, <3>2, <3>3 DEF Ranked
  <2>6. Owned(reg, modules, {}) /\ Behind(reg, {}, rank) /\ modules \subseteq Modules
    BY DEF Owned, Behind, Init
  <2>7. Sound(reg, modules, {}, rank)
    BY <2>1, <2>4, <2>5, <2>6 DEF Sound, Lists
  <2>. QED BY <2>7 DEF Whole
<1>2. /\ 0 \in 0..MaxNow /\ FloodTokens \in 0..FloodTokens
      /\ limit = [tokens |-> FloodTokens, last |-> 0] /\ now = 0
  BY CommandsAssumption DEF Init, NoLimit
<1>3. Typed
  <2>1. limit \in LimitType
    BY <1>2 DEF LimitType
  <2>2. phase = "directory" /\ kind = "first"
    BY DEF Init
  <2>. QED BY <1>2, <2>1, <2>2 DEF Typed, Phases, Kinds
<1>4. CurOK /\ ~aborted
  BY DEF Init, CurOK
<1>. QED BY <1>1, <1>3, <1>4 DEF IInv

(* The commands a sound registry has are those that are loaded.            *)
LEMMA WholeTypes ==
  ASSUME NEW on, Whole(reg, modules, on)
  PROVE  /\ reg \in RegType /\ modules \subseteq Modules /\ Registered(reg) = on
         /\ Registered(reg) = {c \in Cmds : reg.cmd[c].loaded}
<1>1. PICK rank : Sound(reg, modules, on, rank)
  BY DEF Whole
<1>2. /\ Lists(reg, on, rank) /\ modules \subseteq Modules /\ on \subseteq Cmds
      /\ reg \in RegType /\ Owned(reg, modules, on)
      /\ \A c \in Cmds \ on : reg.cmd[c] = Blank
  BY <1>1 DEF Sound, Lists, Pointers
<1>3. Registered(reg) = on
  BY <1>2, RegisteredOn
<1>4. on = {c \in Cmds : reg.cmd[c].loaded}
  BY <1>2 DEF Owned, Blank
<1>. QED BY <1>2, <1>3, <1>4
\* What a step keeps of the invariant, but for the registry.
Rest == Typed /\ CurOK /\ ~aborted

(* A round finds no command that asked for the repeat, and one that asks   *)
(* for a repeat only for the first line of a link.                         *)
LEMMA FoundNext ==
  ASSUME IInv, cur # None, NEW c, c = FindCommand(cur.name, MaskOf(cur.src)), c # None
  PROVE  /\ c \in Cmds /\ c # cur.last
         /\ Repeats(c) => cur.src = "first" /\ kind = "first"
<1>1. PICK on, rank : Sound(reg, modules, on, rank)
  BY DEF IInv, Whole
<1>2. /\ cur.name \in Names /\ cur.src \in AllSources /\ cur.src \in Sources
      /\ cur.last # None => Repeats(cur.last) /\ cur.src # "first"
  BY DEF IInv, CurOK
<1>3. PICK n, src : n = cur.name /\ src = cur.src
  OBVIOUS
<1>4. n \in Names /\ src \in AllSources /\ FindCommand(n, MaskOf(src)) # None
  BY <1>2, <1>3
<1>5. src # "first" => ~Repeats(FindCommand(n, MaskOf(src)))
  BY ONLY <1>1, <1>4, RepeatsFirstOnly
<1>6. Lists(reg, on, rank)
  BY <1>1 DEF Sound
<1>7. FindCommand(n, MaskOf(src)) \in Cmds
  BY <1>4, <1>6, FoundOn
<1>8. c \in Cmds /\ (cur.src # "first" => ~Repeats(c))
  BY <1>3, <1>5, <1>7
<1>9. c # cur.last
  BY <1>2, <1>8
<1>10. "first" \in Sources => kind = "first"
  BY DEF Sources
<1>. QED BY <1>2, <1>8, <1>9, <1>10

(* A command that asks for a repeat makes the link a user or a server.     *)
LEMMA RepeatKeeps ==
  ASSUME IInv, NEW c \in Cmds, cur # None, Repeats(c), cur.src = "first", kind = "first",
         NEW k \in {"unregUser", "unregServer"}, kind' = k,
         cur' = [cur EXCEPT !.src = k, !.last = c],
         limit' = NewLimit, UNCHANGED << phase, now, aborted >>
  PROVE  Rest'
<1>1. /\ cur \in [name : Names, src : AllSources, last : Cmds \cup {None}]
      /\ Typed /\ ~aborted
  BY DEF IInv, CurOK
<1>2. FloodTokens \in 0..FloodTokens /\ limit' = [tokens |-> FloodTokens, last |-> now]
  BY CommandsAssumption DEF NewLimit
<1>3. limit' \in LimitType
  BY <1>1, <1>2 DEF LimitType, Typed
<1>4. Typed'
  BY <1>1, <1>3 DEF Typed, Kinds
<1>5. cur' = [name |-> cur.name, src |-> k, last |-> c]
  BY <1>1
<1>6. k \in AllSources
  BY DEF AllSources, Bits
<1>7. cur' \in [name : Names, src : AllSources, last : Cmds \cup {None}]
  BY <1>1, <1>5, <1>6
<1>8. Sources' = {k}
  BY DEF Sources
<1>9. CurOK'
  BY <1>5, <1>7, <1>8 DEF CurOK
<1>. QED BY <1>1, <1>4, <1>9 DEF Rest

(* A step that ends a line and leaves the limit alone.                     *)
LEMMA DoneKeeps ==
  ASSUME IInv, cur' = None, kind' \in Kinds, UNCHANGED << phase, limit, now, aborted >>
  PROVE  Rest'
  BY DEF IInv, Typed, CurOK, Rest

(* Every handler keeps the invariant.                                      *)
LEMMA HandlerKeeps ==
  ASSUME IInv, cur # None, NEW c \in Cmds, Handler(c),
         Repeats(c) => cur.src = "first" /\ kind = "first",
         UNCHANGED << phase, now, aborted >>
  PROVE  Rest'
<1>1. kind \in Kinds
  BY DEF IInv, Typed
<1>2. CASE /\ Repeats(c)
           /\ \E k \in RepeatAs("unregUser") \cup
                   IF Info[c].does = "asEither" THEN RepeatAs("unregServer") ELSE {} :
                 /\ kind' = k
                 /\ cur' = [cur EXCEPT !.src = IF kind = "server" THEN @ ELSE k, !.last = c]
           /\ limit' = IF kind = "first" THEN NewLimit ELSE limit
  <2>1. PICK k \in {"unregUser", "unregServer"} :
          /\ kind' = k
          /\ cur' = [cur EXCEPT !.src = IF kind = "server" THEN @ ELSE k, !.last = c]
    BY <1>2 DEF RepeatAs
  <2>2. /\ cur' = [cur EXCEPT !.src = k, !.last = c] /\ limit' = NewLimit
        /\ kind = "first" /\ cur.src = "first"
    BY <1>2, <2>1
  <2>. QED BY <1>2, <2>1, <2>2, RepeatKeeps
<1>3. CASE /\ Info[c].does = "register"
           /\ kind' \in CASE kind = "unregUser" -> {kind, "localUser"}
                          [] kind = "unregServer" -> {kind, "server"}
                          [] OTHER -> {kind}
           /\ Done /\ UNCHANGED << reg, modules, limit >>
  <2>1. kind' \in Kinds
    BY <1>1, <1>3 DEF Kinds
  <2>. QED BY <1>3, <2>1, DoneKeeps DEF Done
<1>4. CASE /\ Info[c].does = "oper"
           /\ kind' \in IF kind = "localUser" THEN {kind, "localOper"} ELSE {kind}
           /\ Done /\ UNCHANGED << reg, modules, limit >>
  <2>1. kind' \in Kinds
    BY <1>1, <1>4 DEF Kinds
  <2>. QED BY <1>4, <2>1, DoneKeeps DEF Done
<1>5. CASE Done /\ UNCHANGED << kind, limit >>
  BY <1>1, <1>5, DoneKeeps DEF Done
<1>. QED BY <1>2, <1>3, <1>4, <1>5 DEF Handler

(* A round of u_cmd_invoke keeps it.                                       *)
LEMMA RoundKeeps ==
  ASSUME IInv, Round
  PROVE  Rest'
<1>1. PICK c : c = FindCommand(cur.name, MaskOf(cur.src))
  OBVIOUS
<1>2. cur # None /\ ~aborted /\ UNCHANGED << phase, now >>
  BY DEF Round
<1>3. c # None => /\ c \in Cmds /\ c # cur.last
                  /\ Repeats(c) => cur.src = "first" /\ kind = "first"
  BY <1>1, <1>2, FoundNext
<1>4. CASE /\ c = None /\ Done
           /\ UNCHANGED << reg, modules, kind, limit, aborted >>
  <2>1. kind' \in Kinds /\ cur' = None
    BY <1>4 DEF IInv, Typed, Done
  <2>. QED BY <1>2, <1>4, <2>1, DoneKeeps
<1>5. CASE /\ c # None /\ limit' = Allow(limit, Info[c].rate).lim
           /\ Done /\ UNCHANGED << reg, modules, kind, aborted >>
  <2>1. limit \in LimitType /\ now \in 0..MaxNow
    BY DEF IInv, Typed
  <2>2. limit' \in LimitType
    BY <1>3, <1>5, <2>1, AllowRight
  <2>3. Typed' /\ CurOK' /\ ~aborted'
    BY <1>2, <1>5, <2>2 DEF IInv, Typed, CurOK, Done
  <2>. QED BY <2>3 DEF Rest
<1>6. CASE c # None /\ Handler(c) /\ UNCHANGED aborted
  BY <1>2, <1>3, <1>6, HandlerKeeps
<1>. QED BY <1>1, <1>3, <1>4, <1>5, <1>6 DEF Round
(* Every other step keeps it.                                              *)
LEMMA RestKeeps ==
  ASSUME IInv, [Next]_vars
  PROVE  Rest'
<1>1. Typed /\ CurOK /\ ~aborted /\ kind \in Kinds
  BY DEF IInv, Typed
<1>2. ASSUME NEW m \in Modules, Autoload(m) \/ ConfLoad(m) PROVE Rest'
  <2>1. UNCHANGED << kind, limit, now, cur, aborted >>
    BY <1>2 DEF Autoload, ConfLoad, source
  <2>2. phase' \in Phases
    BY <1>1, <1>2 DEF Autoload, ConfLoad, Phases, Typed
  <2>3. Typed' /\ CurOK' /\ ~aborted'
    BY <1>1, <2>1, <2>2 DEF Typed, CurOK, Sources
  <2>. QED BY <2>3 DEF Rest
<1>3. CASE (\E a \in Aliases : ConfAlias(a)) \/ Start \/ UNCHANGED vars
  <2>1. UNCHANGED << kind, limit, now, cur, aborted >>
    BY <1>3 DEF ConfAlias, Start, source, vars
  <2>2. phase' \in Phases
    BY <1>1, <1>3 DEF ConfAlias, Start, Phases, Typed, vars
  <2>3. Typed' /\ CurOK' /\ ~aborted'
    BY <1>1, <2>1, <2>2 DEF Typed, CurOK, Sources
  <2>. QED BY <2>3 DEF Rest
<1>4. ASSUME NEW n \in Names, NEW s \in AllSources, Line(n, s) PROVE Rest'
  <2>1. /\ UNCHANGED << kind, limit, phase, now, aborted >>
        /\ s \in Sources
        /\ cur' = [name |-> n, src |-> s, last |-> None]
    BY <1>4 DEF Line, source, registry
  <2>2. CurOK'
    <3>1. Sources' = Sources
      BY <2>1 DEF Sources
    <3>2. cur' \in [name : Names, src : AllSources, last : Cmds \cup {None}]
      BY <2>1
    <3>3. cur'.src = s /\ cur'.last = None
      BY <2>1
    <3>. QED BY <2>1, <3>1, <3>2, <3>3 DEF CurOK
  <2>3. Typed' /\ ~aborted'
    BY <1>1, <2>1 DEF Typed
  <2>. QED BY <2>2, <2>3 DEF Rest
<1>5. CASE Replace
  <2>1. /\ cur = None /\ kind' = "first" /\ limit' = NoLimit
        /\ UNCHANGED << phase, now, cur, aborted >>
    BY <1>5 DEF Replace, registry
  <2>2. limit' = [tokens |-> FloodTokens, last |-> 0] /\ 0 \in 0..MaxNow
        /\ FloodTokens \in 0..FloodTokens /\ 0 <= now
    BY <1>1, <2>1, CommandsAssumption DEF NoLimit, Typed
  <2>3. limit' \in LimitType
    BY <2>2 DEF LimitType
  <2>4. Typed' /\ CurOK' /\ ~aborted'
    BY <1>1, <2>1, <2>3 DEF Typed, Kinds, CurOK
  <2>. QED BY <2>4 DEF Rest
<1>6. CASE SyncTime
  <2>1. /\ cur = None /\ now' \in 0..MaxNow
        /\ UNCHANGED << phase, kind, limit, cur, aborted >>
    BY <1>6 DEF SyncTime, registry, source
  <2>2. Typed' /\ CurOK' /\ ~aborted'
    BY <1>1, <2>1 DEF Typed, CurOK
  <2>. QED BY <2>2 DEF Rest
<1>7. CASE Round
  BY <1>7, RoundKeeps
<1>. QED BY <1>2, <1>3, <1>4, <1>5, <1>6, <1>7 DEF Next, AllSources

(* The invariant is inductive, and holds.                                  *)
THEOREM InductiveInvariant == Spec => []IInv
<1>1. IInv /\ [Next]_vars => IInv'
  <2> SUFFICES ASSUME IInv, [Next]_vars PROVE IInv'
    OBVIOUS
  <2>1. PICK on : Whole(reg, modules, on)
    BY DEF IInv
  <2>2. PICK on2 : Whole(reg', modules', on2)
    BY <2>1, RegistryMoves DEF Moved
  <2>3. Rest'
    BY RestKeeps
  <2>. QED BY <2>2, <2>3 DEF IInv, Rest
<1>. QED BY <1>1, InitIInv, PTL DEF Spec

-----------------------------------------------------------------------------
(* The theorems.                                                           *)

(* Every pointer of the registry points to a command of the program or     *)
(* nowhere, and the tokens of a user stay within FLOODTOKENS.              *)
THEOREM TypeCorrect == Spec => []TypeOK
<1>1. IInv => TypeOK
  <2> SUFFICES ASSUME IInv PROVE TypeOK
    OBVIOUS
  <2>1. reg \in RegType /\ modules \subseteq Modules
    BY WholeTypes DEF IInv
  <2>2. Typed /\ aborted = FALSE
    BY DEF IInv
  <2>3. /\ reg.head \in [Names -> Cmds \cup {None}]
        /\ reg.cmd \in [Cmds -> [next : Cmds \cup {None}, prev : Cmds \cup {None},
                                 owner : Modules \cup {None}, loaded : BOOLEAN]]
    BY <2>1 DEF RegType, CmdType
  <2>. QED BY <2>1, <2>2, <2>3 DEF TypeOK, Typed, Phases, Kinds, LimitType
<1>. QED BY <1>1, InductiveInvariant, PTL

(* The list of one name is whole.                                          *)
LEMMA ChainSound ==
  ASSUME NEW on, Whole(reg, modules, on), NEW n \in Names
  PROVE  LET ch == Chain(reg, n)
         IN  /\ \A i \in 1..Len(ch) :
                   /\ Info[ch[i]].name = n
                   /\ reg.cmd[ch[i]].prev = IF i = 1 THEN None ELSE ch[i - 1]
             /\ \A i, j \in 1..Len(ch) : i # j => Info[ch[i]].mask \cap Info[ch[j]].mask = {}
<1>1. PICK rank : Lists(reg, on, rank)
  BY DEF Whole, Sound
<1>2. PICK ch : ch = Chain(reg, n)
  OBVIOUS
<1>3. /\ ch \in Seq(Cmds) /\ ToSet(ch) = {c \in on : Info[c].name = n}
      /\ \A i \in 1..Len(ch) : reg.cmd[ch[i]].prev = IF i = 1 THEN None ELSE ch[i - 1]
      /\ \A i, j \in 1..Len(ch) : i < j => rank[ch[j]] < rank[ch[i]]
  BY <1>1, <1>2, ChainOn
<1>4. /\ on \subseteq Cmds /\ rank \in [Cmds -> Nat]
      /\ \A c, d \in on : c # d /\ Info[c].name = Info[d].name
                            => Info[c].mask \cap Info[d].mask = {}
  BY <1>1 DEF Lists, Pointers, Ranked
<1>5. \A i \in 1..Len(ch) : ch[i] \in on /\ Info[ch[i]].name = n /\ rank[ch[i]] \in Nat
  BY <1>3, <1>4 DEF ToSet
<1>6. ASSUME NEW i \in 1..Len(ch), NEW j \in 1..Len(ch), i # j
      PROVE  Info[ch[i]].mask \cap Info[ch[j]].mask = {}
  <2>1. Len(ch) \in Nat
    BY <1>3
  <2>2. i < j \/ j < i
    BY <1>6, <2>1
  <2>3. rank[ch[i]] # rank[ch[j]]
    BY <1>3, <1>5, <2>2
  <2>. QED BY <1>4, <1>5, <2>3
<1>. QED BY <1>2, <1>3, <1>5, <1>6

(* The lists of commands are whole after any history of loads, unloads and *)
(* aliases (reg_one, u_cmd_unreg, on_module_unload).                       *)
THEOREM RegistryWhole == Spec => []RegistrySound
<1>1. IInv => RegistrySound
  <2> SUFFICES ASSUME IInv PROVE RegistrySound
    OBVIOUS
  <2>1. PICK on : Whole(reg, modules, on)
    BY DEF IInv
  <2>2. Registered(reg) = on /\ Registered(reg) = {c \in Cmds : reg.cmd[c].loaded}
    BY <2>1, WholeTypes
  <2>3. Owned(reg, modules, on) /\ modules \subseteq Modules
    BY <2>1 DEF Whole, Sound
  <2>4. ASSUME NEW m \in Modules \ modules PROVE Registered(reg) \cap ToSet(Table[m]) = {}
    BY <2>2, <2>3, TableOwner
  <2>5. Alias \notin modules => Registered(reg) \cap Aliases = {}
    BY <2>2, <2>3 DEF Owned
  <2>6. ASSUME NEW n \in Names
        PROVE  LET ch == Chain(reg, n)
               IN  /\ \A i \in 1..Len(ch) :
                         /\ Info[ch[i]].name = n
                         /\ reg.cmd[ch[i]].prev = IF i = 1 THEN None ELSE ch[i - 1]
                   /\ \A i, j \in 1..Len(ch) :
                         i # j => Info[ch[i]].mask \cap Info[ch[j]].mask = {}
    BY <2>1, ChainSound
  <2>. QED BY <2>2, <2>4, <2>5, <2>6 DEF RegistrySound
<1>. QED BY <1>1, InductiveInvariant, PTL

(* A module that goes takes its own commands and no other's, and a reload  *)
(* brings back what it took, but for the aliases.                          *)
THEOREM CommandsStay == Spec => OthersStay
<1> DEFINE Kept == LET gone == Registered(reg) \ Registered(reg')
                   IN  \/ gone = {}
                       \/ gone \subseteq Aliases /\ Alias \in modules
                       \/ \E m \in modules \ modules' : gone \subseteq ToSet(Table[m])
<1>1. IInv /\ [Next]_vars => Kept
  <2> SUFFICES ASSUME IInv, [Next]_vars PROVE Kept
    OBVIOUS
  <2>1. PICK on : Whole(reg, modules, on)
    BY DEF IInv
  <2>2. PICK on2 : Whole(reg', modules', on2) /\ Stays(modules, modules', on, on2)
    BY <2>1, RegistryMoves DEF Moved
  <2>3. Registered(reg) = on
    BY <2>1, WholeTypes
  <2>4. Registered(reg') = on2
    <3>1. PICK r : r = reg'
      OBVIOUS
    <3>2. PICK rank : Lists(r, on2, rank)
      BY <2>2, <3>1 DEF Whole, Sound
    <3>. QED BY <3>1, <3>2, RegisteredOn
  <2>. QED BY <2>2, <2>3, <2>4 DEF Stays
<1>2. IInv /\ [Next]_vars => [Kept]_reg
  BY <1>1
<1>. QED BY <1>2, InductiveInvariant, PTL DEF Spec, OthersStay

(* u_cmd_invoke never calls abort(): no command is found again by the      *)
(* repeat it asked for.                                                    *)
THEOREM RepeatsEnd == Spec => []NoRepeatAbort
<1>1. IInv => NoRepeatAbort
  BY DEF IInv, NoRepeatAbort
<1>. QED BY <1>1, InductiveInvariant, PTL
=============================================================================
