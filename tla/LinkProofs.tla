----------------------------- MODULE LinkProofs -----------------------------
(***************************************************************************)
(* Proofs about Link, for every set of commands, every size of the input   *)
(* buffer and of a read, every limit of the send queue and every bound on  *)
(* lines and on steps of the rest of the network.                          *)
(*                                                                         *)
(* The invariant is in two parts: the buffer (Exact), which only the       *)
(* dispatch loop, the reader and an upgrade change, and the calls that are *)
(* left (Due), which every action changes.  Of the calls that are left the *)
(* second half says more: that they fit the connection (RefinesConn), and  *)
(* the user or server of the link (FarewellOnce).                          *)
(***************************************************************************)
EXTENDS Link, SequenceTheorems, FiniteSetTheorems, TLAPS

Ops == {"dispatch", "exq", "send", "sendu", "tell_users", "tell_servers",
        "shut", "drop", "destroy", "wait", "unwait", "exec"}
Unit == [k : Kinds \cup {"part"}, n : 1..(MaxLines + 1)]

-----------------------------------------------------------------------------
(* Counting the lines of a buffer.                                         *)

(* A set of positions is finite, its number a natural one.                 *)
LEMMA Positions ==
  ASSUME NEW n \in Nat, NEW S \in SUBSET (1..n)
  PROVE  IsFiniteSet(S) /\ Cardinality(S) \in Nat /\ Cardinality(S) <= n
<1>1. IsFiniteSet(1..n) /\ Cardinality(1..n) = n
  BY FS_Interval
<1>. QED BY <1>1, FS_Subset, FS_CardinalityType

(* Moving positions by d keeps their number.                               *)
LEMMA Moved ==
  ASSUME NEW S, IsFiniteSet(S), S \subseteq Int, NEW d \in Int
  PROVE  Cardinality({j + d : j \in S}) = Cardinality(S)
<1> DEFINE T == {j + d : j \in S}
           f == [j \in S |-> j + d]
<1>1. f \in Bijection(S, T)
  <2>1. f \in Injection(S, T)
    BY DEF Injection, IsInjective
  <2>2. f \in Surjection(S, T)
    BY DEF Surjection
  <2>. QED BY <2>1, <2>2 DEF Bijection
<1>. QED BY <1>1, FS_Bijection DEF ExistsBijection

(* Two sets that have nothing in common.                                   *)
LEMMA Disjoint ==
  ASSUME NEW S, IsFiniteSet(S), NEW T, IsFiniteSet(T), S \cap T = {}
  PROVE  Cardinality(S \cup T) = Cardinality(S) + Cardinality(T)
<1>1. /\ Cardinality(S \cup T) = Cardinality(S) + Cardinality(T) - Cardinality(S \cap T)
      /\ Cardinality(S) \in Nat /\ Cardinality(T) \in Nat
  BY FS_Union, FS_CardinalityType
<1>2. Cardinality(S \cap T) = 0
  BY FS_EmptySet
<1>. QED BY <1>1, <1>2

(* The buffer p has the lines got - ran that were not dispatched, numbered *)
(* in order.                                                               *)
Before(p, i) == {j \in Complete(p) : j <= i}
Exact(p, ran, got) ==
  /\ got = ran + Cardinality(Complete(p))
  /\ \A i \in Complete(p) : p[i].n = ran + Cardinality(Before(p, i))

LEMMA LinesExactByBuffer ==
  LinesExact <=> Exact(Pending, link.ran, link.got)
BY DEF LinesExact, Exact, Before

LEMMA Wholes ==
  ASSUME NEW p \in Seq(Unit)
  PROVE  /\ Complete(p) \subseteq 1..Len(p)
         /\ IsFiniteSet(Complete(p)) /\ Cardinality(Complete(p)) \in Nat
         /\ \A i \in Int : /\ Before(p, i) \subseteq 1..Len(p)
                           /\ IsFiniteSet(Before(p, i))
                           /\ Cardinality(Before(p, i)) \in Nat
<1>1. Len(p) \in Nat /\ Complete(p) \in SUBSET (1..Len(p))
  BY DEF Complete
<1>2. ASSUME NEW i \in Int PROVE Before(p, i) \in SUBSET (1..Len(p))
  BY <1>1 DEF Before
<1>. QED BY <1>1, <1>2, Positions

(* The least position is one.                                              *)
LEMMA First ==
  ASSUME NEW n \in Nat, NEW S \in SUBSET (1..n), S # {}
  PROVE  FirstOf(S) \in S /\ \A j \in S : FirstOf(S) <= j
<1> DEFINE R == {ss \in Nat \X Nat : ss[1] < ss[2]}
<1>1. IsWellFoundedOn(R, Nat)
  BY NatLessThanWellFounded DEF OpToRel
<1>2. PICK x \in S : \A y \in S : ~(<<y, x>> \in R)
  <2> HIDE DEF R
  <2>1. S \subseteq Nat
    OBVIOUS
  <2> QED BY <1>1, <2>1, WFMin
<1>3. ASSUME NEW y \in S PROVE x <= y
  <2>1. x \in Nat /\ y \in Nat
    OBVIOUS
  <2>2. ~(y < x)
    BY <1>2, <2>1
  <2>. QED BY <2>1, <2>2
<1>. QED BY <1>3 DEF FirstOf

(* The lines behind position i, when none is before it.                    *)
LEMMA Behind ==
  ASSUME NEW p \in Seq(Unit), NEW i \in Complete(p),
         \A j \in Complete(p) : i <= j
  PROVE  LET q == SubSeq(p, i + 1, Len(p))
         IN  /\ q \in Seq(Unit) /\ Len(q) = Len(p) - i
             /\ \A j \in 1..Len(q) : q[j] = p[j + i]
             /\ Complete(q) = {j + (-i) : j \in Complete(p) \ {i}}
             /\ \A j \in Complete(q) :
                  Before(q, j) = {m + (-i) : m \in Before(p, j + i) \ {i}}
<1>0. PICK q : q = SubSeq(p, i + 1, Len(p))
  OBVIOUS
<1>1. Len(p) \in Nat /\ i \in 1..Len(p) /\ i \in Int /\ -i \in Int
  BY DEF Complete
<1>2. /\ q \in Seq(Unit) /\ Len(q) = Len(p) - i
      /\ \A j \in 1..Len(q) : q[j] = p[j + i]
  BY <1>0, <1>1
<1>3. \A j : j \in Complete(p) <=> j \in 1..Len(p) /\ p[j].k # "part"
  BY DEF Complete
<1>4. \A j : j \in Complete(q) <=> j \in 1..Len(q) /\ q[j].k # "part"
  BY DEF Complete
<1>5. ASSUME NEW j \in Complete(q)
      PROVE  j \in Int /\ 1 <= j /\ j + i \in Complete(p) \ {i} /\ j = (j + i) + (-i)
  <2>1. j \in 1..Len(q) /\ q[j].k # "part" /\ q[j] = p[j + i]
    BY <1>2, <1>4
  <2>2. j + i \in 1..Len(p) /\ j + i # i /\ j = (j + i) + (-i)
    BY <2>1, <1>1, <1>2
  <2>. QED BY <2>1, <2>2, <1>3
<1>6. ASSUME NEW j \in Complete(p) \ {i} PROVE j + (-i) \in Complete(q)
  <2>1. j \in 1..Len(p) /\ p[j].k # "part" /\ i < j
    BY <1>1, <1>3
  <2>2. j + (-i) \in 1..Len(q) /\ (j + (-i)) + i = j
    BY <2>1, <1>1, <1>2
  <2>. QED BY <2>1, <2>2, <1>2, <1>4
<1>7. Complete(q) = {j + (-i) : j \in Complete(p) \ {i}}
  BY <1>5, <1>6
<1>8. ASSUME NEW j \in Complete(q)
      PROVE  Before(q, j) = {m + (-i) : m \in Before(p, j + i) \ {i}}
  <2>1. ASSUME NEW m \in Before(q, j)
        PROVE  m + i \in Before(p, j + i) \ {i} /\ m = (m + i) + (-i)
    <3>1. m \in Complete(q) /\ m <= j
      BY DEF Before
    <3>2. m + i <= j + i
      BY <3>1, <1>1, <1>5
    <3>. QED BY <3>1, <3>2, <1>5 DEF Before
  <2>2. ASSUME NEW m \in Before(p, j + i) \ {i} PROVE m + (-i) \in Before(q, j)
    <3>1. m \in Complete(p) \ {i} /\ m <= j + i /\ m \in Int
      BY <1>3, <1>1 DEF Before
    <3>2. m + (-i) <= j
      BY <3>1, <1>1, <1>5
    <3>. QED BY <3>1, <3>2, <1>6 DEF Before
  <2>. QED BY <2>1, <2>2
<1>. QED BY <1>0, <1>2, <1>7, <1>8

(* The first line is taken out.                                            *)
LEMMA TakeLine ==
  ASSUME NEW p \in Seq(Unit), NEW ran \in Nat, NEW got \in Nat,
         Exact(p, ran, got), Complete(p) # {}
  PROVE  LET i == FirstOf(Complete(p))
         IN  /\ i \in 1..Len(p) /\ i \in Complete(p) /\ ran + 1 <= got
             /\ Exact(SubSeq(p, i + 1, Len(p)), ran + 1, got)
<1>1. PICK i : i = FirstOf(Complete(p))
  OBVIOUS
<1>2. Len(p) \in Nat /\ Complete(p) \in SUBSET (1..Len(p))
  BY DEF Complete
<1>3. i \in Complete(p) /\ \A j \in Complete(p) : i <= j
  BY <1>1, <1>2, First
<1>4. i \in 1..Len(p) /\ i \in Int /\ -i \in Int
  BY <1>2, <1>3
<1>5. PICK q : q = SubSeq(p, i + 1, Len(p))
  OBVIOUS
<1>6. /\ q \in Seq(Unit) /\ Len(q) = Len(p) - i
      /\ \A j \in 1..Len(q) : q[j] = p[j + i]
      /\ Complete(q) = {j + (-i) : j \in Complete(p) \ {i}}
      /\ \A j \in Complete(q) :
           Before(q, j) = {m + (-i) : m \in Before(p, j + i) \ {i}}
  BY <1>3, <1>5, Behind
<1>7. IsFiniteSet(Complete(p)) /\ Cardinality(Complete(p)) \in Nat
  BY Wholes
<1>8. /\ IsFiniteSet(Complete(p) \ {i})
      /\ Cardinality(Complete(p) \ {i}) = Cardinality(Complete(p)) - 1
  BY <1>3, <1>7, FS_RemoveElement
<1>9. Cardinality(Complete(p) \ {i}) \in Nat
  BY <1>8, FS_CardinalityType
<1>10. Cardinality(Complete(q)) = Cardinality(Complete(p)) - 1
  <2>1. Complete(p) \ {i} \subseteq Int
    BY <1>2
  <2>2. Cardinality({j + (-i) : j \in Complete(p) \ {i}}) = Cardinality(Complete(p) \ {i})
    BY <2>1, <1>4, <1>8, Moved
  <2>. QED BY <2>2, <1>6, <1>8
<1>11. ASSUME NEW j \in Complete(q)
       PROVE  q[j].n = ran + 1 + Cardinality(Before(q, j))
  <2>1. j \in 1..Len(q) /\ q[j] = p[j + i] /\ j \in Int
    BY <1>6 DEF Complete
  <2>2. PICK m \in Complete(p) \ {i} : j = m + (-i)
    BY <1>6
  <2>3. j + i = m
    BY <2>2, <1>2, <1>4
  <2>4. /\ m \in Int /\ Before(p, m) \subseteq 1..Len(p)
        /\ IsFiniteSet(Before(p, m)) /\ Cardinality(Before(p, m)) \in Nat
    <3>1. m \in Int
      BY <1>2
    <3>. QED BY <3>1, Wholes
  <2>5. i \in Before(p, m)
    BY <1>3 DEF Before
  <2>6. /\ IsFiniteSet(Before(p, m) \ {i})
        /\ Cardinality(Before(p, m) \ {i}) = Cardinality(Before(p, m)) - 1
    BY <2>4, <2>5, FS_RemoveElement
  <2>7. Cardinality({x + (-i) : x \in Before(p, m) \ {i}}) = Cardinality(Before(p, m) \ {i})
    <3>1. Before(p, m) \ {i} \subseteq Int
      BY <1>2, <2>4
    <3>. QED BY <3>1, <1>4, <2>6, Moved
  <2>8. Before(q, j) = {x + (-i) : x \in Before(p, m) \ {i}}
    BY <1>6, <2>3
  <2>9. p[m].n = ran + Cardinality(Before(p, m))
    BY DEF Exact
  <2>. QED BY <2>1, <2>3, <2>4, <2>6, <2>7, <2>8, <2>9
<1>12. got = ran + Cardinality(Complete(p))
  BY DEF Exact
<1>13. got = ran + 1 + Cardinality(Complete(q)) /\ ran + 1 <= got
  BY <1>7, <1>8, <1>9, <1>10, <1>12
<1>14. Exact(q, ran + 1, got)
  BY <1>11, <1>13 DEF Exact
<1>. QED BY <1>1, <1>3, <1>4, <1>5, <1>13, <1>14

-----------------------------------------------------------------------------
(* What arrives is put behind.                                             *)

(* The lines of a buffer of two parts.                                     *)
LEMMA Parts ==
  ASSUME NEW p \in Seq(Unit), NEW q \in Seq(Unit)
  PROVE  LET pq == p \o q
             behind == {j + Len(p) : j \in Complete(q)}
         IN  /\ pq \in Seq(Unit) /\ Len(pq) = Len(p) + Len(q)
             /\ Complete(pq) = Complete(p) \cup behind
             /\ Complete(p) \cap behind = {}
             /\ Cardinality(Complete(pq)) = Cardinality(Complete(p)) + Cardinality(Complete(q))
             /\ \A i \in Complete(p) : pq[i] = p[i] /\ Before(pq, i) = Before(p, i)
             /\ \A i \in Complete(q) :
                  /\ pq[i + Len(p)] = q[i]
                  /\ Cardinality(Before(pq, i + Len(p)))
                       = Cardinality(Complete(p)) + Cardinality(Before(q, i))
<1>0. PICK pq, d : pq = p \o q /\ d = Len(p)
  OBVIOUS
<1>1. /\ d \in Nat /\ Len(q) \in Nat /\ pq \in Seq(Unit) /\ Len(pq) = d + Len(q)
      /\ \A i \in 1..d : pq[i] = p[i]
      /\ \A i \in 1..Len(q) : pq[i + d] = q[i]
  BY <1>0
<1>2. /\ \A j : j \in Complete(p) <=> j \in 1..d /\ p[j].k # "part"
      /\ \A j : j \in Complete(q) <=> j \in 1..Len(q) /\ q[j].k # "part"
      /\ \A j : j \in Complete(pq) <=> j \in 1..Len(pq) /\ pq[j].k # "part"
  BY <1>0 DEF Complete
<1>3. PICK B : B = {j + d : j \in Complete(q)}
  OBVIOUS
<1>4. ASSUME NEW j \in Complete(pq), j > d PROVE j - d \in Complete(q) /\ j \in B
  <2>1. j \in 1..Len(pq) /\ j - d \in 1..Len(q) /\ (j - d) + d = j
    BY <1>1, <1>2, <1>4
  <2>2. pq[j] = q[j - d]
    BY <1>1, <2>1
  <2>. QED BY <1>2, <1>3, <2>1, <2>2
<1>5. ASSUME NEW j \in Complete(q) PROVE j + d \in Complete(pq) /\ j + d > d /\ j + d \in Int
  <2>1. j \in 1..Len(q) /\ j + d \in 1..Len(pq) /\ pq[j + d] = q[j] /\ j + d > d
    BY <1>1, <1>2
  <2>. QED BY <1>2, <2>1
<1>6. ASSUME NEW j \in Complete(p) PROVE j \in Complete(pq) /\ j <= d /\ j \in Int
  <2>1. j \in 1..d /\ j \in 1..Len(pq) /\ pq[j] = p[j]
    BY <1>1, <1>2
  <2>. QED BY <1>2, <2>1
<1>7. ASSUME NEW j \in Complete(pq), ~(j > d) PROVE j \in Complete(p)
  <2>1. j \in 1..d /\ pq[j] = p[j]
    BY <1>1, <1>2, <1>7
  <2>. QED BY <1>2, <2>1
<1>8. Complete(pq) = Complete(p) \cup B /\ Complete(p) \cap B = {}
  BY <1>1, <1>3, <1>4, <1>5, <1>6, <1>7
<1>9. /\ IsFiniteSet(Complete(p)) /\ Cardinality(Complete(p)) \in Nat
      /\ IsFiniteSet(Complete(q)) /\ Cardinality(Complete(q)) \in Nat
  BY Wholes
<1>10. Complete(q) \subseteq Int /\ B \subseteq Int /\ Complete(p) \subseteq Int
  BY <1>1, <1>2, <1>3, <1>5
<1>11. Cardinality(B) = Cardinality(Complete(q)) /\ IsFiniteSet(B)
  <2>1. Cardinality({j + d : j \in Complete(q)}) = Cardinality(Complete(q))
    <3>1. d \in Int
      BY <1>1
    <3>. QED BY <3>1, <1>9, <1>10, Moved
  <2>2. IsFiniteSet(B)
    <3>1. B \in SUBSET (1..Len(pq))
      BY <1>2, <1>8
    <3>. QED BY <3>1, <1>1, Positions
  <2>. QED BY <2>1, <2>2, <1>3
<1>12. Cardinality(Complete(pq)) = Cardinality(Complete(p)) + Cardinality(Complete(q))
  BY <1>8, <1>9, <1>11, Disjoint
<1>13. ASSUME NEW i \in Complete(p) PROVE pq[i] = p[i] /\ Before(pq, i) = Before(p, i)
  <2>1. pq[i] = p[i] /\ i \in Int /\ i <= d
    BY <1>1, <1>2
  <2>2. ASSUME NEW j PROVE j \in Before(pq, i) <=> j \in Before(p, i)
    <3>1. j \in Before(pq, i) => j \in Before(p, i)
      <4>. SUFFICES ASSUME j \in Complete(pq), j <= i PROVE j \in Complete(p)
        BY DEF Before
      <4>1. j \in Int
        BY <1>2
      <4>2. ~(j > d)
        BY <2>1, <4>1, <1>1
      <4>. QED BY <4>2, <1>7
    <3>2. j \in Before(p, i) => j \in Before(pq, i)
      BY <1>6 DEF Before
    <3>. QED BY <3>1, <3>2
  <2>. QED BY <2>1, <2>2
<1>14. ASSUME NEW i \in Complete(q)
       PROVE  /\ pq[i + d] = q[i]
              /\ Cardinality(Before(pq, i + d))
                   = Cardinality(Complete(p)) + Cardinality(Before(q, i))
  <2>1. pq[i + d] = q[i] /\ i \in Int /\ i \in 1..Len(q)
    BY <1>1, <1>2
  <2>2. PICK C1 : C1 = {j + d : j \in Before(q, i)}
    OBVIOUS
  <2>3. ASSUME NEW j PROVE j \in Before(pq, i + d) <=> j \in Complete(p) \cup C1
    <3>1. ASSUME j \in Before(pq, i + d) PROVE j \in Complete(p) \cup C1
      <4>1. j \in Complete(pq) /\ j <= i + d /\ j \in Int
        BY <3>1, <1>2 DEF Before
      <4>2. CASE j > d
        <5>1. j - d \in Complete(q) /\ j - d <= i /\ j = (j - d) + d
          BY <4>1, <4>2, <1>1, <1>4, <2>1
        <5>. QED BY <5>1, <2>2 DEF Before
      <4>3. CASE ~(j > d)
        BY <4>1, <4>3, <1>7
      <4>. QED BY <4>2, <4>3
    <3>2. ASSUME j \in Complete(p) PROVE j \in Before(pq, i + d)
      <4>1. j \in Complete(pq) /\ j <= d /\ j \in Int
        BY <3>2, <1>6
      <4>2. j <= i + d
        BY <4>1, <2>1, <1>1
      <4>. QED BY <4>1, <4>2 DEF Before
    <3>3. ASSUME j \in C1 PROVE j \in Before(pq, i + d)
      <4>1. PICK m \in Complete(q) : m <= i /\ j = m + d
        BY <3>3, <2>2 DEF Before
      <4>2. m \in Int /\ j <= i + d /\ j \in Complete(pq)
        BY <4>1, <1>1, <1>2, <1>5, <2>1
      <4>. QED BY <4>2 DEF Before
    <3>. QED BY <3>1, <3>2, <3>3
  <2>4. Before(pq, i + d) = Complete(p) \cup C1
    BY <2>3
  <2>5. /\ IsFiniteSet(Before(q, i)) /\ Before(q, i) \subseteq Int
        /\ Cardinality(Before(q, i)) \in Nat
    <3>1. Before(q, i) \subseteq 1..Len(q) /\ IsFiniteSet(Before(q, i))
          /\ Cardinality(Before(q, i)) \in Nat
      BY <2>1, Wholes
    <3>. QED BY <3>1
  <2>6. Cardinality({j + d : j \in Before(q, i)}) = Cardinality(Before(q, i))
    <3>1. d \in Int
      BY <1>1
    <3>. QED BY <3>1, <2>5, Moved
  <2>7. C1 \subseteq B
    BY <1>3, <2>2 DEF Before
  <2>8. IsFiniteSet(C1) /\ Complete(p) \cap C1 = {}
    BY <2>7, <1>8, <1>11, FS_Subset
  <2>9. Cardinality(Complete(p) \cup C1) = Cardinality(Complete(p)) + Cardinality(C1)
    BY <1>9, <2>8, Disjoint
  <2>. QED BY <2>1, <2>2, <2>4, <2>6, <2>9
<1>. QED BY <1>0, <1>1, <1>3, <1>8, <1>12, <1>13, <1>14

(* Lines that are numbered on from got.                                    *)
LEMMA AddLines ==
  ASSUME NEW p \in Seq(Unit), NEW q \in Seq(Unit), NEW ran \in Nat, NEW got \in Nat,
         Exact(p, ran, got),
         \A i \in Complete(q) : q[i].n = got + Cardinality(Before(q, i))
  PROVE  Exact(p \o q, ran, got + Cardinality(Complete(q)))
<1>1. PICK pq, d : pq = p \o q /\ d = Len(p)
  OBVIOUS
<1>2. /\ Complete(pq) = Complete(p) \cup {j + d : j \in Complete(q)}
      /\ Cardinality(Complete(pq)) = Cardinality(Complete(p)) + Cardinality(Complete(q))
      /\ \A i \in Complete(p) : pq[i] = p[i] /\ Before(pq, i) = Before(p, i)
      /\ \A i \in Complete(q) :
           /\ pq[i + d] = q[i]
           /\ Cardinality(Before(pq, i + d))
                = Cardinality(Complete(p)) + Cardinality(Before(q, i))
  <2>1. /\ Complete(p \o q) = Complete(p) \cup {j + Len(p) : j \in Complete(q)}
        /\ Cardinality(Complete(p \o q)) = Cardinality(Complete(p)) + Cardinality(Complete(q))
        /\ \A i \in Complete(p) : (p \o q)[i] = p[i] /\ Before(p \o q, i) = Before(p, i)
        /\ \A i \in Complete(q) :
             /\ (p \o q)[i + Len(p)] = q[i]
             /\ Cardinality(Before(p \o q, i + Len(p)))
                  = Cardinality(Complete(p)) + Cardinality(Before(q, i))
    BY ONLY p \in Seq(Unit), q \in Seq(Unit), Parts
  <2>. QED BY ONLY <1>1, <2>1
<1>3. /\ Cardinality(Complete(p)) \in Nat /\ Cardinality(Complete(q)) \in Nat
      /\ Complete(q) \subseteq Int
      /\ \A i \in Int : Cardinality(Before(q, i)) \in Nat
  <2>1. Complete(q) \subseteq 1..Len(q) /\ Cardinality(Complete(q)) \in Nat
    BY Wholes
  <2>2. ASSUME NEW i \in Int PROVE Cardinality(Before(q, i)) \in Nat
    BY Wholes
  <2>3. Cardinality(Complete(p)) \in Nat
    BY Wholes
  <2>. QED BY <2>1, <2>2, <2>3
<1>4. got = ran + Cardinality(Complete(p))
  BY DEF Exact
<1>5. ASSUME NEW i \in Complete(pq)
      PROVE  pq[i].n = ran + Cardinality(Before(pq, i))
  <2>1. CASE i \in Complete(p)
    BY <1>2, <2>1 DEF Exact
  <2>2. CASE i \notin Complete(p)
    <3>1. PICK j \in Complete(q) : i = j + d
      BY <1>2, <2>2
    <3>2. /\ pq[i].n = got + Cardinality(Before(q, j))
          /\ Cardinality(Before(pq, i)) = Cardinality(Complete(p)) + Cardinality(Before(q, j))
      BY <1>2, <3>1
    <3>. QED BY <3>1, <3>2, <1>3, <1>4
  <2>. QED BY <2>1, <2>2
<1>6. got + Cardinality(Complete(q)) = ran + Cardinality(Complete(pq))
  BY <1>2, <1>3, <1>4
<1>. QED BY <1>1, <1>5, <1>6 DEF Exact

(* What on_data_ready appends: the lines of s, numbered on.                *)
LEMMA NumberedLines ==
  ASSUME link.got \in 0..MaxLines, NEW s \in Reads
  PROVE  LET q == Numbered(s)
         IN  /\ q \in Seq(Unit)
             /\ link.got + Cardinality(Complete(q)) \in 0..MaxLines
             /\ \A i \in Complete(q) : q[i].n = link.got + Cardinality(Before(q, i))
<1>0. PICK q, g : q = Numbered(s) /\ g = link.got
  OBVIOUS
<1>1. PICK m \in 1..MaxRead : s \in [1..m -> Kinds \cup {"part"}]
  BY DEF Reads
<1>2. m \in Nat /\ Len(s) = m /\ g \in Nat /\ g <= MaxLines /\ MaxLines \in Nat
  <2>1. m \in Nat /\ MaxLines \in Nat
    BY LinkAssumption
  <2>2. s \in Seq(Kinds \cup {"part"}) /\ Len(s) = m
    BY <2>1, <1>1
  <2>. QED BY <2>1, <2>2, <1>0
<1>3. PICK T : T = {i \in 1..m : s[i] # "part"}
  OBVIOUS
<1>4. IsFiniteSet(T) /\ Cardinality(T) \in Nat /\ g + Cardinality(T) <= MaxLines
  <2>1. T \in SUBSET (1..m)
    BY <1>3
  <2>2. g + Cardinality(T) <= MaxLines
    BY <1>0, <1>2, <1>3 DEF Reads
  <2>. QED BY <2>1, <2>2, <1>2, Positions
<1>5. PICK E : E = [i \in 1..m |-> {j \in 1..(i - 1) : s[j] # "part"}]
  OBVIOUS
<1>6. ASSUME NEW i \in 1..m
      PROVE  /\ i \in Int /\ E[i] \subseteq T /\ i \notin E[i] /\ IsFiniteSet(E[i])
             /\ Cardinality(E[i]) \in Nat /\ Cardinality(E[i]) <= Cardinality(T)
  <2>1. E[i] \subseteq T /\ i \notin E[i]
    <3>1. E[i] = {j \in 1..(i - 1) : s[j] # "part"}
      BY <1>5
    <3>. QED BY <3>1, <1>2, <1>3
  <2>. QED BY <2>1, <1>2, <1>4, FS_Subset, FS_CardinalityType
<1>7. q = [i \in 1..m |-> [k |-> s[i], n |-> g + 1 + Cardinality(E[i])]]
  BY <1>0, <1>2, <1>5 DEF Numbered
<1>8. q \in Seq(Unit) /\ Len(q) = m
  <2>1. ASSUME NEW i \in 1..m
        PROVE  [k |-> s[i], n |-> g + 1 + Cardinality(E[i])] \in Unit
    <3>1. g + 1 + Cardinality(E[i]) \in 1..(MaxLines + 1)
      BY <1>2, <1>4, <1>6
    <3>. QED BY <3>1, <1>1 DEF Unit
  <2>2. q \in [1..m -> Unit]
    BY <2>1, <1>7
  <2>. QED BY <2>2, <1>2
<1>9. Complete(q) = T
  BY <1>3, <1>7, <1>8 DEF Complete
<1>10. ASSUME NEW i \in T PROVE q[i].n = g + Cardinality(Before(q, i))
  <2>1. i \in 1..m /\ i \in Int
    BY <1>3
  <2>2. Before(q, i) = E[i] \cup {i}
    <3>1. E[i] = {j \in 1..(i - 1) : s[j] # "part"}
      BY <1>5, <2>1
    <3>2. Before(q, i) = {j \in T : j <= i}
      BY <1>9 DEF Before
    <3>. QED BY <3>1, <3>2, <2>1, <1>2, <1>3
  <2>3. Cardinality(E[i] \cup {i}) = Cardinality(E[i]) + 1
    BY <2>1, <1>6, FS_AddElement
  <2>4. q[i].n = g + 1 + Cardinality(E[i])
    BY <2>1, <1>7
  <2>. QED BY <2>1, <2>2, <2>3, <2>4, <1>2, <1>6
<1>11. g + Cardinality(T) \in 0..MaxLines
  BY <1>2, <1>4
<1>. QED BY <1>0, <1>8, <1>9, <1>10, <1>11

(* The end of a sequence.                                                  *)
LEMMA EndOf ==
  ASSUME NEW S, NEW s \in Seq(S), NEW n \in Nat, n <= Len(s)
  PROVE  /\ SubSeq(s, n + 1, Len(s)) \in Seq(S)
         /\ Len(SubSeq(s, n + 1, Len(s))) = Len(s) - n
         /\ \A j \in 1..(Len(s) - n) : SubSeq(s, n + 1, Len(s))[j] = s[n + j]
<1>1. Len(s) \in Nat
  OBVIOUS
<1>. QED BY <1>1

(* Two sequences in a row.                                                 *)
LEMMA InARow ==
  ASSUME NEW S, NEW s \in Seq(S), NEW t \in Seq(S)
  PROVE  /\ s \o t \in Seq(S) /\ Len(s \o t) = Len(s) + Len(t)
         /\ \A j \in 1..(Len(s) + Len(t)) :
              (s \o t)[j] = IF j <= Len(s) THEN s[j] ELSE t[j - Len(s)]
OBVIOUS

(* What is pending after the buffer, of which pos units are dispatched,    *)
(* was appended to, was dispatched on, or was compacted.                   *)
LEMMA PendingParts ==
  ASSUME NEW b \in Seq(Unit), NEW pos \in Nat, pos <= Len(b)
  PROVE  LET p == SubSeq(b, pos + 1, Len(b))
         IN  /\ p \in Seq(Unit) /\ Len(p) = Len(b) - pos
             /\ \A q \in Seq(Unit) :
                  SubSeq(b \o q, pos + 1, Len(b \o q)) = p \o q
             /\ \A i \in 1..Len(p) :
                  SubSeq(b, pos + i + 1, Len(b)) = SubSeq(p, i + 1, Len(p))
             /\ SubSeq(p, 0 + 1, Len(p)) = p
<1>1. PICK p : p = SubSeq(b, pos + 1, Len(b))
  OBVIOUS
<1>2. /\ p \in Seq(Unit) /\ Len(p) = Len(b) - pos /\ Len(b) \in Nat
      /\ \A j \in 1..Len(p) : p[j] = b[pos + j]
  BY <1>1
<1>3. ASSUME NEW q \in Seq(Unit)
      PROVE  SubSeq(b \o q, pos + 1, Len(b \o q)) = p \o q
  <2>1. PICK bq, l, r : /\ bq = b \o q /\ l = SubSeq(bq, pos + 1, Len(bq)) /\ r = p \o q
    OBVIOUS
  <2>2. /\ bq \in Seq(Unit) /\ Len(bq) = Len(b) + Len(q) /\ Len(q) \in Nat
        /\ \A j \in 1..Len(bq) : bq[j] = IF j <= Len(b) THEN b[j] ELSE q[j - Len(b)]
    BY <2>1
  <2>3. /\ l \in Seq(Unit) /\ Len(l) = Len(bq) - pos
        /\ \A j \in 1..Len(l) : l[j] = bq[pos + j]
    <3>1. bq \in Seq(Unit) /\ pos \in Nat /\ pos <= Len(bq)
      BY <2>2, <1>2
    <3>2. /\ SubSeq(bq, pos + 1, Len(bq)) \in Seq(Unit)
          /\ Len(SubSeq(bq, pos + 1, Len(bq))) = Len(bq) - pos
          /\ \A j \in 1..(Len(bq) - pos) : SubSeq(bq, pos + 1, Len(bq))[j] = bq[pos + j]
      BY ONLY <3>1, EndOf
    <3>. QED BY ONLY <2>1, <3>2
  <2>4. /\ r \in Seq(Unit) /\ Len(r) = Len(p) + Len(q)
        /\ \A j \in 1..Len(r) : r[j] = IF j <= Len(p) THEN p[j] ELSE q[j - Len(p)]
    <3>1. /\ p \o q \in Seq(Unit) /\ Len(p \o q) = Len(p) + Len(q)
          /\ \A j \in 1..(Len(p) + Len(q)) :
               (p \o q)[j] = IF j <= Len(p) THEN p[j] ELSE q[j - Len(p)]
      BY ONLY <1>2, q \in Seq(Unit), InARow
    <3>. QED BY ONLY <2>1, <3>1
  <2>5. Len(l) = Len(r)
    BY <2>2, <2>3, <2>4, <1>2
  <2>6. ASSUME NEW j \in 1..Len(l) PROVE l[j] = r[j]
    <3>1. j \in Int /\ pos + j \in 1..Len(bq) /\ l[j] = bq[pos + j]
      BY <2>2, <2>3
    <3>2. CASE j <= Len(p)
      BY <3>1, <3>2, <2>2, <2>4, <2>5, <1>2
    <3>3. CASE ~(j <= Len(p))
      <4>1. ~(pos + j <= Len(b)) /\ (pos + j) - Len(b) = j - Len(p)
        BY <3>1, <3>3, <1>2
      <4>. QED BY <4>1, <3>1, <3>3, <2>2, <2>4, <2>5
    <3>. QED BY <3>2, <3>3
  <2>7. l = r
    BY <2>3, <2>4, <2>5, <2>6, SeqEqual
  <2>. QED BY <2>1, <2>7
<1>4. ASSUME NEW i \in 1..Len(p)
      PROVE  SubSeq(b, pos + i + 1, Len(b)) = SubSeq(p, i + 1, Len(p))
  <2>1. PICK l, r : l = SubSeq(b, pos + i + 1, Len(b)) /\ r = SubSeq(p, i + 1, Len(p))
    OBVIOUS
  <2>2. /\ l \in Seq(Unit) /\ Len(l) = Len(b) - (pos + i)
        /\ \A j \in 1..Len(l) : l[j] = b[(pos + i) + j]
    <3>1. pos + i \in Nat /\ pos + i <= Len(b)
      BY <1>2
    <3>2. /\ SubSeq(b, (pos + i) + 1, Len(b)) \in Seq(Unit)
          /\ Len(SubSeq(b, (pos + i) + 1, Len(b))) = Len(b) - (pos + i)
          /\ \A j \in 1..(Len(b) - (pos + i)) :
               SubSeq(b, (pos + i) + 1, Len(b))[j] = b[(pos + i) + j]
      BY ONLY <3>1, b \in Seq(Unit), EndOf
    <3>. QED BY ONLY <2>1, <3>2
  <2>3. /\ r \in Seq(Unit) /\ Len(r) = Len(p) - i
        /\ \A j \in 1..Len(r) : r[j] = p[i + j]
    <3>1. i \in Nat /\ i <= Len(p)
      BY <1>2
    <3>2. /\ SubSeq(p, i + 1, Len(p)) \in Seq(Unit)
          /\ Len(SubSeq(p, i + 1, Len(p))) = Len(p) - i
          /\ \A j \in 1..(Len(p) - i) : SubSeq(p, i + 1, Len(p))[j] = p[i + j]
      BY ONLY <3>1, <1>2, EndOf
    <3>. QED BY ONLY <2>1, <3>2
  <2>4. Len(l) = Len(r)
    BY <2>2, <2>3, <1>2
  <2>5. ASSUME NEW j \in 1..Len(l) PROVE l[j] = r[j]
    <3>1. i + j \in 1..Len(p) /\ pos + (i + j) = (pos + i) + j
      BY <2>3, <2>4
    <3>. QED BY <3>1, <2>2, <2>3, <2>4, <1>2
  <2>6. l = r
    BY <2>2, <2>3, <2>4, <2>5, SeqEqual
  <2>. QED BY <2>1, <2>6
<1>5. SubSeq(p, 0 + 1, Len(p)) = p
  BY <1>2
<1>. QED BY <1>1, <1>2, <1>3, <1>4, <1>5

-----------------------------------------------------------------------------
(* The connection: what the functions of conn.c leave of a record.         *)
Like(r, r2) == r2 \in C!ConnRec /\ r2.rdns = r.rdns

LEMMA MarkedLike ==
  ASSUME NEW r \in C!ConnRec PROVE Like(r, C!Marked(r))
<1>1. PICK k \in {0, 1, 2} : k = IF r.listed = 0 THEN 1 ELSE 2
  OBVIOUS
<1>2. CASE r.st = "AWAIT_CLEANUP"
  BY <1>2 DEF C!Marked, Like
<1>3. CASE r.st # "AWAIT_CLEANUP"
  <2>1. C!Marked(r) = [r EXCEPT !.st = "AWAIT_CLEANUP", !.recv = FALSE, !.send = "off",
                                !.listed = k]
    BY <1>1, <1>3 DEF C!Marked, C!ConnRec
  <2>. QED BY <2>1 DEF Like, C!ConnRec
<1>. QED BY <1>2, <1>3

LEMMA SyncLike ==
  ASSUME NEW r \in C!ConnRec PROVE Like(r, C!SyncOnUpdate(r))
<1>1. CASE r.st = "ACTIVE"
  <2>1. PICK o \in {"off", "send_ready"} :
          C!SyncOnUpdate(r) = [r EXCEPT !.recv = TRUE, !.send = o]
    BY <1>1 DEF C!SyncOnUpdate
  <2>. QED BY <2>1 DEF Like, C!ConnRec
<1>2. CASE r.st = "SHUTTING_DOWN" /\ r.size = 0
  BY <1>2, MarkedLike DEF C!SyncOnUpdate
<1>3. CASE r.st # "ACTIVE" /\ ~(r.st = "SHUTTING_DOWN" /\ r.size = 0)
  <2>1. C!SyncOnUpdate(r) = [r EXCEPT !.recv = FALSE]
    BY <1>3 DEF C!SyncOnUpdate
  <2>. QED BY <2>1 DEF Like, C!ConnRec
<1>. QED BY <1>1, <1>2, <1>3

LEMMA ConnLike ==
  ASSUME NEW r \in C!ConnRec
  PROVE  /\ Like(r, C!ShutDown(r)) /\ Like(r, C!Queued(r)) /\ Like(r, C!Cleared(r))
         /\ Like(r, C!Broken(r)) /\ Like(r, C!Restored(r))
         /\ Like(r, [r EXCEPT !.st = "ACTIVE"])
         /\ \A n \in 1..r.size : Like(r, C!Wrote(r, n))
         /\ \A w : Like(r, C!Finished(w, r))
<1>1. ASSUME NEW r2 \in C!ConnRec, r2.rdns = r.rdns PROVE Like(r, C!SyncOnUpdate(r2))
  BY <1>1, SyncLike DEF Like
<1>2. Like(r, C!ShutDown(r))
  <2>1. PICK a \in BOOLEAN : a = (r.again \/ r.st = "AWAIT_CLEANUP")
    BY Zenon DEF C!ConnRec
  <2>2. PICK r2 : r2 = [r EXCEPT !.st = "SHUTTING_DOWN", !.recv = FALSE,
                                 !.send = "send_ready", !.again = a]
    OBVIOUS
  <2>3. r2 \in C!ConnRec /\ r2.rdns = r.rdns
    BY <2>2 DEF C!ConnRec
  <2>4. r2 = [r EXCEPT !.st = "SHUTTING_DOWN", !.recv = FALSE, !.send = "send_ready",
                       !.again = @ \/ r.st = "AWAIT_CLEANUP"]
    BY <2>1, <2>2, Zenon
  <2>5. C!ShutDown(r) = C!SyncOnUpdate(r2)
    BY <2>4, Zenon DEF C!ShutDown
  <2>. QED BY <2>3, <2>5, <1>1
<1>3. Like(r, C!Queued(r))
  <2>1. r.size + 1 \in Nat /\ r.total + 1 \in Nat
    BY DEF C!ConnRec
  <2>2. [r EXCEPT !.size = r.size + 1, !.total = r.total + 1] \in C!ConnRec
    BY <2>1 DEF C!ConnRec
  <2>3. [r EXCEPT !.size = r.size + 1, !.total = r.total + 1].rdns = r.rdns
    BY DEF C!ConnRec
  <2>4. C!Queued(r) = C!SyncOnUpdate([r EXCEPT !.size = r.size + 1, !.total = r.total + 1])
    BY DEF C!Queued, C!ConnRec
  <2>. QED BY <2>2, <2>3, <2>4, <1>1
<1>4. Like(r, C!Cleared(r)) /\ Like(r, C!Broken(r)) /\ Like(r, [r EXCEPT !.st = "ACTIVE"])
  BY DEF Like, C!Cleared, C!Broken, C!ConnRec
<1>5. Like(r, C!Restored(r))
  <2>1. PICK a \in BOOLEAN : a = (r.carried \/ r.st # "ACTIVE")
    BY Zenon DEF C!ConnRec
  <2>2. PICK r2 : r2 = [r EXCEPT !.recv = FALSE, !.send = "off", !.listed = 0,
                                 !.again = FALSE, !.carried = a]
    OBVIOUS
  <2>3. r2 \in C!ConnRec /\ r2.rdns = r.rdns
    BY <2>2 DEF C!ConnRec
  <2>4. r2 = [r EXCEPT !.recv = FALSE, !.send = "off", !.listed = 0,
                       !.again = FALSE, !.carried = @ \/ r.st # "ACTIVE"]
    BY <2>1, <2>2, Zenon
  <2>5. C!Restored(r) = C!SyncOnUpdate(r2)
    BY <2>4, Zenon DEF C!Restored
  <2>. QED BY <2>3, <2>5, <1>1
<1>6. ASSUME NEW n \in 1..r.size PROVE Like(r, C!Wrote(r, n))
  <2>1. r.size - n \in Nat
    BY DEF C!ConnRec
  <2>2. [r EXCEPT !.size = r.size - n] \in C!ConnRec
    BY <2>1 DEF C!ConnRec
  <2>3. [r EXCEPT !.size = r.size - n].rdns = r.rdns
    BY DEF C!ConnRec
  <2>4. C!Wrote(r, n) = C!SyncOnUpdate([r EXCEPT !.size = r.size - n])
    BY DEF C!Wrote, C!ConnRec
  <2>. QED BY <2>2, <2>3, <2>4, <1>1
<1>7. ASSUME NEW w PROVE Like(r, C!Finished(w, r))
  BY <1>2, SyncLike, MarkedLike DEF C!Finished
<1>. QED BY <1>2, <1>3, <1>4, <1>5, <1>6, <1>7

-----------------------------------------------------------------------------
(* The calls that are left: t, with w for link.wait.                       *)
Due(t, w) ==
  /\ \A i \in 1..Len(t) : t[i] # "unwait"
  /\ \/ w
     \/ \E j \in 1..Len(t) :
          t[j] = "wait" /\ \A i \in 1..(j - 1) : t[i] # "dispatch"

LEMMA NamePendingByCalls ==
  NamePending <=> (conn.rdns => Due(todo, link.wait))
BY DEF NamePending, Due

(* Calls that neither dispatch nor wait may go before the others.          *)
Plain == Ops \ {"dispatch", "wait", "unwait"}

LEMMA DuePush ==
  ASSUME NEW t \in Seq(Ops), NEW w \in BOOLEAN, NEW prog \in Seq(Plain), Due(t, w)
  PROVE  Due(prog \o t, w)
<1>0. PICK r, n : r = prog \o t /\ n = Len(prog)
  OBVIOUS
<1>1. /\ n \in Nat /\ Len(t) \in Nat /\ Len(r) = n + Len(t)
      /\ \A i \in 1..Len(r) : r[i] = IF i <= n THEN prog[i] ELSE t[i - n]
      /\ \A i \in 1..n : prog[i] \in Plain
  BY <1>0
<1>2. ASSUME NEW i \in 1..Len(r) PROVE r[i] # "unwait"
  <2>1. CASE i <= n
    BY <2>1, <1>1 DEF Plain
  <2>2. CASE ~(i <= n)
    BY <2>2, <1>1 DEF Due
  <2>. QED BY <2>1, <2>2
<1>3. CASE w
  BY <1>0, <1>2, <1>3 DEF Due
<1>4. CASE ~w
  <2>1. PICK j \in 1..Len(t) : t[j] = "wait" /\ \A i \in 1..(j - 1) : t[i] # "dispatch"
    BY <1>4 DEF Due
  <2>2. PICK m \in 1..Len(r) : m = j + n
    BY <1>1
  <2>3. r[m] = "wait"
    BY <2>1, <2>2, <1>1
  <2>4. ASSUME NEW i \in 1..(m - 1) PROVE r[i] # "dispatch"
    <3>1. i \in 1..Len(r)
      BY <2>2, <1>1
    <3>2. CASE i <= n
      <4>1. r[i] = prog[i] /\ prog[i] \in Plain
        BY <3>1, <3>2, <1>1
      <4>. QED BY <4>1 DEF Plain
    <3>3. CASE ~(i <= n)
      <4>1. i - n \in 1..(j - 1) /\ r[i] = t[i - n]
        BY <3>1, <3>3, <2>2, <1>1
      <4>. QED BY <4>1, <2>1
    <3>. QED BY <3>2, <3>3
  <2>. QED BY <1>0, <1>2, <2>2, <2>3, <2>4 DEF Due
<1>. QED BY <1>3, <1>4

(* The first call is made.                                                 *)
LEMMA DuePop ==
  ASSUME NEW t \in Seq(Ops), NEW w \in BOOLEAN, t # << >>, Due(t, w)
  PROVE  /\ Head(t) # "unwait"
         /\ Head(t) = "dispatch" => w
         /\ Due(Tail(t), w \/ Head(t) = "wait")
<1>0. PICK r : r = Tail(t)
  OBVIOUS
<1>1. /\ Len(t) \in Nat /\ Len(t) > 0 /\ Len(r) = Len(t) - 1
      /\ \A i \in 1..Len(r) : r[i] = t[i + 1]
      /\ Head(t) = t[1]
  BY <1>0
<1>2. Head(t) # "unwait" /\ \A i \in 1..Len(r) : r[i] # "unwait"
  BY <1>1 DEF Due
<1>3. CASE w
  BY <1>0, <1>2, <1>3 DEF Due
<1>4. CASE ~w
  <2>1. PICK j \in 1..Len(t) : t[j] = "wait" /\ \A i \in 1..(j - 1) : t[i] # "dispatch"
    BY <1>4 DEF Due
  <2>2. Head(t) # "dispatch"
    BY <2>1, <1>1
  <2>3. CASE j = 1
    BY <2>1, <2>2, <2>3, <1>0, <1>1, <1>2 DEF Due
  <2>4. CASE j # 1
    <3>1. j - 1 \in 1..Len(r) /\ r[j - 1] = "wait"
      BY <2>1, <2>4, <1>1
    <3>2. \A i \in 1..(j - 1 - 1) : r[i] # "dispatch"
      BY <2>1, <2>4, <1>1
    <3>. QED BY <3>1, <3>2, <2>2, <1>0, <1>2 DEF Due
  <2>. QED BY <2>3, <2>4
<1>. QED BY <1>3, <1>4

-----------------------------------------------------------------------------
(* The types, by name.                                                     *)
Types ==
  /\ conn \in C!ConnRec /\ link \in LinkRec /\ cont \in C!Conts \cup {"idle"}
  /\ todo \in Seq(Ops) /\ others \in 0..MaxOthers /\ ub \in BOOLEAN

LEMMA TypeParts == TypeOK <=> Types
BY DEF TypeOK, Types, Ops

(* The fields that the buffer is about.                                    *)
SameBuffer(l, l2) ==
  /\ l2 \in LinkRec
  /\ l2.ibuf = l.ibuf /\ l2.pos = l.pos /\ l2.got = l.got /\ l2.ran = l.ran

(* A step that leaves the buffer alone, and starts no lookup.              *)
Calm ==
  /\ SameBuffer(link, link')
  /\ conn' \in C!ConnRec /\ (conn'.rdns => conn.rdns)
  /\ cont' \in C!Conts \cup {"idle"} /\ others' \in 0..MaxOthers /\ ub' \in BOOLEAN
  /\ todo' \in Seq(Ops) /\ (conn.rdns => Due(todo', link'.wait))

LEMMA CalmKeeps ==
  ASSUME IInv, Calm PROVE IInv'
<1>1. TypeOK'
  BY TypeParts DEF Calm, Types, TypeOK, Ops, SameBuffer
<1>2. Pending' = Pending
  BY DEF Calm, SameBuffer, Pending
<1>3. LinesExact' /\ SkipInBuffer'
  BY <1>2 DEF IInv, Calm, SameBuffer, LinesExact, SkipInBuffer
<1>4. NamePending'
  BY DEF Calm, NamePending, Due
<1>. QED BY <1>1, <1>3, <1>4 DEF IInv

LEMMA Typed == IInv => Types
BY TypeParts DEF IInv

LEMMA Pends == IInv /\ conn.rdns => Due(todo, link.wait)
BY NamePendingByCalls DEF IInv

LEMMA WaitType == IInv => link.wait \in BOOLEAN
BY Typed DEF Types, LinkRec

(* The first call is made, and leaves prog.                                *)
LEMMA Called ==
  ASSUME IInv, todo # << >>, NEW prog \in Seq(Plain), todo' = prog \o Tail(todo),
         link'.wait = (link.wait \/ Head(todo) = "wait")
  PROVE  todo' \in Seq(Ops) /\ (conn.rdns => Due(todo', link'.wait))
<1>1. todo \in Seq(Ops) /\ link.wait \in BOOLEAN
  BY Typed, WaitType DEF Types
<1>2. Tail(todo) \in Seq(Ops) /\ prog \in Seq(Ops)
  BY <1>1 DEF Plain
<1>3. ASSUME conn.rdns PROVE Due(todo', link'.wait)
  <2>1. Due(Tail(todo), link.wait \/ Head(todo) = "wait")
    BY <1>1, <1>3, Pends, DuePop
  <2>2. (link.wait \/ Head(todo) = "wait") \in BOOLEAN
    OBVIOUS
  <2>. QED BY <1>2, <2>1, <2>2, DuePush
<1>. QED BY <1>2, <1>3

(* A call that is no wait.                                                 *)
LEMMA CalledOther ==
  ASSUME IInv, todo # << >>, Head(todo) # "wait", NEW prog \in Seq(Plain),
         Call(prog), link'.wait = link.wait
  PROVE  todo' \in Seq(Ops) /\ (conn.rdns => Due(todo', link'.wait))
<1>1. link'.wait = (link.wait \/ Head(todo) = "wait")
  BY WaitType
<1>. QED BY <1>1, Called DEF Call

(* The event loop calls.                                                   *)
LEMMA Woken ==
  ASSUME IInv, todo = << >>, NEW prog \in Seq(Plain), todo' = prog, link'.wait = link.wait
  PROVE  todo' \in Seq(Ops) /\ (conn.rdns => Due(todo', link'.wait))
<1>1. prog \o << >> = prog /\ prog \in Seq(Ops) /\ << >> \in Seq(Ops)
  BY DEF Plain
<1>2. ASSUME conn.rdns PROVE Due(prog, link.wait)
  <2>1. Due(<< >>, link.wait)
    BY <1>2, Pends
  <2>2. Due(prog \o << >>, link.wait)
    BY ONLY <1>1, <2>1, IInv, WaitType, prog \in Seq(Plain), DuePush
  <2>. QED BY <1>1, <2>2
<1>. QED BY <1>1, <1>2

(* The programs.                                                           *)
LEMMA Programs ==
  /\ Fatal \in Seq(Plain) /\ Full \in Seq(Plain) /\ Quit \in Seq(Plain)
  /\ Killed \in Seq(Plain) /\ Squit \in Seq(Plain) /\ SquitByOther \in Seq(Plain)
  /\ << >> \in Seq(Plain) /\ <<"send">> \in Seq(Plain) /\ <<"sendu">> \in Seq(Plain)
  /\ <<"exq">> \in Seq(Plain) /\ <<"send", "sendu">> \in Seq(Plain)
  /\ <<"sendu", "exec", "sendu">> \in Seq(Plain)
  /\ <<"tell_users", "tell_servers", "destroy">> \in Seq(Plain)
  /\ <<"tell_servers", "send", "destroy">> \in Seq(Plain)
BY DEF Fatal, Full, Quit, Killed, Squit, SquitByOther, Plain, Ops

-----------------------------------------------------------------------------
(* Actions that leave the buffer alone.                                    *)
LEMMA LostKeeps ==
  ASSUME IInv, Undefined PROVE IInv'
<1>1. Calm
  BY Typed, Pends DEF Undefined, Calm, SameBuffer, Types
<1>. QED BY <1>1, CalmKeeps

LEMMA ExceptionalQuitInv ==
  ASSUME IInv, ExceptionalQuit PROVE IInv'
<1>1. Types /\ todo # << >> /\ Head(todo) # "wait"
  BY Typed DEF ExceptionalQuit, Top
<1>2. PICK prog \in Seq(Plain) : Call(prog)
  BY Programs DEF ExceptionalQuit
<1>3. SameBuffer(link, link') /\ link'.wait = link.wait
  BY <1>1 DEF ExceptionalQuit, SameBuffer, LinkRec, Types
<1>4. Calm
  BY <1>1, <1>2, <1>3, CalledOther DEF ExceptionalQuit, Calm, Types
<1>. QED BY <1>4, CalmKeeps

LEMMA SendLineInv ==
  ASSUME IInv, SendLine PROVE IInv'
<1>1. Types /\ todo # << >> /\ Head(todo) # "wait"
  BY Typed DEF SendLine, Top
<1>2. CASE Undefined
  BY <1>2, LostKeeps
<1>3. CASE ~Undefined
  <2>1. /\ UNCHANGED <<cont, link, others, ub>>
        /\ \E prog \in Seq(Plain) : Call(prog)
        /\ conn' = conn \/ conn' = C!Queued(conn)
    BY <1>3, Programs DEF SendLine
  <2>2. Like(conn, conn')
    BY <1>1, <2>1, ConnLike DEF Types, Like
  <2>3. SameBuffer(link, link') /\ link'.wait = link.wait
    BY <1>1, <2>1 DEF SameBuffer, Types
  <2>4. todo' \in Seq(Ops) /\ (conn.rdns => Due(todo', link'.wait))
    BY <1>1, <2>1, <2>3, CalledOther
  <2>5. Calm
    BY <1>1, <2>1, <2>2, <2>3, <2>4 DEF Calm, Types, Like
  <2>. QED BY <2>5, CalmKeeps
<1>. QED BY <1>2, <1>3

LEMMA TellInv ==
  ASSUME IInv, Tell PROVE IInv'
<1>1. Types /\ todo # << >> /\ Head(todo) # "wait"
  BY Typed DEF Tell, Top
<1>2. CASE Undefined
  BY <1>2, LostKeeps
<1>3. CASE ~Undefined
  <2>1. /\ UNCHANGED <<conn, cont, ub>>
        /\ \E prog \in Seq(Plain) : Call(prog)
        /\ others' = others \/ (others < MaxOthers /\ others' = others + 1)
        /\ link' = [link EXCEPT !.told.users = @ + 1]
           \/ link' = [link EXCEPT !.told.servers = @ + 1]
    BY <1>3, Programs DEF Tell
  <2>2. /\ link.told \in [users : Nat, servers : Nat]
        /\ link.told.users + 1 \in Nat /\ link.told.servers + 1 \in Nat
    BY <1>1 DEF Types, LinkRec
  <2>3. \E r \in [users : Nat, servers : Nat] : link' = [link EXCEPT !.told = r]
    <3>1. [link.told EXCEPT !.users = @ + 1] \in [users : Nat, servers : Nat]
      BY <2>2
    <3>2. [link.told EXCEPT !.servers = @ + 1] \in [users : Nat, servers : Nat]
      BY <2>2
    <3>. QED BY <2>1, <3>1, <3>2
  <2>4. SameBuffer(link, link') /\ link'.wait = link.wait
    <3>1. PICK r \in [users : Nat, servers : Nat] : link' = [link EXCEPT !.told = r]
      BY <2>3
    <3>2. link' \in LinkRec
      BY <1>1, <3>1 DEF Types, LinkRec
    <3>3. /\ link'.ibuf = link.ibuf /\ link'.pos = link.pos /\ link'.got = link.got
          /\ link'.ran = link.ran /\ link'.wait = link.wait
      BY <1>1, <3>1 DEF Types, LinkRec
    <3>. QED BY <3>2, <3>3 DEF SameBuffer
  <2>5. others' \in 0..MaxOthers
    BY <1>1, <2>1, LinkAssumption DEF Types
  <2>6. todo' \in Seq(Ops) /\ (conn.rdns => Due(todo', link'.wait))
    BY <1>1, <2>1, <2>4, CalledOther
  <2>7. Calm
    BY <1>1, <2>1, <2>4, <2>5, <2>6 DEF Calm, Types
  <2>. QED BY <2>7, CalmKeeps
<1>. QED BY <1>2, <1>3

LEMMA DestroyInv ==
  ASSUME IInv, Destroy PROVE IInv'
<1>1. Types /\ todo # << >> /\ Head(todo) # "wait"
  BY Typed DEF Destroy, Top
<1>2. CASE Undefined
  BY <1>2, LostKeeps
<1>3. CASE ~Undefined
  <2>1. /\ UNCHANGED <<conn, cont, others, ub>> /\ Call(<< >>)
        /\ link' = [link EXCEPT !.priv = "freed"]
    BY <1>3 DEF Destroy
  <2>2. SameBuffer(link, link') /\ link'.wait = link.wait
    BY <1>1, <2>1 DEF SameBuffer, Types, LinkRec
  <2>3. todo' \in Seq(Ops) /\ (conn.rdns => Due(todo', link'.wait))
    BY <1>1, <2>1, <2>2, Programs, CalledOther
  <2>4. Calm
    BY <1>1, <2>1, <2>2, <2>3 DEF Calm, Types
  <2>. QED BY <2>4, CalmKeeps
<1>. QED BY <1>2, <1>3

LEMMA CloseConnInv ==
  ASSUME IInv, CloseConn PROVE IInv'
<1>1. Types /\ todo # << >> /\ Head(todo) # "wait"
  BY Typed DEF CloseConn, Top
<1>2. Like(conn, conn')
  <2>1. C!Cleared(conn) \in C!ConnRec /\ C!Cleared(conn).rdns = conn.rdns
    BY <1>1, ConnLike DEF Like, Types
  <2>2. Like(conn, C!ShutDown(conn)) /\ Like(C!Cleared(conn), C!ShutDown(C!Cleared(conn)))
    BY <1>1, <2>1, ConnLike DEF Types
  <2>3. conn' = C!ShutDown(conn) \/ conn' = C!ShutDown(C!Cleared(conn))
    BY DEF CloseConn
  <2>. QED BY <2>1, <2>2, <2>3 DEF Like
<1>3. /\ UNCHANGED <<cont, link, others, ub>> /\ Call(<< >>)
  BY DEF CloseConn
<1>4. SameBuffer(link, link') /\ link'.wait = link.wait
  BY <1>1, <1>3 DEF SameBuffer, Types
<1>5. todo' \in Seq(Ops) /\ (conn.rdns => Due(todo', link'.wait))
  BY <1>1, <1>3, <1>4, Programs, CalledOther
<1>6. Calm
  BY <1>1, <1>2, <1>3, <1>4, <1>5 DEF Calm, Types, Like
<1>. QED BY <1>6, CalmKeeps

(* No unwait is left while the host name is looked up.                     *)
LEMMA FlagInv ==
  ASSUME IInv, Flag PROVE IInv'
<1>1. Types /\ todo # << >> /\ Call(<< >>) /\ UNCHANGED <<conn, cont, others, ub>>
  BY Typed DEF Flag, Top
<1>2. SameBuffer(link, link') /\ link'.wait = Top("wait")
  BY <1>1 DEF Flag, SameBuffer, Types, LinkRec, Top
<1>3. todo' \in Seq(Ops)
  <2>1. << >> \o Tail(todo) = Tail(todo) /\ Tail(todo) \in Seq(Ops)
    BY <1>1 DEF Types
  <2>. QED BY <1>1, <2>1 DEF Call
<1>4. ASSUME conn.rdns PROVE Due(todo', link'.wait)
  <2>1. Head(todo) # "unwait"
    BY <1>1, <1>4, Pends, WaitType, DuePop DEF Types
  <2>2. Head(todo) = "wait" /\ ~ub
    BY <2>1 DEF Flag, Top
  <2>3. link'.wait = (link.wait \/ Head(todo) = "wait")
    BY <1>1, <1>2, <2>2, WaitType DEF Top
  <2>. QED BY <1>1, <1>4, <2>3, Programs, Called DEF Call
<1>5. Calm
  BY <1>1, <1>2, <1>3, <1>4 DEF Calm, Types
<1>. QED BY <1>5, CalmKeeps

-----------------------------------------------------------------------------
(* Actions that change the buffer.                                         *)
LEMMA Assemble ==
  ASSUME Types', Exact(Pending', link'.ran, link'.got), link'.pos <= Len(link'.ibuf),
         conn'.rdns => Due(todo', link'.wait)
  PROVE  IInv'
<1>1. TypeOK'
  BY DEF Types, TypeOK, Ops
<1>2. LinesExact'
  BY DEF LinesExact, Exact, Before
<1>3. SkipInBuffer' /\ NamePending'
  BY DEF SkipInBuffer, NamePending, Due
<1>. QED BY <1>1, <1>2, <1>3 DEF IInv

LEMMA Buffer ==
  ASSUME IInv
  PROVE  /\ link.ibuf \in Seq(Unit) /\ link.pos \in Nat /\ link.pos <= Len(link.ibuf)
         /\ Pending = SubSeq(link.ibuf, link.pos + 1, Len(link.ibuf)) /\ Pending \in Seq(Unit)
         /\ Exact(Pending, link.ran, link.got)
         /\ link.got \in 0..MaxLines /\ link.ran \in 0..MaxLines /\ MaxLines \in Nat
<1>1. link.ibuf \in Seq(Unit) /\ link.pos \in Nat /\ link.pos <= Len(link.ibuf)
  BY Typed DEF IInv, Types, LinkRec, Unit, SkipInBuffer
<1>2. Pending = SubSeq(link.ibuf, link.pos + 1, Len(link.ibuf)) /\ Pending \in Seq(Unit)
  BY <1>1, PendingParts DEF Pending
<1>3. Exact(Pending, link.ran, link.got)
  BY LinesExactByBuffer DEF IInv
<1>4. link.got \in 0..MaxLines /\ link.ran \in 0..MaxLines /\ MaxLines \in Nat
  BY Typed, LinkAssumption DEF Types, LinkRec
<1>. QED BY <1>1, <1>2, <1>3, <1>4

(* A new link, and none.                                                   *)
LEMMA Fresh ==
  /\ NewLink \in LinkRec /\ [NewLink EXCEPT !.block = TRUE] \in LinkRec
  /\ Exact(<< >>, 0, 0) /\ SubSeq(<< >>, 0 + 1, Len(<< >>)) = << >>
  /\ C!Free \in C!ConnRec /\ ~C!Free.rdns
  /\ C!Accepted \in C!ConnRec /\ C!Connected \in C!ConnRec
<1>1. NewLink \in LinkRec /\ [NewLink EXCEPT !.block = TRUE] \in LinkRec
  <2>1. /\ << >> \in Seq([k : Kinds \cup {"part"}, n : 1..(MaxLines + 1)])
        /\ 0 \in 0..MaxLines /\ 0 \in Nat /\ 0 \in {0, Limit}
        /\ [users |-> 0, servers |-> 0] \in [users : Nat, servers : Nat]
        /\ {} \in SUBSET {"nick", "user"}
    BY LinkAssumption
  <2>2. NewLink \in LinkRec
    BY <2>1 DEF NewLink, LinkRec
  <2>3. \A r \in LinkRec : [r EXCEPT !.block = TRUE] \in LinkRec
    BY DEF LinkRec
  <2>. QED BY <2>2, <2>3
<1>2. Complete(<< >>) = {}
  BY DEF Complete
<1>3. Exact(<< >>, 0, 0)
  BY <1>2, FS_EmptySet DEF Exact
<1>4. C!Free \in C!ConnRec /\ ~C!Free.rdns
  BY DEF C!Free, C!ConnRec
<1>5. C!Accepted \in C!ConnRec /\ C!Connected \in C!ConnRec
  BY DEF C!Accepted, C!Connected, C!Free, C!ConnRec
<1>. QED BY <1>1, <1>3, <1>4, <1>5

LEMMA FreshLink ==
  ASSUME link' = NewLink \/ link' = [NewLink EXCEPT !.block = TRUE]
  PROVE  /\ link' \in LinkRec /\ Exact(Pending', link'.ran, link'.got)
         /\ link'.pos <= Len(link'.ibuf)
<1>1. link'.ibuf = << >> /\ link'.pos = 0 /\ link'.got = 0 /\ link'.ran = 0
  BY DEF NewLink
<1>2. Pending' = << >>
  BY <1>1, Fresh DEF Pending
<1>3. Exact(Pending', link'.ran, link'.got)
  BY ONLY <1>1, <1>2, Fresh
<1>4. link'.pos <= Len(link'.ibuf)
  BY ONLY <1>1
<1>5. link' \in LinkRec
  BY Fresh
<1>. QED BY <1>3, <1>4, <1>5

LEMMA LookingCalls ==
  /\ Looking \in Seq(Ops) /\ Looking \o <<"dispatch">> \in Seq(Ops)
  /\ \A w : Due(Looking, w) /\ Due(Looking \o <<"dispatch">>, w)
<1>1. "send" \in Ops /\ "wait" \in Ops /\ "dispatch" \in Ops
  BY DEF Ops
<1>2. Looking \in Seq(Ops) /\ Looking[2] = "wait" /\ Looking[1] = "send" /\ Len(Looking) = 2
  BY <1>1 DEF Looking
<1>3. <<"dispatch">> \in Seq(Ops) /\ <<"dispatch">>[1] = "dispatch" /\ Len(<<"dispatch">>) = 1
  BY <1>1
<1>4. PICK r : r = Looking \o <<"dispatch">>
  OBVIOUS
<1>5. /\ r \in Seq(Ops) /\ Len(r) = 3 /\ r[1] = "send" /\ r[2] = "wait"
      /\ r[3] = "dispatch"
  <2>1. /\ Looking \o <<"dispatch">> \in Seq(Ops)
        /\ Len(Looking \o <<"dispatch">>) = Len(Looking) + Len(<<"dispatch">>)
        /\ \A j \in 1..(Len(Looking) + Len(<<"dispatch">>)) :
             (Looking \o <<"dispatch">>)[j] = IF j <= Len(Looking) THEN Looking[j]
                                              ELSE <<"dispatch">>[j - Len(Looking)]
    BY ONLY <1>2, <1>3, InARow
  <2>. QED BY <2>1, <1>2, <1>3, <1>4
<1>6. ASSUME NEW w, NEW s \in {Looking, r} PROVE Due(s, w)
  <2>1. Len(s) \in {2, 3} /\ s[1] = "send" /\ s[2] = "wait" /\ (Len(s) = 3 => s[3] = "dispatch")
    BY <1>2, <1>5
  <2>2. \A i \in 1..Len(s) : s[i] # "unwait"
    BY <2>1
  <2>3. 2 \in 1..Len(s) /\ \A i \in 1..(2 - 1) : s[i] # "dispatch"
    BY <2>1
  <2>. QED BY <2>1, <2>2, <2>3 DEF Due
<1>. QED BY <1>2, <1>4, <1>5, <1>6

LEMMA InitInv == Init => IInv
<1>. SUFFICES ASSUME Init PROVE IInv
  OBVIOUS
<1>1. link.ibuf = << >> /\ link.pos = 0 /\ link.got = 0 /\ link.ran = 0
  BY DEF Init, NewLink
<1>2. Pending = << >>
  BY <1>1, Fresh DEF Pending
<1>3. LinesExact /\ SkipInBuffer
  BY <1>1, <1>2, Fresh, LinesExactByBuffer DEF SkipInBuffer
<1>4. Types
  <2>1. << >> \in Seq(Ops) /\ 0 \in 0..MaxOthers
    BY LinkAssumption
  <2>. QED BY <2>1, Fresh DEF Init, Types
<1>5. NamePending
  BY Fresh DEF NamePending, Init
<1>. QED BY <1>3, <1>4, <1>5, TypeParts DEF IInv

(* The rest of the buffer moves to its start.                              *)
LEMMA Compacted ==
  ASSUME IInv, NEW l \in LinkRec,
         l = [link EXCEPT !.ibuf = Pending, !.pos = 0], link' = l
  PROVE  /\ Exact(Pending', link'.ran, link'.got) /\ link'.pos <= Len(link'.ibuf)
         /\ link'.wait = link.wait
<1>1. /\ link'.ibuf = Pending /\ link'.pos = 0 /\ link'.got = link.got
      /\ link'.ran = link.ran /\ link'.wait = link.wait
  BY Typed DEF Types, LinkRec
<1>2. Pending' = Pending
  <2>1. SubSeq(Pending, 0 + 1, Len(Pending)) = Pending
    BY Buffer, PendingParts
  <2>2. Pending' = SubSeq(link'.ibuf, link'.pos + 1, Len(link'.ibuf))
    BY DEF Pending
  <2>. QED BY ONLY <1>1, <2>1, <2>2
<1>3. 0 <= Len(Pending)
  BY Buffer
<1>. QED BY <1>1, <1>2, <1>3, Buffer

LEMMA CompactedType ==
  ASSUME IInv PROVE [link EXCEPT !.ibuf = Pending, !.pos = 0] \in LinkRec
<1>1. Pending \in Seq([k : Kinds \cup {"part"}, n : 1..(MaxLines + 1)])
  BY Buffer DEF Unit
<1>. QED BY <1>1, Typed DEF Types, LinkRec

LEMMA CompactInv ==
  ASSUME IInv, Compact PROVE IInv'
<1>1. /\ Types /\ todo # << >> /\ Head(todo) = "dispatch"
      /\ UNCHANGED <<conn, cont, others, ub>> /\ Call(<< >>)
      /\ link' = [link EXCEPT !.ibuf = Pending, !.pos = 0]
  BY Typed DEF Compact, Top
<1>2. /\ link' \in LinkRec /\ link'.wait = link.wait
      /\ Exact(Pending', link'.ran, link'.got) /\ link'.pos <= Len(link'.ibuf)
  BY <1>1, Compacted, CompactedType
<1>3. todo' \in Seq(Ops) /\ (conn.rdns => Due(todo', link'.wait))
  BY <1>1, <1>2, Programs, CalledOther
<1>4. Types'
  BY <1>1, <1>2, <1>3 DEF Types
<1>. QED BY <1>1, <1>2, <1>3, <1>4, Assemble

(* A restored link waits for its host name again.                          *)
LEMMA RestartInv ==
  ASSUME IInv, Restart PROVE IInv'
<1>1. Types
  BY Typed
<1>2. CASE Unsavable
  BY <1>2, LostKeeps DEF Restart
<1>3. CASE ~Unsavable /\ link.priv = "live"
  <2>1. /\ cont' = "idle" /\ UNCHANGED <<others, ub>>
        /\ conn' = C!Restored(conn) /\ link' = [link EXCEPT !.ibuf = Pending, !.pos = 0]
        /\ todo' = IF conn.rdns THEN Looking \o <<"dispatch">> ELSE <<"dispatch">>
    BY <1>3 DEF Restart
  <2>2. /\ link' \in LinkRec
        /\ Exact(Pending', link'.ran, link'.got) /\ link'.pos <= Len(link'.ibuf)
    BY <2>1, Compacted, CompactedType
  <2>3. Like(conn, conn')
    BY <1>1, <2>1, ConnLike DEF Types
  <2>4. todo' \in Seq(Ops) /\ (conn.rdns => Due(todo', link'.wait))
    <3>1. <<"dispatch">> \in Seq(Ops)
      BY DEF Ops
    <3>. QED BY <2>1, <3>1, LookingCalls
  <2>5. Types'
    BY <1>1, <2>1, <2>2, <2>3, <2>4 DEF Types, Like
  <2>. QED BY <2>2, <2>3, <2>4, <2>5, Assemble DEF Like
<1>4. CASE ~Unsavable /\ link.priv # "live"
  <2>1. /\ cont' = "idle" /\ UNCHANGED <<others, ub>>
        /\ conn' = C!Free /\ link' = NewLink /\ todo' = << >>
    BY <1>4 DEF Restart
  <2>2. Types' /\ ~conn'.rdns
    BY <1>1, <2>1, Fresh DEF Types
  <2>. QED BY <2>1, <2>2, FreshLink, Assemble
<1>. QED BY <1>2, <1>3, <1>4

LEMMA ExecInv ==
  ASSUME IInv, Exec PROVE IInv'
<1>1. CASE Restart
  BY <1>1, RestartInv
<1>2. CASE ~Restart
  <2>1. /\ Types /\ todo # << >> /\ Head(todo) # "wait" /\ Call(<< >>)
        /\ UNCHANGED <<conn, cont, link, others, ub>>
    BY <1>2, Typed DEF Exec, Top
  <2>2. SameBuffer(link, link') /\ link'.wait = link.wait
    BY <2>1 DEF SameBuffer, Types
  <2>3. todo' \in Seq(Ops) /\ (conn.rdns => Due(todo', link'.wait))
    BY <2>1, <2>2, Programs, CalledOther
  <2>4. Calm
    BY <2>1, <2>2, <2>3 DEF Calm, Types
  <2>. QED BY <2>4, CalmKeeps
<1>. QED BY <1>1, <1>2

-----------------------------------------------------------------------------
(* A handler decides about the link, not about its buffer.                 *)
LEMMA Handled ==
  ASSUME todo \in Seq(Ops), NEW prog \in Seq(Plain), NEW l, NEW l2, SameBuffer(l, l2),
         Handle(prog, l2)
  PROVE  SameBuffer(l, link') /\ todo' \in Seq(Ops)
<1>1. prog \in Seq(Ops)
  BY DEF Plain
<1>. QED BY <1>1 DEF Handle

LEMMA TryRegisterLine ==
  ASSUME todo \in Seq(Ops), NEW l \in LinkRec, NEW k, TryRegister(l, k)
  PROVE  SameBuffer(l, link') /\ todo' \in Seq(Ops)
<1> DEFINE u == [l EXCEPT !.type = "USER", !.priv = "live", !.has = @ \cup {k},
                          !.late = @ \/ (l.type = "NONE" /\ conn.st # "ACTIVE")]
<1>1. k \in {"nick", "user"} /\ l.has \in SUBSET {"nick", "user"} /\ l.late \in BOOLEAN
  BY DEF TryRegister, LinkRec
<1>2. u.has = l.has \cup {k} /\ SameBuffer(l, u)
  <2>1. (l.late \/ (l.type = "NONE" /\ conn.st # "ACTIVE")) \in BOOLEAN
    OBVIOUS
  <2>. QED BY <2>1, <1>1 DEF SameBuffer, LinkRec
<1>3. /\ SameBuffer(l, [u EXCEPT !.has = l.has])
      /\ SameBuffer(l, [u EXCEPT !.registered = TRUE, !.limit = Limit])
  <2> HIDE DEF u
  <2>. QED BY <1>1, <1>2 DEF SameBuffer, LinkRec
<1>4. \/ Handle(<<"sendu">>, [u EXCEPT !.has = l.has])
      \/ Handle(<< >>, u)
      \/ Handle(<<"sendu">>, [u EXCEPT !.registered = TRUE, !.limit = Limit])
      \/ Handle(Fatal, u)
  BY DEF TryRegister
<1> HIDE DEF u
<1>. QED BY <1>2, <1>3, <1>4, Programs, Handled

LEMMA OtherLine ==
  ASSUME todo \in Seq(Ops), NEW l \in LinkRec, NEW k,
         PassSid(l, k) \/ ServerLine(l, k) \/ UserLine(l, k) \/ Reply(l, k)
  PROVE  SameBuffer(l, link') /\ todo' \in Seq(Ops)
<1>1. /\ SameBuffer(l, l)
      /\ SameBuffer(l, [l EXCEPT !.registered = TRUE, !.sentPass = TRUE])
      /\ \A b \in BOOLEAN :
           SameBuffer(l, [l EXCEPT !.type = "SERVER", !.priv = "live", !.late = b])
  BY DEF SameBuffer, LinkRec
<1>2. CASE PassSid(l, k)
  <2>1. \/ Handle(Fatal, l)
        \/ Handle(<< >>, [l EXCEPT !.type = "SERVER", !.priv = "live",
                                    !.late = (conn.st # "ACTIVE")])
    BY <1>2 DEF PassSid
  <2>2. (conn.st # "ACTIVE") \in BOOLEAN
    OBVIOUS
  <2>. QED BY <1>1, <2>1, <2>2, Programs, Handled
<1>3. CASE ServerLine(l, k)
  <2>1. \/ Handle(<<"sendu">>, [l EXCEPT !.registered = TRUE, !.sentPass = TRUE])
        \/ Handle(<<"send", "sendu">>, [l EXCEPT !.registered = TRUE, !.sentPass = TRUE])
        \/ Handle(Fatal, l) \/ Handle(<< >>, l) \/ Handle(Squit, l)
    BY <1>3 DEF ServerLine
  <2>. QED BY <1>1, <2>1, Programs, Handled
<1>4. CASE UserLine(l, k)
  <2>1. Handle(Quit, l) \/ Handle(<<"sendu", "exec", "sendu">>, l)
    BY <1>4 DEF UserLine
  <2>. QED BY <1>1, <2>1, Programs, Handled
<1>5. CASE Reply(l, k)
  <2>1. Handle(<<"send">>, l) \/ Handle(<<"sendu">>, l) \/ Handle(<< >>, l)
    <3>1. l.type \in {"NONE", "USER", "SERVER"}
      BY DEF LinkRec
    <3>. QED BY <1>5, <3>1 DEF Reply
  <2>. QED BY <1>1, <2>1, Programs, Handled
<1>. QED BY <1>2, <1>3, <1>4, <1>5

(* No line is dispatched before the host name is known.                    *)
LEMMA LineNamed ==
  ASSUME IInv, Line PROVE ~conn.rdns
<1>1. todo # << >> /\ Head(todo) = "dispatch" /\ ~link.wait /\ todo \in Seq(Ops)
  BY Typed DEF Line, Top, Types
<1>. QED BY <1>1, Pends, WaitType, DuePop

(* The line that was taken, and the link after it.                         *)
LEMMA LineTaken ==
  ASSUME IInv, Line, ~Undefined
  PROVE  \E i, l, k :
           /\ \/ TryRegister(l, k) \/ PassSid(l, k) \/ ServerLine(l, k)
              \/ UserLine(l, k) \/ Reply(l, k)
           /\ l = [link EXCEPT !.pos = @ + i, !.ran = @ + 1] /\ l \in LinkRec
           /\ i \in 1..Len(Pending) /\ link.pos + i <= Len(link.ibuf)
           /\ Exact(SubSeq(Pending, i + 1, Len(Pending)), link.ran + 1, link.got)
           /\ l.ibuf = link.ibuf /\ l.pos = link.pos + i
           /\ l.ran = link.ran + 1 /\ l.got = link.got
           /\ SameBuffer(l, link') /\ todo' \in Seq(Ops)
           /\ ~conn.rdns /\ UNCHANGED <<conn, cont, others, ub>>
<1>1. PICK i : i = FirstOf(Complete(Pending))
  OBVIOUS
<1>2. PICK l : l = [link EXCEPT !.pos = @ + i, !.ran = @ + 1]
  OBVIOUS
<1>3. /\ Types /\ ~conn.rdns /\ Complete(Pending) # {}
      /\ UNCHANGED <<conn, cont, others, ub>>
  BY LineNamed, Typed DEF Line
<1>4. PICK k : \/ TryRegister(l, k) \/ PassSid(l, k) \/ ServerLine(l, k)
               \/ UserLine(l, k) \/ Reply(l, k)
  BY <1>1, <1>2 DEF Line
<1>5. /\ i \in 1..Len(Pending) /\ link.ran + 1 <= link.got
      /\ Exact(SubSeq(Pending, i + 1, Len(Pending)), link.ran + 1, link.got)
  <2>1. PICK p, r, g : p = Pending /\ r = link.ran /\ g = link.got
    OBVIOUS
  <2>2. p \in Seq(Unit) /\ r \in Nat /\ g \in Nat /\ Exact(p, r, g)
    BY <2>1, Buffer
  <2>3. Complete(p) # {} /\ i = FirstOf(Complete(p))
    BY <1>1, <1>3, <2>1
  <2>4. i \in 1..Len(p) /\ r + 1 <= g /\ Exact(SubSeq(p, i + 1, Len(p)), r + 1, g)
    BY ONLY <2>2, <2>3, TakeLine
  <2>. QED BY ONLY <2>1, <2>4
<1>6. Len(Pending) = Len(link.ibuf) - link.pos /\ Len(link.ibuf) \in Nat
  <2>1. PICK p, b, n : p = Pending /\ b = link.ibuf /\ n = link.pos
    OBVIOUS
  <2>2. b \in Seq(Unit) /\ n \in Nat /\ n <= Len(b) /\ p = SubSeq(b, n + 1, Len(b))
    BY <2>1, Buffer
  <2>3. Len(p) = Len(b) - n /\ Len(b) \in Nat
    BY ONLY <2>2
  <2>. QED BY ONLY <2>1, <2>3
<1>7. link.pos + i \in Nat /\ link.ran + 1 \in 0..MaxLines /\ link.pos + i <= Len(link.ibuf)
  <2>1. /\ link.pos \in Nat /\ link.pos <= Len(link.ibuf)
        /\ link.got \in 0..MaxLines /\ link.ran \in 0..MaxLines /\ MaxLines \in Nat
    BY Buffer
  <2>2. i \in Int /\ 1 <= i /\ i <= Len(Pending) /\ Len(Pending) + link.pos = Len(link.ibuf)
    <3>1. Len(Pending) \in Int /\ link.pos \in Int
      BY <1>6, <2>1
    <3>2. i \in Int /\ 1 <= i /\ i <= Len(Pending)
      BY ONLY <1>5, <3>1
    <3>. QED BY ONLY <3>1, <3>2, <1>6
  <2>3. link.pos + i \in Nat /\ link.pos + i <= Len(link.ibuf)
    BY ONLY <1>6, <2>1, <2>2
  <2>4. link.ran + 1 \in 0..MaxLines
    BY ONLY <1>5, <2>1
  <2>. QED BY <2>3, <2>4
<1>8. /\ l \in LinkRec /\ l.ibuf = link.ibuf /\ l.pos = link.pos + i
      /\ l.ran = link.ran + 1 /\ l.got = link.got
  BY <1>2, <1>3, <1>7 DEF Types, LinkRec
<1>9. SameBuffer(l, link') /\ todo' \in Seq(Ops)
  BY <1>3, <1>4, <1>8, TryRegisterLine, OtherLine DEF Types
<1>. QED BY <1>2, <1>3, <1>4, <1>5, <1>7, <1>8, <1>9

LEMMA LineInv ==
  ASSUME IInv, Line PROVE IInv'
<1>1. CASE Undefined
  BY <1>1, LostKeeps
<1>2. CASE ~Undefined
  <2>1. PICK i, l, k :
           /\ l \in LinkRec
           /\ i \in 1..Len(Pending) /\ link.pos + i <= Len(link.ibuf)
           /\ Exact(SubSeq(Pending, i + 1, Len(Pending)), link.ran + 1, link.got)
           /\ l.ibuf = link.ibuf /\ l.pos = link.pos + i
           /\ l.ran = link.ran + 1 /\ l.got = link.got
           /\ SameBuffer(l, link') /\ todo' \in Seq(Ops)
           /\ ~conn.rdns /\ UNCHANGED <<conn, cont, others, ub>>
    BY <1>2, LineTaken
  <2>2. Types
    BY Typed
  <2>3. Pending' = SubSeq(Pending, i + 1, Len(Pending))
    <3>1. SubSeq(link.ibuf, link.pos + i + 1, Len(link.ibuf))
            = SubSeq(Pending, i + 1, Len(Pending))
      <4>1. PICK p : p = SubSeq(link.ibuf, link.pos + 1, Len(link.ibuf))
        OBVIOUS
      <4>2. \A j \in 1..Len(p) : SubSeq(link.ibuf, link.pos + j + 1, Len(link.ibuf))
                                   = SubSeq(p, j + 1, Len(p))
        BY ONLY <4>1, IInv, Buffer, PendingParts
      <4>3. p = Pending
        BY <4>1, Buffer
      <4>. QED BY <2>1, <4>2, <4>3
    <3>2. Pending' = SubSeq(link'.ibuf, link'.pos + 1, Len(link'.ibuf))
      BY DEF Pending
    <3>. QED BY <2>1, <3>1, <3>2 DEF SameBuffer
  <2>4. Types'
    BY <2>2, <2>1 DEF Types, SameBuffer
  <2>6. /\ Exact(Pending', link'.ran, link'.got) /\ link'.pos <= Len(link'.ibuf)
    <3>1. /\ link'.ran = link.ran + 1 /\ link'.got = link.got /\ link'.pos = link.pos + i
          /\ link'.ibuf = link.ibuf
      BY <2>1 DEF SameBuffer
    <3>2. Exact(Pending', link'.ran, link'.got)
      BY ONLY <2>1, <2>3, <3>1
    <3>. QED BY <3>1, <3>2, <2>1
  <2>5. conn'.rdns => Due(todo', link'.wait)
    BY <2>1
  <2>. QED BY <2>4, <2>6, <2>5, Assemble
<1>. QED BY <1>1, <1>2

-----------------------------------------------------------------------------
(* Events.                                                                 *)

(* One that leaves the link alone, but for the burst.                      *)
LEMMA EventKeeps ==
  ASSUME IInv, NEW c, NEW prog \in Seq(Plain), NEW then, Event(c, prog, then),
         Like(conn, c), then \in C!Conts \cup {"idle"},
         SameBuffer(link, link'), link'.wait = link.wait
  PROVE  IInv'
<1>1. todo = << >> /\ todo' = prog /\ conn' = c /\ cont' = then /\ UNCHANGED <<others, ub>>
  BY DEF Event, Idle
<1>2. todo' \in Seq(Ops) /\ (conn.rdns => Due(todo', link'.wait))
  BY <1>1, Woken
<1>3. Calm
  BY <1>1, <1>2, Typed DEF Calm, Types, Like
<1>. QED BY <1>3, CalmKeeps

LEMMA SameLink ==
  ASSUME IInv, UNCHANGED link
  PROVE  SameBuffer(link, link') /\ link'.wait = link.wait
BY Typed DEF Types, SameBuffer

(* The callbacks that say that the connection ends.                        *)
LEMMA EndsInv ==
  ASSUME IInv, ExcessFlood \/ RecvEof \/ RecvError \/ SendError PROVE IInv'
<1>1. /\ Types /\ UNCHANGED link /\ Like(conn, conn) /\ Like(conn, C!Broken(conn))
      /\ "end_of_stream" \in C!Conts /\ "fatal_error" \in C!Conts
  BY Typed, ConnLike DEF Types, Like, C!Conts, ExcessFlood, RecvEof, RecvError, SendError
<1>2. Like(conn, C!Marked(C!Broken(conn)))
  <2>1. C!Broken(conn) \in C!ConnRec
    BY <1>1 DEF Like
  <2>. QED BY <1>1, <2>1, MarkedLike DEF Like
<1>3. \/ Event(conn, Fatal, "idle") \/ Event(conn, <<"exq">>, "end_of_stream")
      \/ Event(C!Broken(conn), <<"exq">>, "fatal_error")
      \/ Event(C!Marked(C!Broken(conn)), << >>, "idle")
  BY DEF ExcessFlood, RecvEof, RecvError, SendError
<1>. QED BY <1>1, <1>2, <1>3, SameLink, Programs, EventKeeps

LEMMA SendReadyInv ==
  ASSUME IInv, NEW n \in 1..conn.size, SendReady(n) PROVE IInv'
<1>1. Like(conn, C!Wrote(conn, n))
  BY Typed, ConnLike DEF Types
<1>. QED BY <1>1, SameLink, Programs, EventKeeps DEF SendReady

LEMMA ConnectEndInv ==
  ASSUME IInv, ConnectEnd PROVE IInv'
<1>1. Types /\ Like(conn, [conn EXCEPT !.st = "ACTIVE"]) /\ Like(conn, C!Broken(conn))
      /\ "connect_ok" \in C!Conts /\ "connect_error" \in C!Conts
  BY Typed, ConnLike DEF Types, C!Conts
<1>2. SameBuffer(link, link') /\ link'.wait = link.wait
  BY <1>1 DEF ConnectEnd, SameBuffer, Types, LinkRec
<1>3. PICK prog \in Seq(Plain) :
        \/ Event([conn EXCEPT !.st = "ACTIVE"], prog, "connect_ok")
        \/ Event(C!Broken(conn), prog, "connect_error")
  BY Programs DEF ConnectEnd
<1>. QED BY <1>1, <1>2, <1>3, EventKeeps

(* The answer of the resolver: nothing is looked up any more.              *)
LEMMA RdnsCallbackInv ==
  ASSUME IInv, RdnsCallback PROVE IInv'
<1>1. /\ Types /\ conn' = [conn EXCEPT !.rdns = FALSE] /\ todo' = Looked /\ cont' = "idle"
      /\ UNCHANGED <<link, others, ub>>
  BY Typed DEF RdnsCallback, Event
<1>2. conn' \in C!ConnRec /\ ~conn'.rdns
  BY <1>1 DEF Types, C!ConnRec
<1>3. todo' \in Seq(Ops)
  <2>1. "send" \in Ops /\ "unwait" \in Ops /\ "dispatch" \in Ops
    BY DEF Ops
  <2>. QED BY <1>1, <2>1 DEF Looked
<1>4. Types'
  BY <1>1, <1>2, <1>3 DEF Types
<1>5. Pending' = Pending
  BY <1>1 DEF Pending
<1>. QED BY <1>1, <1>2, <1>4, <1>5, Buffer, Assemble

(* conn.c makes a connection for a new link, or frees it.                  *)
LEMMA MakesInv ==
  ASSUME IInv, Accept \/ Connect PROVE IInv'
<1>1. /\ Types /\ conn' \in {C!Accepted, C!Connected} /\ todo' = Looking /\ cont' = "idle"
      /\ link' = NewLink \/ link' = [NewLink EXCEPT !.block = TRUE]
      /\ UNCHANGED <<others, ub>>
  BY Typed DEF Accept, Connect, Event
<1>2. todo' \in Seq(Ops) /\ Due(todo', link'.wait)
  BY <1>1, LookingCalls
<1>3. Types'
  BY <1>1, <1>2, Fresh, FreshLink DEF Types
<1>. QED BY <1>1, <1>2, <1>3, FreshLink, Assemble

LEMMA CleanupInv ==
  ASSUME IInv, Cleanup PROVE IInv'
<1>1. CASE Undefined
  BY <1>1, LostKeeps
<1>2. CASE ~Undefined
  <2>1. /\ Types /\ conn' = C!Free /\ todo' = << >> /\ cont' = "idle" /\ link' = NewLink
        /\ UNCHANGED <<others, ub>>
    BY <1>2, Typed DEF Cleanup, Event
  <2>2. << >> \in Seq(Ops)
    OBVIOUS
  <2>3. Types' /\ ~conn'.rdns
    BY <2>1, <2>2, Fresh DEF Types
  <2>. QED BY <2>1, <2>3, FreshLink, Assemble
<1>. QED BY <1>1, <1>2

LEMMA ReturnInv ==
  ASSUME IInv, Return PROVE IInv'
<1>1. /\ Types /\ todo = << >> /\ conn' = C!Finished(cont, conn) /\ cont' = "idle"
      /\ UNCHANGED <<link, todo, others, ub>>
  BY Typed DEF Return
<1>2. Like(conn, conn')
  BY <1>1, ConnLike DEF Types
<1>3. Calm
  BY <1>1, <1>2, SameLink, Pends DEF Calm, Types, Like
<1>. QED BY <1>3, CalmKeeps

(* on_data_ready: the loop of the dispatch finds the link waiting, if its  *)
(* host name is looked up.                                                 *)
LEMMA RecvDataInv ==
  ASSUME IInv, NEW s \in Reads, RecvData(s) PROVE IInv'
<1>1. PICK q : q = Numbered(s)
  OBVIOUS
<1>2. /\ Types /\ todo = << >> /\ todo' = <<"dispatch">> /\ cont' = "idle"
      /\ link' = [link EXCEPT !.ibuf = @ \o q, !.got = @ + Cardinality(Complete(q))]
      /\ UNCHANGED <<conn, others, ub>>
  BY <1>1, Typed DEF RecvData, Event, Idle
<1>3. /\ q \in Seq(Unit) /\ link.got + Cardinality(Complete(q)) \in 0..MaxLines
      /\ \A i \in Complete(q) : q[i].n = link.got + Cardinality(Before(q, i))
  BY <1>1, Buffer, NumberedLines
<1>4. /\ link'.ibuf = link.ibuf \o q /\ link'.pos = link.pos /\ link'.ran = link.ran
      /\ link'.got = link.got + Cardinality(Complete(q)) /\ link'.wait = link.wait
      /\ link' \in LinkRec
  <2>1. link.ibuf \o q \in Seq([k : Kinds \cup {"part"}, n : 1..(MaxLines + 1)])
    BY <1>3, Buffer, InARow DEF Unit
  <2>. QED BY <1>2, <1>3, <2>1 DEF Types, LinkRec
<1>5. Pending' = Pending \o q
  <2>1. PICK p : p = SubSeq(link.ibuf, link.pos + 1, Len(link.ibuf))
    OBVIOUS
  <2>2. SubSeq(link.ibuf \o q, link.pos + 1, Len(link.ibuf \o q)) = p \o q
    BY ONLY <1>3, <2>1, IInv, Buffer, PendingParts
  <2>3. Pending' = SubSeq(link'.ibuf, link'.pos + 1, Len(link'.ibuf)) /\ p = Pending
    BY <2>1, Buffer DEF Pending
  <2>. QED BY ONLY <1>4, <2>2, <2>3
<1>6. Exact(Pending \o q, link.ran, link.got + Cardinality(Complete(q)))
  <2>1. Pending \in Seq(Unit) /\ link.ran \in Nat /\ link.got \in Nat
    BY Buffer
  <2>. QED BY <1>3, <2>1, Buffer, AddLines
<1>7. Exact(Pending', link'.ran, link'.got)
  BY ONLY <1>4, <1>5, <1>6
<1>8. link'.pos <= Len(link'.ibuf)
  <2>1. Len(link.ibuf \o q) = Len(link.ibuf) + Len(q) /\ Len(q) \in Nat
    BY <1>3, Buffer, InARow
  <2>. QED BY <1>4, <2>1, Buffer
<1>9. todo' \in Seq(Ops) /\ (conn.rdns => Due(todo', link'.wait))
  <2>1. "dispatch" \in Ops
    BY DEF Ops
  <2>2. conn.rdns => link.wait
    BY <1>2, Pends DEF Due
  <2>. QED BY <1>2, <1>4, <2>1, <2>2 DEF Due
<1>10. Types'
  BY <1>2, <1>4, <1>9 DEF Types
<1>. QED BY <1>2, <1>7, <1>8, <1>9, <1>10, Assemble

LEMMA OthersInv ==
  ASSUME IInv, Others PROVE IInv'
<1>0. /\ Types /\ todo = << >> /\ UNCHANGED <<conn, cont, ub>>
      /\ others < MaxOthers /\ others' = others + 1
  BY Typed DEF Others, Idle
<1>a. others' \in 0..MaxOthers
  BY <1>0, LinkAssumption DEF Types
<1>b. PICK prog \in Seq(Plain) : todo' = prog
  BY Programs DEF Others
<1>c. link' = link \/ link' = [link EXCEPT !.has = @ \ {"nick"}]
  BY DEF Others
<1>1. /\ Types /\ todo = << >> /\ others' \in 0..MaxOthers /\ UNCHANGED <<conn, cont, ub>>
      /\ todo' = prog
      /\ link' = link \/ link' = [link EXCEPT !.has = @ \ {"nick"}]
  BY ONLY <1>0, <1>a, <1>b, <1>c
<1>2. SameBuffer(link, link') /\ link'.wait = link.wait
  <2>1. link \in LinkRec
    BY <1>1 DEF Types
  <2>2. CASE link' = link
    BY <2>1, <2>2 DEF SameBuffer
  <2>3. CASE link' = [link EXCEPT !.has = @ \ {"nick"}]
    <3>1. link' \in LinkRec
      BY <2>1, <2>3 DEF LinkRec
    <3>. QED BY <2>1, <2>3, <3>1 DEF SameBuffer, LinkRec
  <2>. QED BY <1>1, <2>2, <2>3
<1>3. todo' \in Seq(Ops) /\ (conn.rdns => Due(todo', link'.wait))
  BY <1>1, <1>2, Woken
<1>4. Calm
  BY <1>1, <1>2, <1>3 DEF Calm, Types
<1>. QED BY <1>4, CalmKeeps

-----------------------------------------------------------------------------
LEMMA NextInv ==
  ASSUME IInv, [Next]_vars PROVE IInv'
<1>1. CASE UNCHANGED vars
  <2>1. Calm
    BY <1>1, Typed, Pends DEF vars, Calm, SameBuffer, Types
  <2>. QED BY <2>1, CalmKeeps
<1>2. CASE Run
  BY <1>2, LineInv, CompactInv, ExceptionalQuitInv, SendLineInv, TellInv, DestroyInv,
     CloseConnInv, FlagInv, ExecInv DEF Run
<1>3. CASE Return \/ Cleanup
  BY <1>3, ReturnInv, CleanupInv
<1>4. CASE Accept \/ Connect \/ ConnectEnd
  BY <1>4, MakesInv, ConnectEndInv
<1>5. CASE \E s \in Reads : RecvData(s)
  BY <1>5, RecvDataInv
<1>6. CASE ExcessFlood \/ RecvEof \/ RecvError \/ SendError
  BY <1>6, EndsInv
<1>7. CASE \E n \in 1..conn.size : SendReady(n)
  BY <1>7, SendReadyInv
<1>8. CASE RdnsCallback \/ Others \/ Upgrade
  BY <1>8, RdnsCallbackInv, OthersInv, RestartInv DEF Upgrade
<1>. QED BY <1>1, <1>2, <1>3, <1>4, <1>5, <1>6, <1>7, <1>8 DEF Next

(* The invariant: types, the lines of the buffer, the skipped part within  *)
(* it, and the lookup that the calls on the stack still answer for.        *)
THEOREM InductiveInvariant == Spec => []IInv
BY InitInv, NextInv, PTL DEF Spec

(* Every line a peer sent is in the buffer or was dispatched, once and in  *)
(* order, whatever the lines do and through any number of upgrades.        *)
THEOREM EveryLineOnce == Spec => []LinesExact
<1>1. IInv => LinesExact
  BY DEF IInv
<1>. QED BY <1>1, InductiveInvariant, PTL

(* dispatch_lines reads within the buffer.                                 *)
THEOREM SkipStaysInBuffer == Spec => []SkipInBuffer
<1>1. IInv => SkipInBuffer
  BY DEF IInv
<1>. QED BY <1>1, InductiveInvariant, PTL

(* Only the dispatch loop counts a line as run.                            *)
LEMMA OnlyLineRuns ==
  ASSUME IInv, [Next]_vars, link'.ran > link.ran PROVE ~conn.rdns
<1>1. link.ran \in Nat /\ Types
  BY Buffer, Typed
<1>2. CASE Line
  BY <1>2, LineNamed
<1>3. ASSUME ~Line PROVE link'.ran = link.ran \/ link'.ran = 0
  <2>1. link \in LinkRec /\ NewLink.ran = 0
    BY <1>1 DEF Types, NewLink
  <2>2. CASE UNCHANGED link
    BY <2>2
  <2>3. CASE Restart
    <3>1. link' = link \/ link' = NewLink \/ link' = [link EXCEPT !.ibuf = Pending, !.pos = 0]
      BY <2>3 DEF Restart, Undefined
    <3>. QED BY <2>1, <3>1 DEF LinkRec
  <2>4. CASE Compact \/ ExceptionalQuit \/ Flag \/ Destroy \/ Tell
    <3>1. CASE Compact
      BY <2>1, <3>1 DEF Compact, LinkRec
    <3>2. CASE ExceptionalQuit
      BY <2>1, <3>2 DEF ExceptionalQuit, LinkRec
    <3>3. CASE Flag
      BY <2>1, <3>3 DEF Flag, LinkRec
    <3>4. CASE Destroy
      BY <2>1, <3>4 DEF Destroy, Undefined, LinkRec
    <3>5. CASE Tell
      BY <2>1, <3>5 DEF Tell, Undefined, LinkRec
    <3>. QED BY <2>4, <3>1, <3>2, <3>3, <3>4, <3>5
  <2>5. CASE SendLine \/ CloseConn \/ (Exec /\ ~Restart)
    BY <2>5, <2>2 DEF SendLine, CloseConn, Exec, Undefined
  <2>6. CASE Accept \/ Connect \/ Cleanup
    <3>1. link' = link \/ link' = NewLink \/ link' = [NewLink EXCEPT !.block = TRUE]
      BY <2>6 DEF Accept, Connect, Cleanup, Undefined
    <3>. QED BY <2>1, <3>1 DEF NewLink
  <2>7. CASE ConnectEnd
    BY <2>1, <2>7 DEF ConnectEnd, LinkRec
  <2>8. CASE \E s \in Reads : RecvData(s)
    <3>1. PICK s \in Reads : RecvData(s)
      BY <2>8
    <3>. QED BY <2>1, <3>1 DEF RecvData, LinkRec
  <2>9. CASE Others
    <3>1. link' = link \/ link' = [link EXCEPT !.has = @ \ {"nick"}]
      BY <2>9 DEF Others
    <3>. QED BY <2>1, <3>1 DEF LinkRec
  <2>10. CASE \/ Return \/ ExcessFlood \/ RecvEof \/ RecvError \/ SendError \/ RdnsCallback
              \/ (\E n \in 1..conn.size : SendReady(n)) \/ UNCHANGED vars
    <3>1. UNCHANGED link
      BY <2>10 DEF Return, ExcessFlood, RecvEof, RecvError, SendError, RdnsCallback,
         SendReady, vars
    <3>. QED BY <3>1, <2>2
  <2>11. CASE Upgrade
    BY <2>11, <2>3 DEF Upgrade
  <2>12. CASE Run
    BY <2>12, <1>3, <2>3, <2>4, <2>5 DEF Run
  <2>. QED BY <2>2, <2>6, <2>7, <2>8, <2>9, <2>10, <2>11, <2>12 DEF Next
<1>4. CASE ~Line
  BY <1>1, <1>3, <1>4
<1>. QED BY <1>2, <1>4

(* No line is dispatched while the host name is looked up.                 *)
THEOREM NameBeforeLines == Spec => NoLineBeforeHostName
<1>1. IInv /\ [Next]_vars => [link'.ran > link.ran => ~conn.rdns]_vars
  BY OnlyLineRuns
<1>. QED BY <1>1, InductiveInvariant, PTL DEF Spec, NoLineBeforeHostName

-----------------------------------------------------------------------------
(***************************************************************************)
(* The connection under a link: link.c calls conn.c as module Conn has it  *)
(* (ImplementsConn).  What this needs is CallsFit: that the connection is  *)
(* there, that a process that replaces itself has live users and servers   *)
(* only on connections that were made, and does so from the event loop or  *)
(* from a handler of dispatch_lines, not from the middle of conn.c.        *)
(***************************************************************************)

(* What the functions of conn.c leave of a connection.                     *)
Alike(r, r2) ==
  /\ r2.st = r.st \/ {r.st, r2.st} \subseteq {"SHUTTING_DOWN", "AWAIT_CLEANUP"}
  /\ r.st \in {"CONNECTING", "ACTIVE"} => r2.listed = r.listed
  /\ r2.send = "connect_end" => r.send = "connect_end"
  /\ r2.rdns => r.rdns

(* mark_for_cleanup. *)
LEMMA MarkedEnds ==
  ASSUME NEW r \in C!ConnRec
  PROVE  /\ C!Marked(r).st = "AWAIT_CLEANUP" /\ C!Marked(r).rdns = r.rdns
         /\ C!Marked(r).send = "connect_end" =>
              r.send = "connect_end" /\ r.st = "AWAIT_CLEANUP"
<1>1. CASE r.st = "AWAIT_CLEANUP"
  BY <1>1 DEF C!Marked
<1>2. CASE r.st # "AWAIT_CLEANUP"
  <2>1. PICK n : C!Marked(r) = [r EXCEPT !.st = "AWAIT_CLEANUP", !.recv = FALSE,
                                         !.send = "off", !.listed = n]
    BY <1>2 DEF C!Marked, C!ConnRec
  <2>. QED BY <2>1 DEF C!ConnRec
<1>. QED BY <1>1, <1>2

(* sync_on_update. *)
LEMMA SyncEnds ==
  ASSUME NEW r \in C!ConnRec
  PROVE  LET q == C!SyncOnUpdate(r)
         IN  /\ q.st = r.st \/ (r.st = "SHUTTING_DOWN" /\ q.st = "AWAIT_CLEANUP")
             /\ q.rdns = r.rdns
             /\ r.st \in {"CONNECTING", "ACTIVE"} => q.listed = r.listed
             /\ q.send = "connect_end" => r.send = "connect_end" /\ r.st # "ACTIVE"
<1>1. CASE r.st = "ACTIVE"
  <2>1. PICK o \in {"off", "send_ready"} :
          C!SyncOnUpdate(r) = [r EXCEPT !.recv = TRUE, !.send = o]
    BY <1>1 DEF C!SyncOnUpdate
  <2>. QED BY <1>1, <2>1 DEF C!ConnRec
<1>2. CASE r.st = "SHUTTING_DOWN" /\ r.size = 0
  <2>1. C!SyncOnUpdate(r) = C!Marked(r)
    BY <1>2 DEF C!SyncOnUpdate
  <2>. QED BY <1>2, <2>1, MarkedEnds
<1>3. CASE r.st # "ACTIVE" /\ ~(r.st = "SHUTTING_DOWN" /\ r.size = 0)
  <2>1. C!SyncOnUpdate(r) = [r EXCEPT !.recv = FALSE]
    BY <1>3 DEF C!SyncOnUpdate
  <2>. QED BY <1>3, <2>1 DEF C!ConnRec
<1>. QED BY <1>1, <1>2, <1>3

(* A connection that was changed in other fields, and synced. *)
LEMMA SyncAlike ==
  ASSUME NEW r \in C!ConnRec, NEW q \in C!ConnRec, q.st = r.st, q.send = r.send,
         q.listed = r.listed, q.rdns = r.rdns
  PROVE  Alike(r, C!SyncOnUpdate(q))
BY SyncEnds DEF Alike

(* A line is queued. *)
LEMMA QueuedEnds ==
  ASSUME NEW r \in C!ConnRec PROVE Alike(r, C!Queued(r))
<1>1. PICK n, m \in Nat : n = r.size + 1 /\ m = r.total + 1
  BY DEF C!ConnRec
<1>2. PICK q : q = [r EXCEPT !.size = n, !.total = m]
  OBVIOUS
<1>3. q \in C!ConnRec /\ q.st = r.st /\ q.send = r.send /\ q.listed = r.listed /\ q.rdns = r.rdns
  BY <1>2 DEF C!ConnRec
<1>4. C!Queued(r) = C!SyncOnUpdate(q)
  BY <1>1, <1>2 DEF C!Queued
<1>. QED BY <1>3, <1>4, SyncAlike

(* The socket takes some of the queue. *)
LEMMA WroteEnds ==
  ASSUME NEW r \in C!ConnRec, NEW n \in 1..r.size
  PROVE  Alike(r, C!Wrote(r, n))
<1>1. PICK m \in Nat : m = r.size - n
  BY DEF C!ConnRec
<1>2. PICK q : q = [r EXCEPT !.size = m]
  OBVIOUS
<1>3. q \in C!ConnRec /\ q.st = r.st /\ q.send = r.send /\ q.listed = r.listed /\ q.rdns = r.rdns
  BY <1>2 DEF C!ConnRec
<1>4. C!Wrote(r, n) = C!SyncOnUpdate(q)
  BY <1>1, <1>2 DEF C!Wrote
<1>. QED BY <1>3, <1>4, SyncAlike

(* The socket fails, or the host name is known. *)
LEMMA BrokenEnds ==
  ASSUME NEW r \in C!ConnRec
  PROVE  /\ Alike(r, r) /\ Alike(r, C!Broken(r)) /\ Alike(r, [r EXCEPT !.rdns = FALSE])
         /\ C!Broken(r) \in C!ConnRec /\ C!Broken(r).st = r.st
BY DEF C!Broken, C!ConnRec, Alike

(* u_conn_shut_down, also after u_conn_sendq_clear. *)
LEMMA ShutDownEnds ==
  ASSUME NEW r \in C!ConnRec
  PROVE  /\ C!ShutDown(r).st \in {"SHUTTING_DOWN", "AWAIT_CLEANUP"}
         /\ C!ShutDown(r).send # "connect_end" /\ C!ShutDown(r).rdns = r.rdns
         /\ C!Cleared(r) \in C!ConnRec /\ C!Cleared(r).rdns = r.rdns
<1>1. PICK a \in BOOLEAN : a = (r.again \/ r.st = "AWAIT_CLEANUP")
  BY Zenon DEF C!ConnRec
<1>2. PICK q : q = [r EXCEPT !.st = "SHUTTING_DOWN", !.recv = FALSE,
                             !.send = "send_ready", !.again = a]
  OBVIOUS
<1>3. q \in C!ConnRec /\ q.st = "SHUTTING_DOWN" /\ q.send = "send_ready" /\ q.rdns = r.rdns
  BY <1>2 DEF C!ConnRec
<1>4. q = [r EXCEPT !.st = "SHUTTING_DOWN", !.recv = FALSE, !.send = "send_ready",
                    !.again = @ \/ r.st = "AWAIT_CLEANUP"]
  BY <1>1, <1>2, Zenon
<1>5. C!ShutDown(r) = C!SyncOnUpdate(q)
  BY <1>4, Zenon DEF C!ShutDown
<1>6. C!Cleared(r) \in C!ConnRec /\ C!Cleared(r).rdns = r.rdns
  BY DEF C!Cleared, C!ConnRec
<1>. QED BY <1>3, <1>5, <1>6, SyncEnds

(* A connection that the successor of an upgrade restores. *)
LEMMA RestoredEnds ==
  ASSUME NEW r \in C!ConnRec
  PROVE  LET q == C!Restored(r)
         IN  /\ q.st = r.st \/ {r.st, q.st} \subseteq {"SHUTTING_DOWN", "AWAIT_CLEANUP"}
             /\ q.st = "ACTIVE" => q.listed = 0
             /\ q.send # "connect_end"
<1>1. PICK a \in BOOLEAN : a = (r.carried \/ r.st # "ACTIVE")
  BY Zenon DEF C!ConnRec
<1>2. PICK q : q = [r EXCEPT !.recv = FALSE, !.send = "off", !.listed = 0,
                             !.again = FALSE, !.carried = a]
  OBVIOUS
<1>3. q \in C!ConnRec /\ q.st = r.st /\ q.listed = 0 /\ q.send = "off"
  BY <1>2 DEF C!ConnRec
<1>4. q = [r EXCEPT !.recv = FALSE, !.send = "off", !.listed = 0,
                    !.again = FALSE, !.carried = @ \/ r.st # "ACTIVE"]
  BY <1>1, <1>2, Zenon
<1>5. C!Restored(r) = C!SyncOnUpdate(q)
  BY <1>4, Zenon DEF C!Restored
<1>. QED BY <1>3, <1>5, SyncEnds

(* What conn.c does after a callback: a connection that was there is, and  *)
(* one that was made is not being made again.                              *)
LEMMA FinishedEnds ==
  ASSUME NEW r \in C!ConnRec, NEW w \in C!Conts
  PROVE  LET q == C!Finished(w, r)
         IN  /\ q.st = "none" => r.st = "none"
             /\ q.st = "CONNECTING" => r.st = "CONNECTING"
             /\ w = "connect_ok" => Alike(r, q) /\ (q.send = "connect_end" => r.st # "ACTIVE")
             /\ w # "connect_ok" => /\ q.st \in {"SHUTTING_DOWN", "AWAIT_CLEANUP"}
                                    /\ q.send = "connect_end" => r.st = "AWAIT_CLEANUP" /\ r.send = q.send
             /\ q.rdns = r.rdns
<1>1. CASE w = "connect_ok"
  BY <1>1, SyncEnds, SyncAlike DEF C!Finished
<1>2. CASE w = "end_of_stream"
  BY <1>2, ShutDownEnds DEF C!Finished
<1>3. CASE w \notin {"connect_ok", "end_of_stream"}
  BY <1>3, MarkedEnds DEF C!Finished
<1>. QED BY <1>1, <1>2, <1>3

(* Nothing is pending in a buffer that is empty. *)
LEMMA NothingPending ==
  ASSUME IInv, link.ibuf = << >> PROVE Pending = << >> /\ Complete(Pending) = {}
<1>1. link.pos \in Nat /\ link.pos <= Len(link.ibuf)
  BY Buffer
<1>2. link.pos = 0 /\ Len(link.ibuf) = 0
  BY <1>1
<1>3. Pending = SubSeq(<< >>, 1, 0)
  BY <1>2 DEF Pending
<1>4. Pending = << >>
  BY <1>3
<1>. QED BY <1>4 DEF Complete

-----------------------------------------------------------------------------
(* Calls that neither dispatch nor upgrade.                                *)
Light(t) == \A i \in 1..Len(t) : t[i] \notin {"dispatch", "exec"}

(* What is called instead of the first call, or before all, and what was.  *)
LEMMA LightCat ==
  ASSUME NEW s \in Seq(Ops), Light(s), NEW t \in Seq(Ops), Light(t)
  PROVE  Light(s \o t) /\ (t # << >> => Light(s \o Tail(t)))
<1>1. ASSUME NEW u \in Seq(Ops), Light(u) PROVE Light(s \o u)
  <2>0. PICK r, n : r = s \o u /\ n = Len(s)
    OBVIOUS
  <2>1. /\ n \in Nat /\ Len(u) \in Nat /\ Len(r) = n + Len(u)
        /\ \A i \in 1..Len(r) : r[i] = IF i <= n THEN s[i] ELSE u[i - n]
    BY <2>0
  <2>2. ASSUME NEW i \in 1..Len(r) PROVE r[i] \notin {"dispatch", "exec"}
    <3>1. CASE i <= n
      BY <2>0, <2>1, <3>1 DEF Light
    <3>2. CASE ~(i <= n)
      <4>1. i - n \in 1..Len(u)
        BY <2>1, <3>2
      <4>. QED BY <1>1, <2>1, <3>2, <4>1 DEF Light
    <3>. QED BY <3>1, <3>2
  <2>. QED BY <2>0, <2>2 DEF Light
<1>2. ASSUME t # << >> PROVE Tail(t) \in Seq(Ops) /\ Light(Tail(t))
  BY <1>2 DEF Light
<1>. QED BY <1>1, <1>2

(* The programs of calls.  *)
LEMMA LightPrograms ==
  /\ Light(Fatal) /\ Light(Full) /\ Light(Killed) /\ Light(SquitByOther) /\ Light(<< >>)
  /\ Light(<<"send">>) /\ Light(<<"exq">>)
  /\ Light(<<"tell_users", "tell_servers", "destroy">>)
  /\ Light(<<"tell_servers", "send", "destroy">>)
BY DEF Fatal, Full, Killed, SquitByOther, Light

(* The states the lemmas below are about.                                  *)
Sound == IInv /\ CallsFit /\ ~ub

(* A step that makes no identity, and leaves the connection there.         *)
Steady ==
  /\ conn'.st = "none" => conn.st = "none"
  /\ conn'.st = "CONNECTING" => conn.st = "CONNECTING"
  /\ conn'.rdns => conn.rdns
  /\ conn'.send = "connect_end" => conn.send = "connect_end"
  /\ conn.st = "CONNECTING" => link'.ibuf = << >> \/ link'.ibuf = link.ibuf
  /\ link'.priv = "live" => link.priv = "live"

LEMMA AlikeSteady ==
  ASSUME Alike(conn, conn'),
         link'.ibuf = << >> \/ link'.ibuf = link.ibuf, link'.priv = "live" => link.priv = "live"
  PROVE  Steady
BY DEF Alike, Steady

(* A call leaves prog in its place. *)
LEMMA CallSteady ==
  ASSUME Sound, todo # << >>, Steady, cont' = cont,
         NEW prog \in Seq(Ops), Light(prog), Call(prog)
  PROVE  CallsFit'
<1>1. conn.st # "none" /\ todo \in Seq(Ops)
  BY Typed DEF Sound, CallsFit, Types
<1>2. cont' # "idle" => Light(todo')
  <2>1. cont # "idle" => Light(todo)
    BY DEF Sound, CallsFit, Light
  <2>. QED BY <1>1, <2>1, LightCat DEF Call
<1>. QED BY <1>1, <1>2 DEF Sound, CallsFit, Steady, Light

(* The event loop calls: prog, in a handler of conn.c or not. *)
LEMMA EventSteady ==
  ASSUME Sound, Steady, todo' # << >> \/ cont' # "idle" => conn.st # "none",
         cont' # "idle" => Light(todo')
  PROVE  CallsFit'
BY DEF Sound, CallsFit, Steady, Light

LEMMA SoundTypes ==
  ASSUME Sound
  PROVE  /\ Types /\ conn \in C!ConnRec /\ link \in LinkRec /\ todo \in Seq(Ops)
         /\ cont \in C!Conts \cup {"idle"}
         /\ conn.st = "none" => /\ todo = << >> /\ cont = "idle" /\ link.priv # "live"
                                /\ ~conn.rdns /\ conn.send # "connect_end"
         /\ conn.st = "CONNECTING" => link.ibuf = << >> /\ link.priv # "live"
BY Typed DEF Sound, Types, CallsFit

-----------------------------------------------------------------------------
(* The calls keep CallsFit. *)
LEMMA SendLineFits ==
  ASSUME Sound, SendLine, ~ub' PROVE CallsFit'
<1>1. /\ todo # << >> /\ cont' = cont /\ link' = link
      /\ \/ Call(Full) /\ conn' = conn
         \/ Call(<< >>) /\ conn' = C!Queued(conn)
  BY DEF SendLine, Top, Undefined
<1>2. Alike(conn, conn')
  BY <1>1, SoundTypes, QueuedEnds, BrokenEnds
<1>3. Full \in Seq(Ops) /\ << >> \in Seq(Ops) /\ Light(Full) /\ Light(<< >>)
  BY LightPrograms DEF Full, Ops
<1>. QED BY <1>1, <1>2, <1>3, AlikeSteady, CallSteady

LEMMA CloseConnFits ==
  ASSUME Sound, CloseConn PROVE CallsFit'
<1>1. /\ todo # << >> /\ cont' = cont /\ link' = link /\ Call(<< >>)
      /\ conn' = C!ShutDown(conn) \/ conn' = C!ShutDown(C!Cleared(conn))
  BY DEF CloseConn, Top
<1>2. conn'.st \in {"SHUTTING_DOWN", "AWAIT_CLEANUP"} /\ conn'.rdns = conn.rdns
      /\ conn'.send # "connect_end"
  <2>1. conn \in C!ConnRec
    BY SoundTypes
  <2>2. C!Cleared(conn) \in C!ConnRec /\ C!Cleared(conn).rdns = conn.rdns
    BY <2>1, ShutDownEnds
  <2>. QED BY <1>1, <2>1, <2>2, ShutDownEnds
<1>3. << >> \in Seq(Ops) /\ Light(<< >>)
  BY LightPrograms
<1>. QED BY <1>1, <1>2, <1>3, CallSteady DEF Steady

LEMMA OwnCallsFit ==
  ASSUME Sound, ExceptionalQuit \/ Tell \/ Destroy \/ Flag \/ Compact, ~ub' PROVE CallsFit'
<1>1. /\ todo # << >> /\ cont' = cont /\ conn' = conn /\ link \in LinkRec
  BY SoundTypes DEF ExceptionalQuit, Tell, Destroy, Flag, Compact, Top, Undefined
<1>2. \E prog \in Seq(Ops) : Light(prog) /\ Call(prog)
  <2>1. /\ << >> \in Seq(Ops) /\ <<"send">> \in Seq(Ops)
        /\ <<"tell_users", "tell_servers", "destroy">> \in Seq(Ops)
        /\ <<"tell_servers", "send", "destroy">> \in Seq(Ops)
    BY DEF Ops
  <2>2. \/ Call(<< >>) \/ Call(<<"send">>) \/ Call(<<"tell_users", "tell_servers", "destroy">>)
        \/ Call(<<"tell_servers", "send", "destroy">>)
    BY DEF ExceptionalQuit, Tell, Destroy, Flag, Compact, Undefined
  <2>. QED BY <2>1, <2>2, LightPrograms
<1>3. Alike(conn, conn')
  BY <1>1, SoundTypes, BrokenEnds
<1>4. link'.priv = "live" => link.priv = "live"
  <2>1. CASE ExceptionalQuit
    BY <1>1, <2>1 DEF ExceptionalQuit, LinkRec
  <2>2. CASE Tell
    BY <1>1, <2>2 DEF Tell, Undefined, LinkRec
  <2>3. CASE Destroy
    BY <1>1, <2>3 DEF Destroy, Undefined, LinkRec
  <2>4. CASE Flag
    BY <1>1, <2>4 DEF Flag, LinkRec
  <2>5. CASE Compact
    BY <1>1, <2>5 DEF Compact, LinkRec
  <2>. QED BY <2>1, <2>2, <2>3, <2>4, <2>5
<1>5. conn.st = "CONNECTING" => link'.ibuf = << >> \/ link'.ibuf = link.ibuf
  <2>1. CASE ExceptionalQuit
    BY <1>1, <2>1 DEF ExceptionalQuit, LinkRec
  <2>2. CASE Tell
    BY <1>1, <2>2 DEF Tell, Undefined, LinkRec
  <2>3. CASE Destroy
    BY <1>1, <2>3 DEF Destroy, Undefined, LinkRec
  <2>4. CASE Flag
    BY <1>1, <2>4 DEF Flag, LinkRec
  <2>5. CASE Compact
    <3>1. link'.ibuf = Pending
      BY <1>1, <2>5 DEF Compact, LinkRec
    <3>2. conn.st = "CONNECTING" => Pending = << >>
      BY SoundTypes, NothingPending DEF Sound
    <3>. QED BY <3>1, <3>2
  <2>. QED BY <2>1, <2>2, <2>3, <2>4, <2>5
<1>6. Steady
  BY <1>3, <1>4, <1>5 DEF Alike, Steady
<1>. QED BY <1>1, <1>2, <1>6, CallSteady

(* A connection that was made, and is there. *)
LEMMA MadeFits ==
  ASSUME conn'.st \notin {"none", "CONNECTING"}, cont' = "idle" \/ Light(todo')
  PROVE  CallsFit'
BY DEF CallsFit, Light

(* No other link is made, and the connection is gone. *)
LEMMA GoneFits ==
  ASSUME conn' = C!Free, link' = NewLink, todo' = << >>, cont' = "idle" PROVE CallsFit'
BY DEF CallsFit, C!Free, NewLink

(* Only connections that were made have lines, or run UPGRADE. *)
LEMMA LineMade ==
  ASSUME Sound, Line PROVE conn.st \notin {"none", "CONNECTING"} /\ cont = "idle"
<1>1. /\ todo # << >> /\ Head(todo) = "dispatch" /\ Complete(Pending) # {}
      /\ todo \in Seq(Ops)
  BY SoundTypes DEF Line, Top
<1>2. 1 \in 1..Len(todo) /\ todo[1] = "dispatch"
  BY <1>1
<1>3. cont = "idle"
  BY <1>2 DEF Sound, CallsFit
<1>4. link.ibuf # << >>
  BY <1>1, NothingPending DEF Sound
<1>. QED BY <1>1, <1>3, <1>4, SoundTypes

LEMMA LineFits ==
  ASSUME Sound, Line, ~ub' PROVE CallsFit'
<1>1. conn' = conn /\ cont' = cont
  BY DEF Line, Undefined
<1>. QED BY <1>1, LineMade, MadeFits

(* The process is replaced. *)
LEMMA RestartFits ==
  ASSUME Sound, Restart, ~ub' PROVE CallsFit'
<1>0. cont' = "idle" /\ conn \in C!ConnRec
  BY SoundTypes DEF Restart, Undefined
<1>1. CASE link.priv = "live"
  <2>1. conn' = C!Restored(conn) /\ conn.st \notin {"none", "CONNECTING"}
    BY <1>1, SoundTypes DEF Restart, Undefined
  <2>2. conn'.st \notin {"none", "CONNECTING"}
    BY <1>0, <2>1, RestoredEnds
  <2>. QED BY <1>0, <2>2, MadeFits
<1>2. CASE link.priv # "live"
  BY <1>2, GoneFits DEF Restart, Undefined
<1>. QED BY <1>1, <1>2

LEMMA ExecIdle ==
  ASSUME Sound, Exec PROVE cont = "idle" /\ todo # << >>
<1>1. todo # << >> /\ Head(todo) = "exec" /\ todo \in Seq(Ops)
  BY SoundTypes DEF Exec, Top
<1>2. 1 \in 1..Len(todo) /\ todo[1] = "exec"
  BY <1>1
<1>. QED BY <1>1, <1>2 DEF Sound, CallsFit

LEMMA ExecFits ==
  ASSUME Sound, Exec, ~ub' PROVE CallsFit'
<1>1. CASE Restart
  BY <1>1, RestartFits
<1>2. CASE ~Restart
  <2>1. Call(<< >>) /\ UNCHANGED <<conn, cont, link>>
    BY <1>2 DEF Exec
  <2>2. conn' = conn /\ Alike(conn, conn)
    BY <2>1, SoundTypes, BrokenEnds
  <2>3. << >> \in Seq(Ops) /\ Light(<< >>)
    BY LightPrograms
  <2>. QED BY <2>1, <2>2, <2>3, ExecIdle, AlikeSteady, CallSteady
<1>. QED BY <1>1, <1>2

-----------------------------------------------------------------------------
(* The events keep it. *)
LEMMA ReturnFits ==
  ASSUME Sound, Return PROVE CallsFit'
<1>1. /\ todo = << >> /\ cont # "idle" /\ cont' = "idle" /\ conn' = C!Finished(cont, conn)
      /\ UNCHANGED <<link, todo>> /\ cont \in C!Conts /\ conn \in C!ConnRec
  BY SoundTypes DEF Return
<1>2. /\ conn'.st = "none" => conn.st = "none"
      /\ conn'.st = "CONNECTING" => conn.st = "CONNECTING"
  BY <1>1, FinishedEnds
<1>. QED BY <1>1, <1>2 DEF Sound, CallsFit

LEMMA MakesFit ==
  ASSUME Accept \/ Connect PROVE CallsFit'
<1>1. CASE Accept
  BY <1>1, MadeFits DEF Accept, Event, C!Accepted, C!Free
<1>2. CASE Connect
  BY <1>2 DEF Connect, Event, C!Connected, C!Free, NewLink, CallsFit
<1>. QED BY <1>1, <1>2

LEMMA ConnectEndFits ==
  ASSUME Sound, ConnectEnd PROVE CallsFit'
<1>1. /\ conn.send = "connect_end" /\ conn \in C!ConnRec /\ link \in LinkRec
      /\ todo' \in {<< >>, <<"send">>} /\ link' = [link EXCEPT !.sentPass = TRUE]
      /\ conn' \in {[conn EXCEPT !.st = "ACTIVE"], C!Broken(conn)}
  BY SoundTypes DEF ConnectEnd, Event
<1>2. Light(todo')
  BY <1>1, LightPrograms
<1>3. CASE conn' = [conn EXCEPT !.st = "ACTIVE"]
  <2>1. conn'.st = "ACTIVE"
    BY <1>1, <1>3 DEF C!ConnRec
  <2>. QED BY <1>2, <2>1, MadeFits
<1>4. CASE conn' = C!Broken(conn)
  <2>1. link'.ibuf = link.ibuf /\ link'.priv = link.priv
    BY <1>1 DEF LinkRec
  <2>2. Alike(conn, conn')
    BY <1>1, <1>4, BrokenEnds
  <2>. QED BY <1>1, <1>2, <2>1, <2>2, AlikeSteady, EventSteady, SoundTypes
<1>. QED BY <1>1, <1>3, <1>4

(* What is read, and the end of the stream. *)
LEMMA RecvFits ==
  ASSUME Sound, (\E s \in Reads : RecvData(s)) \/ ExcessFlood \/ RecvEof \/ RecvError
  PROVE  CallsFit'
<1>1. /\ conn.st = "ACTIVE" /\ conn' \in {conn, C!Broken(conn)}
      /\ cont' = "idle" \/ todo' = <<"exq">>
  BY DEF RecvData, ExcessFlood, RecvEof, RecvError, Readable, Event
<1>2. conn'.st = "ACTIVE"
  BY <1>1, SoundTypes, BrokenEnds
<1>. QED BY <1>1, <1>2, LightPrograms, MadeFits

LEMMA SendFits ==
  ASSUME Sound, (\E n \in 1..conn.size : SendReady(n)) \/ SendError PROVE CallsFit'
<1>1. conn \in C!ConnRec /\ C!Broken(conn) \in C!ConnRec /\ link' = link
  BY SoundTypes, BrokenEnds DEF SendReady, SendError
<1>2. CASE \E n \in 1..conn.size : SendReady(n)
  <2>1. PICK n \in 1..conn.size : SendReady(n)
    BY <1>2
  <2>2. conn' = C!Wrote(conn, n) /\ todo' = << >> /\ cont' = "idle"
    BY <2>1 DEF SendReady, Event
  <2>3. Alike(conn, conn')
    BY <1>1, <2>2, WroteEnds
  <2>. QED BY <1>1, <2>2, <2>3, AlikeSteady, EventSteady
<1>3. CASE SendError /\ conn.st = "ACTIVE"
  <2>1. conn' = C!Broken(conn) /\ todo' = <<"exq">>
    BY <1>3 DEF SendError, Event
  <2>. QED BY <1>1, <1>3, <2>1, BrokenEnds, LightPrograms, MadeFits
<1>4. CASE SendError /\ conn.st # "ACTIVE"
  <2>1. conn' = C!Marked(C!Broken(conn)) /\ todo' = << >>
    BY <1>4 DEF SendError, Event
  <2>. QED BY <1>1, <2>1, MarkedEnds, LightPrograms, MadeFits
<1>. QED BY <1>2, <1>3, <1>4

LEMMA RdnsFits ==
  ASSUME Sound, RdnsCallback PROVE CallsFit'
<1>1. /\ conn.rdns /\ conn' = [conn EXCEPT !.rdns = FALSE] /\ link' = link
      /\ todo' = Looked /\ cont' = "idle"
  BY DEF RdnsCallback, Event
<1>2. Alike(conn, conn')
  BY <1>1, SoundTypes, BrokenEnds
<1>. QED BY <1>1, <1>2, SoundTypes, AlikeSteady, EventSteady

LEMMA OthersFit ==
  ASSUME Sound, Others PROVE CallsFit'
<1>1. link.priv = "live" /\ cont = "idle" /\ UNCHANGED <<conn, cont>>
  BY DEF Others, Idle
<1>. QED BY <1>1, SoundTypes, MadeFits

LEMMA CleanupFits ==
  ASSUME Cleanup, ~ub' PROVE CallsFit'
BY GoneFits DEF Cleanup, Event, Undefined

(* A process that was lost stays so. *)
LEMMA NotLost ==
  ASSUME Next, ~UNCHANGED vars PROVE ~ub
BY DEF Next, Run, Line, Compact, ExceptionalQuit, SendLine, Tell, Destroy, CloseConn,
   Flag, Exec, Top, Return, Cleanup, Accept, Connect, ConnectEnd, RecvData, ExcessFlood,
   RecvEof, RecvError, SendReady, SendError, RdnsCallback, Others, Upgrade, Event, Idle

LEMMA CallsNext ==
  ASSUME IInv, ~ub => CallsFit, [Next]_vars, ~ub' PROVE CallsFit'
<1>1. CASE UNCHANGED vars
  BY <1>1 DEF vars, CallsFit
<1>2. CASE Next /\ ~UNCHANGED vars
  <2>1. Sound
    BY <1>2, NotLost DEF Sound
  <2>2. CASE Run
    BY <2>1, <2>2, LineFits, OwnCallsFit, SendLineFits, CloseConnFits, ExecFits DEF Run
  <2>3. CASE Return \/ Cleanup \/ Accept \/ Connect \/ ConnectEnd
    BY <2>1, <2>3, ReturnFits, CleanupFits, MakesFit, ConnectEndFits
  <2>4. CASE (\E s \in Reads : RecvData(s)) \/ ExcessFlood \/ RecvEof \/ RecvError
    BY <2>1, <2>4, RecvFits
  <2>5. CASE (\E n \in 1..conn.size : SendReady(n)) \/ SendError \/ RdnsCallback
    BY <2>1, <2>5, SendFits, RdnsFits
  <2>6. CASE Others \/ Upgrade
    BY <2>1, <2>6, OthersFit, RestartFits DEF Upgrade
  <2>. QED BY <1>2, <2>1, <2>2, <2>3, <2>4, <2>5, <2>6 DEF Next
<1>. QED BY <1>1, <1>2

LEMMA CallsInit == Init => CallsFit
BY DEF Init, CallsFit, C!Free, NewLink

(* The calls that are left fit the connection.                             *)
LEMMA CallsAlways == Spec => [](~ub => CallsFit)
<1>1. IInv /\ (~ub => CallsFit) /\ [Next]_vars => (~ub => CallsFit)'
  BY CallsNext
<1>. QED BY <1>1, CallsInit, InductiveInvariant, PTL DEF Spec

-----------------------------------------------------------------------------
(* One connection as module Conn has it.                                   *)
Conn1 == [c \in {"link"} |-> conn]
Cont1 == IF cont = "idle" THEN [then |-> "idle"] ELSE [then |-> cont, c |-> "link"]

(* The refinement mapping, one variable at a time. *)
LEMMA Mapped ==
  /\ Conn1["link"] = conn
  /\ \A r : conn' = r => Conn1' = [Conn1 EXCEPT !["link"] = r]
  /\ conn' = conn => Conn1' = Conn1
  /\ cont = "idle" => Cont1 = C!Idle
  /\ cont' = "idle" => Cont1' = C!Idle
  /\ cont # "idle" => Cont1 = C!After("link", cont)
  /\ cont' # "idle" => Cont1' = C!After("link", cont')
  /\ cont' = cont => Cont1' = Cont1
BY DEF Conn1, Cont1, C!Idle, C!After

(* Steps of conn.c itself.                                                 *)
LEMMA MakesMaps ==
  ASSUME Accept \/ Connect PROVE C!Next
<1>1. CASE Accept
  BY <1>1, Mapped DEF Accept, Event, Idle, C!Next, C!Accept, C!Update, C!Looping, Conn1, Cont1
<1>2. CASE Connect
  BY <1>2, Mapped DEF Connect, Event, Idle, C!Next, C!Connect, C!Update, C!Looping, Conn1, Cont1
<1>. QED BY <1>1, <1>2

(* The outcome of a connect. *)
LEMMA ConnectEndMaps ==
  ASSUME ConnectEnd PROVE C!Next
<1>0. Idle /\ conn.send = "connect_end" /\ UNCHANGED ub
  BY DEF ConnectEnd, Event
<1>1. CASE conn' = [conn EXCEPT !.st = "ACTIVE"] /\ cont' = "connect_ok"
  <2>1. C!ConnectEndOk("link")
    BY <1>0, <1>1, Mapped DEF Idle, C!ConnectEndOk, C!Update, C!Looping, Conn1, Cont1
  <2>. QED BY <2>1 DEF C!Next
<1>2. CASE conn' = C!Broken(conn) /\ cont' = "connect_error"
  <2>1. C!ConnectEndError("link")
    BY <1>0, <1>2, Mapped DEF Idle, C!ConnectEndError, C!Update, C!Looping, Conn1, Cont1
  <2>. QED BY <2>1 DEF C!Next
<1>. QED BY <1>1, <1>2 DEF ConnectEnd, Event

(* The end of the stream and the failures of the socket. *)
LEMMA FaultsMap ==
  ASSUME RecvEof \/ RecvError \/ SendError PROVE C!Next
<1>1. CASE RecvEof
  <2>1. C!RecvEof("link")
    BY <1>1, Mapped DEF RecvEof, Readable, Event, Idle, C!RecvEof, C!Looping, Conn1, Cont1
  <2>. QED BY <2>1 DEF C!Next
<1>2. CASE RecvError
  <2>1. C!RecvError("link")
    BY <1>2, Mapped DEF RecvError, Readable, Event, Idle, C!RecvError, C!Update, C!Looping,
       Conn1, Cont1
  <2>. QED BY <2>1 DEF C!Next
<1>3. CASE SendError
  <2>1. C!SendError("link")
    BY <1>3, Mapped DEF SendError, Event, Idle, C!SendError, C!Update, C!Looping, Conn1, Cont1
  <2>. QED BY <2>1 DEF C!Next
<1>. QED BY <1>1, <1>2, <1>3

(* The resolver, the rest of a handler, the socket takes data. *)
LEMMA LoopMaps ==
  ASSUME RdnsCallback \/ Return \/ \E n \in 1..conn.size : SendReady(n) PROVE C!Next
<1>1. CASE RdnsCallback
  <2>1. C!RdnsCallback("link")
    BY <1>1, Mapped DEF RdnsCallback, Event, Idle, C!RdnsCallback, C!Update, C!Looping,
       Conn1, Cont1
  <2>. QED BY <2>1 DEF C!Next
<1>2. CASE Return
  <2>1. C!Return("link")
    BY <1>2, Mapped DEF Return, C!Return, C!Update, Conn1, Cont1, C!After
  <2>. QED BY <2>1 DEF C!Next
<1>3. CASE \E n \in 1..conn.size : SendReady(n)
  <2>1. PICK n \in 1..conn.size : SendReady(n)
    BY <1>3
  <2>2. C!SendReady("link", n) /\ n \in 1..Conn1["link"].size
    BY <2>1, Mapped DEF SendReady, Event, Idle, C!SendReady, C!Update, C!Looping, Conn1, Cont1
  <2>. QED BY <2>2 DEF C!Next, Conn1
<1>. QED BY <1>1, <1>2, <1>3

(* final_cleanup of a connection that is listed once. *)
LEMMA CleanupMaps ==
  ASSUME Cleanup, ~ub' PROVE C!Next
<1>1. Idle /\ conn.listed > 0 /\ ~(conn.listed > 1) /\ conn' = C!Free /\ cont' = "idle"
      /\ UNCHANGED ub
  BY DEF Cleanup, Event, Undefined
<1>2. C!CleanupPass
  BY <1>1, Mapped DEF Idle, C!CleanupPass, C!Looping, Conn1, Cont1
<1>. QED BY <1>2 DEF C!Next

-----------------------------------------------------------------------------
(* Calls of link.c.                                                        *)

(* The other steps do not touch the connection.                            *)
LEMMA Stutters ==
  ASSUME UNCHANGED <<conn, cont, ub>> PROVE UNCHANGED C!vars
BY DEF C!vars

(* A line is queued, or the queue is full. *)
LEMMA SendLineMaps ==
  ASSUME Sound, SendLine, ~ub' PROVE [C!Next]_(C!vars)
<1>1. /\ cont' = cont /\ conn.st # "none" /\ ub' = ub /\ ~ub
      /\ conn' = conn \/ conn' = C!Queued(conn)
  BY SoundTypes DEF SendLine, Top, Undefined, Sound
<1>2. CASE conn' = conn
  BY <1>1, <1>2, Stutters
<1>3. CASE conn' = C!Queued(conn)
  <2>1. C!Send("link")
    BY <1>1, <1>3, Mapped DEF C!Send, C!Update, Conn1, Cont1
  <2>. QED BY <2>1 DEF C!Next
<1>. QED BY <1>1, <1>2, <1>3

(* The connection is closed, or dropped. *)
LEMMA CloseConnMaps ==
  ASSUME Sound, CloseConn PROVE C!Next
<1>1. /\ cont' = cont /\ conn.st # "none" /\ ub' = ub /\ ~ub
      /\ conn' = C!ShutDown(conn) \/ conn' = C!ShutDown(C!Cleared(conn))
  BY SoundTypes DEF CloseConn, Top, Sound
<1>2. CASE conn' = C!ShutDown(conn)
  <2>1. C!Close("link")
    BY <1>1, <1>2, Mapped DEF C!Close, C!Update, Conn1, Cont1
  <2>. QED BY <2>1 DEF C!Next
<1>3. CASE conn' = C!ShutDown(C!Cleared(conn))
  <2>1. C!Drop("link")
    BY <1>1, <1>3, Mapped DEF C!Drop, C!Update, Conn1, Cont1
  <2>. QED BY <2>1 DEF C!Next
<1>. QED BY <1>1, <1>2, <1>3

(* An upgrade restores the connection of a link with a user or server.     *)
LEMMA RestartMaps ==
  ASSUME Sound, Restart, cont = "idle", ~ub' PROVE C!Next
<1>1. cont' = "idle" /\ ~ub /\ ub' = ub
  BY DEF Restart, Undefined, Sound
<1>2. CASE link.priv = "live"
  <2>1. conn' = C!Restored(conn) /\ conn.st \notin {"none", "CONNECTING"}
    BY <1>2, SoundTypes DEF Restart, Undefined
  <2>2. C!Upgrade({"link"})
    BY <1>1, <2>1, Mapped DEF C!Upgrade, C!Looping, Conn1, Cont1
  <2>. QED BY <2>2 DEF C!Next
<1>3. CASE link.priv # "live"
  <2>1. conn' = C!Free
    BY <1>3 DEF Restart, Undefined
  <2>2. C!Upgrade({})
    BY <1>1, <2>1, Mapped DEF C!Upgrade, C!Looping, Conn1, Cont1
  <2>. QED BY <2>2 DEF C!Next
<1>. QED BY <1>2, <1>3

(* The calls, one by one. *)
LEMMA RunMaps ==
  ASSUME Sound, Run, ~ub' PROVE [C!Next]_(C!vars)
<1>1. CASE Line
  <2>1. UNCHANGED <<conn, cont, ub>>
    BY <1>1 DEF Line, Undefined
  <2>. QED BY <2>1, Stutters
<1>2. CASE Compact \/ ExceptionalQuit \/ Tell \/ Destroy \/ Flag
  <2>1. UNCHANGED <<conn, cont, ub>>
    BY <1>2 DEF Compact, ExceptionalQuit, Tell, Destroy, Flag, Undefined
  <2>. QED BY <2>1, Stutters
<1>3. CASE Exec
  <2>1. CASE Restart
    BY <1>3, <2>1, ExecIdle, RestartMaps
  <2>2. CASE ~Restart
    BY <1>3, <2>2, Stutters DEF Exec
  <2>. QED BY <2>1, <2>2
<1>. QED BY <1>1, <1>2, <1>3, SendLineMaps, CloseConnMaps DEF Run

(* Every step is one of Conn, does not touch the connection, or loses the  *)
(* process.                                                                *)
LEMMA StepMaps ==
  ASSUME IInv, ~ub => CallsFit, [Next]_vars PROVE [~ub' => C!Next]_(C!vars)
<1>. SUFFICES ASSUME ~ub' PROVE [C!Next]_(C!vars)
  OBVIOUS
<1>1. CASE UNCHANGED vars
  BY <1>1, Stutters DEF vars
<1>2. CASE Next /\ ~UNCHANGED vars
  <2>1. Sound
    BY <1>2, NotLost DEF Sound
  <2>2. CASE Run
    BY <2>1, <2>2, RunMaps
  <2>3. CASE Return \/ RdnsCallback \/ (\E n \in 1..conn.size : SendReady(n)) \/ Cleanup
    BY <2>3, LoopMaps, CleanupMaps
  <2>4. CASE Accept \/ Connect \/ ConnectEnd
    BY <2>4, MakesMaps, ConnectEndMaps
  <2>5. CASE ExcessFlood \/ Others \/ \E s \in Reads : RecvData(s)
    BY <2>5, Stutters DEF ExcessFlood, Others, RecvData, Event, Idle
  <2>6. CASE RecvEof \/ RecvError \/ SendError
    BY <2>6, FaultsMap
  <2>7. CASE Upgrade
    BY <2>1, <2>7, RestartMaps DEF Upgrade, Idle
  <2>. QED BY <1>2, <2>2, <2>3, <2>4, <2>5, <2>6, <2>7 DEF Next
<1>. QED BY <1>1, <1>2

(* So is the initial state. *)
LEMMA InitMaps == Init => C!Init
<1>. SUFFICES ASSUME Init PROVE C!Init
  OBVIOUS
<1>1. conn = C!Free /\ cont = "idle" /\ ub = FALSE
  BY DEF Init
<1>. QED BY <1>1, Mapped DEF C!Init, Conn1, Cont1

(* link.c and conn.c together are a connection as module Conn has it, up   *)
(* to a step that loses the process: with any limit of the send queue, and *)
(* with shutdowns of a connection that is closing or awaits cleanup, which *)
(* Conn allows because u_conn_shut_down does.                              *)
THEOREM RefinesConn == Spec => ImplementsConn
<1>1. IInv /\ (~ub => CallsFit) /\ [Next]_vars => [~ub' => C!Next]_(C!vars)
  BY StepMaps
<1>. QED BY <1>1, InitMaps, CallsAlways, InductiveInvariant, PTL DEF Spec, ImplementsConn

-----------------------------------------------------------------------------
(***************************************************************************)
(* The end of a link (Goodbye).  What this needs beyond CallsFit: that the *)
(* loop of dispatch_lines is the outermost call, so that a line finds      *)
(* nothing else to do and a process that replaces itself leaves no end     *)
(* half done (LoopLast); how the connection follows the handlers of conn.c *)
(* (ConnFits); and that the identity has as many destructions before it or *)
(* behind it as announcements (IdentityFits), which counts the calls that  *)
(* are left.                                                               *)
(***************************************************************************)

(* The calls that are left, counted.                                       *)
Places(x, s) == {i \in 1..Len(s) : s[i] = x}
Occ(x, s) == Cardinality(Places(x, s))

(* Left is the number of calls on the stack. *)
LEMMA LeftIs == \A x : Left(x) = Occ(x, todo) /\ Left(x)' = Occ(x, todo')
BY DEF Left, Occ, Places

(* A number of calls is a natural number. *)
LEMMA OccType ==
  ASSUME NEW x, NEW s \in Seq(Ops)
  PROVE  Occ(x, s) \in Nat /\ IsFiniteSet(Places(x, s))
<1>1. Len(s) \in Nat /\ Places(x, s) \in SUBSET (1..Len(s))
  BY DEF Places
<1>. QED BY <1>1, Positions DEF Occ

(* The calls of two programs, one after the other.                         *)
LEMMA OccCat ==
  ASSUME NEW x, NEW s \in Seq(Ops), NEW t \in Seq(Ops)
  PROVE  Occ(x, s \o t) = Occ(x, s) + Occ(x, t)
<1>0. PICK r, n : r = s \o t /\ n = Len(s)
  OBVIOUS
<1>1. /\ n \in Nat /\ Len(t) \in Nat /\ Len(r) = n + Len(t)
      /\ \A i \in 1..Len(r) : r[i] = IF i <= n THEN s[i] ELSE t[i - n]
  BY <1>0
<1> DEFINE T2 == {j + n : j \in Places(x, t)}
<1>2. Places(x, r) = Places(x, s) \cup T2
  <2>1. ASSUME NEW i \in Places(x, r) PROVE i \in Places(x, s) \cup T2
    <3>1. i \in 1..Len(r) /\ r[i] = x
      BY DEF Places
    <3>2. CASE i <= n
      BY <1>0, <1>1, <3>1, <3>2 DEF Places
    <3>3. CASE ~(i <= n)
      <4>1. i - n \in 1..Len(t) /\ t[i - n] = x
        BY <1>1, <3>1, <3>3
      <4>2. i - n \in Places(x, t) /\ i = (i - n) + n
        BY <4>1, <1>1, <3>1 DEF Places
      <4>. QED BY <4>2
    <3>. QED BY <3>2, <3>3
  <2>2. ASSUME NEW i \in Places(x, s) PROVE i \in Places(x, r)
    BY <1>0, <1>1 DEF Places
  <2>3. ASSUME NEW j \in Places(x, t) PROVE j + n \in Places(x, r)
    <3>1. j \in 1..Len(t) /\ t[j] = x
      BY DEF Places
    <3>2. j + n \in 1..Len(r) /\ ~(j + n <= n) /\ (j + n) - n = j
      BY <1>1, <3>1
    <3>. QED BY <1>1, <3>1, <3>2 DEF Places
  <2>. QED BY <2>1, <2>2, <2>3
<1>3. /\ IsFiniteSet(Places(x, s)) /\ IsFiniteSet(Places(x, t))
      /\ Places(x, t) \subseteq Int /\ n \in Int
  <2>1. IsFiniteSet(Places(x, s)) /\ IsFiniteSet(Places(x, t))
    BY OccType
  <2>2. Places(x, t) \subseteq Int
    BY <1>1 DEF Places
  <2>. QED BY <1>1, <2>1, <2>2
<1>4. Cardinality(T2) = Cardinality(Places(x, t)) /\ IsFiniteSet(T2)
  <2>1. Cardinality({j + n : j \in Places(x, t)}) = Cardinality(Places(x, t))
    BY ONLY <1>3, Moved
  <2>2. IsFiniteSet({j + n : j \in Places(x, t)})
    <3>1. /\ T2 \in SUBSET (1..Len(r)) /\ Len(r) \in Nat
      BY <1>1, <1>2 DEF Places
    <3>. QED BY <3>1, Positions
  <2>. QED BY <2>1, <2>2
<1>5. Places(x, s) \cap T2 = {}
  BY <1>0, <1>1 DEF Places
<1>. HIDE DEF T2
<1>6. Cardinality(Places(x, s) \cup T2) = Cardinality(Places(x, s)) + Cardinality(T2)
  BY ONLY <1>3, <1>4, <1>5, Disjoint
<1>. QED BY <1>0, <1>2, <1>4, <1>6 DEF Occ

(* A single call.                                                          *)
W(a, x) == IF a = x THEN 1 ELSE 0

(* A program of one call. *)
LEMMA OccOne ==
  ASSUME NEW x, NEW a \in Ops
  PROVE  Occ(x, <<a>>) = W(a, x)
<1>1. CASE a = x
  <2>1. Places(x, <<a>>) = {1}
    BY <1>1 DEF Places
  <2>. QED BY <1>1, <2>1, FS_Singleton DEF Occ, W
<1>2. CASE a # x
  <2>1. Places(x, <<a>>) = {}
    BY <1>2 DEF Places
  <2>. QED BY <1>2, <2>1, FS_EmptySet DEF Occ, W
<1>. QED BY <1>1, <1>2

(* Short programs.                                                         *)
LEMMA OccTwo ==
  ASSUME NEW x, NEW a \in Ops, NEW b \in Ops
  PROVE  Occ(x, << >>) = 0 /\ Occ(x, <<a, b>>) = W(a, x) + W(b, x)
<1>1. Occ(x, << >>) = 0
  <2>1. Places(x, << >>) = {}
    BY DEF Places
  <2>. QED BY <2>1, FS_EmptySet DEF Occ
<1>2. <<a, b>> = <<a>> \o <<b>> /\ <<a>> \in Seq(Ops) /\ <<b>> \in Seq(Ops)
  <2>1. <<a, b>> = <<a>> \o <<b>>
    <3>1. PICK r : r = <<a>> \o <<b>>
      OBVIOUS
    <3>2. r \in Seq(Ops) /\ Len(r) = 2
      BY <3>1
    <3>3. r[1] = a /\ r[2] = b
      BY <3>1
    <3>4. PICK q : q = <<a, b>>
      OBVIOUS
    <3>5. q \in Seq(Ops) /\ Len(q) = 2 /\ q[1] = a /\ q[2] = b
      BY <3>4
    <3>6. \A i \in 1..Len(r) : r[i] = q[i]
      BY <3>2, <3>3, <3>5
    <3>7. r = q
      BY <3>2, <3>5, <3>6, SeqEqual
    <3>. QED BY <3>1, <3>4, <3>7
  <2>2. <<a>> \in Seq(Ops) /\ <<b>> \in Seq(Ops)
    OBVIOUS
  <2>. QED BY <2>1, <2>2
<1>3. Occ(x, <<a>> \o <<b>>) = Occ(x, <<a>>) + Occ(x, <<b>>)
  BY ONLY <1>2, OccCat
<1>. QED BY <1>1, <1>2, <1>3, OccOne

(* Three calls. *)
LEMMA OccThree ==
  ASSUME NEW x, NEW a \in Ops, NEW b \in Ops, NEW c \in Ops
  PROVE  Occ(x, <<a, b, c>>) = W(a, x) + W(b, x) + W(c, x)
<1>1. /\ <<a, b, c>> = <<a, b>> \o <<c>>
      /\ <<a, b>> \in Seq(Ops) /\ <<c>> \in Seq(Ops)
  OBVIOUS
<1>2. Occ(x, <<a, b>> \o <<c>>) = Occ(x, <<a, b>>) + Occ(x, <<c>>)
  BY ONLY <1>1, OccCat
<1>. QED BY <1>1, <1>2, OccTwo, OccOne

(* Five calls. *)
LEMMA OccFive ==
  ASSUME NEW x, NEW a \in Ops, NEW b \in Ops, NEW c \in Ops, NEW d \in Ops, NEW e \in Ops
  PROVE  Occ(x, <<a, b, c, d, e>>) = W(a, x) + W(b, x) + W(c, x) + W(d, x) + W(e, x)
<1>1. /\ <<a, b, c, d, e>> = <<a, b, c>> \o <<d, e>>
      /\ <<a, b, c>> \in Seq(Ops) /\ <<d, e>> \in Seq(Ops)
  OBVIOUS
<1>2. Occ(x, <<a, b, c>> \o <<d, e>>) = Occ(x, <<a, b, c>>) + Occ(x, <<d, e>>)
  BY ONLY <1>1, OccCat
<1>3. /\ W(a, x) \in Nat /\ W(b, x) \in Nat /\ W(c, x) \in Nat
      /\ W(d, x) \in Nat /\ W(e, x) \in Nat
  BY DEF W
<1>4. Occ(x, <<a, b, c>>) = W(a, x) + W(b, x) + W(c, x)
  BY OccThree
<1>5. Occ(x, <<d, e>>) = W(d, x) + W(e, x)
  BY OccTwo
<1>6. Occ(x, <<a, b, c, d, e>>) = Occ(x, <<a, b, c>>) + Occ(x, <<d, e>>)
  BY ONLY <1>1, <1>2
<1>. QED BY ONLY <1>3, <1>4, <1>5, <1>6

(* The first call of a program, and the rest.                              *)
LEMMA OccHead ==
  ASSUME NEW x, NEW s \in Seq(Ops), s # << >>
  PROVE  Occ(x, s) = W(Head(s), x) + Occ(x, Tail(s))
<1>1. s = <<Head(s)>> \o Tail(s) /\ Head(s) \in Ops /\ Tail(s) \in Seq(Ops)
  OBVIOUS
<1>2. <<Head(s)>> \in Seq(Ops)
  BY <1>1
<1>3. Occ(x, <<Head(s)>> \o Tail(s)) = Occ(x, <<Head(s)>>) + Occ(x, Tail(s))
  BY ONLY <1>1, <1>2, OccCat
<1>. QED BY <1>1, <1>3, OccOne

Counts(s) == [x \in Ops |-> Occ(x, s)]

(* Of a program: the closes, the calls of exceptional_quit, the            *)
(* destructions, and the announcements to users and to servers.            *)
Numbers(t, s, q, d, u, v) ==
  /\ s \in Nat /\ q \in Nat /\ d \in Nat /\ u \in Nat /\ v \in Nat
  /\ Counts(t)["shut"] + Counts(t)["drop"] = s
  /\ Counts(t)["exq"] = q /\ Counts(t)["destroy"] = d
  /\ Counts(t)["tell_users"] = u /\ Counts(t)["tell_servers"] = v

(* The programs.                                                           *)
LEMMA ProgramCounts ==
  ASSUME NEW x \in Ops
  PROVE  /\ Counts(<< >>)[x] = 0
         /\ \A a \in Ops : Counts(<<a>>)[x] = W(a, x)
         /\ Counts(<<"send", "sendu">>)[x] = W("send", x) + W("sendu", x)
         /\ Counts(<<"sendu", "exec", "sendu">>)[x] = 2 * W("sendu", x) + W("exec", x)
         /\ Counts(Full)[x] = W("exq", x) + W("drop", x)
         /\ Counts(<<"tell_users", "tell_servers", "destroy">>)[x]
              = W("tell_users", x) + W("tell_servers", x) + W("destroy", x)
         /\ Counts(<<"tell_servers", "send", "destroy">>)[x]
              = W("tell_servers", x) + W("send", x) + W("destroy", x)
         /\ Counts(Fatal)[x] = W("exq", x) + W("send", x) + W("shut", x)
         /\ Counts(Quit)[x] = W("tell_users", x) + W("sendu", x) + W("tell_servers", x)
                                + W("shut", x) + W("destroy", x)
         /\ Counts(Killed)[x] = W("tell_users", x) + W("tell_servers", x) + W("sendu", x)
                                  + W("shut", x) + W("destroy", x)
         /\ Counts(Squit)[x] = W("tell_servers", x) + W("shut", x) + W("destroy", x)
         /\ Counts(SquitByOther)[x]
              = W("tell_servers", x) + W("send", x) + W("shut", x) + W("destroy", x)
         /\ Counts(Looking)[x] = W("send", x) + W("wait", x)
         /\ Counts(Looked)[x] = W("send", x) + W("unwait", x) + W("dispatch", x)
<1>0. (\A s : Counts(s)[x] = Occ(x, s)) /\ \A a : W(a, x) \in Nat
  BY DEF Counts, W
<1>1. \A a \in Ops : Counts(<<a>>)[x] = W(a, x)
  BY <1>0, OccOne
<1>2. /\ "send" \in Ops /\ "sendu" \in Ops /\ "exec" \in Ops /\ "tell_users" \in Ops
      /\ "tell_servers" \in Ops /\ "destroy" \in Ops /\ "exq" \in Ops /\ "shut" \in Ops
      /\ "drop" \in Ops /\ "wait" \in Ops /\ "unwait" \in Ops /\ "dispatch" \in Ops
  BY DEF Ops
<1>3. Counts(<< >>)[x] = 0 /\ Counts(<<"send", "sendu">>)[x] = W("send", x) + W("sendu", x)
  <2>1. Occ(x, << >>) = 0 /\ Occ(x, <<"send", "sendu">>) = W("send", x) + W("sendu", x)
    BY <1>2, OccTwo
  <2>. QED BY <1>0, <2>1
<1>4. Counts(<<"sendu", "exec", "sendu">>)[x] = 2 * W("sendu", x) + W("exec", x)
  <2>1. Occ(x, <<"sendu", "exec", "sendu">>)
          = W("sendu", x) + W("exec", x) + W("sendu", x)
    BY <1>2, OccThree
  <2>. QED BY <1>0, <1>2, <2>1
<1>5. Counts(<<"tell_users", "tell_servers", "destroy">>)[x]
        = W("tell_users", x) + W("tell_servers", x) + W("destroy", x)
  <2>1. Occ(x, <<"tell_users", "tell_servers", "destroy">>)
          = W("tell_users", x) + W("tell_servers", x) + W("destroy", x)
    BY <1>2, OccThree
  <2>. QED BY <1>0, <2>1
<1>6. Counts(<<"tell_servers", "send", "destroy">>)[x]
        = W("tell_servers", x) + W("send", x) + W("destroy", x)
  <2>1. Occ(x, <<"tell_servers", "send", "destroy">>)
          = W("tell_servers", x) + W("send", x) + W("destroy", x)
    BY <1>2, OccThree
  <2>. QED BY <1>0, <2>1
<1>7. Counts(Fatal)[x] = W("exq", x) + W("send", x) + W("shut", x)
  <2>1. Occ(x, <<"exq", "send", "shut">>)
          = W("exq", x) + W("send", x) + W("shut", x)
    BY <1>2, OccThree
  <2>. QED BY <1>0, <2>1 DEF Fatal
<1>8. Counts(Quit)[x] = W("tell_users", x) + W("sendu", x) + W("tell_servers", x)
                          + W("shut", x) + W("destroy", x)
  <2>1. Occ(x, <<"tell_users", "sendu", "tell_servers", "shut", "destroy">>)
          = W("tell_users", x) + W("sendu", x) + W("tell_servers", x)
            + W("shut", x) + W("destroy", x)
    BY <1>2, OccFive
  <2>. QED BY <1>0, <2>1 DEF Quit
<1>9. Counts(Killed)[x] = W("tell_users", x) + W("tell_servers", x) + W("sendu", x)
                            + W("shut", x) + W("destroy", x)
  <2>1. Occ(x, <<"tell_users", "tell_servers", "sendu", "shut", "destroy">>)
          = W("tell_users", x) + W("tell_servers", x) + W("sendu", x)
            + W("shut", x) + W("destroy", x)
    BY <1>2, OccFive
  <2>. QED BY <1>0, <2>1 DEF Killed
<1>10. Counts(Squit)[x] = W("tell_servers", x) + W("shut", x) + W("destroy", x)
  <2>1. Occ(x, <<"tell_servers", "shut", "destroy">>)
          = W("tell_servers", x) + W("shut", x) + W("destroy", x)
    BY <1>2, OccThree
  <2>. QED BY <1>0, <2>1 DEF Squit
<1>11. Counts(SquitByOther)[x]
         = W("tell_servers", x) + W("send", x) + W("shut", x) + W("destroy", x)
  <2>1. /\ SquitByOther = <<"tell_servers", "send">> \o <<"shut", "destroy">>
        /\ <<"tell_servers", "send">> \in Seq(Ops) /\ <<"shut", "destroy">> \in Seq(Ops)
    BY <1>2 DEF SquitByOther
  <2>2. Occ(x, <<"tell_servers", "send">> \o <<"shut", "destroy">>)
          = Occ(x, <<"tell_servers", "send">>) + Occ(x, <<"shut", "destroy">>)
    BY ONLY <2>1, OccCat
  <2>3. /\ Occ(x, <<"tell_servers", "send">>) = W("tell_servers", x) + W("send", x)
        /\ Occ(x, <<"shut", "destroy">>) = W("shut", x) + W("destroy", x)
    BY <1>2, OccTwo
  <2>. QED BY <1>0, <2>1, <2>2, <2>3
<1>12. Counts(Looking)[x] = W("send", x) + W("wait", x)
  <2>1. Occ(x, <<"send", "wait">>) = W("send", x) + W("wait", x)
    BY <1>2, OccTwo
  <2>. QED BY <1>0, <2>1 DEF Looking
<1>13. Counts(Looked)[x] = W("send", x) + W("unwait", x) + W("dispatch", x)
  <2>1. Occ(x, <<"send", "unwait", "dispatch">>)
          = W("send", x) + W("unwait", x) + W("dispatch", x)
    BY <1>2, OccThree
  <2>. QED BY <1>0, <2>1 DEF Looked
<1>14. Counts(Full)[x] = W("exq", x) + W("drop", x)
  <2>1. Occ(x, <<"exq", "drop">>) = W("exq", x) + W("drop", x)
    BY <1>2, OccTwo
  <2>. QED BY <1>0, <2>1 DEF Full
<1>. QED
  BY <1>1, <1>3, <1>4, <1>5, <1>6, <1>7, <1>8, <1>9, <1>10, <1>11, <1>12, <1>13, <1>14

(* The numbers of the programs.                                            *)
LEMMA ProgramNumbers ==
  /\ Numbers(<< >>, 0, 0, 0, 0, 0)
  /\ \A a \in {"send", "sendu", "wait", "unwait", "dispatch", "exec"} :
       Numbers(<<a>>, 0, 0, 0, 0, 0)
  /\ Numbers(<<"exq">>, 0, 1, 0, 0, 0)
  /\ Numbers(<<"send", "sendu">>, 0, 0, 0, 0, 0)
  /\ Numbers(<<"sendu", "exec", "sendu">>, 0, 0, 0, 0, 0)
  /\ Numbers(<<"tell_users", "tell_servers", "destroy">>, 0, 0, 1, 1, 1)
  /\ Numbers(<<"tell_servers", "send", "destroy">>, 0, 0, 1, 0, 1)
  /\ Numbers(Fatal, 1, 1, 0, 0, 0)
  /\ Numbers(Full, 1, 1, 0, 0, 0)
  /\ Numbers(Quit, 1, 0, 1, 1, 1)
  /\ Numbers(Killed, 1, 0, 1, 1, 1)
  /\ Numbers(Squit, 1, 0, 1, 0, 1)
  /\ Numbers(SquitByOther, 1, 0, 1, 0, 1)
  /\ Numbers(Looking, 0, 0, 0, 0, 0)
  /\ Numbers(Looked, 0, 0, 0, 0, 0)
<1>1. /\ "shut" \in Ops /\ "drop" \in Ops /\ "exq" \in Ops /\ "destroy" \in Ops
      /\ "tell_users" \in Ops /\ "tell_servers" \in Ops
      /\ {"send", "sendu", "wait", "unwait", "dispatch", "exec"} \subseteq Ops
  BY DEF Ops
<1>2. \A x \in Ops : Counts(<< >>)[x] = 0 /\ \A a \in Ops : Counts(<<a>>)[x] = W(a, x)
  BY ProgramCounts
<1>3. Numbers(<< >>, 0, 0, 0, 0, 0)
  BY <1>1, <1>2 DEF Numbers, W
<1>4. \A a \in {"send", "sendu", "wait", "unwait", "dispatch", "exec"} :
         Numbers(<<a>>, 0, 0, 0, 0, 0)
  <2>. SUFFICES ASSUME NEW a \in {"send", "sendu", "wait", "unwait", "dispatch", "exec"}
                PROVE  Numbers(<<a>>, 0, 0, 0, 0, 0)
    OBVIOUS
  <2>1. \A x \in Ops : Counts(<<a>>)[x] = W(a, x)
    BY <1>1, <1>2
  <2>. QED BY <1>1, <2>1 DEF Numbers, W
<1>5. Numbers(<<"exq">>, 0, 1, 0, 0, 0)
  BY <1>1, <1>2 DEF Numbers, W
<1>6. Numbers(<<"send", "sendu">>, 0, 0, 0, 0, 0)
  <2>1. \A x \in Ops : Counts(<<"send", "sendu">>)[x]
                       = W("send", x) + W("sendu", x)
    BY ProgramCounts
  <2>. QED BY <1>1, <2>1 DEF Numbers, W
<1>7. Numbers(<<"sendu", "exec", "sendu">>, 0, 0, 0, 0, 0)
  <2>1. \A x \in Ops : Counts(<<"sendu", "exec", "sendu">>)[x]
                       = 2 * W("sendu", x) + W("exec", x)
    BY ProgramCounts
  <2>. QED BY <1>1, <2>1 DEF Numbers, W
<1>8. Numbers(<<"tell_users", "tell_servers", "destroy">>, 0, 0, 1, 1, 1)
  <2>1. \A x \in Ops : Counts(<<"tell_users", "tell_servers", "destroy">>)[x]
                       = W("tell_users", x) + W("tell_servers", x) + W("destroy", x)
    BY ProgramCounts
  <2>. QED BY <1>1, <2>1 DEF Numbers, W
<1>9. Numbers(<<"tell_servers", "send", "destroy">>, 0, 0, 1, 0, 1)
  <2>1. \A x \in Ops : Counts(<<"tell_servers", "send", "destroy">>)[x]
                       = W("tell_servers", x) + W("send", x) + W("destroy", x)
    BY ProgramCounts
  <2>. QED BY <1>1, <2>1 DEF Numbers, W
<1>10. Numbers(Fatal, 1, 1, 0, 0, 0)
  <2>1. \A x \in Ops : Counts(Fatal)[x]
                       = W("exq", x) + W("send", x) + W("shut", x)
    BY ProgramCounts
  <2>. QED BY <1>1, <2>1 DEF Numbers, W
<1>11. Numbers(Full, 1, 1, 0, 0, 0)
  <2>1. \A x \in Ops : Counts(Full)[x]
                       = W("exq", x) + W("drop", x)
    BY ProgramCounts
  <2>. QED BY <1>1, <2>1 DEF Numbers, W
<1>12. Numbers(Quit, 1, 0, 1, 1, 1)
  <2>1. \A x \in Ops : Counts(Quit)[x]
                       = W("tell_users", x) + W("sendu", x)
                         + W("tell_servers", x) + W("shut", x) + W("destroy", x)
    BY ProgramCounts
  <2>. QED BY <1>1, <2>1 DEF Numbers, W
<1>13. Numbers(Killed, 1, 0, 1, 1, 1)
  <2>1. \A x \in Ops : Counts(Killed)[x]
                       = W("tell_users", x) + W("tell_servers", x)
                         + W("sendu", x) + W("shut", x) + W("destroy", x)
    BY ProgramCounts
  <2>. QED BY <1>1, <2>1 DEF Numbers, W
<1>14. Numbers(Squit, 1, 0, 1, 0, 1)
  <2>1. \A x \in Ops : Counts(Squit)[x]
                       = W("tell_servers", x) + W("shut", x) + W("destroy", x)
    BY ProgramCounts
  <2>. QED BY <1>1, <2>1 DEF Numbers, W
<1>15. Numbers(SquitByOther, 1, 0, 1, 0, 1)
  <2>1. \A x \in Ops : Counts(SquitByOther)[x]
                       = W("tell_servers", x) + W("send", x)
                         + W("shut", x) + W("destroy", x)
    BY ProgramCounts
  <2>. QED BY <1>1, <2>1 DEF Numbers, W
<1>16. Numbers(Looking, 0, 0, 0, 0, 0)
  <2>1. \A x \in Ops : Counts(Looking)[x]
                       = W("send", x) + W("wait", x)
    BY ProgramCounts
  <2>. QED BY <1>1, <2>1 DEF Numbers, W
<1>17. Numbers(Looked, 0, 0, 0, 0, 0)
  <2>1. \A x \in Ops : Counts(Looked)[x]
                       = W("send", x) + W("unwait", x) + W("dispatch", x)
    BY ProgramCounts
  <2>. QED BY <1>1, <2>1 DEF Numbers, W
<1>. QED
  BY <1>3, <1>4, <1>5, <1>6, <1>7, <1>8, <1>9, <1>10, <1>11,
     <1>12, <1>13, <1>14, <1>15, <1>16, <1>17

(* One program before another, and the first call of a program.            *)
LEMMA CatNumbers ==
  ASSUME NEW p \in Seq(Ops), NEW t \in Seq(Ops),
         NEW s, NEW q, NEW d, NEW u, NEW v, Numbers(t, s, q, d, u, v),
         NEW s1, NEW q1, NEW d1, NEW u1, NEW v1, Numbers(p, s1, q1, d1, u1, v1)
  PROVE  Numbers(p \o t, s1 + s, q1 + q, d1 + d, u1 + u, v1 + v)
<1>0. PICK a, b, c : a = Counts(p \o t) /\ b = Counts(p) /\ c = Counts(t)
  OBVIOUS
<1>1. \A x \in Ops : a[x] = b[x] + c[x]
  BY <1>0, OccCat DEF Counts
<1>2. \A x \in Ops : b[x] \in Nat /\ c[x] \in Nat
  BY <1>0, OccType DEF Counts
<1>3. /\ a["shut"] = b["shut"] + c["shut"] /\ a["drop"] = b["drop"] + c["drop"]
      /\ a["exq"] = b["exq"] + c["exq"] /\ a["destroy"] = b["destroy"] + c["destroy"]
      /\ a["tell_users"] = b["tell_users"] + c["tell_users"]
      /\ a["tell_servers"] = b["tell_servers"] + c["tell_servers"]
  BY <1>1 DEF Ops
<1>4. b["shut"] \in Nat /\ c["shut"] \in Nat /\ b["drop"] \in Nat /\ c["drop"] \in Nat
  BY <1>2 DEF Ops
<1>5. /\ s \in Nat /\ q \in Nat /\ d \in Nat /\ u \in Nat /\ v \in Nat
      /\ c["shut"] + c["drop"] = s /\ c["exq"] = q /\ c["destroy"] = d
      /\ c["tell_users"] = u /\ c["tell_servers"] = v
  BY <1>0 DEF Numbers
<1>6. /\ s1 \in Nat /\ q1 \in Nat /\ d1 \in Nat /\ u1 \in Nat /\ v1 \in Nat
      /\ b["shut"] + b["drop"] = s1 /\ b["exq"] = q1 /\ b["destroy"] = d1
      /\ b["tell_users"] = u1 /\ b["tell_servers"] = v1
  BY <1>0 DEF Numbers
<1>7. /\ a["shut"] + a["drop"] = s1 + s /\ a["exq"] = q1 + q /\ a["destroy"] = d1 + d
      /\ a["tell_users"] = u1 + u /\ a["tell_servers"] = v1 + v
      /\ s1 + s \in Nat /\ q1 + q \in Nat /\ d1 + d \in Nat /\ u1 + u \in Nat
      /\ v1 + v \in Nat
  <2>1. PICK i, j, k, l \in Nat : b["shut"] = i /\ b["drop"] = j /\ c["shut"] = k /\ c["drop"] = l
    BY <1>4
  <2>2. a["shut"] = i + k /\ a["drop"] = j + l /\ i + j = s1 /\ k + l = s
    BY ONLY <1>3, <1>5, <1>6, <2>1
  <2>3. a["shut"] + a["drop"] = s1 + s
    BY ONLY <2>2
  <2>4. /\ a["exq"] = q1 + q /\ a["destroy"] = d1 + d
        /\ a["tell_users"] = u1 + u /\ a["tell_servers"] = v1 + v
    BY ONLY <1>3, <1>5, <1>6
  <2>. QED BY ONLY <2>3, <2>4, <1>5, <1>6
<1>. QED BY <1>0, <1>7 DEF Numbers

LEMMA SomeNumbers ==
  ASSUME NEW t \in Seq(Ops)
  PROVE  \E s, q, d, u, v \in Nat : Numbers(t, s, q, d, u, v)
<1>1. \A x \in Ops : Counts(t)[x] \in Nat
  BY OccType DEF Counts
<1>2. PICK a, b, q, d, u, v \in Nat :
        /\ Counts(t)["shut"] = a /\ Counts(t)["drop"] = b /\ Counts(t)["exq"] = q
        /\ Counts(t)["destroy"] = d /\ Counts(t)["tell_users"] = u
        /\ Counts(t)["tell_servers"] = v
  BY <1>1 DEF Ops
<1>3. Numbers(t, a + b, q, d, u, v) /\ a + b \in Nat
  BY <1>2 DEF Numbers
<1>. QED BY <1>2, <1>3

(* What one call is worth. *)
One(h, S) == IF h \in S THEN 1 ELSE 0

LEMMA OneNumbers ==
  ASSUME NEW h \in Ops
  PROVE  Numbers(<<h>>, One(h, {"shut", "drop"}), One(h, {"exq"}), One(h, {"destroy"}),
                 One(h, {"tell_users"}), One(h, {"tell_servers"}))
<1>1. \A x \in Ops : Counts(<<h>>)[x] = W(h, x)
  BY ProgramCounts
<1>2. /\ "shut" \in Ops /\ "drop" \in Ops /\ "exq" \in Ops /\ "destroy" \in Ops
      /\ "tell_users" \in Ops /\ "tell_servers" \in Ops
  BY DEF Ops
<1>3. /\ Counts(<<h>>)["shut"] = W(h, "shut") /\ Counts(<<h>>)["drop"] = W(h, "drop")
      /\ Counts(<<h>>)["exq"] = W(h, "exq") /\ Counts(<<h>>)["destroy"] = W(h, "destroy")
      /\ Counts(<<h>>)["tell_users"] = W(h, "tell_users")
      /\ Counts(<<h>>)["tell_servers"] = W(h, "tell_servers")
  BY <1>1, <1>2
<1>. QED BY <1>3 DEF Numbers, One, W

-----------------------------------------------------------------------------
(* LoopLast of a program.                                                  *)
Loop(t) ==
  \A i \in 1..Len(t) :
    /\ t[i] = "dispatch" => i = Len(t)
    /\ t[i] = "exec" => /\ i = Len(t) - 2
                        /\ t[i + 1] = "sendu" /\ t[i + 2] = "dispatch"

(* A light program before a loop, or in place of its first call.           *)
LEMMA LoopCat ==
  ASSUME NEW s \in Seq(Ops), Light(s), NEW t \in Seq(Ops), Loop(t)
  PROVE  Loop(s \o t) /\ (t # << >> => Loop(s \o Tail(t)))
<1>1. ASSUME NEW u \in Seq(Ops), Loop(u) PROVE Loop(s \o u)
  <2>0. PICK r, n : r = s \o u /\ n = Len(s)
    OBVIOUS
  <2>1. /\ n \in Nat /\ Len(u) \in Nat /\ Len(r) = n + Len(u)
        /\ \A i \in 1..Len(r) : r[i] = IF i <= n THEN s[i] ELSE u[i - n]
    BY <2>0
  <2>2. ASSUME NEW i \in 1..Len(r)
        PROVE  /\ r[i] = "dispatch" => i = Len(r)
               /\ r[i] = "exec" => /\ i = Len(r) - 2
                                   /\ r[i + 1] = "sendu" /\ r[i + 2] = "dispatch"
    <3>1. CASE i <= n
      BY <2>0, <2>1, <3>1 DEF Light
    <3>2. CASE ~(i <= n)
      <4>1. i - n \in 1..Len(u) /\ r[i] = u[i - n]
        BY <2>1, <3>2
      <4>2. ASSUME r[i] = "dispatch" PROVE i = Len(r)
        <5>1. i - n = Len(u)
          BY <1>1, <4>1, <4>2 DEF Loop
        <5>. QED BY <2>1, <5>1
      <4>3. ASSUME r[i] = "exec"
            PROVE  i = Len(r) - 2 /\ r[i + 1] = "sendu" /\ r[i + 2] = "dispatch"
        <5>1. i - n = Len(u) - 2 /\ u[(i - n) + 1] = "sendu" /\ u[(i - n) + 2] = "dispatch"
          BY <1>1, <4>1, <4>3 DEF Loop
        <5>2. /\ i = Len(r) - 2 /\ i + 1 \in 1..Len(r) /\ i + 2 \in 1..Len(r)
              /\ ~(i + 1 <= n) /\ ~(i + 2 <= n)
              /\ (i + 1) - n = (i - n) + 1 /\ (i + 2) - n = (i - n) + 2
          BY <2>1, <3>2, <5>1
        <5>. QED BY <2>1, <5>1, <5>2
      <4>. QED BY <4>2, <4>3
    <3>. QED BY <3>1, <3>2
  <2>. QED BY <2>0, <2>2 DEF Loop
<1>2. ASSUME t # << >> PROVE Tail(t) \in Seq(Ops) /\ Loop(Tail(t))
  <2>1. PICK r : r = Tail(t)
    OBVIOUS
  <2>2. /\ r \in Seq(Ops) /\ Len(r) \in Nat /\ Len(t) = Len(r) + 1
        /\ \A i \in 1..Len(r) : r[i] = t[i + 1]
    BY <1>2, <2>1
  <2>3. ASSUME NEW i \in 1..Len(r)
        PROVE  /\ r[i] = "dispatch" => i = Len(r)
               /\ r[i] = "exec" => /\ i = Len(r) - 2
                                   /\ r[i + 1] = "sendu" /\ r[i + 2] = "dispatch"
    <3>1. i + 1 \in 1..Len(t) /\ r[i] = t[i + 1]
      BY <2>2
    <3>2. r[i] = "dispatch" => i = Len(r)
      BY <2>2, <3>1 DEF Loop
    <3>3. ASSUME r[i] = "exec"
          PROVE  i = Len(r) - 2 /\ r[i + 1] = "sendu" /\ r[i + 2] = "dispatch"
      <4>1. /\ i + 1 = Len(t) - 2 /\ t[(i + 1) + 1] = "sendu" /\ t[(i + 1) + 2] = "dispatch"
        BY <3>1, <3>3 DEF Loop
      <4>2. i = Len(r) - 2 /\ i + 1 \in 1..Len(r) /\ i + 2 \in 1..Len(r)
        BY <2>2, <4>1
      <4>3. r[i + 1] = t[(i + 1) + 1] /\ r[i + 2] = t[(i + 2) + 1] /\ (i + 2) + 1 = (i + 1) + 2
        BY <2>2, <4>2
      <4>. QED BY <4>1, <4>2, <4>3
    <3>. QED BY <3>2, <3>3
  <2>. QED BY <2>1, <2>2, <2>3 DEF Loop
<1>. QED BY <1>1, <1>2

(* The loop by itself, and the UPGRADE command in it. *)
LEMMA LoopHead ==
  ASSUME NEW t \in Seq(Ops), t # << >>, Loop(t)
  PROVE  /\ Head(t) = "dispatch" => t = <<"dispatch">>
         /\ Head(t) = "exec" => t = <<"exec", "sendu", "dispatch">>
<1>1. Len(t) \in Nat /\ Len(t) > 0 /\ Head(t) = t[1] /\ 1 \in 1..Len(t)
  OBVIOUS
<1>2. ASSUME Head(t) = "dispatch" PROVE t = <<"dispatch">>
  <2>1. Len(t) = 1 /\ t[1] = "dispatch"
    BY <1>1, <1>2 DEF Loop
  <2>. QED BY <2>1
<1>3. ASSUME Head(t) = "exec" PROVE t = <<"exec", "sendu", "dispatch">>
  <2>1. 1 = Len(t) - 2 /\ t[1] = "exec" /\ t[1 + 1] = "sendu" /\ t[1 + 2] = "dispatch"
    BY <1>1, <1>3 DEF Loop
  <2>2. Len(t) = 3 /\ t[2] = "sendu" /\ t[3] = "dispatch"
    BY <1>1, <2>1
  <2>3. PICK r : r = <<"exec", "sendu", "dispatch">>
    OBVIOUS
  <2>4. /\ r \in Seq(Ops) /\ Len(r) = 3
        /\ r[1] = "exec" /\ r[2] = "sendu" /\ r[3] = "dispatch"
    BY <2>3 DEF Ops
  <2>5. \A i \in 1..Len(t) : t[i] = r[i]
    BY <2>1, <2>2, <2>4
  <2>6. t = r
    BY <2>2, <2>4, <2>5, SeqEqual
  <2>. QED BY <2>3, <2>6
<1>. QED BY <1>2, <1>3

(* What the loop begins. *)
LEMMA LoopPrograms ==
  /\ Loop(<< >>) /\ Loop(<<"dispatch">>) /\ Loop(Looked) /\ Loop(Looking \o <<"dispatch">>)
  /\ Loop(<<"sendu", "exec", "sendu">> \o <<"dispatch">>)
  /\ \A t : Light(t) => Loop(t)
<1>1. Loop(<< >>) /\ Loop(<<"dispatch">>)
  BY DEF Loop
<1>2. Loop(Looked)
  BY DEF Loop, Looked
<1>3. Loop(Looking \o <<"dispatch">>)
  <2>1. Light(Looking) /\ Looking \in Seq(Ops) /\ <<"dispatch">> \in Seq(Ops)
    BY DEF Light, Looking, Ops
  <2>. QED BY <1>1, <2>1, LoopCat
<1>4. Loop(<<"sendu", "exec", "sendu">> \o <<"dispatch">>)
  <2>1. PICK r : r = <<"sendu", "exec", "sendu">> \o <<"dispatch">>
    OBVIOUS
  <2>2. /\ Len(r) = 4 /\ r[1] = "sendu" /\ r[2] = "exec" /\ r[3] = "sendu" /\ r[4] = "dispatch"
    BY <2>1
  <2>3. \A i \in 1..Len(r) : i = 1 \/ i = 2 \/ i = 3 \/ i = 4
    BY <2>2
  <2>. QED BY <2>1, <2>2, <2>3 DEF Loop
<1>5. \A t : Light(t) => Loop(t)
  BY DEF Light, Loop
<1>. QED BY <1>1, <1>2, <1>3, <1>4, <1>5

-----------------------------------------------------------------------------
(* IdentityFits over the numbers of the calls that are left, a connection, *)
(* the handler of conn.c it is in, and a link.                             *)
OverBy(s, r, ct) ==
  r.st # "ACTIVE" \/ s > 0 \/ ct \in {"end_of_stream", "fatal_error"}
LeavingBy(d, l) == l.priv = "freed" \/ d > 0
EndsBy(q, d, l) ==
  d + (IF l.priv = "freed" THEN 1 ELSE 0)
    + (IF ~l.sentQuit /\ l.type # "NONE" /\ q > 0 THEN 1 ELSE 0)
FitIdentity(s, q, d, u, v, r, ct, l) ==
  /\ l.type = "NONE" <=> l.priv = "none"
  /\ l.limit > 0 \/ d > 0 => l.priv # "none"
  /\ l.sentQuit \/ q > 0 => OverBy(s, r, ct)
  /\ OverBy(s, r, ct) /\ l.priv = "live" /\ ~l.late => EndsBy(q, d, l) > 0
  /\ r.st = "CONNECTING" => l.priv = "none" /\ ~l.sentQuit /\ q = 0
  /\ EndsBy(q, d, l) <= 1 =>
       /\ l.told.users + u = IF l.type = "USER" /\ LeavingBy(d, l) THEN 1 ELSE 0
       /\ l.told.servers + v = IF LeavingBy(d, l) THEN 1 ELSE 0

(* IdentityFits, when the numbers are known. *)
LEMMA FitNow ==
  ASSUME NEW s, NEW q, NEW d, NEW u, NEW v, Numbers(todo, s, q, d, u, v)
  PROVE  IdentityFits <=> FitIdentity(s, q, d, u, v, conn, cont, link)
<1>1. \A x \in Ops : Counts(todo)[x] = Left(x)
  BY LeftIs DEF Counts
<1>2. /\ Left("shut") + Left("drop") = s /\ Left("exq") = q /\ Left("destroy") = d
      /\ Left("tell_users") = u /\ Left("tell_servers") = v
  BY <1>1 DEF Numbers, Ops
<1>. QED
  BY <1>2 DEF IdentityFits, Over, Leaving, Ends, FitIdentity, OverBy, LeavingBy, EndsBy

LEMMA FitNext ==
  ASSUME NEW s, NEW q, NEW d, NEW u, NEW v, Numbers(todo', s, q, d, u, v),
         FitIdentity(s, q, d, u, v, conn', cont', link')
  PROVE  IdentityFits'
<1>1. \A x \in Ops : Counts(todo')[x] = Left(x)'
  BY LeftIs DEF Counts
<1>2. /\ Left("shut")' + Left("drop")' = s /\ Left("exq")' = q /\ Left("destroy")' = d
      /\ Left("tell_users")' = u /\ Left("tell_servers")' = v
  BY <1>1 DEF Numbers, Ops
<1>. QED
  BY <1>2 DEF IdentityFits, Over, Leaving, Ends, FitIdentity, OverBy, LeavingBy, EndsBy

(* The identity of a link. *)
LEMMA LinkTypes ==
  ASSUME NEW l \in LinkRec
  PROVE  /\ l.type \in {"NONE", "USER", "SERVER"} /\ l.priv \in {"none", "live", "freed"}
         /\ l.sentQuit \in BOOLEAN /\ l.late \in BOOLEAN
         /\ l.told.users \in Nat /\ l.told.servers \in Nat
BY DEF LinkRec

SameIdentity(l, l2) ==
  /\ l2.type = l.type /\ l2.priv = l.priv /\ l2.sentQuit = l.sentQuit
  /\ l2.told = l.told /\ l2.late = l.late
  /\ l2.limit = l.limit \/ l2.priv # "none"

(* Nothing about it changes. *)
LEMMA QuietFit ==
  ASSUME NEW s, NEW q, NEW d, NEW u, NEW v, NEW r, NEW ct, NEW l,
         FitIdentity(s, q, d, u, v, r, ct, l),
         NEW s2, NEW r2, NEW ct2, NEW l2, SameIdentity(l, l2),
         OverBy(s2, r2, ct2) <=> OverBy(s, r, ct),
         r2.st = "CONNECTING" => r.st = "CONNECTING"
  PROVE  FitIdentity(s2, q, d, u, v, r2, ct2, l2)
<1>1. EndsBy(q, d, l2) = EndsBy(q, d, l) /\ (LeavingBy(d, l2) <=> LeavingBy(d, l))
  BY DEF EndsBy, LeavingBy, SameIdentity
<1>. QED BY <1>1 DEF FitIdentity, SameIdentity

(* exceptional_quit will be called, of a link that is over. *)
LEMMA ExqFit ==
  ASSUME NEW s, NEW q \in Nat, NEW d \in Nat, NEW u, NEW v, NEW r, NEW ct, NEW l \in LinkRec,
         FitIdentity(s, q, d, u, v, r, ct, l),
         NEW s2, NEW r2, NEW ct2, OverBy(s2, r2, ct2),
         r.st # "CONNECTING", r2.st # "CONNECTING"
  PROVE  FitIdentity(s2, 1 + q, d, u, v, r2, ct2, l)
<1>1. EndsBy(q, d, l) \in Nat /\ EndsBy(1 + q, d, l) \in Nat
      /\ EndsBy(q, d, l) <= EndsBy(1 + q, d, l)
  BY DEF EndsBy
<1>2. l.priv = "live" /\ ~l.late => EndsBy(1 + q, d, l) > 0
  <2>. SUFFICES ASSUME l.priv = "live", ~l.late PROVE EndsBy(1 + q, d, l) > 0
    OBVIOUS
  <2>1. CASE l.sentQuit
    BY <1>1, <2>1 DEF FitIdentity
  <2>2. CASE ~l.sentQuit
    BY <2>2 DEF FitIdentity, EndsBy
  <2>. QED BY <2>1, <2>2
<1>3. EndsBy(1 + q, d, l) <= 1 => EndsBy(q, d, l) <= 1
  <2>1. PICK a, b \in Nat : a = EndsBy(q, d, l) /\ b = EndsBy(1 + q, d, l)
    BY <1>1
  <2>. QED BY <1>1, <2>1
<1>4. EndsBy(1 + q, d, l) <= 1 =>
        /\ l.told.users + u = IF l.type = "USER" /\ LeavingBy(d, l) THEN 1 ELSE 0
        /\ l.told.servers + v = IF LeavingBy(d, l) THEN 1 ELSE 0
  BY <1>3 DEF FitIdentity
<1>5. /\ l.type = "NONE" <=> l.priv = "none"
      /\ l.limit > 0 \/ d > 0 => l.priv # "none"
  BY DEF FitIdentity
<1>. QED BY <1>2, <1>4, <1>5 DEF FitIdentity

(* u_link_fatal. *)
LEMMA FatalFit ==
  ASSUME NEW r, NEW ct, NEW l \in LinkRec, FitIdentity(0, 0, 0, 0, 0, r, ct, l),
         r.st # "CONNECTING"
  PROVE  FitIdentity(1, 1, 0, 0, 0, r, ct, l)
<1>1. PICK z, n : z = 0 /\ n = 1
  OBVIOUS
<1>2. OverBy(n, r, ct) /\ z \in Nat /\ FitIdentity(z, z, z, z, z, r, ct, l)
  BY <1>1 DEF OverBy
<1>3. FitIdentity(n, 1 + z, z, z, z, r, ct, l)
  BY <1>2, ExqFit
<1>4. 1 + z = 1
  BY <1>1
<1>. QED BY <1>1, <1>3, <1>4

(* The identity is destroyed by one of the programs that do so at once.    *)
LEMMA EndFit ==
  ASSUME NEW r, NEW ct, NEW l \in LinkRec, FitIdentity(0, 0, 0, 0, 0, r, ct, l),
         l.priv = "live", NEW r2, NEW ct2, r2.st # "CONNECTING", NEW w \in {0, 1},
         w = 1 <=> l.type = "USER"
  PROVE  FitIdentity(1, 0, 1, w, 1, r2, ct2, l)
<1>1. EndsBy(0, 0, l) = 0 /\ EndsBy(0, 1, l) = 1 /\ ~LeavingBy(0, l) /\ LeavingBy(1, l)
  BY DEF EndsBy, LeavingBy
<1>2. l.told.users = 0 /\ l.told.servers = 0
  BY <1>1, LinkTypes DEF FitIdentity
<1>3. OverBy(1, r2, ct2)
  BY DEF OverBy
<1>. QED BY <1>1, <1>2, <1>3 DEF FitIdentity

(* An identity is made: a late one, if the link is over. *)
Born(l, l2, r) ==
  /\ l.type = "NONE" /\ l2.type # "NONE" /\ l2.priv = "live"
  /\ l2.sentQuit = l.sentQuit /\ l2.told = l.told
  /\ r.st # "ACTIVE" => l2.late

LEMMA BornFit ==
  ASSUME NEW r, NEW l \in LinkRec, NEW l2 \in LinkRec, Born(l, l2, r), r.st # "CONNECTING",
         FitIdentity(0, 0, 0, 0, 0, r, "idle", l)
  PROVE  FitIdentity(0, 0, 0, 0, 0, r, "idle", l2)
<1>1. EndsBy(0, 0, l) = 0 /\ EndsBy(0, 0, l2) = 0 /\ ~LeavingBy(0, l) /\ ~LeavingBy(0, l2)
  BY DEF EndsBy, LeavingBy, Born, FitIdentity
<1>2. l2.told.users = 0 /\ l2.told.servers = 0
  BY <1>1, LinkTypes DEF FitIdentity, Born
<1>3. OverBy(0, r, "idle") <=> r.st # "ACTIVE"
  BY DEF OverBy
<1>. QED BY <1>1, <1>2, <1>3 DEF FitIdentity, Born

(* A link without one. *)
LEMMA NewFit ==
  ASSUME NEW r, NEW ct, NEW l, l.type = "NONE", l.priv = "none", l.limit = 0, ~l.sentQuit,
         l.told = [users |-> 0, servers |-> 0]
  PROVE  FitIdentity(0, 0, 0, 0, 0, r, ct, l)
BY DEF FitIdentity, EndsBy, LeavingBy

-----------------------------------------------------------------------------
(* What the calls do to it.                                                *)

(* exceptional_quit, the first call; and one that has said QUIT before, or *)
(* has nobody to say it of.                                                *)
LEMMA QuitAgainFit ==
  ASSUME NEW s, NEW q \in Nat, NEW d \in Nat, NEW u, NEW v, NEW r, NEW ct, NEW l \in LinkRec,
         FitIdentity(s, 1 + q, d, u, v, r, ct, l), l.sentQuit \/ l.type = "NONE"
  PROVE  FitIdentity(s, q, d, u, v, r, ct, [l EXCEPT !.sentQuit = TRUE])
<1>1. PICK l2 : l2 = [l EXCEPT !.sentQuit = TRUE]
  OBVIOUS
<1>2. /\ l2.type = l.type /\ l2.priv = l.priv /\ l2.sentQuit /\ l2.told = l.told
      /\ l2.late = l.late /\ l2.limit = l.limit
  BY <1>1 DEF LinkRec
<1>3. EndsBy(q, d, l2) = EndsBy(1 + q, d, l) /\ (LeavingBy(d, l2) <=> LeavingBy(d, l))
  BY <1>2 DEF EndsBy, LeavingBy
<1>4. 1 + q > 0 /\ 1 + q # 0
  OBVIOUS
<1>. QED BY <1>1, <1>2, <1>3, <1>4 DEF FitIdentity

(* One that says it. *)
LEMMA QuitFit ==
  ASSUME NEW s, NEW q \in Nat, NEW d \in Nat, NEW u \in Nat, NEW v \in Nat, NEW r, NEW ct,
         NEW l \in LinkRec,
         FitIdentity(s, 1 + q, d, u, v, r, ct, l), ~l.sentQuit, l.type # "NONE",
         NEW w \in {0, 1}, w = 1 <=> l.type = "USER"
  PROVE  FitIdentity(s, q, 1 + d, w + u, 1 + v, r, ct, [l EXCEPT !.sentQuit = TRUE])
<1>1. PICK l2 : l2 = [l EXCEPT !.sentQuit = TRUE]
  OBVIOUS
<1>2. /\ l2.type = l.type /\ l2.priv = l.priv /\ l2.sentQuit /\ l2.told = l.told
      /\ l2.late = l.late /\ l2.limit = l.limit
  BY <1>1 DEF LinkRec
<1>3. EndsBy(q, 1 + d, l2) = EndsBy(1 + q, d, l) /\ EndsBy(q, 1 + d, l2) \in Nat
  BY <1>2 DEF EndsBy
<1>4. 1 + q > 0 /\ 1 + q # 0 /\ 1 + d > 0 /\ LeavingBy(1 + d, l2) /\ EndsBy(q, 1 + d, l2) > 0
  BY <1>2 DEF LeavingBy, EndsBy
<1>5. ASSUME EndsBy(q, 1 + d, l2) <= 1
      PROVE  l2.told.users + (w + u) = w /\ l2.told.servers + (1 + v) = 1
  <2>1. ~LeavingBy(d, l)
    BY <1>2, <1>5 DEF EndsBy, LeavingBy
  <2>2. l.told.users + u = 0 /\ l.told.servers + v = 0
    BY <1>3, <1>5, <2>1 DEF FitIdentity
  <2>3. PICK x, y \in Nat : x = l.told.users /\ y = l.told.servers
    BY LinkTypes
  <2>4. x + u = 0 /\ y + v = 0 /\ l2.told.users = x /\ l2.told.servers = y
    BY <1>2, <2>2, <2>3
  <2>5. x + (w + u) = w /\ y + (1 + v) = 1
    BY <2>4
  <2>. QED BY <2>4, <2>5
<1>. QED BY <1>1, <1>2, <1>3, <1>4, <1>5 DEF FitIdentity

(* An announcement is made: one more was made, one less is left. *)
LEMMA ToldFit ==
  ASSUME NEW s, NEW q, NEW d, NEW u \in Nat, NEW v \in Nat, NEW r, NEW ct,
         NEW l \in LinkRec, NEW a \in {0, 1}, NEW b \in {0, 1}, NEW l2 \in LinkRec,
         NEW x, NEW y, x = a + u, y = b + v, FitIdentity(s, q, d, x, y, r, ct, l),
         l2.told.users = l.told.users + a, l2.told.servers = l.told.servers + b,
         l2.type = l.type, l2.priv = l.priv, l2.sentQuit = l.sentQuit, l2.late = l.late,
         l2.limit = l.limit
  PROVE  FitIdentity(s, q, d, u, v, r, ct, l2)
<1>1. EndsBy(q, d, l2) = EndsBy(q, d, l) /\ (LeavingBy(d, l2) <=> LeavingBy(d, l))
  BY DEF EndsBy, LeavingBy
<1>2. /\ l2.told.users + u = l.told.users + x
      /\ l2.told.servers + v = l.told.servers + y
  <2>1. PICK i, j \in Nat : i = l.told.users /\ j = l.told.servers
    BY LinkTypes
  <2>2. (i + a) + u = i + (a + u) /\ (j + b) + v = j + (b + v)
    OBVIOUS
  <2>. QED BY <2>1, <2>2
<1>. QED BY <1>1, <1>2 DEF FitIdentity

(* The identity is destroyed. *)
LEMMA DestroyedFit ==
  ASSUME NEW s, NEW q, NEW d \in Nat, NEW u, NEW v, NEW r, NEW ct, NEW l \in LinkRec,
         FitIdentity(s, q, 1 + d, u, v, r, ct, l), l.priv # "freed"
  PROVE  FitIdentity(s, q, d, u, v, r, ct, [l EXCEPT !.priv = "freed"])
<1>1. PICK l2 : l2 = [l EXCEPT !.priv = "freed"]
  OBVIOUS
<1>2. /\ l2.type = l.type /\ l2.priv = "freed" /\ l2.sentQuit = l.sentQuit
      /\ l2.told = l.told /\ l2.late = l.late /\ l2.limit = l.limit
  BY <1>1 DEF LinkRec
<1>3. 1 + d > 0 /\ LeavingBy(1 + d, l) /\ LeavingBy(d, l2)
  BY <1>2 DEF LeavingBy
<1>4. EndsBy(q, d, l2) = EndsBy(q, 1 + d, l)
  BY <1>2 DEF EndsBy
<1>. QED BY <1>1, <1>2, <1>3, <1>4 DEF FitIdentity

-----------------------------------------------------------------------------
(* The states the lemmas below are about.                                  *)
Fine == Sound /\ LoopLast /\ ConnFits /\ IdentityFits
Kept == LoopLast /\ ConnFits /\ IdentityFits

LEMMA FineFacts ==
  ASSUME Fine
  PROVE  /\ Sound /\ conn \in C!ConnRec /\ link \in LinkRec /\ todo \in Seq(Ops)
         /\ cont \in C!Conts \cup {"idle"} /\ Loop(todo) /\ ConnFits
         /\ \E s, q, d, u, v \in Nat :
              Numbers(todo, s, q, d, u, v) /\ FitIdentity(s, q, d, u, v, conn, cont, link)
<1>1. Sound /\ conn \in C!ConnRec /\ link \in LinkRec /\ todo \in Seq(Ops)
      /\ cont \in C!Conts \cup {"idle"}
  BY SoundTypes DEF Fine
<1>2. Loop(todo) /\ ConnFits
  BY DEF Fine, LoopLast, Loop
<1>3. PICK s, q, d, u, v \in Nat : Numbers(todo, s, q, d, u, v)
  BY <1>1, SomeNumbers
<1>4. FitIdentity(s, q, d, u, v, conn, cont, link)
  BY <1>3, FitNow DEF Fine
<1>. QED BY <1>1, <1>2, <1>3, <1>4

LEMMA LoopIs == Loop(todo') => LoopLast'
BY DEF Loop, LoopLast

(* The calls that are left weigh s1, q1, d1, u1, v1 more than some weight, *)
(* by which and the weight of h the link fits.                             *)
Splits(h, s1, q1, d1, u1, v1) ==
  \E s, q, d, u, v \in Nat :
    /\ Numbers(todo', s1 + s, q1 + q, d1 + d, u1 + u, v1 + v)
    /\ FitIdentity(One(h, {"shut", "drop"}) + s, One(h, {"exq"}) + q,
                   One(h, {"destroy"}) + d, One(h, {"tell_users"}) + u,
                   One(h, {"tell_servers"}) + v, conn, cont, link)

(* A call leaves prog in its place. *)
LEMMA CallSplit ==
  ASSUME Fine, todo # << >>, NEW prog \in Seq(Ops), Light(prog), Call(prog),
         NEW s1, NEW q1, NEW d1, NEW u1, NEW v1, Numbers(prog, s1, q1, d1, u1, v1),
         NEW h, h = Head(todo)
  PROVE  LoopLast' /\ Splits(h, s1, q1, d1, u1, v1)
<1>1. todo \in Seq(Ops) /\ Loop(todo) /\ todo' = prog \o Tail(todo)
  BY FineFacts DEF Call
<1>2. PICK t : t = Tail(todo)
  OBVIOUS
<1>3. t \in Seq(Ops) /\ h \in Ops /\ todo = <<h>> \o t /\ <<h>> \in Seq(Ops)
  BY <1>1, <1>2
<1>4. LoopLast'
  <2>1. Loop(prog \o Tail(todo))
    BY <1>1, LoopCat
  <2>. QED BY <1>1, <2>1, LoopIs
<1>5. PICK s, q, d, u, v \in Nat : Numbers(t, s, q, d, u, v)
  BY <1>3, SomeNumbers
<1>6. Numbers(prog \o t, s1 + s, q1 + q, d1 + d, u1 + u, v1 + v)
  BY ONLY <1>3, <1>5, CatNumbers, prog \in Seq(Ops), Numbers(prog, s1, q1, d1, u1, v1)
<1>7. Numbers(<<h>>, One(h, {"shut", "drop"}), One(h, {"exq"}), One(h, {"destroy"}),
              One(h, {"tell_users"}), One(h, {"tell_servers"}))
  BY <1>3, OneNumbers
<1>8. Numbers(<<h>> \o t, One(h, {"shut", "drop"}) + s, One(h, {"exq"}) + q,
              One(h, {"destroy"}) + d, One(h, {"tell_users"}) + u,
              One(h, {"tell_servers"}) + v)
  BY ONLY <1>3, <1>5, <1>7, CatNumbers
<1>9. FitIdentity(One(h, {"shut", "drop"}) + s, One(h, {"exq"}) + q,
                  One(h, {"destroy"}) + d, One(h, {"tell_users"}) + u,
                  One(h, {"tell_servers"}) + v, conn, cont, link)
  BY <1>3, <1>8, FitNow DEF Fine
<1>. QED BY <1>1, <1>2, <1>4, <1>5, <1>6, <1>9 DEF Splits

(* So it does if prog weighs nothing. *)
LEMMA QuietSplit ==
  ASSUME Fine, todo # << >>, NEW prog \in Seq(Ops), Light(prog), Call(prog),
         Numbers(prog, 0, 0, 0, 0, 0), NEW h, h = Head(todo)
  PROVE  /\ LoopLast'
         /\ \E s, q, d, u, v \in Nat :
              /\ Numbers(todo', s, q, d, u, v)
              /\ FitIdentity(One(h, {"shut", "drop"}) + s, One(h, {"exq"}) + q,
                             One(h, {"destroy"}) + d, One(h, {"tell_users"}) + u,
                             One(h, {"tell_servers"}) + v, conn, cont, link)
<1>1. PICK z : z = 0
  OBVIOUS
<1>2. Numbers(prog, z, z, z, z, z)
  BY <1>1
<1>3. LoopLast' /\ Splits(h, z, z, z, z, z)
  BY <1>2, CallSplit
<1>4. PICK s, q, d, u, v \in Nat :
        /\ Numbers(todo', z + s, z + q, z + d, z + u, z + v)
        /\ FitIdentity(One(h, {"shut", "drop"}) + s, One(h, {"exq"}) + q,
                       One(h, {"destroy"}) + d, One(h, {"tell_users"}) + u,
                       One(h, {"tell_servers"}) + v, conn, cont, link)
  BY <1>3 DEF Splits
<1>5. z + s = s /\ z + q = q /\ z + d = d /\ z + u = u /\ z + v = v
  BY <1>1
<1>6. Numbers(todo', s, q, d, u, v)
  BY <1>4, <1>5
<1>. QED BY <1>3, <1>4, <1>6

(* Calls of no weight, and programs of no weight in their place.           *)
LEMMA QuietCall ==
  ASSUME Fine, todo # << >>, NEW prog \in Seq(Ops), Light(prog), Call(prog),
         Numbers(prog, 0, 0, 0, 0, 0),
         Head(todo) \in {"send", "sendu", "wait", "unwait", "dispatch", "exec"},
         Alike(conn, conn'), cont' = cont, SameIdentity(link, link')
  PROVE  LoopLast' /\ IdentityFits'
<1>0. PICK h : h = Head(todo)
  OBVIOUS
<1>1. /\ LoopLast'
      /\ \E s, q, d, u, v \in Nat :
           /\ Numbers(todo', s, q, d, u, v)
           /\ FitIdentity(One(h, {"shut", "drop"}) + s, One(h, {"exq"}) + q,
                          One(h, {"destroy"}) + d, One(h, {"tell_users"}) + u,
                          One(h, {"tell_servers"}) + v, conn, cont, link)
  BY <1>0, QuietSplit
<1>2. /\ One(h, {"shut", "drop"}) = 0 /\ One(h, {"exq"}) = 0 /\ One(h, {"destroy"}) = 0
      /\ One(h, {"tell_users"}) = 0 /\ One(h, {"tell_servers"}) = 0
  BY <1>0 DEF One
<1>3. \A n \in Nat : 0 + n = n
  OBVIOUS
<1>4. PICK s, q, d, u, v \in Nat : /\ Numbers(todo', s, q, d, u, v)
                                   /\ FitIdentity(s, q, d, u, v, conn, cont, link)
  BY <1>1, <1>2, <1>3
<1>5. /\ OverBy(s, conn', cont') <=> OverBy(s, conn, cont)
      /\ conn'.st = "CONNECTING" => conn.st = "CONNECTING"
  BY DEF OverBy, Alike
<1>6. FitIdentity(s, q, d, u, v, conn', cont', link')
  BY <1>4, <1>5, QuietFit
<1>. QED BY <1>1, <1>4, <1>6, FitNext

(* How the connection follows. *)
LEMMA AlikeConn ==
  ASSUME ConnFits, Alike(conn, conn'), cont' = cont PROVE ConnFits'
BY DEF ConnFits, Alike

LEMMA ClosedConn ==
  ASSUME conn'.st \in {"none", "SHUTTING_DOWN", "AWAIT_CLEANUP"}, conn'.send # "connect_end"
  PROVE  ConnFits'
BY DEF ConnFits

LEMMA SameAlike ==
  /\ Fine => Alike(conn, conn)
  /\ SameIdentity(link, link)
BY FineFacts, BrokenEnds DEF SameIdentity

-----------------------------------------------------------------------------
(* The calls.                                                              *)
LEMMA FlagKeeps ==
  ASSUME Fine, Flag \/ Compact PROVE Kept'
<1>1. /\ todo # << >> /\ Head(todo) \in {"wait", "unwait", "dispatch"} /\ Call(<< >>)
      /\ conn' = conn /\ cont' = cont
  BY DEF Flag, Compact, Top
<1>2. SameIdentity(link, link')
  <2>1. link \in LinkRec
    BY FineFacts
  <2>2. CASE Flag
    BY <2>1, <2>2 DEF Flag, LinkRec, SameIdentity
  <2>3. CASE Compact
    BY <2>1, <2>3 DEF Compact, LinkRec, SameIdentity
  <2>. QED BY <2>2, <2>3
<1>3. Alike(conn, conn')
  BY <1>1, SameAlike
<1>4. << >> \in Seq(Ops) /\ Light(<< >>) /\ Numbers(<< >>, 0, 0, 0, 0, 0)
  BY LightPrograms, ProgramNumbers
<1>. QED BY <1>1, <1>2, <1>3, <1>4, QuietCall, AlikeConn, FineFacts DEF Kept

(* A line is queued, or the queue is full. *)
LEMMA SendLineKeeps ==
  ASSUME Fine, SendLine, ~ub' PROVE Kept'
<1>1. /\ todo # << >> /\ Head(todo) \in {"send", "sendu"} /\ cont' = cont /\ link' = link
      /\ \/ Call(<< >>) /\ conn' = C!Queued(conn)
         \/ Call(Full) /\ conn' = conn /\ link.limit > 0
  BY DEF SendLine, Top, Undefined
<1>2. CASE Call(<< >>) /\ conn' = C!Queued(conn)
  <2>1. Alike(conn, conn') /\ SameIdentity(link, link')
    BY <1>1, <1>2, FineFacts, QueuedEnds, SameAlike
  <2>2. << >> \in Seq(Ops) /\ Light(<< >>) /\ Numbers(<< >>, 0, 0, 0, 0, 0)
    BY LightPrograms, ProgramNumbers
  <2>. QED BY <1>1, <1>2, <2>1, <2>2, QuietCall, AlikeConn, FineFacts DEF Kept
<1>3. CASE Call(Full) /\ conn' = conn /\ link.limit > 0
  <2>. PICK h : h = Head(todo)
    OBVIOUS
  <2>0. /\ Full \in Seq(Ops) /\ Light(Full) /\ Numbers(Full, 1, 1, 0, 0, 0)
    BY LightPrograms, ProgramNumbers DEF Full, Ops
  <2>1. LoopLast' /\ Splits(h, 1, 1, 0, 0, 0)
    BY <1>1, <1>3, <2>0, CallSplit
  <2>2. /\ One(h, {"shut", "drop"}) = 0 /\ One(h, {"exq"}) = 0 /\ One(h, {"destroy"}) = 0
        /\ One(h, {"tell_users"}) = 0 /\ One(h, {"tell_servers"}) = 0
    BY <1>1 DEF One
  <2>3. \A n \in Nat : 0 + n = n
    OBVIOUS
  <2>4. PICK s, q, d, u, v \in Nat : /\ Numbers(todo', 1 + s, 1 + q, d, u, v)
                                     /\ FitIdentity(s, q, d, u, v, conn, cont, link)
    BY <2>1, <2>2, <2>3 DEF Splits
  <2>5. conn.st # "CONNECTING" /\ OverBy(1 + s, conn, cont) /\ link \in LinkRec
    BY <1>3, <2>4, FineFacts DEF FitIdentity, OverBy
  <2>6. FitIdentity(1 + s, 1 + q, d, u, v, conn, cont, link)
    BY <2>4, <2>5, ExqFit
  <2>7. IdentityFits'
    BY <1>1, <1>3, <2>4, <2>6, FitNext
  <2>. QED BY <1>1, <1>3, <2>1, <2>7, AlikeConn, SameAlike, FineFacts DEF Kept
<1>. QED BY <1>1, <1>2, <1>3

(* The connection is closed. *)
LEMMA CloseConnKeeps ==
  ASSUME Fine, CloseConn PROVE Kept'
<1>1. /\ todo # << >> /\ Head(todo) \in {"shut", "drop"} /\ cont' = cont /\ link' = link
      /\ Call(<< >>) /\ conn \in C!ConnRec
      /\ conn' = C!ShutDown(conn) \/ conn' = C!ShutDown(C!Cleared(conn))
  BY FineFacts DEF CloseConn, Top
<1>2. conn'.st \in {"SHUTTING_DOWN", "AWAIT_CLEANUP"} /\ conn'.send # "connect_end"
  <2>1. C!Cleared(conn) \in C!ConnRec
    BY <1>1, ShutDownEnds
  <2>. QED BY <1>1, <2>1, ShutDownEnds
<1>0. PICK h : h = Head(todo)
  OBVIOUS
<1>3. << >> \in Seq(Ops) /\ Light(<< >>) /\ Numbers(<< >>, 0, 0, 0, 0, 0)
  BY LightPrograms, ProgramNumbers
<1>4. /\ LoopLast'
      /\ \E s, q, d, u, v \in Nat :
           /\ Numbers(todo', s, q, d, u, v)
           /\ FitIdentity(One(h, {"shut", "drop"}) + s, One(h, {"exq"}) + q,
                          One(h, {"destroy"}) + d, One(h, {"tell_users"}) + u,
                          One(h, {"tell_servers"}) + v, conn, cont, link)
  BY <1>0, <1>1, <1>3, QuietSplit
<1>5. /\ One(h, {"shut", "drop"}) = 1 /\ One(h, {"exq"}) = 0 /\ One(h, {"destroy"}) = 0
      /\ One(h, {"tell_users"}) = 0 /\ One(h, {"tell_servers"}) = 0
  BY <1>0, <1>1 DEF One
<1>6. \A n \in Nat : 0 + n = n
  OBVIOUS
<1>7. PICK s, q, d, u, v \in Nat : /\ Numbers(todo', s, q, d, u, v)
                                   /\ FitIdentity(1 + s, q, d, u, v, conn, cont, link)
  BY <1>4, <1>5, <1>6
<1>8. /\ OverBy(s, conn', cont') <=> OverBy(1 + s, conn, cont)
      /\ conn'.st # "CONNECTING"
  BY <1>2 DEF OverBy
<1>9. FitIdentity(s, q, d, u, v, conn', cont', link')
  BY <1>1, <1>7, <1>8, QuietFit, SameAlike
<1>. QED BY <1>2, <1>4, <1>7, <1>9, FitNext, ClosedConn DEF Kept

(* A link that fits by some weight and that of h fits after the step by    *)
(* s1, q1, d1, u1, v1 more than the former.                                *)
Carries(h, s1, q1, d1, u1, v1) ==
  \A s, q, d, u, v \in Nat :
    FitIdentity(One(h, {"shut", "drop"}) + s, One(h, {"exq"}) + q,
                One(h, {"destroy"}) + d, One(h, {"tell_users"}) + u,
                One(h, {"tell_servers"}) + v, conn, cont, link)
      => FitIdentity(s1 + s, q1 + q, d1 + d, u1 + u, v1 + v, conn, cont, link')

(* A call that leaves the connection, and prog for itself.                 *)
LEMMA CallKeeps ==
  ASSUME Fine, todo # << >>, NEW prog \in Seq(Ops), Light(prog), Call(prog),
         NEW s1, NEW q1, NEW d1, NEW u1, NEW v1, Numbers(prog, s1, q1, d1, u1, v1),
         NEW h, h = Head(todo), conn' = conn, cont' = cont,
         Carries(h, s1, q1, d1, u1, v1)
  PROVE  Kept'
<1>1. LoopLast' /\ Splits(h, s1, q1, d1, u1, v1)
  BY CallSplit
<1>2. PICK s, q, d, u, v \in Nat :
        /\ Numbers(todo', s1 + s, q1 + q, d1 + d, u1 + u, v1 + v)
        /\ FitIdentity(s1 + s, q1 + q, d1 + d, u1 + u, v1 + v, conn, cont, link')
  BY <1>1 DEF Splits, Carries
<1>3. IdentityFits'
  BY <1>2, FitNext
<1>4. ConnFits'
  BY FineFacts, SameAlike, AlikeConn
<1>. QED BY <1>1, <1>3, <1>4 DEF Kept

(* The network is told what is left of a link. *)
LEMMA ExceptionalQuitKeeps ==
  ASSUME Fine, ExceptionalQuit PROVE Kept'
<1>. PICK h : h = Head(todo)
  OBVIOUS
<1>1. /\ todo # << >> /\ h = "exq" /\ conn' = conn /\ cont' = cont
      /\ link' = [link EXCEPT !.sentQuit = TRUE] /\ link \in LinkRec
  BY FineFacts DEF ExceptionalQuit, Top
<1>2. /\ One(h, {"shut", "drop"}) = 0 /\ One(h, {"exq"}) = 1 /\ One(h, {"destroy"}) = 0
      /\ One(h, {"tell_users"}) = 0 /\ One(h, {"tell_servers"}) = 0
  BY <1>1 DEF One
<1>3. \A n \in Nat : 0 + n = n
  OBVIOUS
<1>4. CASE Call(<< >>) /\ (link.sentQuit \/ link.type = "NONE")
  <2>1. << >> \in Seq(Ops) /\ Light(<< >>) /\ Numbers(<< >>, 0, 0, 0, 0, 0)
    BY LightPrograms, ProgramNumbers
  <2>2. ASSUME NEW s \in Nat, NEW q \in Nat, NEW d \in Nat, NEW u \in Nat, NEW v \in Nat,
               FitIdentity(s, 1 + q, d, u, v, conn, cont, link)
        PROVE  FitIdentity(s, q, d, u, v, conn, cont, link')
    BY <1>1, <1>4, <2>2, QuitAgainFit
  <2>3. Carries(h, 0, 0, 0, 0, 0)
    BY <1>2, <1>3, <2>2 DEF Carries
  <2>. QED BY <1>1, <1>4, <2>1, <2>3, CallKeeps
<1>5. ASSUME ~link.sentQuit, link.type # "NONE", NEW prog \in Seq(Ops), Light(prog),
             Call(prog), NEW w \in {0, 1}, w = 1 <=> link.type = "USER",
             Numbers(prog, 0, 0, 1, w, 1)
      PROVE  Kept'
  <2>2. ASSUME NEW s \in Nat, NEW q \in Nat, NEW d \in Nat, NEW u \in Nat, NEW v \in Nat,
               FitIdentity(s, 1 + q, d, u, v, conn, cont, link)
        PROVE  FitIdentity(s, q, 1 + d, w + u, 1 + v, conn, cont, link')
    BY <1>1, <1>5, <2>2, QuitFit
  <2>3. Carries(h, 0, 0, 1, w, 1)
    <3>1. SUFFICES ASSUME NEW s \in Nat, NEW q \in Nat, NEW d \in Nat, NEW u \in Nat,
                          NEW v \in Nat, FitIdentity(0 + s, 1 + q, 0 + d, 0 + u, 0 + v,
                                                    conn, cont, link)
                   PROVE  FitIdentity(0 + s, 0 + q, 1 + d, w + u, 1 + v, conn, cont, link')
      BY <1>2 DEF Carries
    <3>2. FitIdentity(s, 1 + q, d, u, v, conn, cont, link)
      BY <1>3, <3>1
    <3>3. FitIdentity(s, q, 1 + d, w + u, 1 + v, conn, cont, link')
      BY <2>2, <3>2
    <3>. QED BY <1>3, <3>3
  <2>. QED BY <1>1, <1>5, <2>3, CallKeeps
<1>6. CASE ~link.sentQuit /\ link.type = "USER"
  <2>1. Call(<<"tell_users", "tell_servers", "destroy">>)
    BY <1>6 DEF ExceptionalQuit
  <2>2. /\ <<"tell_users", "tell_servers", "destroy">> \in Seq(Ops)
        /\ Light(<<"tell_users", "tell_servers", "destroy">>)
        /\ Numbers(<<"tell_users", "tell_servers", "destroy">>, 0, 0, 1, 1, 1)
    BY LightPrograms, ProgramNumbers DEF Ops
  <2>. QED BY <1>6, <2>1, <2>2, <1>5
<1>7. CASE ~link.sentQuit /\ link.type = "SERVER"
  <2>1. Call(<<"tell_servers", "send", "destroy">>)
    BY <1>7 DEF ExceptionalQuit
  <2>2. /\ <<"tell_servers", "send", "destroy">> \in Seq(Ops)
        /\ Light(<<"tell_servers", "send", "destroy">>)
        /\ Numbers(<<"tell_servers", "send", "destroy">>, 0, 0, 1, 0, 1)
    BY LightPrograms, ProgramNumbers DEF Ops
  <2>3. PICK w : w = 0
    OBVIOUS
  <2>4. w \in {0, 1} /\ (w = 1 <=> link.type = "USER")
    BY <1>7, <2>3
  <2>. QED BY <1>7, <2>1, <2>2, <2>3, <2>4, <1>5
<1>8. link.sentQuit \/ link.type = "NONE" => Call(<< >>)
  <2>1. /\ link.type = "USER" /\ ~link.sentQuit => FALSE
        /\ link.type = "SERVER" /\ ~link.sentQuit => FALSE
        => Call(<< >>)
    BY DEF ExceptionalQuit
  <2>. QED BY <2>1
<1>. QED BY <1>1, <1>4, <1>6, <1>7, <1>8, LinkTypes

(* One announcement is made. *)
LEMMA TellKeeps ==
  ASSUME Fine, Tell, ~ub' PROVE Kept'
<1>. PICK h : h = Head(todo)
  OBVIOUS
<1>1. /\ todo # << >> /\ h \in {"tell_users", "tell_servers"} /\ conn' = conn /\ cont' = cont
      /\ link' = IF h = "tell_users" THEN [link EXCEPT !.told.users = @ + 1]
                                     ELSE [link EXCEPT !.told.servers = @ + 1]
      /\ link \in LinkRec
      /\ \/ Call(<< >>) \/ Call(<<"send">>)
  BY FineFacts DEF Tell, Top, Undefined
<1>2. PICK a, b : a = One(h, {"tell_users"}) /\ b = One(h, {"tell_servers"})
  OBVIOUS
<1>3. /\ a \in {0, 1} /\ b \in {0, 1} /\ (h = "tell_users" => a = 1 /\ b = 0)
      /\ (h = "tell_servers" => a = 0 /\ b = 1)
  BY <1>2 DEF One
<1>4. /\ link'.told.users = link.told.users + a /\ link'.told.servers = link.told.servers + b
      /\ link'.type = link.type /\ link'.priv = link.priv /\ link'.sentQuit = link.sentQuit
      /\ link'.late = link.late /\ link'.limit = link.limit /\ link' \in LinkRec
  <2>1. link.told \in [users : Nat, servers : Nat]
    BY <1>1 DEF LinkRec
  <2>2. PICK t, r : /\ t = link.told
                    /\ r = [users |-> t.users + a, servers |-> t.servers + b]
    OBVIOUS
  <2>3. /\ h = "tell_users" => r = [t EXCEPT !.users = @ + 1]
        /\ h = "tell_servers" => r = [t EXCEPT !.servers = @ + 1]
    BY <1>3, <2>1, <2>2
  <2>4. link' = [link EXCEPT !.told = r]
    BY <1>1, <2>2, <2>3
  <2>5. r \in [users : Nat, servers : Nat] /\ r.users = link.told.users + a
        /\ r.servers = link.told.servers + b
    BY <1>3, <2>1, <2>2
  <2>6. link \in LinkRec
    BY <1>1
  <2>. QED BY ONLY <2>4, <2>5, <2>6 DEF LinkRec
<1>5. ASSUME NEW s \in Nat, NEW q \in Nat, NEW d \in Nat, NEW u \in Nat, NEW v \in Nat,
             FitIdentity(s, q, d, a + u, b + v, conn, cont, link)
      PROVE  FitIdentity(s, q, d, u, v, conn, cont, link')
  <2>1. PICK x, y : x = a + u /\ y = b + v
    OBVIOUS
  <2>2. FitIdentity(s, q, d, x, y, conn, cont, link) /\ link \in LinkRec
    BY <1>1, <1>5, <2>1
  <2>. QED BY ONLY <1>3, <1>4, <2>1, <2>2, u \in Nat, v \in Nat, ToldFit
<1>6. /\ One(h, {"shut", "drop"}) = 0 /\ One(h, {"exq"}) = 0 /\ One(h, {"destroy"}) = 0
  BY <1>1 DEF One
<1>7. \A n \in Nat : 0 + n = n
  OBVIOUS
<1>8. Carries(h, 0, 0, 0, 0, 0)
  BY <1>2, <1>5, <1>6, <1>7 DEF Carries
<1>9. /\ << >> \in Seq(Ops) /\ Light(<< >>) /\ Numbers(<< >>, 0, 0, 0, 0, 0)
      /\ <<"send">> \in Seq(Ops) /\ Light(<<"send">>) /\ Numbers(<<"send">>, 0, 0, 0, 0, 0)
  BY LightPrograms, ProgramNumbers DEF Ops
<1>. QED BY <1>1, <1>8, <1>9, CallKeeps

(* The identity is destroyed. *)
LEMMA DestroyKeeps ==
  ASSUME Fine, Destroy, ~ub' PROVE Kept'
<1>. PICK h : h = Head(todo)
  OBVIOUS
<1>1. /\ todo # << >> /\ h = "destroy" /\ conn' = conn /\ cont' = cont
      /\ link' = [link EXCEPT !.priv = "freed"] /\ link.priv # "freed"
      /\ link \in LinkRec /\ Call(<< >>)
  BY FineFacts DEF Destroy, Top, Undefined
<1>2. ASSUME NEW s \in Nat, NEW q \in Nat, NEW d \in Nat, NEW u \in Nat, NEW v \in Nat,
             FitIdentity(s, q, 1 + d, u, v, conn, cont, link)
      PROVE  FitIdentity(s, q, d, u, v, conn, cont, link')
  BY <1>1, <1>2, DestroyedFit
<1>3. /\ One(h, {"shut", "drop"}) = 0 /\ One(h, {"exq"}) = 0 /\ One(h, {"destroy"}) = 1
      /\ One(h, {"tell_users"}) = 0 /\ One(h, {"tell_servers"}) = 0
  BY <1>1 DEF One
<1>4. \A n \in Nat : 0 + n = n
  OBVIOUS
<1>5. Carries(h, 0, 0, 0, 0, 0)
  BY <1>2, <1>3, <1>4 DEF Carries
<1>6. << >> \in Seq(Ops) /\ Light(<< >>) /\ Numbers(<< >>, 0, 0, 0, 0, 0)
  BY LightPrograms, ProgramNumbers
<1>. QED BY <1>1, <1>5, <1>6, CallKeeps

-----------------------------------------------------------------------------
(* Lines.                                                                  *)

(* What the calls that are left weigh, and the link with them.             *)
LEMMA Weighed ==
  ASSUME NEW s, NEW q, NEW d, NEW u, NEW v, Numbers(todo', s, q, d, u, v),
         FitIdentity(s, q, d, u, v, conn', cont', link'), Loop(todo'), ConnFits'
  PROVE  Kept'
BY FitNext, LoopIs DEF Kept

(* The loop finds nothing else to do. *)
LEMMA LineFinds ==
  ASSUME Fine, Line, ~ub'
  PROVE  /\ todo = <<"dispatch">> /\ cont = "idle" /\ conn' = conn /\ cont' = cont
         /\ conn.st \notin {"none", "CONNECTING"} /\ link.priv # "freed" /\ ConnFits'
         /\ FitIdentity(0, 0, 0, 0, 0, conn, "idle", link)
<1>1. /\ todo # << >> /\ Head(todo) = "dispatch" /\ conn' = conn /\ cont' = cont
      /\ link.priv # "freed"
  BY DEF Line, Top, Undefined
<1>2. todo = <<"dispatch">>
  BY <1>1, FineFacts, LoopHead
<1>3. conn.st \notin {"none", "CONNECTING"} /\ cont = "idle"
  BY LineMade DEF Fine
<1>4. Numbers(todo, 0, 0, 0, 0, 0)
  BY <1>2, ProgramNumbers
<1>5. FitIdentity(0, 0, 0, 0, 0, conn, "idle", link)
  BY <1>3, <1>4, FitNow DEF Fine
<1>6. ConnFits'
  BY <1>1, FineFacts, SameAlike, AlikeConn
<1>. QED BY <1>1, <1>2, <1>3, <1>5, <1>6

(* What a handler leaves to do. *)
LEMMA HandlerEnds ==
  ASSUME Fine, Line, ~ub', NEW prog \in Seq(Ops), todo' = prog \o todo,
         Light(prog) \/ prog = <<"sendu", "exec", "sendu">>,
         NEW s, NEW q, NEW d, NEW u, NEW v, Numbers(prog, s, q, d, u, v),
         FitIdentity(s, q, d, u, v, conn, "idle", link')
  PROVE  Kept'
<1>1. /\ todo = <<"dispatch">> /\ cont = "idle" /\ conn' = conn /\ cont' = cont /\ ConnFits'
  BY LineFinds
<1>2. /\ <<"dispatch">> \in Seq(Ops) /\ Loop(<<"dispatch">>)
      /\ Numbers(<<"dispatch">>, 0, 0, 0, 0, 0)
  BY LoopPrograms, ProgramNumbers DEF Ops
<1>3. Numbers(prog \o <<"dispatch">>, s + 0, q + 0, d + 0, u + 0, v + 0)
  BY ONLY <1>2, CatNumbers, prog \in Seq(Ops), Numbers(prog, s, q, d, u, v)
<1>4. s \in Nat /\ q \in Nat /\ d \in Nat /\ u \in Nat /\ v \in Nat
  BY DEF Numbers
<1>5. Numbers(todo', s, q, d, u, v)
  BY <1>1, <1>3, <1>4
<1>6. Loop(todo')
  BY <1>1, <1>2, LoopCat, LoopPrograms
<1>. QED BY <1>1, <1>5, <1>6, Weighed

(* The first commands of a peer. *)
LEMMA RegisterIs ==
  ASSUME NEW l \in LinkRec, NEW k, TryRegister(l, k), l.type = "NONE" <=> l.priv = "none",
         l.priv # "freed"
  PROVE  /\ SameIdentity(l, link') \/ Born(l, link', conn)
         /\ \E prog \in {<<"sendu">>, << >>, Fatal} : todo' = prog \o todo
<1>1. PICK u : u = [l EXCEPT !.type = "USER", !.priv = "live", !.has = @ \cup {k},
                             !.late = @ \/ (l.type = "NONE" /\ conn.st # "ACTIVE")]
  OBVIOUS
<1>2. \/ Handle(<<"sendu">>, [u EXCEPT !.has = l.has])
      \/ Handle(<< >>, u)
      \/ Handle(<<"sendu">>, [u EXCEPT !.registered = TRUE, !.limit = Limit])
      \/ Handle(Fatal, u)
  BY <1>1 DEF TryRegister
<1>3. /\ u.type = "USER" /\ u.priv = "live" /\ u.sentQuit = l.sentQuit /\ u.told = l.told
      /\ u.late = (l.late \/ (l.type = "NONE" /\ conn.st # "ACTIVE"))
      /\ DOMAIN u = DOMAIN l /\ {"type", "priv", "sentQuit", "told", "late"} \subseteq DOMAIN l
  <2>1. PICK b, h : /\ b = (l.late \/ (l.type = "NONE" /\ conn.st # "ACTIVE"))
                    /\ h = l.has \cup {k}
    OBVIOUS
  <2>2. u = [l EXCEPT !.type = "USER", !.priv = "live", !.has = h, !.late = b]
    BY <1>1, <2>1, Zenon
  <2>3. /\ u.type = "USER" /\ u.priv = "live" /\ u.sentQuit = l.sentQuit /\ u.told = l.told
        /\ u.late = b
    BY <2>2 DEF LinkRec
  <2>4. DOMAIN u = DOMAIN l /\ {"type", "priv", "sentQuit", "told", "late"} \subseteq DOMAIN l
    BY <2>2 DEF LinkRec
  <2>. QED BY <2>1, <2>3, <2>4, Zenon
<1>4. /\ link'.type = u.type /\ link'.priv = u.priv /\ link'.sentQuit = u.sentQuit
      /\ link'.told = u.told /\ link'.late = u.late
  BY <1>2, <1>3 DEF Handle
<1>5. l.type \in {"NONE", "USER"} /\ l.late \in BOOLEAN /\ l.priv \in {"none", "live", "freed"}
  BY LinkTypes DEF TryRegister
<1>6. ASSUME l.type = "NONE" PROVE Born(l, link', conn)
  BY <1>3, <1>4, <1>6 DEF Born
<1>7. ASSUME l.type = "USER" PROVE SameIdentity(l, link')
  <2>1. l.priv = "live" /\ u.late = l.late
    BY <1>3, <1>5, <1>7
  <2>. QED BY <1>3, <1>4, <1>7, <2>1 DEF SameIdentity
<1>. QED BY <1>2, <1>5, <1>6, <1>7 DEF Handle

LEMMA RegisterKeeps ==
  ASSUME Fine, Line, ~ub', NEW l \in LinkRec, NEW k, TryRegister(l, k),
         SameIdentity(link, l), link' \in LinkRec
  PROVE  Kept'
<1>1. /\ conn.st \notin {"none", "CONNECTING"} /\ link.priv # "freed"
      /\ FitIdentity(0, 0, 0, 0, 0, conn, "idle", link)
  BY LineFinds
<1>2. FitIdentity(0, 0, 0, 0, 0, conn, "idle", l)
  BY <1>1, QuietFit
<1>3. (l.type = "NONE" <=> l.priv = "none") /\ l.priv # "freed"
  BY <1>1, <1>2 DEF FitIdentity, SameIdentity
<1>4. /\ SameIdentity(l, link') \/ Born(l, link', conn)
      /\ \E prog \in {<<"sendu">>, << >>, Fatal} : todo' = prog \o todo
  BY <1>3, RegisterIs
<1>5. FitIdentity(0, 0, 0, 0, 0, conn, "idle", link')
  BY <1>1, <1>2, <1>4, QuietFit, BornFit
<1>6. FitIdentity(1, 1, 0, 0, 0, conn, "idle", link')
  BY <1>1, <1>5, FatalFit
<1>7. /\ \A prog \in {<<"sendu">>, << >>, Fatal} : prog \in Seq(Ops) /\ Light(prog)
      /\ Numbers(<<"sendu">>, 0, 0, 0, 0, 0) /\ Numbers(<< >>, 0, 0, 0, 0, 0)
      /\ Numbers(Fatal, 1, 1, 0, 0, 0)
  BY LightPrograms, ProgramNumbers DEF Ops, Light, Fatal
<1>. QED BY <1>4, <1>5, <1>6, <1>7, HandlerEnds

(* The other handlers. *)
LEMMA OtherKeeps ==
  ASSUME Fine, Line, ~ub', NEW l \in LinkRec, NEW k,
         PassSid(l, k) \/ ServerLine(l, k) \/ UserLine(l, k) \/ Reply(l, k),
         SameIdentity(link, l), link' \in LinkRec
  PROVE  Kept'
<1>1. /\ conn.st \notin {"none", "CONNECTING"} /\ link.priv # "freed"
      /\ FitIdentity(0, 0, 0, 0, 0, conn, "idle", link)
  BY LineFinds
<1>2. FitIdentity(0, 0, 0, 0, 0, conn, "idle", l)
  BY <1>1, QuietFit
<1>3. /\ (l.type = "NONE" <=> l.priv = "none") /\ l.priv # "freed"
      /\ l.priv \in {"none", "live", "freed"} /\ l.type \in {"NONE", "USER", "SERVER"}
  BY <1>1, <1>2, LinkTypes DEF FitIdentity, SameIdentity
<1>4. ASSUME NEW prog \in {<<"send">>, <<"sendu">>, << >>, <<"send", "sendu">>,
                            <<"sendu", "exec", "sendu">>},
             NEW l2, Handle(prog, l2), SameIdentity(l, l2) \/ Born(l, l2, conn)
      PROVE  Kept'
  <2>1. FitIdentity(0, 0, 0, 0, 0, conn, "idle", link')
    BY <1>1, <1>2, <1>4, QuietFit, BornFit DEF Handle
  <2>2. prog \in Seq(Ops) /\ (Light(prog) \/ prog = <<"sendu", "exec", "sendu">>)
    <3>1. /\ <<"send">> \in Seq(Ops) /\ <<"sendu">> \in Seq(Ops) /\ << >> \in Seq(Ops)
          /\ <<"send", "sendu">> \in Seq(Ops) /\ <<"sendu", "exec", "sendu">> \in Seq(Ops)
      BY DEF Ops
    <3>2. /\ Light(<<"send">>) /\ Light(<<"sendu">>) /\ Light(<< >>)
          /\ Light(<<"send", "sendu">>)
      BY DEF Light
    <3>. QED BY <1>4, <3>1, <3>2
  <2>4. /\ Numbers(<<"send">>, 0, 0, 0, 0, 0) /\ Numbers(<<"sendu">>, 0, 0, 0, 0, 0)
        /\ Numbers(<< >>, 0, 0, 0, 0, 0) /\ Numbers(<<"send", "sendu">>, 0, 0, 0, 0, 0)
        /\ Numbers(<<"sendu", "exec", "sendu">>, 0, 0, 0, 0, 0)
    BY ProgramNumbers
  <2>5. Numbers(prog, 0, 0, 0, 0, 0)
    BY <1>4, <2>4
  <2>3. todo' = prog \o todo
    BY <1>4 DEF Handle
  <2>. QED BY <2>1, <2>2, <2>3, <2>5, HandlerEnds
<1>5. ASSUME Handle(Fatal, l) PROVE Kept'
  <2>1. FitIdentity(1, 1, 0, 0, 0, conn, "idle", link') /\ todo' = Fatal \o todo
    BY <1>1, <1>2, <1>5, FatalFit DEF Handle
  <2>2. Fatal \in Seq(Ops) /\ Light(Fatal) /\ Numbers(Fatal, 1, 1, 0, 0, 0)
    BY LightPrograms, ProgramNumbers DEF Ops, Fatal
  <2>. QED BY <2>1, <2>2, HandlerEnds
<1>6. ASSUME NEW prog \in {Quit, Squit}, Handle(prog, l), NEW w \in {0, 1},
             w = 1 <=> l.type = "USER", Numbers(prog, 1, 0, 1, w, 1), l.type # "NONE"
      PROVE  Kept'
  <2>1. l.priv = "live"
    BY <1>3, <1>6
  <2>2. FitIdentity(1, 0, 1, w, 1, conn, "idle", link') /\ todo' = prog \o todo
    BY <1>1, <1>2, <1>6, <2>1, EndFit DEF Handle
  <2>3. prog \in Seq(Ops) /\ Light(prog)
    <3>1. Quit \in Seq(Ops) /\ Light(Quit)
      BY DEF Ops, Quit, Light
    <3>2. Squit \in Seq(Ops) /\ Light(Squit)
      BY DEF Ops, Squit, Light
    <3>. QED BY <1>6, <3>1, <3>2
  <2>. QED BY <1>6, <2>2, <2>3, HandlerEnds
<1>7. SameIdentity(l, l) /\ SameIdentity(l, [l EXCEPT !.registered = TRUE, !.sentPass = TRUE])
  BY DEF SameIdentity, LinkRec
<1>8. CASE PassSid(l, k)
  <2>1. \/ Handle(Fatal, l)
        \/ /\ l.type = "NONE"
           /\ Handle(<< >>, [l EXCEPT !.type = "SERVER", !.priv = "live",
                                      !.late = (conn.st # "ACTIVE")])
    BY <1>8 DEF PassSid
  <2>2. l.type = "NONE" =>
          Born(l, [l EXCEPT !.type = "SERVER", !.priv = "live",
                            !.late = (conn.st # "ACTIVE")], conn)
    <3>1. PICK b : b = (conn.st # "ACTIVE")
      OBVIOUS
    <3>2. l.type = "NONE" => Born(l, [l EXCEPT !.type = "SERVER", !.priv = "live",
                                               !.late = b], conn)
      BY <3>1 DEF Born, LinkRec
    <3>. QED BY <3>1, <3>2, Zenon
  <2>. QED BY <1>4, <1>5, <2>1, <2>2
<1>9. CASE ServerLine(l, k)
  <2>1. \/ \E prog \in {<<"sendu">>, <<"send", "sendu">>} :
             Handle(prog, [l EXCEPT !.registered = TRUE, !.sentPass = TRUE])
        \/ Handle(Fatal, l) \/ Handle(<< >>, l) \/ (Handle(Squit, l) /\ l.type = "SERVER")
    BY <1>9 DEF ServerLine
  <2>2. Numbers(Squit, 1, 0, 1, 0, 1)
    BY ProgramNumbers
  <2>3. ASSUME Handle(Squit, l), l.type = "SERVER" PROVE Kept'
    <3>1. PICK w : w = 0
      OBVIOUS
    <3>2. w \in {0, 1} /\ (w = 1 <=> l.type = "USER") /\ Numbers(Squit, 1, 0, 1, w, 1)
      BY <2>2, <2>3, <3>1
    <3>. QED BY <1>6, <2>3, <3>2
  <2>. QED BY <1>4, <1>5, <1>7, <2>1, <2>3
<1>10. CASE UserLine(l, k)
  <2>1. \/ Handle(Quit, l) /\ l.type = "USER"
        \/ Handle(<<"sendu", "exec", "sendu">>, l)
    BY <1>10 DEF UserLine
  <2>2. Numbers(Quit, 1, 0, 1, 1, 1)
    BY ProgramNumbers
  <2>3. ASSUME Handle(Quit, l), l.type = "USER" PROVE Kept'
    <3>1. PICK w : w = 1
      OBVIOUS
    <3>2. w \in {0, 1} /\ (w = 1 <=> l.type = "USER") /\ Numbers(Quit, 1, 0, 1, w, 1)
      BY <2>2, <2>3, <3>1
    <3>. QED BY <1>6, <2>3, <3>2
  <2>. QED BY <1>4, <1>7, <2>1, <2>3
<1>11. CASE Reply(l, k)
  <2>1. Handle(<<"send">>, l) \/ Handle(<<"sendu">>, l) \/ Handle(<< >>, l)
    BY <1>3, <1>11 DEF Reply
  <2>. QED BY <1>4, <1>7, <2>1
<1>. QED BY <1>8, <1>9, <1>10, <1>11

(* One turn of the loop. *)
LEMMA LineKeeps ==
  ASSUME Fine, Line, ~ub' PROVE Kept'
<1>1. IInv /\ ~Undefined /\ link \in LinkRec
  BY FineFacts DEF Fine, Sound, Undefined
<1>2. PICK i, l, k :
        /\ \/ TryRegister(l, k) \/ PassSid(l, k) \/ ServerLine(l, k)
           \/ UserLine(l, k) \/ Reply(l, k)
        /\ l = [link EXCEPT !.pos = @ + i, !.ran = @ + 1] /\ l \in LinkRec
        /\ SameBuffer(l, link')
  BY <1>1, LineTaken
<1>3. SameIdentity(link, l)
  BY <1>1, <1>2 DEF SameIdentity, LinkRec
<1>4. link' \in LinkRec
  BY <1>2 DEF SameBuffer
<1>. QED BY <1>2, <1>3, <1>4, RegisterKeeps, OtherKeeps

-----------------------------------------------------------------------------
(* An upgrade.                                                             *)

(* The connection and the link are gone, or new. *)
LEMMA NoneKeeps ==
  ASSUME link'.type = "NONE", link'.priv = "none", link'.limit = 0, ~link'.sentQuit,
         link'.told = [users |-> 0, servers |-> 0], ConnFits',
         Numbers(todo', 0, 0, 0, 0, 0), Loop(todo')
  PROVE  Kept'
<1>1. FitIdentity(0, 0, 0, 0, 0, conn', cont', link')
  BY NewFit
<1>. QED BY <1>1, Weighed

LEMMA RestartKeeps ==
  ASSUME Fine, Restart, ~ub', cont = "idle", FitIdentity(0, 0, 0, 0, 0, conn, "idle", link)
  PROVE  Kept'
<1>1. /\ cont' = "idle" /\ conn \in C!ConnRec /\ link \in LinkRec
      /\ <<"dispatch">> \in Seq(Ops) /\ Looking \in Seq(Ops)
  BY FineFacts DEF Restart, Undefined, Looking, Ops
<1>2. CASE link.priv = "live"
  <2>1. /\ conn' = C!Restored(conn) /\ link' = [link EXCEPT !.ibuf = Pending, !.pos = 0]
        /\ todo' \in {<<"dispatch">>, Looking \o <<"dispatch">>}
    BY <1>2 DEF Restart, Undefined
  <2>2. conn.st \notin {"none", "CONNECTING"}
    BY <1>2, SoundTypes DEF Fine
  <2>3. SameIdentity(link, link')
    BY <1>1, <2>1 DEF SameIdentity, LinkRec
  <2>4. /\ conn'.st = conn.st \/ {conn.st, conn'.st} \subseteq {"SHUTTING_DOWN", "AWAIT_CLEANUP"}
        /\ conn'.st = "ACTIVE" => conn'.listed = 0
        /\ conn'.send # "connect_end"
    BY <1>1, <2>1, RestoredEnds
  <2>5. FitIdentity(0, 0, 0, 0, 0, conn', cont', link')
    <3>1. /\ OverBy(0, conn', cont') <=> OverBy(0, conn, "idle")
          /\ conn'.st = "CONNECTING" => conn.st = "CONNECTING"
      BY <1>1, <2>4 DEF OverBy
    <3>. QED BY <2>3, <3>1, QuietFit
  <2>6. Loop(todo')
    BY <2>1, LoopPrograms
  <2>7. Numbers(todo', 0, 0, 0, 0, 0)
    <3>1. Numbers(<<"dispatch">>, 0, 0, 0, 0, 0) /\ Numbers(Looking, 0, 0, 0, 0, 0)
      BY ProgramNumbers
    <3>2. PICK z : z = 0
      OBVIOUS
    <3>3. Numbers(<<"dispatch">>, z, z, z, z, z) /\ Numbers(Looking, z, z, z, z, z)
      BY <3>1, <3>2
    <3>4. Numbers(Looking \o <<"dispatch">>, z + z, z + z, z + z, z + z, z + z)
      BY ONLY <1>1, <3>3, CatNumbers
    <3>5. z + z = 0
      BY <3>2
    <3>. QED BY <2>1, <3>1, <3>4, <3>5
  <2>8. ConnFits'
    BY <1>1, <2>2, <2>4 DEF ConnFits
  <2>. QED BY <2>5, <2>6, <2>7, <2>8, Weighed
<1>3. CASE link.priv # "live"
  <2>1. conn' = C!Free /\ link' = NewLink /\ todo' = << >>
    BY <1>3 DEF Restart, Undefined
  <2>2. ConnFits'
    BY <2>1, ClosedConn DEF C!Free
  <2>. QED BY <2>1, <2>2, LoopPrograms, ProgramNumbers, NoneKeeps DEF NewLink
<1>. QED BY <1>2, <1>3

(* UPGRADE finds nothing else to do. *)
LEMMA ExecFinds ==
  ASSUME Fine, Exec
  PROVE  cont = "idle" /\ todo # << >> /\ Head(todo) = "exec"
         /\ FitIdentity(0, 0, 0, 0, 0, conn, "idle", link)
<1>1. cont = "idle" /\ todo # << >> /\ Head(todo) = "exec"
  BY ExecIdle DEF Fine, Exec, Top
<1>2. todo = <<"exec", "sendu", "dispatch">>
  BY <1>1, FineFacts, LoopHead
<1>3. Numbers(todo, 0, 0, 0, 0, 0)
  <2>1. ASSUME NEW x \in {"shut", "drop", "exq", "destroy", "tell_users", "tell_servers"}
        PROVE  Counts(todo)[x] = 0 /\ x \in Ops
    <3>1. x \in Ops /\ "exec" \in Ops /\ "sendu" \in Ops /\ "dispatch" \in Ops
      BY DEF Ops
    <3>2. Occ(x, <<"exec", "sendu", "dispatch">>)
            = W("exec", x) + W("sendu", x) + W("dispatch", x)
      BY <3>1, OccThree
    <3>3. W("exec", x) = 0 /\ W("sendu", x) = 0 /\ W("dispatch", x) = 0
      BY DEF W
    <3>. QED BY <1>2, <3>1, <3>2, <3>3 DEF Counts
  <2>. QED BY <2>1 DEF Numbers
<1>. QED BY <1>1, <1>3, FitNow DEF Fine

(* The process is replaced, or it is not. *)
LEMMA ExecKeeps ==
  ASSUME Fine, Exec, ~ub' PROVE Kept'
<1>1. cont = "idle" /\ todo # << >> /\ Head(todo) = "exec"
      /\ FitIdentity(0, 0, 0, 0, 0, conn, "idle", link)
  BY ExecFinds
<1>2. CASE Restart
  BY <1>1, <1>2, RestartKeeps
<1>3. CASE ~Restart
  <2>1. Call(<< >>) /\ UNCHANGED <<conn, cont, link>>
    BY <1>3 DEF Exec
  <2>2. Alike(conn, conn') /\ SameIdentity(link, link')
    BY <2>1, SameAlike
  <2>3. << >> \in Seq(Ops) /\ Light(<< >>) /\ Numbers(<< >>, 0, 0, 0, 0, 0)
    BY LightPrograms, ProgramNumbers
  <2>. QED BY <1>1, <2>1, <2>2, <2>3, QuietCall, AlikeConn, FineFacts DEF Kept
<1>. QED BY <1>2, <1>3

-----------------------------------------------------------------------------
(* Events.                                                                 *)
LEMMA IdleFinds ==
  ASSUME Fine, todo = << >>
  PROVE  /\ FitIdentity(0, 0, 0, 0, 0, conn, cont, link) /\ ConnFits
         /\ conn \in C!ConnRec /\ link \in LinkRec
<1>1. Numbers(todo, 0, 0, 0, 0, 0)
  BY ProgramNumbers
<1>. QED BY <1>1, FineFacts, FitNow DEF Fine

(* Programs of no weight, on a connection that is as much over as before.  *)
LEMMA QuietEvent ==
  ASSUME Fine, todo = << >>, Numbers(todo', 0, 0, 0, 0, 0), Loop(todo'),
         SameIdentity(link, link'), ConnFits',
         OverBy(0, conn', cont') <=> OverBy(0, conn, cont),
         conn'.st = "CONNECTING" => conn.st = "CONNECTING"
  PROVE  Kept'
<1>1. FitIdentity(0, 0, 0, 0, 0, conn', cont', link')
  BY IdleFinds, QuietFit
<1>. QED BY <1>1, Weighed

LEMMA AlikeEvent ==
  ASSUME Fine, todo = << >>, Numbers(todo', 0, 0, 0, 0, 0), Loop(todo'),
         SameIdentity(link, link'), Alike(conn, conn'), cont' = cont
  PROVE  Kept'
<1>1. ConnFits'
  BY IdleFinds, AlikeConn
<1>2. /\ OverBy(0, conn', cont') <=> OverBy(0, conn, cont)
      /\ conn'.st = "CONNECTING" => conn.st = "CONNECTING"
  BY DEF OverBy, Alike
<1>. QED BY <1>1, <1>2, QuietEvent

(* conn.c goes on. *)
LEMMA ReturnKeeps ==
  ASSUME Fine, Return PROVE Kept'
<1>1. /\ todo = << >> /\ todo' = todo /\ cont \in C!Conts /\ cont' = "idle" /\ link' = link
      /\ conn' = C!Finished(cont, conn) /\ ConnFits /\ conn \in C!ConnRec
  BY IdleFinds, FineFacts DEF Return
<1>2. /\ conn'.st = "CONNECTING" => conn.st = "CONNECTING"
      /\ cont = "connect_ok" =>
           Alike(conn, conn') /\ (conn'.send = "connect_end" => conn.st # "ACTIVE")
      /\ cont # "connect_ok" =>
           /\ conn'.st \in {"SHUTTING_DOWN", "AWAIT_CLEANUP"}
           /\ conn'.send = "connect_end" => conn.st = "AWAIT_CLEANUP" /\ conn.send = conn'.send
  BY <1>1, FinishedEnds
<1>3. ConnFits'
  <2>1. CASE cont = "connect_ok"
    BY <1>1, <1>2, <2>1 DEF ConnFits, Alike
  <2>2. CASE cont # "connect_ok"
    <3>1. conn'.send # "connect_end"
      BY <1>1, <1>2, <2>2 DEF ConnFits
    <3>. QED BY <1>2, <2>2, <3>1, ClosedConn
  <2>. QED BY <2>1, <2>2
<1>4. OverBy(0, conn', cont') <=> OverBy(0, conn, cont)
  <2>1. CASE cont = "connect_ok"
    BY <1>1, <1>2, <2>1 DEF OverBy, Alike
  <2>2. CASE cont = "connect_error"
    BY <1>1, <1>2, <2>2 DEF OverBy, ConnFits
  <2>3. CASE cont \in {"end_of_stream", "fatal_error"}
    BY <1>1, <1>2, <2>3 DEF OverBy
  <2>. QED BY <1>1, <2>1, <2>2, <2>3 DEF C!Conts
<1>5. Numbers(todo', 0, 0, 0, 0, 0) /\ Loop(todo') /\ SameIdentity(link, link')
  BY <1>1, ProgramNumbers, LoopPrograms, SameAlike
<1>. QED BY <1>1, <1>2, <1>3, <1>4, <1>5, QuietEvent

(* A connection is made. *)
LEMMA MakesKeep ==
  ASSUME Accept \/ Connect PROVE Kept'
<1>1. /\ link'.type = "NONE" /\ link'.priv = "none" /\ link'.limit = 0 /\ ~link'.sentQuit
      /\ link'.told = [users |-> 0, servers |-> 0] /\ todo' = Looking
  BY DEF Accept, Connect, Event, NewLink
<1>2. ConnFits'
  <2>1. CASE Accept
    BY <2>1 DEF Accept, Event, C!Accepted, C!Free, ConnFits
  <2>2. CASE Connect
    BY <2>2 DEF Connect, Event, C!Connected, C!Free, ConnFits
  <2>. QED BY <2>1, <2>2
<1>3. Numbers(Looking, 0, 0, 0, 0, 0) /\ Loop(Looking)
  BY ProgramNumbers DEF Loop, Looking
<1>. QED BY <1>1, <1>2, <1>3, NoneKeeps

(* A connect ends: nobody is behind it yet. *)
LEMMA ConnectEndKeeps ==
  ASSUME Fine, ConnectEnd PROVE Kept'
<1>1. /\ todo = << >> /\ conn.send = "connect_end" /\ cont = "idle" /\ ConnFits
      /\ FitIdentity(0, 0, 0, 0, 0, conn, cont, link) /\ conn \in C!ConnRec /\ link \in LinkRec
      /\ link' = [link EXCEPT !.sentPass = TRUE] /\ todo' \in {<< >>, <<"send">>}
      /\ \/ conn' = [conn EXCEPT !.st = "ACTIVE"] /\ cont' = "connect_ok"
         \/ conn' = C!Broken(conn) /\ cont' = "connect_error"
  BY IdleFinds DEF ConnectEnd, Event, Idle
<1>2. conn.st = "CONNECTING" /\ conn.listed = 0
  BY <1>1 DEF ConnFits
<1>3. FitIdentity(0, 0, 0, 0, 0, conn', cont', link')
  <2>1. SameIdentity(link, link')
    BY <1>1 DEF SameIdentity, LinkRec
  <2>. QED BY <1>1, <1>2, <2>1 DEF FitIdentity, SameIdentity, EndsBy, LeavingBy
<1>4. ConnFits'
  <2>1. CASE conn' = [conn EXCEPT !.st = "ACTIVE"] /\ cont' = "connect_ok"
    BY <1>1, <1>2, <2>1 DEF ConnFits, C!ConnRec
  <2>2. CASE conn' = C!Broken(conn) /\ cont' = "connect_error"
    <3>1. conn'.st = "CONNECTING" /\ Alike(conn, conn')
      BY <1>1, <1>2, <2>2, BrokenEnds
    <3>. QED BY <1>2, <2>2, <3>1 DEF ConnFits, Alike
  <2>. QED BY <1>1, <2>1, <2>2
<1>5. Numbers(todo', 0, 0, 0, 0, 0) /\ Loop(todo')
  BY <1>1, ProgramNumbers, LoopPrograms, LightPrograms
<1>. QED BY <1>3, <1>4, <1>5, Weighed

(* What is read. *)
LEMMA RecvKeeps ==
  ASSUME Fine, (\E s \in Reads : RecvData(s)) \/ ExcessFlood PROVE Kept'
<1>1. /\ todo = << >> /\ conn.st = "ACTIVE" /\ cont = "idle" /\ cont' = "idle" /\ conn' = conn
      /\ link \in LinkRec
  BY IdleFinds DEF RecvData, ExcessFlood, Readable, Event, Idle
<1>2. CASE \E s \in Reads : RecvData(s)
  <2>1. PICK s \in Reads : RecvData(s)
    BY <1>2
  <2>2. /\ todo' = <<"dispatch">> /\ SameIdentity(link, link')
    <3>1. PICK b, n : link' = [link EXCEPT !.ibuf = b, !.got = n]
      BY <2>1 DEF RecvData
    <3>. QED BY <1>1, <2>1, <3>1 DEF RecvData, Event, SameIdentity, LinkRec
  <2>. QED BY <1>1, <2>2, ProgramNumbers, LoopPrograms, SameAlike, AlikeEvent
<1>3. CASE ExcessFlood
  <2>1. todo' = Fatal /\ link' = link
    BY <1>3 DEF ExcessFlood, Event
  <2>2. FitIdentity(1, 1, 0, 0, 0, conn', cont', link')
    BY <1>1, <2>1, IdleFinds, FatalFit
  <2>3. Numbers(todo', 1, 1, 0, 0, 0) /\ Loop(todo')
    BY <2>1, ProgramNumbers, LoopPrograms, LightPrograms
  <2>4. ConnFits'
    BY <1>1, IdleFinds, SameAlike, AlikeConn
  <2>. QED BY <2>2, <2>3, <2>4, Weighed
<1>. QED BY <1>2, <1>3

(* The stream ends, or the socket of an active connection fails. *)
LEMMA FaultKeeps ==
  ASSUME Fine, RecvEof \/ RecvError \/ (SendError /\ conn.st = "ACTIVE") PROVE Kept'
<1>1. /\ todo = << >> /\ conn.st = "ACTIVE" /\ cont = "idle" /\ todo' = <<"exq">>
      /\ cont' \in {"end_of_stream", "fatal_error"} /\ conn' \in {conn, C!Broken(conn)}
      /\ link' = link /\ link \in LinkRec /\ conn \in C!ConnRec /\ ConnFits
  BY IdleFinds DEF RecvEof, RecvError, SendError, Readable, Event, Idle
<1>2. Alike(conn, conn') /\ conn'.st = "ACTIVE"
  BY <1>1, BrokenEnds
<1>3. ConnFits'
  BY <1>1, <1>2 DEF ConnFits, Alike
<1>4. FitIdentity(0, 1, 0, 0, 0, conn', cont', link')
  <2>1. PICK z : z = 0
    OBVIOUS
  <2>2. z \in Nat /\ FitIdentity(z, z, z, z, z, conn, cont, link) /\ OverBy(z, conn', cont')
    BY <1>1, <2>1, IdleFinds DEF OverBy
  <2>3. FitIdentity(z, 1 + z, z, z, z, conn', cont', link)
    BY <1>1, <1>2, <2>2, ExqFit
  <2>4. 1 + z = 1
    BY <2>1
  <2>. QED BY <1>1, <2>1, <2>3, <2>4
<1>5. Numbers(todo', 0, 1, 0, 0, 0) /\ Loop(todo')
  BY <1>1, ProgramNumbers, LoopPrograms, LightPrograms
<1>. QED BY <1>3, <1>4, <1>5, Weighed

(* The socket takes data, or a closing connection fails; a host name. *)
LEMMA SendKeeps ==
  ASSUME Fine, (\E n \in 1..conn.size : SendReady(n)) \/ RdnsCallback
               \/ (SendError /\ conn.st # "ACTIVE")
  PROVE  Kept'
<1>1. /\ todo = << >> /\ cont = "idle" /\ cont' = "idle" /\ link' = link
      /\ link \in LinkRec /\ conn \in C!ConnRec
  BY IdleFinds DEF SendReady, RdnsCallback, SendError, Event, Idle
<1>2. CASE \E n \in 1..conn.size : SendReady(n)
  <2>1. PICK n \in 1..conn.size : SendReady(n)
    BY <1>2
  <2>2. conn' = C!Wrote(conn, n) /\ todo' = << >>
    BY <2>1 DEF SendReady, Event
  <2>3. Alike(conn, conn')
    BY <1>1, <2>2, WroteEnds
  <2>. QED BY <1>1, <2>2, <2>3, ProgramNumbers, LoopPrograms, SameAlike, AlikeEvent
<1>3. CASE RdnsCallback
  <2>1. conn' = [conn EXCEPT !.rdns = FALSE] /\ todo' = Looked
    BY <1>3 DEF RdnsCallback, Event
  <2>2. Alike(conn, conn')
    BY <1>1, <2>1, BrokenEnds
  <2>. QED BY <1>1, <2>1, <2>2, ProgramNumbers, LoopPrograms, SameAlike, AlikeEvent
<1>4. CASE SendError /\ conn.st # "ACTIVE"
  <2>1. conn' = C!Marked(C!Broken(conn)) /\ todo' = << >> /\ conn.send = "send_ready"
    BY <1>4 DEF SendError, Event
  <2>2. C!Broken(conn) \in C!ConnRec /\ C!Broken(conn).send = conn.send
    BY <1>1, BrokenEnds DEF C!Broken, C!ConnRec
  <2>3. conn'.st = "AWAIT_CLEANUP" /\ conn'.send # "connect_end"
    BY <2>1, <2>2, MarkedEnds
  <2>4. ConnFits'
    BY <2>3, ClosedConn
  <2>5. OverBy(0, conn', cont') <=> OverBy(0, conn, cont)
    BY <1>4, <2>3 DEF OverBy
  <2>. QED
    BY <1>1, <2>1, <2>3, <2>4, <2>5, ProgramNumbers, LoopPrograms, SameAlike, QuietEvent
<1>. QED BY <1>2, <1>3, <1>4

(* The rest of the network. *)
LEMMA OthersKeep ==
  ASSUME Fine, Others PROVE Kept'
<1>1. /\ todo = << >> /\ cont = "idle" /\ cont' = cont /\ conn' = conn /\ link.priv = "live"
      /\ link \in LinkRec /\ conn.st # "CONNECTING"
  BY IdleFinds, SoundTypes DEF Others, Idle, Fine
<1>2. /\ FitIdentity(0, 0, 0, 0, 0, conn, cont, link) /\ ConnFits'
  BY <1>1, IdleFinds, SameAlike, AlikeConn
<1>3. ASSUME todo' \in {<<"send">>, <<"sendu">>}, SameIdentity(link, link') PROVE Kept'
  <2>1. Numbers(<<"send">>, 0, 0, 0, 0, 0) /\ Numbers(<<"sendu">>, 0, 0, 0, 0, 0)
    BY ProgramNumbers
  <2>2. Loop(<<"send">>) /\ Loop(<<"sendu">>)
    BY DEF Loop
  <2>. QED BY <1>1, <1>3, <2>1, <2>2, SameAlike, AlikeEvent
<1>4. ASSUME NEW w \in {0, 1}, Numbers(todo', 1, 0, 1, w, 1), w = 1 <=> link.type = "USER",
             Light(todo'), link' = link
      PROVE  Kept'
  <2>1. FitIdentity(1, 0, 1, w, 1, conn', cont', link')
    BY <1>1, <1>2, <1>4, EndFit
  <2>. QED BY <1>2, <1>4, <2>1, LoopPrograms, Weighed
<1>5. \/ todo' = <<"send">> /\ link' = link
      \/ todo' = <<"sendu">> /\ link' = [link EXCEPT !.has = @ \ {"nick"}]
      \/ todo' = Killed /\ link.type = "USER" /\ link' = link
      \/ todo' = SquitByOther /\ link.type = "SERVER" /\ link' = link
  BY DEF Others
<1>6. CASE todo' = <<"send">> /\ link' = link
  BY <1>3, <1>6, SameAlike
<1>7. CASE todo' = <<"sendu">> /\ link' = [link EXCEPT !.has = @ \ {"nick"}]
  <2>1. SameIdentity(link, link')
    BY <1>1, <1>7 DEF SameIdentity, LinkRec
  <2>. QED BY <1>3, <1>7, <2>1
<1>8. CASE todo' = Killed /\ link.type = "USER" /\ link' = link
  <2>1. PICK w : w = 1
    OBVIOUS
  <2>2. w \in {0, 1} /\ Numbers(todo', 1, 0, 1, w, 1) /\ (w = 1 <=> link.type = "USER")
    BY <1>8, <2>1, ProgramNumbers
  <2>. QED BY <1>4, <1>8, <2>2, LightPrograms
<1>9. CASE todo' = SquitByOther /\ link.type = "SERVER" /\ link' = link
  <2>1. PICK w : w = 0
    OBVIOUS
  <2>2. w \in {0, 1} /\ Numbers(todo', 1, 0, 1, w, 1) /\ (w = 1 <=> link.type = "USER")
    BY <1>9, <2>1, ProgramNumbers
  <2>. QED BY <1>4, <1>9, <2>2, LightPrograms
<1>. QED BY <1>5, <1>6, <1>7, <1>8, <1>9

(* The connection is freed. *)
LEMMA CleanupKeeps ==
  ASSUME Cleanup, ~ub' PROVE Kept'
<1>1. conn' = C!Free /\ link' = NewLink /\ todo' = << >>
  BY DEF Cleanup, Event, Undefined
<1>2. ConnFits'
  BY <1>1, ClosedConn DEF C!Free
<1>. QED BY <1>1, <1>2, LoopPrograms, ProgramNumbers, NoneKeeps DEF NewLink

-----------------------------------------------------------------------------
(* Every step keeps it. *)
LEMMA PartingNext ==
  ASSUME IInv, Parting, [Next]_vars, ~ub' PROVE Kept' /\ CallsFit'
<1>1. CASE UNCHANGED vars
  BY <1>1 DEF vars, Parting, Kept, CallsFit, LoopLast, ConnFits, IdentityFits, Over, Leaving,
     Ends, Left
<1>2. CASE Next /\ ~UNCHANGED vars
  <2>1. Fine
    BY <1>2, NotLost DEF Fine, Sound, Parting
  <2>0. CallsFit'
    BY <2>1, CallsNext DEF Fine, Sound
  <2>2. CASE Run
    BY <2>0, <2>1, <2>2, LineKeeps, FlagKeeps, ExceptionalQuitKeeps, SendLineKeeps, TellKeeps,
       DestroyKeeps, CloseConnKeeps, ExecKeeps DEF Run
  <2>3. CASE Return \/ Cleanup \/ Accept \/ Connect \/ ConnectEnd
    BY <2>0, <2>1, <2>3, ReturnKeeps, CleanupKeeps, MakesKeep, ConnectEndKeeps
  <2>4. CASE (\E s \in Reads : RecvData(s)) \/ ExcessFlood
    BY <2>0, <2>1, <2>4, RecvKeeps
  <2>5. CASE RecvEof \/ RecvError \/ SendError
    BY <2>0, <2>1, <2>5, FaultKeeps, SendKeeps
  <2>6. CASE (\E n \in 1..conn.size : SendReady(n)) \/ RdnsCallback \/ Others
    BY <2>0, <2>1, <2>6, SendKeeps, OthersKeep
  <2>7. CASE Upgrade
    BY <2>0, <2>1, <2>7, IdleFinds, RestartKeeps DEF Upgrade, Idle
  <2>. QED BY <1>2, <2>2, <2>3, <2>4, <2>5, <2>6, <2>7 DEF Next
<1>. QED BY <1>1, <1>2

LEMMA PartingInit == Init => Parting
<1>. SUFFICES ASSUME Init PROVE Kept /\ CallsFit
  BY DEF Parting, Kept
<1>1. conn = C!Free /\ cont = "idle" /\ link = NewLink /\ todo = << >>
  BY DEF Init
<1>2. LoopLast
  BY <1>1, LoopPrograms DEF Loop, LoopLast
<1>3. ConnFits
  BY <1>1 DEF ConnFits, C!Free
<1>4. FitIdentity(0, 0, 0, 0, 0, conn, cont, link)
  BY <1>1, NewFit DEF NewLink
<1>5. IdentityFits
  BY <1>1, <1>4, ProgramNumbers, FitNow
<1>. QED BY <1>2, <1>3, <1>5, CallsInit DEF Kept

(* The calls that are left fit the connection and the identity. *)
LEMMA PartingAlways == Spec => []Parting
<1>1. IInv /\ Parting /\ [Next]_vars => Parting'
  <2>. SUFFICES ASSUME IInv, Parting, [Next]_vars, ~ub' PROVE Kept' /\ CallsFit'
    BY DEF Parting, Kept
  <2>. QED BY PartingNext
<1>. QED BY <1>1, PartingInit, InductiveInvariant, PTL DEF Spec

-----------------------------------------------------------------------------
(* The end of a link.                                                      *)

(* One without a live user or server has said what there was to say.       *)
LEMMA LastWords ==
  ASSUME link \in LinkRec, FitIdentity(0, 0, 0, 0, 0, conn, "idle", link), link.priv # "live"
  PROVE  SaidGoodbye
<1>1. /\ link.type \in {"NONE", "USER", "SERVER"} /\ link.priv \in {"none", "freed"}
      /\ link.told.users \in Nat /\ link.told.servers \in Nat
  BY LinkTypes
<1>2. link.told = [users |-> link.told.users, servers |-> link.told.servers]
  BY DEF LinkRec
<1>3. EndsBy(0, 0, link) <= 1 /\ (LeavingBy(0, link) <=> link.priv = "freed")
  BY DEF EndsBy, LeavingBy
<1>4. /\ link.type = "NONE" <=> link.priv = "none"
      /\ link.told.users = IF link.type = "USER" /\ link.priv = "freed" THEN 1 ELSE 0
      /\ link.told.servers = IF link.priv = "freed" THEN 1 ELSE 0
  BY <1>1, <1>3 DEF FitIdentity
<1>5. CASE link.type = "NONE"
  BY <1>1, <1>2, <1>4, <1>5 DEF SaidGoodbye
<1>6. CASE link.type = "USER"
  BY <1>1, <1>2, <1>4, <1>6 DEF SaidGoodbye
<1>7. CASE link.type = "SERVER"
  BY <1>1, <1>2, <1>4, <1>7 DEF SaidGoodbye
<1>. QED BY <1>1, <1>5, <1>6, <1>7

(* The calls leave the connection there, but for UPGRADE. *)
LEMMA CallsStay ==
  ASSUME Fine, Run, conn.st # "none", conn'.st = "none" PROVE Exec /\ Restart
<1>1. CASE Exec
  BY <1>1 DEF Exec
<1>2. CASE SendLine
  <2>1. conn' = conn \/ conn' = C!Queued(conn)
    BY <1>2 DEF SendLine, Undefined
  <2>2. Alike(conn, C!Queued(conn))
    BY FineFacts, QueuedEnds
  <2>. QED BY <2>1, <2>2 DEF Alike
<1>3. CASE CloseConn
  <2>1. conn' = C!ShutDown(conn) \/ conn' = C!ShutDown(C!Cleared(conn))
    BY <1>3 DEF CloseConn
  <2>2. conn \in C!ConnRec /\ C!Cleared(conn) \in C!ConnRec
    BY FineFacts, ShutDownEnds
  <2>. QED BY <2>1, <2>2, ShutDownEnds
<1>4. CASE Line \/ Compact \/ ExceptionalQuit \/ Tell \/ Destroy \/ Flag
  BY <1>4 DEF Line, Compact, ExceptionalQuit, Tell, Destroy, Flag, Undefined
<1>. QED BY <1>1, <1>2, <1>3, <1>4 DEF Run

(* So do the events, but for cleanup and an upgrade. *)
LEMMA EventsStay ==
  ASSUME Fine, Next, ~Run, conn.st # "none", conn'.st = "none" PROVE Cleanup \/ Upgrade
<1>1. conn \in C!ConnRec
  BY FineFacts
<1>2. CASE Return
  <2>1. conn' = C!Finished(cont, conn) /\ cont \in C!Conts
    BY <1>2, FineFacts DEF Return
  <2>. QED BY <1>1, <2>1, FinishedEnds
<1>3. CASE Accept \/ Connect
  BY <1>3 DEF Accept, Connect
<1>4. CASE ConnectEnd
  <2>1. conn' = [conn EXCEPT !.st = "ACTIVE"] \/ conn' = C!Broken(conn)
    BY <1>4 DEF ConnectEnd, Event
  <2>. QED BY <1>1, <2>1, BrokenEnds DEF C!ConnRec
<1>5. CASE (\E s \in Reads : RecvData(s)) \/ ExcessFlood \/ RecvEof \/ RecvError
  <2>1. conn' = conn \/ conn' = C!Broken(conn)
    BY <1>5 DEF RecvData, ExcessFlood, RecvEof, RecvError, Event
  <2>. QED BY <1>1, <2>1, BrokenEnds
<1>6. CASE \E n \in 1..conn.size : SendReady(n)
  <2>1. PICK n \in 1..conn.size : SendReady(n)
    BY <1>6
  <2>2. conn' = C!Wrote(conn, n)
    BY <2>1 DEF SendReady, Event
  <2>3. Alike(conn, conn')
    BY <1>1, <2>2, WroteEnds
  <2>. QED BY <2>3 DEF Alike
<1>7. CASE SendError
  <2>1. conn' = C!Broken(conn) \/ conn' = C!Marked(C!Broken(conn))
    BY <1>7 DEF SendError, Event
  <2>2. C!Broken(conn) \in C!ConnRec /\ C!Broken(conn).st = conn.st
    BY <1>1, BrokenEnds
  <2>3. C!Marked(C!Broken(conn)).st = "AWAIT_CLEANUP"
    BY <2>2, MarkedEnds
  <2>. QED BY <2>1, <2>2, <2>3
<1>8. CASE RdnsCallback
  <2>1. conn' = [conn EXCEPT !.rdns = FALSE]
    BY <1>8 DEF RdnsCallback, Event
  <2>. QED BY <1>1, <2>1 DEF C!ConnRec
<1>9. CASE Others \/ (ub /\ UNCHANGED vars)
  BY <1>9 DEF Others, vars
<1>. QED BY <1>2, <1>3, <1>4, <1>5, <1>6, <1>7, <1>8, <1>9 DEF Next

(* A link goes when nobody is behind it. *)
LEMMA LastStep ==
  ASSUME IInv, Parting, [Next]_vars, conn.st # "none", conn'.st = "none", ~link.late
  PROVE  SaidGoodbye
<1>1. Next /\ ~UNCHANGED vars
  BY DEF vars
<1>2. Fine /\ ~ub
  BY <1>1, NotLost DEF Fine, Sound, Parting
<1>3. ASSUME Restart, FitIdentity(0, 0, 0, 0, 0, conn, "idle", link) PROVE SaidGoodbye
  <2>1. link.priv # "live"
    <3>1. SUFFICES ASSUME link.priv = "live" PROVE FALSE
      OBVIOUS
    <3>2. conn' = conn \/ conn' = C!Restored(conn)
      BY <1>3, <3>1 DEF Restart, Undefined
    <3>3. conn \in C!ConnRec
      BY <1>2, FineFacts
    <3>. QED BY <3>2, <3>3, RestoredEnds
  <2>. QED BY <1>2, <1>3, <2>1, FineFacts, LastWords
<1>4. CASE Run
  BY <1>2, <1>3, <1>4, CallsStay, ExecFinds
<1>5. CASE Upgrade
  <2>1. Restart /\ todo = << >> /\ cont = "idle"
    BY <1>5 DEF Upgrade, Idle
  <2>2. FitIdentity(0, 0, 0, 0, 0, conn, "idle", link)
    BY <1>2, <2>1, IdleFinds
  <2>. QED BY <1>3, <2>1, <2>2
<1>6. CASE Cleanup
  <2>1. todo = << >> /\ cont = "idle" /\ conn.listed > 0
    BY <1>6 DEF Cleanup, Idle
  <2>2. FitIdentity(0, 0, 0, 0, 0, conn, "idle", link) /\ ConnFits
        /\ conn \in C!ConnRec /\ link \in LinkRec
    BY <1>2, <2>1, IdleFinds
  <2>3. OverBy(0, conn, "idle")
    BY <2>1, <2>2 DEF ConnFits, OverBy
  <2>4. link.priv # "live"
    BY <2>2, <2>3 DEF FitIdentity, EndsBy
  <2>. QED BY <2>2, <2>4, LastWords
<1>. QED BY <1>1, <1>2, <1>4, <1>5, <1>6, EventsStay

(* When a link is freed, its user or server is gone and the network was    *)
(* told exactly once: with any limit of the send queue, whatever overflows *)
(* in the midst of a QUIT, KILL or SQUIT, lines that are dispatched after  *)
(* the close, and upgrades.  Identities made on a connection that was      *)
(* closing are apart (late); a process that has used freed memory frees no *)
(* link any more (ub).                                                     *)
THEOREM FarewellOnce == Spec => Goodbye
<1>1. IInv /\ Parting /\ [Next]_vars
        => [conn.st # "none" /\ conn'.st = "none" /\ ~link.late => SaidGoodbye]_vars
  BY LastStep
<1>. QED BY <1>1, PartingAlways, InductiveInvariant, PTL DEF Spec, Goodbye
=============================================================================
