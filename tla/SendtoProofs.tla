---------------------------- MODULE SendtoProofs ----------------------------
(***************************************************************************)
(* Proofs about Sendto, for every set of users, channels and links, every  *)
(* membership and every bound on calls, full queues and time.              *)
(*                                                                         *)
(* The invariant has four parts, each with a section: the types; the marks *)
(* of the links, which are never ahead of the clock (Steady); the members  *)
(* maps, which count the loops that are open on them (Counted, Tables);    *)
(* and the call on top of the stack, if no call ran inside of it (Alone):  *)
(* which nodes its iterator has queued, and that every link it is meant    *)
(* for is marked or still ahead of it.                                     *)
(***************************************************************************)
EXTENDS Sendto, SequenceTheorems, FiniteSetTheorems, TLAPS

-----------------------------------------------------------------------------
(* Types.                                                                  *)
Opt(S) == S \cup {None}
Node == [next : Opt(Users), prev : Opt(Users)]
Nodes == [Users -> Node]
Cookie == [high : Nat, low : Nat]
CallKinds == {"chan", "visible", "servers"}
Names == Nat \cup {None}
Frame ==
    [kind : CallKinds \cup {"split", "destroy"},
     who : Users \cup Chans \cup Links \cup {None},
     type : {ST_ALL, ST_SERVERS, ST_USERS, None}, exclude : Opt(Links),
     begun : BOOLEAN, id : Names, c : Opt(Chans),
     todo : Seq(Users \cup Chans \cup ServerLinks),
     head : Opt(Users), tail : Opt(Users), wants : SUBSET Links,
     sent : [Links -> Seq(Names)], alone : BOOLEAN, fresh : BOOLEAN]
Map == [keys : SUBSET Users, live : SUBSET Users, depth : Int]

\* What a frame of each kind is about.
Proper(f) ==
    /\ f.kind = "chan" => f.who \in Chans /\ f.todo = << >>
    /\ f.kind \in {"visible", "destroy"} => f.who \in Users
    /\ f.kind = "visible" => f.todo \in Seq(Chans)
    /\ f.kind = "servers" => f.todo \in Seq(ServerLinks) /\ f.c = None
    /\ f.kind \in {"split", "destroy"} => f.c = None
    /\ f.kind = "split" => f.todo \in Seq(Users) /\ f.who \in Links
    /\ ~f.begun => f.c = None /\ \A l \in Links : f.sent[l] = << >>
Frames == {f \in Frame : Proper(f)}

TypeOK ==
    /\ now \in Nat /\ ck \in Cookie /\ mark \in [Links -> Cookie]
    /\ ln \in [user : Names, server : Names]
    /\ members \in [Chans -> Map] /\ tree \in [Chans -> Tree] /\ node \in [Chans -> Nodes]
    /\ stack \in Seq(Frames) /\ alive \subseteq Users \cup ServerLinks \cup Chans
    /\ quit \subseteq Links /\ calls \in Nat /\ last \in Frame \cup {None}
    /\ steady \in BOOLEAN /\ lost \in BOOLEAN

(* The order of a table has every element of it once.                      *)
LEMMA OrderRight ==
  ASSUME NEW s, s \in SUBSET Users \/ s \in SUBSET Chans \/ s \in SUBSET ServerLinks
  PROVE  /\ Order[s] \in Seq(s) /\ ToSet(Order[s]) = s /\ Len(Order[s]) \in Nat
         /\ \A i, j \in 1..Len(Order[s]) : i < j => Order[s][i] # Order[s][j]
<1>0. IsFiniteSet(s)
  BY SendtoAssumption, FS_Subset
<1>1. Cardinality(s) \in Nat /\ ExistsBijection(1..Cardinality(s), s)
  BY <1>0, FS_CardinalityType
<1>2. PICK n \in Nat : n = Cardinality(s)
  BY <1>1
<1>3. \E f \in [1..n -> s] : IsInjective(f)
  BY <1>1, <1>2 DEF ExistsBijection, Bijection, Injection, IsInjective
<1>4. Order[s] = SetToSeq(s)
  <2>1. s \in (SUBSET Users) \cup (SUBSET Chans) \cup (SUBSET ServerLinks)
    BY Zenon
  <2>. QED BY <2>1, Zenon DEF Order
<1>5. PICK f : f = SetToSeq(s)
  OBVIOUS
<1>6. f \in [1..n -> s] /\ IsInjective(f)
  BY <1>2, <1>3, <1>5 DEF SetToSeq
<1>7. f \in Seq(s) /\ Len(f) = n /\ DOMAIN f = 1..n
  BY <1>6
<1>8. f \in Injection(1..n, s)
  BY <1>6 DEF Injection, IsInjective
<1>9. Cardinality(1..n) = n
  BY FS_Interval
<1>10. f \in Surjection(1..n, s)
  BY <1>0, <1>2, <1>8, <1>9, FS_Injection
<1>11. ToSet(f) = s
  BY <1>6, <1>7, <1>10 DEF ToSet, Surjection
<1>12. \A i, j \in 1..n : i < j => f[i] # f[j]
  BY <1>6, <1>7 DEF IsInjective
<1>. QED BY <1>4, <1>5, <1>7, <1>11, <1>12

(* A tree has its keys, level by level, in some order.                     *)
LEMMA TreeRight ==
  ASSUME NEW s \in SUBSET Users, NEW t \in Trees[s]
  PROVE  /\ t \in Tree /\ IsTree(t, s) /\ IsFiniteSet(s) /\ Cardinality(s) \in Nat
<1>1. IsFiniteSet(s)
  BY SendtoAssumption, FS_Subset
<1>2. Cardinality(s) \in Nat
  BY <1>1, FS_CardinalityType
<1>. QED BY <1>1, <1>2, SendtoAssumption

(* Its nodes are users.                                                    *)
LEMMA NodeType ==
  ASSUME NEW t \in Tree, NEW u \in Users
  PROVE  t.root \in Opt(Users) /\ t.left[u] \in Opt(Users) /\ t.right[u] \in Opt(Users)
BY DEF Tree, Opt

(* A set of numbers has a least one.                                       *)
LEMMA Least ==
  ASSUME NEW S \in SUBSET Nat, S # {}
  PROVE  \E i \in S : \A j \in S : i <= j
<1> DEFINE R == {p \in Nat \X Nat : p[1] < p[2]}
<1>1. IsWellFoundedOn(R, Nat)
  BY NatLessThanWellFounded DEF OpToRel
<1>2. PICK x \in S : \A y \in S : ~(<<y, x>> \in R)
  <2> HIDE DEF R
  <2> QED BY <1>1, WFMin
<1>3. \A y \in S : ~(y < x)
  BY <1>2
<1>. QED BY <1>2, <1>3

(* What a loop over a table has left.                                      *)
LEMMA FromRight ==
  ASSUME NEW S, NEW s \in Seq(S), NEW k \in 1..2
  PROVE  /\ From(s, k) \in Seq(S) /\ ToSet(From(s, k)) \subseteq ToSet(s)
         /\ \A i \in k..Len(s) : s[i] \in alive => s[i] \in ToSet(From(s, k))
<1>1. CASE \E i \in k..Len(s) : s[i] \in alive
  <2> DEFINE Live == {i \in k..Len(s) : s[i] \in alive}
             First(i) == i \in k..Len(s) /\ s[i] \in alive /\ \A j \in k..(i - 1) : s[j] \notin alive
  <2>1. \E i \in Live : \A j \in Live : i <= j
    <3>1. Live \in SUBSET Nat /\ Live # {}
      BY <1>1
    <3> HIDE DEF Live
    <3>. QED BY <3>1, Least
  <2>2. PICK i : First(i)
    BY <2>1
  <2>3. PICK m : m = CHOOSE j \in k..Len(s) : s[j] \in alive /\ \A h \in k..(j - 1) : s[h] \notin alive
    OBVIOUS
  <2>4. First(m)
    BY <2>2, <2>3
  <2>5. From(s, k) = SubSeq(s, m, Len(s))
    BY <1>1, <2>3 DEF From
  <2>6. PICK r : r = SubSeq(s, m, Len(s))
    OBVIOUS
  <2>7. r \in Seq(S) /\ Len(r) = Len(s) - m + 1 /\ \A j \in 1..Len(r) : r[j] = s[m + j - 1]
    BY <2>4, <2>6
  <2>8. ToSet(r) = {r[j] : j \in 1..Len(r)} /\ ToSet(s) = {s[j] : j \in 1..Len(s)}
    BY <2>7 DEF ToSet
  <2>9. Len(r) \in Nat /\ Len(s) \in Nat /\ m \in 1..Len(s)
    BY <2>4, <2>7
  <2>10. \A j \in m..Len(s) : s[j] \in ToSet(r)
    <3> TAKE j \in m..Len(s)
    <3>1. j - m + 1 \in 1..Len(r) /\ r[j - m + 1] = s[j]
      BY <2>7, <2>9
    <3>. QED BY <3>1, <2>8
  <2>11. \A j \in 1..Len(r) : m + j - 1 \in 1..Len(s)
    BY <2>7, <2>9
  <2>12. ToSet(r) \subseteq ToSet(s)
    BY <2>7, <2>8, <2>11
  <2>13. \A j \in k..Len(s) : s[j] \in alive => j \in m..Len(s)
    BY <2>4, <2>9
  <2>. QED BY <2>5, <2>6, <2>7, <2>10, <2>12, <2>13
<1>2. CASE ~ \E i \in k..Len(s) : s[i] \in alive
  <2>1. From(s, k) = << >>
    BY <1>2 DEF From
  <2>. QED BY <1>2, <2>1 DEF ToSet
<1>. QED BY <1>1, <1>2

-----------------------------------------------------------------------------
(* Frames.                                                                 *)

\* g is f but for the ends of its queue.
Same(f, g) ==
    /\ g.kind = f.kind /\ g.who = f.who /\ g.type = f.type /\ g.exclude = f.exclude
    /\ g.begun = f.begun /\ g.id = f.id /\ g.c = f.c /\ g.todo = f.todo
    /\ g.wants = f.wants /\ g.sent = f.sent /\ g.alone = f.alone /\ g.fresh = f.fresh
Queues == [f : Frames, node : Nodes]

(* The ends of the queue of a frame are all that a queue changes in it.    *)
LEMMA EndsFrame ==
  ASSUME NEW f \in Frames, NEW h \in Opt(Users), NEW t \in Opt(Users)
  PROVE  LET g == [f EXCEPT !.head = h, !.tail = t]
         IN  g \in Frames /\ Same(f, g) /\ g.head = h /\ g.tail = t
<1> DEFINE g == [f EXCEPT !.head = h, !.tail = t]
<1>1. f \in Frame
  BY DEF Frames
<1>2. g \in Frame
  BY <1>1 DEF Frame
<1>3. Same(f, g) /\ g.head = h /\ g.tail = t
  BY <1>1 DEF Frame, Same
<1>4. Proper(g)
  BY <1>3 DEF Frames, Proper, Same
<1>. QED BY <1>2, <1>3, <1>4 DEF Frames

(* Nodes enter the queue.                                                  *)
LEMMA EnqueueType ==
  ASSUME NEW q \in Queues, NEW u \in Users
  PROVE  Enqueue(q, u) \in Queues /\ Same(q.f, Enqueue(q, u).f)
<1>1. PICK f, n : f = q.f /\ n = q.node
  OBVIOUS
<1>2. f \in Frames /\ n \in Nodes /\ f \in Frame
  BY <1>1 DEF Queues, Frames
<1>3. f.head \in Opt(Users) /\ f.tail \in Opt(Users) /\ u \in Opt(Users) /\ None \in Opt(Users)
  BY <1>2 DEF Frame, Opt
<1>4. CASE f.head = None
  <2>1. [n EXCEPT ![u] = [next |-> None, prev |-> None]] \in Nodes
    BY <1>2, <1>3 DEF Nodes, Node
  <2>2. PICK g : g = [f EXCEPT !.head = u, !.tail = u]
    OBVIOUS
  <2>3. g \in Frames /\ Same(f, g)
    BY <1>2, <1>3, <2>2, EndsFrame
  <2>4. Enqueue(q, u) = [f |-> g, node |-> [n EXCEPT ![u] = [next |-> None, prev |-> None]]]
    BY <1>1, <1>4, <2>2 DEF Enqueue
  <2>. QED BY <1>1, <2>1, <2>3, <2>4 DEF Queues
<1>5. CASE f.head # None
  <2>1. PICK m : m = [n EXCEPT ![u] = [next |-> None, prev |-> f.tail]]
    OBVIOUS
  <2>2. m \in Nodes
    BY <1>2, <1>3, <2>1 DEF Nodes, Node
  <2>3. PICK o : o = [n EXCEPT ![u] = [next |-> None, prev |-> f.tail], ![f.tail].next = u]
    OBVIOUS
  <2>4. o = [m EXCEPT ![f.tail].next = u]
    BY <2>1, <2>3
  <2>5. \A v \in Users : o[v] = IF v = f.tail THEN [m[v] EXCEPT !.next = u] ELSE m[v]
    BY <2>2, <2>4 DEF Nodes
  <2>6. \A v \in Users : m[v] \in Node /\ [m[v] EXCEPT !.next = u] \in Node
    BY <2>2, <1>3 DEF Nodes, Node
  <2>7. o \in Nodes
    BY <2>2, <2>4, <2>5, <2>6 DEF Nodes
  <2>8. PICK g : g = [f EXCEPT !.head = f.head, !.tail = u]
    OBVIOUS
  <2>9. g = [f EXCEPT !.tail = u]
    BY <1>2, <2>8 DEF Frame
  <2>10. g \in Frames /\ Same(f, g)
    BY <1>2, <1>3, <2>8, EndsFrame
  <2>11. Enqueue(q, u) = [f |-> g, node |-> o]
    BY <1>1, <1>5, <2>3, <2>9 DEF Enqueue
  <2>. QED BY <1>1, <2>7, <2>10, <2>11 DEF Queues
<1>. QED BY <1>4, <1>5

(* They leave it.                                                          *)
LEMMA DequeueType ==
  ASSUME NEW q \in Queues, q.f.head # None
  PROVE  Dequeue(q) \in Queues /\ Same(q.f, Dequeue(q).f)
<1>1. PICK f, n : f = q.f /\ n = q.node
  OBVIOUS
<1>2. f \in Frames /\ n \in Nodes /\ f \in Frame
  BY <1>1 DEF Queues, Frames
<1>3. f.head \in Users /\ f.tail \in Opt(Users)
  BY <1>1, <1>2 DEF Frame, Opt
<1>4. PICK nx, pv : nx = n[f.head].next /\ pv = n[f.head].prev
  OBVIOUS
<1>5. nx \in Opt(Users) /\ pv \in Opt(Users)
  BY <1>2, <1>3, <1>4 DEF Nodes, Node
<1>6. PICK h, t : /\ h = (IF pv = None THEN nx ELSE f.head)
                  /\ t = (IF nx = None THEN pv ELSE f.tail)
  OBVIOUS
<1>7. h \in Opt(Users) /\ t \in Opt(Users)
  BY <1>3, <1>5, <1>6 DEF Opt
<1>8. PICK g : g = [f EXCEPT !.head = h, !.tail = t]
  OBVIOUS
<1>9. g \in Frames /\ Same(f, g)
  BY <1>2, <1>7, <1>8, EndsFrame
<1>10. PICK m : m = [v \in Users |-> [next |-> IF v = pv THEN nx ELSE n[v].next,
                                      prev |-> IF v = nx THEN pv ELSE n[v].prev]]
  OBVIOUS
<1>11. m \in Nodes
  BY <1>2, <1>5, <1>10 DEF Nodes, Node
<1>12. Dequeue(q) = [f |-> g, node |-> m]
  BY <1>1, <1>2, <1>4, <1>6, <1>8, <1>10 DEF Dequeue, Frame
<1>. QED BY <1>1, <1>9, <1>11, <1>12 DEF Queues

(* Same is transitive.                                                     *)
LEMMA SameSame ==
  ASSUME NEW f, NEW g, NEW h, Same(f, g), Same(g, h)
  PROVE  Same(f, h)
BY DEF Same

(* A node that may not be there is queued.                                 *)
LEMMA TryQueueType ==
  ASSUME NEW q \in Queues, NEW u \in Opt(Users)
  PROVE  TryQueue(q, u) \in Queues /\ Same(q.f, TryQueue(q, u).f)
<1>1. CASE u = None
  <2>1. TryQueue(q, u) = q
    BY <1>1 DEF TryQueue
  <2>. QED BY <2>1 DEF Same
<1>2. CASE u # None
  <2>1. TryQueue(q, u) = Enqueue(q, u) /\ u \in Users
    BY <1>2 DEF TryQueue, Opt
  <2>. QED BY <2>1, EnqueueType
<1>. QED BY <1>1, <1>2

(* A step of the loop over a members map.                                  *)
LEMMA EachNextType ==
  ASSUME NEW q \in Queues, q.f.head # None, q.f.head \in Users, NEW t \in Tree
  PROVE  EachNext(q, t) \in Queues /\ Same(q.f, EachNext(q, t).f)
<1>1. PICK u \in Users : u = q.f.head
  OBVIOUS
<1>3. t.left[u] \in Opt(Users) /\ t.right[u] \in Opt(Users)
  BY NodeType
<1>4. PICK q1 : q1 = Dequeue(q)
  OBVIOUS
<1>5. PICK q2 : q2 = TryQueue(q1, t.left[u])
  OBVIOUS
<1>6. q1 \in Queues /\ Same(q.f, q1.f)
  BY <1>4, DequeueType
<1>7. q2 \in Queues /\ Same(q1.f, q2.f)
  BY <1>3, <1>5, <1>6, TryQueueType
<1>8. PICK q3 : q3 = TryQueue(q2, t.right[u])
  OBVIOUS
<1>9. q3 \in Queues /\ Same(q2.f, q3.f)
  BY <1>3, <1>7, <1>8, TryQueueType
<1>10. EachNext(q, t) = q3
  BY <1>1, <1>4, <1>5, <1>8 DEF EachNext
<1>. QED BY <1>6, <1>7, <1>9, <1>10, SameSame

-----------------------------------------------------------------------------
(* The stack.                                                              *)

\* A call or another frame that waits to be begun.
Waits(f) == f \in Frames /\ ~f.begun /\ f.c = None /\ f.fresh

\* From the stack s to r: g comes in the place of the top, and below what is
\* to be done before it, which begins with a call.
Goes(s, g, r) ==
    /\ s # << >> /\ r \in Seq(Frames)
    /\ \E n \in Nat :
        /\ Len(r) = n + Len(s) /\ r[n + 1] = g
        /\ \A k \in 1..n : Waits(r[k])
        /\ n # 0 => r[1].kind \in CallKinds
        /\ \A k \in 2..Len(s) : r[n + k] = s[k]

\* A frame as it is made.
New(f) ==
    /\ ~f.begun /\ f.fresh /\ f.c = None /\ f.todo = << >>
    /\ \A l \in Links : f.sent[l] = << >>

(* The fields of a new frame.                                              *)
LEMMA CallFields ==
  ASSUME NEW kind \in CallKinds \cup {"split", "destroy"},
         NEW who \in Users \cup Chans \cup Links \cup {None},
         NEW type \in {ST_ALL, ST_SERVERS, ST_USERS, None}, NEW exclude \in Opt(Links)
  PROVE  LET f == Call(kind, who, type, exclude)
         IN  f \in Frame /\ f.kind = kind /\ f.who = who /\ f.exclude = exclude /\ New(f)
<1>1. [l \in Links |-> << >>] \in [Links -> Seq(Names)]
  OBVIOUS
<1>2. None \in Opt(Chans) /\ None \in Opt(Users) /\ None \in Names
  BY DEF Opt, Names
<1>3. Call(kind, who, type, exclude) \in Frame
  BY <1>1, <1>2 DEF Call, Frame
<1>. QED BY <1>3 DEF Call, New

(* The calls that are made.                                                *)
LEMMA ToChanType ==
  ASSUME NEW c \in Chans, NEW type \in {ST_ALL, ST_USERS}, NEW exclude \in Opt(Links)
  PROVE  Waits(ToChan(c, type, exclude)) /\ ToChan(c, type, exclude).kind = "chan"
<1>1. PICK f : f = Call("chan", c, type, exclude)
  OBVIOUS
<1>2. f \in Frame /\ f.kind = "chan" /\ f.who = c /\ New(f)
  BY <1>1, CallFields DEF CallKinds
<1>3. Proper(f)
  BY <1>2 DEF Proper, New
<1>. QED BY <1>1, <1>2, <1>3 DEF ToChan, Waits, Frames, New

(* The same for what a user sees,                                          *)
LEMMA ToVisibleType ==
  ASSUME NEW u \in Users
  PROVE  Waits(ToVisible(u)) /\ ToVisible(u).kind = "visible" /\ ToVisible(u).who = u
<1>1. PICK f : f = Call("visible", u, ST_USERS, LinkOf[u])
  OBVIOUS
<1>2. LinkOf[u] \in Opt(Links)
  BY SendtoAssumption DEF Opt
<1>3. f \in Frame /\ f.kind = "visible" /\ f.who = u /\ New(f)
  BY <1>1, <1>2, CallFields DEF CallKinds
<1>4. Proper(f)
  BY <1>3 DEF Proper, New
<1>. QED BY <1>1, <1>3, <1>4 DEF ToVisible, Waits, Frames, New

(* for the servers,                                                        *)
LEMMA ToServersType ==
  ASSUME NEW exclude \in Opt(Links)
  PROVE  Waits(ToServers(exclude)) /\ ToServers(exclude).kind = "servers"
<1>1. PICK f : f = Call("servers", None, ST_SERVERS, exclude)
  OBVIOUS
<1>2. f \in Frame /\ f.kind = "servers" /\ New(f)
  <2>1. /\ "servers" \in CallKinds \cup {"split", "destroy"}
        /\ None \in Users \cup Chans \cup Links \cup {None}
        /\ ST_SERVERS \in {ST_ALL, ST_SERVERS, ST_USERS, None}
    BY DEF CallKinds
  <2>. QED BY ONLY exclude \in Opt(Links), <1>1, <2>1, CallFields
<1>3. Proper(f)
  BY <1>2 DEF Proper, New
<1>. QED BY <1>1, <1>2, <1>3 DEF ToServers, Waits, Frames, New

(* and for what is destroyed.                                              *)
LEMMA DoType ==
  ASSUME NEW op, NEW arg, (op = "split" /\ arg \in Links) \/ (op = "destroy" /\ arg \in Users)
  PROVE  Waits(Do(op, arg)) /\ Do(op, arg).kind = op /\ Do(op, arg).who = arg
<1>1. PICK f : f = Call(op, arg, None, None)
  OBVIOUS
<1>2. None \in Opt(Links)
  BY DEF Opt
<1>3. f \in Frame /\ f.kind = op /\ f.who = arg /\ New(f)
  <2>1. op \in CallKinds \cup {"split", "destroy"}
    OBVIOUS
  <2>2. arg \in Users \cup Chans \cup Links \cup {None}
    OBVIOUS
  <2>3. None \in {ST_ALL, ST_SERVERS, ST_USERS, None}
    OBVIOUS
  <2>4. LET g == Call(op, arg, None, None)
        IN  g \in Frame /\ g.kind = op /\ g.who = arg /\ g.exclude = None /\ New(g)
    BY ONLY <1>2, <2>1, <2>2, <2>3, CallFields, Zenon
  <2>. QED BY <1>1, <2>4
<1>4. Proper(f)
  BY <1>3 DEF Proper, New
<1>. QED BY <1>1, <1>3, <1>4 DEF Do, Waits, Frames, New

(* The end of a link is announced before anything is destroyed.            *)
LEMMA ExceptionalQuitType ==
  ASSUME NEW l \in Links, l \in ServerLinks \/ \E u \in Users : LinkOf[u] = l
  PROVE  /\ ExceptionalQuit(l) \in Seq(Frames) /\ Len(ExceptionalQuit(l)) \in Nat \ {0}
         /\ \A k \in 1..Len(ExceptionalQuit(l)) : Waits(ExceptionalQuit(l)[k])
         /\ ExceptionalQuit(l)[1].kind \in CallKinds
<1>1. PICK a : a = ToServers(None)
  OBVIOUS
<1>2. Waits(a) /\ a.kind = "servers"
  BY <1>1, ToServersType DEF Opt
<1>3. CASE l \in ServerLinks
  <2>1. PICK b : b = Do("split", l)
    OBVIOUS
  <2>2. Waits(b)
    BY <2>1, DoType
  <2>3. PICK e : e = << a, b >>
    OBVIOUS
  <2>4. /\ e \in Seq(Frames) /\ Len(e) \in Nat \ {0} /\ e[1].kind \in CallKinds
        /\ \A k \in 1..Len(e) : Waits(e[k])
    BY <1>2, <2>2, <2>3 DEF Waits, CallKinds
  <2>. QED BY <1>1, <1>3, <2>1, <2>3, <2>4 DEF ExceptionalQuit
<1>4. CASE l \notin ServerLinks
  <2>1. PICK u : u = CHOOSE v \in Users : LinkOf[v] = l
    OBVIOUS
  <2>2. u \in Users
    BY <1>4, <2>1
  <2>3. PICK b, c : b = ToVisible(u) /\ c = Do("destroy", u)
    OBVIOUS
  <2>4. Waits(b) /\ b.kind = "visible" /\ Waits(c)
    BY <2>2, <2>3, DoType, ToVisibleType
  <2>5. PICK e : e = << b, a, c >>
    OBVIOUS
  <2>6. /\ e \in Seq(Frames) /\ Len(e) \in Nat \ {0} /\ e[1].kind \in CallKinds
        /\ \A k \in 1..Len(e) : Waits(e[k])
    BY <1>2, <2>4, <2>5 DEF Waits, CallKinds
  <2>. QED BY <1>1, <1>4, <2>1, <2>3, <2>5, <2>6 DEF ExceptionalQuit
<1>. QED BY <1>3, <1>4

(* Frames are put on the stack in the place of the top.                    *)
LEMMA GoesAfter ==
  ASSUME NEW s \in Seq(Frames), s # << >>, NEW g \in Frames, NEW p \in Seq(Frames),
         \A k \in 1..Len(p) : Waits(p[k]), p # << >> => p[1].kind \in CallKinds
  PROVE  Goes(s, g, p \o << g >> \o Tail(s))
<1>1. PICK t : t = Tail(s)
  OBVIOUS
<1>2. /\ t \in Seq(Frames) /\ Len(t) = Len(s) - 1 /\ Len(s) \in Nat \ {0}
      /\ \A k \in 1..Len(t) : t[k] = s[k + 1]
  BY <1>1
<1>3. PICK n \in Nat : n = Len(p)
  OBVIOUS
<1>4. PICK r : r = p \o << g >> \o t
  OBVIOUS
<1>5. PICK q : q = p \o << g >>
  OBVIOUS
<1>6. q \in Seq(Frames) /\ Len(q) = n + 1 /\ q[n + 1] = g /\ \A k \in 1..n : q[k] = p[k]
  BY <1>3, <1>5
<1>7. r = q \o t
  BY <1>4, <1>5
<1>8. r \in Seq(Frames) /\ Len(r) = n + Len(s)
  <2>1. r \in Seq(Frames) /\ Len(r) = Len(q) + Len(t)
    BY ONLY <1>2, <1>6, <1>7, ConcatProperties
  <2>. QED BY ONLY <1>2, <1>6, <2>1, n \in Nat
<1>9. \A k \in 1..(n + 1) : r[k] = q[k]
  BY <1>2, <1>6, <1>7
<1>10. \A k \in 2..Len(s) : r[n + k] = s[k]
  <2> TAKE k \in 2..Len(s)
  <2>1. k - 1 \in 1..Len(t) /\ n + k = (n + 1) + (k - 1) /\ t[k - 1] = s[k]
    BY <1>2
  <2>2. r[(n + 1) + (k - 1)] = t[k - 1]
    <3>1. PICK i : i = k - 1
      OBVIOUS
    <3>2. r[Len(q) + i] = t[i]
      BY ONLY <1>2, <1>6, <1>7, <2>1, <3>1, ConcatProperties
    <3>. QED BY ONLY <1>6, <3>1, <3>2
  <2>. QED BY <2>1, <2>2
<1>11. \A k \in 1..n : r[k] = p[k]
  BY <1>6, <1>9
<1>12. r[n + 1] = g
  BY <1>6, <1>9
<1>13. n # 0 => p # << >> /\ r[1] = p[1]
  BY <1>3, <1>11
<1>. QED BY <1>1, <1>3, <1>4, <1>8, <1>10, <1>11, <1>12, <1>13 DEF Goes

(* Nothing is put on it.                                                   *)
LEMMA GoesOn ==
  ASSUME NEW s \in Seq(Frames), s # << >>, NEW g \in Frames
  PROVE  Goes(s, g, << g >> \o Tail(s))
<1>1. PICK t : t = Tail(s)
  OBVIOUS
<1>2. /\ t \in Seq(Frames) /\ Len(t) = Len(s) - 1 /\ Len(s) \in Nat \ {0}
      /\ \A k \in 1..Len(t) : t[k] = s[k + 1]
  BY <1>1
<1>3. PICK r : r = << g >> \o t
  OBVIOUS
<1>4. r \in Seq(Frames) /\ Len(r) = Len(s) /\ r[1] = g /\ \A k \in 2..Len(s) : r[k] = t[k - 1]
  BY <1>2, <1>3
<1>5. \A k \in 2..Len(s) : r[0 + k] = s[k]
  BY <1>2, <1>4
<1>6. 0 \in Nat /\ r[0 + 1] = g /\ Len(r) = 0 + Len(s)
  BY <1>2, <1>4
<1>7. \A k \in 1..0 : Waits(r[k])
  OBVIOUS
<1>8. PICK z \in Nat : z = 0
  OBVIOUS
<1>9. /\ Len(r) = z + Len(s) /\ r[z + 1] = g /\ \A k \in 1..z : Waits(r[k])
      /\ z = 0 /\ \A k \in 2..Len(s) : r[z + k] = s[k]
  BY ONLY <1>5, <1>6, <1>7, <1>8
<1>10. s # << >> /\ r \in Seq(Frames)
  BY <1>4
<1>11. Goes(s, g, r)
  BY ONLY <1>9, <1>10, z \in Nat DEF Goes
<1>. QED BY <1>1, <1>3, <1>11

-----------------------------------------------------------------------------
(* What the steps do with the frame on top.                                *)

\* g is what has become of f: the same call, which may have gone on.
Kin(f, g) ==
    /\ g.kind = f.kind /\ g.who = f.who /\ g.type = f.type /\ g.exclude = f.exclude
    /\ g.begun = f.begun /\ g.id = f.id /\ g.c = f.c
    /\ g.wants = f.wants /\ g.alone = f.alone /\ g.fresh = f.fresh

(* The fields of a frame.                                                  *)
LEMMA FrameType ==
  ASSUME NEW f \in Frames
  PROVE  /\ f \in Frame /\ Proper(f) /\ f.who \in Users \cup Chans \cup Links \cup {None}
         /\ f.exclude \in Opt(Links) /\ f.id \in Names /\ f.c \in Opt(Chans)
         /\ f.head \in Opt(Users) /\ f.tail \in Opt(Users) /\ f.wants \subseteq Links
         /\ f.sent \in [Links -> Seq(Names)]
         /\ f.begun \in BOOLEAN /\ f.alone \in BOOLEAN /\ f.fresh \in BOOLEAN
BY DEF Frames, Frame

(* A call has sent a line.                                                 *)
LEMMA SentFrame ==
  ASSUME NEW f \in Frames, f.begun, NEW l \in Links, NEW x \in Names
  PROVE  LET g == [f EXCEPT !.sent[l] = Append(@, x)]
         IN  /\ g \in Frames /\ Kin(f, g) /\ g.todo = f.todo
             /\ g.head = f.head /\ g.tail = f.tail
             /\ g.sent = [f.sent EXCEPT ![l] = Append(@, x)]
<1> DEFINE g == [f EXCEPT !.sent[l] = Append(@, x)]
<1>1. f \in Frame /\ f.sent \in [Links -> Seq(Names)]
  BY FrameType
<1>2. PICK e : e = [f.sent EXCEPT ![l] = Append(@, x)]
  OBVIOUS
<1>3. e \in [Links -> Seq(Names)]
  <2>1. Append(f.sent[l], x) \in Seq(Names)
    BY <1>1
  <2>. QED BY <1>1, <1>2, <2>1
<1>4. g = [f EXCEPT !.sent = e]
  BY <1>1, <1>2 DEF Frame
<1>5. g \in Frame
  BY <1>1, <1>3, <1>4 DEF Frame
<1>6. Kin(f, g) /\ g.todo = f.todo /\ g.head = f.head /\ g.tail = f.tail /\ g.sent = e
  BY <1>1, <1>4 DEF Frame, Kin
<1>7. Proper(g)
  BY <1>6, FrameType DEF Proper, Kin
<1>. QED BY <1>2, <1>5, <1>6, <1>7 DEF Frames

(* It has taken the next element of its table.                             *)
LEMMA TodoFrame ==
  ASSUME NEW f \in Frames, NEW s,
         \/ f.kind = "visible" /\ s \in Seq(Chans)
         \/ f.kind = "servers" /\ s \in Seq(ServerLinks)
         \/ f.kind = "split" /\ s \in Seq(Users)
  PROVE  LET g == [f EXCEPT !.todo = s]
         IN  /\ g \in Frames /\ Kin(f, g) /\ g.todo = s /\ g.sent = f.sent
             /\ g.head = f.head /\ g.tail = f.tail
<1> DEFINE g == [f EXCEPT !.todo = s]
<1>1. f \in Frame /\ Proper(f)
  BY FrameType
<1>2. s \in Seq(Users \cup Chans \cup ServerLinks)
  OBVIOUS
<1>3. g \in Frame
  BY <1>1, <1>2 DEF Frame
<1>4. Kin(f, g) /\ g.todo = s /\ g.head = f.head /\ g.tail = f.tail /\ g.sent = f.sent
  BY <1>1 DEF Frame, Kin
<1>5. Proper(g)
  BY <1>1, <1>4 DEF Proper, Kin
<1>. QED BY <1>3, <1>4, <1>5 DEF Frames

(* It begins or ends a loop over the members of a channel.                 *)
LEMMA LoopFrame ==
  ASSUME NEW f \in Frames, f.begun, f.kind \in {"chan", "visible"}, NEW c \in Opt(Chans)
  PROVE  LET g == [f EXCEPT !.c = c]
         IN  /\ g \in Frames /\ g.kind = f.kind /\ g.who = f.who /\ g.type = f.type
             /\ g.exclude = f.exclude /\ g.begun = f.begun /\ g.id = f.id /\ g.c = c
             /\ g.wants = f.wants /\ g.alone = f.alone /\ g.fresh = f.fresh
             /\ g.todo = f.todo /\ g.sent = f.sent
<1> DEFINE g == [f EXCEPT !.c = c]
<1>1. f \in Frame /\ Proper(f)
  BY FrameType
<1>2. g \in Frame
  BY <1>1 DEF Frame
<1>3. /\ g.kind = f.kind /\ g.who = f.who /\ g.type = f.type
      /\ g.exclude = f.exclude /\ g.begun = f.begun /\ g.id = f.id /\ g.c = c
      /\ g.wants = f.wants /\ g.alone = f.alone /\ g.fresh = f.fresh
      /\ g.todo = f.todo /\ g.sent = f.sent
  BY <1>1 DEF Frame
<1>4. Proper(g)
  BY <1>1, <1>3 DEF Proper
<1>. QED BY <1>2, <1>3, <1>4 DEF Frames

(* A call is written down when it returns.                                 *)
LEMMA ReturnedFrame ==
  ASSUME NEW f \in Frames
  PROVE  /\ Returned(f) \in Frame /\ Returned(f).wants = f.wants \ quit
         /\ Returned(f).alone = f.alone /\ Returned(f).fresh = f.fresh
         /\ Returned(f).sent = f.sent /\ Returned(f).id = f.id
<1>1. f \in Frame /\ f.wants \ quit \subseteq Links
  BY FrameType
<1>2. Returned(f) \in Frame
  BY <1>1 DEF Frame, Returned
<1>. QED BY <1>1, <1>2 DEF Frame, Returned

(* The top of the stack and what is below it.                              *)
LEMMA TopType ==
  ASSUME TypeOK, stack # << >>
  PROVE  /\ Top \in Frames /\ Tail(stack) \in Seq(Frames) /\ Len(stack) \in Nat \ {0}
         /\ Len(Tail(stack)) = Len(stack) - 1
         /\ \A k \in 1..(Len(stack) - 1) : Tail(stack)[k] = stack[k + 1]
<1>1. stack \in Seq(Frames)
  BY DEF TypeOK
<1>. QED BY <1>1 DEF Top

(* u_sendto queues a line, passes over a link that ends, or ends it.       *)
LEMMA DeliverDoes ==
  ASSUME TypeOK, stack # << >>, NEW f \in Frames, f.begun, NEW l \in Links,
         l \in ServerLinks \/ \E u \in Users : LinkOf[u] = l, Deliver(f, l)
  PROVE  /\ ln' \in [user : Names, server : Names] /\ mark' \in [Links -> Cookie]
         /\ quit' \subseteq Links
         /\ \E g \in Frames : Kin(f, g) /\ Goes(stack, g, stack')
<1>1. /\ stack \in Seq(Frames) /\ ln \in [user : Names, server : Names] /\ quit \subseteq Links
      /\ mark \in [Links -> Cookie] /\ ck \in Cookie
  BY DEF TypeOK
<1>2. PICK key : key = TypeOf(l)
  OBVIOUS
<1>3. key \in {"user", "server"}
  BY <1>2 DEF TypeOf
<1>4. PICK line : line = (IF ln[key] = None THEN f.id ELSE ln[key])
  OBVIOUS
<1>5. line \in Names
  <2>1. ln[key] \in Names
    BY <1>1, <1>3
  <2>. QED BY <1>4, <2>1, FrameType
<1>6. ln' = [ln EXCEPT ![key] = line] /\ mark' = [mark EXCEPT ![l] = ck]
  BY <1>2, <1>4 DEF Deliver
<1>7. ln' \in [user : Names, server : Names] /\ mark' \in [Links -> Cookie]
  BY <1>1, <1>3, <1>5, <1>6
<1>8. Kin(f, f)
  BY DEF Kin
<1>9. CASE quit' = quit /\ stack' = << [f EXCEPT !.sent[l] = Append(@, line)] >> \o Tail(stack)
  <2>1. PICK g : g = [f EXCEPT !.sent[l] = Append(@, line)]
    OBVIOUS
  <2>2. g \in Frames /\ Kin(f, g)
    BY <1>5, <2>1, SentFrame
  <2>3. Goes(stack, g, << g >> \o Tail(stack))
    BY <1>1, <2>2, GoesOn
  <2>. QED BY <1>1, <1>7, <1>9, <2>1, <2>2, <2>3
<1>10. CASE quit' = quit /\ stack' = << f >> \o Tail(stack)
  <2>1. Goes(stack, f, << f >> \o Tail(stack))
    BY <1>1, GoesOn
  <2>. QED BY <1>1, <1>7, <1>8, <1>10, <2>1
<1>11. CASE quit' = quit \cup {l} /\ stack' = ExceptionalQuit(l) \o << f >> \o Tail(stack)
  <2>1. PICK e : e = ExceptionalQuit(l)
    OBVIOUS
  <2>2. e \in Seq(Frames) /\ (\A k \in 1..Len(e) : Waits(e[k])) /\ e[1].kind \in CallKinds
    BY <2>1, ExceptionalQuitType
  <2>3. Goes(stack, f, e \o << f >> \o Tail(stack))
    BY <1>1, <2>2, GoesAfter
  <2>. QED BY <1>1, <1>7, <1>8, <1>11, <2>1, <2>3
<1>12. \/ quit' = quit /\ stack' = << [f EXCEPT !.sent[l] = Append(@, line)] >> \o Tail(stack)
       \/ quit' = quit /\ stack' = << f >> \o Tail(stack)
       \/ quit' = quit \cup {l} /\ stack' = ExceptionalQuit(l) \o << f >> \o Tail(stack)
  BY <1>2, <1>4 DEF Deliver
<1>. QED BY <1>9, <1>10, <1>11, <1>12

-----------------------------------------------------------------------------
(* The steps keep the types.                                               *)

(* A command makes one call.                                               *)
LEMMA CommandDoes ==
  ASSUME TypeOK, Command
  PROVE  TypeOK' /\ \E g : Waits(g) /\ g.kind \in CallKinds /\ stack' = << g >>
<1>1. \E g : Waits(g) /\ g.kind \in CallKinds /\ stack' = << g >>
  <2>1. CASE \E c \in Chans \cap alive, from \in {None} \cup Links :
                \/ from = None /\ stack' = << ToChan(c, ST_USERS, None) >>
                \/ from # None /\ stack' = << ToChan(c, ST_ALL, from) >>
    <3>1. PICK c \in Chans, from \in {None} \cup Links :
                \/ stack' = << ToChan(c, ST_USERS, None) >>
                \/ stack' = << ToChan(c, ST_ALL, from) >>
      BY <2>1
    <3>2. PICK a, b : a = ToChan(c, ST_USERS, None) /\ b = ToChan(c, ST_ALL, from)
      OBVIOUS
    <3>3. None \in Opt(Links) /\ from \in Opt(Links) /\ ST_ALL \in {ST_ALL, ST_USERS}
          /\ ST_USERS \in {ST_ALL, ST_USERS}
      BY DEF Opt
    <3>4. Waits(a) /\ Waits(b) /\ a.kind = "chan" /\ b.kind = "chan"
      BY ONLY <3>1, <3>2, <3>3, ToChanType
    <3>. QED BY <3>1, <3>2, <3>4 DEF CallKinds
  <2>2. CASE \E u \in Users \cap alive : stack' = << ToVisible(u) >>
    <3>1. PICK u \in Users : stack' = << ToVisible(u) >>
      BY <2>2
    <3>2. PICK a : a = ToVisible(u)
      OBVIOUS
    <3>3. Waits(a) /\ a.kind = "visible"
      BY <3>2, ToVisibleType
    <3>. QED BY <3>1, <3>2, <3>3 DEF CallKinds
  <2>3. CASE \E from \in {None} \cup ServerLinks : stack' = << ToServers(from) >>
    <3>1. PICK from \in {None} \cup ServerLinks : stack' = << ToServers(from) >>
      BY <2>3
    <3>2. PICK a : a = ToServers(from)
      OBVIOUS
    <3>3. Waits(a) /\ a.kind = "servers"
      BY <3>2, ToServersType DEF Opt, Links
    <3>. QED BY <3>1, <3>2, <3>3 DEF CallKinds
  <2>. QED BY <2>1, <2>2, <2>3 DEF Command
<1>2. PICK g : Waits(g) /\ g.kind \in CallKinds /\ stack' = << g >>
  BY <1>1
<1>3. stack' \in Seq(Frames)
  BY <1>2 DEF Waits
<1>. QED BY <1>2, <1>3 DEF TypeOK, Command

\* The frame of a call as it begins.
Begun(f, c) ==
    [f EXCEPT !.begun = TRUE, !.id = calls, !.wants = Wants(f),
              !.fresh = \A l \in Links : Older(mark[l], c),
              !.todo = IF f.kind = "visible" THEN Order[ChansOf(f.who)]
                       ELSE IF f.kind = "servers"
                       THEN Order[ServerLinks \cap alive] ELSE << >>]

(* The links a call is for.                                                *)
LEMMA WantsType ==
  ASSUME TypeOK, NEW f \in Frames, f.kind \in CallKinds
  PROVE  Wants(f) \subseteq Links
<1>1. \A c \in Chans : InMap(members[c]) \subseteq Users
  BY DEF TypeOK, Map, InMap
<1>2. \A c \in ChansOf(f.who) : c \in Chans
  BY DEF ChansOf
<1>3. PICK S : S = (IF f.kind = "chan" THEN InMap(members[f.who])
                    ELSE IF f.kind = "visible"
                    THEN UNION {InMap(members[c]) : c \in ChansOf(f.who)} ELSE {})
  OBVIOUS
<1>4. S \subseteq Users
  <2>1. f.kind = "chan" => f.who \in Chans
    BY DEF Frames, Proper
  <2>. QED BY <1>1, <1>2, <1>3, <2>1
<1>5. {LinkOf[u] : u \in S} \subseteq Links
  BY <1>4, SendtoAssumption
<1>. QED BY <1>3, <1>5 DEF Wants, Links

(* The next cookie is one.                                                 *)
LEMMA IncType ==
  ASSUME TypeOK
  PROVE  CookieInc(ck) \in Cookie
<1>1. PICK h, w, t \in Nat : ck = [high |-> h, low |-> w] /\ now = t
  BY DEF TypeOK, Cookie
<1>2. CookieInc(ck) = IF h = t THEN [high |-> h, low |-> w + 1] ELSE [high |-> t, low |-> 0]
  BY <1>1 DEF CookieInc
<1>. QED BY <1>2 DEF Cookie

(* A call that begins is of the kind it was.                               *)
LEMMA BegunFrame ==
  ASSUME TypeOK, NEW f \in Frames, f.kind \in CallKinds, ~f.begun, NEW c \in Cookie
  PROVE  LET g == Begun(f, c)
         IN  /\ g \in Frames /\ g.kind = f.kind /\ g.who = f.who /\ g.type = f.type
             /\ g.exclude = f.exclude /\ g.begun /\ g.id = calls /\ g.c = None
             /\ g.wants = Wants(f) /\ g.alone = f.alone /\ g.sent = f.sent
             /\ g.fresh = (\A l \in Links : Older(mark[l], c))
             /\ g.todo = (IF f.kind = "visible" THEN Order[ChansOf(f.who)]
                          ELSE IF f.kind = "servers"
                          THEN Order[ServerLinks \cap alive] ELSE << >>)
<1>1. PICK w : w = Wants(f)
  OBVIOUS
<1>2. w \in SUBSET Links
  BY <1>1, WantsType
<1>3. PICK fr \in BOOLEAN : fr = (\A l \in Links : Older(mark[l], c))
  OBVIOUS
<1>4. PICK s : s = (IF f.kind = "visible" THEN Order[ChansOf(f.who)]
                    ELSE IF f.kind = "servers"
                    THEN Order[ServerLinks \cap alive] ELSE << >>)
  OBVIOUS
<1>5. /\ f.kind = "visible" => s \in Seq(Chans)
      /\ f.kind = "servers" => s \in Seq(ServerLinks)
      /\ f.kind = "chan" => s = << >>
  <2>1. ChansOf(f.who) \in SUBSET Chans /\ ServerLinks \cap alive \in SUBSET ServerLinks
    BY DEF ChansOf
  <2>2. /\ Order[ChansOf(f.who)] \in Seq(ChansOf(f.who))
        /\ Order[ServerLinks \cap alive] \in Seq(ServerLinks \cap alive)
    BY <2>1, OrderRight
  <2>. QED BY <1>4, <2>1, <2>2
<1>6. s \in Seq(Users \cup Chans \cup ServerLinks)
  <2>1. CASE f.kind = "visible" BY <1>5, <2>1
  <2>2. CASE f.kind = "servers" BY <1>5, <2>2
  <2>3. CASE f.kind = "chan" BY <1>5, <2>3
  <2>. QED BY <2>1, <2>2, <2>3 DEF CallKinds
<1>7. PICK g : g = [f EXCEPT !.begun = TRUE, !.id = calls, !.wants = w, !.fresh = fr, !.todo = s]
  OBVIOUS
<1>8. f \in Frame /\ Proper(f) /\ f.c = None
  BY DEF Frames, Proper
<1>9. calls \in Names
  BY DEF TypeOK, Names
<1>10. g \in Frame
  BY <1>2, <1>6, <1>7, <1>8, <1>9 DEF Frame
<1>11. /\ g.kind = f.kind /\ g.who = f.who /\ g.type = f.type
       /\ g.exclude = f.exclude /\ g.begun = TRUE /\ g.id = calls /\ g.c = None
       /\ g.wants = w /\ g.alone = f.alone /\ g.sent = f.sent /\ g.fresh = fr /\ g.todo = s
  BY <1>7, <1>8 DEF Frame
<1>12. Proper(g)
  BY <1>5, <1>8, <1>11 DEF Proper, CallKinds
<1>13. g = Begun(f, c)
  BY <1>1, <1>3, <1>4, <1>7, Zenon DEF Begun
<1>. QED BY <1>1, <1>3, <1>4, <1>10, <1>11, <1>12, <1>13 DEF Frames

(* A call that begins runs inside of those below it that have begun.       *)
LEMMA BeginDoes ==
  ASSUME TypeOK, Begin
  PROVE  /\ TypeOK' /\ stack # << >> /\ Len(stack') = Len(stack)
         /\ stack'[1] = Begun(Top, CookieInc(ck))
         /\ \A k \in 2..Len(stack) :
              /\ stack'[k] \in Frames /\ Kin([stack[k] EXCEPT !.alone = ~stack[k].begun], stack'[k])
              /\ stack'[k].c = stack[k].c /\ stack'[k].begun = stack[k].begun
              /\ stack'[k].fresh = stack[k].fresh /\ stack'[k].kind = stack[k].kind
              /\ stack'[k].alone = ~stack[k].begun
<1>1. stack # << >> /\ Top.kind \in CallKinds /\ ~Top.begun
  BY DEF Begin, CallKinds
<1>2. /\ Top \in Frames /\ stack \in Seq(Frames) /\ Len(stack) \in Nat \ {0}
      /\ \A k \in 1..Len(stack) : stack[k] \in Frames
  BY <1>1, TopType DEF TypeOK
<1>3. PICK c : c = CookieInc(ck)
  OBVIOUS
<1>4. c \in Cookie
  BY <1>3, IncType
<1>5. PICK g : g = Begun(Top, c)
  OBVIOUS
<1>6. g \in Frames
  BY <1>1, <1>2, <1>4, <1>5, BegunFrame
<1>7. PICK n \in Nat : n = Len(stack) - 1
  BY <1>2
<1>8. PICK t : t = [i \in 1..n |-> [stack[i + 1] EXCEPT !.alone = ~stack[i + 1].begun]]
  OBVIOUS
<1>9. \A f \in Frames : \A b \in BOOLEAN :
        /\ [f EXCEPT !.alone = b] \in Frames /\ Kin([f EXCEPT !.alone = b], [f EXCEPT !.alone = b])
        /\ [f EXCEPT !.alone = b].c = f.c /\ [f EXCEPT !.alone = b].begun = f.begun
        /\ [f EXCEPT !.alone = b].fresh = f.fresh /\ [f EXCEPT !.alone = b].kind = f.kind
        /\ [f EXCEPT !.alone = b].alone = b
  <2> SUFFICES ASSUME NEW f \in Frames, NEW b \in BOOLEAN
               PROVE  /\ [f EXCEPT !.alone = b] \in Frames
                      /\ Kin([f EXCEPT !.alone = b], [f EXCEPT !.alone = b])
                      /\ [f EXCEPT !.alone = b].c = f.c /\ [f EXCEPT !.alone = b].begun = f.begun
                      /\ [f EXCEPT !.alone = b].fresh = f.fresh
                      /\ [f EXCEPT !.alone = b].kind = f.kind
                      /\ [f EXCEPT !.alone = b].alone = b
    OBVIOUS
  <2>1. PICK h : h = [f EXCEPT !.alone = b]
    OBVIOUS
  <2>2. f \in Frame /\ Proper(f)
    BY DEF Frames
  <2>3. h \in Frame
    BY <2>1, <2>2 DEF Frame
  <2>4. /\ h.kind = f.kind /\ h.who = f.who /\ h.begun = f.begun /\ h.c = f.c
        /\ h.todo = f.todo /\ h.fresh = f.fresh /\ h.alone = b /\ h.sent = f.sent
    BY <2>1, <2>2 DEF Frame
  <2>5. Proper(h)
    BY <2>2, <2>4 DEF Proper
  <2>6. Kin(h, h)
    BY DEF Kin
  <2>. QED BY <2>1, <2>3, <2>4, <2>5, <2>6 DEF Frames
<1>10. \A i \in 1..n : stack[i + 1] \in Frames /\ (~stack[i + 1].begun) \in BOOLEAN
                       /\ t[i] = [stack[i + 1] EXCEPT !.alone = ~stack[i + 1].begun]
  BY <1>2, <1>7, <1>8
<1>11. t \in Seq(Frames) /\ Len(t) = n
  <2>1. \A i \in 1..n : [stack[i + 1] EXCEPT !.alone = ~stack[i + 1].begun] \in Frames
    BY <1>9, <1>10
  <2>2. t \in [1..n -> Frames]
    BY <1>8, <2>1
  <2>. QED BY <2>2
<1>12. stack' = << g >> \o t
  <2>1. g = Begun(stack[1], c) /\ stack' = << Begun(stack[1], c) >> \o t
    BY <1>3, <1>5, <1>7, <1>8, Zenon DEF Begin, Begun, Top
  <2>. QED BY <2>1
<1>13. /\ stack' \in Seq(Frames) /\ Len(stack') = Len(stack) /\ stack'[1] = g
       /\ \A k \in 2..Len(stack) : stack'[k] = t[k - 1]
  BY <1>2, <1>6, <1>7, <1>11, <1>12
<1>14. \A k \in 2..Len(stack) : k - 1 \in 1..n /\ (k - 1) + 1 = k
  BY <1>7
<1>15. \A k \in 2..Len(stack) :
          /\ stack'[k] = [stack[k] EXCEPT !.alone = ~stack[k].begun]
          /\ stack[k] \in Frames /\ (~stack[k].begun) \in BOOLEAN
  BY <1>10, <1>13, <1>14
<1>16. mark' \in [Links -> Cookie] /\ ck' \in Cookie
  <2>1. mark' = mark \/ mark' = [mark EXCEPT ![Top.exclude] = c]
    BY <1>3 DEF Begin
  <2>. QED BY <1>3, <1>4, <2>1 DEF TypeOK, Begin
<1>17. ln' \in [user : Names, server : Names] /\ calls' \in Nat
  <2>1. ln' = [user |-> None, server |-> None] /\ calls' = calls + 1
    BY DEF Begin
  <2>. QED BY <2>1 DEF TypeOK, Names
<1>18. TypeOK'
  BY <1>13, <1>16, <1>17 DEF TypeOK, Begin
<1>19. ASSUME NEW k \in 2..Len(stack)
       PROVE  /\ stack'[k] \in Frames
              /\ Kin([stack[k] EXCEPT !.alone = ~stack[k].begun], stack'[k])
              /\ stack'[k].c = stack[k].c /\ stack'[k].begun = stack[k].begun
              /\ stack'[k].fresh = stack[k].fresh /\ stack'[k].kind = stack[k].kind
              /\ stack'[k].alone = ~stack[k].begun
  <2>1. PICK f \in Frames, b \in BOOLEAN : f = stack[k] /\ b = ~stack[k].begun
    BY <1>15
  <2>2. stack'[k] = [f EXCEPT !.alone = b]
    BY <1>15, <2>1
  <2>3. PICK h : h = [f EXCEPT !.alone = b]
    OBVIOUS
  <2>4. /\ h \in Frames /\ Kin(h, h) /\ h.c = f.c /\ h.begun = f.begun
        /\ h.fresh = f.fresh /\ h.kind = f.kind /\ h.alone = b
    BY ONLY <1>9, <2>3, f \in Frames, b \in BOOLEAN
  <2>5. stack'[k] = h /\ [stack[k] EXCEPT !.alone = ~stack[k].begun] = h
    BY ONLY <2>1, <2>2, <2>3
  <2>. QED BY ONLY <2>1, <2>4, <2>5
<1>. QED BY <1>1, <1>3, <1>5, <1>13, <1>18, <1>19

\* The top goes on, or is done.
Forward == \E g \in Frames : Kin(Top, g) /\ Goes(stack, g, stack')
Back == stack # << >> /\ stack' = Tail(stack)

(* A member of a channel, one after the other.                             *)
LEMMA NextMemberDoes ==
  ASSUME TypeOK, NextMember
  PROVE  TypeOK' /\ Forward
<1>1. stack # << >> /\ Top.c # None /\ Top.head # None
  BY DEF NextMember, Running
<1>. Top.begun
  BY DEF NextMember
<1>2. PICK f : f = Top
  OBVIOUS
<1>3. f \in Frames /\ f.c \in Chans /\ f.head \in Users
  BY <1>1, <1>2, TopType, FrameType DEF Opt
<1>4. PICK q0, t : q0 = [f |-> f, node |-> node[f.c]] /\ t = tree[f.c]
  OBVIOUS
<1>5. q0 \in Queues /\ q0.f = f /\ t \in Tree
  BY <1>3, <1>4 DEF TypeOK, Queues
<1>6. PICK q : q = EachNext(q0, t)
  OBVIOUS
<1>7. q \in Queues /\ Same(f, q.f)
  BY <1>1, <1>2, <1>3, <1>5, <1>6, EachNextType
<1>8. q.f \in Frames /\ Kin(f, q.f) /\ q.node \in Nodes /\ q.f.begun
  BY <1>2, <1>7 DEF Queues, Same, Kin
<1>9. PICK l : l = LinkOf[f.head]
  OBVIOUS
<1>10. l \in Links /\ \E u \in Users : LinkOf[u] = l
  BY <1>3, <1>9, SendtoAssumption
<1>11. /\ node' = [node EXCEPT ![f.c] = q.node]
       /\ IF Skipped(f, l) THEN Pass(q.f) ELSE Deliver(q.f, l)
       /\ UNCHANGED << now, ck, members, tree, alive, calls, last, steady, lost >>
  BY <1>2, <1>4, <1>6, <1>9 DEF NextMember
<1>12. node' \in [Chans -> Nodes]
  BY <1>3, <1>8, <1>11 DEF TypeOK
<1>13. /\ ln' \in [user : Names, server : Names] /\ mark' \in [Links -> Cookie]
       /\ quit' \subseteq Links /\ \E g \in Frames : Kin(q.f, g) /\ Goes(stack, g, stack')
  <2>1. CASE Skipped(f, l)
    <3>1. stack' = << q.f >> \o Tail(stack) /\ ln' = ln /\ mark' = mark /\ quit' = quit
      BY <1>11, <2>1 DEF Pass
    <3>2. Goes(stack, q.f, << q.f >> \o Tail(stack))
      BY <1>1, <1>8, GoesOn DEF TypeOK
    <3>3. Kin(q.f, q.f)
      BY DEF Kin
    <3>. QED BY <1>8, <3>1, <3>2, <3>3 DEF TypeOK
  <2>2. CASE ~Skipped(f, l)
    <3>1. Deliver(q.f, l)
      BY <1>11, <2>2
    <3>. QED BY <1>1, <1>8, <1>10, <3>1, DeliverDoes
  <2>. QED BY <2>1, <2>2
<1>14. PICK g \in Frames : Kin(q.f, g) /\ Goes(stack, g, stack')
  BY <1>13
<1>15. Kin(Top, g)
  BY <1>2, <1>8, <1>14 DEF Kin
<1>16. stack' \in Seq(Frames)
  BY <1>14 DEF Goes
<1>17. TypeOK'
  BY <1>11, <1>12, <1>13, <1>16 DEF TypeOK
<1>. QED BY <1>14, <1>15, <1>17 DEF Forward

(* The fields of a map with one loop less, and with one more.              *)
LEMMA LoopMap ==
  ASSUME NEW m \in Map
  PROVE  /\ EachEnd(m) \in Map /\ EachEnd(m).live = m.live /\ EachEnd(m).depth = m.depth - 1
         /\ EachEnd(m).keys = IF m.depth = 1 THEN m.live ELSE m.keys
         /\ [m EXCEPT !.depth = m.depth + 1] \in Map
<1>1. PICK k, l, d : k = m.keys /\ l = m.live /\ d = m.depth
  OBVIOUS
<1>2. k \in SUBSET Users /\ l \in SUBSET Users /\ d \in Int
      /\ m = [keys |-> k, live |-> l, depth |-> d]
  BY <1>1 DEF Map
<1>3. PICK j : j = (IF d = 1 THEN l ELSE k)
  OBVIOUS
<1>4. EachEnd(m) = [keys |-> j, live |-> l, depth |-> d - 1]
  <2>1. PICK e : e = [m EXCEPT !.depth = d - 1]
    OBVIOUS
  <2>2. e = [keys |-> k, live |-> l, depth |-> d - 1]
    BY <1>2, <2>1
  <2>3. [e EXCEPT !.keys = j] = [keys |-> j, live |-> l, depth |-> d - 1]
    BY <2>2
  <2>4. EachEnd(m) = [e EXCEPT !.keys = j]
    BY <1>1, <1>2, <1>3, <2>1, <2>2 DEF EachEnd
  <2>. QED BY <2>3, <2>4
<1>5. j \in SUBSET Users /\ d - 1 \in Int /\ d + 1 \in Int
  BY <1>2, <1>3
<1>6. [m EXCEPT !.depth = m.depth + 1] = [keys |-> k, live |-> l, depth |-> d + 1]
  BY <1>2
<1>. QED BY <1>1, <1>2, <1>3, <1>4, <1>5, <1>6 DEF Map

(* Every map has its keys in a tree of them,                               *)
Planted == \A c \in Chans : tree[c] \in Trees[members[c].keys]

(* also when some of them went: the others are in a tree again.            *)
LEMMA ReplantDoes ==
  ASSUME tree \in [Chans -> Tree], Replant, Planted,
         members \in [Chans -> Map], members' \in [Chans -> Map]
  PROVE  tree' \in [Chans -> Tree] /\ Planted'
<1> DEFINE cut == {c \in Chans : members'[c].keys # members[c].keys}
<1>2. PICK ts \in [cut -> AllTrees] :
        /\ \A c \in cut : ts[c] \in Trees[members'[c].keys]
        /\ tree' = [c \in Chans |-> IF c \in cut THEN ts[c] ELSE tree[c]]
  BY Zenon DEF Replant
<1>3. ASSUME NEW c \in Chans PROVE tree'[c] \in Tree /\ tree'[c] \in Trees[members'[c].keys]
  <2>1. members'[c].keys \in SUBSET Users
    BY DEF Map
  <2>2. CASE c \in cut
    <3>1. tree'[c] \in Trees[members'[c].keys]
      BY <1>2, <2>2
    <3>. QED BY <2>1, <3>1, TreeRight
  <2>3. CASE c \notin cut
    BY <1>2, <2>3 DEF Planted
  <2>. QED BY <2>2, <2>3
<1>. QED BY <1>2, <1>3 DEF Planted

(* The end of a loop over members.                                         *)
LEMMA EndMembersDoes ==
  ASSUME TypeOK, Planted, EndMembers
  PROVE  /\ TypeOK' /\ Planted'
         /\ \/ Back /\ last' = Returned(Top)
            \/ \E g \in Frames : /\ g = [Top EXCEPT !.c = None] /\ Goes(stack, g, stack')
                                 /\ last' = last
<1>1. stack # << >> /\ Top.begun /\ Top.c # None /\ Top.kind \in {"chan", "visible"}
  BY DEF EndMembers, Running
<1>2. Top \in Frames /\ Top.c \in Chans
  BY <1>1, TopType, FrameType DEF Opt
<1>3. members' = [members EXCEPT ![Top.c] = EachEnd(members[Top.c])]
  BY DEF EndMembers
<1>4. EachEnd(members[Top.c]) \in Map
  <2>1. members[Top.c] \in Map
    BY <1>2 DEF TypeOK
  <2>. QED BY <2>1, LoopMap
<1>5. members' \in [Chans -> Map] /\ tree' \in [Chans -> Tree] /\ Planted'
  <2>1. /\ members \in [Chans -> Map] /\ members' \in [Chans -> Map]
        /\ tree \in [Chans -> Tree]
    BY <1>3, <1>4 DEF TypeOK
  <2>. QED BY <2>1, ReplantDoes DEF EndMembers
<1>6. CASE Return /\ last' = Returned(Top)
  <2>1. stack' \in Seq(Frames) /\ Back
    BY <1>1, <1>6, TopType DEF Return, Back
  <2>2. last' \in Frame
    BY <1>2, <1>6, ReturnedFrame
  <2>. QED BY <1>5, <1>6, <2>1, <2>2 DEF TypeOK, EndMembers
<1>7. CASE stack' = << [Top EXCEPT !.c = None] >> \o Tail(stack) /\ last' = last
  <2>1. PICK g : g = [Top EXCEPT !.c = None]
    OBVIOUS
  <2>2. g \in Frames
    BY <1>1, <1>2, <2>1, LoopFrame DEF Opt
  <2>3. Goes(stack, g, << g >> \o Tail(stack))
    BY <1>1, <2>2, GoesOn DEF TypeOK
  <2>4. stack' \in Seq(Frames)
    BY <1>7, <2>1, <2>3 DEF Goes
  <2>5. TypeOK'
    BY <1>5, <1>7, <2>4 DEF TypeOK, EndMembers
  <2>. QED BY <1>5, <1>7, <2>1, <2>2, <2>3, <2>5
<1>. QED BY <1>6, <1>7 DEF EndMembers

\* The frame of a loop that starts.
Starts(f, c) == [f EXCEPT !.c = c, !.head = None, !.tail = None]

(* A loop over members starts.                                             *)
LEMMA EachStartDoes ==
  ASSUME TypeOK, stack # << >>, NEW f \in Frames, f.begun, f.kind \in {"chan", "visible"},
         NEW c \in Chans, EachStart(f, c)
  PROVE  /\ members' \in [Chans -> Map] /\ node' \in [Chans -> Nodes]
         /\ members' = [members EXCEPT ![c].depth = @ + 1] /\ tree' = tree
         /\ Starts(f, c) \in Frames
         /\ \E q \in Queues :
              /\ q = TryQueue([f |-> Starts(f, c), node |-> node[c]], tree[c].root)
              /\ Same(Starts(f, c), q.f) /\ Goes(stack, q.f, stack')
              /\ node' = [node EXCEPT ![c] = q.node] /\ stack' = << q.f >> \o Tail(stack)
<1>1. PICK h : h = [f EXCEPT !.c = c]
  OBVIOUS
<1>2. h \in Frames
  BY <1>1, LoopFrame DEF Opt
<1>3. PICK g : g = [h EXCEPT !.head = None, !.tail = None]
  OBVIOUS
<1>4. g = Starts(f, c)
  BY <1>1, <1>3 DEF Starts, Frames, Frame
<1>5. g \in Frames
  BY <1>2, <1>3, EndsFrame DEF Opt
<1>6. PICK q0 : q0 = [f |-> g, node |-> node[c]]
  OBVIOUS
<1>7. q0 \in Queues /\ q0.f = g
  BY <1>5, <1>6 DEF TypeOK, Queues
<1>8. PICK q : q = TryQueue(q0, tree[c].root)
  OBVIOUS
<1>9. tree[c].root \in Opt(Users)
  BY DEF TypeOK, Tree, Opt
<1>10. q \in Queues /\ Same(g, q.f)
  BY <1>7, <1>8, <1>9, TryQueueType
<1>11. /\ members' = [members EXCEPT ![c].depth = @ + 1] /\ tree' = tree
       /\ node' = [node EXCEPT ![c] = q.node] /\ stack' = << q.f >> \o Tail(stack)
  BY <1>4, <1>6, <1>8 DEF EachStart, Starts
<1>12. q.f \in Frames /\ q.node \in Nodes
  BY <1>10 DEF Queues
<1>13. Goes(stack, q.f, stack')
  BY <1>11, <1>12, GoesOn DEF TypeOK
<1>14. members' \in [Chans -> Map]
  <2>1. [members[c] EXCEPT !.depth = members[c].depth + 1] \in Map
    BY LoopMap DEF TypeOK
  <2>2. members' = [members EXCEPT ![c] = [members[c] EXCEPT !.depth = members[c].depth + 1]]
    BY <1>11 DEF TypeOK
  <2>. QED BY <2>1, <2>2 DEF TypeOK
<1>15. node' \in [Chans -> Nodes]
  BY <1>11, <1>12 DEF TypeOK
<1>. QED BY <1>4, <1>5, <1>6, <1>8, <1>10, <1>11, <1>13, <1>14, <1>15

(* The same for the members of the channel of a call,                      *)
LEMMA ChanMembersDoes ==
  ASSUME TypeOK, ChanMembers
  PROVE  /\ TypeOK' /\ Top.who \in Chans
         /\ \E g \in Frames : Same(Starts(Top, Top.who), g) /\ Goes(stack, g, stack')
<1>1. stack # << >> /\ Top.begun /\ Top.kind = "chan" /\ EachStart(Top, Top.who)
  BY DEF ChanMembers, Running
<1>2. Top \in Frames /\ Top.who \in Chans
  BY <1>1, TopType DEF Frames, Proper
<1>3. /\ members' \in [Chans -> Map] /\ node' \in [Chans -> Nodes]
      /\ \E q \in Queues : Same(Starts(Top, Top.who), q.f) /\ Goes(stack, q.f, stack')
  BY <1>1, <1>2, EachStartDoes
<1>4. PICK q \in Queues : Same(Starts(Top, Top.who), q.f) /\ Goes(stack, q.f, stack')
  BY <1>3
<1>5. q.f \in Frames
  BY DEF Queues
<1>6. stack' \in Seq(Frames)
  BY <1>4 DEF Goes
<1>7. TypeOK'
  <2>1. tree' = tree
    BY DEF ChanMembers, EachStart
  <2>. QED BY <1>3, <1>6, <2>1 DEF TypeOK, ChanMembers
<1>. QED BY <1>2, <1>4, <1>5, <1>7

(* and of the next channel of a user.                                      *)
LEMMA VisibleMembersDoes ==
  ASSUME TypeOK, VisibleMembers
  PROVE  /\ TypeOK' /\ Head(Top.todo) \in Chans /\ Top \in Frames
         /\ [Top EXCEPT !.todo = Tail(@)] \in Frames
         /\ \E g \in Frames : /\ Same(Starts([Top EXCEPT !.todo = Tail(@)], Head(Top.todo)), g)
                              /\ Goes(stack, g, stack')
<1>1. /\ stack # << >> /\ Top.begun /\ Top.kind = "visible" /\ Top.todo # << >>
      /\ EachStart([Top EXCEPT !.todo = Tail(@)], Head(Top.todo))
  BY DEF VisibleMembers, Running
<1>2. Top \in Frames /\ Top.todo \in Seq(Chans)
  BY <1>1, TopType DEF Frames, Proper
<1>3. Head(Top.todo) \in Chans /\ Tail(Top.todo) \in Seq(Chans)
  BY <1>1, <1>2
<1>4. PICK f : f = [Top EXCEPT !.todo = Tail(@)]
  OBVIOUS
<1>5. f = [Top EXCEPT !.todo = Tail(Top.todo)]
  BY <1>2, <1>4 DEF Frames, Frame
<1>6. f \in Frames /\ Kin(Top, f)
  BY <1>1, <1>2, <1>3, <1>5, TodoFrame
<1>7. f.begun /\ f.kind = "visible"
  BY <1>1, <1>6 DEF Kin
<1>8. PICK c : c = Head(Top.todo)
  OBVIOUS
<1>9. /\ members' \in [Chans -> Map] /\ node' \in [Chans -> Nodes]
      /\ \E q \in Queues : Same(Starts(f, c), q.f) /\ Goes(stack, q.f, stack')
  BY <1>1, <1>3, <1>4, <1>6, <1>7, <1>8, EachStartDoes
<1>10. PICK q \in Queues : Same(Starts(f, c), q.f) /\ Goes(stack, q.f, stack')
  BY <1>9
<1>11. q.f \in Frames
  BY DEF Queues
<1>12. stack' \in Seq(Frames)
  BY <1>10 DEF Goes
<1>13. TypeOK'
  <2>1. tree' = tree
    BY DEF VisibleMembers, EachStart
  <2>. QED BY <1>9, <1>12, <2>1 DEF TypeOK, VisibleMembers
<1>. QED BY <1>2, <1>3, <1>4, <1>6, <1>8, <1>10, <1>11, <1>13

(* The end of a call for what a user sees or for the servers.              *)
LEMMA CallEndDoes ==
  ASSUME TypeOK, VisibleEnd \/ ServersEnd
  PROVE  /\ TypeOK' /\ Back /\ last' = Returned(Top) /\ Top.c = None
         /\ UNCHANGED << now, ck, mark, ln, members, tree, node, alive, quit, calls, steady, lost >>
<1>1. /\ stack # << >> /\ Return /\ last' = Returned(Top)
      /\ UNCHANGED << now, ck, mark, ln, members, tree, node, alive, quit, calls, steady, lost >>
      /\ Top.c = None \/ Top.kind = "servers"
  BY DEF VisibleEnd, ServersEnd, Running
<1>2. Top \in Frames /\ stack' \in Seq(Frames) /\ Back
  BY <1>1, TopType DEF Return, Back
<1>3. last' \in Frame
  BY <1>1, <1>2, ReturnedFrame
<1>4. Top.c = None
  BY <1>1, <1>2 DEF Frames, Proper
<1>. QED BY <1>1, <1>2, <1>3, <1>4 DEF TypeOK

(* The next server.                                                        *)
LEMMA NextServerDoes ==
  ASSUME TypeOK, NextServer
  PROVE  TypeOK' /\ Forward
<1>1. stack # << >> /\ Top.begun /\ Top.kind = "servers" /\ Top.todo # << >>
  BY DEF NextServer, Running
<1>2. Top \in Frames /\ Top.todo \in Seq(ServerLinks)
  BY <1>1, TopType DEF Frames, Proper
<1>3. PICK l, s : l = Head(Top.todo) /\ s = Rest(Top.todo)
  OBVIOUS
<1>4. l \in ServerLinks /\ l \in Links
  BY <1>1, <1>2, <1>3 DEF Links
<1>5. s \in Seq(ServerLinks)
  BY <1>2, <1>3, FromRight DEF Rest
<1>6. PICK f : f = [Top EXCEPT !.todo = s]
  OBVIOUS
<1>7. f \in Frames /\ Kin(Top, f) /\ f.begun
  <2>1. f \in Frames /\ Kin(Top, f)
    BY ONLY <1>1, <1>2, <1>5, <1>6, TodoFrame
  <2>. QED BY ONLY <1>1, <2>1 DEF Kin
<1>8. f = [Top EXCEPT !.todo = Rest(@)]
  BY <1>2, <1>3, <1>6 DEF Frames, Frame
<1>9. /\ IF Skipped(f, l) THEN Pass(f) ELSE Deliver(f, l)
      /\ UNCHANGED << now, ck, members, tree, node, alive, calls, last, steady, lost >>
  BY <1>3, <1>8 DEF NextServer
<1>10. /\ ln' \in [user : Names, server : Names] /\ mark' \in [Links -> Cookie]
       /\ quit' \subseteq Links /\ \E g \in Frames : Kin(f, g) /\ Goes(stack, g, stack')
  <2>1. CASE Skipped(f, l)
    <3>1. stack' = << f >> \o Tail(stack) /\ ln' = ln /\ mark' = mark /\ quit' = quit
      BY <1>9, <2>1 DEF Pass
    <3>2. Goes(stack, f, << f >> \o Tail(stack))
      BY <1>1, <1>7, GoesOn DEF TypeOK
    <3>3. Kin(f, f)
      BY DEF Kin
    <3>. QED BY <1>7, <3>1, <3>2, <3>3 DEF TypeOK
  <2>2. CASE ~Skipped(f, l)
    <3>1. Deliver(f, l)
      BY <1>9, <2>2
    <3>. QED BY <1>1, <1>4, <1>7, <3>1, DeliverDoes
  <2>. QED BY <2>1, <2>2
<1>11. PICK g \in Frames : Kin(f, g) /\ Goes(stack, g, stack')
  BY <1>10
<1>12. Kin(Top, g)
  BY <1>7, <1>11 DEF Kin
<1>13. stack' \in Seq(Frames)
  BY <1>11 DEF Goes
<1>14. TypeOK'
  BY <1>9, <1>10, <1>13 DEF TypeOK
<1>. QED BY <1>11, <1>12, <1>14 DEF Forward

(* A member less in a map.                                                 *)
LEMMA LessMap ==
  ASSUME NEW m \in Map, NEW u
  PROVE  /\ MapDel(m, u) \in Map /\ MapDel(m, u).live = m.live \ {u}
         /\ MapDel(m, u).depth = m.depth
         /\ MapDel(m, u).keys = IF m.depth = 0 THEN m.keys \ {u} ELSE m.keys
<1>1. PICK k, l, d : k = m.keys /\ l = m.live /\ d = m.depth
  OBVIOUS
<1>2. k \in SUBSET Users /\ l \in SUBSET Users /\ d \in Int
      /\ m = [keys |-> k, live |-> l, depth |-> d]
  BY <1>1 DEF Map
<1>3. PICK j : j = (IF d = 0 THEN k \ {u} ELSE k)
  OBVIOUS
<1>4. MapDel(m, u) = [keys |-> j, live |-> l \ {u}, depth |-> d]
  <2>1. PICK e : e = [m EXCEPT !.live = l \ {u}]
    OBVIOUS
  <2>2. e = [keys |-> k, live |-> l \ {u}, depth |-> d]
    BY <1>2, <2>1
  <2>3. [e EXCEPT !.keys = j] = [keys |-> j, live |-> l \ {u}, depth |-> d]
    BY <2>2
  <2>4. MapDel(m, u) = [e EXCEPT !.keys = j]
    BY <1>1, <1>2, <1>3, <2>1, <2>2 DEF MapDel
  <2>. QED BY <2>3, <2>4
<1>5. j \in SUBSET Users /\ l \ {u} \in SUBSET Users
  BY <1>2, <1>3
<1>. QED BY <1>1, <1>2, <1>3, <1>4, <1>5 DEF Map

\* The channels that go with their last member u.
Dropped(u) == {c \in ChansOf(u) : InMap(MapDel(members[c], u)) = {}}

(* A user leaves its channels.                                             *)
LEMMA DestroyDoes ==
  ASSUME TypeOK, Planted, Destroy
  PROVE  /\ TypeOK' /\ Planted' /\ Back /\ Top.c = None /\ Top.who \in Users
         /\ alive' = alive \ ({Top.who} \cup Dropped(Top.who))
         /\ \A c \in Chans : members'[c] =
              IF c \in Dropped(Top.who) THEN MembersMap({})
              ELSE IF c \in ChansOf(Top.who) THEN MapDel(members[c], Top.who) ELSE members[c]
<1>1. stack # << >> /\ Top.kind = "destroy" /\ stack' = Tail(stack)
  BY DEF Destroy, Running, Return
<1>2. /\ Top \in Frames /\ stack' \in Seq(Frames) /\ Back /\ Top.c = None
      /\ Top.who \in Users
  BY <1>1, TopType DEF Back, Frames, Proper
<1>3. PICK u : u = Top.who
  OBVIOUS
<1>4. PICK left : left = [c \in ChansOf(u) |-> MapDel(members[c], u)]
  OBVIOUS
<1>5. Dropped(u) = {c \in ChansOf(u) : InMap(left[c]) = {}}
  BY <1>4 DEF Dropped
<1>6. /\ alive' = alive \ ({u} \cup Dropped(u))
      /\ members' = [c \in Chans |->
               IF c \in Dropped(u) THEN MembersMap({})
               ELSE IF c \in ChansOf(u) THEN left[c] ELSE members[c]]
      /\ UNCHANGED << now, ck, mark, ln, node, quit, calls, last, steady, lost >>
  BY <1>3, <1>4, <1>5 DEF Destroy
<1>7. \A c \in Chans : members'[c] =
              IF c \in Dropped(u) THEN MembersMap({})
              ELSE IF c \in ChansOf(u) THEN MapDel(members[c], u) ELSE members[c]
  BY <1>4, <1>6
<1>8. \A c \in Chans : members'[c] \in Map
  <2> TAKE c \in Chans
  <2>1. members[c] \in Map
    BY DEF TypeOK
  <2>2. MembersMap({}) \in Map
    BY DEF MembersMap, Map
  <2>3. MapDel(members[c], u) \in Map
    BY <2>1, LessMap
  <2>. QED BY <1>7, <2>1, <2>2, <2>3
<1>9. members' \in [Chans -> Map] /\ tree' \in [Chans -> Tree] /\ Planted'
  <2>1. /\ members \in [Chans -> Map] /\ members' \in [Chans -> Map]
        /\ tree \in [Chans -> Tree]
    BY <1>6, <1>8 DEF TypeOK
  <2>. QED BY <2>1, ReplantDoes DEF Destroy
<1>10. TypeOK'
  BY <1>2, <1>6, <1>9 DEF TypeOK
<1>. QED BY <1>2, <1>3, <1>6, <1>7, <1>9, <1>10

(* A server and its users go.                                              *)
LEMMA SplitBeginDoes ==
  ASSUME TypeOK, SplitBegin
  PROVE  /\ TypeOK' /\ Top.kind = "split"
         /\ \E g \in Frames : g.kind = "split" /\ g.c = None /\ g.fresh = Top.fresh
                              /\ Goes(stack, g, stack')
<1>1. /\ stack # << >> /\ Top.kind = "split"
      /\ stack' = << [Top EXCEPT !.begun = TRUE, !.todo = Order[Users \cap alive]] >> \o Tail(stack)
  BY DEF SplitBegin, Running
<1>2. Top \in Frames /\ Top \in Frame /\ Top.c = None /\ Top.who \in Links
  BY <1>1, TopType DEF Frames, Proper
<1>3. PICK s : s = Order[Users \cap alive]
  OBVIOUS
<1>4. s \in Seq(Users \cap alive)
  <2>1. Users \cap alive \in SUBSET Users
    OBVIOUS
  <2>. QED BY <1>3, <2>1, OrderRight
<1>5. s \in Seq(Users) /\ s \in Seq(Users \cup Chans \cup ServerLinks)
  BY <1>4
<1>6. PICK g : g = [Top EXCEPT !.begun = TRUE, !.todo = s]
  OBVIOUS
<1>7. g \in Frame
  BY <1>2, <1>5, <1>6 DEF Frame
<1>8. /\ g.kind = "split" /\ g.c = None /\ g.fresh = Top.fresh
      /\ g.todo = s /\ g.who = Top.who /\ g.begun
  BY <1>1, <1>2, <1>6 DEF Frame
<1>9. g \in Frames
  BY <1>2, <1>5, <1>7, <1>8 DEF Frames, Proper
<1>10. Goes(stack, g, stack')
  BY <1>1, <1>3, <1>6, <1>9, GoesOn DEF TypeOK
<1>11. stack' \in Seq(Frames)
  BY <1>10 DEF Goes
<1>12. TypeOK'
  BY <1>11 DEF TypeOK, SplitBegin
<1>. QED BY <1>1, <1>8, <1>9, <1>10, <1>12

(* The users of the server, one after the other,                           *)
LEMMA SplitUserDoes ==
  ASSUME TypeOK, SplitUser
  PROVE  TypeOK' /\ Top.kind = "split" /\ Forward
<1>1. /\ stack # << >> /\ Top.kind = "split" /\ Top.todo # << >>
      /\ stack' = (IF LinkOf[Head(Top.todo)] = Top.who
                   THEN << ToVisible(Head(Top.todo)), Do("destroy", Head(Top.todo)) >>
                   ELSE << >>) \o << [Top EXCEPT !.todo = Rest(@)] >> \o Tail(stack)
  BY DEF SplitUser, Running
<1>2. Top \in Frames /\ Top.todo \in Seq(Users)
  BY <1>1, TopType DEF Frames, Proper
<1>3. PICK u, s : u = Head(Top.todo) /\ s = Rest(Top.todo)
  OBVIOUS
<1>4. u \in Users /\ s \in Seq(Users)
  BY <1>1, <1>2, <1>3, FromRight DEF Rest
<1>5. PICK f : f = [Top EXCEPT !.todo = s]
  OBVIOUS
<1>6. f \in Frames /\ Kin(Top, f)
  BY <1>1, <1>2, <1>4, <1>5, TodoFrame
<1>7. f = [Top EXCEPT !.todo = Rest(@)]
  BY <1>2, <1>3, <1>5 DEF Frames, Frame
<1>8. PICK a, b : a = ToVisible(u) /\ b = Do("destroy", u)
  OBVIOUS
<1>9. Waits(a) /\ a.kind = "visible" /\ Waits(b)
  BY <1>4, <1>8, ToVisibleType, DoType
<1>10. PICK p : p = (IF LinkOf[u] = Top.who THEN << a, b >> ELSE << >>)
  OBVIOUS
<1>11. /\ p \in Seq(Frames) /\ \A k \in 1..Len(p) : Waits(p[k])
       /\ p # << >> => p[1].kind \in CallKinds
  BY <1>9, <1>10 DEF Waits, CallKinds
<1>12. stack' = p \o << f >> \o Tail(stack)
  BY <1>1, <1>3, <1>7, <1>8, <1>10
<1>13. Goes(stack, f, stack')
  <2>1. stack \in Seq(Frames)
    BY DEF TypeOK
  <2>. QED BY ONLY <1>1, <1>6, <1>11, <1>12, <2>1, GoesAfter
<1>14. stack' \in Seq(Frames)
  BY <1>13 DEF Goes
<1>15. TypeOK'
  BY <1>14 DEF TypeOK, SplitUser
<1>. QED BY <1>1, <1>6, <1>13, <1>15 DEF Forward

(* then the server.                                                        *)
LEMMA SplitEndDoes ==
  ASSUME TypeOK, SplitEnd
  PROVE  /\ TypeOK' /\ Top.kind = "split" /\ Back /\ Top.c = None
         /\ alive' = alive \ {Top.who}
<1>1. stack # << >> /\ Top.kind = "split" /\ stack' = Tail(stack) /\ alive' = alive \ {Top.who}
  BY DEF SplitEnd, Running, Return
<1>2. Top \in Frames /\ stack' \in Seq(Frames) /\ Back /\ Top.c = None
  BY <1>1, TopType DEF Back, Frames, Proper
<1>. QED BY <1>1, <1>2 DEF TypeOK, SplitEnd

(* Between two calls, and when freed memory was read, the stack stays.     *)
LEMMA StillDoes ==
  ASSUME TypeOK, Tick \/ Upgrade \/ Lose \/ UNCHANGED vars
  PROVE  TypeOK' /\ stack' = stack
<1>1. CASE Tick
  <2>1. /\ now' \in Nat /\ steady' \in BOOLEAN /\ last' = None
        /\ UNCHANGED << ck, mark, ln, members, tree, node, stack, alive, quit, calls, lost >>
    <3>1. now \in Nat /\ steady \in BOOLEAN
      BY DEF TypeOK
    <3>2. CASE now' = now + 1 /\ steady' = steady
      BY <1>1, <3>1, <3>2 DEF Tick
    <3>3. CASE now > 1 /\ now' = now - 1 /\ steady' = FALSE
      <4>1. now' \in Nat
        BY <3>1, <3>3
      <4>2. steady' \in BOOLEAN
        BY <3>3, Zenon
      <4>. QED BY <1>1, <4>1, <4>2 DEF Tick
    <3>. QED BY <1>1, <3>2, <3>3 DEF Tick
  <2>. QED BY <2>1 DEF TypeOK
<1>2. CASE Upgrade
  <2>1. /\ ck' = Zero /\ ln' = [user |-> None, server |-> None]
        /\ steady' = (steady /\ \A l \in Links : mark[l].high < now) /\ last' = None
        /\ UNCHANGED << now, mark, members, tree, node, stack, alive, quit, calls, lost >>
    BY <1>2 DEF Upgrade
  <2>2. ck' \in Cookie /\ ln' \in [user : Names, server : Names]
    BY <2>1 DEF Zero, Cookie, Names
  <2>3. steady' \in BOOLEAN
    BY <2>1, Zenon
  <2>. QED BY <2>1, <2>2, <2>3 DEF TypeOK
<1>3. CASE Lose
  BY <1>3 DEF Lose, TypeOK
<1>4. CASE UNCHANGED vars
  BY <1>4 DEF vars, TypeOK
<1>. QED BY <1>1, <1>2, <1>3, <1>4

(* The types at the start.                                                 *)
LEMMA InitType == Init => TypeOK /\ Planted
<1> SUFFICES ASSUME Init PROVE TypeOK /\ Planted
  OBVIOUS
<1>1. mark \in [Links -> Cookie] /\ ck \in Cookie
  BY DEF Init, Zero, Cookie
<1>2. members \in [Chans -> Map]
  <2>1. \A c \in Chans : MembersMap(Members[c]) \in Map
    BY SendtoAssumption DEF MembersMap, Map
  <2>. QED BY <2>1 DEF Init
<1>3. node \in [Chans -> Nodes]
  BY DEF Init, Nodes, Node, Opt
<1>4. ln \in [user : Names, server : Names] /\ stack \in Seq(Frames)
  BY DEF Init, Names
<1>5. tree \in [Chans -> Tree] /\ Planted
  <2>1. PICK ts \in [Chans -> AllTrees] :
          (\A c \in Chans : ts[c] \in Trees[Members[c]]) /\ tree = ts
    BY DEF Init
  <2>2. ASSUME NEW c \in Chans
        PROVE  /\ Members[c] \in SUBSET Users /\ tree[c] \in Trees[Members[c]]
               /\ members[c].keys = Members[c]
    BY <2>1, SendtoAssumption DEF Init, MembersMap
  <2>3. \A c \in Chans : tree[c] \in Tree
    BY <2>2, TreeRight
  <2>. QED BY <2>1, <2>2, <2>3 DEF Planted
<1>. QED BY <1>1, <1>2, <1>3, <1>4, <1>5 DEF Init, TypeOK

-----------------------------------------------------------------------------
(* Marks.  Every mark on a link is that of the last call, an older one, or *)
(* from an earlier second, unless the clock was set back.                  *)
Under(l) == mark[l] = ck \/ Older(mark[l], ck) \/ mark[l].high < now
Steady == steady => ck.high <= now /\ \A l \in Links : Under(l)
AllFresh == steady => \A k \in 1..Len(stack) : stack[k].fresh
Marked == Steady /\ AllFresh

(* The next cookie is later than all of these.                             *)
LEMMA IncIsLater ==
  ASSUME TypeOK, Steady, steady
  PROVE  /\ CookieInc(ck) \in Cookie /\ CookieInc(ck).high <= now
         /\ \A l \in Links : Older(mark[l], CookieInc(ck))
<1>1. PICK h, w, t \in Nat : ck = [high |-> h, low |-> w] /\ now = t /\ h <= t
  BY DEF TypeOK, Cookie, Steady
<1>2. CookieInc(ck) = IF h = t THEN [high |-> h, low |-> w + 1] ELSE [high |-> t, low |-> 0]
  BY <1>1 DEF CookieInc
<1>3. ASSUME NEW l \in Links PROVE Older(mark[l], CookieInc(ck))
  <2>1. PICK a, b \in Nat : mark[l] = [high |-> a, low |-> b]
    BY DEF TypeOK, Cookie
  <2>2. \/ a = h /\ b = w
        \/ a < h \/ (a = h /\ b < w) \/ a < t
    BY <1>1, <2>1 DEF Steady, Under, Older
  <2>3. CASE h = t
    BY <1>1, <1>2, <2>1, <2>2, <2>3 DEF Older
  <2>4. CASE h # t
    BY <1>1, <1>2, <2>1, <2>2, <2>4 DEF Older
  <2>. QED BY <2>3, <2>4
<1>4. CookieInc(ck) \in Cookie /\ CookieInc(ck).high <= now
  BY <1>1, <1>2 DEF Cookie
<1>. QED BY <1>3, <1>4

(* While a call runs marks are only set to its cookie.                     *)
LEMMA MarksSet ==
  ASSUME TypeOK, NextMember \/ NextServer
  PROVE  /\ \A l \in Links : mark'[l] = mark[l] \/ mark'[l] = ck
         /\ now' = now /\ ck' = ck /\ steady' = steady
<1>1. now' = now /\ ck' = ck /\ steady' = steady
  BY DEF NextMember, NextServer
<1>2. mark' = mark \/ \E l : mark' = [mark EXCEPT ![l] = ck]
  <2>1. CASE NextMember
    <3>1. \E f, l : Pass(f) \/ Deliver(f, l)
      BY <2>1 DEF NextMember
    <3>. QED BY <3>1 DEF Pass, Deliver
  <2>2. CASE NextServer
    <3>1. \E f, l : Pass(f) \/ Deliver(f, l)
      BY <2>2 DEF NextServer
    <3>. QED BY <3>1 DEF Pass, Deliver
  <2>. QED BY <2>1, <2>2
<1>3. \A l \in Links : mark'[l] = mark[l] \/ mark'[l] = ck
  BY <1>2 DEF TypeOK
<1>. QED BY <1>1, <1>3

(* The frames below the top stay as they are.                              *)
LEMMA FreshGoes ==
  ASSUME TypeOK, AllFresh, NEW g \in Frames, Goes(stack, g, stack'), g.fresh = Top.fresh,
         steady' = steady
  PROVE  AllFresh'
<1> SUFFICES ASSUME steady, NEW k \in 1..Len(stack') PROVE stack'[k].fresh
  BY Zenon DEF AllFresh
<1>1. PICK n \in Nat :
        /\ Len(stack') = n + Len(stack) /\ stack'[n + 1] = g
        /\ \A i \in 1..n : Waits(stack'[i])
        /\ \A i \in 2..Len(stack) : stack'[n + i] = stack[i]
  BY DEF Goes
<1>2. stack # << >> /\ Len(stack) \in Nat \ {0} /\ stack' \in Seq(Frames)
  BY TopType DEF Goes
<1>3. \A i \in 1..Len(stack) : stack[i].fresh
  BY Zenon DEF AllFresh
<1>4. CASE k \in 1..n
  BY <1>1, <1>4 DEF Waits
<1>5. CASE k = n + 1
  <2>1. Top.fresh
    BY <1>2, <1>3 DEF Top
  <2>. QED BY <1>1, <1>5, <2>1
<1>6. CASE k > n + 1
  <2>1. k - n \in 2..Len(stack) /\ n + (k - n) = k
    BY <1>1, <1>2, <1>6
  <2>2. stack'[k] = stack[k - n]
    BY <1>1, <2>1
  <2>. QED BY <1>3, <2>1, <2>2
<1>. QED BY <1>2, <1>4, <1>5, <1>6

(* The frames that are left when the top is done.                          *)
LEMMA FreshBack ==
  ASSUME TypeOK, AllFresh, Back, steady' = steady
  PROVE  AllFresh'
<1> SUFFICES ASSUME steady, NEW k \in 1..Len(stack') PROVE stack'[k].fresh
  BY Zenon DEF AllFresh
<1>1. \A i \in 1..Len(stack) : stack[i].fresh
  BY Zenon DEF AllFresh
<1>2. k + 1 \in 1..Len(stack) /\ stack'[k] = stack[k + 1]
  BY TopType DEF Back
<1>. QED BY <1>1, <1>2

(* The frame of a loop that starts.                                        *)
LEMMA StartsFields ==
  ASSUME NEW f \in Frames, f.begun, f.kind \in {"chan", "visible"}, NEW c \in Chans
  PROVE  LET g == Starts(f, c)
         IN  /\ g \in Frames /\ g.kind = f.kind /\ g.who = f.who /\ g.type = f.type
             /\ g.exclude = f.exclude /\ g.begun = f.begun /\ g.id = f.id /\ g.c = c
             /\ g.wants = f.wants /\ g.alone = f.alone /\ g.fresh = f.fresh
             /\ g.todo = f.todo /\ g.sent = f.sent /\ g.head = None /\ g.tail = None
<1>1. PICK h : h = [f EXCEPT !.c = c]
  OBVIOUS
<1>2. /\ h \in Frames /\ h.kind = f.kind /\ h.who = f.who /\ h.type = f.type
      /\ h.exclude = f.exclude /\ h.begun = f.begun /\ h.id = f.id /\ h.c = c
      /\ h.wants = f.wants /\ h.alone = f.alone /\ h.fresh = f.fresh
      /\ h.todo = f.todo /\ h.sent = f.sent
  <2>1. c \in Opt(Chans)
    BY DEF Opt
  <2>2. f \in Frames /\ f.begun /\ f.kind \in {"chan", "visible"}
    OBVIOUS
  <2>3. /\ h \in Frames /\ h.kind = f.kind /\ h.who = f.who /\ h.type = f.type
        /\ h.exclude = f.exclude /\ h.begun = f.begun
    BY ONLY <1>1, <2>1, <2>2, LoopFrame
  <2>4. /\ h.id = f.id /\ h.c = c /\ h.wants = f.wants /\ h.alone = f.alone
        /\ h.fresh = f.fresh /\ h.todo = f.todo /\ h.sent = f.sent
    BY ONLY <1>1, <2>1, <2>2, LoopFrame
  <2>. QED BY ONLY <2>3, <2>4
<1>3. PICK g : g = [h EXCEPT !.head = None, !.tail = None]
  OBVIOUS
<1>4. g \in Frames /\ Same(h, g) /\ g.head = None /\ g.tail = None
  BY <1>2, <1>3, EndsFrame DEF Opt
<1>5. g = Starts(f, c)
  BY <1>1, <1>3 DEF Starts, Frames, Frame
<1>. QED BY <1>2, <1>4, <1>5 DEF Same

(* The step that starts the loop over a channel: only c, the map and the   *)
(* queue change.                                                           *)
LEMMA LoopStarts ==
  ASSUME TypeOK, ChanMembers \/ VisibleMembers
  PROVE  \E g \in Frames, c \in Chans :
            /\ g.kind = Top.kind /\ g.begun /\ g.alone = Top.alone /\ g.fresh = Top.fresh
            /\ g.c = c /\ Top.c = None /\ Top.begun /\ Top.kind \in CallKinds
            /\ Goes(stack, g, stack') /\ members' = [members EXCEPT ![c].depth = @ + 1]
            /\ UNCHANGED << now, ck, mark, ln, alive, quit, calls, last, steady, lost >>
<1>1. CASE ChanMembers
  <2>1. /\ stack # << >> /\ Top.begun /\ Top.kind = "chan" /\ Top.c = None
        /\ EachStart(Top, Top.who)
        /\ UNCHANGED << now, ck, mark, ln, alive, quit, calls, last, steady, lost >>
    BY <1>1 DEF ChanMembers, Running
  <2>2. Top.who \in Chans /\ Top \in Frames
    BY <1>1, <2>1, ChanMembersDoes, TopType
  <2>3. PICK c : c = Top.who
    OBVIOUS
  <2>4. PICK g \in Frames : Same(Starts(Top, c), g) /\ Goes(stack, g, stack')
    BY <1>1, <2>3, ChanMembersDoes
  <2>5. members' = [members EXCEPT ![c].depth = @ + 1]
    BY <2>3, <2>1 DEF EachStart
  <2>6. PICK h : h = Starts(Top, c)
    OBVIOUS
  <2>7. h.kind = Top.kind /\ h.begun = Top.begun /\ h.alone = Top.alone
        /\ h.fresh = Top.fresh /\ h.c = c
    <3>1. Top.begun /\ Top.kind \in {"chan", "visible"} /\ c \in Chans
      BY <2>1, <2>2, <2>3
    <3>. QED BY ONLY <2>2, <2>6, <3>1, StartsFields
  <2>8. g.kind = Top.kind /\ g.begun /\ g.alone = Top.alone /\ g.fresh = Top.fresh /\ g.c = c
    BY <2>1, <2>4, <2>6, <2>7 DEF Same
  <2>. QED BY <2>1, <2>2, <2>3, <2>4, <2>5, <2>8 DEF CallKinds
<1>2. CASE VisibleMembers
  <2>1. /\ stack # << >> /\ Top.begun /\ Top.kind = "visible" /\ Top.c = None
        /\ EachStart([Top EXCEPT !.todo = Tail(@)], Head(Top.todo)) /\ Top.todo # << >>
        /\ UNCHANGED << now, ck, mark, ln, alive, quit, calls, last, steady, lost >>
    BY <1>2 DEF VisibleMembers, Running
  <2>2. PICK f, c : f = [Top EXCEPT !.todo = Tail(@)] /\ c = Head(Top.todo)
    OBVIOUS
  <2>3. Top \in Frames /\ c \in Chans /\ f \in Frames
    BY <1>2, <2>2, VisibleMembersDoes
  <2>4. PICK g \in Frames : Same(Starts(f, c), g) /\ Goes(stack, g, stack')
    BY <1>2, <2>2, VisibleMembersDoes
  <2>5. members' = [members EXCEPT ![c].depth = @ + 1]
    BY <2>1, <2>2 DEF EachStart
  <2>6. f.kind = Top.kind /\ f.begun = Top.begun /\ f.alone = Top.alone /\ f.fresh = Top.fresh
    BY <2>2, <2>3 DEF Frames, Frame
  <2>7. PICK h : h = Starts(f, c)
    OBVIOUS
  <2>8. h.kind = f.kind /\ h.begun = f.begun /\ h.alone = f.alone
        /\ h.fresh = f.fresh /\ h.c = c
    <3>1. f.begun /\ f.kind \in {"chan", "visible"}
      BY <2>1, <2>6
    <3>. QED BY ONLY <2>3, <2>7, <3>1, StartsFields
  <2>9. g.kind = Top.kind /\ g.begun /\ g.alone = Top.alone /\ g.fresh = Top.fresh /\ g.c = c
    BY <2>1, <2>4, <2>6, <2>7, <2>8 DEF Same
  <2>. QED BY <2>1, <2>3, <2>4, <2>5, <2>9 DEF CallKinds
<1>. QED BY <1>1, <1>2

(* Every step keeps the types, and the keys in their trees.                *)
LEMMA NextType == TypeOK /\ Planted /\ [Next]_vars => TypeOK' /\ Planted'
<1> SUFFICES ASSUME TypeOK, Planted, [Next]_vars PROVE TypeOK' /\ Planted'
  OBVIOUS
<1>1. ASSUME UNCHANGED << members, tree >> PROVE Planted'
  BY <1>1 DEF Planted
<1>2. CASE EndMembers \/ Destroy
  BY <1>2, EndMembersDoes, DestroyDoes
<1>3. CASE ChanMembers \/ VisibleMembers
  <2>1. PICK c0 \in Chans : members' = [members EXCEPT ![c0].depth = @ + 1]
    BY <1>3, LoopStarts
  <2>2. tree' = tree
    BY <1>3 DEF ChanMembers, VisibleMembers, EachStart
  <2>3. members \in [Chans -> Map]
    BY DEF TypeOK
  <2>4. \A c \in Chans : members'[c].keys = members[c].keys
    BY <2>1, <2>3 DEF Map
  <2>. QED BY <1>3, <2>2, <2>4, ChanMembersDoes, VisibleMembersDoes DEF Planted
<1>4. CASE Command \/ Begin \/ NextMember \/ VisibleEnd \/ ServersEnd \/ NextServer
  <2>1. UNCHANGED << members, tree >>
    BY <1>4 DEF Command, Begin, NextMember, VisibleEnd, ServersEnd, NextServer
  <2>. QED BY <1>1, <1>4, <2>1, CommandDoes, BeginDoes, NextMemberDoes, CallEndDoes,
              NextServerDoes
<1>5. CASE SplitBegin \/ SplitUser \/ SplitEnd
  <2>1. UNCHANGED << members, tree >>
    BY <1>5 DEF SplitBegin, SplitUser, SplitEnd
  <2>. QED BY <1>1, <1>5, <2>1, SplitBeginDoes, SplitUserDoes, SplitEndDoes
<1>6. CASE Tick \/ Upgrade \/ Lose \/ UNCHANGED vars
  <2>1. UNCHANGED << members, tree >>
    BY <1>6 DEF Tick, Upgrade, Lose, vars
  <2>. QED BY <1>1, <1>6, <2>1, StillDoes
<1>. QED BY <1>2, <1>3, <1>4, <1>5, <1>6 DEF Next, Step

(* Every step keeps the marks behind the clock, and all calls fresh.       *)
LEMMA MarkedStep ==
  ASSUME TypeOK, Planted, Marked, [Next]_vars
  PROVE  Marked'
<1>1. Steady /\ AllFresh
  BY DEF Marked
<1>2. CASE Begin
  <2>1. /\ ck' = CookieInc(ck) /\ now' = now /\ steady' = steady
        /\ mark' = mark \/ \E l : mark' = [mark EXCEPT ![l] = ck']
    BY <1>2 DEF Begin
  <2>2. \A l \in Links : mark'[l] = mark[l] \/ mark'[l] = ck'
    BY <2>1 DEF TypeOK
  <2>3. Steady'
    <3> SUFFICES ASSUME steady PROVE ck'.high <= now' /\ \A l \in Links : Under(l)'
      BY <2>1, Zenon DEF Steady
    <3>1. ck'.high <= now' /\ \A l \in Links : Older(mark[l], ck')
      BY <1>1, <2>1, IncIsLater
    <3>2. \A l \in Links : Under(l)'
      BY <2>2, <3>1 DEF Under
    <3>. QED BY <3>1, <3>2
  <2>4. AllFresh'
    <3> SUFFICES ASSUME steady, NEW k \in 1..Len(stack') PROVE stack'[k].fresh
      BY <2>1, Zenon DEF AllFresh
    <3>1. CASE k = 1
      <4>1. stack'[1] = Begun(Top, ck') /\ stack # << >>
        BY <1>2, <2>1, BeginDoes
      <4>2. Top \in Frames /\ Top.kind \in CallKinds /\ ~Top.begun /\ ck' \in Cookie
        BY <1>2, <4>1, <2>1, TopType, BeginDoes DEF Begin, CallKinds, TypeOK
      <4>3. Begun(Top, ck').fresh = (\A l \in Links : Older(mark[l], ck'))
        BY <4>2, BegunFrame
      <4>4. \A l \in Links : Older(mark[l], ck')
        BY <1>1, <2>1, IncIsLater
      <4>. QED BY <3>1, <4>1, <4>3, <4>4
    <3>2. CASE k # 1
      <4>1. k \in 2..Len(stack) /\ k \in 1..Len(stack)
        BY <1>2, <3>2, BeginDoes, TopType
      <4>2. stack'[k].fresh = stack[k].fresh
        BY <1>2, <4>1, BeginDoes
      <4>3. stack[k].fresh
        BY <1>1, <4>1, Zenon DEF AllFresh
      <4>. QED BY <4>2, <4>3
    <3>. QED BY <3>1, <3>2
  <2>. QED BY <2>3, <2>4 DEF Marked
<1>3. CASE NextMember \/ NextServer
  <2>1. /\ \A l \in Links : mark'[l] = mark[l] \/ mark'[l] = ck
        /\ now' = now /\ ck' = ck /\ steady' = steady
    BY <1>3, MarksSet
  <2>2. Steady'
    <3> SUFFICES ASSUME steady PROVE ck'.high <= now' /\ \A l \in Links : Under(l)'
      BY <2>1, Zenon DEF Steady
    <3>1. ck.high <= now /\ \A l \in Links : Under(l)
      BY <1>1, Zenon DEF Steady
    <3>2. ASSUME NEW l \in Links PROVE Under(l)'
      <4>1. mark'[l] = mark[l] \/ mark'[l] = ck
        BY <2>1
      <4>. QED BY <2>1, <3>1, <4>1 DEF Under, Older
    <3>. QED BY <2>1, <3>1, <3>2
  <2>3. Forward
    BY <1>3, NextMemberDoes, NextServerDoes
  <2>4. AllFresh'
    BY <1>1, <2>1, <2>3, FreshGoes DEF Forward, Kin
  <2>. QED BY <2>2, <2>4 DEF Marked
<1>4. ASSUME UNCHANGED << now, ck, mark, steady >> PROVE Steady'
  BY <1>1, <1>4 DEF Steady, Under, Older
<1>5. CASE Command
  <2>1. UNCHANGED << now, ck, mark, steady >>
    BY <1>5 DEF Command
  <2>2. PICK g : Waits(g) /\ stack' = << g >>
    BY <1>5, CommandDoes
  <2>3. AllFresh'
    BY <2>2 DEF AllFresh, Waits
  <2>. QED BY <1>4, <2>1, <2>3 DEF Marked
<1>6. CASE ChanMembers \/ VisibleMembers
  <2>1. PICK g \in Frames : /\ g.fresh = Top.fresh /\ Goes(stack, g, stack')
                            /\ UNCHANGED << now, ck, mark, steady >>
    BY <1>6, LoopStarts
  <2>. QED BY <1>1, <1>4, <2>1, FreshGoes DEF Marked
<1>7. CASE EndMembers
  <2>1. UNCHANGED << now, ck, mark, steady >>
    BY <1>7 DEF EndMembers
  <2>2. CASE Back
    BY <1>1, <1>4, <2>1, <2>2, FreshBack DEF Marked
  <2>3. CASE \E g \in Frames : g = [Top EXCEPT !.c = None] /\ Goes(stack, g, stack')
    <3>1. PICK g \in Frames : g = [Top EXCEPT !.c = None] /\ Goes(stack, g, stack')
      BY <2>3
    <3>2. stack # << >> /\ Top \in Frames
      BY <3>1, TopType DEF Goes
    <3>3. g.fresh = Top.fresh
      BY <3>1, <3>2 DEF Frames, Frame
    <3>. QED BY <1>1, <1>4, <2>1, <3>1, <3>3, FreshGoes DEF Marked
  <2>. QED BY <1>7, <2>2, <2>3, EndMembersDoes
<1>8. CASE VisibleEnd \/ ServersEnd
  <2>1. Back /\ UNCHANGED << now, ck, mark, steady >>
    BY <1>8, CallEndDoes
  <2>. QED BY <1>1, <1>4, <2>1, FreshBack DEF Marked
<1>9. CASE Destroy
  <2>1. Back /\ UNCHANGED << now, ck, mark, steady >>
    BY <1>9, DestroyDoes DEF Destroy
  <2>. QED BY <1>1, <1>4, <2>1, FreshBack DEF Marked
<1>10. CASE SplitEnd
  <2>1. Back /\ UNCHANGED << now, ck, mark, steady >>
    BY <1>10, SplitEndDoes DEF SplitEnd
  <2>. QED BY <1>1, <1>4, <2>1, FreshBack DEF Marked
<1>11. CASE SplitBegin
  <2>1. PICK g \in Frames : g.fresh = Top.fresh /\ Goes(stack, g, stack')
    BY <1>11, SplitBeginDoes
  <2>2. UNCHANGED << now, ck, mark, steady >>
    BY <1>11 DEF SplitBegin
  <2>. QED BY <1>1, <1>4, <2>1, <2>2, FreshGoes DEF Marked
<1>12. CASE SplitUser
  <2>1. PICK g \in Frames : Kin(Top, g) /\ Goes(stack, g, stack')
    BY <1>12, SplitUserDoes DEF Forward
  <2>2. UNCHANGED << now, ck, mark, steady >>
    BY <1>12 DEF SplitUser
  <2>. QED BY <1>1, <1>4, <2>1, <2>2, FreshGoes DEF Marked, Kin
<1>13. CASE Tick
  <2>1. stack = << >> /\ stack' = << >> /\ ck' = ck /\ mark' = mark
    BY <1>13 DEF Tick
  <2>2. AllFresh'
    BY <2>1 DEF AllFresh
  <2>3. CASE now' = now + 1 /\ steady' = steady
    <3>1. PICK t \in Nat : now = t
      BY DEF TypeOK
    <3>2. ck.high \in Nat /\ \A l \in Links : mark[l].high \in Nat
      BY DEF TypeOK, Cookie
    <3>3. Steady'
      BY <1>1, <2>1, <2>3, <3>1, <3>2 DEF Steady, Under, Older
    <3>. QED BY <2>2, <3>3 DEF Marked
  <2>4. CASE steady' = FALSE
    BY <2>2, <2>4, Zenon DEF Marked, Steady
  <2>. QED BY <1>13, <2>3, <2>4 DEF Tick
<1>14. CASE Upgrade
  <2>1. /\ stack = << >> /\ stack' = << >> /\ ck' = Zero /\ mark' = mark /\ now' = now
        /\ steady' = (steady /\ \A l \in Links : mark[l].high < now)
    BY <1>14 DEF Upgrade
  <2>2. AllFresh'
    BY <2>1 DEF AllFresh
  <2>3. Steady'
    <3> SUFFICES ASSUME steady' PROVE ck'.high <= now' /\ \A l \in Links : Under(l)'
      BY Zenon DEF Steady
    <3>1. \A l \in Links : mark[l].high < now
      BY <2>1, Zenon
    <3>2. ck'.high <= now'
      BY <2>1 DEF Zero, TypeOK
    <3>3. \A l \in Links : Under(l)'
      BY <2>1, <3>1 DEF Under
    <3>. QED BY <3>2, <3>3
  <2>. QED BY <2>2, <2>3 DEF Marked
<1>15. CASE Lose \/ UNCHANGED vars
  <2>1. UNCHANGED << now, ck, mark, steady, stack >>
    BY <1>15 DEF Lose, vars
  <2>2. AllFresh'
    BY <1>1, <2>1 DEF AllFresh
  <2>. QED BY <1>4, <2>1, <2>2 DEF Marked
<1>. QED BY <1>2, <1>3, <1>5, <1>6, <1>7, <1>8, <1>9, <1>10, <1>11, <1>12, <1>13, <1>14,
            <1>15 DEF Next, Step

(* At the start no mark was made.                                          *)
LEMMA MarkedInit == Init => Marked
<1> SUFFICES ASSUME Init PROVE Marked
  OBVIOUS
<1>1. ck = Zero /\ now = 1 /\ stack = << >> /\ \A l \in Links : mark[l] = Zero
  BY DEF Init
<1>2. Steady
  BY <1>1 DEF Steady, Under, Zero
<1>3. AllFresh
  BY <1>1 DEF AllFresh
<1>. QED BY <1>2, <1>3 DEF Marked

-----------------------------------------------------------------------------
(* Members.  A map counts the loops that are open on it; its keys are its  *)
(* members and those that left while a loop was open, who are gone.        *)
OpenIn(s, c) == {k \in 1..Len(s) : s[Len(s) + 1 - k].c = c}
Below(s, c) == {k \in 1..(Len(s) - 1) : s[Len(s) + 1 - k].c = c}
NumIn(s, c) == Cardinality(OpenIn(s, c))
Counted == \A c \in Chans \cap alive : members[c].depth = NumIn(stack, c)
Kept(c) ==
    /\ members[c].live \subseteq members[c].keys /\ members[c].live \subseteq alive
    /\ (members[c].keys \ members[c].live) \cap alive = {}
    /\ c \in alive =>
          members[c].live # {} /\ (members[c].depth = 0 => members[c].keys = members[c].live)
Tables == \A c \in Chans : Kept(c)

(* What is below the top is a finite set of places; the top is one more.   *)
LEMMA BelowType ==
  ASSUME NEW s \in Seq(Frames), s # << >>, NEW c
  PROVE  /\ IsFiniteSet(Below(s, c)) /\ Cardinality(Below(s, c)) \in Nat
         /\ Cardinality(Below(s, c) \cup {Len(s)}) = Cardinality(Below(s, c)) + 1
<1>1. Len(s) \in Nat \ {0} /\ 1..(Len(s) - 1) \in SUBSET Int
  OBVIOUS
<1>2. PICK n \in Nat : n = Len(s) - 1
  BY <1>1
<1>3. IsFiniteSet(1..n)
  BY FS_Interval
<1>4. Below(s, c) \subseteq 1..n
  BY <1>2 DEF Below
<1>5. IsFiniteSet(Below(s, c))
  BY <1>3, <1>4, FS_Subset
<1>6. Len(s) \notin Below(s, c)
  BY <1>1, <1>2, <1>4
<1>. QED BY <1>5, <1>6, FS_CardinalityType, FS_AddElement

(* The open loops of a stack are those below its top and that of the top.  *)
LEMMA OpenIs ==
  ASSUME NEW s \in Seq(Frames), s # << >>, NEW c
  PROVE  OpenIn(s, c) = Below(s, c) \cup (IF s[1].c = c THEN {Len(s)} ELSE {})
<1>1. Len(s) \in Nat \ {0}
  OBVIOUS
<1>2. ASSUME NEW k \in 1..Len(s)
      PROVE  k \in OpenIn(s, c) <=> k \in Below(s, c) \cup (IF s[1].c = c THEN {Len(s)} ELSE {})
  <2>1. CASE k = Len(s)
    <3>1. Len(s) + 1 - k = 1
      BY <1>1, <2>1
    <3>. QED BY <1>1, <2>1, <3>1 DEF OpenIn, Below
  <2>2. CASE k # Len(s)
    <3>1. k \in 1..(Len(s) - 1)
      BY <1>1, <2>2
    <3>. QED BY <2>2, <3>1 DEF OpenIn, Below
  <2>. QED BY <2>1, <2>2
<1>3. OpenIn(s, c) \subseteq 1..Len(s)
  BY DEF OpenIn
<1>4. Below(s, c) \cup (IF s[1].c = c THEN {Len(s)} ELSE {}) \subseteq 1..Len(s)
  BY <1>1 DEF Below
<1>. QED BY <1>2, <1>3, <1>4

(* How many loops are open on a channel.                                   *)
LEMMA NumIs ==
  ASSUME NEW s \in Seq(Frames), s # << >>, NEW c
  PROVE  /\ NumIn(s, c) = Cardinality(Below(s, c)) + (IF s[1].c = c THEN 1 ELSE 0)
         /\ Cardinality(Below(s, c)) \in Nat
<1>1. CASE s[1].c = c
  <2>1. OpenIn(s, c) = Below(s, c) \cup {Len(s)}
    BY <1>1, OpenIs
  <2>2. /\ Cardinality(Below(s, c) \cup {Len(s)}) = Cardinality(Below(s, c)) + 1
        /\ Cardinality(Below(s, c)) \in Nat
    BY BelowType
  <2>3. NumIn(s, c) = Cardinality(Below(s, c) \cup {Len(s)})
    BY <2>1, Zenon DEF NumIn
  <2>. QED BY <1>1, <2>2, <2>3
<1>2. CASE s[1].c # c
  <2>1. OpenIn(s, c) = Below(s, c)
    BY <1>2, OpenIs
  <2>2. Cardinality(Below(s, c)) \in Nat
    BY BelowType
  <2>3. NumIn(s, c) = Cardinality(Below(s, c))
    BY <2>1, Zenon DEF NumIn
  <2>. QED BY <1>2, <2>2, <2>3
<1>. QED BY <1>1, <1>2

(* New frames have no loop yet.                                            *)
LEMMA NumGoes ==
  ASSUME NEW s \in Seq(Frames), NEW g \in Frames, NEW r, Goes(s, g, r), NEW c \in Chans
  PROVE  NumIn(r, c) = Cardinality(Below(s, c)) + (IF g.c = c THEN 1 ELSE 0)
<1>1. PICK n \in Nat :
        /\ Len(r) = n + Len(s) /\ r[n + 1] = g
        /\ \A i \in 1..n : Waits(r[i])
        /\ \A i \in 2..Len(s) : r[n + i] = s[i]
  BY DEF Goes
<1>2. s # << >> /\ Len(s) \in Nat \ {0} /\ r \in Seq(Frames)
  BY DEF Goes
<1>3. OpenIn(r, c) = Below(s, c) \cup (IF g.c = c THEN {Len(s)} ELSE {})
  <2>1. ASSUME NEW k \in 1..Len(r)
        PROVE  k \in OpenIn(r, c) <=> k \in Below(s, c) \cup (IF g.c = c THEN {Len(s)} ELSE {})
    <3>1. CASE k < Len(s)
      <4>1. Len(s) + 1 - k \in 2..Len(s) /\ Len(r) + 1 - k = n + (Len(s) + 1 - k)
        BY <1>1, <1>2, <3>1
      <4>2. r[Len(r) + 1 - k] = s[Len(s) + 1 - k]
        BY <1>1, <4>1
      <4>3. k \in 1..(Len(s) - 1) /\ k # Len(s)
        BY <1>2, <3>1
      <4>. QED BY <4>2, <4>3 DEF OpenIn, Below
    <3>2. CASE k = Len(s)
      <4>1. Len(r) + 1 - k = n + 1
        BY <1>1, <1>2, <3>2
      <4>2. r[Len(r) + 1 - k] = g
        BY <1>1, <4>1
      <4>3. k \notin Below(s, c)
        BY <1>2, <3>2 DEF Below
      <4>. QED BY <3>2, <4>2, <4>3 DEF OpenIn
    <3>3. CASE k > Len(s)
      <4>1. Len(r) + 1 - k \in 1..n
        BY <1>1, <1>2, <3>3
      <4>2. r[Len(r) + 1 - k].c = None
        BY <1>1, <4>1 DEF Waits
      <4>3. None # c
        BY SendtoAssumption
      <4>4. k \notin Below(s, c) /\ k # Len(s)
        BY <1>2, <3>3 DEF Below
      <4>. QED BY <4>2, <4>3, <4>4 DEF OpenIn
    <3>. QED BY <1>2, <3>1, <3>2, <3>3
  <2>2. OpenIn(r, c) \subseteq 1..Len(r)
    BY DEF OpenIn
  <2>3. Below(s, c) \cup (IF g.c = c THEN {Len(s)} ELSE {}) \subseteq 1..Len(r)
    BY <1>1, <1>2 DEF Below
  <2>. QED BY <2>1, <2>2, <2>3
<1>4. CASE g.c = c
  <2>1. OpenIn(r, c) = Below(s, c) \cup {Len(s)}
    BY <1>3, <1>4
  <2>2. /\ Cardinality(Below(s, c) \cup {Len(s)}) = Cardinality(Below(s, c)) + 1
        /\ Cardinality(Below(s, c)) \in Nat
    BY <1>2, BelowType
  <2>3. NumIn(r, c) = Cardinality(Below(s, c) \cup {Len(s)})
    BY <2>1, Zenon DEF NumIn
  <2>. QED BY <1>4, <2>2, <2>3
<1>5. CASE g.c # c
  <2>1. OpenIn(r, c) = Below(s, c)
    BY <1>3, <1>5
  <2>2. Cardinality(Below(s, c)) \in Nat
    BY <1>2, BelowType
  <2>3. NumIn(r, c) = Cardinality(Below(s, c))
    BY <2>1, Zenon DEF NumIn
  <2>. QED BY <1>5, <2>2, <2>3
<1>. QED BY <1>4, <1>5

(* Without the top there are those below it.                               *)
LEMMA NumBack ==
  ASSUME NEW s \in Seq(Frames), s # << >>, NEW c
  PROVE  NumIn(Tail(s), c) = Cardinality(Below(s, c))
<1>1. PICK t : t = Tail(s)
  OBVIOUS
<1>2. PICK n \in Nat : n = Len(s) - 1
  OBVIOUS
<1>3. Len(t) = n /\ Len(s) = n + 1 /\ \A k \in 1..n : t[k] = s[k + 1]
  BY <1>1, <1>2
<1>4. \A k \in 1..n : n + 1 - k \in 1..n /\ (n + 1 - k) + 1 = (n + 1) + 1 - k
  BY <1>2
<1>5. \A k \in 1..n : t[Len(t) + 1 - k] = s[Len(s) + 1 - k]
  BY <1>3, <1>4
<1>6. OpenIn(t, c) = {k \in 1..n : t[Len(t) + 1 - k].c = c}
  BY <1>3 DEF OpenIn
<1>7. Below(s, c) = {k \in 1..n : s[Len(s) + 1 - k].c = c}
  BY <1>2 DEF Below
<1>8. OpenIn(t, c) = Below(s, c)
  BY <1>5, <1>6, <1>7
<1>. QED BY <1>1, <1>8 DEF NumIn

\* Channels that are there keep their number of loops.
SameDepths ==
    \A c \in Chans \cap alive' : c \in alive /\ members'[c].depth = members[c].depth

(* Steps that start and end no loop keep the count:                        *)
LEMMA CountedGoes ==
  ASSUME TypeOK, Counted, NEW g \in Frames, Goes(stack, g, stack'), g.c = Top.c, SameDepths
  PROVE  Counted'
<1> SUFFICES ASSUME NEW c \in Chans \cap alive' PROVE members'[c].depth = NumIn(stack', c)
  BY DEF Counted
<1>1. stack \in Seq(Frames) /\ stack # << >>
  BY DEF TypeOK, Goes
<1>2. NumIn(stack', c) = Cardinality(Below(stack, c)) + (IF g.c = c THEN 1 ELSE 0)
  BY <1>1, NumGoes
<1>3. NumIn(stack, c) = Cardinality(Below(stack, c)) + (IF stack[1].c = c THEN 1 ELSE 0)
  BY <1>1, NumIs
<1>4. NumIn(stack', c) = NumIn(stack, c)
  BY <1>2, <1>3 DEF Top
<1>. QED BY <1>4 DEF Counted, SameDepths

(* the top goes on,                                                        *)
LEMMA CountedBack ==
  ASSUME TypeOK, Counted, Back, Top.c = None, SameDepths
  PROVE  Counted'
<1> SUFFICES ASSUME NEW c \in Chans \cap alive' PROVE members'[c].depth = NumIn(stack', c)
  BY DEF Counted
<1>1. stack \in Seq(Frames) /\ stack # << >> /\ stack' = Tail(stack)
  BY DEF TypeOK, Back
<1>2. NumIn(stack', c) = Cardinality(Below(stack, c))
  BY <1>1, NumBack
<1>3. NumIn(stack, c) = Cardinality(Below(stack, c)) + (IF stack[1].c = c THEN 1 ELSE 0)
      /\ Cardinality(Below(stack, c)) \in Nat
  BY <1>1, NumIs
<1>4. stack[1].c # c
  BY SendtoAssumption DEF Top
<1>5. NumIn(stack', c) = NumIn(stack, c)
  BY <1>2, <1>3, <1>4
<1>. QED BY <1>5 DEF Counted, SameDepths

(* or the frames are the same.                                             *)
LEMMA CountedStays ==
  ASSUME TypeOK, Counted, Len(stack') = Len(stack), SameDepths,
         \A k \in 1..Len(stack) : stack'[k].c = stack[k].c
  PROVE  Counted'
<1> SUFFICES ASSUME NEW c \in Chans \cap alive' PROVE members'[c].depth = NumIn(stack', c)
  BY DEF Counted
<1>1. PICK n \in Nat : n = Len(stack)
  BY DEF TypeOK
<1>2. \A k \in 1..n : n + 1 - k \in 1..n
  BY <1>1
<1>3. OpenIn(stack, c) = {k \in 1..n : stack[n + 1 - k].c = c}
  BY <1>1 DEF OpenIn
<1>4. OpenIn(stack', c) = {k \in 1..n : stack'[n + 1 - k].c = c}
  BY <1>1 DEF OpenIn
<1>5. OpenIn(stack', c) = OpenIn(stack, c)
  BY <1>1, <1>2, <1>3, <1>4
<1>6. NumIn(stack', c) = NumIn(stack, c)
  BY <1>5, Zenon DEF NumIn
<1>. QED BY <1>6 DEF Counted, SameDepths

(* A loop that starts is counted.                                          *)
LEMMA CountedStarts ==
  ASSUME TypeOK, Counted, NEW g \in Frames, NEW c0 \in Chans, Goes(stack, g, stack'),
         g.c = c0, Top.c = None, members' = [members EXCEPT ![c0].depth = @ + 1], alive' = alive
  PROVE  Counted'
<1> SUFFICES ASSUME NEW c \in Chans \cap alive PROVE members'[c].depth = NumIn(stack', c)
  BY DEF Counted
<1>1. stack \in Seq(Frames) /\ stack # << >>
  BY DEF TypeOK, Goes
<1>2. NumIn(stack', c) = Cardinality(Below(stack, c)) + (IF c0 = c THEN 1 ELSE 0)
  BY <1>1, NumGoes
<1>3. NumIn(stack, c) = Cardinality(Below(stack, c)) + (IF stack[1].c = c THEN 1 ELSE 0)
      /\ Cardinality(Below(stack, c)) \in Nat
  BY <1>1, NumIs
<1>4. stack[1].c # c
  BY SendtoAssumption DEF Top
<1>5. members[c].depth = NumIn(stack, c)
  BY DEF Counted
<1>6. members'[c].depth = members[c].depth + (IF c0 = c THEN 1 ELSE 0)
  <2>1. members[c] \in Map
    BY DEF TypeOK
  <2>2. members[c].depth \in Int
    BY <2>1 DEF Map
  <2>3. CASE c = c0
    <3>1. members'[c] = [members[c] EXCEPT !.depth = members[c].depth + 1]
      BY <2>3 DEF TypeOK
    <3>2. members'[c].depth = members[c].depth + 1
      BY <2>1, <3>1 DEF Map
    <3>. QED BY <2>3, <3>2
  <2>4. CASE c # c0
    <3>1. members'[c] = members[c]
      BY <2>4 DEF TypeOK
    <3>. QED BY <2>2, <2>4, <3>1
  <2>. QED BY <2>3, <2>4
<1>. QED BY <1>2, <1>3, <1>4, <1>5, <1>6

(* A loop that ends is not.                                                *)
LEMMA CountedEnds ==
  ASSUME TypeOK, Planted, Counted, EndMembers
  PROVE  Counted'
<1>1. stack # << >> /\ Top.begun /\ Top.c # None /\ Top.kind \in {"chan", "visible"}
  BY DEF EndMembers, Running
<1>2. stack \in Seq(Frames) /\ Top \in Frames /\ Top.c \in Chans
  BY <1>1, TopType, FrameType DEF Opt, TypeOK
<1>3. members' = [members EXCEPT ![Top.c] = EachEnd(members[Top.c])] /\ alive' = alive
  BY DEF EndMembers
<1> SUFFICES ASSUME NEW c \in Chans \cap alive PROVE members'[c].depth = NumIn(stack', c)
  BY <1>3 DEF Counted
<1>4. NumIn(stack', c) = Cardinality(Below(stack, c))
  <2>1. CASE Back
    BY <1>1, <1>2, <2>1, NumBack DEF Back
  <2>2. CASE \E g \in Frames : g = [Top EXCEPT !.c = None] /\ Goes(stack, g, stack')
    <3>1. PICK g \in Frames : g = [Top EXCEPT !.c = None] /\ Goes(stack, g, stack')
      BY <2>2
    <3>2. g.c = None
      BY <1>2, <3>1 DEF Frames, Frame
    <3>3. NumIn(stack', c) = Cardinality(Below(stack, c)) + (IF g.c = c THEN 1 ELSE 0)
      <4>1. Goes(stack, g, stack') /\ c \in Chans
        BY <3>1
      <4>. QED BY ONLY <1>2, <4>1, g \in Frames, NumGoes
    <3>4. g.c # c
      BY <3>2, SendtoAssumption
    <3>5. Cardinality(Below(stack, c)) \in Nat
      BY <1>1, <1>2, NumIs
    <3>. QED BY <3>3, <3>4, <3>5
  <2>. QED BY <2>1, <2>2, EndMembersDoes
<1>5. NumIn(stack, c) = Cardinality(Below(stack, c)) + (IF stack[1].c = c THEN 1 ELSE 0)
      /\ Cardinality(Below(stack, c)) \in Nat
  BY <1>1, <1>2, NumIs
<1>6. members[c].depth = NumIn(stack, c) /\ members[c] \in Map
  BY DEF Counted, TypeOK
<1>7. CASE c = Top.c
  <2>1. members'[c] = EachEnd(members[c])
    BY <1>3, <1>7 DEF TypeOK
  <2>2. members'[c].depth = members[c].depth - 1
    BY <1>6, <2>1, LoopMap
  <2>. QED BY <1>4, <1>5, <1>6, <1>7, <2>2 DEF Top
<1>8. CASE c # Top.c
  <2>1. members'[c] = members[c]
    BY <1>3, <1>8 DEF TypeOK
  <2>. QED BY <1>4, <1>5, <1>6, <1>8, <2>1 DEF Top
<1>. QED BY <1>7, <1>8

(* Every step keeps the count.                                             *)
LEMMA CountedStep ==
  ASSUME TypeOK, Planted, Counted, [Next]_vars
  PROVE  Counted'
<1>0. ASSUME UNCHANGED << members, alive >> PROVE SameDepths
  BY <1>0 DEF SameDepths
<1>1. CASE Command
  <2>1. stack = << >> /\ UNCHANGED << members, alive >>
    BY <1>1 DEF Command
  <2>2. PICK g : Waits(g) /\ stack' = << g >>
    BY <1>1, CommandDoes
  <2>3. \A c \in Chans : OpenIn(stack', c) = OpenIn(stack, c)
    <3> TAKE c \in Chans
    <3>1. OpenIn(stack, c) = {}
      BY <2>1 DEF OpenIn
    <3>2. g.c # c
      BY <2>2, SendtoAssumption DEF Waits
    <3>3. OpenIn(stack', c) = {}
      BY <2>2, <3>2 DEF OpenIn
    <3>. QED BY <3>1, <3>3
  <2>4. \A c \in Chans : NumIn(stack', c) = NumIn(stack, c)
    BY <2>3, Zenon DEF NumIn
  <2>. QED BY <2>1, <2>4 DEF Counted
<1>2. CASE Begin
  <2>1. UNCHANGED << members, alive >>
    BY <1>2 DEF Begin
  <2>2. stack # << >> /\ Len(stack') = Len(stack) /\ stack'[1] = Begun(Top, CookieInc(ck))
        /\ \A k \in 2..Len(stack) : stack'[k].c = stack[k].c
    BY <1>2, BeginDoes
  <2>3. Top \in Frames /\ Top.kind \in CallKinds /\ ~Top.begun
    BY <1>2, <2>2, TopType DEF Begin, CallKinds
  <2>4. CookieInc(ck) \in Cookie
    BY IncType
  <2>5. Begun(Top, CookieInc(ck)).c = None /\ Top.c = None
    BY <2>3, <2>4, BegunFrame DEF Frames, Proper
  <2>6. ASSUME NEW k \in 1..Len(stack) PROVE stack'[k].c = stack[k].c
    <3>1. CASE k = 1
      BY <2>2, <2>5, <3>1 DEF Top
    <3>2. CASE k # 1
      <4>1. k \in 2..Len(stack)
        BY <3>2, <2>2, TopType
      <4>. QED BY <2>2, <4>1
    <3>. QED BY <3>1, <3>2
  <2>. QED BY <1>0, <2>1, <2>2, <2>6, CountedStays
<1>3. CASE NextMember \/ NextServer
  <2>1. UNCHANGED << members, alive >>
    BY <1>3 DEF NextMember, NextServer
  <2>2. PICK g \in Frames : Kin(Top, g) /\ Goes(stack, g, stack')
    BY <1>3, NextMemberDoes, NextServerDoes DEF Forward
  <2>. QED BY <1>0, <2>1, <2>2, CountedGoes DEF Kin
<1>4. CASE ChanMembers \/ VisibleMembers
  <2>1. PICK g \in Frames, c \in Chans :
            /\ g.c = c /\ Top.c = None
            /\ Goes(stack, g, stack') /\ members' = [members EXCEPT ![c].depth = @ + 1]
            /\ alive' = alive
    BY <1>4, LoopStarts
  <2>. QED BY <2>1, CountedStarts
<1>5. CASE EndMembers
  BY <1>5, CountedEnds
<1>6. CASE VisibleEnd \/ ServersEnd
  <2>1. Back /\ Top.c = None /\ UNCHANGED << members, alive >>
    BY <1>6, CallEndDoes
  <2>. QED BY <1>0, <2>1, CountedBack
<1>7. CASE Destroy
  <2>1. /\ Back /\ Top.c = None
        /\ alive' = alive \ ({Top.who} \cup Dropped(Top.who))
        /\ \A c \in Chans : members'[c] =
              IF c \in Dropped(Top.who) THEN MembersMap({})
              ELSE IF c \in ChansOf(Top.who) THEN MapDel(members[c], Top.who) ELSE members[c]
    BY <1>7, DestroyDoes
  <2>2. SameDepths
    <3> SUFFICES ASSUME NEW c \in Chans \cap alive'
                 PROVE  c \in alive /\ members'[c].depth = members[c].depth
      BY DEF SameDepths
    <3>1. c \in alive /\ c \notin Dropped(Top.who)
      BY <2>1
    <3>2. members[c] \in Map
      BY DEF TypeOK
    <3>3. MapDel(members[c], Top.who).depth = members[c].depth
      BY <3>2, LessMap
    <3>. QED BY <2>1, <3>1, <3>3
  <2>. QED BY <2>1, <2>2, CountedBack
<1>8. CASE SplitEnd
  <2>1. Back /\ Top.c = None /\ alive' = alive \ {Top.who} /\ members' = members
    BY <1>8, SplitEndDoes DEF SplitEnd
  <2>2. SameDepths
    BY <2>1 DEF SameDepths
  <2>. QED BY <2>1, <2>2, CountedBack
<1>9. CASE SplitBegin
  <2>1. PICK g \in Frames : g.c = None /\ Goes(stack, g, stack')
    BY <1>9, SplitBeginDoes
  <2>2. UNCHANGED << members, alive >> /\ Top.kind = "split"
    BY <1>9 DEF SplitBegin, Running
  <2>3. Top.c = None
    BY <2>1, <2>2, TopType DEF Goes, Frames, Proper
  <2>. QED BY <1>0, <2>1, <2>2, <2>3, CountedGoes
<1>10. CASE SplitUser
  <2>1. PICK g \in Frames : Kin(Top, g) /\ Goes(stack, g, stack')
    BY <1>10, SplitUserDoes DEF Forward
  <2>2. UNCHANGED << members, alive >>
    BY <1>10 DEF SplitUser
  <2>. QED BY <1>0, <2>1, <2>2, CountedGoes DEF Kin
<1>11. CASE Tick \/ Upgrade \/ Lose \/ UNCHANGED vars
  <2>1. stack' = stack /\ UNCHANGED << members, alive >>
    BY <1>11 DEF Tick, Upgrade, Lose, vars
  <2>. QED BY <1>0, <2>1, CountedStays
<1>. QED BY <1>1, <1>2, <1>3, <1>4, <1>5, <1>6, <1>7, <1>8, <1>9, <1>10, <1>11 DEF Next, Step

(* Every step keeps the tables.                                            *)
LEMMA TablesStep ==
  ASSUME TypeOK, Planted, Counted, Tables, [Next]_vars
  PROVE  Tables'
<1>1. ASSUME UNCHANGED << members, alive >> PROVE Tables'
  BY <1>1 DEF Tables, Kept
<1>2. CASE ChanMembers \/ VisibleMembers
  <2>1. PICK c0 \in Chans : members' = [members EXCEPT ![c0].depth = @ + 1] /\ alive' = alive
    BY <1>2, LoopStarts
  <2>2. ASSUME NEW c \in Chans PROVE Kept(c)'
    <3>1. Kept(c) /\ members[c] \in Map
      BY DEF Tables, TypeOK
    <3>2. CASE c # c0
      <4>1. members'[c] = members[c]
        BY <2>1, <3>2 DEF TypeOK
      <4>. QED BY <2>1, <3>1, <4>1 DEF Kept
    <3>3. CASE c = c0
      <4>1. members'[c] = [members[c] EXCEPT !.depth = members[c].depth + 1]
        BY <2>1, <3>3 DEF TypeOK
      <4>2. /\ members'[c].keys = members[c].keys /\ members'[c].live = members[c].live
            /\ members'[c].depth = members[c].depth + 1
        BY <3>1, <4>1 DEF Map
      <4>3. c \in alive => members[c].depth \in Nat
        <5>1. SUFFICES ASSUME c \in alive, stack \in Seq(Frames) PROVE NumIn(stack, c) \in Nat
          BY DEF Counted, TypeOK
        <5>2. CASE stack = << >>
          <6>1. OpenIn(stack, c) = {}
            BY <5>2 DEF OpenIn
          <6>. QED BY <6>1, FS_EmptySet DEF NumIn
        <5>3. CASE stack # << >>
          BY <5>1, <5>3, NumIs
        <5>. QED BY <5>2, <5>3
      <4>. QED BY <2>1, <3>1, <4>2, <4>3 DEF Kept
    <3>. QED BY <3>2, <3>3
  <2>. QED BY <2>2 DEF Tables
<1>3. CASE EndMembers
  <2>1. members' = [members EXCEPT ![Top.c] = EachEnd(members[Top.c])] /\ alive' = alive
    BY <1>3 DEF EndMembers
  <2>2. ASSUME NEW c \in Chans PROVE Kept(c)'
    <3>1. Kept(c) /\ members[c] \in Map
      BY DEF Tables, TypeOK
    <3>2. CASE c # Top.c
      <4>1. members'[c] = members[c]
        BY <2>1, <3>2 DEF TypeOK
      <4>. QED BY <2>1, <3>1, <4>1 DEF Kept
    <3>3. CASE c = Top.c
      <4>1. members'[c] = EachEnd(members[c])
        BY <2>1, <3>3 DEF TypeOK
      <4>2. /\ members'[c].live = members[c].live /\ members'[c].depth = members[c].depth - 1
            /\ members'[c].keys = IF members[c].depth = 1 THEN members[c].live ELSE members[c].keys
        BY <3>1, <4>1, LoopMap
      <4>3. members[c].depth \in Int
        BY <3>1 DEF Map
      <4>. QED BY <2>1, <3>1, <4>2, <4>3 DEF Kept
    <3>. QED BY <3>2, <3>3
  <2>. QED BY <2>2 DEF Tables
<1>4. CASE Destroy
  <2>1. PICK u \in Users : u = Top.who
    BY <1>4, DestroyDoes
  <2>2. /\ alive' = alive \ ({u} \cup Dropped(u))
        /\ \A c \in Chans : members'[c] =
              IF c \in Dropped(u) THEN MembersMap({})
              ELSE IF c \in ChansOf(u) THEN MapDel(members[c], u) ELSE members[c]
    BY <1>4, <2>1, DestroyDoes
  <2>3. Dropped(u) \cap Users = {}
    BY SendtoAssumption DEF Dropped, ChansOf
  <2>4. ASSUME NEW c \in Chans PROVE Kept(c)'
    <3>1. Kept(c) /\ members[c] \in Map
      BY DEF Tables, TypeOK
    <3>2. members[c].keys \subseteq Users /\ members[c].live \subseteq Users
      BY <3>1 DEF Map
    <3>3. CASE c \in Dropped(u)
      <4>1. members'[c].keys = {} /\ members'[c].live = {} /\ c \notin alive'
        BY <2>2, <3>3 DEF MembersMap
      <4>. QED BY <4>1 DEF Kept
    <3>4. CASE c \notin Dropped(u) /\ c \in ChansOf(u)
      <4>1. members'[c] = MapDel(members[c], u)
        BY <2>2, <3>4
      <4>2. /\ members'[c].live = members[c].live \ {u} /\ members'[c].depth = members[c].depth
            /\ members'[c].keys =
                 IF members[c].depth = 0 THEN members[c].keys \ {u} ELSE members[c].keys
        <5>1. PICK m \in Map : m = members[c]
          BY <3>1
        <5>2. PICK d : d = MapDel(m, u)
          OBVIOUS
        <5>3. /\ d.live = m.live \ {u} /\ d.depth = m.depth
              /\ d.keys = IF m.depth = 0 THEN m.keys \ {u} ELSE m.keys
          BY <5>2, LessMap
        <5>. QED BY <4>1, <5>1, <5>2, <5>3
      <4>3. members'[c].live # {}
        BY <3>4, <4>1 DEF Dropped, InMap
      <4>4. \A v \in Users : v \in alive' <=> v \in alive /\ v # u
        BY <2>2, <2>3
      <4>5. members'[c].live \subseteq members'[c].keys /\ members'[c].live \subseteq alive'
        BY <3>1, <3>2, <4>2, <4>4 DEF Kept
      <4>6. (members'[c].keys \ members'[c].live) \cap alive' = {}
        BY <3>1, <3>2, <4>2, <4>4 DEF Kept
      <4>7. c \in alive' => (members'[c].depth = 0 => members'[c].keys = members'[c].live)
        BY <2>2, <3>1, <4>2 DEF Kept
      <4>. QED BY <4>3, <4>5, <4>6, <4>7 DEF Kept
    <3>5. CASE c \notin ChansOf(u)
      <4>1. members'[c] = members[c] /\ u \notin members[c].live
        BY <2>2, <3>5 DEF Dropped, ChansOf, InMap
      <4>2. \A v \in Users : v \in alive' <=> v \in alive /\ v # u
        BY <2>2, <2>3
      <4>. QED BY <2>2, <3>1, <3>2, <4>1, <4>2 DEF Kept
    <3>. QED BY <3>3, <3>4, <3>5
  <2>. QED BY <2>4 DEF Tables
<1>5. CASE SplitEnd
  <2>1. alive' = alive \ {Top.who} /\ members' = members /\ Top.kind = "split" /\ stack # << >>
    BY <1>5, SplitEndDoes DEF SplitEnd, Running
  <2>2. Top.who \in Links
    BY <2>1, TopType DEF Frames, Proper
  <2>3. ASSUME NEW c \in Chans PROVE Kept(c)'
    <3>1. Kept(c) /\ members[c] \in Map
      BY DEF Tables, TypeOK
    <3>2. members[c].keys \subseteq Users /\ members[c].live \subseteq Users
      BY <3>1 DEF Map
    <3>3. \A v \in Users : v # Top.who
      BY <2>2, SendtoAssumption
    <3>. QED BY <2>1, <3>1, <3>2, <3>3 DEF Kept
  <2>. QED BY <2>3 DEF Tables
<1>6. CASE \/ Command \/ Begin \/ NextMember \/ NextServer \/ VisibleEnd \/ ServersEnd
           \/ SplitBegin \/ SplitUser \/ Tick \/ Upgrade \/ Lose \/ UNCHANGED vars
  <2>1. UNCHANGED << members, alive >>
    BY <1>6 DEF Command, Begin, NextMember, NextServer, VisibleEnd, ServersEnd,
                SplitBegin, SplitUser, Tick, Upgrade, Lose, vars
  <2>. QED BY <1>1, <2>1
<1>. QED BY <1>2, <1>3, <1>4, <1>5, <1>6 DEF Next, Step

-----------------------------------------------------------------------------
(* The queue of an iterator.  It holds the nodes a to b of the tree, in    *)
(* order; when the loop is at node a, these are the nodes from a on that   *)
(* are the root or below a node before a.                                  *)
Queue(q, o, a, b) ==
    /\ a \in 1..(Len(o) + 1) /\ b \in (a - 1)..Len(o)
    /\ a > b => q.f.head = None
    /\ a <= b =>
          /\ q.f.head = o[a] /\ q.f.tail = o[b]
          /\ \A i \in a..b : q.node[o[i]] = [next |-> IF i = b THEN None ELSE o[i + 1],
                                             prev |-> IF i = a THEN None ELSE o[i - 1]]
Distinct(o) == o \in Seq(Users) /\ \A i, j \in 1..Len(o) : i < j => o[i] # o[j]

(* The next node of the tree enters the queue at its end.                  *)
LEMMA EnqueueQueue ==
  ASSUME NEW q \in Queues, NEW o, Distinct(o), NEW a \in Nat, NEW b \in Nat, Queue(q, o, a, b),
         b < Len(o)
  PROVE  Queue(Enqueue(q, o[b + 1]), o, a, b + 1)
<1>1. PICK f, n, u : f = q.f /\ n = q.node /\ u = o[b + 1]
  OBVIOUS
<1>2. /\ f \in Frames /\ n \in Nodes /\ f \in Frame /\ o \in Seq(Users) /\ Len(o) \in Nat
      /\ a \in 1..(Len(o) + 1) /\ b \in (a - 1)..Len(o) /\ u \in Users
  BY <1>1 DEF Queues, Frames, Queue, Distinct
<1>3. \A i \in 1..Len(o) : o[i] \in Users /\ o[i] # None
  BY <1>2, SendtoAssumption
<1>4. CASE a > b
  <2>1. f.head = None /\ a = b + 1
    BY <1>1, <1>2, <1>4 DEF Queue
  <2>2. PICK g, m : /\ g = [f EXCEPT !.head = u, !.tail = u]
                    /\ m = [n EXCEPT ![u] = [next |-> None, prev |-> None]]
    OBVIOUS
  <2>3. g.head = u /\ g.tail = u
    BY <1>2, <2>2 DEF Frame
  <2>4. m[u] = [next |-> None, prev |-> None]
    BY <1>2, <2>2 DEF Nodes
  <2>5. PICK e : e = Enqueue(q, u)
    OBVIOUS
  <2>6. e = [f |-> g, node |-> m]
    BY <1>1, <2>1, <2>2, <2>5 DEF Enqueue
  <2>7. e.f = g /\ e.node = m
    BY <2>6
  <2>8. Queue(e, o, a, b + 1)
    BY <1>1, <1>2, <2>1, <2>3, <2>4, <2>7 DEF Queue
  <2>. QED BY <1>1, <2>5, <2>8
<1>5. CASE a <= b
  <2>1. /\ f.head = o[a] /\ f.tail = o[b] /\ f.head # None
        /\ \A i \in a..b : n[o[i]] = [next |-> IF i = b THEN None ELSE o[i + 1],
                                      prev |-> IF i = a THEN None ELSE o[i - 1]]
    BY <1>1, <1>2, <1>3, <1>5 DEF Queue
  <2>2. PICK g : g = [f EXCEPT !.tail = u]
    OBVIOUS
  <2>3. g.head = f.head /\ g.tail = u
    BY <1>2, <2>2 DEF Frame
  <2>4. PICK m : m = [n EXCEPT ![u] = [next |-> None, prev |-> f.tail]]
    OBVIOUS
  <2>5. m \in [Users -> [next : Opt(Users), prev : Opt(Users)]]
    <3>1. [next |-> None, prev |-> f.tail] \in Node
      BY <1>2 DEF Node, Opt, Frame
    <3>. QED BY <1>2, <2>4, <3>1 DEF Nodes, Node
  <2>6. PICK k : k = [n EXCEPT ![u] = [next |-> None, prev |-> f.tail], ![f.tail].next = u]
    OBVIOUS
  <2>7. k = [m EXCEPT ![f.tail].next = u]
    BY <2>4, <2>6
  <2>8. \A v \in Users : k[v] = IF v = o[b] THEN [m[v] EXCEPT !.next = u] ELSE m[v]
    BY <2>1, <2>5, <2>7
  <2>9. o[b] # u /\ \A i \in a..b : o[i] # u
    BY <1>1, <1>2, <1>5 DEF Distinct
  <2>10. k[u] = [next |-> None, prev |-> o[b]]
    BY <1>2, <2>1, <2>4, <2>8, <2>9 DEF Nodes
  <2>11. k[o[b]] = [next |-> u, prev |-> IF b = a THEN None ELSE o[b - 1]]
    <3>1. m[o[b]] = n[o[b]] /\ o[b] \in Users
      BY <1>2, <1>3, <1>5, <2>4, <2>9 DEF Nodes
    <3>2. PICK p : p = IF b = a THEN None ELSE o[b - 1]
      OBVIOUS
    <3>3. b \in a..b
      BY <1>5
    <3>4. n[o[b]] = [next |-> None, prev |-> p]
      BY <2>1, <3>2, <3>3
    <3>5. [n[o[b]] EXCEPT !.next = u] = [next |-> u, prev |-> p]
      BY <3>4
    <3>6. k[o[b]] = [n[o[b]] EXCEPT !.next = u]
      BY <2>8, <3>1
    <3>. QED BY <3>2, <3>5, <3>6
  <2>12. \A i \in a..(b - 1) : k[o[i]] = n[o[i]]
    <3> TAKE i \in a..(b - 1)
    <3>1. i \in 1..Len(o) /\ i < b /\ b \in 1..Len(o)
      BY <1>2, <1>5
    <3>2. o[i] \in Users /\ o[i] # o[b] /\ o[i] # u
      BY <1>3, <2>9, <3>1 DEF Distinct
    <3>. QED BY <1>2, <2>4, <2>8, <3>2 DEF Nodes
  <2>13. ASSUME NEW i \in a..(b + 1)
         PROVE  k[o[i]] = [next |-> IF i = b + 1 THEN None ELSE o[i + 1],
                           prev |-> IF i = a THEN None ELSE o[i - 1]]
    <3>1. CASE i = b + 1
      BY <1>1, <1>5, <2>10, <3>1
    <3>2. CASE i = b
      BY <1>1, <1>5, <2>11, <3>2
    <3>3. CASE i \in a..(b - 1)
      <4>1. k[o[i]] = n[o[i]] /\ i \in a..b /\ i # b /\ i # b + 1
        BY <2>12, <3>3
      <4>. QED BY <2>1, <4>1
    <3>. QED BY <3>1, <3>2, <3>3
  <2>14. PICK e : e = Enqueue(q, u)
    OBVIOUS
  <2>15. e = [f |-> g, node |-> k]
    BY <1>1, <2>1, <2>2, <2>6, <2>14 DEF Enqueue
  <2>16. e.f = g /\ e.node = k
    BY <2>15
  <2>17. e.f.head = o[a] /\ e.f.tail = o[b + 1]
    BY <1>1, <2>1, <2>3, <2>16
  <2>18. Queue(e, o, a, b + 1)
    BY <1>2, <1>5, <2>13, <2>16, <2>17 DEF Queue
  <2>. QED BY <1>1, <2>14, <2>18
<1>. QED BY <1>2, <1>4, <1>5

(* The first one leaves it.                                                *)
LEMMA DequeueQueue ==
  ASSUME NEW q \in Queues, NEW o, Distinct(o), NEW a \in Nat, NEW b \in Nat, Queue(q, o, a, b),
         a <= b
  PROVE  Queue(Dequeue(q), o, a + 1, b)
<1>1. PICK f, n : f = q.f /\ n = q.node
  OBVIOUS
<1>2. /\ f \in Frames /\ n \in Nodes /\ f \in Frame /\ o \in Seq(Users) /\ Len(o) \in Nat
      /\ a \in 1..Len(o) /\ b \in 1..Len(o)
  BY <1>1 DEF Queues, Frames, Queue, Distinct
<1>3. \A i \in 1..Len(o) : o[i] \in Users /\ o[i] # None
  BY <1>2, SendtoAssumption
<1>4. /\ f.head = o[a] /\ f.tail = o[b]
      /\ \A i \in a..b : n[o[i]] = [next |-> IF i = b THEN None ELSE o[i + 1],
                                    prev |-> IF i = a THEN None ELSE o[i - 1]]
  BY <1>1 DEF Queue
<1>5. PICK nx : nx = IF a = b THEN None ELSE o[a + 1]
  OBVIOUS
<1>6. n[f.head].next = nx /\ n[f.head].prev = None
  <2>1. a \in a..b
    OBVIOUS
  <2>2. n[o[a]] = [next |-> nx, prev |-> None]
    BY <1>4, <1>5, <2>1
  <2>. QED BY <1>4, <2>2
<1>7. nx = None <=> a = b
  BY <1>2, <1>3, <1>5
<1>8. PICK g : g = [f EXCEPT !.head = nx, !.tail = IF nx = None THEN None ELSE f.tail]
  OBVIOUS
<1>9. g.head = nx /\ g.tail = IF nx = None THEN None ELSE o[b]
  BY <1>2, <1>4, <1>8 DEF Frame
<1>10. PICK m : m = [v \in Users |-> [next |-> IF v = None THEN nx ELSE n[v].next,
                                      prev |-> IF v = nx THEN None ELSE n[v].prev]]
  OBVIOUS
<1>11. PICK e : e = Dequeue(q)
  OBVIOUS
<1>12. e = [f |-> g, node |-> m]
  BY <1>1, <1>2, <1>6, <1>8, <1>10, <1>11 DEF Dequeue, Frame
<1>13. e.f = g /\ e.node = m
  BY <1>12
<1>14. ASSUME NEW i \in (a + 1)..b
       PROVE  m[o[i]] = [next |-> IF i = b THEN None ELSE o[i + 1],
                         prev |-> IF i = a + 1 THEN None ELSE o[i - 1]]
  <2>1. i \in a..b /\ i \in 1..Len(o) /\ a # b /\ i # a /\ a + 1 \in 1..Len(o)
    BY <1>2
  <2>2. o[i] \in Users /\ o[i] # None
    BY <1>3, <2>1
  <2>3. n[o[i]].next = (IF i = b THEN None ELSE o[i + 1]) /\ n[o[i]].prev = o[i - 1]
    <3>1. PICK x, y : x = (IF i = b THEN None ELSE o[i + 1]) /\ y = (IF i = a THEN None ELSE o[i - 1])
      OBVIOUS
    <3>2. n[o[i]] = [next |-> x, prev |-> y]
      BY <1>4, <2>1, <3>1
    <3>. QED BY <2>1, <3>1, <3>2
  <2>4. o[i] = nx <=> i = a + 1
    BY <1>5, <2>1 DEF Distinct
  <2>5. m[o[i]] = [next |-> n[o[i]].next, prev |-> IF o[i] = nx THEN None ELSE n[o[i]].prev]
    BY <1>10, <2>2
  <2>. QED BY <2>3, <2>4, <2>5
<1>15. Queue(e, o, a + 1, b)
  BY <1>2, <1>5, <1>7, <1>9, <1>13, <1>14 DEF Queue
<1>. QED BY <1>11, <1>15

(* A level order of a tree: its nodes, and how many of them have been met  *)
(* when the loop is at one.                                                *)
Levels(t, s) ==
    CHOOSE p \in [1..Cardinality(s) -> s] \X [0..Cardinality(s) -> 0..Cardinality(s)] :
        LevelOrder(t, s, p[1], p[2])

(* Those below the node number i of o are the next ones to be met.         *)
Follows(t, o, b) ==
    \A i \in 1..Len(o) :
        /\ i <= b[i - 1]
        /\ b[i] = b[i - 1] + (IF t.left[o[i]] = None THEN 0 ELSE 1)
                          + (IF t.right[o[i]] = None THEN 0 ELSE 1)
        /\ t.left[o[i]] # None => t.left[o[i]] = o[b[i - 1] + 1]
        /\ t.right[o[i]] # None => t.right[o[i]] = o[b[i]]

LEMMA LevelsRight ==
  ASSUME NEW s \in SUBSET Users, NEW t \in Trees[s],
         NEW o, o = Levels(t, s)[1], NEW b, b = Levels(t, s)[2]
  PROVE  /\ Distinct(o) /\ o \in Seq(s) /\ ToSet(o) = s /\ Len(o) \in Nat
         /\ b \in [0..Len(o) -> 0..Len(o)]
         /\ t.root = IF Len(o) = 0 THEN None ELSE o[1]
         /\ b[0] = IF Len(o) = 0 THEN 0 ELSE 1
         /\ Follows(t, o, b)
<1>1. PICK n \in Nat : n = Cardinality(s)
  BY TreeRight
<1>2. IsFiniteSet(s) /\ IsTree(t, s)
  BY TreeRight
<1>3. PICK p : p = Levels(t, s)
  OBVIOUS
<1>4. \E q \in [1..n -> s] \X [0..n -> 0..n] : LevelOrder(t, s, q[1], q[2])
  <2>1. PICK oo \in [1..n -> s], bb \in [0..n -> 0..n] : LevelOrder(t, s, oo, bb)
    BY <1>1, <1>2 DEF IsTree
  <2>2. <<oo, bb>> \in [1..n -> s] \X [0..n -> 0..n] /\ <<oo, bb>>[1] = oo /\ <<oo, bb>>[2] = bb
    OBVIOUS
  <2>. QED BY <2>1, <2>2
<1>5. /\ p \in [1..n -> s] \X [0..n -> 0..n] /\ LevelOrder(t, s, p[1], p[2])
  BY <1>1, <1>3, <1>4 DEF Levels
<1>6. o \in [1..n -> s] /\ b \in [0..n -> 0..n] /\ LevelOrder(t, s, o, b)
  <2>1. p[1] = o /\ p[2] = b
    BY <1>3
  <2>. QED BY ONLY <1>5, <2>1
<1>7. o \in Seq(s) /\ Len(o) = n
  BY ONLY <1>1, <1>6
<1>8. \A i, j \in 1..n : i < j => o[i] # o[j]
  BY <1>1, <1>6 DEF LevelOrder
<1>9. ToSet(o) = s
  <2>1. o \in Injection(1..n, s)
    BY ONLY <1>1, <1>6, <1>8 DEF Injection, IsInjective
  <2>2. Cardinality(1..n) = n
    BY FS_Interval
  <2>3. o \in Surjection(1..n, s)
    BY <1>1, <1>2, <2>1, <2>2, FS_Injection
  <2>. QED BY ONLY <1>1, <1>6, <2>3 DEF ToSet, Surjection
<1>10. Distinct(o)
  <2>1. o \in Seq(Users)
    BY <1>7
  <2>. QED BY <1>7, <1>8, <2>1 DEF Distinct
<1>11. s = {} <=> n = 0
  BY <1>1, <1>2, FS_EmptySet
<1>12. Follows(t, o, b)
  BY ONLY <1>1, <1>6, <1>7 DEF LevelOrder, Follows
<1>. QED BY <1>1, <1>6, <1>7, <1>9, <1>10, <1>11, <1>12 DEF LevelOrder

(* A loop starts at the root,                                              *)
LEMMA StartQueue ==
  ASSUME NEW q \in Queues, q.f.head = None, NEW s \in SUBSET Users, NEW t \in Trees[s],
         NEW o, o = Levels(t, s)[1], NEW b, b = Levels(t, s)[2]
  PROVE  Queue(TryQueue(q, t.root), o, 1, b[0])
<1>1. /\ Distinct(o) /\ o \in Seq(s) /\ Len(o) \in Nat
      /\ t.root = IF Len(o) = 0 THEN None ELSE o[1]
      /\ b[0] = IF Len(o) = 0 THEN 0 ELSE 1
  BY LevelsRight
<1>2. Queue(q, o, 1, 0)
  BY <1>1 DEF Queue
<1>3. CASE 1 <= Len(o)
  <2>1. t.root = o[1] /\ t.root # None
    BY <1>1, <1>3, SendtoAssumption
  <2>2. TryQueue(q, t.root) = Enqueue(q, o[0 + 1])
    BY <2>1 DEF TryQueue
  <2>3. Queue(Enqueue(q, o[0 + 1]), o, 1, 0 + 1)
    BY ONLY <1>1, <1>2, <1>3, q \in Queues, EnqueueQueue
  <2>4. b[0] = 0 + 1
    BY <1>1, <1>3
  <2>. QED BY <2>2, <2>3, <2>4
<1>4. CASE Len(o) = 0
  <2>1. TryQueue(q, t.root) = q
    BY <1>1, <1>4 DEF TryQueue
  <2>2. b[0] = 0
    BY <1>1, <1>4
  <2>. QED BY <1>2, <2>1, <2>2
<1>. QED BY <1>1, <1>3, <1>4

(* and goes on to the next node, when those below this one are queued.     *)
LEMMA NextQueue ==
  ASSUME NEW q \in Queues, NEW s \in SUBSET Users, NEW t \in Trees[s],
         NEW o, o = Levels(t, s)[1], NEW b, b = Levels(t, s)[2], NEW a \in Nat,
         Queue(q, o, a, b[a - 1]), q.f.head # None
  PROVE  /\ a \in 1..Len(o) /\ q.f.head = o[a] /\ q.f.head \in s
         /\ Queue(EachNext(q, t), o, a + 1, b[a])
<1>1. /\ Distinct(o) /\ o \in Seq(s) /\ Len(o) \in Nat
      /\ b \in [0..Len(o) -> 0..Len(o)] /\ Follows(t, o, b)
  BY LevelsRight
<1>2. PICK k : k = b[a - 1]
  OBVIOUS
<1>3. a \in 1..Len(o) /\ a <= k /\ k \in 1..Len(o) /\ k \in Nat /\ a + 1 \in Nat
  BY <1>1, <1>2 DEF Queue
<1>4. Queue(q, o, a, k)
  BY <1>2
<1>5. q.f.head = o[a] /\ o[a] \in s
  BY <1>1, <1>3, <1>4 DEF Queue
<1>6. PICK l, r : l = t.left[o[a]] /\ r = t.right[o[a]]
  OBVIOUS
<1>7. l \in Opt(Users) /\ r \in Opt(Users)
  BY <1>5, <1>6, TreeRight, NodeType
<1>8. PICK m : m = b[a]
  OBVIOUS
<1>9. /\ m = k + (IF l = None THEN 0 ELSE 1) + (IF r = None THEN 0 ELSE 1)
      /\ l # None => l = o[k + 1]
      /\ r # None => r = o[m]
      /\ m \in 0..Len(o)
  <2>1. b[a] \in 0..Len(o)
    BY <1>1, <1>3
  <2>. QED BY ONLY <1>1, <1>2, <1>3, <1>6, <1>8, <2>1 DEF Follows
<1>10. PICK q1 : q1 = Dequeue(q)
  OBVIOUS
<1>11. q1 \in Queues /\ Queue(q1, o, a + 1, k)
  <2>1. Queue(Dequeue(q), o, a + 1, k)
    BY ONLY <1>1, <1>3, <1>4, q \in Queues, a \in Nat, DequeueQueue
  <2>. QED BY <1>10, <2>1, DequeueType
<1>12. PICK q2 : q2 = TryQueue(q1, l)
  OBVIOUS
<1>13. q2 \in Queues
  BY <1>7, <1>11, <1>12, TryQueueType
<1>14. PICK d \in Nat : d = k + IF l = None THEN 0 ELSE 1
  BY <1>3
<1>15. Queue(q2, o, a + 1, d)
  <2>1. CASE l = None
    BY <1>3, <1>11, <1>12, <1>14, <2>1 DEF TryQueue
  <2>2. CASE l # None
    <3>1. k < Len(o) /\ d = k + 1
      BY <1>3, <1>9, <1>14, <2>2
    <3>2. Queue(Enqueue(q1, o[k + 1]), o, a + 1, k + 1)
      BY ONLY <1>1, <1>3, <1>11, <3>1, EnqueueQueue
    <3>3. q2 = Enqueue(q1, o[k + 1])
      BY <1>9, <1>12, <2>2 DEF TryQueue
    <3>. QED BY <3>1, <3>2, <3>3
  <2>. QED BY <2>1, <2>2
<1>16. Queue(TryQueue(q2, r), o, a + 1, m)
  <2>1. CASE r = None
    <3>1. m = d
      BY <1>3, <1>9, <1>14, <2>1
    <3>. QED BY <1>15, <2>1, <3>1 DEF TryQueue
  <2>2. CASE r # None
    <3>1. d < Len(o) /\ m = d + 1
      BY <1>3, <1>9, <1>14, <2>2
    <3>2. Queue(Enqueue(q2, o[d + 1]), o, a + 1, d + 1)
      BY ONLY <1>1, <1>3, <1>13, <1>14, <1>15, <3>1, EnqueueQueue
    <3>3. TryQueue(q2, r) = Enqueue(q2, o[d + 1])
      BY <1>9, <2>2, <3>1 DEF TryQueue
    <3>. QED BY <3>1, <3>2, <3>3
  <2>. QED BY <2>1, <2>2
<1>17. EachNext(q, t) = TryQueue(q2, r)
  BY <1>5, <1>6, <1>10, <1>12 DEF EachNext
<1>. QED BY <1>3, <1>5, <1>8, <1>16, <1>17

-----------------------------------------------------------------------------
(* The call on top, when no other call ran inside of it: every link has    *)
(* its line or none, and every link it is for is marked or ahead of it.    *)
LevelsOf(c) == Levels(tree[c], members[c].keys)
OrderOf(c) == LevelsOf(c)[1]
MetOf(c) == LevelsOf(c)[2]
AheadIn(f, a, l) ==
    f.c # None /\ \E i \in a..Len(OrderOf(f.c)) : LinkOf[OrderOf(f.c)[i]] = l
AheadLater(f, l) ==
    \/ f.kind = "servers" /\ l \in ToSet(f.todo)
    \/ f.kind = "chan" /\ f.c = None
    \/ f.kind = "visible"
       /\ \E c \in ToSet(f.todo) : \E u \in InMap(members[c]) : LinkOf[u] = l
Ahead(f, a, l) == AheadIn(f, a, l) \/ AheadLater(f, l)

Marks(f) ==
    /\ ln.user \in {None, f.id} /\ ln.server \in {None, f.id}
    /\ f.exclude # None => mark[f.exclude] = ck
    /\ f.wants = Wants(f)
    /\ \A l \in Links :
        /\ f.sent[l] = << >> \/ f.sent[l] = << f.id >>
        /\ f.sent[l] # << >> => mark[l] = ck /\ l \in f.wants \ quit
        /\ mark[l] = ck => l = f.exclude \/ f.sent[l] # << >> \/ l \in quit
Loop(f, a) ==
    f.c # None =>
        /\ Queue([f |-> f, node |-> node[f.c]], OrderOf(f.c), a, MetOf(f.c)[a - 1])
        /\ IF f.kind = "chan" THEN f.c = f.who ELSE f.c \in ChansOf(f.who)
Place(f, a) ==
    /\ Loop(f, a)
    /\ f.kind = "visible" => ToSet(f.todo) \subseteq ChansOf(f.who)
    /\ \A l \in f.wants : mark[l] = ck \/ Ahead(f, a, l)
Calm(f) == f.kind \in CallKinds /\ f.begun /\ f.alone /\ f.fresh
Alone ==
    \A f \in Frames :
        stack # << >> /\ f = Top /\ Calm(f) => Marks(f) /\ \E a \in Nat : Place(f, a)
OnTop ==
    \A k \in 2..Len(stack) : stack[k].kind \in CallKinds /\ stack[k].begun /\ stack[k].alone
        => Top.kind \in CallKinds /\ ~Top.begun
Busy == Top.begun \/ Top.kind \notin CallKinds

(* Under a top that is at work no call is alone.                           *)
LEMMA OnTopGoes ==
  ASSUME TypeOK, OnTop, Busy, NEW g, Goes(stack, g, stack')
  PROVE  OnTop'
<1>1. PICK n \in Nat :
        /\ Len(stack') = n + Len(stack) /\ stack'[n + 1] = g
        /\ \A i \in 1..n : Waits(stack'[i])
        /\ n # 0 => stack'[1].kind \in CallKinds
        /\ \A i \in 2..Len(stack) : stack'[n + i] = stack[i]
  BY DEF Goes
<1>2. stack # << >> /\ Len(stack) \in Nat \ {0}
  BY TopType DEF Goes
<1> SUFFICES ASSUME NEW k \in 2..Len(stack'),
                    stack'[k].kind \in CallKinds, stack'[k].begun, stack'[k].alone
             PROVE  stack'[1].kind \in CallKinds /\ ~stack'[1].begun
  BY DEF OnTop, Top
<1>3. CASE k > n + 1
  <2>1. k - n \in 2..Len(stack) /\ n + (k - n) = k
    BY <1>1, <1>2, <1>3
  <2>2. stack'[k] = stack[k - n]
    BY <1>1, <2>1
  <2>. QED BY <2>1, <2>2 DEF OnTop, Busy
<1>4. CASE k <= n + 1
  <2>1. n # 0 /\ 1 \in 1..n
    BY <1>1, <1>4
  <2>. QED BY <1>1, <2>1 DEF Waits
<1>. QED BY <1>1, <1>2, <1>3, <1>4

(* Neither is the one that comes up,                                       *)
LEMMA OnTopBack ==
  ASSUME TypeOK, OnTop, Busy, Back
  PROVE  /\ OnTop'
         /\ \A k \in 1..Len(stack') :
              ~(stack'[k].kind \in CallKinds /\ stack'[k].begun /\ stack'[k].alone)
<1>1. /\ stack # << >> /\ Len(stack) \in Nat \ {0} /\ Len(stack') = Len(stack) - 1
      /\ \A k \in 1..(Len(stack) - 1) : stack'[k] = stack[k + 1]
  BY TopType DEF Back
<1>2. ASSUME NEW k \in 1..Len(stack')
      PROVE  ~(stack'[k].kind \in CallKinds /\ stack'[k].begun /\ stack'[k].alone)
  <2>1. k + 1 \in 2..Len(stack) /\ stack'[k] = stack[k + 1]
    BY <1>1
  <2>. QED BY <2>1 DEF OnTop, Busy
<1>3. \A k \in 2..Len(stack') : k \in 1..Len(stack')
  BY <1>1
<1>. QED BY <1>2, <1>3 DEF OnTop

(* so that nothing need be known of it.                                    *)
LEMMA AloneBack ==
  ASSUME TypeOK, OnTop, Busy, Back
  PROVE  Alone'
<1>1. \A k \in 1..Len(stack') :
          ~(stack'[k].kind \in CallKinds /\ stack'[k].begun /\ stack'[k].alone)
  BY OnTopBack
<1>2. stack' \in Seq(Frames)
  BY TopType DEF Back
<1>3. stack' # << >> => 1 \in 1..Len(stack')
  BY <1>2
<1>. QED BY <1>1, <1>3 DEF Alone, Calm, Top

(* Neither of a frame that waits or is no call.                            *)
LEMMA AloneWaits ==
  ASSUME stack' = << >> \/ ~(stack'[1].kind \in CallKinds /\ stack'[1].begun)
  PROVE  Alone'
BY DEF Alone, Calm, Top

(* When new frames were put on the stack the first of them waits.          *)
LEMMA GoesTop ==
  ASSUME TypeOK, NEW g, Goes(stack, g, stack')
  PROVE  stack'[1] = g \/ ~stack'[1].begun
<1>1. PICK n \in Nat : stack'[n + 1] = g /\ \A i \in 1..n : Waits(stack'[i])
  BY DEF Goes
<1>2. n # 0 => 1 \in 1..n
  BY <1>1
<1>. QED BY <1>1, <1>2 DEF Waits

(* A calm call with nothing ahead has sent its line once to each link.     *)
LEMMA AllSent ==
  ASSUME NEW f \in Frames, Marks(f), \A l \in f.wants : mark[l] = ck
  PROVE  \A l \in Links : f.sent[l] = IF l \in f.wants \ quit THEN << f.id >> ELSE << >>
<1> TAKE l \in Links
<1>1. CASE l \in f.wants \ quit
  <2>1. l # f.exclude
    BY <1>1 DEF Marks, Wants
  <2>2. f.sent[l] # << >>
    BY <1>1, <2>1 DEF Marks
  <2>. QED BY <1>1, <2>2 DEF Marks
<1>2. CASE l \notin f.wants \ quit
  BY <1>2 DEF Marks
<1>. QED BY <1>1, <1>2

(* What a call is for depends on who is a member and who is there.         *)
LEMMA WantsSame ==
  ASSUME NEW f \in Frames, NEW g, g.kind = f.kind, g.who = f.who, g.type = f.type,
         g.exclude = f.exclude, alive' = alive,
         \A c \in Chans : members'[c].live = members[c].live
  PROVE  Wants(g)' = Wants(f) /\ ChansOf(f.who)' = ChansOf(f.who)
<1>1. ChansOf(f.who)' = ChansOf(f.who)
  BY DEF ChansOf, InMap
<1>2. PICK S : S = (IF f.kind = "chan" THEN InMap(members[f.who])
                    ELSE IF f.kind = "visible"
                    THEN UNION {InMap(members[c]) : c \in ChansOf(f.who)} ELSE {})
  OBVIOUS
<1>3. S = (IF g.kind = "chan" THEN InMap(members'[g.who])
           ELSE IF g.kind = "visible"
           THEN UNION {InMap(members'[c]) : c \in ChansOf(g.who)'} ELSE {})
  <2>1. CASE f.kind = "chan"
    <3>1. f.who \in Chans
      BY <2>1 DEF Frames, Proper
    <3>. QED BY <1>2, <2>1, <3>1 DEF InMap
  <2>2. CASE f.kind = "visible"
    <3>1. \A c \in ChansOf(f.who) : InMap(members'[c]) = InMap(members[c])
      BY DEF ChansOf, InMap
    <3>2. {InMap(members'[c]) : c \in ChansOf(f.who)} = {InMap(members[c]) : c \in ChansOf(f.who)}
      BY <3>1
    <3>. QED BY <1>1, <1>2, <2>2, <3>2
  <2>3. CASE f.kind # "chan" /\ f.kind # "visible"
    BY <1>2, <2>3
  <2>. QED BY <2>1, <2>2, <2>3
<1>4. PICK R : R = (IF f.kind = "servers" THEN ServerLinks \cap alive
                    ELSE {l \in {LinkOf[u] : u \in S} : WantSend(f.type, l)})
  OBVIOUS
<1>5. Wants(f) = R \ {f.exclude}
  BY <1>2, <1>4 DEF Wants
<1>6. R = (IF g.kind = "servers" THEN ServerLinks \cap alive'
           ELSE {l \in {LinkOf[u] : u \in S} : WantSend(g.type, l)})
  BY <1>4
<1>7. Wants(g)' = R \ {g.exclude}
  BY <1>3, <1>6 DEF Wants
<1>. QED BY <1>1, <1>5, <1>7

(* The marks after a link was passed over or got the line.                 *)
LEMMA SendMarks ==
  ASSUME TypeOK, stack # << >>, NEW f \in Frames, f.begun, NEW h \in Frames, Kin(f, h),
         h.sent = f.sent, NEW l \in Links, l \in ServerLinks \/ \E u \in Users : LinkOf[u] = l,
         Marks(f), Pass(h) \/ (Deliver(h, l) /\ mark[l] # ck /\ l \in f.wants),
         stack'[1].begun, ck' = ck, alive' = alive, members' = members
  PROVE  /\ \E g \in Frames : /\ stack'[1] = g /\ Kin(f, g) /\ g.todo = h.todo
                              /\ g.head = h.head /\ g.tail = h.tail /\ Marks(g)'
         /\ \A m \in Links : mark[m] = ck => mark'[m] = ck
         /\ Deliver(h, l) => mark'[l] = ck
<1>1. /\ stack \in Seq(Frames) /\ ln \in [user : Names, server : Names]
      /\ mark \in [Links -> Cookie]
  BY DEF TypeOK
<1>2. ASSUME NEW g, Kin(f, g) PROVE Wants(g)' = f.wants
  <2>1. Wants(g)' = Wants(f)
    BY <1>2, WantsSame DEF Kin
  <2>. QED BY <2>1 DEF Marks
<1>3. h.begun /\ h.id = f.id /\ h.exclude = f.exclude /\ h.wants = f.wants
  BY DEF Kin
<1>4. CASE Pass(h)
  <2>1. stack' = << h >> \o Tail(stack) /\ ln' = ln /\ mark' = mark /\ quit' = quit
    BY <1>4 DEF Pass
  <2>2. stack'[1] = h
    BY <1>1, <2>1
  <2>3. Marks(h)'
    BY <1>2, <1>3, <2>1 DEF Marks
  <2>4. Deliver(h, l) => mark'[l] = ck
    BY <1>1 DEF Deliver
  <2>. QED BY <2>1, <2>2, <2>3, <2>4
<1>5. CASE Deliver(h, l) /\ mark[l] # ck /\ l \in f.wants
  <2>1. PICK key : key = TypeOf(l)
    OBVIOUS
  <2>2. key \in {"user", "server"}
    BY <2>1 DEF TypeOf
  <2>3. (IF ln[key] = None THEN h.id ELSE ln[key]) = f.id
    BY <1>3, <2>2 DEF Marks
  <2>4. ln' = [ln EXCEPT ![key] = f.id] /\ mark' = [mark EXCEPT ![l] = ck]
    BY <1>5, <2>1, <2>3 DEF Deliver
  <2>5. \/ /\ l \notin quit /\ quit' = quit
           /\ stack' = << [h EXCEPT !.sent[l] = Append(@, f.id)] >> \o Tail(stack)
        \/ l \in quit /\ quit' = quit /\ stack' = << h >> \o Tail(stack)
        \/ stack' = ExceptionalQuit(l) \o << h >> \o Tail(stack)
    BY <1>5, <2>1, <2>3 DEF Deliver
  <2>6. ln'.user \in {None, f.id} /\ ln'.server \in {None, f.id}
    BY <1>1, <2>2, <2>4 DEF Marks
  <2>7. mark'[l] = ck /\ \A m \in Links : mark'[m] = IF m = l THEN ck ELSE mark[m]
    BY <1>1, <2>4
  <2>8. f.sent[l] = << >> /\ l # f.exclude
    <3>1. f.sent[l] = << >>
      BY <1>5 DEF Marks
    <3>2. l # None
      BY SendtoAssumption DEF Links
    <3>3. f.exclude # None => mark[f.exclude] = ck
      BY DEF Marks
    <3>. QED BY <1>5, <3>1, <3>2, <3>3
  <2>9. f.exclude # None => mark'[f.exclude] = ck
    BY <2>7, FrameType DEF Marks, Opt
  <2>10. CASE /\ l \notin quit /\ quit' = quit
              /\ stack' = << [h EXCEPT !.sent[l] = Append(@, f.id)] >> \o Tail(stack)
    <3>1. PICK g : g = [h EXCEPT !.sent[l] = Append(@, f.id)]
      OBVIOUS
    <3>2. f.id \in Names
      BY FrameType
    <3>3. /\ g \in Frames /\ Kin(h, g) /\ g.todo = h.todo /\ g.head = h.head /\ g.tail = h.tail
          /\ g.sent = [h.sent EXCEPT ![l] = Append(@, f.id)]
      BY <1>3, <3>1, <3>2, SentFrame
    <3>4. Kin(f, g) /\ g.id = f.id /\ g.exclude = f.exclude /\ g.wants = f.wants
      BY <3>3 DEF Kin
    <3>5. f.sent \in [Links -> Seq(Names)]
      BY FrameType
    <3>6. \A m \in Links : g.sent[m] = IF m = l THEN << f.id >> ELSE f.sent[m]
      <4>1. h.sent = f.sent /\ g.sent = [f.sent EXCEPT ![l] = Append(f.sent[l], f.id)]
        BY <3>3
      <4>2. Append(f.sent[l], f.id) = << f.id >>
        BY <2>8
      <4>. QED BY <3>5, <4>1, <4>2
    <3>7. stack'[1] = g
      BY <1>1, <2>10, <3>1, <3>3
    <3>8. ASSUME NEW m \in Links
          PROVE  /\ g.sent[m] = << >> \/ g.sent[m] = << g.id >>
                 /\ g.sent[m] # << >> => mark'[m] = ck /\ m \in g.wants \ quit
                 /\ mark'[m] = ck => m = g.exclude \/ g.sent[m] # << >> \/ m \in quit
      <4>1. CASE m = l
        <5>1. g.sent[l] = << g.id >> /\ << g.id >> # << >>
          BY <3>4, <3>6
        <5>2. mark'[l] = ck /\ l \in g.wants \ quit
          BY <1>5, <2>7, <2>10, <3>4
        <5>. QED BY <4>1, <5>1, <5>2
      <4>2. CASE m # l
        <5>1. g.sent[m] = f.sent[m] /\ mark'[m] = mark[m]
          BY <2>7, <3>6, <4>2
        <5>. QED BY <3>4, <5>1 DEF Marks
      <4>. QED BY <4>1, <4>2
    <3>9. Wants(g)' = g.wants
      BY <1>2, <3>4
    <3>10. Marks(g)'
      BY <2>6, <2>9, <2>10, <3>4, <3>8, <3>9 DEF Marks
    <3>. QED BY <2>7, <3>3, <3>4, <3>7, <3>10
  <2>11. CASE l \in quit /\ quit' = quit /\ stack' = << h >> \o Tail(stack)
    <3>1. stack'[1] = h
      BY <1>1, <2>11
    <3>2. Wants(h)' = h.wants
      BY <1>2, <1>3
    <3>3. ASSUME NEW m \in Links
          PROVE  /\ h.sent[m] = << >> \/ h.sent[m] = << h.id >>
                 /\ h.sent[m] # << >> => mark'[m] = ck /\ m \in h.wants \ quit
                 /\ mark'[m] = ck => m = h.exclude \/ h.sent[m] # << >> \/ m \in quit
      BY <1>3, <2>7, <2>8, <2>11 DEF Marks
    <3>4. Marks(h)'
      BY <1>3, <2>6, <2>9, <2>11, <3>2, <3>3 DEF Marks
    <3>. QED BY <2>7, <3>1, <3>4
  <2>12. CASE stack' = ExceptionalQuit(l) \o << h >> \o Tail(stack)
    <3>1. PICK e : e = ExceptionalQuit(l)
      OBVIOUS
    <3>2. e \in Seq(Frames) /\ Len(e) \in Nat \ {0} /\ Waits(e[1])
      BY <3>1, ExceptionalQuitType
    <3>3. stack' = e \o << h >> \o Tail(stack) /\ Tail(stack) \in Seq(Frames)
      BY <1>1, <2>12, <3>1
    <3>4. stack'[1] = e[1]
      BY <3>2, <3>3
    <3>. QED BY <3>2, <3>4 DEF Waits
  <2>. QED BY <2>5, <2>10, <2>11, <2>12
<1>. QED BY <1>4, <1>5

(* What is to be shown of the frame that is on top after a step.           *)
LEMMA AloneTop ==
  ASSUME NEW g, stack'[1] = g, Calm(g) => Marks(g)' /\ \E a \in Nat : Place(g, a)'
  PROVE  Alone'
BY DEF Alone, Top

(* A later cookie is another one.                                          *)
LEMMA OlderIsOther ==
  ASSUME NEW a \in Cookie, NEW b \in Cookie, Older(a, b)
  PROVE  a # b
BY DEF Older, Cookie

(* A call that begins has everything ahead of it.                          *)
LEMMA AloneBegins ==
  ASSUME TypeOK, Begin
  PROVE  Alone'
<1>1. /\ stack # << >> /\ Top.kind \in CallKinds /\ ~Top.begun /\ ck' = CookieInc(ck)
      /\ ln' = [user |-> None, server |-> None] /\ members' = members /\ alive' = alive
      /\ Top \in Frames
  BY TopType DEF Begin, CallKinds
<1>2. PICK f \in Frames : f = Top
  BY <1>1
<1>3. PICK g : g = Begun(Top, CookieInc(ck))
  OBVIOUS
<1>4. stack'[1] = g
  BY <1>3, BeginDoes
<1>5. ck' \in Cookie /\ mark \in [Links -> Cookie]
  BY <1>1, IncType DEF TypeOK
<1>6. /\ g \in Frames /\ g.kind = f.kind /\ g.who = f.who /\ g.type = f.type
      /\ g.exclude = f.exclude /\ g.begun /\ g.id = calls /\ g.c = None
      /\ g.wants = Wants(f) /\ g.alone = f.alone /\ g.sent = f.sent
      /\ g.fresh = (\A l \in Links : Older(mark[l], ck'))
      /\ g.todo = (IF f.kind = "visible" THEN Order[ChansOf(f.who)]
                   ELSE IF f.kind = "servers"
                   THEN Order[ServerLinks \cap alive] ELSE << >>)
  <2>1. f.kind \in CallKinds /\ ~f.begun /\ g = Begun(f, ck')
    BY <1>1, <1>2, <1>3
  <2>. QED BY ONLY TypeOK, f \in Frames, <1>5, <2>1, BegunFrame
<1> SUFFICES ASSUME g.fresh PROVE Marks(g)' /\ Place(g, 1)'
  BY <1>4, AloneTop DEF Calm
<1>7. \A l \in Links : Older(mark[l], ck') /\ mark[l] # ck'
  BY <1>5, <1>6, OlderIsOther
<1>8. mark' = IF f.exclude # None THEN [mark EXCEPT ![f.exclude] = ck'] ELSE mark
  <2>1. f.exclude # None => f.exclude \in Links
    BY FrameType DEF Opt
  <2>2. mark' = IF f.exclude # None /\ Older(mark[f.exclude], ck')
                THEN [mark EXCEPT ![f.exclude] = ck'] ELSE mark
    BY <1>1, <1>2 DEF Begin
  <2>. QED BY <1>7, <2>1, <2>2
<1>9. Wants(g)' = g.wants /\ ChansOf(f.who)' = ChansOf(f.who)
  BY <1>1, <1>6, WantsSame
<1>10. Marks(g)'
  <2>1. g.exclude # None => mark'[g.exclude] = ck'
    <3>1. f.exclude # None => f.exclude \in Links
      BY FrameType DEF Opt
    <3>. QED BY <1>5, <1>6, <1>8, <3>1
  <2>2. ASSUME NEW l \in Links, l # g.exclude PROVE mark'[l] # ck'
    BY <1>5, <1>6, <1>7, <1>8, <2>2
  <2>3. \A l \in Links : g.sent[l] = << >>
    BY <1>1, <1>2, <1>6 DEF Frames, Proper
  <2>4. ln'.user = None /\ ln'.server = None
    BY <1>1
  <2>. QED BY <1>9, <2>1, <2>2, <2>3, <2>4 DEF Marks
<1>11. Place(g, 1)'
  <2>1. Loop(g, 1)'
    BY <1>6 DEF Loop
  <2>2. f.kind = "visible" => ToSet(g.todo) = ChansOf(f.who)
    <3>1. ChansOf(f.who) \in SUBSET Chans
      BY DEF ChansOf
    <3>. QED BY <1>6, <3>1, OrderRight
  <2>3. f.kind = "servers" => ToSet(g.todo) = ServerLinks \cap alive
    <3>1. ServerLinks \cap alive \in SUBSET ServerLinks
      OBVIOUS
    <3>. QED BY <1>6, <3>1, OrderRight
  <2>4. ASSUME NEW l \in g.wants PROVE AheadLater(g, l)'
    <3>1. CASE f.kind = "chan"
      BY <1>6, <3>1 DEF AheadLater
    <3>2. CASE f.kind = "servers"
      <4>1. l \in ServerLinks \cap alive
        BY <1>6, <2>4, <3>2 DEF Wants
      <4>. QED BY <1>6, <2>3, <3>2, <4>1 DEF AheadLater
    <3>3. CASE f.kind = "visible"
      <4>1. l \in {LinkOf[u] : u \in UNION {InMap(members[c]) : c \in ChansOf(f.who)}}
        BY <1>6, <2>4, <3>3 DEF Wants
      <4>2. PICK c \in ChansOf(f.who) : \E u \in InMap(members[c]) : LinkOf[u] = l
        BY <4>1
      <4>3. \E u \in InMap(members'[c]) : LinkOf[u] = l
        BY <1>1, <4>2
      <4>. QED BY <1>6, <2>2, <3>3, <4>2, <4>3 DEF AheadLater, InMap
    <3>. QED BY <1>1, <1>2, <3>1, <3>2, <3>3 DEF CallKinds
  <2>. QED BY <1>6, <1>9, <2>1, <2>2, <2>4 DEF Place, Ahead
<1>. QED BY <1>10, <1>11

(* Steps of a call that neither mark a link nor send a line.               *)
LEMMA MarksKeep ==
  ASSUME NEW f \in Frames, Marks(f), NEW g,
         g.sent = f.sent, UNCHANGED << ck, mark, ln, alive, quit >>,
         g.kind = f.kind, g.who = f.who, g.type = f.type, g.exclude = f.exclude,
         g.id = f.id, g.wants = f.wants,
         \A c \in Chans : members'[c].live = members[c].live
  PROVE  Marks(g)' /\ ChansOf(g.who)' = ChansOf(f.who)
<1>1. Wants(g)' = g.wants /\ ChansOf(g.who)' = ChansOf(f.who)
  BY WantsSame DEF Marks
<1>2. ck' = ck /\ mark' = mark /\ ln' = ln /\ quit' = quit
  OBVIOUS
<1>3. ASSUME NEW l \in Links
      PROVE  /\ g.sent[l] = << >> \/ g.sent[l] = << g.id >>
             /\ g.sent[l] # << >> => mark[l] = ck /\ l \in g.wants \ quit
             /\ mark[l] = ck => l = g.exclude \/ g.sent[l] # << >> \/ l \in quit
  BY DEF Marks
<1>4. /\ ln.user \in {None, g.id} /\ ln.server \in {None, g.id}
      /\ g.exclude # None => mark[g.exclude] = ck
  BY DEF Marks
<1>. QED BY <1>1, <1>2, <1>3, <1>4 DEF Marks

(* The members of a channel are ahead of a loop that starts.               *)
LEMMA StartsAhead ==
  ASSUME TypeOK, Tables, Planted, NEW c \in Chans, NEW u \in InMap(members[c]), NEW g,
         g.c = c, members'[c].keys = members[c].keys, tree'[c] = tree[c]
  PROVE  AheadIn(g, 1, LinkOf[u])'
<1>1. members[c].keys \in SUBSET Users /\ u \in members[c].keys
  BY DEF TypeOK, Map, Tables, Kept, InMap
<1>2. PICK o : o = OrderOf(c)
  OBVIOUS
<1>3. o \in Seq(members[c].keys) /\ ToSet(o) = members[c].keys
  BY <1>1, <1>2, LevelsRight DEF OrderOf, LevelsOf, Planted
<1>4. PICK i \in 1..Len(o) : o[i] = u
  BY <1>1, <1>3 DEF ToSet
<1>5. OrderOf(c)' = o /\ c # None
  BY <1>2, SendtoAssumption DEF OrderOf, LevelsOf
<1>. QED BY <1>4, <1>5 DEF AheadIn

(* The loop of a call over one channel starts: what it has ahead.          *)
LEMMA StartsPlace ==
  ASSUME TypeOK, Planted, NEW f \in Frames, f.begun, f.kind \in {"chan", "visible"},
         stack # << >>, NEW c \in Chans, EachStart(f, c)
  PROVE  \E g \in Frames :
            /\ Same(Starts(f, c), g) /\ Goes(stack, g, stack') /\ stack'[1] = g /\ g.c = c
            /\ Queue([f |-> g, node |-> node'[c]], OrderOf(c)', 1, MetOf(c)'[0])
            /\ tree' = tree
            /\ \A d \in Chans : members'[d].live = members[d].live
                                /\ members'[d].keys = members[d].keys
<1>1. PICK q \in Queues :
        /\ q = TryQueue([f |-> Starts(f, c), node |-> node[c]], tree[c].root)
        /\ Same(Starts(f, c), q.f) /\ Goes(stack, q.f, stack')
        /\ node' = [node EXCEPT ![c] = q.node] /\ stack' = << q.f >> \o Tail(stack)
  BY EachStartDoes
<1>2. members' = [members EXCEPT ![c].depth = @ + 1] /\ tree' = tree
  BY EachStartDoes
<1>3. members \in [Chans -> Map] /\ node \in [Chans -> Nodes] /\ stack \in Seq(Frames)
  BY DEF TypeOK
<1>4. \A d \in Chans : members'[d].live = members[d].live /\ members'[d].keys = members[d].keys
  BY <1>2, <1>3 DEF Map
<1>5. PICK g \in Frames : g = q.f
  BY DEF Queues
<1>6. stack'[1] = g /\ node'[c] = q.node
  BY <1>1, <1>3, <1>5
<1>7. q = [f |-> g, node |-> node'[c]]
  BY <1>5, <1>6 DEF Queues
<1>8. PICK q0 : q0 = [f |-> Starts(f, c), node |-> node[c]]
  OBVIOUS
<1>9. q0 \in Queues /\ q0.f.head = None /\ Starts(f, c).c = c
  BY <1>3, <1>8, StartsFields DEF Queues
<1>10. PICK s, t : s \in SUBSET Users /\ s = members[c].keys /\ t = tree[c]
  BY <1>3 DEF Map
<1>11. PICK o, b : o = Levels(t, s)[1] /\ b = Levels(t, s)[2]
  OBVIOUS
<1>12. Queue(TryQueue(q0, t.root), o, 1, b[0])
  <2>1. t \in Trees[s]
    BY <1>10 DEF Planted
  <2>. QED BY ONLY <1>9, <1>10, <1>11, <2>1, StartQueue
<1>13. OrderOf(c)' = o /\ MetOf(c)' = b
  BY <1>2, <1>4, <1>10, <1>11 DEF OrderOf, MetOf, LevelsOf
<1>14. Queue([f |-> g, node |-> node'[c]], o, 1, b[0])
  BY <1>1, <1>7, <1>8, <1>10, <1>12
<1>15. g.c = c
  BY <1>1, <1>5, <1>9 DEF Same
<1>. QED BY <1>1, <1>2, <1>4, <1>5, <1>6, <1>13, <1>14, <1>15

(* A call goes to the members of its channel.                              *)
LEMMA AloneChanMembers ==
  ASSUME TypeOK, Tables, Planted, Alone, ChanMembers
  PROVE  Alone'
<1>1. /\ stack # << >> /\ Top.kind = "chan" /\ Top.begun /\ Top.c = None
      /\ EachStart(Top, Top.who) /\ UNCHANGED << ck, mark, ln, alive, quit >>
  BY DEF ChanMembers, Running
<1>2. PICK f \in Frames : f = Top
  BY <1>1, TopType
<1>3. f.who \in Chans
  BY <1>1, <1>2 DEF Frames, Proper
<1>4. PICK c \in Chans : c = f.who
  BY <1>3
<1>5. PICK g \in Frames :
        /\ Same(Starts(f, c), g) /\ stack'[1] = g /\ g.c = c
        /\ Queue([f |-> g, node |-> node'[c]], OrderOf(c)', 1, MetOf(c)'[0])
        /\ tree' = tree
        /\ \A d \in Chans : members'[d].live = members[d].live
                            /\ members'[d].keys = members[d].keys
  BY <1>1, <1>2, <1>4, StartsPlace
<1>6. /\ g.kind = f.kind /\ g.who = f.who /\ g.type = f.type /\ g.exclude = f.exclude
      /\ g.begun = f.begun /\ g.id = f.id /\ g.wants = f.wants /\ g.alone = f.alone
      /\ g.fresh = f.fresh /\ g.todo = f.todo /\ g.sent = f.sent
  BY <1>1, <1>2, <1>5, StartsFields DEF Same
<1> SUFFICES ASSUME Calm(g) PROVE Marks(g)' /\ Place(g, 1)'
  BY <1>5, AloneTop
<1>7. Marks(f)
  BY <1>1, <1>2, <1>6 DEF Alone, Calm
<1>8. Marks(g)' /\ ChansOf(g.who)' = ChansOf(f.who)
  BY <1>1, <1>5, <1>6, <1>7, MarksKeep DEF Kin
<1>9. Loop(g, 1)'
  BY <1>1, <1>2, <1>4, <1>5, <1>6 DEF Loop
<1>10. ASSUME NEW l \in g.wants PROVE AheadIn(g, 1, l)'
  <2>1. g.wants = Wants(f)
    BY <1>6, <1>7 DEF Marks
  <2>2. l \in {LinkOf[u] : u \in InMap(members[c])}
    BY <1>1, <1>2, <1>4, <1>10, <2>1 DEF Wants
  <2>3. PICK u \in InMap(members[c]) : l = LinkOf[u]
    BY <2>2
  <2>. QED BY <1>5, <2>3, StartsAhead
<1>. QED BY <1>1, <1>2, <1>6, <1>8, <1>9, <1>10 DEF Place, Ahead

(* The next channel of a user.                                             *)
LEMMA AloneVisibleMembers ==
  ASSUME TypeOK, Tables, Planted, Alone, VisibleMembers
  PROVE  Alone'
<1>1. /\ stack # << >> /\ Top.kind = "visible" /\ Top.begun /\ Top.c = None /\ Top.todo # << >>
      /\ EachStart([Top EXCEPT !.todo = Tail(@)], Head(Top.todo))
      /\ UNCHANGED << ck, mark, ln, alive, quit >>
  BY DEF VisibleMembers, Running
<1>2. PICK f \in Frames : f = Top
  BY <1>1, TopType
<1>3. f.todo \in Seq(Chans)
  BY <1>1, <1>2 DEF Frames, Proper
<1>4. PICK c : c = Head(f.todo)
  OBVIOUS
<1>5. PICK s : s = Tail(f.todo)
  OBVIOUS
<1>6. c \in Chans /\ s \in Seq(Chans) /\ ToSet(f.todo) = {c} \cup ToSet(s)
  <2>1. Len(f.todo) \in Nat \ {0} /\ c = f.todo[1] /\ c \in Chans /\ s \in Seq(Chans)
    BY <1>1, <1>2, <1>3, <1>4, <1>5
  <2>2. Len(s) = Len(f.todo) - 1 /\ \A i \in 1..Len(s) : s[i] = f.todo[i + 1]
    BY <1>1, <1>2, <1>3, <1>5
  <2>3. \A i \in 1..Len(f.todo) : i = 1 \/ (i - 1 \in 1..Len(s) /\ f.todo[i] = s[i - 1])
    BY <2>1, <2>2
  <2>4. \A i \in 1..Len(s) : i + 1 \in 1..Len(f.todo)
    BY <2>1, <2>2
  <2>5. ToSet(f.todo) = {f.todo[i] : i \in 1..Len(f.todo)} /\ ToSet(s) = {s[i] : i \in 1..Len(s)}
    BY <1>3, <2>1 DEF ToSet
  <2>6. ASSUME NEW x PROVE x \in ToSet(f.todo) <=> x = c \/ x \in ToSet(s)
    <3>1. x \in ToSet(f.todo) => x = c \/ x \in ToSet(s)
      BY <2>1, <2>3, <2>5
    <3>2. x = c => x \in ToSet(f.todo)
      BY <2>1, <2>5
    <3>3. x \in ToSet(s) => x \in ToSet(f.todo)
      BY <2>2, <2>4, <2>5
    <3>. QED BY <3>1, <3>2, <3>3
  <2>. QED BY <2>1, <2>6
<1>7. PICK h : h = [f EXCEPT !.todo = s]
  OBVIOUS
<1>8. h \in Frames /\ Kin(f, h) /\ h.todo = s /\ h.sent = f.sent
  BY <1>1, <1>2, <1>6, <1>7, TodoFrame
<1>9. EachStart(h, c)
  BY <1>1, <1>2, <1>4, <1>5, <1>7
<1>10. h.begun /\ h.kind = "visible"
  BY <1>1, <1>2, <1>8 DEF Kin
<1>11. PICK g \in Frames :
        /\ Same(Starts(h, c), g) /\ stack'[1] = g /\ g.c = c
        /\ Queue([f |-> g, node |-> node'[c]], OrderOf(c)', 1, MetOf(c)'[0])
        /\ tree' = tree
        /\ \A d \in Chans : members'[d].live = members[d].live
                            /\ members'[d].keys = members[d].keys
  BY <1>1, <1>6, <1>8, <1>9, <1>10, StartsPlace
<1>20. /\ Starts(h, c).kind = h.kind /\ Starts(h, c).who = h.who
       /\ Starts(h, c).type = h.type /\ Starts(h, c).exclude = h.exclude
       /\ Starts(h, c).begun = h.begun /\ Starts(h, c).id = h.id
       /\ Starts(h, c).wants = h.wants /\ Starts(h, c).alone = h.alone
       /\ Starts(h, c).fresh = h.fresh /\ Starts(h, c).todo = h.todo
       /\ Starts(h, c).sent = h.sent
  <2>1. h \in Frames /\ h.begun /\ h.kind \in {"chan", "visible"} /\ c \in Chans
    BY <1>6, <1>8, <1>10
  <2>2. PICK k : k = Starts(h, c)
    OBVIOUS
  <2>3. /\ k.kind = h.kind /\ k.who = h.who /\ k.type = h.type /\ k.exclude = h.exclude
        /\ k.begun = h.begun /\ k.id = h.id
    BY ONLY <2>1, <2>2, StartsFields
  <2>4. /\ k.wants = h.wants /\ k.alone = h.alone /\ k.fresh = h.fresh
        /\ k.todo = h.todo /\ k.sent = h.sent
    BY ONLY <2>1, <2>2, StartsFields
  <2>. QED BY ONLY <2>2, <2>3, <2>4
<1>12. /\ g.kind = f.kind /\ g.who = f.who /\ g.type = f.type /\ g.exclude = f.exclude
       /\ g.begun = f.begun /\ g.id = f.id /\ g.wants = f.wants /\ g.alone = f.alone
       /\ g.fresh = f.fresh /\ g.todo = s /\ g.sent = f.sent
  BY <1>8, <1>11, <1>20 DEF Same, Kin
<1> SUFFICES ASSUME Calm(g) PROVE Marks(g)' /\ Place(g, 1)'
  BY <1>11, AloneTop
<1>13. Marks(f) /\ \E a \in Nat : Place(f, a)
  BY <1>1, <1>2, <1>12 DEF Alone, Calm
<1>14. PICK a \in Nat : Place(f, a)
  BY <1>13
<1>15. Marks(g)' /\ ChansOf(g.who)' = ChansOf(f.who)
  BY <1>1, <1>11, <1>12, <1>13, MarksKeep DEF Kin
<1>16. c \in ChansOf(f.who) /\ ToSet(s) \subseteq ChansOf(f.who)
  BY <1>1, <1>2, <1>6, <1>14 DEF Place
<1>17. Loop(g, 1)'
  BY <1>1, <1>2, <1>11, <1>12, <1>15, <1>16 DEF Loop
<1>18. ASSUME NEW l \in g.wants, mark[l] # ck PROVE Ahead(g, 1, l)'
  <2>1. AheadLater(f, l)
    BY <1>1, <1>2, <1>12, <1>14, <1>18 DEF Place, Ahead, AheadIn
  <2>2. PICK d \in ToSet(f.todo) : \E u \in InMap(members[d]) : LinkOf[u] = l
    BY <1>1, <1>2, <2>1 DEF AheadLater
  <2>3. PICK u \in InMap(members[d]) : LinkOf[u] = l
    BY <2>2
  <2>4. CASE d = c
    <3>1. AheadIn(g, 1, LinkOf[u])'
      BY <1>6, <1>11, <2>3, <2>4, StartsAhead
    <3>. QED BY <2>3, <3>1 DEF Ahead
  <2>5. CASE d \in ToSet(s)
    <3>1. d \in Chans
      BY <1>16, <2>5 DEF ChansOf
    <3>2. u \in InMap(members'[d])
      BY <1>11, <2>3, <3>1 DEF InMap
    <3>3. AheadLater(g, l)'
      BY <1>1, <1>2, <1>12, <2>3, <2>5, <3>2 DEF AheadLater
    <3>. QED BY <3>3 DEF Ahead
  <2>. QED BY <1>6, <2>4, <2>5
<1>19. mark' = mark /\ ck' = ck
  BY <1>1
<1>. QED BY <1>1, <1>2, <1>12, <1>15, <1>16, <1>17, <1>18, <1>19 DEF Place

(* A call that is not alone, or that waits for what is above it.           *)
LEMMA AloneForward ==
  ASSUME TypeOK, Forward, ~Calm(Top) \/ ~stack'[1].begun
  PROVE  Alone'
<1>1. PICK g \in Frames : Kin(Top, g) /\ Goes(stack, g, stack')
  BY DEF Forward
<1>2. stack'[1] = g \/ ~stack'[1].begun
  BY <1>1, GoesTop
<1>3. ~Calm(Top) => ~Calm(g)
  BY <1>1 DEF Calm, Kin
<1>4. CASE ~stack'[1].begun
  BY <1>4, AloneWaits
<1>5. CASE stack'[1].begun
  <2>1. stack'[1] = g /\ ~Calm(g)
    BY <1>2, <1>3, <1>5
  <2>. QED BY <2>1, AloneTop
<1>. QED BY <1>4, <1>5

(* Who is next in the loop is a member, unless freed memory is read.       *)
LEMMA MemberWants ==
  ASSUME TypeOK, Tables, NEW f \in Frames, Marks(f), NEW u \in Users, u \in alive,
         NEW c \in Chans, u \in members[c].keys, f.kind \in {"chan", "visible"},
         IF f.kind = "chan" THEN c = f.who ELSE c \in ChansOf(f.who),
         ~Skipped(f, LinkOf[u])
  PROVE  LinkOf[u] \in f.wants /\ mark[LinkOf[u]] # ck
<1>1. u \in InMap(members[c])
  BY DEF Tables, Kept, InMap
<1>2. PICK l \in Links : l = LinkOf[u]
  BY SendtoAssumption
<1>3. mark[l] # ck /\ WantSend(f.type, l)
  BY <1>2 DEF Skipped
<1>4. l # f.exclude
  <2>1. l # None
    BY SendtoAssumption
  <2>2. f.exclude # None => mark[f.exclude] = ck
    BY DEF Marks
  <2>. QED BY <1>3, <2>1, <2>2
<1>5. CASE f.kind = "chan"
  <2>1. l \in {LinkOf[v] : v \in InMap(members[f.who])}
    BY <1>1, <1>2, <1>5
  <2>2. l \in Wants(f)
    BY <1>3, <1>4, <1>5, <2>1 DEF Wants
  <2>. QED BY <1>2, <1>3, <2>2 DEF Marks
<1>6. CASE f.kind = "visible"
  <2>1. u \in UNION {InMap(members[d]) : d \in ChansOf(f.who)}
    BY <1>1, <1>6
  <2>2. l \in {LinkOf[v] : v \in UNION {InMap(members[d]) : d \in ChansOf(f.who)}}
    BY <1>2, <2>1
  <2>3. l \in Wants(f)
    BY <1>3, <1>4, <1>6, <2>2 DEF Wants
  <2>. QED BY <1>2, <1>3, <2>3 DEF Marks
<1>. QED BY <1>5, <1>6

(* The next member of a channel.                                           *)
LEMMA AloneNextMember ==
  ASSUME TypeOK, Tables, Planted, Alone, NextMember
  PROVE  Alone'
<1>1. /\ stack # << >> /\ Top.kind \in {"chan", "visible"} /\ Top.begun /\ Top.c # None
      /\ Top.head # None /\ ~ReadsFreed(Top)
      /\ UNCHANGED << ck, members, tree, alive >>
  BY DEF NextMember, Running
<1>2. CASE ~Calm(Top) \/ ~stack'[1].begun
  BY <1>2, NextMemberDoes, AloneForward
<1>3. CASE Calm(Top) /\ stack'[1].begun
  <2>1. PICK f \in Frames : f = Top
    BY <1>1, TopType
  <2>2. Marks(f) /\ \E a \in Nat : Place(f, a)
    BY <1>1, <1>3, <2>1 DEF Alone
  <2>3. PICK a \in Nat : Place(f, a)
    BY <2>2
  <2>4. PICK c : c = f.c
    OBVIOUS
  <2>5. c \in Chans /\ f.head \in Users /\ f.head \in alive /\ c # None
    BY <1>1, <2>1, <2>4, FrameType DEF Opt, ReadsFreed
  <2>6. PICK s, t : /\ s \in SUBSET Users /\ t \in Trees[s] /\ t \in Tree
                    /\ s = members[c].keys /\ t = tree[c]
    BY <2>5 DEF TypeOK, Map, Planted
  <2>7. PICK o, b : o = Levels(t, s)[1] /\ b = Levels(t, s)[2]
    OBVIOUS
  <2>8. PICK q0 : q0 = [f |-> f, node |-> node[c]]
    OBVIOUS
  <2>9. node \in [Chans -> Nodes] /\ stack \in Seq(Frames)
    BY DEF TypeOK
  <2>10. q0 \in Queues /\ q0.f = f /\ q0.f.head # None
    BY <1>1, <2>1, <2>5, <2>8, <2>9 DEF Queues
  <2>11. PICK q : q = EachNext(q0, t)
    OBVIOUS
  <2>12. q \in Queues /\ Same(f, q.f)
    BY <2>5, <2>6, <2>10, <2>11, EachNextType
  <2>13. PICK h \in Frames : h = q.f
    BY <2>12 DEF Queues
  <2>14. PICK l : l = LinkOf[f.head]
    OBVIOUS
  <2>15. /\ node' = [node EXCEPT ![c] = q.node]
         /\ IF Skipped(f, l) THEN Pass(h) ELSE Deliver(h, l)
    BY <2>1, <2>4, <2>6, <2>8, <2>11, <2>13, <2>14 DEF NextMember
  <2>16. l \in Links /\ \E u \in Users : LinkOf[u] = l
    BY <2>5, <2>14, SendtoAssumption
  <2>17. Kin(f, h) /\ h.sent = f.sent /\ h.todo = f.todo
    BY <2>12, <2>13 DEF Same, Kin
  <2>18. OrderOf(c) = o /\ OrderOf(c)' = o /\ MetOf(c) = b /\ MetOf(c)' = b
    BY <1>1, <2>6, <2>7 DEF OrderOf, MetOf, LevelsOf
  <2>19. /\ Queue(q0, o, a, b[a - 1])
         /\ IF f.kind = "chan" THEN c = f.who ELSE c \in ChansOf(f.who)
    BY <1>1, <2>1, <2>3, <2>4, <2>8, <2>18 DEF Place, Loop
  <2>20. /\ a \in 1..Len(o) /\ f.head = o[a] /\ f.head \in s
         /\ Queue(q, o, a + 1, b[a])
    BY <2>6, <2>7, <2>10, <2>11, <2>19, NextQueue
  <2>21. ~Skipped(f, l) => l \in f.wants /\ mark[l] # ck
    BY <1>1, <2>1, <2>2, <2>5, <2>6, <2>14, <2>19, <2>20, MemberWants
  <2>22. Pass(h) \/ (Deliver(h, l) /\ mark[l] # ck /\ l \in f.wants)
    BY <2>15, <2>21
  <2>23. /\ \E g \in Frames : /\ stack'[1] = g /\ Kin(f, g) /\ g.todo = h.todo
                              /\ g.head = h.head /\ g.tail = h.tail /\ Marks(g)'
         /\ \A m \in Links : mark[m] = ck => mark'[m] = ck
         /\ Deliver(h, l) => mark'[l] = ck
    BY <1>1, <1>3, <2>1, <2>2, <2>16, <2>17, <2>22, SendMarks
  <2>24. PICK g \in Frames : /\ stack'[1] = g /\ Kin(f, g) /\ g.todo = f.todo
                             /\ g.head = h.head /\ g.tail = h.tail /\ Marks(g)'
    BY <2>17, <2>23
  <2>25. ChansOf(g.who)' = ChansOf(f.who) /\ g.c = c /\ g.kind = f.kind /\ g.who = f.who
         /\ g.wants = f.wants
    BY <1>1, <2>4, <2>24 DEF ChansOf, Kin
  <2>26. Loop(g, a + 1)'
    <3>1. node'[c] = q.node
      BY <2>5, <2>9, <2>15
    <3>2. Queue([f |-> g, node |-> node'[c]], o, a + 1, b[a])
      BY <2>13, <2>20, <2>24, <3>1 DEF Queue
    <3>3. (a + 1) - 1 = a
      OBVIOUS
    <3>. QED BY <2>18, <2>19, <2>25, <3>2, <3>3 DEF Loop
  <2>27. f.kind = "visible" => ToSet(g.todo) \subseteq ChansOf(g.who)'
    BY <2>3, <2>24, <2>25 DEF Place
  <2>28. ASSUME NEW m \in f.wants PROVE mark'[m] = ck \/ Ahead(g, a + 1, m)'
    <3>1. m \in Links
      BY FrameType
    <3>2. mark[m] = ck \/ AheadIn(f, a, m) \/ AheadLater(f, m)
      BY <2>3 DEF Place, Ahead
    <3>3. CASE mark[m] = ck
      BY <2>23, <3>1, <3>3
    <3>4. CASE AheadLater(f, m)
      <4>1. AheadLater(g, m)'
        BY <1>1, <2>4, <2>24, <2>25, <3>4 DEF AheadLater
      <4>. QED BY <4>1 DEF Ahead
    <3>5. CASE AheadIn(f, a, m) /\ mark[m] # ck
      <4>1. PICK i \in a..Len(o) : LinkOf[o[i]] = m
        BY <2>4, <2>18, <3>5 DEF AheadIn
      <4>2. CASE i = a
        <5>1. m = l /\ m \in Wants(f)
          BY <2>2, <2>14, <2>20, <4>1, <4>2 DEF Marks
        <5>2. WantSend(f.type, m)
          BY <1>1, <2>1, <5>1 DEF Wants
        <5>3. ~Skipped(f, l)
          BY <3>5, <5>1, <5>2 DEF Skipped
        <5>. QED BY <2>15, <2>23, <5>1, <5>3
      <4>3. CASE i # a
        <5>1. i \in (a + 1)..Len(o)
          BY <4>1, <4>3, <2>20
        <5>2. AheadIn(g, a + 1, m)'
          BY <2>5, <2>18, <2>25, <4>1, <5>1 DEF AheadIn
        <5>. QED BY <5>2 DEF Ahead
      <4>. QED BY <4>2, <4>3
    <3>. QED BY <3>2, <3>3, <3>4, <3>5
  <2>29. Place(g, a + 1)'
    BY <1>1, <2>25, <2>26, <2>27, <2>28 DEF Place
  <2>30. a + 1 \in Nat
    OBVIOUS
  <2>. QED BY <2>24, <2>29, <2>30, AloneTop
<1>. QED BY <1>2, <1>3

(* The next server.                                                        *)
LEMMA AloneNextServer ==
  ASSUME TypeOK, Alone, NextServer
  PROVE  Alone'
<1>1. /\ stack # << >> /\ Top.kind = "servers" /\ Top.begun /\ Top.todo # << >>
      /\ ~ReadsFreed(Top) /\ UNCHANGED << ck, members, node, alive >>
  BY DEF NextServer, Running
<1>2. CASE ~Calm(Top) \/ ~stack'[1].begun
  BY <1>2, NextServerDoes, AloneForward
<1>3. CASE Calm(Top) /\ stack'[1].begun
  <2>1. PICK f \in Frames : f = Top
    BY <1>1, TopType
  <2>2. Marks(f) /\ \E a \in Nat : Place(f, a)
    BY <1>1, <1>3, <2>1 DEF Alone
  <2>3. PICK a \in Nat : Place(f, a)
    BY <2>2
  <2>4. PICK s : s = f.todo
    OBVIOUS
  <2>5. s \in Seq(ServerLinks) /\ f.c = None /\ f.begun
    BY <1>1, <2>1, <2>4 DEF Frames, Proper
  <2>6. PICK l : l = Head(s)
    OBVIOUS
  <2>7. l = s[1] /\ l \in ServerLinks /\ Len(s) \in Nat \ {0} /\ l \in alive
    BY <1>1, <2>1, <2>4, <2>5, <2>6 DEF ReadsFreed
  <2>8. PICK r : r = Rest(s)
    OBVIOUS
  <2>9. /\ r \in Seq(ServerLinks)
        /\ \A i \in 2..Len(s) : s[i] \in alive => s[i] \in ToSet(r)
    <3>1. r = From(s, 2)
      BY <2>8 DEF Rest
    <3>. QED BY <2>5, <3>1, FromRight
  <2>10. PICK h : h = [f EXCEPT !.todo = r]
    OBVIOUS
  <2>11. h \in Frames /\ Kin(f, h) /\ h.todo = r /\ h.sent = f.sent
    BY <1>1, <2>1, <2>9, <2>10, TodoFrame
  <2>12. IF Skipped(h, l) THEN Pass(h) ELSE Deliver(h, l)
    BY <2>1, <2>4, <2>6, <2>8, <2>10 DEF NextServer
  <2>13. Skipped(h, l) <=> mark[l] = ck
    BY <1>1, <2>1, <2>11 DEF Skipped, Kin
  <2>14. l \in Links
    BY <2>7 DEF Links
  <2>15. mark[l] # ck => l \in f.wants
    <3>1. l # None
      BY <2>14, SendtoAssumption
    <3>2. mark[l] # ck => l # f.exclude
      BY <2>2, <3>1 DEF Marks
    <3>3. mark[l] # ck => l \in Wants(f)
      BY <1>1, <2>1, <2>7, <3>2 DEF Wants
    <3>. QED BY <2>2, <3>3 DEF Marks
  <2>16. Pass(h) \/ (Deliver(h, l) /\ mark[l] # ck /\ l \in f.wants)
    BY <2>12, <2>13, <2>15
  <2>17. /\ \E g \in Frames : /\ stack'[1] = g /\ Kin(f, g) /\ g.todo = h.todo
                              /\ g.head = h.head /\ g.tail = h.tail /\ Marks(g)'
         /\ \A m \in Links : mark[m] = ck => mark'[m] = ck
         /\ Deliver(h, l) => mark'[l] = ck
    BY <1>1, <1>3, <2>2, <2>5, <2>7, <2>11, <2>14, <2>16, SendMarks
  <2>18. PICK g \in Frames : stack'[1] = g /\ Kin(f, g) /\ g.todo = r /\ Marks(g)'
    BY <2>11, <2>17
  <2>19. g.c = None /\ g.kind = "servers" /\ g.wants = f.wants
    BY <1>1, <2>1, <2>5, <2>18 DEF Kin
  <2>20. ASSUME NEW m \in f.wants PROVE mark'[m] = ck \/ Ahead(g, 0, m)'
    <3>1. m \in Links
      BY FrameType
    <3>2. mark[m] = ck \/ m \in ToSet(s)
      BY <1>1, <2>1, <2>3, <2>4, <2>5 DEF Place, Ahead, AheadIn, AheadLater
    <3>3. CASE mark[m] = ck
      BY <2>17, <3>1, <3>3
    <3>4. CASE mark[m] # ck /\ m \in ToSet(s)
      <4>1. PICK i \in 1..Len(s) : s[i] = m
        BY <2>5, <3>4 DEF ToSet
      <4>2. CASE i = 1
        <5>1. m = l
          BY <2>7, <4>1, <4>2
        <5>. QED BY <2>12, <2>13, <2>17, <3>4, <5>1
      <4>3. CASE i # 1
        <5>1. i \in 2..Len(s)
          BY <4>1, <4>3
        <5>2. m \in alive
          <6>1. m \in Wants(f)
            BY <2>2 DEF Marks
          <6>. QED BY <1>1, <2>1, <6>1 DEF Wants
        <5>3. m \in ToSet(g.todo)
          BY <2>9, <2>18, <4>1, <5>1, <5>2
        <5>. QED BY <2>19, <5>3 DEF Ahead, AheadLater
      <4>. QED BY <4>2, <4>3
    <3>. QED BY <3>2, <3>3, <3>4
  <2>21. Place(g, 0)'
    BY <1>1, <2>19, <2>20 DEF Place, Loop
  <2>22. 0 \in Nat
    OBVIOUS
  <2>. QED BY <2>18, <2>21, <2>22, AloneTop
<1>. QED BY <1>2, <1>3

(* An empty queue means that the loop has been at every node.              *)
LEMMA QueueEnd ==
  ASSUME NEW q \in Queues, q.f.head = None, NEW s \in SUBSET Users, NEW t \in Trees[s],
         NEW o, o = Levels(t, s)[1], NEW b, b = Levels(t, s)[2], NEW a \in Nat,
         Queue(q, o, a, b[a - 1])
  PROVE  a > Len(o) /\ Len(o) \in Nat
<1>1. PICK k : k = b[a - 1]
  OBVIOUS
<1>2. /\ Distinct(o) /\ o \in Seq(Users) /\ Len(o) \in Nat
      /\ \A i \in 1..Len(o) : i <= b[i - 1]
  BY LevelsRight DEF Distinct, Follows
<1>3. a \in 1..(Len(o) + 1) /\ k \in (a - 1)..Len(o)
  BY <1>1, <1>2 DEF Queue
<1>4. a > k
  <2> SUFFICES ASSUME a <= k PROVE FALSE
    BY <1>2, <1>3
  <2>1. q.f.head = o[a] /\ o[a] \in Users
    BY <1>1, <1>2, <1>3 DEF Queue
  <2>. QED BY <2>1, SendtoAssumption
<1>. QED BY <1>1, <1>2, <1>3, <1>4

(* Then nobody is ahead in this channel.                                   *)
LEMMA NothingAhead ==
  ASSUME TypeOK, Planted, NEW f \in Frames, f.c # None, f.head = None, NEW a \in Nat,
         Place(f, a)
  PROVE  \A l \in f.wants : mark[l] = ck \/ AheadLater(f, l)
<1>1. PICK c \in Chans : c = f.c
  BY FrameType DEF Opt
<1>2. PICK s, t : /\ s \in SUBSET Users /\ t \in Trees[s]
                  /\ s = members[c].keys /\ t = tree[c]
  BY <1>1 DEF TypeOK, Map, Planted
<1>3. PICK o, b : o = Levels(t, s)[1] /\ b = Levels(t, s)[2]
  OBVIOUS
<1>4. OrderOf(c) = o /\ MetOf(c) = b
  BY <1>2, <1>3 DEF OrderOf, MetOf, LevelsOf
<1>5. PICK q : q = [f |-> f, node |-> node[c]]
  OBVIOUS
<1>6. q \in Queues /\ q.f.head = None
  BY <1>5 DEF TypeOK, Queues
<1>7. Queue(q, o, a, b[a - 1])
  BY <1>1, <1>4, <1>5 DEF Place, Loop
<1>8. a > Len(o) /\ Len(o) \in Nat
  BY ONLY <1>2, <1>3, <1>6, <1>7, a \in Nat, QueueEnd
<1>9. \A l : ~AheadIn(f, a, l)
  BY <1>1, <1>4, <1>8 DEF AheadIn
<1>. QED BY <1>9 DEF Place, Ahead

(* The members of a channel are done.                                      *)
LEMMA AloneEndMembers ==
  ASSUME TypeOK, OnTop, Planted, Alone, EndMembers
  PROVE  Alone'
<1>1. /\ stack # << >> /\ Top.begun /\ Top.c # None /\ Top.head = None /\ Top \in Frames
      /\ members' = [members EXCEPT ![Top.c] = EachEnd(@)]
      /\ UNCHANGED << ck, mark, ln, alive, quit >>
  BY TopType DEF EndMembers, Running
<1>2. CASE Back
  BY <1>1, <1>2, AloneBack DEF Busy
<1>3. CASE ~Back
  <2>1. PICK f \in Frames : f = Top
    BY <1>1
  <2>2. PICK g \in Frames : g = [f EXCEPT !.c = None]
    BY <1>3, <2>1, EndMembersDoes
  <2>3. Top.kind = "visible" /\ stack' = << g >> \o Tail(stack)
    BY <1>1, <1>3, <2>1, <2>2 DEF EndMembers, Running, Return, Back
  <2>4. stack \in Seq(Frames)
    BY DEF TypeOK
  <2>5. stack'[1] = g
    BY <2>3, <2>4
  <2>6. /\ g.kind = f.kind /\ g.who = f.who /\ g.type = f.type /\ g.exclude = f.exclude
        /\ g.begun = f.begun /\ g.id = f.id /\ g.c = None /\ g.wants = f.wants
        /\ g.alone = f.alone /\ g.fresh = f.fresh /\ g.todo = f.todo /\ g.sent = f.sent
    BY <1>1, <2>1, <2>2, <2>3, LoopFrame DEF Opt
  <2> SUFFICES ASSUME Calm(g) PROVE Marks(g)' /\ Place(g, 0)'
    BY <2>5, AloneTop
  <2>7. Marks(f) /\ \E a \in Nat : Place(f, a)
    BY <1>1, <2>1, <2>6 DEF Alone, Calm
  <2>8. PICK a \in Nat : Place(f, a)
    BY <2>7
  <2>9. f.c \in Chans
    BY <1>1, <2>1, FrameType DEF Opt
  <2>10. \A c \in Chans : members'[c].live = members[c].live
    <3>1. members \in [Chans -> Map]
      BY DEF TypeOK
    <3>2. PICK m \in Map : m = members[f.c]
      BY <2>9, <3>1
    <3>3. EachEnd(m).live = m.live
      BY LoopMap
    <3>. QED BY <1>1, <2>1, <2>9, <3>1, <3>2, <3>3
  <2>11. Marks(g)' /\ ChansOf(g.who)' = ChansOf(f.who)
    BY <1>1, <2>6, <2>7, <2>10, MarksKeep
  <2>12. \A l \in f.wants : mark[l] = ck \/ AheadLater(f, l)
    BY <1>1, <2>1, <2>8, NothingAhead
  <2>13. ASSUME NEW l \in f.wants PROVE mark[l] = ck \/ AheadLater(g, l)'
    <3>1. ToSet(f.todo) \subseteq Chans
      BY <2>1, <2>3, <2>8 DEF Place, ChansOf
    <3>2. CASE AheadLater(f, l)
      <4>1. PICK c \in ToSet(f.todo) : \E u \in InMap(members[c]) : LinkOf[u] = l
        BY <2>1, <2>3, <3>2 DEF AheadLater
      <4>2. \E u \in InMap(members'[c]) : LinkOf[u] = l
        BY <2>10, <3>1, <4>1 DEF InMap
      <4>. QED BY <2>1, <2>3, <2>6, <4>1, <4>2 DEF AheadLater
    <3>. QED BY <2>12, <3>2
  <2>14. ToSet(g.todo) \subseteq ChansOf(g.who)'
    BY <2>1, <2>3, <2>6, <2>8, <2>11 DEF Place
  <2>15. mark' = mark /\ ck' = ck
    BY <1>1
  <2>. QED BY <2>6, <2>11, <2>13, <2>14, <2>15 DEF Place, Loop, Ahead
<1>. QED BY <1>2, <1>3

(* Steps of the loop of an event: what is on top stays or is nothing.      *)
LEMMA AloneStays ==
  ASSUME Alone, UNCHANGED << ck, mark, ln, members, tree, node, stack, alive, quit >>
  PROVE  Alone'
<1>1. \A f \in Frames : Marks(f)' = Marks(f)
  <2>1. \A f : Wants(f)' = Wants(f)
    BY DEF Wants, ChansOf
  <2>. QED BY <2>1 DEF Marks
<1>2. \A f \in Frames, a \in Nat : Place(f, a)' = Place(f, a)
  BY DEF Place, Loop, OrderOf, MetOf, LevelsOf, ChansOf, Ahead, AheadIn, AheadLater
<1>3. stack' = stack
  OBVIOUS
<1>. QED BY <1>1, <1>2, <1>3 DEF Alone, Top

(* Every step keeps what is known of the call on top.                      *)
LEMMA AloneStep ==
  ASSUME TypeOK, Planted, Tables, OnTop, Alone, [Next]_vars
  PROVE  Alone'
<1>1. CASE Command
  <2>1. PICK g : Waits(g) /\ stack' = << g >>
    BY <1>1, CommandDoes
  <2>2. ~stack'[1].begun
    BY <2>1 DEF Waits
  <2>. QED BY <2>2, AloneWaits
<1>2. CASE Begin
  BY <1>2, AloneBegins
<1>3. CASE ChanMembers \/ VisibleMembers
  BY <1>3, AloneChanMembers, AloneVisibleMembers
<1>4. CASE NextMember
  BY <1>4, AloneNextMember
<1>5. CASE EndMembers
  BY <1>5, AloneEndMembers
<1>6. CASE VisibleEnd \/ ServersEnd
  <2>1. Busy
    BY <1>6 DEF VisibleEnd, ServersEnd, Busy
  <2>. QED BY <1>6, <2>1, CallEndDoes, AloneBack
<1>7. CASE NextServer
  BY <1>7, AloneNextServer
<1>8. CASE Destroy
  <2>1. Busy
    BY <1>8 DEF Destroy, Running, Busy, CallKinds
  <2>. QED BY <1>8, <2>1, DestroyDoes, AloneBack
<1>9. CASE SplitEnd
  <2>1. Busy
    BY <1>9 DEF SplitEnd, Busy
  <2>. QED BY <1>9, <2>1, SplitEndDoes, AloneBack
<1>10. CASE SplitBegin
  <2>1. PICK g \in Frames : g.kind = "split" /\ Goes(stack, g, stack')
    BY <1>10, SplitBeginDoes
  <2>2. stack'[1] = g \/ ~stack'[1].begun
    BY <2>1, GoesTop
  <2>3. ~(stack'[1].kind \in CallKinds /\ stack'[1].begun)
    BY <2>1, <2>2 DEF CallKinds
  <2>. QED BY <2>3, AloneWaits
<1>11. CASE SplitUser
  <2>1. Forward /\ ~Calm(Top)
    BY <1>11, SplitUserDoes DEF Calm, CallKinds
  <2>. QED BY <2>1, AloneForward
<1>12. CASE Tick \/ Upgrade
  <2>1. stack' = << >>
    BY <1>12 DEF Tick, Upgrade
  <2>. QED BY <2>1, AloneWaits
<1>13. CASE Lose \/ UNCHANGED vars
  <2>1. UNCHANGED << ck, mark, ln, members, tree, node, stack, alive, quit >>
    BY <1>13 DEF Lose, vars
  <2>. QED BY <2>1, AloneStays
<1>. QED BY <1>1, <1>2, <1>3, <1>4, <1>5, <1>6, <1>7, <1>8, <1>9, <1>10, <1>11, <1>12, <1>13
        DEF Next, Step

(* Every step leaves an alone call only under one that is to begin.        *)
LEMMA OnTopStep ==
  ASSUME TypeOK, Planted, OnTop, [Next]_vars
  PROVE  OnTop'
<1>1. CASE Command
  <2>1. PICK g : stack' = << g >>
    BY <1>1, CommandDoes
  <2>2. Len(stack') = 1
    BY <2>1
  <2>. QED BY <2>2 DEF OnTop
<1>2. CASE Begin
  <2>1. /\ Len(stack') = Len(stack)
        /\ \A k \in 2..Len(stack) : /\ stack'[k].begun = stack[k].begun
                                    /\ stack'[k].alone = ~stack[k].begun
    BY <1>2, BeginDoes
  <2>2. \A k \in 2..Len(stack') : ~(stack'[k].begun /\ stack'[k].alone)
    BY <2>1
  <2>. QED BY <2>2 DEF OnTop
<1>3. CASE ChanMembers \/ VisibleMembers
  <2>1. Busy
    BY <1>3 DEF ChanMembers, VisibleMembers, Busy
  <2>. QED BY <1>3, <2>1, LoopStarts, OnTopGoes
<1>4. CASE NextMember \/ NextServer
  <2>1. Busy
    BY <1>4 DEF NextMember, NextServer, Busy
  <2>. QED BY <1>4, <2>1, NextMemberDoes, NextServerDoes, OnTopGoes DEF Forward
<1>5. CASE EndMembers
  <2>1. Busy
    BY <1>5 DEF EndMembers, Busy
  <2>. QED BY <1>5, <2>1, EndMembersDoes, OnTopGoes, OnTopBack
<1>6. CASE VisibleEnd \/ ServersEnd
  <2>1. Busy
    BY <1>6 DEF VisibleEnd, ServersEnd, Busy
  <2>. QED BY <1>6, <2>1, CallEndDoes, OnTopBack
<1>7. CASE Destroy
  <2>1. Busy
    BY <1>7 DEF Destroy, Running, Busy, CallKinds
  <2>. QED BY <1>7, <2>1, DestroyDoes, OnTopBack
<1>8. CASE SplitEnd
  <2>1. Busy
    BY <1>8 DEF SplitEnd, Busy
  <2>. QED BY <1>8, <2>1, SplitEndDoes, OnTopBack
<1>9. CASE SplitBegin
  <2>1. Busy
    BY <1>9, SplitBeginDoes DEF Busy, CallKinds
  <2>. QED BY <1>9, <2>1, SplitBeginDoes, OnTopGoes
<1>10. CASE SplitUser
  <2>1. Busy
    BY <1>10 DEF SplitUser, Busy
  <2>. QED BY <1>10, <2>1, SplitUserDoes, OnTopGoes DEF Forward
<1>11. CASE Tick \/ Upgrade \/ Lose \/ UNCHANGED vars
  <2>1. stack' = stack
    BY <1>11, StillDoes
  <2>. QED BY <2>1 DEF OnTop, Top
<1>. QED BY <1>1, <1>2, <1>3, <1>4, <1>5, <1>6, <1>7, <1>8, <1>9, <1>10, <1>11
        DEF Next, Step

(* A call that returns without anything ahead has done what it was for.    *)
LEMMA ReturnedOnce ==
  ASSUME TypeOK, NEW f \in Frames, last' = Returned(f),
         f.alone /\ f.fresh => Marks(f) /\ \A l \in f.wants : mark[l] = ck
  PROVE  ExactlyOnce'
<1>1. /\ Returned(f).wants = f.wants \ quit /\ Returned(f).alone = f.alone
      /\ Returned(f).fresh = f.fresh /\ Returned(f).sent = f.sent /\ Returned(f).id = f.id
  BY ReturnedFrame
<1> SUFFICES ASSUME f.alone, f.fresh
             PROVE  \A l \in Links :
                      f.sent[l] = IF l \in f.wants \ quit THEN << f.id >> ELSE << >>
  BY <1>1 DEF ExactlyOnce
<1>. QED BY AllSent

(* Every step keeps the promise of the calls that have returned.           *)
LEMMA ExactlyOnceStep ==
  ASSUME TypeOK, Planted, Alone, ExactlyOnce, [Next]_vars
  PROVE  ExactlyOnce'
<1>1. CASE Command \/ Tick \/ Upgrade
  <2>1. last' = None
    BY <1>1 DEF Command, Tick, Upgrade
  <2>. QED BY <2>1 DEF ExactlyOnce
<1>2. CASE last' = last
  BY <1>2 DEF ExactlyOnce
<1>3. CASE VisibleEnd \/ ServersEnd
  <2>1. PICK f \in Frames : f = Top
    BY <1>3, TopType DEF VisibleEnd, ServersEnd, Running
  <2>2. /\ stack # << >> /\ f.kind \in {"visible", "servers"} /\ f.begun /\ f.todo = << >>
        /\ f.c = None /\ last' = Returned(f)
    BY <1>3, <2>1, CallEndDoes DEF VisibleEnd, ServersEnd, Running
  <2>3. ToSet(f.todo) = {}
    BY <2>2 DEF ToSet
  <2>4. ASSUME f.alone, f.fresh PROVE Marks(f) /\ \A l \in f.wants : mark[l] = ck
    <3>1. Marks(f) /\ \E a \in Nat : Place(f, a)
      BY <2>1, <2>2, <2>4 DEF Alone, Calm, CallKinds
    <3>2. PICK a \in Nat : Place(f, a)
      BY <3>1
    <3>3. \A l : ~Ahead(f, a, l)
      BY <2>2, <2>3 DEF Ahead, AheadIn, AheadLater
    <3>. QED BY <3>1, <3>2, <3>3 DEF Place
  <2>. QED BY <2>2, <2>4, ReturnedOnce
<1>4. CASE EndMembers /\ last' # last
  <2>1. PICK f \in Frames : f = Top
    BY <1>4, TopType DEF EndMembers, Running
  <2>2. /\ stack # << >> /\ f.kind = "chan" /\ f.begun /\ f.c # None /\ f.head = None
        /\ last' = Returned(f)
    BY <1>4, <2>1 DEF EndMembers, Running
  <2>3. ASSUME f.alone, f.fresh PROVE Marks(f) /\ \A l \in f.wants : mark[l] = ck
    <3>1. Marks(f) /\ \E a \in Nat : Place(f, a)
      BY <2>1, <2>2, <2>3 DEF Alone, Calm, CallKinds
    <3>2. PICK a \in Nat : Place(f, a)
      BY <3>1
    <3>3. \A l \in f.wants : mark[l] = ck \/ AheadLater(f, l)
      BY <2>2, <3>2, NothingAhead
    <3>4. \A l : ~AheadLater(f, l)
      BY <2>2 DEF AheadLater
    <3>. QED BY <3>1, <3>3, <3>4
  <2>. QED BY <2>2, <2>3, ReturnedOnce
<1>5. \/ Command \/ Tick \/ Upgrade \/ VisibleEnd \/ ServersEnd \/ EndMembers \/ last' = last
  BY DEF Next, Step, Begin, ChanMembers, NextMember, VisibleMembers, NextServer, Destroy,
         SplitBegin, SplitUser, SplitEnd, Lose, vars
<1>. QED BY <1>1, <1>2, <1>3, <1>4, <1>5

-----------------------------------------------------------------------------
(* The invariant, and the theorems.                                        *)

IInv ==
    /\ TypeOK /\ Planted /\ Marked /\ Counted /\ Tables
    /\ OnTop /\ Alone /\ ExactlyOnce

(* No loop is open on an empty stack.                                      *)
LEMMA NumNone ==
  ASSUME NEW c
  PROVE  NumIn(<< >>, c) = 0
<1>1. OpenIn(<< >>, c) = {}
  BY DEF OpenIn
<1>2. Cardinality({}) = 0
  BY FS_EmptySet
<1>. QED BY <1>1, <1>2 DEF NumIn

(* It holds at the start:                                                  *)
LEMMA InitInvariant == Init => IInv
<1> SUFFICES ASSUME Init PROVE IInv
  OBVIOUS
<1>1. TypeOK /\ Planted /\ Marked
  BY InitType, MarkedInit
<1>2. /\ stack = << >> /\ last = None /\ alive = Users \cup ServerLinks \cup Chans
      /\ members = [c \in Chans |-> MembersMap(Members[c])]
  BY DEF Init
<1>3. \A c \in Chans : /\ members[c].keys = Members[c] /\ members[c].live = Members[c]
                       /\ members[c].depth = 0
  BY <1>2 DEF MembersMap
<1>4. Counted
  BY <1>2, <1>3, NumNone DEF Counted
<1>5. Tables
  <2>1. \A c \in Chans : Members[c] \subseteq Users /\ Members[c] # {}
    BY SendtoAssumption
  <2>. QED BY <1>2, <1>3, <2>1 DEF Tables, Kept
<1>6. Len(stack) = 0
  BY <1>2
<1>7. OnTop /\ Alone /\ ExactlyOnce
  BY <1>2, <1>6 DEF OnTop, Alone, ExactlyOnce
<1>. QED BY <1>1, <1>4, <1>5, <1>7 DEF IInv

(* every step keeps it,                                                    *)
LEMMA StepInvariant == IInv /\ [Next]_vars => IInv'
<1> SUFFICES ASSUME IInv, [Next]_vars PROVE IInv'
  OBVIOUS
<1>1. TypeOK /\ Planted /\ Marked /\ Counted /\ Tables /\ OnTop /\ Alone /\ ExactlyOnce
  BY DEF IInv
<1>2. TypeOK' /\ Planted'
  BY <1>1, NextType
<1>3. Marked'
  BY <1>1, MarkedStep
<1>4. Counted'
  BY <1>1, CountedStep
<1>5. Tables'
  BY <1>1, TablesStep
<1>6. OnTop'
  BY <1>1, OnTopStep
<1>7. Alone'
  BY <1>1, AloneStep
<1>8. ExactlyOnce'
  BY <1>1, ExactlyOnceStep
<1>. QED BY <1>2, <1>3, <1>4, <1>5, <1>6, <1>7, <1>8 DEF IInv

(* so it always holds.                                                     *)
THEOREM Invariant == Spec => []IInv
<1>. QED BY InitInvariant, StepInvariant, PTL DEF Spec

(* The types: every frame on the stack is one of a call, of a server that  *)
(* splits or of a user that is destroyed, with what such a frame is about. *)
THEOREM TypesRight == Spec => []TypeOK
<1>1. IInv => TypeOK
  BY DEF IInv
<1>. QED BY <1>1, Invariant, PTL

(* A call that ran alone under a fresh cookie has queued its line once for *)
(* every link it was for and for no other, whoever shares a link or meets  *)
(* the call through several channels.                                      *)
THEOREM EveryCallOnce == Spec => []ExactlyOnce
<1>1. IInv => ExactlyOnce
  BY DEF IInv
<1>. QED BY <1>1, Invariant, PTL

(* Every cookie is later than all marks, as long as the clock goes forward *)
(* and no upgrade takes less than a second.                                *)
THEOREM CookiesFresh == Spec => []FreshCookie
<1>1. IInv => FreshCookie
  <2>1. stack \in Seq(Frames) => DOMAIN stack = 1..Len(stack)
    OBVIOUS
  <2>. QED BY <2>1 DEF IInv, Marked, AllFresh, FreshCookie, TypeOK
<1>. QED BY <1>1, Invariant, PTL

(* When all has returned the channels are whole: no loop is open on one    *)
(* that is there, nothing waits to be deleted, and its members are there.  *)
THEOREM AllSettled == Spec => []Settled
<1>1. IInv => Settled
  <2> SUFFICES ASSUME IInv, stack = << >>, NEW c \in Chans \cap alive
               PROVE  /\ members[c].depth = 0 /\ InMap(members[c]) # {}
                      /\ members[c].keys = InMap(members[c]) /\ InMap(members[c]) \subseteq alive
    BY DEF Settled
  <2>1. members[c].depth = 0
    BY NumNone DEF IInv, Counted
  <2>2. Kept(c)
    BY DEF IInv, Tables
  <2>. QED BY <2>1, <2>2 DEF Kept, InMap
<1>. QED BY <1>1, Invariant, PTL
=============================================================================
