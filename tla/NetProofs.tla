----------------------------- MODULE NetProofs -----------------------------
(***************************************************************************)
(* Proofs about Net, for any network of servers, users and nicks, any      *)
(* lines between the servers and any bounds on operations and breaks.      *)
(*                                                                         *)
(* The invariant is about the tables of one server at a time, and the type *)
(* of what is under way.  A step changes the tables of one server; what    *)
(* that server makes of them is the first part of this module, what it     *)
(* sends the second, the actions the third.  The fourth part is about what *)
(* the servers know of each other, when the lines between them are a tree. *)
(***************************************************************************)
EXTENDS Net, WellFoundedInduction, FiniteSetTheorems, SequenceTheorems, TLAPS

(***************************************************************************)
(* Induction and recursion in a form the provers can apply: about sets and *)
(* functions, not about operators.                                         *)
(***************************************************************************)
(* What holds at 0 and at i when it does at i - 1 holds up to a bound.      *)
LEMMA IndexInduction ==
  ASSUME NEW b \in Nat, NEW S, 0 \in S, \A i \in 1..b : i - 1 \in S => i \in S
  PROVE  0..b \subseteq S
<1> DEFINE T == 0..b \ S
           R == {ss \in Nat \X Nat : ss[1] < ss[2]}
<1>. SUFFICES ASSUME T # {} PROVE FALSE
  OBVIOUS
<1>1. IsWellFoundedOn(R, Nat)
  BY NatLessThanWellFounded DEF OpToRel
<1>2. PICK x \in T : \A y \in T : ~(<<y, x>> \in R)
  <2>1. T \subseteq Nat
    OBVIOUS
  <2> HIDE DEF R, T
  <2>. QED BY <1>1, <2>1, WFMin
<1>3. x \in 1..b /\ x - 1 \in 0..b /\ <<x - 1, x>> \in R
  OBVIOUS
<1>. QED BY <1>2, <1>3

(* b steps from x, of which the i-th applies the function G[i]: the values  *)
(* along the way are those of a recursive function, and in the set S.      *)
LEMMA StepsExist ==
  ASSUME NEW S, NEW x \in S, NEW b \in Nat, NEW G \in [1..b -> [S -> S]]
  PROVE  \E f \in [0..b -> S] : f[0] = x /\ \A i \in 1..b : f[i] = G[i][f[i - 1]]
<1> DEFINE Good(n, f) == /\ f \in [0..n -> S] /\ f[0] = x
                         /\ \A i \in 1..n : f[i] = G[i][f[i - 1]]
           T == {n \in 0..b : \E f : Good(n, f)}
<1>1. 0 \in T
  <2>1. Good(0, [i \in 0..0 |-> x])
    OBVIOUS
  <2> HIDE DEF Good
  <2>. QED BY <2>1
<1>2. ASSUME NEW n \in 1..b, n - 1 \in T PROVE n \in T
  <2>1. PICK f : Good(n - 1, f)
    BY <1>2
  <2> DEFINE g == [i \in 0..n |-> IF i = n THEN G[n][f[n - 1]] ELSE f[i]]
  <2>2. Good(n, g)
    BY <2>1
  <2> HIDE DEF Good, g
  <2>. QED BY <2>2
<1>3. b \in T
  <2> HIDE DEF T
  <2>1. 0..b \subseteq T
    BY <1>1, <1>2, IndexInduction
  <2>. QED BY <2>1
<1>. QED BY <1>3


\* The tables st of s are right, and as good as the tables "was" before them.
Ok(s, st, registered) == st \in Tables /\ Sane(s, st, registered)
TsKept(was, st) == was.chan.there /\ st.chan.there => st.chan.ts <= was.chan.ts

ChanType == [ts : 0..MaxTime, mod : BOOLEAN, members : SUBSET Users,
             opers : SUBSET Users, there : BOOLEAN]

-----------------------------------------------------------------------------
(* The tables of one server.                                               *)

(* A record of tables, by its fields.                                      *)
LEMMA TablesParts ==
  \A st : st \in Tables =>
    /\ st.parent \in [Servers -> Servers \cup {None}] /\ st.here \subseteq Users
    /\ st.nick \in [Users -> Nicks \cup {None}] /\ st.byNick \in [Nicks -> Users \cup {None}]
    /\ st.chan \in ChanType
BY DEF Tables, ChanType

(* No channel is a channel.                                                *)
LEMMA NoChanSane == NoChan \in ChanType /\ ChanSane(NoChan) /\ ~NoChan.there
BY NetAssumption DEF NoChan, ChanType, ChanSane

(* New contents of a channel.                                              *)
LEMMA NewChan ==
  ASSUME NEW s, NEW st, NEW rg, Ok(s, st, rg), NEW c \in ChanType, ChanSane(c),
         NEW st2, st2 = [st EXCEPT !.chan = c]
  PROVE  Ok(s, st2, rg) /\ st2.chan = c /\ st2.here = st.here
<1>1. /\ st2 \in Tables /\ st2.chan = c /\ st2.parent = st.parent /\ st2.here = st.here
      /\ st2.nick = st.nick /\ st2.byNick = st.byNick
  BY DEF Ok, Tables, ChanType
<1>. QED BY <1>1 DEF Ok, Sane, EntriesRight, Named, NoOrphans, Knows

(* u_chan_user_add *)
LEMMA ChanAddOk ==
  ASSUME NEW s, NEW st, NEW rg, Ok(s, st, rg), st.chan.there, NEW us \in SUBSET Users
  PROVE  LET r == ChanAdd(st, us)
         IN  Ok(s, r, rg) /\ TsKept(st, r) /\ r.here = st.here
<1> DEFINE c == [st.chan EXCEPT !.members = @ \cup us]
<1>1. st \in Tables /\ st.chan \in ChanType /\ ChanSane(st.chan)
  BY TablesParts DEF Ok, Sane
<1>2. c \in ChanType /\ ChanSane(c) /\ c.ts = st.chan.ts /\ c.there
  BY <1>1 DEF ChanType, ChanSane
<1>3. ChanAdd(st, us) = [st EXCEPT !.chan = c]
  BY <1>1 DEF ChanAdd, Tables
<1> HIDE DEF c
<1>4. /\ Ok(s, ChanAdd(st, us), rg) /\ ChanAdd(st, us).chan = c
      /\ ChanAdd(st, us).here = st.here
  BY <1>2, <1>3, NewChan
<1>. QED BY <1>1, <1>2, <1>4 DEF TsKept, ChanType

(* u_chan_user_del and u_chan_drop *)
LEMMA ChanDelOk ==
  ASSUME NEW s, NEW st, NEW rg, Ok(s, st, rg), NEW us \in SUBSET Users
  PROVE  LET r == ChanDel(st, us)
         IN  /\ Ok(s, r, rg) /\ TsKept(st, r)
             /\ r.parent = st.parent /\ r.here = st.here /\ r.nick = st.nick
             /\ r.byNick = st.byNick
<1> DEFINE left == st.chan.members \ us
           c == IF left = {} THEN NoChan
                ELSE [st.chan EXCEPT !.members = left, !.opers = @ \ us]
<1>1. st \in Tables /\ st.chan \in ChanType /\ ChanSane(st.chan)
  BY TablesParts DEF Ok, Sane
<1>2. CASE st.chan.members \cap us = {}
  BY <1>1, <1>2 DEF ChanDel, TsKept, ChanType
<1>3. CASE st.chan.members \cap us # {}
  <2>1. c \in ChanType /\ ChanSane(c) /\ (c.there => c.ts = st.chan.ts)
    <3>1. CASE left = {}
      BY <3>1, NoChanSane
    <3>2. CASE left # {}
      <4>1. /\ c.members = left /\ c.opers = st.chan.opers \ us /\ c.ts = st.chan.ts
            /\ c.there = st.chan.there /\ c \in ChanType
        BY <1>1, <3>2 DEF ChanType
      <4>2. st.chan.there
        BY <1>1, <1>3 DEF ChanSane, NoChan
      <4>. QED BY <1>1, <4>1, <4>2 DEF ChanSane
    <3>. QED BY <3>1, <3>2
  <2>2. ChanDel(st, us) = [st EXCEPT !.chan = c]
    BY ONLY <1>3 DEF ChanDel
  <2> HIDE DEF c
  <2>3. PICK r : r = ChanDel(st, us)
    OBVIOUS
  <2>4. Ok(s, r, rg) /\ r.chan = c
    BY <2>1, <2>2, <2>3, NewChan
  <2>5. /\ r.parent = st.parent /\ r.here = st.here /\ r.nick = st.nick
        /\ r.byNick = st.byNick
    BY <1>1, <2>2, <2>3 DEF Tables
  <2>6. TsKept(st, r)
    BY <1>1, <2>1, <2>4 DEF TsKept, ChanType
  <2>. QED BY <2>3, <2>4, <2>5, <2>6
<1>. QED BY <1>2, <1>3

(* u_user_destroy: the nick goes with its user, and so do no other users'. *)
LEMMA DestroyOk ==
  ASSUME NEW s, NEW st, NEW rg, Ok(s, st, rg), NEW us \in SUBSET Users
  PROVE  LET r == Destroy(st, us)
         IN  /\ Ok(s, r, rg) /\ TsKept(st, r)
             /\ r.here = st.here \ us /\ r.parent = st.parent
<1> DEFINE nicks == {st.nick[u] : u \in us}
<1>1. PICK d : d = ChanDel(st, us)
  OBVIOUS
<1>2. PICK r : r = Destroy(st, us)
  OBVIOUS
<1>3. /\ Ok(s, d, rg) /\ TsKept(st, d) /\ d.parent = st.parent /\ d.here = st.here
      /\ d.nick = st.nick /\ d.byNick = st.byNick
  BY <1>1, ChanDelOk
<1>4. d \in Tables
  BY <1>3 DEF Ok
<1>5. r = [d EXCEPT
            !.here = @ \ us,
            !.nick = [u \in Users |-> IF u \in us THEN None ELSE @[u]],
            !.byNick = [n \in Nicks |-> IF n \in nicks THEN None ELSE @[n]]]
  BY <1>1, <1>2 DEF Destroy
<1>6. /\ r.here = st.here \ us /\ r.parent = st.parent /\ r.chan = d.chan
      /\ r.nick = [u \in Users |-> IF u \in us THEN None ELSE st.nick[u]]
      /\ r.byNick = [n \in Nicks |-> IF n \in nicks THEN None ELSE st.byNick[n]]
  BY <1>3, <1>4, <1>5 DEF Tables
<1>7. r \in Tables
  <2> HIDE DEF nicks
  <2>1. /\ r = [parent |-> r.parent, here |-> r.here, nick |-> r.nick,
                byNick |-> r.byNick, chan |-> r.chan]
    BY <1>4, <1>5 DEF Tables
  <2>2. /\ r.parent \in [Servers -> Servers \cup {None}] /\ r.here \subseteq Users
        /\ r.chan \in ChanType
    BY <1>3, <1>4, <1>6, TablesParts
  <2>3. st.nick \in [Users -> Nicks \cup {None}] /\ st.byNick \in [Nicks -> Users \cup {None}]
    BY TablesParts DEF Ok
  <2>4. r.nick \in [Users -> Nicks \cup {None}] /\ r.byNick \in [Nicks -> Users \cup {None}]
    BY <1>6, <2>3
  <2>. QED BY ONLY <2>1, <2>2, <2>4 DEF Tables, ChanType
<1>8. EntriesRight(r)
  <2>1. SUFFICES ASSUME NEW n \in Nicks, r.byNick[n] # None
                 PROVE  r.byNick[n] \in r.here /\ r.nick[r.byNick[n]] = n
    BY DEF EntriesRight
  <2>2. n \notin nicks /\ r.byNick[n] = st.byNick[n]
    BY <1>6, <2>1
  <2>3. st.byNick[n] \in st.here /\ st.nick[st.byNick[n]] = n /\ st.here \subseteq Users
    BY <2>1, <2>2, TablesParts DEF Ok, Sane, EntriesRight
  <2>4. st.byNick[n] \notin us
    BY <2>2, <2>3
  <2>. QED BY <1>6, <2>2, <2>3, <2>4
<1>9. Named(s, r, rg)
  BY <1>6, TablesParts DEF Ok, Sane, Named
<1>10. ChanSane(r.chan) /\ TsKept(st, r)
  BY <1>3, <1>6 DEF Ok, Sane, TsKept
<1>11. NoOrphans(s, r)
  BY <1>6 DEF Ok, Sane, NoOrphans, Knows
<1>. QED BY <1>2, <1>6, <1>7, <1>8, <1>9, <1>10, <1>11 DEF Ok, Sane

(* The servers behind a server are all that lead to it, and not s itself.  *)
LEMMA BelowClosed ==
  ASSUME NEW s \in Servers, NEW st, NoOrphans(s, st), NEW sv \in Servers, sv # s
  PROVE  /\ Below(st, sv) \subseteq Servers /\ sv \in Below(st, sv) /\ s \notin Below(st, sv)
         /\ \A t \in Servers : st.parent[t] \in Below(st, sv) => t \in Below(st, sv)
<1>1. sv \in Servers \ {s} /\ \A t \in Servers : st.parent[t] \in Servers \ {s} => t \in Servers \ {s}
  BY DEF NoOrphans
<1>. QED BY <1>1 DEF Below

(* u_server_destroy: users go with their server, servers with their parent *)
LEMMA ServerDestroyOk ==
  ASSUME NEW s \in Servers, NEW st, NEW rg, Ok(s, st, rg), NEW sv \in Servers, sv # s
  PROVE  LET r == ServerDestroy(st, sv)
         IN  /\ Ok(s, r, rg) /\ TsKept(st, r)
             /\ \A u \in st.here : Home[u] = s => u \in r.here
<1>1. PICK out : out = Below(st, sv)
  OBVIOUS
<1>2. PICK us : us = {u \in st.here : Home[u] \in out}
  OBVIOUS
<1>3. PICK d : d = Destroy(st, us)
  OBVIOUS
<1>4. PICK r : r = ServerDestroy(st, sv)
  OBVIOUS
<1>5. us \subseteq Users /\ NoOrphans(s, st)
  BY <1>2, TablesParts DEF Ok, Sane
<1>6. /\ Ok(s, d, rg) /\ TsKept(st, d) /\ d.here = st.here \ us /\ d.parent = st.parent
  BY <1>3, <1>5, DestroyOk
<1>7. /\ out \subseteq Servers /\ s \notin out
      /\ \A t \in Servers : st.parent[t] \in out => t \in out
  BY <1>1, <1>5, BelowClosed
<1>8. r = [d EXCEPT !.parent = [t \in Servers |-> IF t \in out THEN None ELSE @[t]]]
  BY <1>1, <1>2, <1>3, <1>4 DEF ServerDestroy
<1>9. /\ r.here = d.here /\ r.nick = d.nick /\ r.byNick = d.byNick /\ r.chan = d.chan
      /\ r.parent = [t \in Servers |-> IF t \in out THEN None ELSE d.parent[t]]
      /\ r \in Tables
  BY <1>6, <1>8 DEF Ok, Tables
<1>10. EntriesRight(r) /\ Named(s, r, rg) /\ ChanSane(r.chan) /\ TsKept(st, r)
  BY <1>6, <1>9 DEF Ok, Sane, EntriesRight, Named, TsKept
<1>11. NoOrphans(s, r)
  <2>1. r.parent[s] = s
    BY <1>5, <1>6, <1>7, <1>9 DEF NoOrphans
  <2>2. ASSUME NEW t \in Servers, r.parent[t] # None
        PROVE  r.parent[r.parent[t]] # None
    <3>1. t \notin out /\ r.parent[t] = st.parent[t] /\ st.parent[t] \in Servers
      BY <1>6, <1>9, <2>2, TablesParts DEF Ok
    <3>2. st.parent[t] \notin out /\ st.parent[st.parent[t]] # None
      BY <1>5, <1>7, <2>2, <3>1 DEF NoOrphans, Knows
    <3>. QED BY <1>6, <1>9, <3>1, <3>2
  <2>3. ASSUME NEW u \in r.here PROVE r.parent[Home[u]] # None
    <3>1. u \in st.here /\ u \notin us /\ u \in Users /\ Home[u] \in Servers
      BY <1>6, <1>9, TablesParts, NetAssumption DEF Ok
    <3>2. Home[u] \notin out /\ st.parent[Home[u]] # None
      BY <1>2, <1>5, <3>1 DEF NoOrphans, Knows
    <3>. QED BY <1>6, <1>9, <3>1, <3>2
  <2>. QED BY <2>1, <2>2, <2>3 DEF NoOrphans, Knows
<1>12. \A u \in st.here : Home[u] = s => u \in r.here
  BY <1>2, <1>6, <1>7, <1>9
<1>. QED BY <1>4, <1>9, <1>10, <1>11, <1>12 DEF Ok, Sane

(* u_user_set_nick, of a user who is there or comes now                    *)
LEMMA ArriveOk ==
  ASSUME NEW s, NEW st, NEW rg, Ok(s, st, rg), NEW u \in Users, NEW n \in Nicks,
         Knows(st, Home[u]), NEW st1, st1 = [st EXCEPT !.here = @ \cup {u}]
  PROVE  LET r == SetNick(st1, u, n)
         IN  /\ Ok(s, r, rg) /\ TsKept(st, r) /\ r.nick[u] = n
             /\ r.here = st.here \cup {u} /\ r.parent = st.parent
<1>1. PICK r : r = SetNick(st1, u, n)
  OBVIOUS
<1>2. PICK table : table = IF st.nick[u] = None THEN st.byNick
                           ELSE [st.byNick EXCEPT ![st.nick[u]] = None]
  OBVIOUS
<1>3. PICK entries : entries = IF table[n] = None THEN [table EXCEPT ![n] = u] ELSE table
  OBVIOUS
<1>4. /\ st \in Tables /\ None \notin Users \cup Nicks
      /\ st.here \subseteq Users
      /\ st.nick \in [Users -> Nicks \cup {None}] /\ st.byNick \in [Nicks -> Users \cup {None}]
  BY TablesParts, NetAssumption DEF Ok
<1>5. /\ st1 \in Tables /\ st1.here = st.here \cup {u} /\ st1.nick = st.nick
      /\ st1.byNick = st.byNick /\ st1.chan = st.chan /\ st1.parent = st.parent
  BY <1>4 DEF Tables
<1>6. r = [st1 EXCEPT !.nick[u] = n, !.byNick = entries]
  BY <1>1, <1>2, <1>3, <1>5 DEF SetNick
<1>7. table \in [Nicks -> Users \cup {None}] /\ entries \in [Nicks -> Users \cup {None}]
  BY <1>2, <1>3, <1>4
<1>8. /\ r.here = st.here \cup {u} /\ r.parent = st.parent /\ r.chan = st.chan
      /\ r.nick = [st.nick EXCEPT ![u] = n] /\ r.byNick = entries /\ r \in Tables
  BY <1>4, <1>5, <1>6, <1>7 DEF Tables
<1>9. EntriesRight(r)
  <2>1. SUFFICES ASSUME NEW m \in Nicks, entries[m] # None
                 PROVE  entries[m] \in r.here /\ r.nick[entries[m]] = m
    BY <1>8 DEF EntriesRight
  <2>2. CASE m = n /\ table[n] = None
    BY <1>3, <1>4, <1>7, <1>8, <2>2
  <2>3. CASE ~(m = n /\ table[n] = None)
    <3>1. entries[m] = table[m]
      BY <1>3, <1>7, <2>3
    <3>2. table[m] = st.byNick[m] /\ st.nick[u] # m
      BY <1>2, <1>4, <2>1, <3>1
    <3>3. st.byNick[m] \in st.here /\ st.nick[st.byNick[m]] = m
      BY <2>1, <3>1, <3>2 DEF Ok, Sane, EntriesRight
    <3>4. entries[m] # u
      BY <3>1, <3>2, <3>3
    <3>. QED BY <1>4, <1>8, <3>1, <3>2, <3>3, <3>4
  <2>. QED BY <2>2, <2>3
<1>10. Named(s, r, rg)
  BY <1>4, <1>8 DEF Ok, Sane, Named
<1>11. NoOrphans(s, r) /\ ChanSane(r.chan) /\ TsKept(st, r)
  <2>1. st.chan.ts <= st.chan.ts
    BY TablesParts DEF Ok, ChanType
  <2>. QED BY <1>8, <2>1 DEF Ok, Sane, NoOrphans, Knows, TsKept
<1>12. r.nick[u] = n
  BY <1>4, <1>8
<1>. QED BY <1>1, <1>8, <1>9, <1>10, <1>11, <1>12 DEF Ok, Sane

(* u_user_try_override                                                     *)
LEMMA OverrideOk ==
  ASSUME NEW s, NEW st, Ok(s, st, reg), NEW n \in Nicks
  PROVE  LET r == Override(st, s, n)
         IN  /\ Ok(s, r, reg) /\ r.chan = st.chan
             /\ r.here = st.here /\ r.parent = st.parent
<1>1. PICK r : r = Override(st, s, n)
  OBVIOUS
<1>2. PICK u : u = st.byNick[n]
  OBVIOUS
<1>3. CASE ~(u # None /\ Home[u] = s /\ u \notin reg)
  BY <1>1, <1>2, <1>3 DEF Override
<1>4. CASE u # None /\ Home[u] = s /\ u \notin reg
  <2>1. /\ st \in Tables /\ None \notin Users \cup Nicks /\ st.here \subseteq Users
        /\ st.nick \in [Users -> Nicks \cup {None}] /\ st.byNick \in [Nicks -> Users \cup {None}]
        /\ u \in st.here /\ st.nick[u] = n
    BY <1>2, <1>4, TablesParts, NetAssumption DEF Ok, Sane, EntriesRight
  <2>2. r = [st EXCEPT !.nick[u] = None, !.byNick[n] = None]
    BY <1>1, <1>2, <1>4 DEF Override
  <2>3. /\ r.nick = [st.nick EXCEPT ![u] = None] /\ r.byNick = [st.byNick EXCEPT ![n] = None]
        /\ r.here = st.here /\ r.parent = st.parent /\ r.chan = st.chan /\ r \in Tables
    BY <2>1, <2>2 DEF Tables
  <2>4. EntriesRight(r)
    <3>1. SUFFICES ASSUME NEW m \in Nicks, r.byNick[m] # None
                   PROVE  r.byNick[m] \in r.here /\ r.nick[r.byNick[m]] = m
      BY DEF EntriesRight
    <3>2. m # n /\ r.byNick[m] = st.byNick[m]
      BY <2>1, <2>3, <3>1
    <3>3. st.byNick[m] \in st.here /\ st.nick[st.byNick[m]] = m
      BY <3>1, <3>2 DEF Ok, Sane, EntriesRight
    <3>. QED BY <2>1, <2>3, <3>2, <3>3
  <2>5. Named(s, r, reg)
    BY <1>4, <2>1, <2>3 DEF Ok, Sane, Named
  <2>. QED BY <1>1, <2>3, <2>4, <2>5 DEF Ok, Sane, NoOrphans, Knows
<1>. QED BY <1>3, <1>4

(* A server that is known by way of one that is known                      *)
LEMMA NewServerOk ==
  ASSUME NEW s \in Servers, NEW st, NEW rg, Ok(s, st, rg), NEW sv \in Servers, sv # s,
         NEW by \in Servers, Knows(st, by),
         NEW r, r = [st EXCEPT !.parent[sv] = by]
  PROVE  Ok(s, r, rg) /\ TsKept(st, r) /\ r.here = st.here
<1>1. st \in Tables /\ st.parent \in [Servers -> Servers \cup {None}] /\ st.here \subseteq Users
  BY TablesParts DEF Ok
<1>2. /\ r.parent = [st.parent EXCEPT ![sv] = by] /\ r.here = st.here /\ r.nick = st.nick
      /\ r.byNick = st.byNick /\ r.chan = st.chan /\ r \in Tables
  BY <1>1 DEF Tables
<1>3. \A t \in Servers : Knows(st, t) => Knows(r, t)
  BY <1>1, <1>2, NetAssumption DEF Knows
<1>4. NoOrphans(s, r)
  <2>1. r.parent[s] = s
    BY <1>1, <1>2 DEF Ok, Sane, NoOrphans
  <2>2. ASSUME NEW t \in Servers, Knows(r, t) PROVE Knows(r, r.parent[t])
    <3>1. CASE t = sv
      BY <1>1, <1>2, <1>3, <3>1
    <3>2. CASE t # sv
      <4>1. r.parent[t] = st.parent[t] /\ Knows(st, t) /\ st.parent[t] \in Servers
        BY <1>1, <1>2, <2>2, <3>2 DEF Knows
      <4>. QED BY <1>3, <4>1 DEF Ok, Sane, NoOrphans
    <3>. QED BY <3>1, <3>2
  <2>3. ASSUME NEW u \in r.here PROVE Knows(r, Home[u])
    BY <1>1, <1>2, <1>3, NetAssumption DEF Ok, Sane, NoOrphans
  <2>. QED BY <2>1, <2>2, <2>3 DEF NoOrphans
<1>5. st.chan.ts <= st.chan.ts
  BY TablesParts DEF Ok, ChanType
<1>. QED BY <1>2, <1>4, <1>5 DEF Ok, Sane, EntriesRight, Named, TsKept

(* ts_rules: a channel, and one that is not younger                        *)
LEMMA TsRulesOk ==
  ASSUME NEW s, NEW c \in ChanType, ChanSane(c), c.there, NEW m, m.ts \in Times,
         m.mod \in BOOLEAN, NEW who \in SUBSET Users
  PROVE  LET r == TsRules(c, m, who, s)
         IN  r \in ChanType /\ ChanSane(r) /\ r.there /\ r.ts <= c.ts
<1>0. c.ts \in Times /\ Times \subseteq 0..MaxTime /\ c.there = TRUE /\ c.opers \subseteq c.members
  BY NetAssumption DEF ChanType, ChanSane, Times
<1>1. ASSUME NEW d \in ChanType, ChanSane(d), d.there = TRUE,
             NEW r, r = TsEqual(d, m, who)
      PROVE  r \in ChanType /\ ChanSane(r) /\ r.there = TRUE /\ r.ts = d.ts
  <2>1. PICK mod \in BOOLEAN : mod = (d.mod \/ m.mod)
    BY <1>1 DEF ChanType
  <2>2. r = [d EXCEPT !.mod = mod, !.members = @ \cup who,
                      !.opers = @ \cup (m.opers \cap who)]
    BY <1>1, <2>1 DEF TsEqual
  <2>4. /\ r.ts = d.ts /\ r.there = TRUE /\ r.members = d.members \cup who
        /\ r.opers = d.opers \cup (m.opers \cap who) /\ r \in ChanType
    BY <1>1, <2>2 DEF ChanType
  <2>5. ChanSane(r)
    BY <1>1, <2>4 DEF ChanSane
  <2>. QED BY <2>4, <2>5
<1>2. CASE c.ts = m.ts
  <2>1. TsRules(c, m, who, s) = TsEqual(c, m, who)
    BY <1>0, <1>2 DEF TsRules, Times
  <2>2. PICK r : r = TsEqual(c, m, who)
    OBVIOUS
  <2>3. r \in ChanType /\ ChanSane(r) /\ r.there = TRUE /\ r.ts = c.ts
    BY <1>0, <1>1, <2>2
  <2>. QED BY <1>0, <2>1, <2>2, <2>3 DEF Times
<1>3. CASE c.ts < m.ts
  <2>1. TsRules(c, m, who, s) = TsWin(c, m, who)
    BY <1>0, <1>3 DEF TsRules, Times
  <2>2. PICK r : r = TsWin(c, m, who)
    OBVIOUS
  <2>3. /\ r.ts = c.ts /\ r.there = TRUE /\ r.members = c.members \cup who
        /\ r.opers = c.opers /\ r \in ChanType
    BY <1>0, <2>2 DEF TsWin, ChanType
  <2>. QED BY <1>0, <2>1, <2>2, <2>3 DEF ChanSane, Times
<1>4. CASE c.ts > m.ts
  <2>1. PICK d : d = [c EXCEPT !.ts = m.ts, !.opers = @ \ LocalTo(s)]
    OBVIOUS
  <2>2. TsRules(c, m, who, s) = TsEqual(d, m, who)
    BY <1>0, <1>4, <2>1 DEF TsRules, TsLose, Times
  <2>3. /\ d \in ChanType /\ d.ts = m.ts /\ d.there = TRUE /\ d.members = c.members
        /\ d.opers = c.opers \ LocalTo(s)
    BY <1>0, <2>1 DEF ChanType
  <2>4. ChanSane(d)
    BY <1>0, <2>3 DEF ChanSane
  <2>5. PICK r : r = TsEqual(d, m, who)
    OBVIOUS
  <2>6. r \in ChanType /\ ChanSane(r) /\ r.there = TRUE /\ r.ts = m.ts
    BY <1>1, <2>3, <2>4, <2>5
  <2>. QED BY <1>0, <1>4, <2>2, <2>5, <2>6 DEF Times
<1>. QED BY <1>0, <1>2, <1>3, <1>4 DEF Times

(* A mode change                                                           *)
LEMMA ChangedOk ==
  ASSUME NEW c \in ChanType, ChanSane(c), c.there, NEW on \in BOOLEAN,
         NEW who \in Users \cup {None}
  PROVE  LET r == Changed(c, on, who)
         IN  r \in ChanType /\ ChanSane(r) /\ r.there /\ r.ts = c.ts
<1>1. PICK r : r = Changed(c, on, who)
  OBVIOUS
<1>2. /\ r.ts = c.ts /\ r.there = c.there /\ r.members = c.members /\ r \in ChanType
      /\ r.opers = c.opers \/ r.opers = c.opers \ {who}
         \/ (r.opers = c.opers \cup {who} /\ who \in c.members)
  <2>1. CASE who = None
    BY <1>1, <2>1 DEF Changed, ChanType
  <2>2. CASE who # None /\ who \notin c.members
    BY <1>1, <2>2 DEF Changed, ChanType
  <2>3. CASE who # None /\ who \in c.members /\ on
    BY <1>1, <2>3 DEF Changed, ChanType
  <2>4. CASE who # None /\ who \in c.members /\ ~on
    BY <1>1, <2>4 DEF Changed, ChanType
  <2>. QED BY <2>1, <2>2, <2>3, <2>4
<1>. QED BY <1>1, <1>2 DEF ChanSane

-----------------------------------------------------------------------------
(* What is under way.                                                      *)
Sent(left) == {m \in Messages : m.t = "QUIT" => m.u \in left}
WireType(left) == [{x \in Servers \X Servers : x[1] # x[2]} -> Seq(Sent(left))]
LinkType == [Servers -> [Servers -> {"no", "out", "in", "outPass", "inPass", "on"}]]

(* What can be sent.                                                       *)
LEMMA Kinds ==
  ASSUME NEW left
  PROVE  /\ PASS \in Sent(left) /\ SERVER \in Sent(left) /\ EOF \in Sent(left)
         /\ \A s, t \in Servers : SID(s, t) \in Sent(left)
         /\ \A s \in Servers : SQUIT(s) \in Sent(left)
         /\ \A u \in Users, n \in Nicks : EUID(u, n) \in Sent(left) /\ NICK(u, n) \in Sent(left)
         /\ \A u \in Users : /\ KILL(u) \in Sent(left) /\ JOIN(u) \in Sent(left)
                             /\ PART(u) \in Sent(left)
                             /\ u \in left => QUIT(u) \in Sent(left)
<1>1. /\ PASS \in Messages /\ SERVER \in Messages /\ EOF \in Messages
      /\ \A s, t \in Servers : SID(s, t) \in Messages
      /\ \A s \in Servers : SQUIT(s) \in Messages
      /\ \A u \in Users, n \in Nicks : EUID(u, n) \in Messages /\ NICK(u, n) \in Messages
      /\ \A u \in Users : /\ QUIT(u) \in Messages /\ KILL(u) \in Messages
                          /\ JOIN(u) \in Messages /\ PART(u) \in Messages
  BY DEF Messages
<1>2. /\ PASS.t = "PASS" /\ SERVER.t = "SERVER" /\ EOF.t = "EOF"
      /\ \A s, t : SID(s, t).t = "SID" /\ EUID(s, t).t = "EUID" /\ NICK(s, t).t = "NICK"
      /\ \A s : /\ SQUIT(s).t = "SQUIT" /\ KILL(s).t = "KILL" /\ JOIN(s).t = "JOIN"
                /\ PART(s).t = "PART" /\ QUIT(s).u = s
  BY DEF PASS, SERVER, EOF, SID, EUID, NICK, SQUIT, KILL, JOIN, PART, QUIT
<1>. QED BY ONLY <1>1, <1>2 DEF Sent

(* A mode change                                                           *)
LEMMA ModeKind ==
  ASSUME NEW ts \in Times, NEW on \in BOOLEAN, NEW who \in Users \cup {None}, NEW left
  PROVE  TMODE(ts, on, who) \in Sent(left)
<1>1. TMODE(ts, on, who) \in ModeLines
  BY DEF TMODE, ModeLines
<1>2. TMODE(ts, on, who).t # "QUIT"
  BY DEF TMODE
<1>. QED BY ONLY <1>1, <1>2 DEF Messages, Sent

(* The members of a channel that is there                                  *)
LEMMA JoinKind ==
  ASSUME NEW c \in ChanType, ChanSane(c), c.there, NEW who \in SUBSET Users, NEW left
  PROVE  SJOIN(c, who) \in Sent(left)
<1>1. c.ts \in Times /\ c.mod \in BOOLEAN /\ c.opers \cap who \in SUBSET Users
  BY DEF ChanType, ChanSane
<1>2. SJOIN(c, who) \in ChanLines
  BY <1>1 DEF SJOIN, ChanLines
<1>3. SJOIN(c, who).t # "QUIT"
  BY DEF SJOIN
<1>. QED BY ONLY <1>2, <1>3 DEF Messages, Sent

(* What a line has in its fields.                                          *)
LEMMA Fields ==
  ASSUME NEW m \in Messages
  PROVE  /\ m.t = "SID" => m.src \in Servers /\ m.sid \in Servers
         /\ m.t = "SQUIT" => m.sid \in Servers
         /\ m.t \in {"EUID", "NICK"} => m.u \in Users /\ m.n \in Nicks
         /\ m.t \in {"QUIT", "KILL", "JOIN", "PART"} => m.u \in Users
         /\ m.t = "TMODE" => /\ m.ts \in Times /\ m.on \in BOOLEAN
                             /\ m.who \in Users \cup {None}
         /\ m.t = "SJOIN" => m.ts \in Times /\ m.mod \in BOOLEAN /\ m.who \subseteq Users
<1>1. CASE m \in {PASS, SERVER, EOF}
  BY <1>1 DEF PASS, SERVER, EOF
<1>2. CASE \E s, t \in Servers : m = SID(s, t)
  BY <1>2 DEF SID
<1>3. CASE \E s \in Servers : m = SQUIT(s)
  BY <1>3 DEF SQUIT
<1>4. CASE \E u \in Users, n \in Nicks : m = EUID(u, n) \/ m = NICK(u, n)
  BY <1>4 DEF EUID, NICK
<1>5. CASE \E u \in Users : m = QUIT(u) \/ m = KILL(u) \/ m = JOIN(u) \/ m = PART(u)
  BY <1>5 DEF QUIT, KILL, JOIN, PART
<1>6. CASE m \in ModeLines
  BY <1>6 DEF ModeLines
<1>7. CASE m \in ChanLines
  BY <1>7 DEF ChanLines
<1>8. \/ m \in {PASS, SERVER, EOF} \/ m \in ModeLines \/ m \in ChanLines
      \/ \E s, t \in Servers : m = SID(s, t)
      \/ \E s \in Servers : m = SQUIT(s)
      \/ \E u \in Users, n \in Nicks : m = EUID(u, n) \/ m = NICK(u, n)
      \/ \E u \in Users : m = QUIT(u) \/ m = KILL(u) \/ m = JOIN(u) \/ m = PART(u)
  BY DEF Messages
<1>. QED BY <1>1, <1>2, <1>3, <1>4, <1>5, <1>6, <1>7, <1>8

(* u_sendto_servers                                                        *)
LEMMA TellTyped ==
  ASSUME NEW left, NEW w \in WireType(left), NEW s, NEW st, NEW exclude, NEW m \in Sent(left)
  PROVE  Tell(w, s, st, exclude, m) \in WireType(left)
<1>1. DOMAIN w = {x \in Servers \X Servers : x[1] # x[2]}
  BY DEF WireType
<1>2. \A x \in DOMAIN w : w[x] \in Seq(Sent(left)) /\ Append(w[x], m) \in Seq(Sent(left))
  BY DEF WireType
<1>. QED BY <1>1, <1>2 DEF Tell, WireType

(* Lines queued for one server                                             *)
LEMMA QueueTyped ==
  ASSUME NEW left, NEW w \in WireType(left), NEW s \in Servers, NEW t \in Servers, s # t,
         NEW lines \in Seq(Sent(left))
  PROVE  Queue(w, s, t, lines) \in WireType(left)
<1>1. <<s, t>> \in {x \in Servers \X Servers : x[1] # x[2]}
  OBVIOUS
<1>2. w[<<s, t>>] \o lines \in Seq(Sent(left))
  BY <1>1 DEF WireType
<1>. QED BY <1>1, <1>2 DEF Queue, WireType

(* A connection that is closed                                             *)
LEMMA ClosedTyped ==
  ASSUME NEW left, NEW w \in WireType(left), NEW s \in Servers, NEW t \in Servers, s # t
  PROVE  Closed(w, s, t) \in WireType(left)
<1>1. /\ <<s, t>> \in {x \in Servers \X Servers : x[1] # x[2]}
      /\ <<t, s>> \in {x \in Servers \X Servers : x[1] # x[2]} /\ <<s, t>> # <<t, s>>
  OBVIOUS
<1>2. Append(w[<<s, t>>], EOF) \in Seq(Sent(left)) /\ << >> \in Seq(Sent(left))
  BY <1>1, Kinds DEF WireType
<1>. QED BY <1>1, <1>2 DEF Closed, WireType

(* The sequence of a finite set                                            *)
LEMMA SetToSeqTyped ==
  ASSUME NEW S, IsFiniteSet(S)
  PROVE  SetToSeq(S) \in Seq(S)
<1>1. Cardinality(S) \in Nat /\ ExistsBijection(1..Cardinality(S), S)
  BY FS_CardinalityType, FS_NatBijection, FS_CountingElements
<1>2. PICK f : f \in [1..Cardinality(S) -> S] /\ IsInjective(f)
  BY <1>1 DEF ExistsBijection, Bijection, Injection, IsInjective
<1>3. SetToSeq(S) \in [1..Cardinality(S) -> S]
  BY <1>2 DEF SetToSeq
<1>. QED BY <1>1, <1>3

(* A loop that adds a piece to a sequence every round: there is one, and   *)
(* what it ends with is a sequence of the same things.                     *)
LEMMA LoopEnds ==
  ASSUME NEW M, NEW N \in Nat, NEW piece, piece \in [1..N -> Seq(M)]
  PROVE  /\ \E f : f = [i \in 0..N |-> IF i = 0 THEN << >> ELSE f[i - 1] \o piece[i]]
         /\ \A f : f = [i \in 0..N |-> IF i = 0 THEN << >> ELSE f[i - 1] \o piece[i]]
                  => f[N] \in Seq(M)
<1> DEFINE G == [i \in 1..N |-> [q \in Seq(M) |-> q \o piece[i]]]
<1>1. \A i \in 1..N, q \in Seq(M) : q \o piece[i] \in Seq(M)
  OBVIOUS
<1>2. G \in [1..N -> [Seq(M) -> Seq(M)]]
  BY <1>1
<1>3. PICK S : S = Seq(M)
  OBVIOUS
<1>4. PICK e : e = << >>
  OBVIOUS
<1>5. e \in S
  BY <1>3, <1>4
<1>6. PICK f \in [0..N -> S] : f[0] = e /\ \A i \in 1..N : f[i] = G[i][f[i - 1]]
  <2>1. PICK H \in [1..N -> [S -> S]] : H = G
    BY <1>2, <1>3
  <2>2. N \in Nat
    OBVIOUS
  <2>3. \E f \in [0..N -> S] : f[0] = e /\ \A i \in 1..N : f[i] = H[i][f[i - 1]]
    <3>1. H \in [1..N -> [S -> S]]
      BY <2>1
    <3>. QED BY ONLY <1>5, <2>2, <3>1, StepsExist
  <2> HIDE DEF G
  <2>. QED BY ONLY <2>1, <2>3
<1>7. ASSUME NEW i \in 1..N PROVE f[i] = f[i - 1] \o piece[i]
  <2>1. i - 1 \in 0..N /\ f[i - 1] \in Seq(M)
    BY <1>3, <1>6
  <2>2. f[i] = G[i][f[i - 1]]
    BY <1>6
  <2>. QED BY <2>1, <2>2
<1>8. f = [i \in 0..N |-> IF i = 0 THEN << >> ELSE f[i - 1] \o piece[i]]
  <2>1. \A i \in 0..N : f[i] = IF i = 0 THEN e ELSE f[i - 1] \o piece[i]
    <3>1. \A i \in 0..N : i = 0 \/ i \in 1..N
      OBVIOUS
    <3>. QED BY ONLY <1>6, <1>7, <3>1
  <2>2. f = [i \in 0..N |-> IF i = 0 THEN e ELSE f[i - 1] \o piece[i]]
    BY ONLY <2>1, f \in [0..N -> S]
  <2>. QED BY ONLY <1>4, <2>2
<1>9. ASSUME NEW g, g = [i \in 0..N |-> IF i = 0 THEN << >> ELSE g[i - 1] \o piece[i]]
      PROVE  g[N] \in Seq(M)
  <2>0. \A i \in 0..N : g[i] = IF i = 0 THEN e ELSE g[i - 1] \o piece[i]
    BY ONLY <1>9, <1>4
  <2> DEFINE T == {i \in 0..N : g[i] \in Seq(M)}
  <2>1. 0 \in T
    BY <1>3, <1>5, <2>0
  <2>2. ASSUME NEW i \in 1..N, i - 1 \in T PROVE i \in T
    <3>1. g[i] = g[i - 1] \o piece[i]
      <4>1. i \in 0..N /\ i # 0
        OBVIOUS
      <4>. QED BY ONLY <2>0, <4>1
    <3>2. g[i - 1] \in Seq(M) /\ piece[i] \in Seq(M)
      BY <2>2
    <3>3. g[i - 1] \o piece[i] \in Seq(M)
      BY ONLY <3>2
    <3>4. i \in 0..N
      OBVIOUS
    <3>. QED BY ONLY <3>1, <3>3, <3>4
  <2>3. 0..N \subseteq T
    <3> HIDE DEF T
    <3>. QED BY ONLY <2>1, <2>2, N \in Nat, IndexInduction
  <2>. QED BY <2>3
<1>. QED BY <1>8, <1>9

(* The things that such a loop ends with are those of the pieces.          *)
LEMMA LoopElements ==
  ASSUME NEW M, NEW N \in Nat, NEW piece, piece \in [1..N -> Seq(M)],
         NEW f, f = [i \in 0..N |-> IF i = 0 THEN << >> ELSE f[i - 1] \o piece[i]]
  PROVE  Range(f[N]) = UNION {Range(piece[i]) : i \in 1..N}
<1> DEFINE U(n) == UNION {Range(piece[i]) : i \in 1..n}
           T == {n \in 0..N : f[n] \in Seq(M) /\ Range(f[n]) = U(n)}
<1>1. PICK e : e = << >>
  OBVIOUS
<1>2. \A i \in 0..N : f[i] = IF i = 0 THEN e ELSE f[i - 1] \o piece[i]
  BY ONLY <1>1, f = [i \in 0..N |-> IF i = 0 THEN << >> ELSE f[i - 1] \o piece[i]]
<1>3. 0 \in T
  <2>1. f[0] = e
    BY <1>2
  <2>2. e \in Seq(M) /\ Range(e) = {}
    <3>1. DOMAIN e = {} /\ e \in Seq(M)
      BY <1>1
    <3>. QED BY <3>1 DEF Range
  <2>3. U(0) = {}
    <3>1. 1..0 = {}
      OBVIOUS
    <3>. QED BY <3>1
  <2>. QED BY <2>1, <2>2, <2>3
<1>4. ASSUME NEW n \in 1..N, n - 1 \in T PROVE n \in T
  <2>1. f[n] = f[n - 1] \o piece[n]
    <3>1. n \in 0..N /\ n # 0
      OBVIOUS
    <3>. QED BY ONLY <1>2, <3>1
  <2>2. f[n - 1] \in Seq(M) /\ Range(f[n - 1]) = U(n - 1) /\ piece[n] \in Seq(M)
    BY <1>4
  <2>3. PICK a, b : a = f[n - 1] /\ b = piece[n]
    OBVIOUS
  <2>4. a \o b \in Seq(M)
    BY ONLY <2>2, <2>3
  <2>5. Range(a \o b) = Range(a) \cup Range(b)
    <3>1. a \in Seq(M) /\ b \in Seq(M)
      BY <2>2, <2>3
    <3>. QED BY ONLY <3>1, RangeConcatenation
  <2>6. U(n) = U(n - 1) \cup Range(piece[n])
    <3>1. 1..n = 1..(n - 1) \cup {n}
      OBVIOUS
    <3>. QED BY ONLY <3>1
  <2>7. f[n] \in Seq(M) /\ Range(f[n]) = U(n)
    <3> HIDE DEF U
    <3>1. f[n] = a \o b
      BY ONLY <2>1, <2>3
    <3>. QED BY ONLY <2>2, <2>3, <2>4, <2>5, <2>6, <3>1
  <2>8. n \in 0..N
    OBVIOUS
  <2> HIDE DEF U
  <2>. QED BY ONLY <2>7, <2>8
<1>5. 0..N \subseteq T
  <2> HIDE DEF T
  <2>. QED BY <1>3, <1>4, IndexInduction
<1>. QED BY <1>5

\* Servers of which s tells t in its burst
Names(s, t) ==
  {p \in Servers \ {s, t} : Knows(srv[s], p) /\ (srv[s].parent[p] = s => link[s][p] = "on")}

(* u_server_burst_2: the servers of Names, then users and the channel      *)
LEMMA BurstTyped ==
  ASSUME NEW s \in Servers, NEW t \in Servers, Ok(s, srv[s], reg), NEW left
  PROVE  /\ Burst(s, t) \in Seq(Sent(left))
         /\ \A p \in Names(s, t) : SID(srv[s].parent[p], p) \in Range(Burst(s, t))
         /\ \A m \in Range(Burst(s, t)) :
               \/ \E p \in Names(s, t) : m = SID(srv[s].parent[p], p)
               \/ m.t \in {"EUID", "SJOIN"}
<1> DEFINE st == srv[s]
           named(p) == /\ p \notin {s, t} /\ Knows(st, p)
                       /\ st.parent[p] = s => link[s][p] = "on"
           N == Len(ByName)
           piece == [i \in 1..N |-> IF named(ByName[i])
                                    THEN <<SID(st.parent[ByName[i]], ByName[i])>> ELSE << >>]
           Def(f) == f = [i \in 0..N |->
              IF i = 0 THEN << >>
              ELSE f[i - 1] \o (IF named(ByName[i])
                                THEN <<SID(st.parent[ByName[i]], ByName[i])>> ELSE << >>)]
           sids == CHOOSE f : Def(f)
           users == SetToSeq({u \in st.here : Home[u] # s \/ u \in reg})
           names == [i \in DOMAIN users |-> EUID(users[i], st.nick[users[i]])]
           chan == IF st.chan.members = {} THEN << >> ELSE <<SJOIN(st.chan, st.chan.members)>>
<1>1. Burst(s, t) = sids[N] \o names \o chan
  BY DEF Burst
<1>2. /\ N \in Nat /\ \A i \in 1..N : ByName[i] \in Servers
      /\ st \in Tables /\ st.parent \in [Servers -> Servers \cup {None}]
      /\ st.nick \in [Users -> Nicks \cup {None}] /\ st.here \subseteq Users
      /\ st.chan \in ChanType /\ ChanSane(st.chan)
  BY TablesParts, NetAssumption DEF Ok, Sane
<1>3. ASSUME NEW i \in 1..N PROVE piece[i] \in Seq(Sent(left))
  <2>1. CASE named(ByName[i])
    <3>1. st.parent[ByName[i]] \in Servers
      BY <1>2, <2>1 DEF Knows
    <3>2. <<SID(st.parent[ByName[i]], ByName[i])>> \in Seq(Sent(left))
      BY <1>2, <3>1, Kinds
    <3>. QED BY <2>1, <3>2
  <2>2. CASE ~named(ByName[i])
    BY <2>2
  <2>. QED BY <2>1, <2>2
<1>4. /\ sids[N] \in Seq(Sent(left))
      /\ Range(sids[N]) = UNION {Range(piece[i]) : i \in 1..N}
  <2> DEFINE Loop(f) == f = [i \in 0..N |-> IF i = 0 THEN << >> ELSE f[i - 1] \o piece[i]]
  <2>1. \A f : Loop(f) <=> Def(f)
    <3>1. ASSUME NEW f, NEW i \in 0..N
          PROVE  (IF i = 0 THEN << >> ELSE f[i - 1] \o piece[i])
                   = (IF i = 0 THEN << >>
                      ELSE f[i - 1] \o (IF named(ByName[i])
                              THEN <<SID(st.parent[ByName[i]], ByName[i])>> ELSE << >>))
      <4>1. CASE i = 0
        BY <4>1
      <4>2. CASE i # 0
        <5>1. i \in 1..N
          BY <1>2, <4>2
        <5> HIDE DEF named
        <5>. QED BY <5>1
      <4>. QED BY <4>1, <4>2
    <3> HIDE DEF piece, named
    <3>. QED BY <3>1
  <2>2. /\ \E f : Loop(f)
        /\ \A f : Loop(f) => f[N] \in Seq(Sent(left))
        /\ \A f : Loop(f) => Range(f[N]) = UNION {Range(piece[i]) : i \in 1..N}
    <3>1. piece \in [1..N -> Seq(Sent(left))]
      <4> HIDE DEF named
      <4>1. piece = [i \in 1..N |-> piece[i]]
        OBVIOUS
      <4> HIDE DEF piece
      <4>. QED BY <1>3, <4>1
    <3>2. N \in Nat
      BY <1>2
    <3> HIDE DEF piece, N
    <3>3. \A f : Loop(f) => Range(f[N]) = UNION {Range(piece[i]) : i \in 1..N}
      BY ONLY <3>1, <3>2, LoopElements
    <3>4. (\E f : Loop(f)) /\ (\A f : Loop(f) => f[N] \in Seq(Sent(left)))
      BY ONLY <3>1, <3>2, LoopEnds
    <3>. QED BY ONLY <3>3, <3>4
  <2>3. Def(sids)
    <3>1. \E f : Def(f)
      <4> HIDE DEF Loop, Def
      <4>. QED BY <2>1, <2>2
    <3> HIDE DEF Def
    <3>. QED BY <3>1
  <2> HIDE DEF Loop, Def, sids, N, piece
  <2>. QED BY <2>1, <2>2, <2>3
<1>5. names \in Seq(Sent(left)) /\ \A m \in Range(names) : m.t = "EUID"
  <2>1. IsFiniteSet({u \in st.here : Home[u] # s \/ u \in reg})
    BY <1>2, NetAssumption, FS_Subset
  <2>2. users \in Seq({u \in st.here : Home[u] # s \/ u \in reg})
    BY <2>1, SetToSeqTyped
  <2> HIDE DEF users
  <2>3. ASSUME NEW i \in DOMAIN users
        PROVE  EUID(users[i], st.nick[users[i]]) \in Sent(left)
    <3>1. users[i] \in Users /\ st.nick[users[i]] \in Nicks
      BY <1>2, <2>2 DEF Ok, Sane, Named
    <3>. QED BY <3>1, Kinds
  <2>4. DOMAIN users = 1..Len(users) /\ Len(users) \in Nat
    BY <2>2
  <2>5. names \in Seq(Sent(left))
    BY <2>3, <2>4
  <2>6. \A u, n : EUID(u, n).t = "EUID"
    BY DEF EUID
  <2>7. \A m \in Range(names) : m.t = "EUID"
    BY ONLY <2>6 DEF Range
  <2>. QED BY <2>5, <2>7
<1>6. chan \in Seq(Sent(left)) /\ \A m \in Range(chan) : m.t = "SJOIN"
  <2>1. CASE st.chan.members = {}
    BY <2>1 DEF Range
  <2>2. CASE st.chan.members # {}
    <3>1. st.chan.there /\ st.chan.members \in SUBSET Users
      BY <1>2, <2>2 DEF ChanSane, NoChan, ChanType
    <3>2. SJOIN(st.chan, st.chan.members) \in Sent(left)
      BY <1>2, <3>1, JoinKind
    <3>3. SJOIN(st.chan, st.chan.members).t = "SJOIN"
      BY DEF SJOIN
    <3>4. \A e : Range(<<e>>) = {e}
      BY DEF Range
    <3>. QED BY <2>2, <3>2, <3>3, <3>4
  <2>. QED BY <2>1, <2>2
<1>7. Range(Burst(s, t)) = Range(sids[N]) \cup Range(names) \cup Range(chan)
      /\ Burst(s, t) \in Seq(Sent(left))
  <2>1. PICK a, b, c : a = sids[N] /\ b = names /\ c = chan
    OBVIOUS
  <2>2. a \in Seq(Sent(left)) /\ b \in Seq(Sent(left)) /\ c \in Seq(Sent(left))
    <3> HIDE DEF sids, N, names, chan
    <3>. QED BY <1>4, <1>5, <1>6, <2>1
  <2>3. a \o b \in Seq(Sent(left)) /\ (a \o b) \o c \in Seq(Sent(left))
    BY ONLY <2>2
  <2>4. Range(a \o b) = Range(a) \cup Range(b)
    BY ONLY <2>2, RangeConcatenation
  <2>5. Range((a \o b) \o c) = Range(a \o b) \cup Range(c)
    <3>1. PICK d : d = a \o b
      OBVIOUS
    <3>2. PICK S : S = Sent(left)
      OBVIOUS
    <3>3. d \in Seq(S) /\ c \in Seq(S)
      BY ONLY <2>2, <2>3, <3>1, <3>2
    <3>4. Range(d \o c) = Range(d) \cup Range(c)
      BY ONLY <3>3, RangeConcatenation
    <3>. QED BY ONLY <3>1, <3>4
  <2> HIDE DEF sids, N, names, chan
  <2>. QED BY <1>1, <2>1, <2>3, <2>4, <2>5
<1>8. \A i \in 1..N : Range(piece[i]) = IF named(ByName[i])
                                        THEN {SID(st.parent[ByName[i]], ByName[i])} ELSE {}
  <2>1. (\A e : Range(<<e>>) = {e}) /\ Range(<< >>) = {}
    BY DEF Range
  <2> HIDE DEF named, N
  <2>. QED BY <2>1
<1>9. \A p : p \in Names(s, t) <=> p \in Servers /\ named(p)
  BY DEF Names
<1>10. \A p \in Servers : \E i \in 1..N : ByName[i] = p
  <2>1. DOMAIN ByName = 1..N /\ Range(ByName) = Servers
    BY NetAssumption
  <2>. QED BY <2>1 DEF Range
<1> HIDE DEF sids, N, names, chan, piece, named
<1>11. ASSUME NEW p \in Names(s, t) PROVE SID(st.parent[p], p) \in Range(Burst(s, t))
  <2>1. PICK i \in 1..N : ByName[i] = p
    BY <1>9, <1>10
  <2>2. SID(st.parent[p], p) \in Range(piece[i])
    BY <1>8, <1>9, <2>1
  <2>. QED BY <1>4, <1>7, <2>2
<1>12. ASSUME NEW m \in Range(Burst(s, t))
       PROVE  (\E p \in Names(s, t) : m = SID(st.parent[p], p)) \/ m.t \in {"EUID", "SJOIN"}
  <2>1. CASE m \in Range(sids[N])
    <3>1. PICK i \in 1..N : m \in Range(piece[i])
      BY <1>4, <2>1
    <3>2. named(ByName[i]) /\ m = SID(st.parent[ByName[i]], ByName[i]) /\ ByName[i] \in Servers
      BY <1>2, <1>8, <3>1
    <3>. QED BY <1>9, <3>2
  <2>2. CASE m \in Range(names) \cup Range(chan)
    BY <1>5, <1>6, <2>2
  <2>. QED BY <1>7, <1>12, <2>1, <2>2
<1>. QED BY <1>7, <1>11, <1>12

-----------------------------------------------------------------------------
(* Steps.  Keeps is what every one is shown to do.                         *)
Books ==
  /\ link \in LinkType /\ ready \subseteq Users /\ reg \subseteq Users /\ gone \subseteq Users
  /\ alive \subseteq Servers /\ now \in Times /\ ops \in 0..MaxOps
  /\ breaks \in 0..MaxBreaks /\ lost \in BOOLEAN /\ crossed \in BOOLEAN
Keeps == IInv' /\ \A x \in Servers : TsKept(srv[x], srv'[x])

(* The invariant, by its parts, before and after a step                    *)
InParts ==
  /\ srv \in [Servers -> Tables] /\ wire \in WireType(gone) /\ Books
  /\ \A s \in Servers : Ok(s, srv[s], reg)
  /\ AtHome

(* IInv says the same of a state as its parts.                             *)
LEMMA PartsNow == IInv <=> InParts
<1>0. SUFFICES
  IInv <=> /\ srv \in [Servers -> Tables] /\ wire \in WireType(gone) /\ Books
           /\ \A s \in Servers : Ok(s, srv[s], reg)
           /\ AtHome
  BY DEF InParts
<1>1. ASSUME wire \in [{x \in Servers \X Servers : x[1] # x[2]} -> Seq(Messages)]
      PROVE  QuitsTrue <=> wire \in WireType(gone)
  <2>1. DOMAIN wire = {x \in Servers \X Servers : x[1] # x[2]}
    BY <1>1
  <2>2. ASSUME NEW q \in Seq(Messages)
        PROVE  (\A i \in DOMAIN q : q[i].t = "QUIT" => q[i].u \in gone) <=> q \in Seq(Sent(gone))
    BY DEF Sent
  <2>3. \A x \in DOMAIN wire : wire[x] \in Seq(Messages)
    BY <1>1
  <2>4. wire \in WireType(gone) <=> \A x \in DOMAIN wire : wire[x] \in Seq(Sent(gone))
    BY <1>1, <2>1 DEF WireType
  <2>. QED BY <2>2, <2>3, <2>4 DEF QuitsTrue
<1>2. ASSUME wire \in WireType(gone)
      PROVE  wire \in [{x \in Servers \X Servers : x[1] # x[2]} -> Seq(Messages)]
  <2>1. \A q \in Seq(Sent(gone)) : q \in Seq(Messages)
    BY DEF Sent
  <2>. QED BY <1>2, <2>1 DEF WireType
<1>. QED BY <1>1, <1>2 DEF IInv, TypeOK, Books, Ok, LinkType

(* IInv by its parts                                                       *)
LEMMA Parts ==
  IInv <=> /\ srv \in [Servers -> Tables] /\ wire \in WireType(gone) /\ Books
           /\ \A s \in Servers : Ok(s, srv[s], reg)
           /\ AtHome
BY PartsNow DEF InParts

(* IInv after a step, by its parts                                         *)
LEMMA PartsAfter ==
  IInv' <=> /\ srv' \in [Servers -> Tables] /\ wire' \in WireType(gone') /\ Books'
            /\ \A s \in Servers : Ok(s, srv'[s], reg')
            /\ AtHome'
<1>1. IInv' <=> InParts'
  BY PartsNow, PTL
<1>. QED BY <1>1 DEF InParts

(* More users have left.                                                   *)
LEMMA Later ==
  ASSUME NEW g, NEW h, g \subseteq h, NEW w \in WireType(g)
  PROVE  w \in WireType(h)
<1>1. \A q \in Seq(Sent(g)) : q \in Seq(Sent(h))
  BY DEF Sent
<1>. QED BY <1>1 DEF WireType

(* The timestamp of a table that does not change                           *)
LEMMA TsSame == \A st : st \in Tables => TsKept(st, st)
<1>1. \A c \in ChanType : c.ts <= c.ts
  BY DEF ChanType
<1>. QED BY <1>1, TablesParts DEF TsKept

(* New tables for one server, of whose users some may be registered        *)
LEMMA Changes ==
  ASSUME IInv, NEW s \in Servers, NEW st, Become(s, st), Ok(s, st, reg'), TsKept(srv[s], st),
         wire' \in WireType(gone'), Books', reg \subseteq reg', \A u \in reg' \ reg : Home[u] = s,
         gone \subseteq gone', \A u \in reg' \ gone' : Home[u] = s => u \in st.here
  PROVE  Keeps
<1>1. srv \in [Servers -> Tables] /\ srv' = [srv EXCEPT ![s] = st]
  BY Parts DEF Become
<1>2. srv' \in [Servers -> Tables] /\ srv'[s] = st
  BY <1>1 DEF Ok
<1>3. ASSUME NEW x \in Servers
      PROVE  Ok(x, srv'[x], reg') /\ TsKept(srv[x], srv'[x])
  <2>1. CASE x = s
    BY <1>2, <2>1
  <2>2. CASE x # s
    <3>1. srv'[x] = srv[x] /\ srv[x] \in Tables /\ Ok(x, srv[x], reg)
      BY <1>1, <2>2, Parts
    <3>2. Named(x, srv[x], reg')
      BY <2>2, <3>1 DEF Ok, Sane, Named
    <3>. QED BY <3>1, <3>2, TsSame DEF Ok, Sane
  <2>. QED BY <2>1, <2>2
<1>4. AtHome'
  <2>1. SUFFICES ASSUME NEW u \in reg' \ gone' PROVE u \in srv'[Home[u]].here
    BY DEF AtHome
  <2>2. CASE Home[u] = s
    BY <1>2, <2>2
  <2>3. CASE Home[u] # s
    <3>1. u \in reg \ gone /\ u \in Users
      BY <2>3, Parts DEF Books
    <3>2. srv'[Home[u]] = srv[Home[u]]
      BY <1>1, <2>3, <3>1, NetAssumption
    <3>. QED BY <3>1, <3>2, Parts DEF AtHome
  <2>. QED BY <2>2, <2>3
<1>. QED BY <1>2, <1>3, <1>4, PartsAfter DEF Keeps

(* The same tables                                                         *)
LEMMA SameTables ==
  ASSUME IInv, UNCHANGED <<srv, reg, gone>>, wire' \in WireType(gone'), Books'
  PROVE  Keeps
<1>1. srv \in [Servers -> Tables] /\ \A x \in Servers : Ok(x, srv[x], reg)
  BY Parts
<1>2. \A x \in Servers : TsKept(srv[x], srv[x])
  BY <1>1, TsSame
<1>3. AtHome'
  BY Parts DEF AtHome
<1>. QED BY <1>1, <1>2, <1>3, PartsAfter DEF Keeps

(* What an operation or a line leaves of the other variables               *)
LEMMA Counted ==
  ASSUME Books, Op \/ Still
  PROVE  ops' \in 0..MaxOps /\ breaks' \in 0..MaxBreaks
BY NetAssumption DEF Books, Op, Still

(* A step that leaves the links and keeps to the known users               *)
LEMMA BooksSame ==
  ASSUME IInv, Op \/ Still, SameLinks, ready' \subseteq Users, reg' \subseteq Users,
         gone' \subseteq Users, now' \in Times
  PROVE  Books'
BY Parts, Counted DEF Books, SameLinks

(* A step that is about tables and lines alone                             *)
LEMMA BooksOfUsers ==
  ASSUME IInv, Op \/ Still, SameUsers, SameLinks PROVE Books'
BY Parts, BooksSame DEF SameUsers, Books

-----------------------------------------------------------------------------
(* Users.                                                                  *)

(* u_user_try_register, after NICK or USER                                 *)
LEMMA TryRegisterKeeps ==
  ASSUME IInv, NEW u \in Users, u \notin reg, Op, SameLinks, UNCHANGED <<gone, now>>,
         ready' \subseteq Users, NEW st, NEW isReady, Become(Home[u], st), st.here \subseteq Users,
         Ok(Home[u], st, reg), u \in st.here, TsKept(srv[Home[u]], st),
         srv[Home[u]].here \subseteq st.here,
         TryRegister(Home[u], st, u, isReady)
  PROVE  Keeps
<1>1. /\ Home[u] \in Servers /\ wire \in WireType(gone) /\ reg \subseteq Users /\ gone \subseteq Users
      /\ now \in Times /\ None \notin Nicks /\ gone' = gone
      /\ \A v \in reg \ gone : Home[v] = Home[u] => v \in st.here
  BY Parts, NetAssumption DEF Books, AtHome
<1>2. CASE isReady /\ st.nick[u] # None
  <2>1. reg' = reg \cup {u} /\ wire' = Tell(wire, Home[u], st, None, EUID(u, st.nick[u]))
    BY <1>2 DEF TryRegister
  <2>2. st.nick[u] \in Nicks
    BY <1>2, TablesParts DEF Ok
  <2>3. wire' \in WireType(gone')
    BY <1>1, <2>1, <2>2, Kinds, TellTyped
  <2>4. Ok(Home[u], st, reg')
    BY <1>2, <2>1 DEF Ok, Sane, Named
  <2>5. Books'
    BY <1>1, <2>1, BooksSame
  <2>. QED BY <1>1, <2>1, <2>3, <2>4, <2>5, Changes
<1>3. CASE ~(isReady /\ st.nick[u] # None)
  <2>1. reg' = reg /\ wire' = wire
    BY <1>3 DEF TryRegister
  <2>2. Books'
    BY <1>1, <2>1, BooksSame
  <2>. QED BY <1>1, <2>1, <2>2, Changes
<1>. QED BY <1>2, <1>3

(* The first NICK of a user                                                *)
LEMMA FirstNickLineKeeps ==
  ASSUME IInv, NEW u \in Users, NEW n \in Nicks, FirstNickLine(u, n) PROVE Keeps
<1>1. PICK st1 : st1 = [srv[Home[u]] EXCEPT !.here = @ \cup {u}]
  OBVIOUS
<1>2. PICK st : st = SetNick(st1, u, n)
  OBVIOUS
<1>3. /\ u \notin reg /\ Op /\ SameLinks /\ UNCHANGED <<ready, gone, now>>
      /\ Become(Home[u], st) /\ TryRegister(Home[u], st, u, u \in ready)
  BY <1>1, <1>2 DEF FirstNickLine
<1>4. Home[u] \in Servers /\ Ok(Home[u], srv[Home[u]], reg) /\ ready \subseteq Users
  BY Parts, NetAssumption DEF Books
<1>5. Knows(srv[Home[u]], Home[u])
  BY <1>4, NetAssumption DEF Ok, Sane, NoOrphans, Knows
<1>6. Ok(Home[u], st, reg) /\ TsKept(srv[Home[u]], st) /\ st.here = srv[Home[u]].here \cup {u}
  BY <1>1, <1>2, <1>4, <1>5, ArriveOk
<1>7. st.here \subseteq Users /\ u \in st.here
  BY <1>6, TablesParts DEF Ok
<1>. QED BY <1>3, <1>4, <1>6, <1>7, TryRegisterKeeps

(* USER                                                                    *)
LEMMA UserLineKeeps ==
  ASSUME IInv, NEW u \in Users, UserLine(u) PROVE Keeps
<1>1. PICK st : st = [srv[Home[u]] EXCEPT !.here = @ \cup {u}]
  OBVIOUS
<1>2. /\ u \notin reg /\ Op /\ SameLinks /\ UNCHANGED <<gone, now>> /\ ready' = ready \cup {u}
      /\ Become(Home[u], st) /\ TryRegister(Home[u], st, u, TRUE)
  BY <1>1 DEF UserLine
<1>3. /\ Home[u] \in Servers /\ Ok(Home[u], srv[Home[u]], reg) /\ ready \subseteq Users
      /\ srv[Home[u]] \in Tables
  BY Parts, NetAssumption DEF Books
<1>4. Knows(srv[Home[u]], Home[u])
  BY <1>3, NetAssumption DEF Ok, Sane, NoOrphans, Knows
<1>5. /\ st.here = srv[Home[u]].here \cup {u} /\ st.parent = srv[Home[u]].parent
      /\ st.nick = srv[Home[u]].nick /\ st.byNick = srv[Home[u]].byNick
      /\ st.chan = srv[Home[u]].chan /\ st \in Tables
  BY <1>1, <1>3 DEF Tables
<1>6. EntriesRight(st) /\ Named(Home[u], st, reg) /\ ChanSane(st.chan)
  BY <1>2, <1>3, <1>5 DEF Ok, Sane, EntriesRight, Named
<1>7. NoOrphans(Home[u], st)
  BY <1>3, <1>4, <1>5 DEF Ok, Sane, NoOrphans, Knows
<1>8. TsKept(srv[Home[u]], st)
  BY <1>3, <1>5, TsSame DEF TsKept
<1>9. /\ st.here \subseteq Users /\ u \in st.here /\ ready' \subseteq Users
      /\ srv[Home[u]].here \subseteq st.here
  BY <1>2, <1>3, <1>5, TablesParts
<1>10. Ok(Home[u], st, reg)
  BY <1>5, <1>6, <1>7 DEF Ok, Sane
<1>. QED BY <1>2, <1>8, <1>9, <1>10, TryRegisterKeeps

(* u_user_set_nick, of a user who is there                                 *)
LEMMA SetNickOk ==
  ASSUME IInv, NEW s \in Servers, NEW st, Ok(s, st, reg), NEW u \in st.here, NEW n \in Nicks
  PROVE  LET r == SetNick(st, u, n)
         IN  Ok(s, r, reg) /\ TsKept(st, r) /\ r.here = st.here
<1>1. st.here \subseteq Users /\ u \in Users /\ st \in Tables
  BY TablesParts DEF Ok
<1>2. st = [st EXCEPT !.here = @ \cup {u}]
  <2>1. st.here \cup {u} = st.here
    OBVIOUS
  <2>. QED BY <1>1, <2>1 DEF Tables
<1>3. Knows(st, Home[u])
  BY DEF Ok, Sane, NoOrphans
<1>4. PICK st1 : st1 = [st EXCEPT !.here = @ \cup {u}]
  OBVIOUS
<1>5. LET r == SetNick(st1, u, n)
      IN  /\ Ok(s, r, reg) /\ TsKept(st, r) /\ r.nick[u] = n
          /\ r.here = st.here \cup {u} /\ r.parent = st.parent
  BY ONLY <1>1, <1>3, <1>4, Ok(s, st, reg), n \in Nicks, ArriveOk
<1>6. st1 = st /\ st.here \cup {u} = st.here
  BY <1>2, <1>4
<1>. QED BY <1>5, <1>6

(* NICK of a registered user                                               *)
LEMMA NickKeeps ==
  ASSUME IInv, NEW u \in Users, NEW n \in Nicks, Nick(u, n)
  PROVE  Keeps
<1>1. PICK st : st = SetNick(srv[Home[u]], u, n)
  OBVIOUS
<1>2. /\ Op /\ SameUsers /\ SameLinks /\ Become(Home[u], st) /\ u \in reg \ gone
      /\ wire' = Tell(wire, Home[u], srv[Home[u]], None, NICK(u, n))
  BY <1>1 DEF Nick, Active
<1>3. /\ Home[u] \in Servers /\ Ok(Home[u], srv[Home[u]], reg) /\ wire \in WireType(gone)
      /\ AtHome
  BY Parts, NetAssumption
<1>4. wire' \in WireType(gone) /\ gone' = gone /\ reg' = reg
  BY <1>2, <1>3, Kinds, TellTyped DEF SameUsers
<1>5. Books'
  BY <1>2, BooksOfUsers
<1>6. Ok(Home[u], st, reg) /\ TsKept(srv[Home[u]], st) /\ st.here = srv[Home[u]].here
  BY <1>1, <1>2, <1>3, SetNickOk DEF AtHome
<1>7. \A v \in reg' \ gone' : Home[v] = Home[u] => v \in st.here
  BY <1>3, <1>4, <1>6 DEF AtHome
<1>. QED BY <1>2, <1>3, <1>4, <1>5, <1>6, <1>7, Changes

(* A step that leaves the users of s where they are                        *)
LEMMA TableStep ==
  ASSUME IInv, NEW s \in Servers, NEW st, Become(s, st), Ok(s, st, reg), TsKept(srv[s], st),
         \A v \in srv[s].here : Home[v] = s => v \in st.here,
         wire' \in WireType(gone), UNCHANGED <<reg, gone>>, Books'
  PROVE  Keeps
<1>1. \A v \in reg' \ gone' : Home[v] = s => v \in st.here
  BY Parts DEF AtHome
<1>. QED BY <1>1, Changes

(* QUIT, or the end of a user's link                                       *)
LEMMA QuitKeeps ==
  ASSUME IInv, NEW u \in Users, Quit(u) PROVE Keeps
<1>1. PICK st : st = Destroy(srv[Home[u]], {u})
  OBVIOUS
<1>2. /\ Op /\ SameLinks /\ Become(Home[u], st) /\ gone' = gone \cup {u}
      /\ UNCHANGED <<ready, reg, now>>
      /\ wire' = Tell(wire, Home[u], srv[Home[u]], None, QUIT(u))
  BY <1>1 DEF Quit
<1>3. /\ Home[u] \in Servers /\ Ok(Home[u], srv[Home[u]], reg) /\ wire \in WireType(gone)
      /\ AtHome /\ Books
  BY Parts, NetAssumption
<1>4. wire' \in WireType(gone')
  <2>1. wire \in WireType(gone') /\ u \in gone'
    BY <1>2, <1>3, Later
  <2>. QED BY <1>2, <2>1, Kinds, TellTyped
<1>5. Books'
  BY <1>2, <1>3, BooksSame DEF Books
<1>6. Ok(Home[u], st, reg) /\ TsKept(srv[Home[u]], st) /\ st.here = srv[Home[u]].here \ {u}
  BY <1>1, <1>3, DestroyOk
<1>7. \A v \in reg' \ gone' : Home[v] = Home[u] => v \in st.here
  BY <1>2, <1>3, <1>6 DEF AtHome
<1>. QED BY <1>2, <1>3, <1>4, <1>5, <1>6, <1>7, Changes

(* KILL, given by an operator or passed on                                 *)
LEMMA KillAtKeeps ==
  ASSUME IInv, NEW s \in Servers, NEW w \in WireType(gone), NEW from, NEW u \in Users,
         KillAt(s, w, from, u), Op \/ Still, crossed' \in BOOLEAN
  PROVE  Keeps
<1>1. PICK st : st = Destroy(srv[s], {u})
  OBVIOUS
<1>2. /\ Become(s, st) /\ gone' = (IF Home[u] = s THEN gone \cup {u} ELSE gone)
      /\ UNCHANGED <<ready, reg, now, link, alive, lost>>
      /\ wire' = Tell(w, s, srv[s], from, KILL(u))
  BY <1>1 DEF KillAt
<1>3. Ok(s, srv[s], reg) /\ AtHome /\ Books
  BY Parts
<1>4. gone \subseteq gone' /\ gone' \subseteq Users
  BY <1>2, <1>3 DEF Books
<1>5. wire' \in WireType(gone')
  BY <1>2, <1>4, Later, Kinds, TellTyped
<1>6. Books'
  BY <1>2, <1>3, <1>4, Counted DEF Books
<1>7. Ok(s, st, reg) /\ TsKept(srv[s], st) /\ st.here = srv[s].here \ {u}
  BY <1>1, <1>3, DestroyOk
<1>8. \A v \in reg' \ gone' : Home[v] = s => v \in st.here
  BY <1>2, <1>3, <1>7 DEF AtHome
<1>. QED BY <1>2, <1>4, <1>5, <1>6, <1>7, <1>8, Changes

(* KILL of an operator                                                     *)
LEMMA KillKeeps ==
  ASSUME IInv, NEW s \in Servers, NEW u \in Users, Kill(s, u) PROVE Keeps
<1>1. wire \in WireType(gone) /\ crossed \in BOOLEAN
  BY Parts DEF Books
<1>. QED BY <1>1, KillAtKeeps DEF Kill

(* JOIN of a local user                                                    *)
LEMMA JoinKeeps ==
  ASSUME IInv, NEW u \in Users, Join(u) PROVE Keeps
<1>1. PICK s, c : s = Home[u] /\ c = srv[s].chan
  OBVIOUS
<1>2. /\ s \in Servers /\ Ok(s, srv[s], reg) /\ wire \in WireType(gone) /\ Books
      /\ c \in ChanType /\ ChanSane(c) /\ srv[s] \in Tables
  BY <1>1, Parts, NetAssumption, TablesParts DEF Ok, Sane
<1>3. /\ Op /\ SameLinks /\ UNCHANGED <<ready, reg, gone>>
  BY DEF Join
<1>4. CASE c.there
  <2>1. PICK st : st = ChanAdd(srv[s], {u})
    OBVIOUS
  <2>2. /\ Become(s, st) /\ now' = now
        /\ wire' = Tell(wire, s, st, None, IF c.members = {} THEN SJOIN(c, {u}) ELSE JOIN(u))
    BY <1>1, <1>4, <2>1 DEF Join
  <2>3. (IF c.members = {} THEN SJOIN(c, {u}) ELSE JOIN(u)) \in Sent(gone)
    BY <1>2, <1>4, Kinds, JoinKind
  <2>4. wire' \in WireType(gone)
    BY <1>2, <2>2, <2>3, TellTyped
  <2>5. Ok(s, st, reg) /\ TsKept(srv[s], st) /\ st.here = srv[s].here
    BY <1>1, <1>2, <1>4, <2>1, ChanAddOk
  <2>6. Books'
    BY <1>2, <1>3, <2>2, BooksSame DEF Books
  <2>. QED BY <1>2, <1>3, <2>2, <2>4, <2>5, <2>6, TableStep
<1>5. CASE ~c.there
  <2>1. PICK ts \in Times :
          LET new == [ts |-> ts, mod |-> FALSE, members |-> {u}, opers |-> {u}, there |-> TRUE]
          IN  /\ now' = ts
              /\ Become(s, [srv[s] EXCEPT !.chan = new])
              /\ wire' = Tell(wire, s, srv[s], None, SJOIN(new, {u}))
    BY <1>1, <1>5 DEF Join
  <2>2. PICK new : new = [ts |-> ts, mod |-> FALSE, members |-> {u}, opers |-> {u}, there |-> TRUE]
    OBVIOUS
  <2>3. PICK st : st = [srv[s] EXCEPT !.chan = new]
    OBVIOUS
  <2>4. /\ now' = ts /\ Become(s, st) /\ wire' = Tell(wire, s, srv[s], None, SJOIN(new, {u}))
    BY <2>1, <2>2, <2>3
  <2>5. new \in ChanType /\ ChanSane(new) /\ new.there
    BY <2>2 DEF ChanType, ChanSane, Times
  <2>6. Ok(s, st, reg) /\ st.here = srv[s].here /\ TsKept(srv[s], st)
    BY <1>1, <1>2, <1>5, <2>3, <2>5, NewChan DEF TsKept
  <2>7. wire' \in WireType(gone)
    BY <1>2, <2>4, <2>5, JoinKind, TellTyped
  <2>8. Books'
    BY <1>2, <1>3, <2>4, BooksSame DEF Books
  <2>. QED BY <1>2, <1>3, <2>4, <2>6, <2>7, <2>8, TableStep
<1>. QED BY <1>4, <1>5

(* PART of a local user                                                    *)
LEMMA PartKeeps ==
  ASSUME IInv, NEW u \in Users, Part(u) PROVE Keeps
<1>1. PICK s, st : s = Home[u] /\ st = ChanDel(srv[s], {u})
  OBVIOUS
<1>2. /\ Op /\ SameLinks /\ SameUsers /\ Become(s, st)
      /\ wire' = Tell(wire, s, srv[s], None, PART(u))
  BY <1>1 DEF Part
<1>3. s \in Servers /\ Ok(s, srv[s], reg) /\ wire \in WireType(gone)
  BY <1>1, Parts, NetAssumption
<1>4. wire' \in WireType(gone)
  BY <1>2, <1>3, Kinds, TellTyped
<1>5. Ok(s, st, reg) /\ TsKept(srv[s], st) /\ st.here = srv[s].here
  BY <1>1, <1>3, ChanDelOk
<1>6. Books' /\ UNCHANGED <<reg, gone>>
  BY <1>2, BooksOfUsers DEF SameUsers
<1>. QED BY <1>2, <1>3, <1>4, <1>5, <1>6, TableStep

(* A channel that changed and was there                                    *)
LEMMA ChangedChan ==
  ASSUME IInv, NEW s \in Servers, srv[s].chan.there, NEW c \in ChanType, ChanSane(c),
         c.ts <= srv[s].chan.ts, Become(s, [srv[s] EXCEPT !.chan = c]),
         wire' \in WireType(gone), UNCHANGED <<reg, gone>>, Books'
  PROVE  Keeps
<1>1. PICK st : st = [srv[s] EXCEPT !.chan = c]
  OBVIOUS
<1>2. Ok(s, st, reg) /\ st.chan = c /\ st.here = srv[s].here
  BY <1>1, Parts, NewChan
<1>. QED BY <1>1, <1>2, TableStep DEF TsKept

(* MODE of a local operator of the channel                                 *)
LEMMA ModeKeeps ==
  ASSUME IInv, NEW u \in Users, NEW on \in BOOLEAN, NEW who \in Users \cup {None},
         Mode(u, on, who)
  PROVE  Keeps
<1>1. PICK s, c, new : s = Home[u] /\ c = srv[s].chan /\ new = Changed(c, on, who)
  OBVIOUS
<1>2. /\ Op /\ SameLinks /\ SameUsers /\ Become(s, [srv[s] EXCEPT !.chan = new])
      /\ wire' = Tell(wire, s, srv[s], None, TMODE(c.ts, on, who)) /\ u \in c.opers
  BY <1>1 DEF Mode
<1>3. /\ s \in Servers /\ wire \in WireType(gone) /\ c \in ChanType /\ ChanSane(c)
  BY <1>1, Parts, NetAssumption, TablesParts DEF Ok, Sane
<1>4. c.there /\ c.ts \in Times
  BY <1>2, <1>3 DEF ChanSane, NoChan
<1>5. /\ new \in ChanType /\ ChanSane(new) /\ new.ts = c.ts
  BY <1>1, <1>3, <1>4, ChangedOk
<1>6. wire' \in WireType(gone)
  BY <1>2, <1>3, <1>4, ModeKind, TellTyped
<1>7. Books' /\ UNCHANGED <<reg, gone>> /\ new.ts <= c.ts
  BY <1>2, <1>4, <1>5, BooksOfUsers DEF SameUsers, Times
<1>. QED BY <1>1, <1>2, <1>3, <1>4, <1>5, <1>6, <1>7, ChangedChan

-----------------------------------------------------------------------------
(* Links between servers.                                                  *)

(* Lines of one link                                                       *)
LEMMA LineTyped ==
  ASSUME NEW left, NEW w \in WireType(left), NEW s \in Servers, NEW t \in Servers, s # t,
         NEW lines \in Seq(Sent(left))
  PROVE  /\ <<s, t>> \in DOMAIN w /\ w[<<s, t>>] \in Seq(Sent(left))
         /\ [w EXCEPT ![<<s, t>>] = lines] \in WireType(left)
<1>1. <<s, t>> \in {x \in Servers \X Servers : x[1] # x[2]}
  OBVIOUS
<1>. QED BY <1>1 DEF WireType

(* One end of a link                                                       *)
LEMMA LinkTyped ==
  ASSUME link \in LinkType, NEW s \in Servers, NEW t \in Servers,
         NEW k \in {"no", "out", "in", "outPass", "inPass", "on"}
  PROVE  [link EXCEPT ![s][t] = k] \in LinkType
BY DEF LinkType

(* u_link_connect                                                          *)
LEMMA ConnectKeeps ==
  ASSUME IInv, NEW s \in Servers, NEW t \in Servers, s # t, Connect(s, t) PROVE Keeps
<1>1. /\ link' = [link EXCEPT ![s][t] = "out", ![t][s] = "in"]
      /\ wire' = [wire EXCEPT ![<<s, t>>] = <<PASS, SERVER>>]
      /\ UNCHANGED <<srv, alive, lost, crossed>> /\ SameUsers /\ Still
  BY DEF Connect
<1>2. wire \in WireType(gone) /\ Books
  BY Parts
<1>3. <<PASS, SERVER>> \in Seq(Sent(gone))
  BY Kinds
<1>4. wire' \in WireType(gone)
  BY <1>1, <1>2, <1>3, LineTyped
<1>5. Books' /\ UNCHANGED <<srv, reg, gone>>
  BY <1>1, <1>2, Counted DEF Books, LinkType, SameUsers
<1>. QED BY <1>4, <1>5, SameTables

(* exceptional_quit and what closes the connection                         *)
LEMMA LinkEndKeeps ==
  ASSUME IInv, NEW s \in Servers, NEW t \in Servers, s # t, NEW w \in WireType(gone),
         LinkEnd(s, t, w), ops' \in 0..MaxOps, breaks' \in 0..MaxBreaks
  PROVE  Keeps
<1>1. PICK st : st = IF Knows(srv[s], t) THEN ServerDestroy(srv[s], t) ELSE srv[s]
  OBVIOUS
<1>2. PICK told : told = IF Knows(srv[s], t) THEN Tell(w, s, srv[s], None, SQUIT(t)) ELSE w
  OBVIOUS
<1>3. /\ Become(s, st) /\ wire' = Closed(told, s, t) /\ link' = [link EXCEPT ![s][t] = "no"]
      /\ SameUsers /\ UNCHANGED <<alive, lost, crossed>>
  BY <1>1, <1>2 DEF LinkEnd
<1>4. Ok(s, srv[s], reg) /\ Books /\ srv[s] \in Tables
  BY Parts
<1>5. told \in WireType(gone)
  BY <1>2, Kinds, TellTyped
<1>6. wire' \in WireType(gone)
  BY <1>3, <1>5, ClosedTyped
<1>7. Ok(s, st, reg) /\ TsKept(srv[s], st) /\ \A v \in srv[s].here : Home[v] = s => v \in st.here
  BY <1>1, <1>4, TsSame, ServerDestroyOk
<1>8. Books' /\ UNCHANGED <<reg, gone>>
  BY <1>3, <1>4, LinkTyped DEF Books, SameUsers
<1>. QED BY <1>3, <1>6, <1>7, <1>8, TableStep

(* A connection that breaks                                                *)
LEMMA BreakKeeps ==
  ASSUME IInv, NEW s \in Servers, NEW t \in Servers, s # t, Break(s, t) PROVE Keeps
<1>1. PICK k \in 0..Len(wire[<<s, t>>]) :
         LinkEnd(s, t, [wire EXCEPT ![<<s, t>>] = SubSeq(@, 1, k)])
  BY DEF Break
<1>2. wire \in WireType(gone) /\ Books
  BY Parts
<1>3. wire[<<s, t>>] \in Seq(Sent(gone)) /\ <<s, t>> \in DOMAIN wire
  BY <1>2, << >> \in Seq(Sent(gone)), LineTyped
<1>4. SubSeq(wire[<<s, t>>], 1, k) \in Seq(Sent(gone))
  BY <1>3
<1>5. PICK w : w = [wire EXCEPT ![<<s, t>>] = SubSeq(@, 1, k)]
  OBVIOUS
<1>6. w \in WireType(gone)
  BY <1>2, <1>4, <1>5, LineTyped
<1>7. ops' \in 0..MaxOps /\ breaks' \in 0..MaxBreaks
  BY <1>2, NetAssumption DEF Books, Break
<1>. QED BY <1>1, <1>5, <1>6, <1>7, LinkEndKeeps

(* SQUIT, given by an operator or passed on                                *)
LEMMA SquitAtKeeps ==
  ASSUME IInv, NEW s \in Servers, NEW w \in WireType(gone), NEW from \in Servers \cup {None},
         from # s, NEW sv \in Servers, sv = s => from # None,
         SquitAt(s, w, from, sv), Op \/ Still, crossed' \in BOOLEAN
  PROVE  Keeps
<1>1. PICK out : out = IF sv \in {s, from} THEN from ELSE sv
  OBVIOUS
<1>2. PICK told : told = Tell(w, s, srv[s], from, SQUIT(out))
  OBVIOUS
<1>3. PICK st : st = ServerDestroy(srv[s], out)
  OBVIOUS
<1>4. /\ Become(s, st) /\ SameUsers /\ UNCHANGED <<alive, lost>>
      /\ wire' = told \/ wire' = Closed(told, s, out)
      /\ link' = link \/ link' = [link EXCEPT ![s][out] = "no"]
  BY <1>1, <1>2, <1>3 DEF SquitAt
<1>5. out \in Servers /\ out # s
  BY <1>1, NetAssumption
<1>6. Ok(s, srv[s], reg) /\ Books
  BY Parts
<1>7. told \in WireType(gone)
  BY <1>2, <1>5, Kinds, TellTyped
<1>8. wire' \in WireType(gone)
  BY <1>4, <1>5, <1>7, ClosedTyped
<1>9. Ok(s, st, reg) /\ TsKept(srv[s], st) /\ \A v \in srv[s].here : Home[v] = s => v \in st.here
  BY <1>3, <1>5, <1>6, ServerDestroyOk
<1>10. Books' /\ UNCHANGED <<reg, gone>>
  BY <1>4, <1>5, <1>6, LinkTyped, Counted DEF Books, SameUsers
<1>. QED BY <1>4, <1>8, <1>9, <1>10, TableStep

(* SQUIT of an operator                                                    *)
LEMMA SquitKeeps ==
  ASSUME IInv, NEW s \in Servers, NEW sv \in Servers, Squit(s, sv) PROVE Keeps
<1>1. wire \in WireType(gone) /\ Books /\ None # s
  BY Parts, NetAssumption
<1>. QED BY <1>1, SquitAtKeeps DEF Squit, Books

(* The end of a process                                                    *)
LEMMA DieKeeps ==
  ASSUME IInv, NEW s \in Servers, NEW w \in WireType(gone), Die(s, w), Still
  PROVE  Keeps
<1>1. /\ alive' = alive \ {s} /\ link' = [link EXCEPT ![s] = [t \in Servers |-> "no"]]
      /\ UNCHANGED <<srv, lost, crossed>> /\ SameUsers
  BY DEF Die
<1>2. PICK k \in UNION {0..Len(w[x]) : x \in {y \in DOMAIN w : y[1] = s}} :
         wire' = [x \in DOMAIN w |->
                     IF x[2] = s THEN << >>
                     ELSE IF x[1] = s /\ link[x[2]][s] # "no"
                     THEN Append(SubSeq(w[x], 1, IF k < Len(w[x]) THEN k ELSE Len(w[x])), EOF)
                     ELSE w[x]]
  BY DEF Die
<1>3. DOMAIN w = {x \in Servers \X Servers : x[1] # x[2]}
      /\ \A x \in DOMAIN w : w[x] \in Seq(Sent(gone)) /\ Len(w[x]) \in Nat
  BY DEF WireType
<1>4. k \in Nat
  BY <1>2, <1>3
<1>5. ASSUME NEW q \in Seq(Sent(gone))
      PROVE  Append(SubSeq(q, 1, IF k < Len(q) THEN k ELSE Len(q)), EOF) \in Seq(Sent(gone))
  <2>1. PICK n : n = IF k < Len(q) THEN k ELSE Len(q)
    OBVIOUS
  <2>2. n \in 0..Len(q) /\ EOF \in Sent(gone)
    BY <1>4, <2>1, Kinds
  <2>3. SubSeq(q, 1, n) \in Seq(Sent(gone))
    BY <2>2
  <2>. QED BY <2>1, <2>2, <2>3
<1>6. wire' \in WireType(gone)
  <2>1. DOMAIN wire' = DOMAIN w /\ wire' = [x \in DOMAIN w |-> wire'[x]]
    BY <1>2
  <2>2. ASSUME NEW x \in DOMAIN w PROVE wire'[x] \in Seq(Sent(gone))
    BY <1>2, <1>3, <1>5
  <2>. QED BY <1>3, <2>1, <2>2 DEF WireType
<1>7. Books' /\ UNCHANGED <<srv, reg, gone>>
  BY <1>1, Parts, Counted DEF Books, SameUsers, LinkType
<1>. QED BY <1>6, <1>7, SameTables

-----------------------------------------------------------------------------
(* Lines, m from t at s; w is what is under way after it.                  *)

(* A line that changes the tables of s to st and goes on as m              *)
LEMMA PassKeeps ==
  ASSUME IInv, NEW s \in Servers, NEW t, NEW w \in WireType(gone), NEW st,
         NEW m \in Sent(gone), Pass(s, t, w, st, m), Still,
         Ok(s, st, reg), TsKept(srv[s], st),
         \A v \in reg \ gone : Home[v] = s => v \in st.here
  PROVE  Keeps
<1>1. Become(s, st) /\ wire' = Tell(w, s, st, t, m) /\ SameUsers /\ SameLinks
  BY DEF Pass
<1>2. wire' \in WireType(gone)
  BY <1>1, TellTyped
<1>3. Books' /\ reg' = reg /\ gone' = gone
  BY <1>1, BooksOfUsers DEF SameUsers
<1>. QED BY <1>1, <1>2, <1>3, Changes

(* A line that is ignored                                                  *)
LEMMA IgnoreKeeps ==
  ASSUME IInv, NEW w \in WireType(gone), Ignore(w), Still PROVE Keeps
<1>1. Books' /\ UNCHANGED <<srv, reg, gone>> /\ wire' \in WireType(gone)
  BY BooksOfUsers DEF SameUsers, Ignore
<1>. QED BY <1>1, SameTables

(* c_first_pass                                                            *)
LEMMA HandlePassKeeps ==
  ASSUME IInv, NEW s \in Servers, NEW t \in Servers, s # t, NEW w \in WireType(gone),
         HandlePass(s, t, w), Still
  PROVE  Keeps
<1>1. PICK st : st = [srv[s] EXCEPT !.parent[t] = s]
  OBVIOUS
<1>2. PICK k : k = IF link[s][t] = "out" THEN "outPass" ELSE "inPass"
  OBVIOUS
<1>3. Ok(s, srv[s], reg) /\ Books
  BY Parts
<1>4. /\ Become(s, st) /\ link' = [link EXCEPT ![s][t] = k] /\ wire' = w
      /\ UNCHANGED <<alive, lost, crossed>> /\ SameUsers
  BY <1>1, <1>2, <1>3 DEF HandlePass, Books, LinkType
<1>5. Knows(srv[s], s)
  BY <1>3, NetAssumption DEF Ok, Sane, NoOrphans, Knows
<1>6. Ok(s, st, reg) /\ TsKept(srv[s], st) /\ st.here = srv[s].here
  BY <1>1, <1>3, <1>5, NewServerOk
<1>7. Books' /\ UNCHANGED <<reg, gone>>
  <2>1. k \in {"no", "out", "in", "outPass", "inPass", "on"}
    BY <1>2
  <2>. QED BY <1>3, <1>4, <2>1, LinkTyped, Counted DEF Books, SameUsers
<1>. QED BY <1>4, <1>6, <1>7, TableStep

(* c_us_server, with the burst                                             *)
LEMMA HandleServerKeeps ==
  ASSUME IInv, NEW s \in Servers, NEW t \in Servers, s # t, NEW w \in WireType(gone),
         HandleServer(s, t, w), Still
  PROVE  Keeps
<1>1. PICK told : told = Tell(w, s, srv[s], t, SID(s, t))
  OBVIOUS
<1>2. PICK lines : lines = OwnServer(s, t) \o Burst(s, t)
  OBVIOUS
<1>3. /\ link' = [link EXCEPT ![s][t] = "on"] /\ wire' = Queue(told, s, t, lines)
      /\ UNCHANGED <<srv, alive, lost, crossed>> /\ SameUsers
  BY <1>1, <1>2 DEF HandleServer
<1>4. Ok(s, srv[s], reg) /\ Books
  BY Parts
<1>5. told \in WireType(gone)
  BY <1>1, Kinds, TellTyped
<1>6. lines \in Seq(Sent(gone))
  <2>1. OwnServer(s, t) \in Seq(Sent(gone))
    BY Kinds DEF OwnServer
  <2>2. Burst(s, t) \in Seq(Sent(gone))
    BY <1>4, BurstTyped
  <2>. QED BY <1>2, <2>1, <2>2
<1>7. wire' \in WireType(gone)
  BY <1>3, <1>5, <1>6, QueueTyped
<1>8. Books' /\ UNCHANGED <<srv, reg, gone>>
  BY <1>3, <1>4, LinkTyped, Counted DEF Books, SameUsers
<1>. QED BY <1>7, <1>8, SameTables

(* What a line of a link that is registered finds: the tables of s, and    *)
(* the registered users of s in them                                       *)
LEMMA Found ==
  ASSUME IInv, NEW s \in Servers, NEW m \in Sent(gone)
  PROVE  /\ Ok(s, srv[s], reg) /\ TsKept(srv[s], srv[s]) /\ m \in Messages
         /\ m.t = "QUIT" => m.u \in gone
         /\ \A v \in reg \ gone : Home[v] = s => v \in srv[s].here
BY Parts, TsSame DEF Sent, AtHome

(* c_s_sid                                                                 *)
LEMMA HandleSidKeeps ==
  ASSUME IInv, NEW s \in Servers, NEW t \in Servers, s # t, NEW w \in WireType(gone),
         NEW m \in Sent(gone), m.t = "SID", HandleSid(s, t, w, m), Still
  PROVE  Keeps
<1>1. m.src \in Servers /\ m.sid \in Servers
  BY Found, Fields
<1>2. CASE ~Knows(srv[s], m.src)
  BY <1>2, DieKeeps DEF HandleSid
<1>3. CASE Knows(srv[s], m.src) /\ Knows(srv[s], m.sid)
  BY <1>3, Found, PassKeeps DEF HandleSid
<1>4. CASE Knows(srv[s], m.src) /\ ~Knows(srv[s], m.sid)
  <2>1. PICK st : st = [srv[s] EXCEPT !.parent[m.sid] = m.src]
    OBVIOUS
  <2>2. Pass(s, t, w, st, m)
    BY <1>4, <2>1 DEF HandleSid
  <2>3. m.sid # s
    BY <1>4, Found, NetAssumption DEF Ok, Sane, NoOrphans, Knows
  <2>4. Ok(s, st, reg) /\ TsKept(srv[s], st) /\ st.here = srv[s].here
    BY <1>1, <1>4, <2>1, <2>3, Found, NewServerOk
  <2>. QED BY <2>2, <2>4, Found, PassKeeps
<1>. QED BY <1>2, <1>3, <1>4

(* c_s_euid                                                                *)
LEMMA HandleEuidKeeps ==
  ASSUME IInv, NEW s \in Servers, NEW t \in Servers, s # t, NEW w \in WireType(gone),
         NEW m \in Sent(gone), m.t = "EUID", HandleEuid(s, t, w, m), Still
  PROVE  Keeps
<1>1. PICK st : st = Override(srv[s], s, m.n)
  OBVIOUS
<1>2. m.u \in Users /\ m.n \in Nicks
  BY Found, Fields
<1>3. /\ Ok(s, st, reg) /\ st.chan = srv[s].chan /\ st.here = srv[s].here
      /\ st.parent = srv[s].parent
  BY <1>1, <1>2, Found, OverrideOk
<1>4. TsKept(srv[s], st)
  BY <1>3, Found DEF TsKept
<1>5. CASE ~Knows(srv[s], Home[m.u])
  BY <1>5, IgnoreKeeps DEF HandleEuid
<1>6. CASE Knows(srv[s], Home[m.u]) /\ m.u \in st.here
  <2>1. Pass(s, t, w, st, m)
    BY <1>1, <1>6 DEF HandleEuid
  <2>. QED BY <1>3, <1>4, <2>1, Found, PassKeeps
<1>7. CASE Knows(srv[s], Home[m.u]) /\ m.u \notin st.here
  <2>1. PICK st1 : st1 = [st EXCEPT !.here = @ \cup {m.u}]
    OBVIOUS
  <2>2. PICK r : r = SetNick(st1, m.u, m.n)
    OBVIOUS
  <2>3. Pass(s, t, w, r, m)
    BY <1>1, <1>7, <2>1, <2>2 DEF HandleEuid
  <2>4. Knows(st, Home[m.u])
    BY <1>3, <1>7 DEF Knows
  <2>5. Ok(s, r, reg) /\ TsKept(st, r) /\ r.here = st.here \cup {m.u}
    BY <1>2, <1>3, <2>1, <2>2, <2>4, ArriveOk
  <2>6. TsKept(srv[s], r)
    BY <1>3, <2>5 DEF TsKept
  <2>. QED BY <1>3, <2>3, <2>5, <2>6, Found, PassKeeps
<1>. QED BY <1>5, <1>6, <1>7

(* c_a_squit                                                               *)
LEMMA HandleSquitKeeps ==
  ASSUME IInv, NEW s \in Servers, NEW t \in Servers, s # t, NEW w \in WireType(gone),
         NEW m \in Sent(gone), m.t = "SQUIT", HandleSquit(s, t, w, m), Still
  PROVE  Keeps
<1>1. m.sid \in Servers /\ crossed \in BOOLEAN /\ t # None
  BY Found, Fields, Parts, NetAssumption DEF Books
<1>2. CASE m.sid # s /\ ~Knows(srv[s], m.sid)
  BY <1>2, IgnoreKeeps DEF HandleSquit
<1>3. CASE ~(m.sid # s /\ ~Knows(srv[s], m.sid))
  <2>1. SquitAt(s, w, t, m.sid) /\ crossed' \in BOOLEAN
    BY <1>1, <1>3 DEF HandleSquit
  <2>. QED BY <1>1, <2>1, SquitAtKeeps
<1>. QED BY <1>2, <1>3

(* c_ru_nick                                                               *)
LEMMA HandleNickKeeps ==
  ASSUME IInv, NEW s \in Servers, NEW t \in Servers, s # t, NEW w \in WireType(gone),
         NEW m \in Sent(gone), m.t = "NICK", HandleNick(s, t, w, m), Still
  PROVE  Keeps
<1>1. PICK st : st = Override(srv[s], s, m.n)
  OBVIOUS
<1>2. m.u \in Users /\ m.n \in Nicks
  BY Found, Fields
<1>3. Ok(s, st, reg) /\ st.chan = srv[s].chan /\ st.here = srv[s].here
  BY <1>1, <1>2, Found, OverrideOk
<1>4. CASE m.u \notin srv[s].here
  BY <1>4, DieKeeps DEF HandleNick
<1>5. CASE m.u \in srv[s].here
  <2>1. PICK r : r = SetNick(st, m.u, m.n)
    OBVIOUS
  <2>2. Pass(s, t, w, r, m)
    BY <1>1, <1>5, <2>1 DEF HandleNick
  <2>3. Ok(s, r, reg) /\ TsKept(st, r) /\ r.here = st.here
    BY <1>2, <1>3, <1>5, <2>1, SetNickOk
  <2>4. TsKept(srv[s], r)
    BY <1>3, <2>3 DEF TsKept
  <2>. QED BY <1>3, <2>2, <2>3, <2>4, Found, PassKeeps
<1>. QED BY <1>4, <1>5

(* c_u_quit                                                                *)
LEMMA HandleQuitKeeps ==
  ASSUME IInv, NEW s \in Servers, NEW t \in Servers, s # t, NEW w \in WireType(gone),
         NEW m \in Sent(gone), m.t = "QUIT", HandleQuit(s, t, w, m), Still
  PROVE  Keeps
<1>1. PICK st : st = Destroy(srv[s], {m.u})
  OBVIOUS
<1>2. CASE m.u \notin srv[s].here
  BY <1>2, IgnoreKeeps DEF HandleQuit
<1>3. CASE m.u \in srv[s].here
  <2>1. Pass(s, t, w, st, m)
    BY <1>1, <1>3 DEF HandleQuit
  <2>2. m.u \in Users /\ m.u \in gone
    BY Found, Fields
  <2>3. Ok(s, st, reg) /\ TsKept(srv[s], st) /\ st.here = srv[s].here \ {m.u}
    BY <1>1, <2>2, Found, DestroyOk
  <2>4. \A v \in reg \ gone : Home[v] = s => v \in st.here
    BY <2>2, <2>3, Found
  <2>. QED BY <2>1, <2>3, <2>4, PassKeeps
<1>. QED BY <1>2, <1>3

(* c_a_kill                                                                *)
LEMMA HandleKillKeeps ==
  ASSUME IInv, NEW s \in Servers, NEW t \in Servers, s # t, NEW w \in WireType(gone),
         NEW m \in Sent(gone), m.t = "KILL", HandleKill(s, t, w, m), Still
  PROVE  Keeps
<1>1. m.u \in Users /\ crossed \in BOOLEAN
  BY Found, Fields, Parts DEF Books
<1>2. CASE m.u \notin srv[s].here
  BY <1>2, IgnoreKeeps DEF HandleKill
<1>3. CASE m.u \in srv[s].here
  <2>1. KillAt(s, w, t, m.u) /\ crossed' \in BOOLEAN
    BY <1>1, <1>3 DEF HandleKill
  <2>. QED BY <1>1, <2>1, KillAtKeeps
<1>. QED BY <1>2, <1>3

(* c_ru_join                                                               *)
LEMMA HandleJoinKeeps ==
  ASSUME IInv, NEW s \in Servers, NEW t \in Servers, s # t, NEW w \in WireType(gone),
         NEW m \in Sent(gone), m.t = "JOIN", HandleJoin(s, t, w, m), Still
  PROVE  Keeps
<1>1. PICK st : st = ChanAdd(srv[s], {m.u})
  OBVIOUS
<1>2. CASE m.u \notin srv[s].here \/ ~srv[s].chan.there
  BY <1>2, IgnoreKeeps DEF HandleJoin
<1>3. CASE m.u \in srv[s].here /\ srv[s].chan.there
  <2>1. Pass(s, t, w, st, m) /\ m.u \in Users
    BY <1>1, <1>3, Found, Fields DEF HandleJoin
  <2>2. Ok(s, st, reg) /\ TsKept(srv[s], st) /\ st.here = srv[s].here
    BY <1>1, <1>3, <2>1, Found, ChanAddOk
  <2>. QED BY <2>1, <2>2, Found, PassKeeps
<1>. QED BY <1>2, <1>3

(* c_u_part                                                                *)
LEMMA HandlePartKeeps ==
  ASSUME IInv, NEW s \in Servers, NEW t \in Servers, s # t, NEW w \in WireType(gone),
         NEW m \in Sent(gone), m.t = "PART", HandlePart(s, t, w, m), Still
  PROVE  Keeps
<1>1. PICK st : st = ChanDel(srv[s], {m.u})
  OBVIOUS
<1>2. CASE m.u \notin srv[s].here
  BY <1>2, IgnoreKeeps DEF HandlePart
<1>3. CASE m.u \in srv[s].here
  <2>1. Pass(s, t, w, st, m) /\ m.u \in Users
    BY <1>1, <1>3, Found, Fields DEF HandlePart
  <2>2. Ok(s, st, reg) /\ TsKept(srv[s], st) /\ st.here = srv[s].here
    BY <1>1, <2>1, Found, ChanDelOk
  <2>. QED BY <2>1, <2>2, Found, PassKeeps
<1>. QED BY <1>2, <1>3

(* c_r_tmode                                                               *)
LEMMA HandleTmodeKeeps ==
  ASSUME IInv, NEW s \in Servers, NEW t \in Servers, s # t, NEW w \in WireType(gone),
         NEW m \in Sent(gone), m.t = "TMODE", HandleTmode(s, t, w, m), Still
  PROVE  Keeps
<1>1. PICK c, new : c = srv[s].chan /\ new = Changed(c, m.on, m.who)
  OBVIOUS
<1>2. CASE ~c.there \/ m.ts > c.ts \/ new = c
  BY <1>1, <1>2, IgnoreKeeps DEF HandleTmode
<1>3. CASE ~(~c.there \/ m.ts > c.ts \/ new = c)
  <2>1. PICK st : st = [srv[s] EXCEPT !.chan = new]
    OBVIOUS
  <2>2. Pass(s, t, w, st, TMODE(c.ts, m.on, m.who))
    BY <1>1, <1>3, <2>1 DEF HandleTmode
  <2>3. m.on \in BOOLEAN /\ m.who \in Users \cup {None}
    BY Found, Fields
  <2>4. c \in ChanType /\ ChanSane(c) /\ c.there
    BY <1>1, <1>3, Found, TablesParts DEF Ok, Sane
  <2>5. new \in ChanType /\ ChanSane(new) /\ new.ts = c.ts
    BY <1>1, <2>3, <2>4, ChangedOk
  <2>6. Ok(s, st, reg) /\ st.chan = new /\ st.here = srv[s].here
    BY <2>1, <2>5, Found, NewChan
  <2>7. TsKept(srv[s], st)
    BY <1>1, <2>4, <2>5, <2>6 DEF TsKept, ChanType
  <2>8. TMODE(c.ts, m.on, m.who) \in Sent(gone)
    BY <2>3, <2>4, ModeKind DEF ChanSane
  <2>. QED BY <2>2, <2>6, <2>7, <2>8, Found, PassKeeps
<1>. QED BY <1>2, <1>3

(* c_s_sjoin                                                               *)
LEMMA HandleSjoinKeeps ==
  ASSUME IInv, NEW s \in Servers, NEW t \in Servers, s # t, NEW w \in WireType(gone),
         NEW m \in Sent(gone), m.t = "SJOIN", HandleSjoin(s, t, w, m), Still
  PROVE  Keeps
<1>1. PICK who : who = m.who \cap srv[s].here
  OBVIOUS
<1>2. PICK old : old = IF srv[s].chan.there THEN srv[s].chan
                       ELSE [NoChan EXCEPT !.ts = m.ts, !.there = TRUE]
  OBVIOUS
<1>3. PICK c : c = TsRules(old, m, who, s)
  OBVIOUS
<1>4. PICK st : st = [srv[s] EXCEPT !.chan = c]
  OBVIOUS
<1>5. /\ Become(s, st) /\ wire' = Tell(w, s, st, t, SJOIN(c, who))
      /\ lost' = (who = {} /\ Peers(s, st) # {t})
      /\ SameUsers /\ UNCHANGED <<link, alive, crossed>>
  BY <1>1, <1>2, <1>3, <1>4 DEF HandleSjoin
<1>6. m.ts \in Times /\ m.mod \in BOOLEAN /\ who \subseteq Users
  BY <1>1, Found, Fields
<1>7. old \in ChanType /\ ChanSane(old) /\ old.there
  <2>1. CASE srv[s].chan.there
    BY <1>2, <2>1, Found, TablesParts DEF Ok, Sane
  <2>2. CASE ~srv[s].chan.there
    <3>1. old = [ts |-> m.ts, mod |-> FALSE, members |-> {}, opers |-> {}, there |-> TRUE]
      BY <1>2, <2>2 DEF NoChan
    <3>2. m.ts \in 0..MaxTime
      BY <1>6, NetAssumption DEF Times
    <3>3. old \in ChanType
      BY <3>1, <3>2 DEF ChanType
    <3>. QED BY <1>6, <3>1, <3>3 DEF ChanSane
  <2>. QED BY <2>1, <2>2
<1>8. c \in ChanType /\ ChanSane(c) /\ c.there /\ c.ts <= old.ts
  BY <1>3, <1>6, <1>7, TsRulesOk
<1>9. Ok(s, st, reg) /\ st.chan = c /\ st.here = srv[s].here
  BY <1>4, <1>8, Found, NewChan
<1>10. TsKept(srv[s], st)
  BY <1>2, <1>8, <1>9 DEF TsKept
<1>11. wire' \in WireType(gone)
  BY <1>5, <1>6, <1>8, JoinKind, TellTyped
<1>12. Books' /\ UNCHANGED <<reg, gone>>
  <2>1. lost' \in BOOLEAN
    BY <1>5
  <2>. QED BY <1>5, <2>1, Parts, Counted DEF Books, SameUsers
<1>. QED BY <1>5, <1>9, <1>10, <1>11, <1>12, TableStep

(* Any line                                                                *)
LEMMA HandleKeeps ==
  ASSUME IInv, NEW s \in Servers, NEW t \in Servers, s # t, NEW w \in WireType(gone),
         NEW m \in Sent(gone), Handle(s, t, w, m), Still
  PROVE  Keeps
<1>1. CASE link[s][t] \in {"out", "in"}
  BY <1>1, HandlePassKeeps, IgnoreKeeps DEF Handle
<1>2. CASE link[s][t] \in {"outPass", "inPass"}
  BY <1>2, HandleServerKeeps, IgnoreKeeps DEF Handle
<1>3. CASE link[s][t] \notin {"out", "in", "outPass", "inPass"}
  <2>1. HandleRegistered(s, t, w, m)
    BY <1>3 DEF Handle
  <2>2. \/ m.t = "SID" /\ HandleSid(s, t, w, m)
        \/ m.t = "EUID" /\ HandleEuid(s, t, w, m)
        \/ m.t = "SQUIT" /\ HandleSquit(s, t, w, m)
        \/ m.t = "NICK" /\ HandleNick(s, t, w, m)
        \/ m.t = "QUIT" /\ HandleQuit(s, t, w, m)
        \/ m.t = "KILL" /\ HandleKill(s, t, w, m)
        \/ m.t = "JOIN" /\ HandleJoin(s, t, w, m)
        \/ m.t = "PART" /\ HandlePart(s, t, w, m)
        \/ m.t = "TMODE" /\ HandleTmode(s, t, w, m)
        \/ m.t = "SJOIN" /\ HandleSjoin(s, t, w, m)
        \/ Ignore(w)
    BY <2>1 DEF HandleRegistered
  <2>. QED BY <2>2, HandleSidKeeps, HandleEuidKeeps, HandleSquitKeeps, HandleNickKeeps,
              HandleQuitKeeps, HandleKillKeeps, HandleJoinKeeps, HandlePartKeeps,
              HandleTmodeKeeps, HandleSjoinKeeps, IgnoreKeeps
<1>. QED BY <1>1, <1>2, <1>3

(* The next line of a link                                                 *)
LEMMA ReceiveKeeps ==
  ASSUME IInv, NEW s \in Servers, NEW t \in Servers, s # t, Receive(s, t) PROVE Keeps
<1>1. PICK m : m = Head(wire[<<t, s>>])
  OBVIOUS
<1>2. PICK w : w = [wire EXCEPT ![<<t, s>>] = Tail(@)]
  OBVIOUS
<1>3. /\ wire[<<t, s>>] # << >> /\ Still
      /\ IF m = EOF THEN LinkEnd(s, t, w) ELSE Handle(s, t, w, m)
  BY <1>1, <1>2 DEF Receive
<1>4. wire \in WireType(gone) /\ Books
  BY Parts
<1>5. wire[<<t, s>>] \in Seq(Sent(gone)) /\ <<t, s>> \in DOMAIN wire
  BY <1>4, << >> \in Seq(Sent(gone)), LineTyped
<1>6. m \in Sent(gone) /\ Tail(wire[<<t, s>>]) \in Seq(Sent(gone))
  BY <1>1, <1>3, <1>5
<1>7. w \in WireType(gone)
  BY <1>2, <1>4, <1>6, LineTyped
<1>8. ops' \in 0..MaxOps /\ breaks' \in 0..MaxBreaks
  BY <1>3, <1>4, Counted
<1>. QED BY <1>3, <1>6, <1>7, <1>8, LinkEndKeeps, HandleKeeps

-----------------------------------------------------------------------------
(* The first state, every step, and what follows for a run.                *)

(* Two linked servers know each other, and the users who registered.       *)
LEMMA AtStartOk ==
  ASSUME NEW s \in Servers
  PROVE  Ok(s, AtStart(s), {u \in Users : FirstNick[u] # None})
<1>1. PICK st : st = AtStart(s)
  OBVIOUS
<1>2. PICK us : us = {u \in Users : FirstNick[u] # None /\ (Home[u] = s \/ LinkedPair(s, Home[u]))}
  OBVIOUS
<1>3. st = [parent |-> [t \in Servers |-> IF t = s \/ LinkedPair(s, t) THEN s ELSE None],
            here |-> us,
            nick |-> [u \in Users |-> IF u \in us THEN FirstNick[u] ELSE None],
            byNick |-> [n \in Nicks |-> IF \E u \in us : FirstNick[u] = n
                                        THEN CHOOSE u \in us : FirstNick[u] = n ELSE None],
            chan |-> NoChan]
  BY <1>1, <1>2 DEF AtStart
<1>4. PICK byNick : byNick = [n \in Nicks |-> IF \E u \in us : FirstNick[u] = n
                                        THEN CHOOSE u \in us : FirstNick[u] = n ELSE None]
  OBVIOUS
<1>5. \A n \in Nicks : /\ byNick[n] \in Users \cup {None}
                       /\ byNick[n] # None => byNick[n] \in us /\ FirstNick[byNick[n]] = n
  <2>1. SUFFICES ASSUME NEW n \in Nicks
                 PROVE  /\ byNick[n] \in Users \cup {None}
                        /\ byNick[n] # None => byNick[n] \in us /\ FirstNick[byNick[n]] = n
    OBVIOUS
  <2>2. CASE \E u \in us : FirstNick[u] = n
    BY <1>2, <1>4, <2>2
  <2>3. CASE ~\E u \in us : FirstNick[u] = n
    BY <1>4, <2>3
  <2>. QED BY <2>2, <2>3
<1>6. /\ st.here = us /\ us \subseteq Users /\ st.chan = NoChan /\ st.byNick = byNick
      /\ st.nick = [u \in Users |-> IF u \in us THEN FirstNick[u] ELSE None]
      /\ st.parent = [t \in Servers |-> IF t = s \/ LinkedPair(s, t) THEN s ELSE None]
  BY <1>2, <1>3, <1>4
<1>7. st \in Tables
  <2>1. st = [parent |-> st.parent, here |-> st.here, nick |-> st.nick,
              byNick |-> st.byNick, chan |-> st.chan]
    BY <1>3
  <2>2. st.parent \in [Servers -> Servers \cup {None}]
    BY <1>6
  <2>3. st.nick \in [Users -> Nicks \cup {None}]
    BY <1>6, NetAssumption
  <2>4. st.byNick \in [Nicks -> Users \cup {None}]
    <3>1. byNick = [n \in Nicks |-> byNick[n]]
      BY <1>4
    <3>. QED BY <1>5, <1>6, <3>1
  <2>5. st.here \subseteq Users /\ st.chan \in ChanType
    BY <1>6, NoChanSane
  <2>. QED BY ONLY <2>1, <2>2, <2>3, <2>4, <2>5 DEF Tables, ChanType
<1>8. EntriesRight(st)
  BY <1>5, <1>6 DEF EntriesRight
<1>9. Named(s, st, {u \in Users : FirstNick[u] # None})
  BY <1>2, <1>6 DEF Named
<1>10. NoOrphans(s, st)
  BY <1>2, <1>6, NetAssumption DEF NoOrphans, Knows
<1>. QED BY <1>1, <1>6, <1>7, <1>8, <1>9, <1>10, NoChanSane DEF Ok, Sane

(* The first state                                                         *)
LEMMA InitInv == Init => IInv
<1>. SUFFICES ASSUME Init PROVE IInv
  OBVIOUS
<1>1. srv = [s \in Servers |-> AtStart(s)] /\ reg = {u \in Users : FirstNick[u] # None}
      /\ gone = {}
  BY DEF Init
<1>2. \A s \in Servers : Ok(s, srv[s], reg)
  BY <1>1, AtStartOk
<1>3. srv \in [Servers -> Tables]
  BY <1>1, <1>2 DEF Ok
<1>4. wire \in WireType(gone)
  BY DEF Init, WireType
<1>5. Books
  <2>1. link \in LinkType
    BY DEF Init, LinkType
  <2>2. now \in Times /\ ops \in 0..MaxOps /\ breaks \in 0..MaxBreaks
    BY NetAssumption DEF Init, Times
  <2>. QED BY <1>1, <2>1, <2>2 DEF Init, Books
<1>6. AtHome
  <2>1. SUFFICES ASSUME NEW u \in reg \ gone PROVE u \in srv[Home[u]].here
    BY DEF AtHome
  <2>2. Home[u] \in Servers /\ srv[Home[u]] = AtStart(Home[u])
    BY <1>1, <2>1, NetAssumption
  <2>. QED BY <1>1, <2>2 DEF AtStart
<1>. QED BY <1>2, <1>3, <1>4, <1>5, <1>6, Parts

(* Every step keeps the invariant and the timestamp of the channel.        *)
LEMMA NextKeeps == IInv /\ [Next]_vars => Keeps
<1>. SUFFICES ASSUME IInv, [Next]_vars PROVE Keeps
  OBVIOUS
<1>1. CASE UNCHANGED vars
  <2>1. Books' /\ UNCHANGED <<srv, reg, gone>> /\ wire' \in WireType(gone)
    BY <1>1, Parts DEF vars, Books
  <2>. QED BY <2>1, SameTables
<1>2. ASSUME NEW s \in Servers, NEW t \in Servers, s # t,
             Receive(s, t) \/ Connect(s, t) \/ Break(s, t) \/ Squit(s, t)
      PROVE  Keeps
  BY <1>2, ReceiveKeeps, ConnectKeeps, BreakKeeps, SquitKeeps
<1>3. ASSUME NEW s \in Servers, NEW u \in Users, Kill(s, u) PROVE Keeps
  BY <1>3, KillKeeps
<1>4. ASSUME NEW u \in Users, NEW n \in Nicks, FirstNickLine(u, n) \/ Nick(u, n) PROVE Keeps
  BY <1>4, FirstNickLineKeeps, NickKeeps
<1>5. ASSUME NEW u \in Users, UserLine(u) \/ Quit(u) \/ Join(u) \/ Part(u) PROVE Keeps
  BY <1>5, UserLineKeeps, QuitKeeps, JoinKeeps, PartKeeps
<1>6. ASSUME NEW u \in Users, NEW on \in BOOLEAN, NEW who \in Users \cup {None},
             Mode(u, on, who)
      PROVE  Keeps
  BY <1>6, ModeKeeps
<1>. QED BY <1>1, <1>2, <1>3, <1>4, <1>5, <1>6 DEF Next

(* The tables of every server stay right, whatever lines cross or get lost *)
(* between them and whatever links break.                                  *)
THEOREM InductiveInvariant == Spec => []IInv
<1>1. IInv /\ [Next]_vars => IInv'
  BY NextKeeps DEF Keeps
<1>. QED BY <1>1, InitInv, PTL DEF Spec

(* The nick table of a server leads to users who are there and have that   *)
(* nick (u_user_set_nick, u_user_try_override, u_user_destroy).            *)
THEOREM NickTableRight == Spec => []NickTable
<1>1. IInv => NickTable
  BY DEF IInv, TypeOK, Sane, NickTable
<1>. QED BY <1>1, InductiveInvariant, PTL

(* The timestamp of a channel only falls as long as it is there (ts_rules, *)
(* c_s_sjoin and everything else that writes a channel).                   *)
THEOREM TimestampFalls == Spec => TsFalls
<1>1. IInv /\ [Next]_vars => [\A s \in Servers : srv[s].chan.there /\ srv'[s].chan.there
                                 => srv'[s].chan.ts <= srv[s].chan.ts]_vars
  BY NextKeeps DEF Keeps, TsKept
<1>. QED BY <1>1, InductiveInvariant, PTL DEF Spec, TsFalls

(* No server is known behind one that is not, and no user whose server is  *)
(* not: sv and parent point to records that are there (u_server_destroy).  *)
THEOREM NobodyOutlivesHisServer == Spec => [](\A s \in Servers : NoOrphans(s, srv[s]))
<1>1. IInv => \A s \in Servers : NoOrphans(s, srv[s])
  BY DEF IInv, Sane
<1>. QED BY <1>1, InductiveInvariant, PTL

(* A registered user who did not leave is known to his own server: no line *)
(* from another server removes him but a KILL (c_u_quit, c_a_squit).       *)
THEOREM UsersStayAtHome == Spec => []AtHome
<1>1. IInv => AtHome
  BY DEF IInv
<1>. QED BY <1>1, InductiveInvariant, PTL

-----------------------------------------------------------------------------
(***************************************************************************)
(* What the servers know of each other, for ServersAgree.                  *)
(*                                                                         *)
(* A line of the tree parts the servers in two sides.  The invariant is    *)
(* about each direction of each line: were t to say nothing more and s to  *)
(* handle what is under way, s would know of the side of t what t tells of *)
(* it (what t knows, but for neighbours that did not register yet), but    *)
(* for the servers that s asked t to remove in a SQUIT that t did not get  *)
(* yet; or s would end, for a SID behind a server that it has forgotten.   *)
(* With nothing under way, what one end of a line heard is what the other  *)
(* end tells, so that linked servers know the same servers.                *)
(***************************************************************************)
\* s and t are the ends of a line.
Adj(a, b) == <<a, b>> \in Lines \/ <<b, a>> \in Lines
\* The side of t of the line of s and t
Side(s, t) == {x \in Servers : \A S \in SUBSET Servers : Splits(s, t, S) => x \in S}
\* y and the servers behind it, for r
Beyond(r, y) == {x \in Servers : \E q \in Servers : Adj(q, y) /\ r \in Side(y, q) /\ x \in Side(q, y)}

(* The elements of a pair                                                  *)
LEMMA RangeOfPair == \A a, b : Range(<<a, b>>) = {a, b}
<1>1. SUFFICES ASSUME NEW a, NEW b PROVE Range(<<a, b>>) = {a, b}
  OBVIOUS
<1>2. DOMAIN <<a, b>> = 1..2 /\ <<a, b>>[1] = a /\ <<a, b>>[2] = b
  OBVIOUS
<1>3. 1 \in 1..2 /\ 2 \in 1..2 /\ \A i \in 1..2 : i = 1 \/ i = 2
  OBVIOUS
<1>. QED BY ONLY <1>2, <1>3 DEF Range

(* Splits, without the sequences                                           *)
LEMMA SplitsIff ==
  ASSUME NEW s, NEW t, NEW S
  PROVE  Splits(s, t, S) <=>
           /\ t \in S /\ s \notin S
           /\ \A a, b \in Servers : Adj(a, b) => {a, b} = {s, t} \/ (a \in S <=> b \in S)
<1>1. \A a, b : Range(<<a, b>>) = {a, b}
  BY RangeOfPair
<1>2. \A p \in Lines : p[1] \in Servers /\ p[2] \in Servers /\ p = <<p[1], p[2]>>
  BY NetAssumption
<1>3. \A a, b : <<a, b>>[1] = a /\ <<a, b>>[2] = b
  OBVIOUS
<1>4. \A a, b : <<a, b>> \in Lines => a \in Servers /\ b \in Servers
  BY <1>2, <1>3
<1>5. \A a, b : {a, b} = {b, a}
  OBVIOUS
<1>6. ASSUME Splits(s, t, S), NEW a \in Servers, NEW b \in Servers, Adj(a, b)
      PROVE  {a, b} = {s, t} \/ (a \in S <=> b \in S)
  <2>1. CASE <<a, b>> \in Lines
    BY ONLY <1>1, <1>3, <1>6, <2>1 DEF Splits
  <2>2. CASE <<b, a>> \in Lines
    BY ONLY <1>1, <1>3, <1>5, <1>6, <2>2 DEF Splits
  <2>. QED BY ONLY <1>6, <2>1, <2>2 DEF Adj
<1>7. ASSUME \A a, b \in Servers : Adj(a, b) => {a, b} = {s, t} \/ (a \in S <=> b \in S),
             NEW p \in Lines
      PROVE  Range(p) = {s, t} \/ (p[1] \in S <=> p[2] \in S)
  <2>1. PICK a, b : a = p[1] /\ b = p[2]
    OBVIOUS
  <2>2. a \in Servers /\ b \in Servers /\ p = <<a, b>> /\ Adj(a, b)
    BY ONLY <1>2, <1>7, <2>1 DEF Adj
  <2>3. Range(p) = {a, b}
    BY ONLY <1>1, <2>2
  <2>. QED BY ONLY <1>7, <2>1, <2>2, <2>3
<1>. QED BY ONLY <1>6, <1>7 DEF Splits

(* A line: its two sides are apart, and every other line is on one of them *)
LEMMA Sides ==
  ASSUME NEW s, NEW t, Adj(s, t)
  PROVE  /\ s \in Servers /\ t \in Servers /\ s # t /\ Adj(t, s)
         /\ t \in Side(s, t) /\ s \notin Side(s, t) /\ Side(s, t) \subseteq Servers
         /\ \A a, b : Adj(a, b) => {a, b} = {s, t} \/ (a \in Side(s, t) <=> b \in Side(s, t))
         /\ \A S \in SUBSET Servers : Splits(s, t, S) => Side(s, t) \subseteq S
<1>1. \A a, b : Adj(a, b) => a \in Servers /\ b \in Servers /\ Adj(b, a)
  <2>1. \A p \in Lines : p[1] \in Servers /\ p[2] \in Servers
    BY NetAssumption
  <2>2. \A a, b : <<a, b>>[1] = a /\ <<a, b>>[2] = b
    OBVIOUS
  <2>. QED BY ONLY <2>1, <2>2 DEF Adj
<1>2. \E S \in SUBSET Servers : Splits(s, t, S)
  <2>1. CASE <<s, t>> \in Lines
    <3>1. <<s, t>>[1] = s /\ <<s, t>>[2] = t
      OBVIOUS
    <3>. QED BY ONLY <2>1, <3>1, TreeAssumption
  <2>2. CASE <<t, s>> \in Lines
    <3>1. <<t, s>>[1] = t /\ <<t, s>>[2] = s
      OBVIOUS
    <3>2. PICK S \in SUBSET Servers : Splits(t, s, S)
      BY ONLY <2>2, <3>1, TreeAssumption
    <3>3. Splits(s, t, Servers \ S)
      BY <1>1, <3>2, SplitsIff
    <3>. QED BY <3>3
  <2>. QED BY <2>1, <2>2 DEF Adj
<1>3. t \in Side(s, t) /\ Side(s, t) \subseteq Servers /\ \A S \in SUBSET Servers : Splits(s, t, S) => Side(s, t) \subseteq S
  BY <1>1, SplitsIff DEF Side
<1>4. s \notin Side(s, t)
  BY <1>2, SplitsIff DEF Side
<1>5. ASSUME NEW a, NEW b, Adj(a, b), {a, b} # {s, t}, a \in Side(s, t) PROVE b \in Side(s, t)
  BY <1>1, <1>5, SplitsIff DEF Side
<1>6. \A a, b : {a, b} = {b, a}
  OBVIOUS
<1>. QED BY <1>1, <1>3, <1>4, <1>5, <1>6

(* Behind a neighbour p of t, on the far side of t from s                  *)
LEMMA SideInside ==
  ASSUME NEW s, NEW t, NEW p, Adj(s, t), Adj(t, p), p # s
  PROVE  Side(t, p) \subseteq Side(s, t)
<1>1. Splits(t, p, Side(s, t) \cap Side(t, p))
  BY Sides, SplitsIff
<1>2. Side(s, t) \cap Side(t, p) \in SUBSET Servers
  BY Sides
<1>. QED BY <1>1, <1>2, Sides

(* The two sides of a line                                                 *)
LEMMA SidesApart ==
  ASSUME NEW s, NEW t, Adj(s, t)
  PROVE  Side(s, t) \cap Side(t, s) = {}
<1>1. Splits(t, s, Servers \ Side(s, t))
  BY Sides, SplitsIff
<1>. QED BY <1>1, Sides

(* What is behind two neighbours                                           *)
LEMMA NeighboursApart ==
  ASSUME NEW t, NEW p, NEW q, Adj(t, p), Adj(t, q), p # q
  PROVE  Side(t, p) \cap Side(t, q) = {}
<1>1. Splits(t, p, Side(t, p) \ Side(t, q))
  <2>1. PICK B, C : B = Side(t, p) /\ C = Side(t, q)
    OBVIOUS
  <2>2. p \in B /\ t \notin B /\ q \in C /\ t \notin C
    BY <2>1, Sides
  <2>3. /\ \A a, b : Adj(a, b) => {a, b} = {t, p} \/ (a \in B <=> b \in B)
        /\ \A a, b : Adj(a, b) => {a, b} = {t, q} \/ (a \in C <=> b \in C)
    BY <2>1, Sides
  <2>4. q \notin B /\ p \notin C
    BY <2>2, <2>3
  <2>5. \A a, b \in Servers : Adj(a, b) => {a, b} = {t, p} \/ (a \in B \ C <=> b \in B \ C)
    BY <2>2, <2>3, <2>4
  <2>. QED BY ONLY <2>1, <2>2, <2>4, <2>5, SplitsIff
<1>2. Side(t, p) \ Side(t, q) \in SUBSET Servers
  BY Sides
<1>. QED BY <1>1, <1>2, Sides

(* Beyond y is one side of the line that leads to y.                       *)
LEMMA BeyondSide ==
  ASSUME NEW r, NEW y, NEW q, Adj(q, y), r \in Side(y, q)
  PROVE  Beyond(r, y) = Side(q, y)
<1>1. \A p : Adj(p, y) /\ r \in Side(y, p) => p = q
  BY Sides, NeighboursApart
<1>. QED BY <1>1, Sides DEF Beyond

(* Beyond y is the same from both ends of a line, and on one side of it.   *)
LEMMA BeyondLine ==
  ASSUME NEW s, NEW t, Adj(s, t), NEW y
  PROVE  /\ y \notin {s, t} => Beyond(s, y) = Beyond(t, y) /\ t \notin Beyond(s, y)
         /\ Beyond(s, t) = Side(s, t) /\ s \notin Beyond(s, y)
         /\ y \in Side(s, t) => Beyond(s, y) \subseteq Side(s, t)
         /\ y \notin Side(s, t) => Beyond(s, y) \cap Side(s, t) = {}
<1>1. Beyond(s, t) = Side(s, t)
  BY Sides, BeyondSide
<1>2. \A a, b : Adj(a, b) => Side(a, b) \cap Side(b, a) = {}
  BY SidesApart
<1>3. CASE \E q : Adj(q, y) /\ s \in Side(y, q)
  <2>1. PICK q : Adj(q, y) /\ s \in Side(y, q)
    BY <1>3
  <2>2. Beyond(s, y) = Side(q, y) /\ s \notin Side(q, y) /\ y # s /\ Adj(y, q)
    BY <1>2, <2>1, BeyondSide, Sides
  <2>3. ASSUME y # t
        PROVE  t \in Side(y, q) /\ t \notin Side(q, y) /\ Beyond(t, y) = Side(q, y)
    <3>1. {s, t} # {y, q} /\ {s, t} # {q, y}
      BY <2>2, <2>3
    <3>2. t \in Side(y, q)
      BY <2>1, <2>2, <3>1, Sides
    <3>. QED BY <1>2, <2>1, <2>2, <3>2, BeyondSide
  <2>4. ASSUME y = t PROVE q = s
    BY <2>1, <2>2, <2>4, <1>2, Sides, NeighboursApart
  <2>5. ASSUME y \in Side(s, t) PROVE Side(q, y) \subseteq Side(s, t)
    <3>1. CASE y = t
      BY <2>4, <3>1
    <3>2. CASE y # t
      <4>1. Splits(q, y, Side(q, y) \cap Side(s, t))
        <5>1. \A a, b : Adj(a, b) => {a, b} = {q, y} \/ (a \in Side(q, y) <=> b \in Side(q, y))
          BY <2>1, Sides
        <5>2. \A a, b : Adj(a, b) => {a, b} = {s, t} \/ (a \in Side(s, t) <=> b \in Side(s, t))
          BY Sides
        <5>3. s \notin Side(q, y) /\ t \notin Side(q, y) /\ y \in Side(q, y) /\ q \notin Side(q, y)
          BY <2>1, <2>2, <2>3, <3>2, Sides
        <5>4. \A a, b : {a, b} = {s, t} => a \in {s, t} /\ b \in {s, t}
          OBVIOUS
        <5>. QED BY ONLY <5>1, <5>2, <5>3, <5>4, <2>5, SplitsIff
      <4>2. Side(q, y) \cap Side(s, t) \in SUBSET Servers
        BY Sides
      <4>. QED BY <2>1, <4>1, <4>2, Sides
    <3>. QED BY <3>1, <3>2
  <2>6. ASSUME y \notin Side(s, t) PROVE Side(q, y) \cap Side(s, t) = {}
    <3>1. y # t
      BY <2>6, Sides
    <3>2. Splits(q, y, Side(q, y) \ Side(s, t))
      <4>1. \A a, b : Adj(a, b) => {a, b} = {q, y} \/ (a \in Side(q, y) <=> b \in Side(q, y))
        BY <2>1, Sides
      <4>2. \A a, b : Adj(a, b) => {a, b} = {s, t} \/ (a \in Side(s, t) <=> b \in Side(s, t))
        BY Sides
      <4>3. s \notin Side(q, y) /\ t \notin Side(q, y) /\ y \in Side(q, y) /\ q \notin Side(q, y)
        BY <2>1, <2>2, <2>3, <3>1, Sides
      <4>4. \A a, b : {a, b} = {s, t} => a \in {s, t} /\ b \in {s, t}
        OBVIOUS
      <4>. QED BY ONLY <4>1, <4>2, <4>3, <4>4, <2>6, SplitsIff
    <3>3. Side(q, y) \ Side(s, t) \in SUBSET Servers
      BY <2>1, Sides
    <3>. QED BY <2>1, <3>2, <3>3, Sides
  <2>. QED BY <1>1, <2>2, <2>3, <2>5, <2>6
<1>4. CASE ~\E q : Adj(q, y) /\ s \in Side(y, q)
  <2>1. Beyond(s, y) = {}
    BY <1>4 DEF Beyond
  <2>2. ASSUME y # s, NEW q, Adj(q, y), t \in Side(y, q) PROVE FALSE
    <3>1. s \notin Side(y, q) /\ Adj(y, q)
      BY <1>4, <2>2, Sides
    <3>2. {s, t} = {y, q}
      BY <2>2, <3>1, Sides
    <3>3. y = t
      BY <2>2, <3>2
    <3>. QED BY <2>2, <3>1, <3>3, Sides
  <2>3. y # s => Beyond(t, y) = {}
    BY <2>2 DEF Beyond
  <2>. QED BY <1>1, <2>1, <2>3, Sides
<1>. QED BY <1>3, <1>4

(* One step away from r, in what is beyond y and out of it                 *)
LEMMA BeyondStep ==
  ASSUME NEW r, NEW y, NEW p, NEW x, Adj(p, x), r \in Side(x, p)
  PROVE  /\ p \in Beyond(r, y) => x \in Beyond(r, y)
         /\ x \in Beyond(r, y) /\ x # y => p \in Beyond(r, y)
         /\ x \in Beyond(r, x) /\ p \notin Beyond(r, x)
<1>1. x \in Beyond(r, x) /\ p \notin Beyond(r, x)
  BY BeyondSide, Sides
<1>2. CASE \E q : Adj(q, y) /\ r \in Side(y, q)
  <2>1. PICK q : Adj(q, y) /\ r \in Side(y, q)
    BY <1>2
  <2>2. Beyond(r, y) = Side(q, y) /\ r \notin Side(q, y)
    BY <2>1, BeyondSide, SidesApart
  <2>3. CASE {p, x} = {q, y}
    <3>1. x = y \/ (x = q /\ p = y)
      BY <2>3
    <3>. QED BY <1>1, <2>1, <2>2, <3>1, Sides
  <2>4. CASE {p, x} # {q, y}
    BY <1>1, <2>1, <2>2, <2>4, Sides
  <2>. QED BY <2>3, <2>4
<1>3. CASE ~\E q : Adj(q, y) /\ r \in Side(y, q)
  BY <1>1, <1>3 DEF Beyond
<1>. QED BY <1>2, <1>3

(* Nobody is beyond anything for itself.                                   *)
LEMMA NotBeyond == \A r, y : r \notin Beyond(r, y) /\ Beyond(r, y) \subseteq Servers
BY SidesApart DEF Beyond

(* Farther from r there is less beyond.                                    *)
LEMMA BeyondLess ==
  ASSUME NEW r, NEW o, NEW p, NEW x,
         Adj(o, p), r \in Side(p, o), Adj(p, x), r \in Side(x, p)
  PROVE  Beyond(r, x) \subseteq Beyond(r, p) /\ p \in Beyond(r, p) \ Beyond(r, x)
<1>1. x # o
  BY SidesApart, Sides
<1>2. Beyond(r, x) = Side(p, x) /\ Beyond(r, p) = Side(o, p)
  BY BeyondSide
<1>. QED BY <1>1, <1>2, SideInside, Sides

-----------------------------------------------------------------------------
(* What a server knows of the others.                                      *)
Known(st) == {x \in Servers : Knows(st, x)}
States == {"no", "out", "in", "outPass", "inPass", "on"}
Passed == {"outPass", "inPass", "on"}

\* The parent of a server is the next one on the way to it.
Upward(s, st) ==
  \A x \in Known(st) \ {s} : Adj(st.parent[x], x) /\ s \in Side(x, st.parent[x])

\* The tables of s, with its links
Rooted(s, st, row) ==
  /\ \A t \in Servers \ {s} : st.parent[t] = s <=> row[t] \in Passed
  /\ Upward(s, st)
  /\ \A t \in Servers : Adj(s, t) /\ row[t] # "on" => Known(st) \cap Side(s, t) \subseteq {t}

ParentType == [Servers -> Servers \cup {None}]

(* There are finitely many of them (servers_by_name).                      *)
LEMMA ServersFinite == IsFiniteSet(Servers)
<1>1. ByName \in Seq(Servers) /\ Range(ByName) = Servers
  BY NetAssumption
<1>2. PICK n \in Nat : ByName \in [1..n -> Servers]
  BY <1>1
<1>3. \A x \in Servers : \E i \in 1..n : ByName[i] = x
  BY <1>1, <1>2 DEF Range
<1>4. IsFiniteSet(1..n)
  BY <1>2, FS_Interval
<1>5. ByName \in Surjection(1..n, Servers)
  BY <1>2, <1>3 DEF Surjection
<1>. QED BY <1>4, <1>5, FS_Surjection

(* Whatever goes on from a parent to its servers holds of all that are     *)
(* known.                                                                  *)
LEMMA Chain ==
  ASSUME NEW s \in Servers, NEW st, st.parent \in ParentType, NoOrphans(s, st), Upward(s, st),
         NEW T, s \in T, \A x \in Known(st) \ {s} : st.parent[x] \in T => x \in T
  PROVE  Known(st) \subseteq T
<1> DEFINE b == Cardinality(Servers)
           far(x) == Cardinality(Beyond(s, x))
           D == {i \in 0..b : \A x \in Known(st) \ {s} : b - far(x) <= i => x \in T}
<1>1. b \in Nat /\ \A x : far(x) \in Nat /\ far(x) <= b
  BY ServersFinite, NotBeyond, FS_Subset, FS_CardinalityType
<1>2. ASSUME NEW x \in Known(st) \ {s}
      PROVE  st.parent[x] \in Servers /\ (st.parent[x] # s => st.parent[x] \in Known(st) \ {s})
  BY <1>2 DEF NoOrphans, Known, Knows, ParentType
<1>3. 0 \in D
  <2>1. SUFFICES ASSUME NEW x \in Known(st) \ {s}, b - far(x) <= 0 PROVE FALSE
    BY <1>1
  <2>2. Beyond(s, x) \subseteq Servers /\ Beyond(s, x) # Servers
    BY <1>2, NotBeyond
  <2>3. far(x) < b
    BY <2>2, ServersFinite, FS_Subset, FS_CardinalityType
  <2>. QED BY <1>1, <2>1, <2>3
<1>4. ASSUME NEW i \in 1..b, i - 1 \in D PROVE i \in D
  <2>1. SUFFICES ASSUME NEW x \in Known(st) \ {s}, b - far(x) <= i PROVE st.parent[x] \in T
    BY <1>1
  <2>2. CASE st.parent[x] = s
    BY <2>2
  <2>3. CASE st.parent[x] # s
    <3>1. PICK p : p = st.parent[x]
      OBVIOUS
    <3>2. p \in Known(st) \ {s}
      BY <1>2, <2>3, <3>1
    <3>3. Beyond(s, x) \subseteq Beyond(s, p) /\ Beyond(s, x) # Beyond(s, p)
      BY <3>1, <3>2, BeyondLess DEF Upward
    <3>4. IsFiniteSet(Beyond(s, p))
      BY ServersFinite, NotBeyond, FS_Subset
    <3>5. far(x) < far(p)
      BY <3>3, <3>4, FS_Subset, FS_CardinalityType
    <3>6. b - far(p) <= i - 1
      BY <1>1, <2>1, <3>5
    <3>. QED BY <1>4, <3>1, <3>2, <3>6
  <2>. QED BY <2>2, <2>3
<1>5. 0..b \subseteq D
  <2> HIDE DEF D, b
  <2>. QED BY <1>1, <1>3, <1>4, IndexInduction
<1>6. ASSUME NEW x \in Known(st) \ {s} PROVE x \in T
  <2>1. b \in D /\ b - far(x) <= b
    BY <1>1, <1>5
  <2>. QED BY <2>1
<1>. QED BY <1>6

(* Who is known is behind a neighbour, which is known too.                 *)
LEMMA KnownSides ==
  ASSUME NEW s \in Servers, NEW st, st.parent \in ParentType, NoOrphans(s, st), Upward(s, st)
  PROVE  /\ s \in Known(st)
         /\ \A t : Adj(s, t) => (t \in Known(st) <=> st.parent[t] = s)
         /\ \A x \in Known(st) \ {s} : \E t : Adj(s, t) /\ t \in Known(st) /\ x \in Side(s, t)
         /\ \A t : Adj(s, t) /\ t \notin Known(st) => Known(st) \cap Side(s, t) = {}
<1>1. s \in Known(st)
  BY NetAssumption DEF NoOrphans, Known, Knows
<1>2. ASSUME NEW t, Adj(s, t) PROVE t \in Known(st) <=> st.parent[t] = s
  <2>1. ASSUME t \in Known(st) PROVE st.parent[t] = s
    <3>1. t # s /\ Adj(t, s) /\ s \in Side(t, s)
      BY <1>2, Sides
    <3>2. Adj(st.parent[t], t) /\ s \in Side(t, st.parent[t])
      BY <2>1, <3>1 DEF Upward
    <3>. QED BY <3>1, <3>2, Sides, NeighboursApart
  <2>2. ASSUME st.parent[t] = s PROVE t \in Known(st)
    BY <1>2, <2>2, Sides, NetAssumption DEF Known, Knows
  <2>. QED BY <2>1, <2>2
<1> DEFINE T == {s} \cup {x \in Servers : \E t : Adj(s, t) /\ t \in Known(st) /\ x \in Side(s, t)}
<1>3. ASSUME NEW x \in Known(st) \ {s}, st.parent[x] \in T PROVE x \in T
  <2>1. PICK p : p = st.parent[x]
    OBVIOUS
  <2>2. Adj(p, x) /\ s \in Side(x, p) /\ x \in Servers
    BY <2>1 DEF Upward, Known
  <2>3. CASE p = s
    BY <2>2, <2>3, Sides
  <2>4. CASE p # s
    <3>1. PICK t : Adj(s, t) /\ t \in Known(st) /\ p \in Side(s, t)
      BY <1>3, <2>1, <2>4
    <3>2. {p, x} # {s, t}
      BY <2>4, <1>3
    <3>3. x \in Side(s, t)
      BY <2>2, <3>1, <3>2, Sides
    <3>. QED BY <2>2, <3>1, <3>3
  <2>. QED BY <2>3, <2>4
<1>4. Known(st) \subseteq T
  <2> HIDE DEF T
  <2>1. s \in T
    BY DEF T
  <2>. QED BY <1>3, <2>1, Chain
<1>5. \A x \in Known(st) \ {s} : \E t : Adj(s, t) /\ t \in Known(st) /\ x \in Side(s, t)
  BY <1>4
<1>6. ASSUME NEW t, Adj(s, t), t \notin Known(st) PROVE Known(st) \cap Side(s, t) = {}
  BY <1>5, <1>6, Sides, NeighboursApart
<1>. QED BY <1>1, <1>2, <1>5, <1>6

(* u_server_destroy takes away what is beyond the server.                  *)
LEMMA BelowBeyond ==
  ASSUME NEW s \in Servers, NEW st, st.parent \in ParentType, NoOrphans(s, st), Upward(s, st),
         NEW sv \in Known(st), sv # s
  PROVE  Below(st, sv) \subseteq Beyond(s, sv) /\ Beyond(s, sv) \cap Known(st) \subseteq Below(st, sv)
<1>1. sv \in Servers
  BY DEF Known
<1>2. \A x \in Known(st) \ {s} :
        /\ st.parent[x] \in Beyond(s, sv) => x \in Beyond(s, sv)
        /\ x \in Beyond(s, sv) /\ x # sv => st.parent[x] \in Beyond(s, sv)
  BY BeyondStep DEF Upward
<1>3. sv \in Beyond(s, sv)
  BY BeyondStep DEF Upward
<1>4. \A t \in Servers : st.parent[t] \in Beyond(s, sv) => t \in Beyond(s, sv)
  BY <1>2, NotBeyond, NetAssumption DEF Known, Knows, NoOrphans
<1>5. Below(st, sv) \subseteq Beyond(s, sv)
  BY <1>3, <1>4, NotBeyond DEF Below
<1>6. sv \in Below(st, sv) /\ \A t \in Servers : st.parent[t] \in Below(st, sv) => t \in Below(st, sv)
  BY <1>1, BelowClosed
<1> DEFINE T == {x \in Servers : x \in Beyond(s, sv) => x \in Below(st, sv)}
<1>7. s \in T
  BY NotBeyond
<1>8. ASSUME NEW x \in Known(st) \ {s}, st.parent[x] \in T PROVE x \in T
  BY <1>2, <1>6, <1>8 DEF Known
<1>9. Known(st) \subseteq T
  <2> HIDE DEF T
  <2>. QED BY <1>7, <1>8, Chain
<1>. QED BY <1>5, <1>9

-----------------------------------------------------------------------------
\* What s heard of the side of t, and what t told s of its side; t does not
\* tell of a neighbour before it has registered.
Heard(s, t, st) == Known(st) \cap Side(s, t)
Shy(t, st, row, x) == x # t /\ st.parent[x] = t /\ row[x] # "on"
Told(t, s, st, row) == {x \in Known(st) \cap Side(s, t) : ~Shy(t, st, row, x)}

\* The tables of s and its links, as far as the other servers go
Rows == [Servers -> States]
Sound(s, st, row) ==
  st.parent \in ParentType /\ row \in Rows /\ NoOrphans(s, st) /\ Rooted(s, st, row)

(* The same servers are known.                                             *)
LEMMA SameParents ==
  ASSUME NEW s, NEW st, NEW st2, st2.parent = st.parent
  PROVE  /\ \A row : Sound(s, st, row) => st2.parent \in ParentType /\ row \in Rows /\ Rooted(s, st2, row)
         /\ \A t : Heard(s, t, st2) = Heard(s, t, st)
         /\ \A t, row : Told(s, t, st2, row) = Told(s, t, st, row)
<1>1. Known(st2) = Known(st)
  BY DEF Known, Knows
<1>. QED BY <1>1 DEF Sound, Rooted, Upward, Heard, Told, Shy

(* c_s_sid: a new server x behind p                                        *)
LEMMA NewBehind ==
  ASSUME NEW s \in Servers, NEW st, NEW row, Sound(s, st, row), NEW st2,
         NEW p \in Known(st), NEW x \in Servers, x \notin Known(st), NEW t,
         st2.parent = [st.parent EXCEPT ![x] = p], Adj(s, t), row[t] = "on",
         Adj(p, x), s \in Side(x, p), p \in Side(s, t), x \in Side(s, t)
  PROVE  /\ Rooted(s, st2, row)
         /\ Heard(s, t, st2) = Heard(s, t, st) \cup {x}
         /\ Told(s, t, st2, row) = Told(s, t, st, row)
         /\ \A q : Adj(s, q) /\ q # t =>
              /\ Heard(s, q, st2) = Heard(s, q, st)
              /\ Told(s, q, st2, row) = Told(s, q, st, row) \cup {x}
<1>0. st.parent \in ParentType /\ None \notin Servers /\ p \in Servers
  BY NetAssumption DEF Sound, Known
<1>1. Known(st2) = Known(st) \cup {x}
  BY <1>0 DEF Known, Knows, ParentType
<1>2. p # s /\ x # s /\ x # t
  <2>1. p # s /\ x # s
    BY Sides
  <2>2. ASSUME x = t PROVE FALSE
    <3>1. Adj(t, p) /\ Adj(t, s) /\ s \in Side(t, p) /\ s \in Side(t, s)
      BY <2>2, Sides
    <3>. QED BY <2>1, <3>1, NeighboursApart
  <2>. QED BY <2>1, <2>2
<1>3. \A q : Adj(s, q) /\ q # t => x \notin Side(s, q) /\ x \in Side(q, s)
  BY NeighboursApart, SideInside, Sides
<1>4. x \notin Side(t, s)
  BY SidesApart
<1>5. \A y \in Servers : y # x => st2.parent[y] = st.parent[y]
  BY <1>0 DEF ParentType
<1>6. st2.parent[x] = p
  BY <1>0 DEF ParentType
<1>7. \A y \in Servers : Shy(s, st2, row, y) <=> (y # x /\ Shy(s, st, row, y))
  BY <1>2, <1>5, <1>6 DEF Shy
<1>8. row[x] \notin Passed /\ st.parent[x] # s
  BY <1>0, <1>2 DEF Sound, Rooted, Known, Knows
<1>9. Rooted(s, st2, row)
  <2>1. \A y \in Servers \ {s} : st2.parent[y] = s <=> row[y] \in Passed
    BY <1>2, <1>5, <1>6, <1>8 DEF Sound, Rooted
  <2>2. Upward(s, st2)
    BY <1>1, <1>5, <1>6 DEF Upward, Sound, Rooted, Known
  <2>3. ASSUME NEW q \in Servers, Adj(s, q), row[q] # "on"
        PROVE  Known(st2) \cap Side(s, q) \subseteq {q}
    BY <1>1, <1>3, <2>3 DEF Sound, Rooted
  <2>. QED BY <2>1, <2>2, <2>3 DEF Rooted
<1>. QED BY <1>1, <1>3, <1>4, <1>7, <1>9, NetAssumption DEF Heard, Told, Known

(* c_first_pass: a neighbour whose link begins to be registered            *)
LEMMA NewNeighbour ==
  ASSUME NEW s \in Servers, NEW st, NEW row, Sound(s, st, row), NEW st2, NEW row2, NEW t,
         NEW k \in {"outPass", "inPass"}, st2.parent = [st.parent EXCEPT ![t] = s],
         row2 = [row EXCEPT ![t] = k], Adj(s, t), row[t] \notin Passed
  PROVE  /\ Rooted(s, st2, row2) /\ row2 \in Rows
         /\ Heard(s, t, st) = {} /\ Heard(s, t, st2) = {t}
         /\ \A q : Adj(s, q) =>
              /\ q # t => Heard(s, q, st2) = Heard(s, q, st)
              /\ Told(s, q, st2, row2) = Told(s, q, st, row)
<1>0. /\ st.parent \in ParentType /\ None \notin Servers /\ t \in Servers /\ t # s
      /\ row \in Rows
  BY NetAssumption, Sides DEF Sound
<1>1. st.parent[t] # s
  BY <1>0 DEF Sound, Rooted
<1>2. t \notin Known(st) /\ Known(st) \cap Side(s, t) = {}
  BY <1>1, KnownSides DEF Sound, Rooted
<1>3. Known(st2) = Known(st) \cup {t}
  BY <1>0 DEF Known, Knows, ParentType
<1>4. \A y \in Servers : y # t => st2.parent[y] = st.parent[y] /\ row2[y] = row[y]
  BY <1>0 DEF ParentType, Rows, States
<1>5. st2.parent[t] = s /\ row2[t] = k /\ row2 \in Rows
  BY <1>0 DEF ParentType, Rows, States
<1>6. \A q : Adj(s, q) /\ q # t => t \notin Side(s, q)
  BY NeighboursApart, Sides
<1>7. \A y \in Servers : y # t => (Shy(s, st2, row2, y) <=> Shy(s, st, row, y))
  BY <1>4 DEF Shy
<1>8. Shy(s, st2, row2, t)
  BY <1>0, <1>5 DEF Shy
<1>9. Rooted(s, st2, row2)
  <2>1. \A y \in Servers \ {s} : st2.parent[y] = s <=> row2[y] \in Passed
    BY <1>4, <1>5 DEF Sound, Rooted, Passed
  <2>2. Upward(s, st2)
    BY <1>3, <1>4, <1>5, Sides DEF Upward, Sound, Rooted, Known
  <2>3. ASSUME NEW q \in Servers, Adj(s, q), row2[q] # "on"
        PROVE  Known(st2) \cap Side(s, q) \subseteq {q}
    BY <1>2, <1>3, <1>4, <1>6, <2>3 DEF Sound, Rooted
  <2>. QED BY <2>1, <2>2, <2>3 DEF Rooted
<1>10. Heard(s, t, st) = {} /\ Heard(s, t, st2) = {t}
  BY <1>2, <1>3, Sides DEF Heard
<1>11. ASSUME NEW q, Adj(s, q) PROVE Told(s, q, st2, row2) = Told(s, q, st, row)
  BY <1>2, <1>3, <1>7, <1>8 DEF Told, Known
<1>12. ASSUME NEW q, Adj(s, q), q # t PROVE Heard(s, q, st2) = Heard(s, q, st)
  BY <1>3, <1>6, <1>12 DEF Heard
<1>. QED BY <1>5, <1>9, <1>10, <1>11, <1>12

(* c_us_server: a neighbour that is registered now                         *)
LEMMA NewlyOn ==
  ASSUME NEW s \in Servers, NEW st, NEW row, Sound(s, st, row), NEW row2, NEW t,
         NEW k, k = "on", row2 = [row EXCEPT ![t] = k], Adj(s, t), row[t] \in {"outPass", "inPass"}
  PROVE  /\ Rooted(s, st, row2) /\ row2 \in Rows
         /\ Told(s, t, st, row2) = Told(s, t, st, row)
         /\ \A q : Adj(s, q) /\ q # t => Told(s, q, st, row2) = Told(s, q, st, row) \cup {t}
<1>0. /\ st.parent \in ParentType /\ t \in Servers /\ t # s /\ row \in Rows
      /\ t \in Side(s, t) /\ t \notin Side(t, s)
  BY Sides DEF Sound
<1>1. st.parent[t] = s /\ t \in Known(st)
  BY <1>0, NetAssumption DEF Sound, Rooted, Passed, Known, Knows
<1>2. \A y \in Servers : y # t => row2[y] = row[y]
  BY <1>0 DEF Rows, States
<1>3. row2[t] = "on" /\ row2 \in Rows
  BY <1>0 DEF Rows, States
<1>4. \A q : Adj(s, q) /\ q # t => t \in Side(q, s)
  BY <1>0, SideInside, Sides
<1>5. \A y \in Servers : Shy(s, st, row2, y) <=> (y # t /\ Shy(s, st, row, y))
  BY <1>2, <1>3 DEF Shy
<1>6. Rooted(s, st, row2)
  BY <1>1, <1>2, <1>3 DEF Rooted, Sound, Passed
<1>7. ASSUME NEW q, Adj(s, q), q # t
      PROVE  Told(s, q, st, row2) = Told(s, q, st, row) \cup {t}
  BY <1>1, <1>4, <1>5, <1>7 DEF Told, Known
<1>8. Told(s, t, st, row2) = Told(s, t, st, row)
  <2>1. \A x \in Known(st) \cap Side(t, s) : x \in Servers /\ x # t
    BY <1>0 DEF Known
  <2>. QED BY <1>5, <2>1 DEF Told
<1>. QED BY <1>3, <1>6, <1>7, <1>8

(* A link that is not registered, before and after                         *)
LEMMA NotPassed ==
  ASSUME NEW s \in Servers, NEW st, NEW row, Sound(s, st, row), NEW row2, NEW t \in Servers,
         s # t, row2 = [row EXCEPT ![t] = row2[t]], row2[t] \in {"no", "out", "in"},
         row[t] \notin Passed
  PROVE  /\ Rooted(s, st, row2) /\ row2 \in Rows
         /\ \A q : Told(s, q, st, row2) = Told(s, q, st, row)
<1>0. st.parent \in ParentType /\ row \in Rows
  BY DEF Sound
<1>1. \A y \in Servers : y # t => row2[y] = row[y]
  BY <1>0 DEF Rows, States
<1>2. st.parent[t] # s
  BY DEF Sound, Rooted
<1>3. row2 \in Rows
  BY <1>0 DEF Rows, States
<1>4. \A y \in Servers : Shy(s, st, row2, y) <=> Shy(s, st, row, y)
  BY <1>1, <1>2 DEF Shy
<1>5. Rooted(s, st, row2)
  BY <1>1, <1>2 DEF Rooted, Sound, Passed
<1>. QED BY <1>3, <1>4, <1>5 DEF Told, Known

(* u_server_destroy of a server, and the end of its link if it has one     *)
LEMMA Removed ==
  ASSUME NEW s \in Servers, NEW st, NEW row, Sound(s, st, row), NEW sv \in Known(st), sv # s,
         NEW st2, st2.parent = [x \in Servers |-> IF x \in Below(st, sv) THEN None ELSE st.parent[x]],
         NEW row2, row2 = IF st.parent[sv] = s THEN [row EXCEPT ![sv] = "no"] ELSE row
  PROVE  /\ Rooted(s, st2, row2) /\ row2 \in Rows
         /\ \A q : Heard(s, q, st2) = Heard(s, q, st) \ Beyond(s, sv)
         /\ \A q : Told(s, q, st2, row2) = Told(s, q, st, row) \ Beyond(s, sv)
<1> DEFINE C == Beyond(s, sv)
<1>0. /\ st.parent \in ParentType /\ None \notin Servers /\ sv \in Servers /\ row \in Rows
      /\ NoOrphans(s, st) /\ Upward(s, st)
  BY NetAssumption DEF Sound, Known, Rooted
<1>1. Below(st, sv) \subseteq C /\ C \cap Known(st) \subseteq Below(st, sv)
  BY <1>0, BelowBeyond
<1>2. Known(st2) = Known(st) \ C
  <2>1. \A x \in Servers : st2.parent[x] = IF x \in Below(st, sv) THEN None ELSE st.parent[x]
    OBVIOUS
  <2>. QED BY <1>1, <2>1 DEF Known, Knows
<1>3. \A x \in Known(st2) : st2.parent[x] = st.parent[x]
  BY DEF Known, Knows
<1>4. sv \in C /\ s \notin C
  <2>1. Adj(st.parent[sv], sv) /\ s \in Side(sv, st.parent[sv])
    BY <1>0 DEF Upward
  <2>2. sv \in Beyond(s, sv)
    BY ONLY <2>1, BeyondStep
  <2>3. s \notin Beyond(s, sv)
    BY NotBeyond
  <2>. QED BY <2>2, <2>3
<1>5. ASSUME NEW t \in Servers, t # s, t \in C, st.parent[t] = s
      PROVE  t = sv
  <2>1. t \in Known(st)
    BY <1>0, <1>5 DEF Known, Knows
  <2>2. Adj(s, t) /\ s \in Side(t, s)
    BY <1>0, <1>5, <2>1 DEF Upward
  <2>. QED BY <1>4, <1>5, <2>2, BeyondStep
<1>6. \A t \in Servers : row2[t] = IF t = sv /\ st.parent[sv] = s THEN "no" ELSE row[t]
  BY <1>0 DEF Rows, States
<1>7. row2 \in Rows
  BY <1>0 DEF Rows, States
<1>8. ASSUME NEW t \in Servers \ {s} PROVE st2.parent[t] = s <=> row2[t] \in Passed
  <2>1. st.parent[t] = s <=> row[t] \in Passed
    BY <1>8 DEF Sound, Rooted
  <2>2. CASE t \in Below(st, sv)
    <3>1. st2.parent[t] # s
      BY <1>0, <2>2
    <3>2. st.parent[t] = s => t = sv
      BY <1>1, <1>5, <1>8, <2>2
    <3>. QED BY <1>6, <2>1, <3>1, <3>2 DEF Passed
  <2>3. CASE t \notin Below(st, sv)
    <3>1. st2.parent[t] = st.parent[t] /\ t # sv
      BY <1>1, <1>4, <2>3
    <3>. QED BY <1>6, <2>1, <3>1
  <2>. QED BY <2>2, <2>3
<1>9. Upward(s, st2)
  BY <1>0, <1>2, <1>3 DEF Upward
<1>10. ASSUME NEW t \in Servers, Adj(s, t), row2[t] # "on"
       PROVE  Known(st2) \cap Side(s, t) \subseteq {t}
  <2>1. CASE t = sv /\ st.parent[sv] = s
    BY <1>2, <1>10, <2>1, BeyondLine
  <2>2. CASE ~(t = sv /\ st.parent[sv] = s)
    BY <1>2, <1>6, <1>10, <2>2 DEF Sound, Rooted
  <2>. QED BY <2>1, <2>2
<1>11. \A x \in Known(st2) : Shy(s, st2, row2, x) <=> Shy(s, st, row, x)
  BY <1>2, <1>3, <1>4, <1>6 DEF Shy, Known
<1>. QED BY <1>2, <1>7, <1>8, <1>9, <1>10, <1>11 DEF Rooted, Heard, Told, Known

-----------------------------------------------------------------------------
(* What s makes of the lines from t: v has the state of the link, what s   *)
(* knows of the side of t, and whether it is dead.                         *)
Views(s, t) == [h : States, k : SUBSET Side(s, t), dead : BOOLEAN]
View(h, k) == [h |-> h, k |-> k, dead |-> FALSE]
Step(s, t, v, m) ==
  IF v.dead THEN v
  ELSE IF m.t = "PASS" /\ v.h \in {"out", "in"}
       THEN View(IF v.h = "out" THEN "outPass" ELSE "inPass", {t})
  ELSE IF m.t = "SERVER" /\ v.h \in {"outPass", "inPass"} THEN View("on", v.k)
  ELSE IF m.t = "SID" /\ v.h = "on"
       THEN IF m.src \in v.k THEN View("on", v.k \cup {m.sid}) ELSE [v EXCEPT !.dead = TRUE]
  ELSE IF m.t = "SQUIT" /\ v.h = "on" THEN View("on", v.k \ Beyond(s, m.sid))
  ELSE v

\* A line from t to s names a server of the side of t and its parent.
Announce(s, t, m) ==
  m.t = "SID" => Adj(m.src, m.sid) /\ {m.src, m.sid} \subseteq Side(s, t) /\ s \in Side(m.sid, m.src)
Announces(s, t, A) == \A i \in DOMAIN A : Announce(s, t, A[i])

\* f goes from v by the lines of A, and w is where they end.
Run(s, t, v, A, f) ==
  /\ f \in [0..Len(A) -> Views(s, t)] /\ f[0] = v
  /\ \A i \in 1..Len(A) : f[i] = Step(s, t, f[i - 1], A[i])
Ends(s, t, v, A, w) == \E f : Run(s, t, v, A, f) /\ f[Len(A)] = w

(* A view                                                                  *)
LEMMA ViewTyped ==
  ASSUME NEW s, NEW t, NEW h \in States, NEW k \in SUBSET Side(s, t)
  PROVE  /\ View(h, k) \in Views(s, t) /\ View(h, k).h = h /\ View(h, k).k = k
         /\ ~View(h, k).dead
BY DEF View, Views, States

(* The parts of a view                                                     *)
LEMMA ViewParts ==
  ASSUME NEW s, NEW t, NEW v \in Views(s, t)
  PROVE  /\ v.h \in States /\ v.k \in SUBSET Side(s, t)
         /\ v.dead \in BOOLEAN /\ (~v.dead => v = View(v.h, v.k))
BY DEF View, Views, States

(* A step makes a view of a view.                                          *)
LEMMA StepTyped ==
  ASSUME NEW s, NEW t, Adj(s, t), NEW v \in Views(s, t), NEW m, Announce(s, t, m)
  PROVE  Step(s, t, v, m) \in Views(s, t)
<1>1. /\ v.h \in States /\ v.k \in SUBSET Side(s, t)
      /\ t \in Side(s, t)
  BY ViewParts, Sides
<1>2. [v EXCEPT !.dead = TRUE] \in Views(s, t)
  BY DEF Views
<1>3. {t} \in SUBSET Side(s, t) /\ (m.t = "SID" => v.k \cup {m.sid} \in SUBSET Side(s, t))
  BY <1>1 DEF Announce
<1>. QED BY <1>1, <1>2, <1>3, ViewTyped DEF Step, States

(* What a step does, by the line                                           *)
LEMMA StepCases ==
  ASSUME NEW s, NEW t, NEW v \in Views(s, t), NEW m
  PROVE  /\ v.dead => Step(s, t, v, m) = v
         /\ m.t \notin {"PASS", "SERVER", "SID", "SQUIT"} => Step(s, t, v, m) = v
         /\ v.h \in {"out", "in"} /\ m.t # "PASS" => Step(s, t, v, m) = v
         /\ v.h \in {"outPass", "inPass"} /\ m.t # "SERVER" => Step(s, t, v, m) = v
         /\ v.h = "on" /\ m.t \notin {"SID", "SQUIT"} => Step(s, t, v, m) = v
BY DEF Step

(* No lines                                                                *)
LEMMA EndsNone ==
  ASSUME NEW s, NEW t, NEW v \in Views(s, t)
  PROVE  Ends(s, t, v, << >>, v) /\ \A w : Ends(s, t, v, << >>, w) => w = v
<1>1. Run(s, t, v, << >>, [i \in 0..0 |-> v])
  BY DEF Run
<1>2. Len(<< >>) = 0
  OBVIOUS
<1>. QED BY <1>1, <1>2 DEF Ends, Run

(* The ends of a run                                                       *)
LEMMA EndsTyped ==
  ASSUME NEW s, NEW t, NEW v, NEW A, Len(A) \in Nat, NEW w, Ends(s, t, v, A, w)
  PROVE  v \in Views(s, t) /\ w \in Views(s, t)
<1>1. 0 \in 0..Len(A) /\ Len(A) \in 0..Len(A)
  OBVIOUS
<1>. QED BY <1>1 DEF Ends, Run

(* The first line has been handled.                                        *)
LEMMA EndsTail ==
  ASSUME NEW s, NEW t, NEW v, NEW M, NEW A \in Seq(M), A # << >>, NEW w, Ends(s, t, v, A, w)
  PROVE  Ends(s, t, Step(s, t, v, Head(A)), Tail(A), w)
<1>1. PICK f : Run(s, t, v, A, f) /\ f[Len(A)] = w
  BY DEF Ends
<1>2. /\ Len(A) \in Nat \ {0} /\ Len(Tail(A)) = Len(A) - 1 /\ Head(A) = A[1]
      /\ \A i \in 1..Len(Tail(A)) : Tail(A)[i] = A[i + 1]
  OBVIOUS
<1> DEFINE n == Len(Tail(A))
           g == [i \in 0..n |-> f[i + 1]]
<1>3. g \in [0..n -> Views(s, t)]
  BY <1>1, <1>2 DEF Run
<1>4. g[0] = Step(s, t, v, Head(A)) /\ g[n] = w
  BY <1>1, <1>2 DEF Run
<1>5. ASSUME NEW i \in 1..n PROVE g[i] = Step(s, t, g[i - 1], Tail(A)[i])
  <2>1. i + 1 \in 1..Len(A) /\ i - 1 \in 0..n /\ (i + 1) - 1 = i /\ (i - 1) + 1 = i /\ i \in 0..n
    BY <1>2
  <2>2. f[i + 1] = Step(s, t, f[(i + 1) - 1], A[i + 1])
    BY <1>1, <2>1 DEF Run
  <2>. QED BY <1>2, <2>1, <2>2
<1> HIDE DEF g
<1>. QED BY <1>3, <1>4, <1>5 DEF Ends, Run

(* One more line is under way.                                             *)
LEMMA EndsAppend ==
  ASSUME NEW s, NEW t, NEW v, NEW M, NEW A \in Seq(M), NEW w, Ends(s, t, v, A, w),
         NEW m, Adj(s, t), Announce(s, t, m)
  PROVE  Ends(s, t, v, Append(A, m), Step(s, t, w, m))
<1>1. PICK f : Run(s, t, v, A, f) /\ f[Len(A)] = w
  BY DEF Ends
<1>2. Len(A) \in Nat
  OBVIOUS
<1>3. w \in Views(s, t)
  BY <1>2, EndsTyped
<1> DEFINE B == Append(A, m)
           n == Len(A)
           g == [i \in 0..n + 1 |-> IF i = n + 1 THEN Step(s, t, w, m) ELSE f[i]]
<1>4. /\ Len(B) = n + 1 /\ B[n + 1] = m /\ \A i \in 1..n : B[i] = A[i]
  OBVIOUS
<1>5. Step(s, t, w, m) \in Views(s, t)
  BY <1>3, StepTyped
<1>6. g \in [0..n + 1 -> Views(s, t)] /\ g[0] = v /\ g[n + 1] = Step(s, t, w, m)
  BY <1>1, <1>2, <1>5 DEF Run
<1>7. ASSUME NEW i \in 1..n + 1 PROVE g[i] = Step(s, t, g[i - 1], B[i])
  <2>1. CASE i = n + 1
    <3>1. g[i - 1] = w /\ g[i] = Step(s, t, w, m)
      BY <1>1, <1>2, <2>1
    <3>. QED BY <1>4, <2>1, <3>1
  <2>2. CASE i # n + 1
    <3>1. i \in 1..n /\ g[i] = f[i] /\ g[i - 1] = f[i - 1]
      BY <1>2, <2>2
    <3>. QED BY <1>1, <1>4, <3>1 DEF Run
  <2>. QED BY <2>1, <2>2
<1> HIDE DEF g, B
<1>. QED BY <1>4, <1>6, <1>7 DEF Ends, Run, B

(* Every sequence of lines has a run.                                      *)
LEMMA EndsSomewhere ==
  ASSUME NEW s, NEW t, Adj(s, t), NEW v, v \in Views(s, t), NEW A, Len(A) \in Nat,
         DOMAIN A = 1..Len(A), Announces(s, t, A)
  PROVE  \E f : Run(s, t, v, A, f)
<1>1. Len(A) \in Nat /\ DOMAIN A = 1..Len(A)
  OBVIOUS
<1>2. \A i \in 1..Len(A), u \in Views(s, t) : Step(s, t, u, A[i]) \in Views(s, t)
  BY <1>1, StepTyped DEF Announces
<1>3. PICK b \in Nat : b = Len(A)
  BY <1>1
<1>4. PICK V : V = Views(s, t)
  OBVIOUS
<1>5. PICK e \in V : e = v
  BY <1>4
<1>6. PICK G \in [1..b -> [V -> V]] : G = [i \in 1..b |-> [u \in V |-> Step(s, t, u, A[i])]]
  BY <1>2, <1>3, <1>4
<1>7. \E f \in [0..b -> V] : f[0] = e /\ \A i \in 1..b : f[i] = G[i][f[i - 1]]
  <2>1. G \in [1..b -> [V -> V]]
    OBVIOUS
  <2>2. e \in V /\ b \in Nat
    OBVIOUS
  <2>. QED BY ONLY <2>1, <2>2, StepsExist
<1>8. PICK f \in [0..b -> V] : f[0] = e /\ \A i \in 1..b : f[i] = G[i][f[i - 1]]
  BY <1>7
<1>9. ASSUME NEW i \in 1..b PROVE f[i] = Step(s, t, f[i - 1], A[i])
  <2>1. f[i - 1] \in V /\ f[i] = G[i][f[i - 1]]
    BY <1>8
  <2>. QED BY <1>6, <2>1
<1>. QED BY <1>3, <1>4, <1>5, <1>8, <1>9 DEF Run

\* v2 is v for a server that has forgotten C.
Less(v2, v, C) ==
  v2.dead \/ (~v2.dead /\ ~v.dead /\ v2.h = v.h /\ v2.k \subseteq v.k /\ v.k \subseteq v2.k \cup C)

(* A server that has forgotten something goes on to know less.             *)
LEMMA StepLess ==
  ASSUME NEW s, NEW t, NEW v \in Views(s, t), NEW v2 \in Views(s, t), NEW C, Less(v2, v, C), NEW m
  PROVE  Less(Step(s, t, v2, m), Step(s, t, v, m), C)
<1>0. \A h, k : View(h, k).h = h /\ View(h, k).k = k /\ View(h, k).dead = FALSE
  BY DEF View
<1>1. CASE v2.dead
  BY <1>1 DEF Step, Less
<1>2. CASE ~v2.dead
  <2>0. ~v.dead /\ v2.h = v.h /\ v2.k \subseteq v.k /\ v.k \subseteq v2.k \cup C
    BY <1>2 DEF Less
  <2>1. CASE m.t = "PASS" /\ v.h \in {"out", "in"}
    BY <1>0, <1>2, <2>0, <2>1 DEF Step, Less
  <2>2. CASE m.t = "SERVER" /\ v.h \in {"outPass", "inPass"}
    BY <1>0, <1>2, <2>0, <2>2 DEF Step, Less
  <2>3. CASE m.t = "SID" /\ v.h = "on" /\ m.src \in v2.k
    <3>1. Step(s, t, v2, m) = View("on", v2.k \cup {m.sid}) /\ Step(s, t, v, m) = View("on", v.k \cup {m.sid})
      BY <1>2, <2>0, <2>3 DEF Step
    <3>. QED BY <1>0, <2>0, <3>1 DEF Less
  <2>4. CASE m.t = "SID" /\ v.h = "on" /\ m.src \notin v2.k
    <3>1. Step(s, t, v2, m) = [v2 EXCEPT !.dead = TRUE]
      BY <1>2, <2>0, <2>4 DEF Step
    <3>2. Step(s, t, v2, m).dead
      BY <3>1 DEF Views
    <3>. QED BY <3>2 DEF Less
  <2>5. CASE m.t = "SQUIT" /\ v.h = "on"
    <3>1. /\ Step(s, t, v2, m) = View("on", v2.k \ Beyond(s, m.sid))
          /\ Step(s, t, v, m) = View("on", v.k \ Beyond(s, m.sid))
      BY <1>2, <2>0, <2>5 DEF Step
    <3>. QED BY <1>0, <2>0, <3>1 DEF Less
  <2>6. CASE /\ ~(m.t = "PASS" /\ v.h \in {"out", "in"})
             /\ ~(m.t = "SERVER" /\ v.h \in {"outPass", "inPass"})
             /\ ~(m.t = "SID" /\ v.h = "on") /\ ~(m.t = "SQUIT" /\ v.h = "on")
    <3>1. Step(s, t, v2, m) = v2 /\ Step(s, t, v, m) = v
      BY <1>2, <2>0, <2>6 DEF Step
    <3>. QED BY <3>1
  <2>. QED BY <2>1, <2>2, <2>3, <2>4, <2>5, <2>6
<1>. QED BY <1>1, <1>2

(* And so it is where the lines end.                                       *)
LEMMA EndsLess ==
  ASSUME NEW s, NEW t, Adj(s, t), NEW h, NEW k, NEW A, Len(A) \in Nat,
         DOMAIN A = 1..Len(A), Announces(s, t, A), NEW w, Ends(s, t, View(h, k), A, w), NEW C
  PROVE  \E w2 : Ends(s, t, View(h, k \ C), A, w2) /\ Less(w2, w, C)
<1>1. PICK f : Run(s, t, View(h, k), A, f) /\ f[Len(A)] = w
  BY DEF Ends
<1>2. View(h, k) \in Views(s, t)
  BY EndsTyped
<1>3. View(h, k \ C) \in Views(s, t)
  BY <1>2 DEF View, Views
<1>4. PICK g : Run(s, t, View(h, k \ C), A, g)
  BY <1>3, EndsSomewhere
<1> DEFINE T == {i \in 0..Len(A) : Less(g[i], f[i], C)}
<1>5. 0 \in T
  BY <1>1, <1>4 DEF Run, Less, View
<1>6. ASSUME NEW i \in 1..Len(A), i - 1 \in T PROVE i \in T
  <2>1. i - 1 \in 0..Len(A) /\ i \in 0..Len(A)
    OBVIOUS
  <2>2. /\ f[i - 1] \in Views(s, t) /\ g[i - 1] \in Views(s, t)
        /\ f[i] = Step(s, t, f[i - 1], A[i]) /\ g[i] = Step(s, t, g[i - 1], A[i])
    BY <1>1, <1>4, <2>1 DEF Run
  <2>3. Less(g[i - 1], f[i - 1], C)
    BY <1>6
  <2>. QED BY <2>1, <2>2, <2>3, StepLess
<1>7. 0..Len(A) \subseteq T
  <2> HIDE DEF T
  <2>. QED BY <1>5, <1>6, IndexInduction
<1>8. Len(A) \in T
  BY <1>7
<1>. QED BY <1>1, <1>4, <1>8 DEF Ends

(* What nobody announces does not come back.                               *)
LEMMA EndsWithout ==
  ASSUME NEW s, NEW t, Adj(s, t), NEW v, NEW A, Len(A) \in Nat, DOMAIN A = 1..Len(A),
         Announces(s, t, A), NEW w, Ends(s, t, v, A, w), NEW y,
         v.k \cap Beyond(s, y) = {}, t \notin Beyond(s, y),
         \A i \in DOMAIN A : A[i].t = "SID" => A[i].sid # y
  PROVE  w.k \cap Beyond(s, y) = {}
<1>0. \A h, k : View(h, k).k = k
  BY DEF View
<1>1. PICK f : Run(s, t, v, A, f) /\ f[Len(A)] = w
  BY DEF Ends
<1> DEFINE T == {i \in 0..Len(A) : f[i].k \cap Beyond(s, y) = {}}
<1>2. 0 \in T
  BY <1>1 DEF Run
<1>3. ASSUME NEW i \in 1..Len(A), i - 1 \in T PROVE i \in T
  <2>1. i - 1 \in 0..Len(A) /\ i \in 0..Len(A)
    OBVIOUS
  <2>2. PICK u, m : u = f[i - 1] /\ m = A[i]
    OBVIOUS
  <2>3. u \in Views(s, t) /\ f[i] = Step(s, t, u, m)
    BY <1>1, <2>1, <2>2 DEF Run
  <2>4. u.k \cap Beyond(s, y) = {} /\ Announce(s, t, m) /\ (m.t = "SID" => m.sid # y)
    BY <1>3, <2>2 DEF Announces
  <2>5. ASSUME m.t = "SID", m.src \in u.k PROVE (u.k \cup {m.sid}) \cap Beyond(s, y) = {}
    BY <2>4, <2>5, BeyondStep DEF Announce
  <2>6. [u EXCEPT !.dead = TRUE].k = u.k
    BY <2>3 DEF Views
  <2>7. Step(s, t, u, m).k \cap Beyond(s, y) = {}
    BY <1>0, <2>4, <2>5, <2>6 DEF Step
  <2>. QED BY <2>1, <2>3, <2>7
<1>4. 0..Len(A) \subseteq T
  <2> HIDE DEF T
  <2>. QED BY <1>2, <1>3, IndexInduction
<1>5. Len(A) \in T
  BY <1>4
<1>. QED BY <1>1, <1>5

-----------------------------------------------------------------------------
(* The way from t to s: h and g are the states of the link at s and t, K   *)
(* what s knows of the side of t, X what t tells of it, A what is under    *)
(* way to s, B what is under way to t.  Where the lines end, s knows what  *)
(* t tells, but for what s has asked t to remove.                          *)
\* What t is asked to remove
Cut(t, B) == {x \in Servers : \E j \in DOMAIN B : B[j].t = "SQUIT" /\ x \in Beyond(t, B[j].sid)}

\* w, where the lines end, goes with what t has.
Fit(t, h, g, X, C, c, w) ==
  /\ g \in {"in", "inPass"} => h = "out" /\ w = View("out", {})
  /\ g \in {"out", "outPass", "on"} /\ ~w.dead => w.h = "on" /\ t \in w.k
  /\ g = "out" /\ ~w.dead => w.k \subseteq {t}
  /\ ~c /\ ~w.dead => w.k \subseteq X
  /\ g = "on" /\ ~w.dead => X \subseteq w.k \cup C

\* t closed its end; t did not; t registers with s.
Closing(A) == A # << >> /\ A[Len(A)] = EOF
Going(s, t, A) ==
  \A i \in DOMAIN A : A[i] # EOF /\ (A[i].t = "SQUIT" => A[i].sid \notin {s, t})
Registers(A) == \E i \in DOMAIN A : A[i].t \in {"PASS", "SERVER"}

\* The way from t to s is right.
Edge(t, s, h, g, K, X, A, B, c) ==
  /\ h = "no" => A = << >>
  /\ h # "no" => Adj(s, t) /\ Announces(s, t, A)
  /\ h # "no" /\ g = "no" => Closing(A)
  /\ g # "no" => Going(s, t, A)
  /\ h # "no" /\ g # "no" =>
       /\ g \in {"in", "inPass"} => ~Registers(A)
       /\ \E w : Ends(s, t, View(h, K), A, w) /\ Fit(t, h, g, X, Cut(t, B), c, w)

(* One line more                                                           *)
LEMMA OneMore ==
  ASSUME NEW M, NEW A \in Seq(M), NEW m
  PROVE  /\ \A s, t : Announces(s, t, A) /\ Announce(s, t, m) => Announces(s, t, Append(A, m))
         /\ \A s, t : Going(s, t, A) /\ m # EOF /\ (m.t = "SQUIT" => m.sid \notin {s, t})
                        => Going(s, t, Append(A, m))
         /\ ~Registers(A) /\ m.t \notin {"PASS", "SERVER"} => ~Registers(Append(A, m))
         /\ \A t : Cut(t, Append(A, m)) = Cut(t, A) \cup IF m.t = "SQUIT" THEN Beyond(t, m.sid) ELSE {}
<1>1. /\ DOMAIN A = 1..Len(A) /\ Len(A) \in Nat /\ DOMAIN Append(A, m) = 1..(Len(A) + 1)
      /\ Append(A, m)[Len(A) + 1] = m /\ \A i \in 1..Len(A) : Append(A, m)[i] = A[i]
  OBVIOUS
<1>2. \A i \in DOMAIN Append(A, m) : i \in DOMAIN A \/ i = Len(A) + 1
  BY <1>1
<1>3. Len(A) + 1 \in DOMAIN Append(A, m) /\ DOMAIN A \subseteq DOMAIN Append(A, m)
  BY <1>1
<1>4. PICK B, n : B = Append(A, m) /\ n = Len(A) + 1
  OBVIOUS
<1>5. /\ \A i \in DOMAIN B : i \in DOMAIN A \/ i = n
      /\ n \in DOMAIN B /\ DOMAIN A \subseteq DOMAIN B /\ B[n] = m /\ \A i \in DOMAIN A : B[i] = A[i]
  BY <1>1, <1>2, <1>3, <1>4
<1>6. \A t : Cut(t, B) = Cut(t, A) \cup IF m.t = "SQUIT" THEN Beyond(t, m.sid) ELSE {}
  BY ONLY <1>5, NotBeyond DEF Cut
<1>. QED BY ONLY <1>4, <1>5, <1>6 DEF Announces, Going, Registers

(* One line less                                                           *)
LEMMA OneLess ==
  ASSUME NEW M, NEW A \in Seq(M), A # << >>
  PROVE  /\ Tail(A) \in Seq(M) /\ Head(A) \in M
         /\ \A s, t : Announces(s, t, A) => Announces(s, t, Tail(A)) /\ Announce(s, t, Head(A))
         /\ \A s, t : Going(s, t, A) => Going(s, t, Tail(A)) /\ Head(A) # EOF
                       /\ (Head(A).t = "SQUIT" => Head(A).sid \notin {s, t})
         /\ ~Registers(A) => ~Registers(Tail(A)) /\ Head(A).t \notin {"PASS", "SERVER"}
         /\ Closing(A) /\ Head(A) # EOF => Closing(Tail(A))
         /\ \A t : Cut(t, A) = Cut(t, Tail(A)) \cup IF Head(A).t = "SQUIT" THEN Beyond(t, Head(A).sid) ELSE {}
<1>0. Tail(A) \in Seq(M) /\ Head(A) \in M
  OBVIOUS
<1>1. /\ DOMAIN A = 1..Len(A) /\ Len(A) \in Nat \ {0} /\ DOMAIN Tail(A) = 1..(Len(A) - 1)
      /\ A[1] = Head(A) /\ \A i \in 1..(Len(A) - 1) : Tail(A)[i] = A[i + 1]
      /\ Len(Tail(A)) = Len(A) - 1
  OBVIOUS
<1>2. PICK B, m : B = Tail(A) /\ m = Head(A)
  OBVIOUS
<1>3. \A i \in DOMAIN A : i = 1 \/ (i - 1 \in DOMAIN B /\ B[i - 1] = A[i])
  BY <1>1, <1>2
<1>4. \A i \in DOMAIN B : i + 1 \in DOMAIN A /\ B[i] = A[i + 1]
  BY <1>1, <1>2
<1>5. 1 \in DOMAIN A /\ A[1] = m
  BY <1>1, <1>2
<1>6. \A s, t : Announces(s, t, A) => Announces(s, t, B) /\ Announce(s, t, m)
  BY ONLY <1>4, <1>5 DEF Announces
<1>7. \A s, t : Going(s, t, A) => Going(s, t, B) /\ m # EOF
                       /\ (m.t = "SQUIT" => m.sid \notin {s, t})
  BY ONLY <1>4, <1>5 DEF Going
<1>8. ~Registers(A) => ~Registers(B) /\ m.t \notin {"PASS", "SERVER"}
  BY ONLY <1>4, <1>5 DEF Registers
<1>9. ASSUME Closing(A), m # EOF PROVE Closing(B)
  <2>1. A[Len(A)] = EOF /\ Len(A) # 1
    BY <1>5, <1>9 DEF Closing
  <2>2. Len(A) - 1 \in 1..(Len(A) - 1) /\ Len(B) = Len(A) - 1
    BY <1>1, <1>2, <2>1
  <2>3. B[Len(B)] = EOF
    <3>1. B[Len(A) - 1] = A[(Len(A) - 1) + 1] /\ (Len(A) - 1) + 1 = Len(A)
      BY <1>1, <1>2, <2>2
    <3>. QED BY ONLY <2>1, <2>2, <3>1
  <2>4. B # << >>
    <3>1. Len(B) # 0
      BY ONLY <2>2
    <3>. QED BY <3>1
  <2>. QED BY <2>3, <2>4 DEF Closing
<1>10. ASSUME NEW t
       PROVE  Cut(t, A) = Cut(t, B) \cup IF m.t = "SQUIT" THEN Beyond(t, m.sid) ELSE {}
  <2>1. ASSUME NEW x \in Cut(t, A), x \notin Cut(t, B) PROVE m.t = "SQUIT" /\ x \in Beyond(t, m.sid)
    BY ONLY <1>3, <1>5, <2>1 DEF Cut
  <2>2. Cut(t, B) \subseteq Cut(t, A)
    BY ONLY <1>4 DEF Cut
  <2>3. ASSUME m.t = "SQUIT" PROVE Beyond(t, m.sid) \subseteq Cut(t, A)
    BY ONLY <1>5, <2>3, NotBeyond DEF Cut
  <2>. QED BY <2>1, <2>2, <2>3
<1>. QED BY <1>0, <1>2, <1>6, <1>7, <1>8, <1>9, <1>10

(* The lines and what t tells change in a way that s need not hear of.     *)
LEMMA EdgeLater ==
  ASSUME NEW t, NEW s, NEW h, NEW g \in States, NEW K, NEW X, NEW A, NEW B, NEW c,
         Edge(t, s, h, g, K, X, A, B, c), NEW B2, NEW c2, c => c2, NEW X2,
         c2 \/ X \subseteq X2 \/ (g \notin Passed /\ t \in X2),
         g = "on" => X2 \subseteq X /\ X2 \cap Cut(t, B) \subseteq Cut(t, B2)
  PROVE  Edge(t, s, h, g, K, X2, A, B2, c2)
<1>1. ASSUME NEW w, Fit(t, h, g, X, Cut(t, B), c, w), g \in {"out", "in", "outPass", "inPass", "on"}
      PROVE  Fit(t, h, g, X2, Cut(t, B2), c2, w)
  <2>1. ASSUME ~c2, ~w.dead PROVE w.k \subseteq X2
    <3>1. w.k \subseteq X
      BY <1>1, <2>1 DEF Fit
    <3>2. g = "out" => w.k \subseteq {t}
      BY <1>1, <2>1 DEF Fit
    <3>3. g = "in" => w.k = {}
      BY <1>1, <2>1 DEF Fit, View
    <3>. QED BY <1>1, <2>1, <3>1, <3>2, <3>3 DEF Passed
  <2>2. ASSUME g = "on", ~w.dead PROVE X2 \subseteq w.k \cup Cut(t, B2)
    BY <1>1, <2>2 DEF Fit
  <2>. QED BY <1>1, <2>1, <2>2 DEF Fit
<1>2. ASSUME h # "no", g # "no"
      PROVE  \E w : Ends(s, t, View(h, K), A, w) /\ Fit(t, h, g, X2, Cut(t, B2), c2, w)
  <2>1. PICK w : Ends(s, t, View(h, K), A, w) /\ Fit(t, h, g, X, Cut(t, B), c, w)
    BY <1>2 DEF Edge
  <2>. QED BY <1>1, <1>2, <2>1 DEF States
<1>. QED BY <1>2 DEF Edge

(* t sends a line that is not about servers.                               *)
LEMMA EdgeOther ==
  ASSUME NEW t, NEW s, NEW h, NEW g \in States, NEW K, NEW X, NEW M, NEW A \in Seq(M), NEW B, NEW c,
         Edge(t, s, h, g, K, X, A, B, c), g # "no", h # "no",
         NEW m, m # EOF, m.t \notin {"PASS", "SERVER", "SID", "SQUIT"}
  PROVE  Edge(t, s, h, g, K, X, Append(A, m), B, c)
<1>1. Announce(s, t, m) /\ Adj(s, t) /\ Announces(s, t, A)
  BY DEF Announce, Edge
<1>2. PICK w : Ends(s, t, View(h, K), A, w) /\ Fit(t, h, g, X, Cut(t, B), c, w)
  BY DEF Edge
<1>3. w \in Views(s, t)
  <2>1. Len(A) \in Nat
    OBVIOUS
  <2>. QED BY <1>2, <2>1, EndsTyped
<1>4. Step(s, t, w, m) = w
  BY <1>3, StepCases
<1>5. Ends(s, t, View(h, K), Append(A, m), w)
  BY <1>1, <1>2, <1>4, EndsAppend
<1>. QED BY <1>1, <1>2, <1>5, OneMore DEF Edge

(* t sends the name of a server that it tells of now.                      *)
LEMMA EdgeSid ==
  ASSUME NEW t, NEW s, NEW h, NEW g \in Passed, NEW K, NEW X, NEW M, NEW A \in Seq(M), NEW B, NEW c,
         Edge(t, s, h, g, K, X, A, B, c), h # "no",
         NEW m, m # EOF, m.t = "SID", Announce(s, t, m)
  PROVE  Edge(t, s, h, g, K, X \cup {m.sid}, Append(A, m), B, c)
<1>0. \A a, k : View(a, k).h = a /\ View(a, k).k = k /\ View(a, k).dead = FALSE
  BY DEF View
<1>1. Adj(s, t) /\ Announces(s, t, A)
  BY DEF Edge, Passed
<1>2. PICK w : Ends(s, t, View(h, K), A, w) /\ Fit(t, h, g, X, Cut(t, B), c, w)
  BY DEF Edge, Passed
<1>3. w \in Views(s, t)
  <2>1. Len(A) \in Nat
    OBVIOUS
  <2>. QED BY <1>2, <2>1, EndsTyped
<1>4. PICK w2 : w2 = Step(s, t, w, m)
  OBVIOUS
<1>5. Ends(s, t, View(h, K), Append(A, m), w2)
  BY <1>1, <1>2, <1>4, EndsAppend
<1>6. Fit(t, h, g, X \cup {m.sid}, Cut(t, B), c, w2)
  <2>1. CASE w.dead
    <3>1. w2 = w
      BY <1>3, <1>4, <2>1, StepCases
    <3>. QED BY <1>2, <2>1, <3>1 DEF Fit
  <2>2. CASE ~w.dead /\ g = "inPass"
    <3>1. w.h = "out" /\ w.k = {}
      BY <1>0, <1>2, <2>2 DEF Fit
    <3>2. w2 = w
      BY <1>3, <1>4, <3>1, StepCases
    <3>. QED BY <1>2, <2>2, <3>1, <3>2 DEF Fit
  <2>3. CASE ~w.dead /\ g # "inPass"
    <3>1. w.h = "on" /\ t \in w.k /\ g \in {"outPass", "on"}
      BY <1>2, <2>3 DEF Fit, Passed
    <3>2. CASE m.src \in w.k
      <4>1. w2 = View("on", w.k \cup {m.sid})
        BY <1>4, <2>3, <3>1, <3>2 DEF Step
      <4>. QED BY <1>0, <1>2, <2>3, <3>1, <4>1 DEF Fit
    <3>3. CASE m.src \notin w.k
      <4>1. w2 = [w EXCEPT !.dead = TRUE]
        BY <1>4, <2>3, <3>1, <3>3 DEF Step
      <4>2. w2.dead
        BY <1>3, <4>1 DEF Views
      <4>. QED BY <3>1, <4>2 DEF Fit
    <3>. QED BY <3>2, <3>3
  <2>. QED BY <2>1, <2>2, <2>3
<1>. QED BY <1>1, <1>5, <1>6, OneMore DEF Edge, Passed

(* t sends that a server is removed, of which it does not tell any more.   *)
LEMMA EdgeSquit ==
  ASSUME NEW t, NEW s, NEW h, NEW g \in Passed, NEW K, NEW X, NEW M, NEW A \in Seq(M), NEW B, NEW c,
         Edge(t, s, h, g, K, X, A, B, c), h # "no",
         NEW m, m # EOF, m.t = "SQUIT", m.sid \notin {s, t}
  PROVE  Edge(t, s, h, g, K, X \ Beyond(t, m.sid), Append(A, m), B, c)
<1>0. \A a, k : View(a, k).h = a /\ View(a, k).k = k /\ View(a, k).dead = FALSE
  BY DEF View
<1>1. Adj(s, t) /\ Announces(s, t, A) /\ Announce(s, t, m)
  BY DEF Edge, Passed, Announce
<1>2. PICK w : Ends(s, t, View(h, K), A, w) /\ Fit(t, h, g, X, Cut(t, B), c, w)
  BY DEF Edge, Passed
<1>3. w \in Views(s, t)
  <2>1. Len(A) \in Nat
    OBVIOUS
  <2>. QED BY <1>2, <2>1, EndsTyped
<1>4. PICK w2 : w2 = Step(s, t, w, m)
  OBVIOUS
<1>5. Ends(s, t, View(h, K), Append(A, m), w2)
  BY <1>1, <1>2, <1>4, EndsAppend
<1>6. Beyond(t, m.sid) = Beyond(s, m.sid) /\ t \notin Beyond(t, m.sid)
  BY <1>1, BeyondLine, NotBeyond
<1>7. Fit(t, h, g, X \ Beyond(t, m.sid), Cut(t, B), c, w2)
  <2>1. CASE w.dead
    <3>1. w2 = w
      BY <1>3, <1>4, <2>1, StepCases
    <3>. QED BY <1>2, <2>1, <3>1 DEF Fit
  <2>2. CASE ~w.dead /\ g = "inPass"
    <3>1. w.h = "out" /\ w.k = {}
      BY <1>0, <1>2, <2>2 DEF Fit
    <3>2. w2 = w
      BY <1>3, <1>4, <3>1, StepCases
    <3>. QED BY <1>2, <2>2, <3>1, <3>2 DEF Fit
  <2>3. CASE ~w.dead /\ g # "inPass"
    <3>1. w.h = "on" /\ t \in w.k /\ g \in {"outPass", "on"}
      BY <1>2, <2>3 DEF Fit, Passed
    <3>2. w2 = View("on", w.k \ Beyond(t, m.sid))
      BY <1>4, <1>6, <2>3, <3>1 DEF Step
    <3>. QED BY <1>0, <1>2, <1>6, <2>3, <3>1, <3>2 DEF Fit
  <2>. QED BY <2>1, <2>2, <2>3
<1>. QED BY <1>1, <1>5, <1>7, OneMore DEF Edge, Passed

(* s has forgotten what is beyond y, and has asked t to remove y.          *)
LEMMA EdgeForget ==
  ASSUME NEW t, NEW s, NEW h, NEW g \in States, NEW K, NEW X, NEW M, NEW A \in Seq(M), NEW B, NEW c,
         Edge(t, s, h, g, K, X, A, B, c), h \in {"out", "in"} => K = {},
         NEW y, y \notin {s, t}, NEW B2, Cut(t, B2) = Cut(t, B) \cup Beyond(t, y)
  PROVE  Edge(t, s, h, g, K \ Beyond(s, y), X, A, B2, c)
<1>0. \A a, k : View(a, k).h = a /\ View(a, k).k = k /\ View(a, k).dead = FALSE
  BY DEF View
<1>1. CASE h = "no" \/ g = "no"
  BY <1>1 DEF Edge
<1>2. CASE h # "no" /\ g \in {"in", "inPass"}
  <2>1. h = "out"
    BY <1>2 DEF Edge, Fit
  <2>2. K \ Beyond(s, y) = K
    BY <2>1
  <2>3. X \subseteq X /\ X \cap Cut(t, B) \subseteq Cut(t, B2)
    OBVIOUS
  <2>4. Edge(t, s, h, g, K, X, A, B2, c)
    BY ONLY <2>3, g \in States, Edge(t, s, h, g, K, X, A, B, c), EdgeLater
  <2>. QED BY <2>2, <2>4
<1>3. CASE h # "no" /\ g \in {"out", "outPass", "on"}
  <2>1. Adj(s, t) /\ Announces(s, t, A)
    BY <1>3 DEF Edge
  <2>2. PICK w : Ends(s, t, View(h, K), A, w) /\ Fit(t, h, g, X, Cut(t, B), c, w)
    BY <1>3 DEF Edge
  <2>3. PICK w2 : Ends(s, t, View(h, K \ Beyond(s, y)), A, w2) /\ Less(w2, w, Beyond(s, y))
    <3>1. Len(A) \in Nat /\ DOMAIN A = 1..Len(A)
      OBVIOUS
    <3>. QED BY <2>1, <2>2, <3>1, EndsLess
  <2>4. Beyond(t, y) = Beyond(s, y) /\ t \notin Beyond(s, y)
    BY <2>1, BeyondLine
  <2>5. Fit(t, h, g, X, Cut(t, B2), c, w2)
    BY <1>3, <2>2, <2>3, <2>4 DEF Fit, Less
  <2>. QED BY <1>3, <2>1, <2>3, <2>5 DEF Edge
<1>. QED BY <1>1, <1>2, <1>3 DEF States

(* s handles the first line.                                               *)
LEMMA EdgeHandled ==
  ASSUME NEW t, NEW s, NEW h, NEW g \in States, NEW K, NEW X, NEW M, NEW A \in Seq(M), NEW B, NEW c,
         Edge(t, s, h, g, K, X, A, B, c), h # "no", A # << >>, Head(A) # EOF,
         NEW h2, NEW K2, Step(s, t, View(h, K), Head(A)) = View(h2, K2)
  PROVE  Edge(t, s, h2, g, K2, X, Tail(A), B, c)
<1>1. Adj(s, t) /\ Announces(s, t, A)
  BY DEF Edge
<1>2. Announces(s, t, Tail(A)) /\ (g = "no" => Closing(Tail(A))) /\ (g # "no" => Going(s, t, Tail(A)))
  BY <1>1, OneLess DEF Edge
<1>3. ASSUME g # "no"
      PROVE  /\ g \in {"in", "inPass"} => ~Registers(Tail(A))
             /\ \E w : Ends(s, t, View(h2, K2), Tail(A), w) /\ Fit(t, h2, g, X, Cut(t, B), c, w)
  <2>1. PICK w : Ends(s, t, View(h, K), A, w) /\ Fit(t, h, g, X, Cut(t, B), c, w)
    BY <1>3 DEF Edge
  <2>2. Ends(s, t, View(h2, K2), Tail(A), w)
    BY <2>1, EndsTail
  <2>3. ASSUME g \in {"in", "inPass"} PROVE ~Registers(Tail(A)) /\ h2 = "out"
    <3>1. ~Registers(A) /\ h = "out"
      BY <1>3, <2>1, <2>3 DEF Edge, Fit
    <3>2. ~Registers(Tail(A)) /\ Head(A).t # "PASS"
      BY <3>1, OneLess
    <3>3. View(h2, K2) = View("out", K)
      BY <3>1, <3>2 DEF Step, View
    <3>. QED BY <3>2, <3>3 DEF View
  <2>4. Fit(t, h2, g, X, Cut(t, B), c, w)
    BY <2>1, <2>3 DEF Fit
  <2>. QED BY <2>2, <2>3, <2>4
<1>4. h2 # "no"
  <2>1. View(h, K).h = h /\ View(h2, K2).h = h2 /\ \A k : View("on", k).h = "on"
    BY DEF View
  <2>2. [View(h, K) EXCEPT !.dead = TRUE].h = h
    BY DEF View
  <2>3. \A k : View("outPass", k).h = "outPass" /\ View("inPass", k).h = "inPass"
    BY DEF View
  <2>4. PICK v, m : v = View(h, K) /\ m = Head(A)
    OBVIOUS
  <2>5. /\ Step(s, t, v, m).h = h2 /\ v.h = h /\ h # "no" /\ [v EXCEPT !.dead = TRUE].h = h
        /\ \A k : View("on", k).h = "on"
    BY <2>1, <2>2, <2>4
  <2>. QED BY ONLY <2>3, <2>5 DEF Step
<1>. QED BY <1>1, <1>2, <1>3, <1>4 DEF Edge

(* t handles a request of s to remove y, and s does not know of y again, or *)
(* it is noted that it does.                                               *)
LEMMA EdgeAsked ==
  ASSUME NEW t, NEW s, NEW h, NEW K, NEW X, NEW M, NEW A \in Seq(M), NEW B \in Seq(M), NEW c,
         Edge(t, s, h, "on", K, X, A, B, c), B # << >>, Head(B).t = "SQUIT",
         NEW y, y = Head(B).sid, y \notin {s, t}, NEW c2, c => c2,
         c2 \/ ( /\ K \cap Beyond(s, y) = {}
                 /\ \A i \in DOMAIN A : A[i].t = "SID" => A[i].sid # y )
  PROVE  Edge(t, s, h, "on", K, X \ Beyond(t, y), A, Tail(B), c2)
<1>1. CASE h = "no"
  BY <1>1 DEF Edge
<1>2. CASE h # "no"
  <2>1. Adj(s, t) /\ Announces(s, t, A)
    BY <1>2 DEF Edge
  <2>2. PICK w : Ends(s, t, View(h, K), A, w) /\ Fit(t, h, "on", X, Cut(t, B), c, w)
    BY <1>2 DEF Edge
  <2>3. Beyond(t, y) = Beyond(s, y) /\ t \notin Beyond(s, y)
    BY <2>1, BeyondLine
  <2>4. Cut(t, B) = Cut(t, Tail(B)) \cup Beyond(t, y)
    BY OneLess
  <2>5. c2 \/ w.k \cap Beyond(t, y) = {}
    <3>1. SUFFICES ASSUME K \cap Beyond(s, y) = {}, \A i \in DOMAIN A : A[i].t = "SID" => A[i].sid # y
                   PROVE  w.k \cap Beyond(t, y) = {}
      OBVIOUS
    <3>2. Len(A) \in Nat /\ DOMAIN A = 1..Len(A)
      OBVIOUS
    <3>3. View(h, K).k \cap Beyond(s, y) = {}
      BY <3>1 DEF View
    <3>. QED BY <2>1, <2>2, <2>3, <3>1, <3>2, <3>3, EndsWithout
  <2>6. Fit(t, h, "on", X \ Beyond(t, y), Cut(t, Tail(B)), c2, w)
    BY <2>2, <2>3, <2>4, <2>5 DEF Fit
  <2>. QED BY <1>2, <2>1, <2>2, <2>6 DEF Edge
<1>. QED BY <1>1, <1>2

(* t has handled the PASS of s.                                            *)
LEMMA EdgePass ==
  ASSUME NEW t, NEW s, NEW h, NEW g \in {"out", "in"}, NEW K, NEW X, NEW A, NEW B, NEW c,
         Edge(t, s, h, g, K, X, A, B, c), NEW B2
  PROVE  Edge(t, s, h, IF g = "out" THEN "outPass" ELSE "inPass", K, X, A, B2, c)
<1>1. \A w : Fit(t, h, g, X, Cut(t, B), c, w)
               => Fit(t, h, IF g = "out" THEN "outPass" ELSE "inPass", X, Cut(t, B2), c, w)
  BY DEF Fit
<1>. QED BY <1>1 DEF Edge

(* One more of the lines that follow                                       *)
LEMMA OneOfMany ==
  ASSUME NEW M, NEW A \in Seq(M), NEW D \in Seq(M), NEW i \in 1..Len(D)
  PROVE  A \o SubSeq(D, 1, i) = Append(A \o SubSeq(D, 1, i - 1), D[i]) /\ D[i] \in M
<1>1. D[i] \in M /\ SubSeq(D, 1, i - 1) \in Seq(M) /\ <<D[i]>> \in Seq(M)
  OBVIOUS
<1>2. SubSeq(D, 1, i) = Append(SubSeq(D, 1, i - 1), D[i])
  OBVIOUS
<1>3. PICK E \in Seq(M) : E = SubSeq(D, 1, i - 1)
  BY <1>1
<1>4. A \o E \in Seq(M)
  OBVIOUS
<1>5. Append(E, D[i]) = E \o <<D[i]>> /\ Append(A \o E, D[i]) = (A \o E) \o <<D[i]>>
  BY ONLY <1>1, <1>3, <1>4, AppendIsConcat
<1>6. (A \o E) \o <<D[i]>> = A \o (E \o <<D[i]>>)
  <2>1. SUFFICES ASSUME NEW F \in Seq(M) PROVE (A \o E) \o F = A \o (E \o F)
    BY <1>1
  <2>. QED OBVIOUS
<1>. QED BY ONLY <1>1, <1>2, <1>3, <1>5, <1>6

(* The burst, from a point where the link is registered                    *)
LEMMA EdgeNames ==
  ASSUME NEW t, NEW s, NEW h, NEW K, NEW M, NEW A \in Seq(M), NEW c, NEW X,
         Adj(s, t), h # "no", Announces(s, t, A), Going(s, t, A),
         NEW w, Ends(s, t, View(h, K), A, w), w.dead \/ (w.h = "on" /\ t \in w.k /\ (c \/ w.k \subseteq X)),
         NEW D \in Seq(M), Announces(s, t, D), NEW B,
         \A i \in DOMAIN D : D[i] # EOF /\ D[i].t \notin {"PASS", "SERVER", "SQUIT"},
         \A i \in DOMAIN D : D[i].t = "SID" => D[i].sid \in X,
         \A x \in X \ {t} : \E i \in DOMAIN D : D[i].t = "SID" /\ D[i].sid = x
  PROVE  Edge(t, s, h, "on", K, X, A \o D, B, c)
<1> DEFINE n == Len(D)
           Good(i, u) ==
             \/ u.dead
             \/ /\ u.h = "on" /\ t \in u.k /\ (c \/ u.k \subseteq X)
                /\ \A j \in 1..i : D[j].t = "SID" => D[j].sid \in u.k
           At(i, E, u) ==
             /\ E = A \o SubSeq(D, 1, i) /\ E \in Seq(M) /\ Announces(s, t, E) /\ Going(s, t, E)
             /\ Ends(s, t, View(h, K), E, u) /\ Good(i, u)
           T == {i \in 0..n : \E E, u : At(i, E, u)}
<1>1. n \in Nat /\ DOMAIN D = 1..n
  OBVIOUS
<1>2. 0 \in T
  <2>1. A \o SubSeq(D, 1, 0) = A
    OBVIOUS
  <2>2. Good(0, w)
    OBVIOUS
  <2>3. At(0, A, w)
    <3> HIDE DEF Good
    <3>. QED BY <2>1, <2>2
  <2>4. 0 \in 0..n
    BY <1>1
  <2> HIDE DEF At
  <2>. QED BY <2>3, <2>4
<1>3. ASSUME NEW i \in 1..n, i - 1 \in T PROVE i \in T
  <2>1. PICK E, u : At(i - 1, E, u)
    BY <1>3
  <2>2. A \o SubSeq(D, 1, i) = Append(E, D[i]) /\ D[i] \in M
    <3>1. E = A \o SubSeq(D, 1, i - 1)
      BY <2>1
    <3>2. A \o SubSeq(D, 1, i) = Append(A \o SubSeq(D, 1, i - 1), D[i]) /\ D[i] \in M
      <4>1. i \in 1..Len(D)
        OBVIOUS
      <4>. QED BY ONLY <4>1, OneOfMany, A \in Seq(M), D \in Seq(M)
    <3>. QED BY <3>1, <3>2
  <2>3. E \in Seq(M) /\ Announces(s, t, E) /\ Going(s, t, E)
    BY <2>1
  <2>4. Ends(s, t, View(h, K), E, u) /\ Good(i - 1, u)
    BY <2>1
  <2>5. PICK m : m = D[i]
    OBVIOUS
  <2>6. Announce(s, t, m) /\ m # EOF /\ m.t \notin {"PASS", "SERVER", "SQUIT"} /\ (m.t = "SID" => m.sid \in X)
    BY <1>1, <2>5 DEF Announces
  <2>7. PICK u2 : u2 = Step(s, t, u, m)
    OBVIOUS
  <2>8. Ends(s, t, View(h, K), Append(E, m), u2)
    BY <2>3, <2>4, <2>6, <2>7, EndsAppend
  <2>9. u \in Views(s, t)
    <3>1. Len(E) \in Nat
      BY <2>3
    <3>. QED BY <2>4, <3>1, EndsTyped
  <2>10. Good(i, u2)
    <3>0. \A j \in 1..i : j = i \/ j \in 1..(i - 1)
      OBVIOUS
    <3>1. CASE u.dead
      <4>1. u2 = u
        BY <2>7, <2>9, <3>1, StepCases
      <4>. QED BY <3>1, <4>1
    <3>2. CASE ~u.dead /\ m.t # "SID"
      <4>1. u2 = u
        BY <2>4, <2>6, <2>7, <2>9, <3>2, StepCases
      <4>. QED BY <2>4, <2>5, <3>0, <3>2, <4>1
    <3>3. CASE ~u.dead /\ m.t = "SID" /\ m.src \notin u.k
      <4>1. u2 = [u EXCEPT !.dead = TRUE]
        BY <2>4, <2>7, <3>3 DEF Step
      <4>2. u2.dead
        BY <2>9, <4>1 DEF Views
      <4>. QED BY <4>2
    <3>4. CASE ~u.dead /\ m.t = "SID" /\ m.src \in u.k
      <4>1. u2 = View("on", u.k \cup {m.sid})
        BY <2>4, <2>7, <3>4 DEF Step
      <4>2. u2.h = "on" /\ u2.k = u.k \cup {m.sid} /\ ~u2.dead
        BY <4>1 DEF View
      <4>. QED BY <2>4, <2>5, <2>6, <3>0, <3>4, <4>2
    <3>. QED BY <3>1, <3>2, <3>3, <3>4
  <2>11. Append(E, m) \in Seq(M) /\ Announces(s, t, Append(E, m)) /\ Going(s, t, Append(E, m))
    BY <2>2, <2>3, <2>5, <2>6, OneMore
  <2>12. At(i, Append(E, m), u2)
    <3> HIDE DEF Good
    <3>. QED BY <2>2, <2>5, <2>8, <2>10, <2>11
  <2>13. i \in 0..n
    BY <1>1
  <2> HIDE DEF At
  <2>. QED BY <2>12, <2>13
<1>4. n \in T
  <2> HIDE DEF T, n
  <2>1. 0..n \subseteq T
    BY <1>1, <1>2, <1>3, IndexInduction
  <2>. QED BY <1>1, <2>1
<1>5. A \o SubSeq(D, 1, n) = A \o D
  <2>1. SubSeq(D, 1, n) = D
    OBVIOUS
  <2>. QED BY <2>1
<1>6. PICK E, u : At(n, E, u)
  <2> HIDE DEF At
  <2>. QED BY <1>4
<1>7. Ends(s, t, View(h, K), A \o D, u) /\ Good(n, u)
  <2> HIDE DEF Good
  <2>. QED BY <1>5, <1>6
<1>8. Announces(s, t, A \o D) /\ Going(s, t, A \o D)
  <2> HIDE DEF Good
  <2>. QED BY <1>5, <1>6
<1>9. Fit(t, h, "on", X, Cut(t, B), c, u)
  BY <1>1, <1>7 DEF Fit
<1>. QED BY <1>7, <1>8, <1>9 DEF Edge

(* A way that leads to a link that is closed has no lines.                 *)
LEMMA EdgeIdle ==
  ASSUME NEW t, NEW s, NEW g, NEW K, NEW X, NEW A, NEW B, NEW c,
         Edge(t, s, "no", g, K, X, A, B, c), NEW g2, NEW K2, NEW X2, NEW B2, NEW c2
  PROVE  A = << >> /\ Edge(t, s, "no", g2, K2, X2, A, B2, c2)
BY DEF Edge, Going

(* s closes its end.                                                       *)
LEMMA EdgeNone ==
  ASSUME NEW t, NEW s, NEW g, NEW K, NEW X, NEW B, NEW c
  PROVE  Edge(t, s, "no", g, K, X, << >>, B, c)
BY DEF Edge, Going

(* t closes its end: s reads some of the lines, and the end of them.       *)
LEMMA EdgeClosed ==
  ASSUME NEW t, NEW s, NEW h, h # "no", Adj(s, t), NEW M, NEW A \in Seq(M), Announces(s, t, A),
         NEW K, NEW X, NEW B, NEW c
  PROVE  Edge(t, s, h, "no", K, X, Append(A, EOF), B, c)
<1>1. Announce(s, t, EOF)
  BY DEF Announce, EOF
<1>2. Announces(s, t, Append(A, EOF))
  BY <1>1, OneMore
<1>3. Closing(Append(A, EOF))
  <2>1. PICK e : e = EOF
    OBVIOUS
  <2>2. PICK C : C = Append(A, e)
    OBVIOUS
  <2>3. Len(A) \in Nat /\ Len(C) = Len(A) + 1 /\ C[Len(A) + 1] = e
    BY <2>2
  <2>4. C # << >>
    BY <2>3
  <2>. QED BY ONLY <2>1, <2>2, <2>3, <2>4 DEF Closing
<1>. QED BY <1>2, <1>3 DEF Edge

(* Some of the lines, from the first on                                    *)
LEMMA Announced ==
  ASSUME NEW s, NEW t, NEW M, NEW A \in Seq(M), Announces(s, t, A), NEW n \in 0..Len(A)
  PROVE  SubSeq(A, 1, n) \in Seq(M) /\ Announces(s, t, SubSeq(A, 1, n))
<1>1. /\ SubSeq(A, 1, n) \in Seq(M) /\ DOMAIN SubSeq(A, 1, n) = 1..n /\ DOMAIN A = 1..Len(A)
      /\ \A i \in 1..n : i \in 1..Len(A) /\ SubSeq(A, 1, n)[i] = A[i]
  OBVIOUS
<1>. QED BY <1>1 DEF Announces

(* One more line to the other side                                         *)
LEMMA EdgeAnswer ==
  ASSUME NEW t, NEW s, NEW h, NEW g \in States, NEW K, NEW X, NEW A, NEW M, NEW B \in Seq(M), NEW c,
         Edge(t, s, h, g, K, X, A, B, c), NEW m, NEW B2, B2 = B \/ B2 = Append(B, m), NEW c2, c => c2
  PROVE  Edge(t, s, h, g, K, X, A, B2, c2)
<1>1. Cut(t, B) \subseteq Cut(t, B2)
  <2>1. Cut(t, B) \subseteq Cut(t, Append(B, m))
    BY OneMore
  <2>. QED BY <2>1
<1>2. X \subseteq X /\ X \cap Cut(t, B) \subseteq Cut(t, B2)
  BY <1>1
<1>. QED BY ONLY <1>2, g \in States, Edge(t, s, h, g, K, X, A, B, c), c => c2, EdgeLater

(* What t sends to the servers that it has passed, about no server         *)
LEMMA EdgeTold ==
  ASSUME NEW t, NEW s, NEW h, NEW g \in States, NEW K, NEW X, NEW M, NEW A \in Seq(M), NEW B, NEW c,
         Edge(t, s, h, g, K, X, A, B, c),
         NEW m, m # EOF, m.t \notin {"PASS", "SERVER", "SID", "SQUIT"},
         NEW A2, A2 = A \/ (g \in Passed /\ h # "no" /\ A2 = Append(A, m))
  PROVE  Edge(t, s, h, g, K, X, A2, B, c)
BY EdgeOther DEF Passed

(* ... about a new server                                                  *)
LEMMA EdgeToldSid ==
  ASSUME NEW t, NEW s, NEW h, NEW g \in States, NEW K, NEW X, NEW M, NEW A \in Seq(M), NEW B, NEW c,
         Edge(t, s, h, g, K, X, A, B, c),
         NEW m, m # EOF, m.t = "SID", h # "no" => Announce(s, t, m),
         NEW A2, A2 = IF g \in Passed /\ h # "no" THEN Append(A, m) ELSE A
  PROVE  Edge(t, s, h, g, K, X \cup {m.sid}, A2, B, c)
<1>1. CASE h = "no"
  BY <1>1, EdgeIdle
<1>2. CASE h # "no" /\ g \in Passed
  BY <1>2, EdgeSid
<1>3. CASE h # "no" /\ g \notin Passed
  <2>1. X \subseteq X \cup {m.sid} /\ g # "on" /\ A2 = A
    BY <1>3 DEF Passed
  <2>. QED BY <2>1, EdgeLater
<1>. QED BY <1>1, <1>2, <1>3

(* ... about a server that is removed                                      *)
LEMMA EdgeToldSquit ==
  ASSUME NEW t, NEW s, NEW h, NEW g \in States, NEW K, NEW X, NEW M, NEW A \in Seq(M), NEW B, NEW c,
         Edge(t, s, h, g, K, X, A, B, c), h # "no" => t \in X,
         NEW y, y \notin {s, t},
         NEW A2, A2 = IF g \in Passed /\ h # "no" THEN Append(A, SQUIT(y)) ELSE A
  PROVE  Edge(t, s, h, g, K, X \ Beyond(t, y), A2, B, c)
<1>1. CASE h = "no"
  BY <1>1, EdgeIdle
<1>2. CASE h # "no" /\ g \in Passed
  <2>1. SQUIT(y) # EOF /\ SQUIT(y).t = "SQUIT" /\ SQUIT(y).sid = y
    BY DEF SQUIT, EOF
  <2>. QED BY <1>2, <2>1, EdgeSquit
<1>3. CASE h # "no" /\ g \notin Passed
  <2>1. t \in X \ Beyond(t, y) /\ g # "on" /\ A2 = A
    BY <1>3, NotBeyond DEF Passed
  <2>. QED BY <1>3, <2>1, EdgeLater
<1>. QED BY <1>1, <1>2, <1>3

(* s removes a server, and tells of it those it has passed.                *)
LEMMA EdgeForgets ==
  ASSUME NEW t, NEW s, NEW h \in States, NEW g \in States, NEW K, NEW X, NEW M, NEW A \in Seq(M),
         NEW B \in Seq(M), NEW c,
         Edge(t, s, h, g, K, X, A, B, c), h \notin Passed => K = {},
         NEW y, y \notin {s, t},
         NEW B2, B2 = IF h \in Passed /\ g # "no" THEN Append(B, SQUIT(y)) ELSE B
  PROVE  Edge(t, s, h, g, K \ Beyond(s, y), X, A, B2, c)
<1>1. CASE h = "no"
  BY <1>1, EdgeIdle
<1>2. CASE g = "no"
  BY <1>2 DEF Edge
<1>3. CASE h # "no" /\ g # "no" /\ h \notin Passed
  <2>1. K \ Beyond(s, y) = K
    BY <1>3
  <2>. QED BY <1>3, <2>1
<1>4. CASE h \in Passed /\ g # "no"
  <2>1. SQUIT(y).t = "SQUIT" /\ SQUIT(y).sid = y
    BY DEF SQUIT
  <2>2. Cut(t, B2) = Cut(t, B) \cup Beyond(t, y)
    BY <1>4, <2>1, OneMore
  <2>. QED BY <1>4, <2>2, EdgeForget DEF Passed
<1>. QED BY <1>1, <1>2, <1>3, <1>4

(* Two lines                                                               *)
LEMMA TwoLines == ASSUME NEW S, NEW p \in S, NEW v \in S PROVE <<p>> \o <<v>> = <<p, v>>
<1>1. PICK P : P = <<p>>
  OBVIOUS
<1>2. PICK V : V = <<v>>
  OBVIOUS
<1>3. P \in Seq(S) /\ V \in Seq(S) /\ Len(P) = 1 /\ Len(V) = 1 /\ P[1] = p /\ V[1] = v
  BY <1>1, <1>2
<1>4. PICK Q : Q = P \o V
  OBVIOUS
<1>5. Q \in Seq(S) /\ Len(Q) = 2 /\ Q[1] = p /\ Q[2] = v
  <2>1. P \in Seq(S) /\ V \in Seq(S)
    BY <1>3
  <2>2. /\ P \o V \in Seq(S) /\ Len(P \o V) = Len(P) + Len(V)
        /\ \A i \in 1 .. Len(P) + Len(V) : (P \o V)[i] = IF i <= Len(P) THEN P[i] ELSE V[i - Len(P)]
    BY ONLY <2>1, ConcatProperties
  <2>3. Q \in Seq(S) /\ Len(Q) = 2
    BY <1>3, <1>4, <2>2
  <2>4. \A i \in 1..2 : Q[i] = IF i <= 1 THEN P[i] ELSE V[i - 1]
    BY <1>3, <1>4, <2>2
  <2>5. Q[1] = P[1] /\ Q[2] = V[1]
    BY <2>4
  <2>. QED BY <1>3, <2>3, <2>5
<1>6. PICK R : R = <<p, v>>
  OBVIOUS
<1>7. R \in Seq(S) /\ Len(R) = 2 /\ R[1] = p /\ R[2] = v
  BY <1>6
<1>8. Q = R
  BY ONLY <1>5, <1>7, SeqEqual
<1>. QED BY <1>1, <1>2, <1>4, <1>6, <1>8

(* u_server_burst_1 and u_server_burst_2                                   *)
LEMMA EdgeBurst ==
  ASSUME NEW t, NEW s, NEW h, h # "no", NEW g \in {"outPass", "inPass"}, NEW K, NEW X,
         NEW M, NEW A \in Seq(M), NEW B, NEW c, Edge(t, s, h, g, K, X, A, B, c),
         t \in X, PASS \in M, SERVER \in M,
         NEW D \in Seq(M), Announces(s, t, D), NEW B2,
         \A i \in DOMAIN D : D[i] # EOF /\ D[i].t \notin {"PASS", "SERVER", "SQUIT"},
         \A i \in DOMAIN D : D[i].t = "SID" => D[i].sid \in X,
         \A x \in X \ {t} : \E i \in DOMAIN D : D[i].t = "SID" /\ D[i].sid = x
  PROVE  Edge(t, s, h, "on", K, X,
              A \o ((IF g = "inPass" THEN <<PASS, SERVER>> ELSE << >>) \o D), B2, c)
<1>0. \A a, k : View(a, k).h = a /\ View(a, k).k = k /\ View(a, k).dead = FALSE
  BY DEF View
<1>1. Adj(s, t) /\ Announces(s, t, A) /\ Going(s, t, A)
  BY DEF Edge
<1>2. PICK w : Ends(s, t, View(h, K), A, w) /\ Fit(t, h, g, X, Cut(t, B), c, w)
  BY DEF Edge
<1>3. CASE g = "outPass"
  <2>1. w.dead \/ (w.h = "on" /\ t \in w.k /\ (c \/ w.k \subseteq X))
    BY <1>2, <1>3 DEF Fit
  <2>2. A \o (<< >> \o D) = A \o D
    OBVIOUS
  <2>3. Edge(t, s, h, "on", K, X, A \o D, B2, c)
    BY <1>1, <1>2, <2>1, EdgeNames
  <2>. QED BY <1>3, <2>2, <2>3
<1>4. CASE g = "inPass"
  <2>1. w = View("out", {}) /\ ~Registers(A)
    BY <1>2, <1>4 DEF Fit, Edge
  <2>2. /\ PASS.t = "PASS" /\ SERVER.t = "SERVER" /\ PASS # EOF /\ SERVER # EOF
    BY DEF PASS, SERVER, EOF
  <2>3. Announce(s, t, PASS) /\ Announce(s, t, SERVER)
    BY <2>2 DEF Announce
  <2>4. Step(s, t, w, PASS) = View("outPass", {t})
    BY <1>0, <2>1, <2>2 DEF Step
  <2>5. Step(s, t, View("outPass", {t}), SERVER) = View("on", {t})
    BY <1>0, <2>2 DEF Step
  <2>6. PICK p, v : p = PASS /\ v = SERVER
    OBVIOUS
  <2>7. PICK A1 : A1 = Append(A, p)
    OBVIOUS
  <2>8. A1 \in Seq(M) /\ p \in M /\ v \in M
    BY <2>6, <2>7
  <2>9. Ends(s, t, View(h, K), A1, View("outPass", {t})) /\ Announces(s, t, A1) /\ Going(s, t, A1)
    BY <1>1, <1>2, <2>2, <2>3, <2>4, <2>6, <2>7, EndsAppend, OneMore
  <2>10. PICK A2 : A2 = Append(A1, v)
    OBVIOUS
  <2>11. A2 \in Seq(M)
    BY <2>8, <2>10
  <2>12. Ends(s, t, View(h, K), A2, View("on", {t})) /\ Announces(s, t, A2) /\ Going(s, t, A2)
    BY <1>1, <2>2, <2>3, <2>5, <2>6, <2>8, <2>9, <2>10, EndsAppend, OneMore
  <2>13. Edge(t, s, h, "on", K, X, A2 \o D, B2, c)
    <3>1. PICK u : u = View("on", {t})
      OBVIOUS
    <3>2. u.h = "on" /\ t \in u.k /\ u.k \subseteq X
      BY <1>0, <3>1
    <3>. QED BY <1>1, <2>11, <2>12, <3>1, <3>2, EdgeNames
  <2>14. A \o (<<p, v>> \o D) = A2 \o D
    <3>1. A2 = A \o <<p, v>>
      <4>1. <<p>> \in Seq(M) /\ <<v>> \in Seq(M)
        BY <2>8
      <4>2. A1 = A \o <<p>>
        BY ONLY <2>7, <2>8, A \in Seq(M), AppendIsConcat
      <4>3. A2 = A1 \o <<v>>
        BY ONLY <2>8, <2>10, AppendIsConcat
      <4>4. PICK P : P = <<p>>
        OBVIOUS
      <4>5. PICK V : V = <<v>>
        OBVIOUS
      <4>6. P \in Seq(M) /\ V \in Seq(M)
        BY <4>1, <4>4, <4>5
      <4>7. (A \o P) \o V = A \o (P \o V)
        BY <4>6
      <4>8. P \o V = <<p, v>>
        <5>1. <<p>> \o <<v>> = <<p, v>>
          BY ONLY <2>8, TwoLines
        <5>. QED BY ONLY <4>4, <4>5, <5>1
      <4>. QED BY ONLY <4>2, <4>3, <4>4, <4>5, <4>7, <4>8
    <3>2. <<p, v>> \in Seq(M)
      BY <2>8
    <3>3. PICK P \in Seq(M) : P = <<p, v>>
      BY <3>2
    <3>4. (A \o P) \o D = A \o (P \o D)
      OBVIOUS
    <3>. QED BY <3>1, <3>3, <3>4
  <2>. QED BY <1>4, <2>6, <2>13, <2>14
<1>. QED BY <1>3, <1>4

-----------------------------------------------------------------------------
(* The invariant.                                                          *)
\* The ways from q to a and from a to q, when a has the tables st and the links
\* row, and w is under way
EdgeIn(q, a, st, row, w, c) ==
  Edge(q, a, row[q], link[q][a], Heard(a, q, st), Told(q, a, srv[q], link[q]),
       w[<<q, a>>], w[<<a, q>>], c)
EdgeOut(q, a, st, row, w, c) ==
  Edge(a, q, link[q][a], row[q], Heard(q, a, srv[q]), Told(a, q, st, row),
       w[<<a, q>>], w[<<q, a>>], c)
Both(q, a, st, row, w, c) == EdgeIn(q, a, st, row, w, c) /\ EdgeOut(q, a, st, row, w, c)

\* The tables and links of every server that runs, and every way, are right.
NetInv ==
  /\ \A s \in alive : Rooted(s, srv[s], link[s])
  /\ \A s \in Servers \ alive, t \in Servers : link[s][t] = "no"
  /\ \A s, t \in Servers : s # t => EdgeIn(t, s, srv[s], link[s], wire, crossed)

\* What is under way to and from the other servers is as before.
Elsewhere(a, w) == \A s, t \in Servers \ {a} : s # t => w[<<s, t>>] = wire[<<s, t>>]

(* What is known of a state                                                *)
LEMMA StateParts ==
  ASSUME IInv, NetInv
  PROVE  /\ wire \in WireType(gone) /\ alive \subseteq Servers /\ link \in LinkType
         /\ \A s, t \in Servers : link[s][t] \in States /\ link[s] \in Rows
         /\ \A s, t \in Servers : link[s][t] # "no" => s \in alive
         /\ \A s \in Servers : srv[s].parent \in ParentType /\ NoOrphans(s, srv[s])
         /\ \A s \in alive : Sound(s, srv[s], link[s])
         /\ \A a, q \in Servers : a # q => Both(q, a, srv[a], link[a], wire, crossed)
         /\ \A s, t \in Servers : s # t => wire[<<s, t>>] \in Seq(Sent(gone))
<1>1. /\ wire \in WireType(gone) /\ alive \subseteq Servers /\ link \in LinkType
      /\ \A s \in Servers : Ok(s, srv[s], reg)
  BY Parts DEF Books
<1>2. \A s, t \in Servers : link[s][t] \in States /\ link[s] \in Rows
  BY <1>1 DEF LinkType, States, Rows
<1>3. \A s, t \in Servers : link[s][t] # "no" => s \in alive
  BY DEF NetInv
<1>4. \A s \in Servers : srv[s].parent \in ParentType /\ NoOrphans(s, srv[s])
  BY <1>1, TablesParts DEF Ok, Sane, ParentType
<1>5. \A s \in alive : Sound(s, srv[s], link[s])
  BY <1>1, <1>2, <1>4 DEF Sound, NetInv
<1>6. \A a, q \in Servers : a # q => Both(q, a, srv[a], link[a], wire, crossed)
  BY DEF NetInv, Both, EdgeIn, EdgeOut
<1>7. \A s, t \in Servers : s # t => wire[<<s, t>>] \in Seq(Sent(gone))
  <2>1. \A s, t \in Servers : s # t => <<s, t>> \in {x \in Servers \X Servers : x[1] # x[2]}
    OBVIOUS
  <2>. QED BY <1>1, <2>1 DEF WireType
<1>. QED BY <1>1, <1>2, <1>3, <1>4, <1>5, <1>6, <1>7

(* A step of a, by what it makes of the tables and links of a and of the   *)
(* ways to and from a                                                      *)
LEMMA Frame ==
  ASSUME IInv, NetInv, NEW a \in Servers, NEW st, NEW row, Become(a, st),
         link' = [link EXCEPT ![a] = row], alive' \ {a} = alive \ {a},
         a \in alive' => Rooted(a, st, row), a \notin alive' => \A t \in Servers : row[t] = "no",
         crossed => crossed', Elsewhere(a, wire'),
         \A q \in Servers \ {a} : Both(q, a, st, row, wire', crossed')
  PROVE  NetInv'
<1>1. /\ DOMAIN srv = Servers /\ DOMAIN link = Servers
  BY Parts DEF Books, LinkType
<1>2. srv'[a] = st /\ link'[a] = row
  BY <1>1 DEF Become
<1>3. \A s \in Servers : s # a => srv'[s] = srv[s] /\ link'[s] = link[s] /\ (s \in alive' <=> s \in alive)
  BY <1>1 DEF Become
<1>4. \A s \in alive' : Rooted(s, srv'[s], link'[s])
  BY <1>2, <1>3, StateParts DEF NetInv
<1>5. \A s \in Servers \ alive', t \in Servers : link'[s][t] = "no"
  BY <1>2, <1>3 DEF NetInv
<1>6. ASSUME NEW s \in Servers, NEW t \in Servers, s # t
      PROVE  Edge(t, s, link'[s][t], link'[t][s], Heard(s, t, srv'[s]), Told(t, s, srv'[t], link'[t]),
                  wire'[<<t, s>>], wire'[<<s, t>>], crossed')
  <2>1. CASE s = a
    BY <1>2, <1>3, <1>6, <2>1 DEF Both, EdgeIn
  <2>2. CASE t = a
    BY <1>2, <1>3, <1>6, <2>2 DEF Both, EdgeOut
  <2>3. CASE s # a /\ t # a
    <3>1. /\ wire'[<<t, s>>] = wire[<<t, s>>] /\ wire'[<<s, t>>] = wire[<<s, t>>]
          /\ link'[s] = link[s] /\ link'[t] = link[t] /\ srv'[s] = srv[s] /\ srv'[t] = srv[t]
      BY <1>3, <1>6, <2>3 DEF Elsewhere
    <3>2. Edge(t, s, link[s][t], link[t][s], Heard(s, t, srv[s]), Told(t, s, srv[t], link[t]),
               wire[<<t, s>>], wire[<<s, t>>], crossed)
      BY <1>6 DEF NetInv, EdgeIn
    <3>3. link[t][s] \in States
      BY StateParts
    <3>4. PICK X, B : X = Told(t, s, srv[t], link[t]) /\ B = wire[<<s, t>>]
      OBVIOUS
    <3>5. X \subseteq X /\ X \cap Cut(t, B) \subseteq Cut(t, B)
      OBVIOUS
    <3>6. Edge(t, s, link[s][t], link[t][s], Heard(s, t, srv[s]), X, wire[<<t, s>>], B, crossed')
      BY <3>2, <3>3, <3>4, <3>5, EdgeLater
    <3>. QED BY <3>1, <3>4, <3>6
  <2>. QED BY <2>1, <2>2, <2>3
<1>. QED BY <1>4, <1>5, <1>6 DEF NetInv, EdgeIn

(* What is told to the other servers                                       *)
LEMMA TellLines ==
  ASSUME NEW left, NEW w \in WireType(left), NEW a, NEW st, NEW ex, NEW m,
         NEW s \in Servers, NEW t \in Servers, s # t
  PROVE  Tell(w, a, st, ex, m)[<<s, t>>]
           = IF s = a /\ st.parent[t] = a /\ t # ex /\ link[t][a] # "no"
             THEN Append(w[<<s, t>>], m) ELSE w[<<s, t>>]
<1>1. <<s, t>> \in DOMAIN w
  BY DEF WireType
<1>2. <<s, t>>[1] = s /\ <<s, t>>[2] = t
  OBVIOUS
<1>. QED BY <1>1, <1>2 DEF Tell, Peers

(* What is sent to one                                                     *)
LEMMA QueueLines ==
  ASSUME NEW left, NEW w \in WireType(left), NEW a, NEW b, a # b, NEW lines,
         NEW s \in Servers, NEW t \in Servers, s # t
  PROVE  Queue(w, a, b, lines)[<<s, t>>]
           = IF s = a /\ t = b /\ link[b][a] # "no" THEN w[<<s, t>>] \o lines ELSE w[<<s, t>>]
<1>1. <<s, t>> \in DOMAIN w
  BY DEF WireType
<1>2. <<s, t>> = <<a, b>> <=> s = a /\ t = b
  OBVIOUS
<1>. QED BY <1>1, <1>2 DEF Queue

(* The end of a connection                                                 *)
LEMMA ClosedLines ==
  ASSUME NEW left, NEW w \in WireType(left), NEW a, NEW b, a # b,
         NEW s \in Servers, NEW t \in Servers, s # t
  PROVE  Closed(w, a, b)[<<s, t>>]
           = IF s = b /\ t = a THEN << >>
             ELSE IF s = a /\ t = b
             THEN IF link[b][a] = "no" THEN << >> ELSE Append(w[<<s, t>>], EOF)
             ELSE w[<<s, t>>]
<1>1. <<s, t>> \in DOMAIN w
  BY DEF WireType
<1>2. (<<s, t>> = <<a, b>> <=> s = a /\ t = b) /\ (<<s, t>> = <<b, a>> <=> s = b /\ t = a)
  OBVIOUS
<1>3. <<a, b>> # <<b, a>>
  OBVIOUS
<1>. QED BY <1>1, <1>2, <1>3 DEF Closed

(* One way that has other lines                                            *)
LEMMA OtherLines ==
  ASSUME NEW left, NEW w \in WireType(left), NEW a, NEW b, NEW lines,
         NEW s \in Servers, NEW t \in Servers, s # t
  PROVE  [w EXCEPT ![<<a, b>>] = lines][<<s, t>>] = IF s = a /\ t = b THEN lines ELSE w[<<s, t>>]
<1>1. <<s, t>> \in DOMAIN w
  BY DEF WireType
<1>2. <<s, t>> = <<a, b>> <=> s = a /\ t = b
  OBVIOUS
<1>. QED BY <1>1, <1>2

\* A line that tells nothing of servers
Neutral(m) == m # EOF /\ m.t \notin {"PASS", "SERVER", "SID", "SQUIT"}
\* All ways to and from a
Ways(a, st, row, w, c) == \A q \in Servers \ {a} : Both(q, a, st, row, w, c)

(* Behind a server that is not known nobody is known.                      *)
LEMMA UnknownBeyond ==
  ASSUME NEW a \in Servers, NEW st, NEW row, Sound(a, st, row), NEW y, y # a, y \notin Known(st)
  PROVE  Known(st) \cap Beyond(a, y) = {}
<1> DEFINE T == {x \in Servers : x \notin Beyond(a, y)}
<1>1. a \in T
  BY NotBeyond
<1>2. ASSUME NEW x \in Known(st) \ {a}, st.parent[x] \in T PROVE x \in T
  <2>1. Adj(st.parent[x], x) /\ a \in Side(x, st.parent[x]) /\ x \in Servers /\ x # y
    BY DEF Sound, Rooted, Upward, Known
  <2>2. PICK p : p = st.parent[x]
    OBVIOUS
  <2>. QED BY <1>2, <2>1, <2>2, BeyondStep
<1>3. Known(st) \subseteq T
  <2> HIDE DEF T
  <2>. QED BY <1>1, <1>2, Chain DEF Sound, Rooted
<1>. QED BY <1>3

(* What is noted once stays noted.                                         *)
LEMMA WaysLater ==
  ASSUME IInv, NetInv, NEW a \in Servers, NEW left, NEW w \in WireType(left), NEW row \in Rows, NEW st,
         NEW c, NEW c2, c => c2, Ways(a, st, row, w, c)
  PROVE  Ways(a, st, row, w, c2)
<1>1. SUFFICES ASSUME NEW q \in Servers \ {a} PROVE Both(q, a, st, row, w, c2)
  BY DEF Ways
<1>2. link[q][a] \in States /\ row[q] \in States
  BY StateParts DEF Rows
<1>3. w[<<q, a>>] \in Seq(Sent(left)) /\ w[<<a, q>>] \in Seq(Sent(left))
  BY LineTyped, << >> \in Seq(Sent(left))
<1>4. EdgeIn(q, a, st, row, w, c) /\ EdgeOut(q, a, st, row, w, c)
  BY DEF Ways, Both
<1>5. EdgeIn(q, a, st, row, w, c2)
  BY <1>2, <1>3, <1>4, EdgeAnswer DEF EdgeIn
<1>6. EdgeOut(q, a, st, row, w, c2)
  BY <1>2, <1>3, <1>4, EdgeAnswer DEF EdgeOut
<1>. QED BY <1>5, <1>6 DEF Both

(* Tables with the same servers                                            *)
LEMMA WaysSame ==
  ASSUME NEW a, NEW st, NEW st2, st2.parent = st.parent, NEW row, NEW w, NEW c, Ways(a, st, row, w, c)
  PROVE  Ways(a, st2, row, w, c)
<1>1. \A q : Heard(a, q, st2) = Heard(a, q, st) /\ Told(a, q, st2, row) = Told(a, q, st, row)
  BY SameParents
<1>. QED BY <1>1 DEF Ways, Both, EdgeIn, EdgeOut

(* One more line to the other side                                         *)
LEMMA EdgeMore ==
  ASSUME NEW t, NEW s, NEW h, NEW g \in States, NEW K, NEW X, NEW A, NEW M, NEW B \in Seq(M), NEW c,
         Edge(t, s, h, g, K, X, A, B, c), NEW m, NEW B2, B2 = B \/ B2 = Append(B, m)
  PROVE  Edge(t, s, h, g, K, X, A, B2, c)
<1>1. Cut(t, B) \subseteq Cut(t, B2)
  <2>1. Cut(t, B) \subseteq Cut(t, Append(B, m))
    BY OneMore
  <2>. QED BY <2>1
<1>2. X \subseteq X /\ X \cap Cut(t, B) \subseteq Cut(t, B2)
  BY <1>1
<1>. QED BY ONLY <1>2, g \in States, Edge(t, s, h, g, K, X, A, B, c), EdgeLater

(* A line about no server is told to the others.                           *)
LEMMA TellKeepsWays ==
  ASSUME IInv, NetInv, NEW a \in alive, NEW left, NEW w \in WireType(left), NEW c,
         Ways(a, srv[a], link[a], w, c), Elsewhere(a, w),
         NEW sx, sx.parent = srv[a].parent, NEW ex, NEW m, Neutral(m), NEW w2, w2 = Tell(w, a, sx, ex, m)
  PROVE  Ways(a, srv[a], link[a], w2, c) /\ Elsewhere(a, w2)
<1>0. a \in Servers
  BY StateParts
<1>1. \A s, t \in Servers : s # t =>
        w2[<<s, t>>] = IF s = a /\ sx.parent[t] = a /\ t # ex /\ link[t][a] # "no"
                       THEN Append(w[<<s, t>>], m) ELSE w[<<s, t>>]
  BY TellLines
<1>2. Elsewhere(a, w2)
  BY <1>1 DEF Elsewhere
<1>3. ASSUME NEW q \in Servers \ {a}
      PROVE  Both(q, a, srv[a], link[a], w2, c)
  <2>1. link[q][a] \in States /\ link[a][q] \in States
    BY <1>0, StateParts
  <2>2. w[<<q, a>>] \in Seq(Sent(left)) /\ w[<<a, q>>] \in Seq(Sent(left))
    BY <1>0, LineTyped, << >> \in Seq(Sent(left))
  <2>3. EdgeIn(q, a, srv[a], link[a], w, c) /\ EdgeOut(q, a, srv[a], link[a], w, c)
    BY DEF Ways, Both
  <2>4. sx.parent[q] = a => link[a][q] \in Passed
    BY <1>0, StateParts DEF Sound, Rooted
  <2>5. w2[<<q, a>>] = w[<<q, a>>]
    BY <1>0, <1>1
  <2>6. \/ w2[<<a, q>>] = w[<<a, q>>]
        \/ w2[<<a, q>>] = Append(w[<<a, q>>], m) /\ link[a][q] \in Passed /\ link[q][a] # "no"
    BY <1>0, <1>1, <2>4
  <2>7. EdgeIn(q, a, srv[a], link[a], w2, c)
    <3>1. PICK B2 : B2 = w2[<<a, q>>]
      OBVIOUS
    <3>2. B2 = w[<<a, q>>] \/ B2 = Append(w[<<a, q>>], m)
      BY <2>6, <3>1
    <3>3. Edge(q, a, link[a][q], link[q][a], Heard(a, q, srv[a]), Told(q, a, srv[q], link[q]),
               w[<<q, a>>], B2, c)
      <4>1. Edge(q, a, link[a][q], link[q][a], Heard(a, q, srv[a]), Told(q, a, srv[q], link[q]),
                 w[<<q, a>>], w[<<a, q>>], c)
        BY <2>3 DEF EdgeIn
      <4>. QED BY ONLY <2>1, <2>2, <3>2, <4>1, EdgeMore
    <3>. QED BY <2>5, <3>1, <3>3 DEF EdgeIn
  <2>8. EdgeOut(q, a, srv[a], link[a], w2, c)
    BY <2>1, <2>2, <2>3, <2>5, <2>6, EdgeTold DEF EdgeOut, Neutral
  <2>. QED BY <2>7, <2>8 DEF Both
<1>. QED BY <1>2, <1>3 DEF Ways

(* The tables of a change, but not what it knows of servers.               *)
LEMMA NeutralStep ==
  ASSUME IInv, NetInv, NEW a \in alive, NEW st, Become(a, st), st.parent = srv[a].parent,
         link' = link, alive' = alive, crossed => crossed',
         NEW left, NEW w \in WireType(left), Ways(a, srv[a], link[a], w, crossed), Elsewhere(a, w),
         \/ wire' = w
         \/ \E sx, ex, m : wire' = Tell(w, a, sx, ex, m) /\ sx.parent = srv[a].parent /\ Neutral(m)
  PROVE  NetInv'
<1>0. a \in Servers /\ Sound(a, srv[a], link[a]) /\ link \in LinkType
  BY StateParts
<1>1. Ways(a, srv[a], link[a], w, crossed')
  BY <1>0, WaysLater DEF Sound
<1>2. Ways(a, srv[a], link[a], wire', crossed') /\ Elsewhere(a, wire')
  BY <1>1, TellKeepsWays
<1>3. Ways(a, st, link[a], wire', crossed')
  BY <1>2, WaysSame
<1>4. Rooted(a, st, link[a])
  BY <1>0, SameParents
<1>5. link' = [link EXCEPT ![a] = link[a]]
  BY <1>0 DEF LinkType
<1>. QED BY <1>0, <1>2, <1>3, <1>4, <1>5, Frame DEF Ways

(* A step of a on its own                                                  *)
LEMMA OwnStep ==
  ASSUME IInv, NetInv, NEW a \in alive, NEW st, Become(a, st), st.parent = srv[a].parent,
         link' = link, alive' = alive, crossed' = crossed,
         \/ wire' = wire
         \/ \E sx, m : wire' = Tell(wire, a, sx, None, m) /\ sx.parent = srv[a].parent /\ Neutral(m)
  PROVE  NetInv'
<1>1. a \in Servers /\ wire \in WireType(gone) /\ Ways(a, srv[a], link[a], wire, crossed)
  BY StateParts DEF Ways
<1>2. Elsewhere(a, wire)
  BY DEF Elsewhere
<1>. QED BY <1>1, <1>2, NeutralStep

\* What is under way but for the first line from t to a
Rest(t, a) == [wire EXCEPT ![<<t, a>>] = Tail(@)]

\* w is wire without its next line from t to a, which is m.
Pops(a, t, m, w) ==
  a # t /\ wire[<<t, a>>] # << >> /\ m = Head(wire[<<t, a>>]) /\ w = Rest(t, a)

\* What is so of the line m and of the lines w that are left
LineTaken(a, t, m, w) ==
  /\ w \in WireType(gone) /\ Elsewhere(a, w) /\ m \in Sent(gone)
  /\ a \in alive /\ link[a][t] # "no" /\ Adj(a, t) /\ Announce(a, t, m)
  /\ w[<<t, a>>] = Tail(wire[<<t, a>>]) /\ w[<<a, t>>] = wire[<<a, t>>]
  /\ \A q \in Servers \ {a, t} : Both(q, a, srv[a], link[a], w, crossed)
  /\ link[t][a] # "no" => m # EOF /\ (m.t = "SQUIT" => m.sid \notin {a, t})
  /\ m.t # "SQUIT" \/ link[a][t] # "on" \/ link[t][a] = "no" \/ Known(srv[a]) \cap Beyond(a, m.sid) = {}
       => EdgeOut(t, a, srv[a], link[a], w, crossed)

(* A line is taken from the way from t to a.                               *)
LEMMA Popped ==
  ASSUME IInv, NetInv, NEW a \in Servers, NEW t \in Servers, NEW m, NEW w, Pops(a, t, m, w)
  PROVE  LineTaken(a, t, m, w)
<1> DEFINE A == wire[<<t, a>>]
<1>0. a # t /\ A # << >> /\ m = Head(A) /\ w = Rest(t, a)
  BY DEF Pops
<1> USE <1>0
<1>1. link[a][t] \in States /\ link[t][a] \in States /\ wire \in WireType(gone) /\ link[a] \in Rows
  BY StateParts
<1>2. A \in Seq(Sent(gone)) /\ wire[<<a, t>>] \in Seq(Sent(gone)) /\ Tail(A) \in Seq(Sent(gone)) /\ m \in Sent(gone)
  BY StateParts
<1>3. PICK L : L = Tail(A)
  OBVIOUS
<1>4. w = [wire EXCEPT ![<<t, a>>] = L]
  BY <1>1, <1>3 DEF WireType, Rest
<1>5. ASSUME NEW x \in Servers, NEW y \in Servers, x # y
      PROVE  w[<<x, y>>] = IF x = t /\ y = a THEN L ELSE wire[<<x, y>>]
  <2>1. <<x, y>> \in DOMAIN wire
    BY <1>1, <1>5 DEF WireType
  <2>2. <<x, y>> = <<t, a>> <=> x = t /\ y = a
    OBVIOUS
  <2>. QED BY ONLY <1>4, <2>1, <2>2
<1>6. w \in WireType(gone)
  <2>1. L \in Seq(Sent(gone))
    BY <1>2, <1>3
  <2>2. a # t
    BY ONLY <1>0
  <2>. QED BY ONLY <1>1, <1>4, <2>1, <2>2, t \in Servers, a \in Servers, LineTyped
<1>7. Elsewhere(a, w)
  BY <1>5 DEF Elsewhere
<1>8. Both(t, a, srv[a], link[a], wire, crossed)
  BY StateParts
<1>9. Edge(t, a, link[a][t], link[t][a], Heard(a, t, srv[a]), Told(t, a, srv[t], link[t]), A, wire[<<a, t>>], crossed)
  BY <1>8 DEF Both, EdgeIn
<1>10. link[a][t] # "no" /\ Adj(a, t) /\ Announces(a, t, A) /\ (link[t][a] # "no" => Going(a, t, A))
  BY <1>9 DEF Edge
<1>11. a \in alive
  BY <1>10, StateParts
<1>12. Announce(a, t, m) /\ (link[t][a] # "no" => m # EOF /\ (m.t = "SQUIT" => m.sid \notin {a, t}))
  BY <1>2, <1>10, OneLess
<1>13. ASSUME NEW q \in Servers \ {a, t} PROVE Both(q, a, srv[a], link[a], w, crossed)
  <2>1. w[<<q, a>>] = wire[<<q, a>>] /\ w[<<a, q>>] = wire[<<a, q>>]
    BY <1>5
  <2>. QED BY <2>1, StateParts DEF Both, EdgeIn, EdgeOut
<1>14. w[<<t, a>>] = Tail(A) /\ w[<<a, t>>] = wire[<<a, t>>]
  BY <1>5, <1>3
<1>15. ASSUME m.t # "SQUIT" \/ link[a][t] # "on" \/ link[t][a] = "no" \/ Known(srv[a]) \cap Beyond(a, m.sid) = {}
       PROVE  EdgeOut(t, a, srv[a], link[a], w, crossed)
  <2>1. PICK X : X = Told(a, t, srv[a], link[a])
    OBVIOUS
  <2>2. Edge(a, t, link[t][a], link[a][t], Heard(t, a, srv[t]), X, wire[<<a, t>>], A, crossed)
    BY <1>8, <2>1 DEF Both, EdgeOut
  <2>3. CASE link[t][a] = "no"
    <3>1. wire[<<a, t>>] = << >>
      BY <2>2, <2>3, EdgeIdle
    <3>2. Edge(a, t, "no", link[a][t], Heard(t, a, srv[t]), X, wire[<<a, t>>], Tail(A), crossed)
      BY <2>2, <2>3, EdgeIdle
    <3>. QED BY <1>14, <2>1, <2>3, <3>2 DEF EdgeOut
  <2>4. CASE link[t][a] # "no"
    <3>1. Cut(a, A) = Cut(a, Tail(A)) \cup IF m.t = "SQUIT" THEN Beyond(a, m.sid) ELSE {}
      BY <1>2, OneLess
    <3>2. X \subseteq Known(srv[a])
      BY <2>1 DEF Told
    <3>3. CASE m.t # "SQUIT" \/ Known(srv[a]) \cap Beyond(a, m.sid) = {}
      <4>1. X \subseteq X /\ X \cap Cut(a, A) \subseteq Cut(a, Tail(A))
        BY <3>1, <3>2, <3>3
      <4>2. Edge(a, t, link[t][a], link[a][t], Heard(t, a, srv[t]), X, wire[<<a, t>>], Tail(A), crossed)
        BY ONLY <1>1, <2>2, <4>1, EdgeLater
      <4>. QED BY <1>14, <2>1, <4>2 DEF EdgeOut
    <3>4. CASE link[a][t] # "on"
      <4>1. X \subseteq X
        OBVIOUS
      <4>2. Edge(a, t, link[t][a], link[a][t], Heard(t, a, srv[t]), X, wire[<<a, t>>], Tail(A), crossed)
        BY ONLY <1>1, <2>2, <3>4, <4>1, EdgeLater
      <4>. QED BY <1>14, <2>1, <4>2 DEF EdgeOut
    <3>. QED BY <1>15, <2>4, <3>3, <3>4
  <2>. QED BY <2>3, <2>4
<1>. QED BY <1>2, <1>6, <1>7, <1>10, <1>11, <1>12, <1>13, <1>14, <1>15 DEF LineTaken

(* The names of lines                                                      *)
LEMMA NamesOfLines ==
  /\ PASS.t = "PASS" /\ SERVER.t = "SERVER" /\ EOF.t = "EOF"
  /\ \A s, p : SID(s, p).t = "SID" /\ SID(s, p).src = s /\ SID(s, p).sid = p /\ SID(s, p) # EOF
  /\ \A s : SQUIT(s).t = "SQUIT" /\ SQUIT(s).sid = s /\ SQUIT(s) # EOF
  /\ \A u, n : Neutral(EUID(u, n)) /\ Neutral(NICK(u, n))
  /\ \A u : Neutral(QUIT(u)) /\ Neutral(KILL(u)) /\ Neutral(JOIN(u)) /\ Neutral(PART(u))
  /\ \A ts, on, who : Neutral(TMODE(ts, on, who))
  /\ \A c, who : Neutral(SJOIN(c, who))
BY DEF PASS, SERVER, EOF, SID, SQUIT, EUID, NICK, QUIT, KILL, JOIN, PART, TMODE, SJOIN, Neutral

(* Changes of the tables that leave the servers                            *)
LEMMA SameServers ==
  ASSUME NEW st \in Tables
  PROVE  /\ \A u \in Users, n \in Nicks : SetNick(st, u, n).parent = st.parent
         /\ \A us \in SUBSET Users : /\ ChanAdd(st, us).parent = st.parent
                                     /\ ChanDel(st, us).parent = st.parent
                                     /\ Destroy(st, us).parent = st.parent
         /\ \A s, n : Override(st, s, n).parent = st.parent
         /\ \A c : [st EXCEPT !.chan = c].parent = st.parent
         /\ \A us : [st EXCEPT !.here = @ \cup us].parent = st.parent
BY DEF Tables, SetNick, ChanAdd, ChanDel, Destroy, Override

\* A link in state h has no use for the line, or it is not about servers.
Useless(h, m) ==
  /\ m # EOF
  /\ h \in {"out", "in"} => m.t # "PASS"
  /\ h \in {"outPass", "inPass"} => m.t # "SERVER"
  /\ h = "on" => m.t \notin {"SID", "SQUIT"}

(* ... and leaves what a server knows of the others.                       *)
LEMMA UselessStep ==
  ASSUME NEW s, NEW t, NEW h \in States \ {"no"}, NEW k \in SUBSET Side(s, t), NEW m, Useless(h, m)
  PROVE  Step(s, t, View(h, k), m) = View(h, k)
BY ViewTyped, StepCases DEF Useless, States

(* The first line changes nothing.                                         *)
LEMMA PoppedWays ==
  ASSUME IInv, NetInv, NEW a \in Servers, NEW t \in Servers, a # t, wire[<<t, a>>] # << >>,
         NEW m, m = Head(wire[<<t, a>>]), NEW w, w = Rest(t, a),
         m # EOF, NEW k, k = Heard(a, t, srv[a]),
         Step(a, t, View(link[a][t], k), m) = View(link[a][t], k),
         m.t # "SQUIT" \/ link[a][t] # "on" \/ Known(srv[a]) \cap Beyond(a, m.sid) = {}
  PROVE  Ways(a, srv[a], link[a], w, crossed)
<1>0. LineTaken(a, t, m, w)
  <2>1. Pops(a, t, m, w)
    BY DEF Pops
  <2>. QED BY ONLY IInv, NetInv, a \in Servers, t \in Servers, <2>1, Popped
<1>1. /\ link[a][t] # "no" /\ w[<<t, a>>] = Tail(wire[<<t, a>>]) /\ w[<<a, t>>] = wire[<<a, t>>]
      /\ \A q \in Servers \ {a, t} : Both(q, a, srv[a], link[a], w, crossed)
      /\ EdgeOut(t, a, srv[a], link[a], w, crossed)
  BY <1>0 DEF LineTaken
<1>2. Edge(t, a, link[a][t], link[t][a], k, Told(t, a, srv[t], link[t]), wire[<<t, a>>], wire[<<a, t>>], crossed)
  BY StateParts DEF Both, EdgeIn
<1>3. wire[<<t, a>>] \in Seq(Sent(gone)) /\ link[t][a] \in States
  BY StateParts
<1>4. Edge(t, a, link[a][t], link[t][a], k, Told(t, a, srv[t], link[t]), Tail(wire[<<t, a>>]), wire[<<a, t>>], crossed)
  BY <1>1, <1>2, <1>3, EdgeHandled
<1>5. Both(t, a, srv[a], link[a], w, crossed)
  BY <1>1, <1>4 DEF Both, EdgeIn
<1>. QED BY <1>1, <1>5 DEF Ways

(* A line that is not about servers                                        *)
LEMMA HandledStep ==
  ASSUME IInv, NetInv, NEW a \in Servers, NEW t \in Servers, a # t, wire[<<t, a>>] # << >>,
         NEW m, m = Head(wire[<<t, a>>]), NEW w, w = Rest(t, a),
         Useless(link[a][t], m),
         NEW st, srv' = srv \/ Become(a, st), st.parent = srv[a].parent,
         link' = link, alive' = alive, crossed => crossed',
         \/ wire' = w
         \/ \E sx, ex, n : wire' = Tell(w, a, sx, ex, n) /\ sx.parent = srv[a].parent /\ Neutral(n)
  PROVE  NetInv'
<1>0. LineTaken(a, t, m, w)
  <2>1. Pops(a, t, m, w)
    BY DEF Pops
  <2>. QED BY ONLY IInv, NetInv, a \in Servers, t \in Servers, <2>1, Popped
<1>1. /\ w \in WireType(gone) /\ Elsewhere(a, w) /\ a \in alive /\ link[a][t] # "no" /\ Adj(a, t)
  BY <1>0 DEF LineTaken
<1>2. link[a][t] \in States
  BY StateParts
<1>3. PICK k : k = Heard(a, t, srv[a])
  OBVIOUS
<1>4. k \in SUBSET Side(a, t)
  BY <1>3 DEF Heard
<1>5. Step(a, t, View(link[a][t], k), m) = View(link[a][t], k)
  <2>1. link[a][t] \in States \ {"no"} /\ Useless(link[a][t], m)
    BY <1>1, <1>2
  <2>. QED BY ONLY <1>4, <2>1, UselessStep
<1>6. m # EOF /\ (m.t # "SQUIT" \/ link[a][t] # "on")
  BY DEF Useless
<1>7. Ways(a, srv[a], link[a], w, crossed)
  BY <1>3, <1>5, <1>6, PoppedWays
<1>8. PICK s2 : Become(a, s2) /\ s2.parent = srv[a].parent
  BY Parts DEF Become
<1>. QED BY ONLY IInv, NetInv, <1>1, <1>7, <1>8, link' = link, alive' = alive, crossed => crossed',
            \/ wire' = w
            \/ \E sx, ex, n : wire' = Tell(w, a, sx, ex, n) /\ sx.parent = srv[a].parent /\ Neutral(n),
            NeutralStep

(* A user arrives.                                                         *)
LEMMA HereTables ==
  ASSUME NEW st \in Tables, NEW u \in Users
  PROVE  [st EXCEPT !.here = @ \cup {u}] \in Tables /\ [st EXCEPT !.here = @ \cup {u}].parent = st.parent
BY DEF Tables

(* What users and operators do tells nobody of a server.                   *)
LEMMA UserSteps ==
  ASSUME IInv, NetInv, NEW u \in Users,
         \/ \E n \in Nicks : FirstNickLine(u, n) \/ Nick(u, n)
         \/ UserLine(u) \/ Quit(u) \/ Join(u) \/ Part(u)
         \/ \E s \in Servers : Kill(s, u)
         \/ \E on \in BOOLEAN, who \in Users \cup {None} : Mode(u, on, who)
  PROVE  NetInv'
<1>1. PICK a : a = Home[u]
  OBVIOUS
<1>2. a \in Servers /\ srv[a] \in Tables
  BY <1>1, Parts, NetAssumption
<1>3. ASSUME NEW n \in Nicks, FirstNickLine(u, n) PROVE NetInv'
  <2>1. PICK s1 : s1 = [srv[a] EXCEPT !.here = @ \cup {u}]
    OBVIOUS
  <2>2. s1 \in Tables /\ s1.parent = srv[a].parent
    BY <1>2, <2>1, HereTables
  <2>3. PICK st : st = SetNick(s1, u, n)
    OBVIOUS
  <2>4. st.parent = srv[a].parent
    BY <2>2, <2>3, SameServers
  <2>5. a \in alive /\ Become(a, st) /\ SameLinks /\ TryRegister(a, st, u, u \in ready)
    BY <1>1, <1>3, <2>1, <2>3 DEF FirstNickLine
  <2>6. wire' = wire \/ wire' = Tell(wire, a, st, None, EUID(u, st.nick[u]))
    BY <2>5 DEF TryRegister
  <2>7. Neutral(EUID(u, st.nick[u]))
    BY NamesOfLines
  <2>. QED BY <2>4, <2>5, <2>6, <2>7, OwnStep DEF SameLinks
<1>4. ASSUME UserLine(u) PROVE NetInv'
  <2>1. PICK st : st = [srv[a] EXCEPT !.here = @ \cup {u}]
    OBVIOUS
  <2>2. st.parent = srv[a].parent
    BY <1>2, <2>1, HereTables
  <2>3. a \in alive /\ Become(a, st) /\ SameLinks /\ TryRegister(a, st, u, TRUE)
    BY <1>1, <1>4, <2>1 DEF UserLine
  <2>4. wire' = wire \/ wire' = Tell(wire, a, st, None, EUID(u, st.nick[u]))
    BY <2>3 DEF TryRegister
  <2>5. Neutral(EUID(u, st.nick[u]))
    BY NamesOfLines
  <2>. QED BY <2>2, <2>3, <2>4, <2>5, OwnStep DEF SameLinks
<1>5. ASSUME NEW n \in Nicks, Nick(u, n) PROVE NetInv'
  <2>1. PICK st, m : st = SetNick(srv[a], u, n) /\ m = NICK(u, n)
    OBVIOUS
  <2>2. st.parent = srv[a].parent /\ Neutral(m)
    BY <1>2, <2>1, SameServers, NamesOfLines
  <2>3. a \in alive /\ Become(a, st) /\ SameLinks /\ wire' = Tell(wire, a, srv[a], None, m)
    BY <1>1, <1>5, <2>1 DEF Nick, Active
  <2>. QED BY <2>2, <2>3, OwnStep DEF SameLinks
<1>6. ASSUME Quit(u) PROVE NetInv'
  <2>1. PICK st, m : st = Destroy(srv[a], {u}) /\ m = QUIT(u)
    OBVIOUS
  <2>2. st.parent = srv[a].parent /\ Neutral(m)
    BY <1>2, <2>1, SameServers, NamesOfLines
  <2>3. a \in alive /\ Become(a, st) /\ SameLinks /\ wire' = Tell(wire, a, srv[a], None, m)
    BY <1>1, <1>6, <2>1 DEF Quit
  <2>. QED BY <2>2, <2>3, OwnStep DEF SameLinks
<1>7. ASSUME Join(u) PROVE NetInv'
  <2>1. a \in alive /\ SameLinks
    BY <1>1, <1>7 DEF Join, Active
  <2>2. CASE srv[a].chan.there
    <3>1. PICK st : st = ChanAdd(srv[a], {u})
      OBVIOUS
    <3>2. st.parent = srv[a].parent
      BY <1>2, <3>1, SameServers
    <3>3. PICK m : Neutral(m) /\ Become(a, st) /\ wire' = Tell(wire, a, st, None, m)
      BY <1>1, <1>7, <2>2, <3>1, NamesOfLines DEF Join
    <3>. QED BY <2>1, <3>2, <3>3, OwnStep DEF SameLinks
  <2>3. CASE ~srv[a].chan.there
    <3>1. PICK new : /\ Become(a, [srv[a] EXCEPT !.chan = new])
                     /\ wire' = Tell(wire, a, srv[a], None, SJOIN(new, {u}))
      BY <1>1, <1>7, <2>3 DEF Join
    <3>2. PICK st, m : st = [srv[a] EXCEPT !.chan = new] /\ m = SJOIN(new, {u})
      OBVIOUS
    <3>3. st.parent = srv[a].parent /\ Neutral(m)
      BY <1>2, <3>2, SameServers, NamesOfLines
    <3>. QED BY <2>1, <3>1, <3>2, <3>3, OwnStep DEF SameLinks
  <2>. QED BY <2>2, <2>3
<1>8. ASSUME Part(u) PROVE NetInv'
  <2>1. PICK st, m : st = ChanDel(srv[a], {u}) /\ m = PART(u)
    OBVIOUS
  <2>2. st.parent = srv[a].parent /\ Neutral(m)
    BY <1>2, <2>1, SameServers, NamesOfLines
  <2>3. a \in alive /\ Become(a, st) /\ SameLinks /\ wire' = Tell(wire, a, srv[a], None, m)
    BY <1>1, <1>8, <2>1 DEF Part, Active
  <2>. QED BY <2>2, <2>3, OwnStep DEF SameLinks
<1>9. ASSUME NEW s \in Servers, Kill(s, u) PROVE NetInv'
  <2>1. PICK st, m : st = Destroy(srv[s], {u}) /\ m = KILL(u)
    OBVIOUS
  <2>2. st.parent = srv[s].parent /\ Neutral(m)
    BY <2>1, SameServers, NamesOfLines, Parts
  <2>3. s \in alive /\ Become(s, st) /\ wire' = Tell(wire, s, srv[s], None, m)
        /\ link' = link /\ alive' = alive /\ crossed' = crossed
    BY <1>9, <2>1 DEF Kill, KillAt
  <2>. QED BY <2>2, <2>3, OwnStep
<1>10. ASSUME NEW on \in BOOLEAN, NEW who \in Users \cup {None}, Mode(u, on, who) PROVE NetInv'
  <2>1. PICK st, m : st = [srv[a] EXCEPT !.chan = Changed(srv[a].chan, on, who)]
                     /\ m = TMODE(srv[a].chan.ts, on, who)
    OBVIOUS
  <2>2. st.parent = srv[a].parent /\ Neutral(m)
    BY <1>2, <2>1, SameServers, NamesOfLines
  <2>3. a \in alive /\ Become(a, st) /\ SameLinks /\ wire' = Tell(wire, a, srv[a], None, m)
    BY <1>1, <1>10, <2>1 DEF Mode, Active
  <2>. QED BY <2>2, <2>3, OwnStep DEF SameLinks
<1>. QED BY <1>3, <1>4, <1>5, <1>6, <1>7, <1>8, <1>9, <1>10

(* Lines about users and the channel tell of no server either; a line that *)
(* is not in its place is refused.                                         *)
LEMMA UserLines ==
  ASSUME IInv, NetInv, NEW a \in Servers, NEW t \in Servers, a # t, wire[<<t, a>>] # << >>,
         NEW m, m = Head(wire[<<t, a>>]), NEW w, w = Rest(t, a),
         Useless(link[a][t], m), Handle(a, t, w, m),
         (m.t = "NICK" /\ link[a][t] = "on") => m.u \in srv[a].here
  PROVE  NetInv'
<1>1. srv[a] \in Tables /\ link[a][t] \in States
  BY Parts, StateParts
<1>0. LineTaken(a, t, m, w)
  <2>1. Pops(a, t, m, w)
    BY DEF Pops
  <2>. QED BY ONLY IInv, NetInv, a \in Servers, t \in Servers, <2>1, Popped
<1>2. m \in Messages
  <2>1. m \in Sent(gone)
    BY <1>0 DEF LineTaken
  <2>. QED BY <2>1 DEF Sent
<1>3. ASSUME Ignore(w) PROVE NetInv'
  BY <1>3, HandledStep DEF Ignore, SameLinks
<1>4. ASSUME NEW st, NEW n, Pass(a, t, w, st, n), st.parent = srv[a].parent, Neutral(n) PROVE NetInv'
  BY <1>4, HandledStep DEF Pass, SameLinks
<1>5. CASE link[a][t] # "on"
  <2>1. Ignore(w) \/ HandleRegistered(a, t, w, m)
    BY <1>5 DEF Handle, Useless
  <2>2. link[a][t] # "no"
    BY <1>0 DEF LineTaken
  <2>3. Ignore(w)
    BY <1>1, <1>5, <2>2 DEF Handle, Useless, States
  <2>. QED BY <1>3, <2>3
<1>6. CASE link[a][t] = "on"
  <2>0. HandleRegistered(a, t, w, m) /\ m.t \notin {"SID", "SQUIT"}
    BY <1>6 DEF Handle, Useless
  <2>1. CASE m.t = "EUID"
    <3>0. m.u \in Users /\ m.n \in Nicks
      BY <1>2, <2>1, Fields
    <3>1. HandleEuid(a, t, w, m)
      BY <2>0, <2>1 DEF HandleRegistered
    <3>2. PICK st : st = Override(srv[a], a, m.n)
      OBVIOUS
    <3>3. st \in Tables /\ st.parent = srv[a].parent
      BY <1>1, <3>0, <3>2, NetAssumption DEF Override, Tables
    <3>4. PICK s1 : s1 = [st EXCEPT !.here = @ \cup {m.u}]
      OBVIOUS
    <3>5. s1 \in Tables /\ s1.parent = srv[a].parent
      BY <3>0, <3>3, <3>4, HereTables
    <3>6. SetNick(s1, m.u, m.n).parent = srv[a].parent
      BY <3>0, <3>5, SameServers
    <3>7. PICK s3 : s3 = IF m.u \in st.here THEN st ELSE SetNick(s1, m.u, m.n)
      OBVIOUS
    <3>8. s3.parent = srv[a].parent
      BY <3>3, <3>6, <3>7
    <3>9. Ignore(w) \/ Pass(a, t, w, s3, m)
      BY <3>1, <3>2, <3>4, <3>7 DEF HandleEuid
    <3>10. Neutral(m)
      BY <2>1 DEF Neutral, EOF
    <3>. QED BY <1>3, <1>4, <3>8, <3>9, <3>10
  <2>2. CASE m.t = "NICK"
    <3>0. m.u \in Users /\ m.n \in Nicks /\ m.u \in srv[a].here
      BY <1>2, <1>6, <2>2, Fields
    <3>1. HandleNick(a, t, w, m)
      BY <2>0, <2>2 DEF HandleRegistered
    <3>2. PICK st : st = Override(srv[a], a, m.n)
      OBVIOUS
    <3>3. st \in Tables /\ st.parent = srv[a].parent
      BY <1>1, <3>0, <3>2, NetAssumption DEF Override, Tables
    <3>4. PICK s3 : s3 = SetNick(st, m.u, m.n)
      OBVIOUS
    <3>5. s3.parent = srv[a].parent
      BY <3>0, <3>3, <3>4, SameServers
    <3>6. Pass(a, t, w, s3, m) /\ Neutral(m)
      BY <2>2, <3>0, <3>1, <3>2, <3>4 DEF HandleNick, Neutral, EOF
    <3>. QED BY <1>4, <3>5, <3>6
  <2>3. CASE m.t = "QUIT"
    <3>1. Ignore(w) \/ Pass(a, t, w, Destroy(srv[a], {m.u}), m)
      BY <2>0, <2>3 DEF HandleRegistered, HandleQuit
    <3>2. Destroy(srv[a], {m.u}).parent = srv[a].parent /\ Neutral(m)
      BY <1>1, <1>2, <2>3, Fields, SameServers DEF Neutral, EOF
    <3>. QED BY <1>3, <1>4, <3>1, <3>2
  <2>4. CASE m.t = "KILL"
    <3>1. HandleKill(a, t, w, m)
      BY <2>0, <2>4 DEF HandleRegistered
    <3>2. PICK st, n : st = Destroy(srv[a], {m.u}) /\ n = KILL(m.u)
      OBVIOUS
    <3>3. st.parent = srv[a].parent /\ Neutral(n)
      BY <1>1, <1>2, <2>4, <3>2, Fields, SameServers, NamesOfLines
    <3>4. CASE m.u \in srv[a].here
      <4>1. /\ Become(a, st) /\ wire' = Tell(w, a, srv[a], t, n)
            /\ link' = link /\ alive' = alive /\ (crossed => crossed')
        BY <3>1, <3>2, <3>4 DEF HandleKill, KillAt
      <4>. QED BY <3>3, <4>1, HandledStep
    <3>5. CASE m.u \notin srv[a].here
      BY <1>3, <3>1, <3>5 DEF HandleKill
    <3>. QED BY <3>4, <3>5
  <2>5. CASE m.t = "JOIN"
    <3>1. Ignore(w) \/ Pass(a, t, w, ChanAdd(srv[a], {m.u}), m)
      BY <2>0, <2>5 DEF HandleRegistered, HandleJoin
    <3>2. m.u \in Users
      BY <1>2, <2>5, Fields
    <3>3. {m.u} \in SUBSET Users /\ srv[a] \in Tables
      BY <1>1, <3>2
    <3>4. ChanAdd(srv[a], {m.u}).parent = srv[a].parent
      BY ONLY <3>3, SameServers
    <3>5. Neutral(m)
      BY ONLY <2>5 DEF Neutral, EOF
    <3>. QED BY <1>3, <1>4, <3>1, <3>4, <3>5
  <2>6. CASE m.t = "PART"
    <3>1. Ignore(w) \/ Pass(a, t, w, ChanDel(srv[a], {m.u}), m)
      BY <2>0, <2>6 DEF HandleRegistered, HandlePart
    <3>2. m.u \in Users
      BY <1>2, <2>6, Fields
    <3>3. {m.u} \in SUBSET Users /\ srv[a] \in Tables
      BY <1>1, <3>2
    <3>4. ChanDel(srv[a], {m.u}).parent = srv[a].parent
      BY ONLY <3>3, SameServers
    <3>5. Neutral(m)
      BY ONLY <2>6 DEF Neutral, EOF
    <3>. QED BY <1>3, <1>4, <3>1, <3>4, <3>5
  <2>7. CASE m.t = "TMODE"
    <3>1. PICK st, n : st = [srv[a] EXCEPT !.chan = Changed(srv[a].chan, m.on, m.who)]
                       /\ n = TMODE(srv[a].chan.ts, m.on, m.who)
      OBVIOUS
    <3>2. st.parent = srv[a].parent /\ Neutral(n)
      BY <1>1, <3>1, SameServers, NamesOfLines
    <3>3. Ignore(w) \/ Pass(a, t, w, st, n)
      BY <2>0, <2>7, <3>1 DEF HandleRegistered, HandleTmode
    <3>. QED BY <1>3, <1>4, <3>2, <3>3
  <2>8. CASE m.t = "SJOIN"
    <3>1. HandleSjoin(a, t, w, m)
      BY <2>0, <2>8 DEF HandleRegistered
    <3>2. PICK c, who : /\ Become(a, [srv[a] EXCEPT !.chan = c])
                        /\ wire' = Tell(w, a, [srv[a] EXCEPT !.chan = c], t, SJOIN(c, who))
                        /\ UNCHANGED <<link, alive, crossed>>
      BY <3>1 DEF HandleSjoin
    <3>3. PICK st, n : st = [srv[a] EXCEPT !.chan = c] /\ n = SJOIN(c, who)
      OBVIOUS
    <3>4. st.parent = srv[a].parent /\ Neutral(n)
      BY <1>1, <3>3, SameServers, NamesOfLines
    <3>. QED BY <3>2, <3>3, <3>4, HandledStep
  <2>9. CASE m.t \notin {"SID", "EUID", "SQUIT", "NICK", "QUIT", "KILL", "JOIN", "PART", "TMODE", "SJOIN"}
    BY <1>3, <2>0, <2>9 DEF HandleRegistered
  <2>. QED BY <2>0, <2>1, <2>2, <2>3, <2>4, <2>5, <2>6, <2>7, <2>8, <2>9
<1>. QED BY <1>5, <1>6

(* A process ends.                                                         *)
LEMMA DieStep ==
  ASSUME IInv, NetInv, NEW a \in Servers, NEW w \in WireType(gone), Elsewhere(a, w),
         \A q \in Servers \ {a} : w[<<a, q>>] = wire[<<a, q>>], Die(a, w)
  PROVE  NetInv'
<1>0. DOMAIN w = {x \in Servers \X Servers : x[1] # x[2]} /\ link \in LinkType
  BY StateParts DEF WireType
<1>1. PICK k \in UNION {0..Len(w[x]) : x \in {y \in DOMAIN w : y[1] = a}} :
        wire' = [x \in DOMAIN w |->
                   IF x[2] = a THEN << >>
                   ELSE IF x[1] = a /\ link[x[2]][a] # "no"
                   THEN Append(SubSeq(w[x], 1, IF k < Len(w[x]) THEN k ELSE Len(w[x])), EOF)
                   ELSE w[x]]
  BY DEF Die
<1>2. k \in Nat
  <2>1. \A x \in DOMAIN w : Len(w[x]) \in Nat
    BY DEF WireType
  <2>. QED BY <1>1, <2>1
<1>3. PICK row : row = [t \in Servers |-> "no"]
  OBVIOUS
<1>4. link' = [link EXCEPT ![a] = row] /\ alive' = alive \ {a} /\ srv' = srv /\ crossed' = crossed
  BY <1>3 DEF Die
<1>5. ASSUME NEW x \in Servers, NEW y \in Servers, x # y
      PROVE  /\ y = a => wire'[<<x, y>>] = << >>
             /\ x = a /\ link[y][a] # "no"
                  => wire'[<<x, y>>] = Append(SubSeq(w[<<x, y>>], 1, IF k < Len(w[<<x, y>>]) THEN k ELSE Len(w[<<x, y>>])), EOF)
             /\ y # a /\ ~(x = a /\ link[y][a] # "no") => wire'[<<x, y>>] = w[<<x, y>>]
  <2>1. PICK z : z = <<x, y>>
    OBVIOUS
  <2>2. z \in DOMAIN w /\ z[1] = x /\ z[2] = y
    BY <1>0, <1>5, <2>1
  <2>3. wire'[z] = IF z[2] = a THEN << >>
                   ELSE IF z[1] = a /\ link[z[2]][a] # "no"
                   THEN Append(SubSeq(w[z], 1, IF k < Len(w[z]) THEN k ELSE Len(w[z])), EOF)
                   ELSE w[z]
    <3> DEFINE At(v) == IF v[2] = a THEN << >>
                        ELSE IF v[1] = a /\ link[v[2]][a] # "no"
                        THEN Append(SubSeq(w[v], 1, IF k < Len(w[v]) THEN k ELSE Len(w[v])), EOF)
                        ELSE w[v]
    <3>1. wire' = [v \in DOMAIN w |-> At(v)]
      BY ONLY <1>1
    <3>2. wire'[z] = At(z)
      <4> HIDE DEF At
      <4>. QED BY ONLY <2>2, <3>1
    <3>. QED BY ONLY <3>2
  <2>4. wire'[z] = IF y = a THEN << >>
                   ELSE IF x = a /\ link[y][a] # "no"
                   THEN Append(SubSeq(w[z], 1, IF k < Len(w[z]) THEN k ELSE Len(w[z])), EOF)
                   ELSE w[z]
    BY ONLY <2>2, <2>3, Zenon
  <2>. QED BY ONLY <1>5, <2>1, <2>4, Zenon
<1>6. Elsewhere(a, wire')
  <2>1. ASSUME NEW x \in Servers \ {a}, NEW y \in Servers \ {a}, x # y
        PROVE  wire'[<<x, y>>] = wire[<<x, y>>]
    <3>1. w[<<x, y>>] = wire[<<x, y>>]
      BY <2>1 DEF Elsewhere
    <3>2. x \in Servers /\ y \in Servers /\ x # a /\ y # a
      OBVIOUS
    <3>3. wire'[<<x, y>>] = w[<<x, y>>]
      BY ONLY <1>5, <2>1, <3>2
    <3>. QED BY ONLY <3>1, <3>3
  <2>. QED BY ONLY <2>1 DEF Elsewhere
<1>7. ASSUME NEW q \in Servers \ {a} PROVE Both(q, a, srv[a], row, wire', crossed')
  <2>1. wire'[<<q, a>>] = << >> /\ row[q] = "no"
    BY <1>3, <1>5
  <2>2. EdgeIn(q, a, srv[a], row, wire', crossed')
    BY <2>1, EdgeNone DEF EdgeIn
  <2>3. Edge(a, q, link[q][a], link[a][q], Heard(q, a, srv[q]), Told(a, q, srv[a], link[a]),
             wire[<<a, q>>], wire[<<q, a>>], crossed)
    BY StateParts DEF Both, EdgeOut
  <2>4. wire[<<a, q>>] \in Seq(Sent(gone)) /\ w[<<a, q>>] = wire[<<a, q>>]
    BY StateParts
  <2>5. CASE link[q][a] = "no"
    <3>1. wire'[<<a, q>>] = << >>
      BY <1>5, <2>3, <2>4, <2>5, EdgeIdle
    <3>. QED BY <2>1, <2>2, <2>5, <3>1, EdgeNone DEF Both, EdgeOut
  <2>6. CASE link[q][a] # "no"
    <3>1. Adj(q, a) /\ Announces(q, a, wire[<<a, q>>])
      BY <2>3, <2>6 DEF Edge
    <3>2. PICK n : n = IF k < Len(wire[<<a, q>>]) THEN k ELSE Len(wire[<<a, q>>])
      OBVIOUS
    <3>3. n \in 0..Len(wire[<<a, q>>])
      BY <1>2, <2>4, <3>2
    <3>4. PICK A : A = SubSeq(wire[<<a, q>>], 1, n)
      OBVIOUS
    <3>5. A \in Seq(Sent(gone)) /\ Announces(q, a, A)
      BY <2>4, <3>1, <3>3, <3>4, Announced
    <3>6. wire'[<<a, q>>] = Append(A, EOF)
      BY <1>5, <2>4, <2>6, <3>2, <3>4
    <3>7. Edge(a, q, link[q][a], "no", Heard(q, a, srv[q]), Told(a, q, srv[a], row),
               Append(A, EOF), wire'[<<q, a>>], crossed')
      BY ONLY <2>6, <3>1, <3>5, EdgeClosed
    <3>. QED BY <2>1, <2>2, <3>6, <3>7 DEF Both, EdgeOut
  <2>. QED BY <2>5, <2>6
<1>8. Become(a, srv[a])
  BY <1>4, Parts DEF Become
<1>9. a \notin alive' /\ alive' \ {a} = alive \ {a} /\ (crossed => crossed') /\ \A t \in Servers : row[t] = "no"
  BY <1>3, <1>4
<1>. QED BY <1>4, <1>6, <1>7, <1>8, <1>9, Frame

(* What u_server_destroy leaves of the servers                             *)
LEMMA DestroyedParents ==
  ASSUME NEW st \in Tables, NEW sv
  PROVE  ServerDestroy(st, sv).parent
           = [x \in Servers |-> IF x \in Below(st, sv) THEN None ELSE st.parent[x]]
BY DEF ServerDestroy, Destroy, ChanDel, Tables

(* Who is no neighbour has no link.                                        *)
LEMMA NoLine ==
  ASSUME IInv, NetInv, NEW a \in Servers, NEW q \in Servers \ {a}, ~Adj(a, q)
  PROVE  link[a][q] = "no" /\ link[q][a] = "no"
<1>1. Both(q, a, srv[a], link[a], wire, crossed)
  BY StateParts
<1>2. link[a][q] = "no"
  BY <1>1 DEF Both, EdgeIn, Edge
<1>3. link[q][a] = "no"
  BY <1>1, Sides DEF Both, EdgeOut, Edge
<1>. QED BY <1>2, <1>3

\* What the tables and links of a are without y
Forgets(a, y, st, row) ==
  /\ st.parent = [x \in Servers |-> IF x \in Below(srv[a], y) THEN None ELSE srv[a].parent[x]]
  /\ row = IF srv[a].parent[y] = a THEN [link[a] EXCEPT ![y] = "no"] ELSE link[a]

\* a removes y, and tells all but ex of it after the lines of w.
Removal(a, y, w, ex, told, st, row) ==
  /\ y \in Known(srv[a]) /\ y # a /\ w \in WireType(gone)
  /\ told = Tell(w, a, srv[a], ex, SQUIT(y)) /\ Forgets(a, y, st, row)

(* a removes y and tells q of it.                                          *)
LEMMA ForgetOther ==
  ASSUME IInv, NetInv, NEW a \in alive, NEW y, NEW w, NEW ex, NEW told, NEW st, NEW row,
         Removal(a, y, w, ex, told, st, row),
         NEW q \in Servers \ {a, y}, q # ex, NEW c, Both(q, a, srv[a], link[a], w, c)
  PROVE  Both(q, a, st, row, told, c)
<1>r. /\ y \in Known(srv[a]) /\ y # a /\ w \in WireType(gone)
      /\ told = Tell(w, a, srv[a], ex, SQUIT(y)) /\ Forgets(a, y, st, row)
  BY DEF Removal
<1> USE <1>r
<1>0. /\ a \in Servers /\ y \in Servers /\ Sound(a, srv[a], link[a]) /\ link[a][q] \in States
      /\ link[q][a] \in States /\ link[a] \in Rows
  BY StateParts DEF Known
<1>1. row[q] = link[a][q]
  BY <1>0 DEF Rows, Forgets
<1>2. /\ Heard(a, q, st) = Heard(a, q, srv[a]) \ Beyond(a, y)
      /\ Told(a, q, st, row) = Told(a, q, srv[a], link[a]) \ Beyond(a, y)
  BY <1>0, Removed DEF Forgets
<1>3. told[<<q, a>>] = w[<<q, a>>]
  BY <1>0, TellLines
<1>4. told[<<a, q>>] = IF srv[a].parent[q] = a /\ link[q][a] # "no" THEN Append(w[<<a, q>>], SQUIT(y))
                       ELSE w[<<a, q>>]
  BY <1>0, TellLines
<1>5. srv[a].parent[q] = a <=> link[a][q] \in Passed
  BY <1>0 DEF Sound, Rooted
<1>6. w[<<q, a>>] \in Seq(Sent(gone)) /\ w[<<a, q>>] \in Seq(Sent(gone))
  BY <1>0, LineTyped, << >> \in Seq(Sent(gone))
<1>7. /\ Edge(q, a, link[a][q], link[q][a], Heard(a, q, srv[a]), Told(q, a, srv[q], link[q]),
              w[<<q, a>>], w[<<a, q>>], c)
      /\ Edge(a, q, link[q][a], link[a][q], Heard(q, a, srv[q]), Told(a, q, srv[a], link[a]),
              w[<<a, q>>], w[<<q, a>>], c)
  BY DEF Both, EdgeIn, EdgeOut
<1>8. CASE ~Adj(a, q)
  <2>1. link[a][q] = "no" /\ link[q][a] = "no"
    BY <1>0, <1>8, NoLine
  <2>2. told[<<a, q>>] = w[<<a, q>>]
    BY <1>4, <2>1
  <2>3. EdgeIn(q, a, st, row, told, c)
    BY <1>1, <1>3, <1>7, <2>1, EdgeIdle DEF EdgeIn
  <2>4. EdgeOut(q, a, st, row, told, c)
    BY <1>1, <1>7, <2>1, <2>2, EdgeIdle DEF EdgeOut
  <2>. QED BY <2>3, <2>4 DEF Both
<1>9. CASE Adj(a, q)
  <2>1. link[a][q] \notin Passed => Heard(a, q, srv[a]) = {}
    BY <1>0, <1>5, <1>9, KnownSides DEF Sound, Rooted, Heard
  <2>2. a \in Told(a, q, srv[a], link[a])
    BY <1>0, <1>9, KnownSides, Sides DEF Sound, Rooted, Told, Shy
  <2>3. PICK B2 : B2 = told[<<a, q>>]
    OBVIOUS
  <2>4. B2 = IF link[a][q] \in Passed /\ link[q][a] # "no" THEN Append(w[<<a, q>>], SQUIT(y)) ELSE w[<<a, q>>]
    BY <1>4, <1>5, <2>3
  <2>5. y \notin {a, q}
    OBVIOUS
  <2>6. Edge(q, a, link[a][q], link[q][a], Heard(a, q, srv[a]) \ Beyond(a, y), Told(q, a, srv[q], link[q]),
             w[<<q, a>>], B2, c)
    BY ONLY <1>0, <1>6, <1>7, <2>1, <2>4, <2>5, EdgeForgets
  <2>7. Edge(a, q, link[q][a], link[a][q], Heard(q, a, srv[q]), Told(a, q, srv[a], link[a]) \ Beyond(a, y),
             B2, w[<<q, a>>], c)
    BY ONLY <1>0, <1>6, <1>7, <2>2, <2>4, <2>5, EdgeToldSquit
  <2>8. EdgeIn(q, a, st, row, told, c)
    BY <1>1, <1>2, <1>3, <2>3, <2>6 DEF EdgeIn
  <2>9. EdgeOut(q, a, st, row, told, c)
    BY <1>1, <1>2, <1>3, <2>3, <2>7 DEF EdgeOut
  <2>. QED BY <2>8, <2>9 DEF Both
<1>. QED BY <1>8, <1>9

(* a closes its end of a link.                                             *)
LEMMA CloseTo ==
  ASSUME IInv, NetInv, NEW a \in Servers, NEW t \in Servers, a # t, Adj(a, t),
         NEW told \in WireType(gone), Announces(t, a, told[<<a, t>>]),
         NEW w, w = Closed(told, a, t), NEW st, NEW row, row[t] = "no", NEW c
  PROVE  Both(t, a, st, row, w, c)
<1>0. told[<<a, t>>] \in Seq(Sent(gone)) /\ Adj(t, a)
  BY LineTyped, Sides, << >> \in Seq(Sent(gone))
<1>1. w[<<t, a>>] = << >>
  BY ClosedLines
<1>2. w[<<a, t>>] = IF link[t][a] = "no" THEN << >> ELSE Append(told[<<a, t>>], EOF)
  BY ClosedLines
<1>3. EdgeIn(t, a, st, row, w, c)
  BY <1>1, EdgeNone DEF EdgeIn
<1>4. CASE link[t][a] = "no"
  <2>1. w[<<a, t>>] = << >>
    BY <1>2, <1>4
  <2>. QED BY <1>3, <1>4, <2>1, EdgeNone DEF Both, EdgeOut
<1>5. CASE link[t][a] # "no"
  <2>1. w[<<a, t>>] = Append(told[<<a, t>>], EOF)
    BY <1>2, <1>5
  <2>2. Edge(a, t, link[t][a], "no", Heard(t, a, srv[t]), Told(a, t, st, row),
             Append(told[<<a, t>>], EOF), w[<<t, a>>], c)
    BY <1>0, <1>5, EdgeClosed
  <2>. QED BY <1>3, <2>1, <2>2 DEF Both, EdgeOut
<1>. QED BY <1>4, <1>5

(* The end of a link, at a; what is under way is as before but for lines   *)
(* between a and t.                                                        *)
LEMMA LinkEndStep ==
  ASSUME IInv, NetInv, NEW a \in alive, NEW t \in Servers, a # t, Adj(a, t),
         NEW w \in WireType(gone), Elsewhere(a, w),
         \A q \in Servers \ {a, t} : Both(q, a, srv[a], link[a], w, crossed),
         Announces(t, a, w[<<a, t>>]), LinkEnd(a, t, w)
  PROVE  NetInv'
<1>0. /\ a \in Servers /\ Sound(a, srv[a], link[a]) /\ link \in LinkType /\ link[a] \in Rows
      /\ srv[a] \in Tables /\ Adj(t, a)
  BY StateParts, Parts, Sides
<1>1. PICK row : row = [link[a] EXCEPT ![t] = "no"]
  OBVIOUS
<1>2. link' = [link EXCEPT ![a] = row] /\ alive' = alive /\ crossed' = crossed
  BY <1>0, <1>1 DEF LinkEnd, LinkType
<1>3. row[t] = "no" /\ \A q \in Servers : q # t => row[q] = link[a][q]
  BY <1>0, <1>1 DEF Rows, States
<1>4. CASE t \notin Known(srv[a])
  <2>1. Become(a, srv[a]) /\ wire' = Closed(w, a, t)
    BY <1>4 DEF LinkEnd, Known
  <2>2. link[a][t] \notin Passed
    BY <1>0, <1>4, KnownSides DEF Sound, Rooted
  <2>3. row = [link[a] EXCEPT ![t] = row[t]] /\ row[t] \in {"no", "out", "in"}
    BY <1>1, <1>3
  <2>4. Rooted(a, srv[a], row) /\ \A q : Told(a, q, srv[a], row) = Told(a, q, srv[a], link[a])
    BY <1>0, <2>2, <2>3, NotPassed
  <2>5. \A x, y \in Servers : x # y /\ {x, y} # {a, t} => wire'[<<x, y>>] = w[<<x, y>>]
    BY <1>0, <2>1, ClosedLines
  <2>6. Elsewhere(a, wire')
    BY <2>5 DEF Elsewhere
  <2>7. ASSUME NEW q \in Servers \ {a, t} PROVE Both(q, a, srv[a], row, wire', crossed')
    <3>1. wire'[<<q, a>>] = w[<<q, a>>] /\ wire'[<<a, q>>] = w[<<a, q>>] /\ row[q] = link[a][q]
      BY <1>0, <1>3, <2>5
    <3>2. Both(q, a, srv[a], link[a], w, crossed)
      OBVIOUS
    <3>. QED BY <1>2, <2>4, <3>1, <3>2 DEF Both, EdgeIn, EdgeOut
  <2>8. Both(t, a, srv[a], row, wire', crossed')
    BY <1>0, <1>3, <2>1, CloseTo
  <2>9. \A q \in Servers \ {a} : Both(q, a, srv[a], row, wire', crossed')
    BY <2>7, <2>8
  <2>. QED BY <1>0, <1>2, <2>1, <2>4, <2>6, <2>9, Frame
<1>5. CASE t \in Known(srv[a])
  <2>1. PICK st : st = ServerDestroy(srv[a], t)
    OBVIOUS
  <2>2. PICK told : told = Tell(w, a, srv[a], None, SQUIT(t))
    OBVIOUS
  <2>3. Become(a, st) /\ wire' = Closed(told, a, t)
    BY <1>5, <2>1, <2>2 DEF LinkEnd, Known
  <2>4. srv[a].parent[t] = a
    BY <1>0, <1>5, KnownSides DEF Sound, Rooted
  <2>5. st.parent = [x \in Servers |-> IF x \in Below(srv[a], t) THEN None ELSE srv[a].parent[x]]
    BY <1>0, <2>1, DestroyedParents
  <2>6. row = IF srv[a].parent[t] = a THEN [link[a] EXCEPT ![t] = "no"] ELSE link[a]
    BY <1>1, <2>4
  <2>7. Rooted(a, st, row)
    BY <1>0, <1>5, <2>5, <2>6, Removed
  <2>8. told \in WireType(gone)
    BY <2>2, Kinds, TellTyped
  <2>9. \A x, y \in Servers : x # y /\ {x, y} # {a, t} => wire'[<<x, y>>] = told[<<x, y>>]
    BY <1>0, <2>3, <2>8, ClosedLines
  <2>10. Elsewhere(a, wire')
    <3>1. Elsewhere(a, told)
      BY <2>2, TellLines DEF Elsewhere
    <3>. QED BY <2>9, <3>1 DEF Elsewhere
  <2>11. ASSUME NEW q \in Servers \ {a, t} PROVE Both(q, a, st, row, wire', crossed')
    <3>1. q # None /\ Both(q, a, srv[a], link[a], w, crossed)
      BY NetAssumption
    <3>2. Forgets(a, t, st, row)
      BY <2>5, <2>6 DEF Forgets
    <3>4. Both(q, a, st, row, told, crossed)
      <4>1. q # None
        BY <3>1
      <4>2. Both(q, a, srv[a], link[a], w, crossed)
        BY <3>1
      <4>3. Removal(a, t, w, None, told, st, row)
        BY <1>5, <2>2, <3>2 DEF Removal
      <4>. QED BY ONLY IInv, NetInv, a \in alive, q \in Servers \ {a, t}, <4>1, <4>2, <4>3, ForgetOther
    <3>3. wire'[<<q, a>>] = told[<<q, a>>] /\ wire'[<<a, q>>] = told[<<a, q>>]
      BY <1>0, <2>9
    <3>. QED BY <1>2, <3>3, <3>4 DEF Both, EdgeIn, EdgeOut
  <2>12. Announces(t, a, told[<<a, t>>])
    <3>1. told[<<a, t>>] = w[<<a, t>>] \/ told[<<a, t>>] = Append(w[<<a, t>>], SQUIT(t))
      <4>1. told[<<a, t>>] = IF a = a /\ srv[a].parent[t] = a /\ t # None /\ link[t][a] # "no"
                             THEN Append(w[<<a, t>>], SQUIT(t)) ELSE w[<<a, t>>]
        BY ONLY <1>0, <2>2, a # t, t \in Servers, w \in WireType(gone), TellLines
      <4>. QED BY ONLY <4>1
    <3>2. w[<<a, t>>] \in Seq(Sent(gone)) /\ Announce(t, a, SQUIT(t))
      BY <1>0, LineTyped, << >> \in Seq(Sent(gone)), NamesOfLines DEF Announce
    <3>. QED BY <3>1, <3>2, OneMore
  <2>13. Both(t, a, st, row, wire', crossed')
    BY <1>0, <1>3, <2>3, <2>8, <2>12, CloseTo
  <2>14. \A q \in Servers \ {a} : Both(q, a, st, row, wire', crossed')
    BY <2>11, <2>13
  <2>. QED BY <1>0, <1>2, <2>3, <2>7, <2>10, <2>14, Frame
<1>. QED BY <1>4, <1>5

(* The other end has closed.                                               *)
LEMMA EofStep ==
  ASSUME IInv, NetInv, NEW a \in Servers, NEW t \in Servers, a # t, wire[<<t, a>>] # << >>,
         NEW m, m = Head(wire[<<t, a>>]), NEW w, w = Rest(t, a), LinkEnd(a, t, w)
  PROVE  NetInv'
<1>1. /\ w \in WireType(gone) /\ Elsewhere(a, w) /\ a \in alive /\ Adj(a, t)
      /\ w[<<a, t>>] = wire[<<a, t>>]
      /\ \A q \in Servers \ {a, t} : Both(q, a, srv[a], link[a], w, crossed)
  <2>1. Pops(a, t, m, w)
    BY DEF Pops
  <2>2. LineTaken(a, t, m, w)
    BY ONLY IInv, NetInv, a \in Servers, t \in Servers, <2>1, Popped
  <2>. QED BY ONLY <2>2 DEF LineTaken
<1>2. Edge(a, t, link[t][a], link[a][t], Heard(t, a, srv[t]), Told(a, t, srv[a], link[a]),
           wire[<<a, t>>], wire[<<t, a>>], crossed)
  BY StateParts DEF Both, EdgeOut
<1>3. Announces(t, a, wire[<<a, t>>])
  BY <1>2 DEF Edge, Announces
<1>. QED BY <1>1, <1>3, LinkEndStep

(* A connection breaks.                                                    *)
LEMMA BreakStep ==
  ASSUME IInv, NetInv, NEW a \in Servers, NEW t \in Servers, a # t, Break(a, t)
  PROVE  NetInv'
<1>1. PICK k \in 0..Len(wire[<<a, t>>]) :
         LinkEnd(a, t, [wire EXCEPT ![<<a, t>>] = SubSeq(@, 1, k)])
  BY DEF Break
<1>2. link[a][t] # "no"
  BY DEF Break
<1>3. wire \in WireType(gone) /\ wire[<<a, t>>] \in Seq(Sent(gone)) /\ <<a, t>> \in DOMAIN wire /\ a \in alive
  BY <1>2, StateParts DEF WireType
<1>4. /\ Edge(t, a, link[a][t], link[t][a], Heard(a, t, srv[a]), Told(t, a, srv[t], link[t]),
              wire[<<t, a>>], wire[<<a, t>>], crossed)
      /\ Edge(a, t, link[t][a], link[a][t], Heard(t, a, srv[t]), Told(a, t, srv[a], link[a]),
              wire[<<a, t>>], wire[<<t, a>>], crossed)
  BY StateParts DEF Both, EdgeIn, EdgeOut
<1>5. Adj(a, t) /\ Announces(t, a, wire[<<a, t>>])
  BY <1>2, <1>4 DEF Edge, Announces
<1>6. PICK L : L = SubSeq(wire[<<a, t>>], 1, k)
  OBVIOUS
<1>7. L \in Seq(Sent(gone)) /\ Announces(t, a, L)
  BY <1>3, <1>5, <1>6, Announced
<1>8. PICK w : w = [wire EXCEPT ![<<a, t>>] = L]
  OBVIOUS
<1>9. LinkEnd(a, t, w)
  BY <1>1, <1>3, <1>6, <1>8
<1>10. w \in WireType(gone)
  BY ONLY <1>3, <1>7, <1>8, a \in Servers, t \in Servers, a # t, LineTyped
<1>11. ASSUME NEW x \in Servers, NEW y \in Servers, x # y
       PROVE  w[<<x, y>>] = IF x = a /\ y = t THEN L ELSE wire[<<x, y>>]
  <2>1. <<x, y>> \in DOMAIN wire
    BY <1>3, <1>11 DEF WireType
  <2>2. <<x, y>> = <<a, t>> <=> x = a /\ y = t
    OBVIOUS
  <2>. QED BY ONLY <1>8, <2>1, <2>2
<1>12. Elsewhere(a, w)
  BY <1>11 DEF Elsewhere
<1>13. ASSUME NEW q \in Servers \ {a, t} PROVE Both(q, a, srv[a], link[a], w, crossed)
  <2>1. w[<<q, a>>] = wire[<<q, a>>] /\ w[<<a, q>>] = wire[<<a, q>>]
    BY <1>11
  <2>. QED BY <2>1, StateParts DEF Both, EdgeIn, EdgeOut
<1>14. Announces(t, a, w[<<a, t>>])
  BY <1>7, <1>11
<1>. QED BY <1>3, <1>5, <1>9, <1>10, <1>12, <1>13, <1>14, LinkEndStep

(* A way to or from a server that is no neighbour                          *)
LEMMA BothIdle ==
  ASSUME IInv, NetInv, NEW a \in Servers, NEW q \in Servers \ {a}, ~Adj(a, q),
         NEW w, NEW c, Both(q, a, srv[a], link[a], w, c), NEW st, NEW row, row[q] = link[a][q],
         NEW w2, w2[<<q, a>>] = w[<<q, a>>], w2[<<a, q>>] = w[<<a, q>>], NEW c2
  PROVE  Both(q, a, st, row, w2, c2)
<1>1. link[a][q] = "no" /\ link[q][a] = "no"
  BY NoLine
<1>2. /\ Edge(q, a, link[a][q], link[q][a], Heard(a, q, srv[a]), Told(q, a, srv[q], link[q]),
              w[<<q, a>>], w[<<a, q>>], c)
      /\ Edge(a, q, link[q][a], link[a][q], Heard(q, a, srv[q]), Told(a, q, srv[a], link[a]),
              w[<<a, q>>], w[<<q, a>>], c)
  BY DEF Both, EdgeIn, EdgeOut
<1>3. w[<<q, a>>] = << >> /\ w[<<a, q>>] = << >>
  BY <1>1, <1>2, EdgeIdle
<1>. QED BY <1>1, <1>3, EdgeNone DEF Both, EdgeIn, EdgeOut

(* What is noted once stays noted.                                         *)
LEMMA BothLater ==
  ASSUME IInv, NetInv, NEW a \in Servers, NEW q \in Servers \ {a}, NEW left, NEW w \in WireType(left),
         NEW row \in Rows, NEW st, NEW c, NEW c2, c => c2, Both(q, a, st, row, w, c)
  PROVE  Both(q, a, st, row, w, c2)
<1>2. link[q][a] \in States /\ row[q] \in States
  BY StateParts DEF Rows
<1>3. w[<<q, a>>] \in Seq(Sent(left)) /\ w[<<a, q>>] \in Seq(Sent(left))
  BY LineTyped, << >> \in Seq(Sent(left))
<1>4. EdgeIn(q, a, st, row, w, c) /\ EdgeOut(q, a, st, row, w, c)
  BY DEF Both
<1>5. EdgeIn(q, a, st, row, w, c2)
  BY <1>2, <1>3, <1>4, EdgeAnswer DEF EdgeIn
<1>6. EdgeOut(q, a, st, row, w, c2)
  BY <1>2, <1>3, <1>4, EdgeAnswer DEF EdgeOut
<1>. QED BY <1>5, <1>6 DEF Both

(* Many more lines to the other side                                       *)
LEMMA EdgeMany ==
  ASSUME NEW t, NEW s, NEW h, NEW g \in States, NEW K, NEW X, NEW A, NEW M, NEW B \in Seq(M), NEW c,
         Edge(t, s, h, g, K, X, A, B, c), NEW D \in Seq(M)
  PROVE  Edge(t, s, h, g, K, X, A, B \o D, c)
<1>1. Cut(t, B) \subseteq Cut(t, B \o D)
  <2>1. /\ B \o D \in Seq(M) /\ Len(B \o D) = Len(B) + Len(D)
        /\ \A i \in 1 .. Len(B) + Len(D) : (B \o D)[i] = IF i <= Len(B) THEN B[i] ELSE D[i - Len(B)]
    BY ONLY B \in Seq(M), D \in Seq(M), ConcatProperties
  <2>2. PICK E : E = B \o D
    OBVIOUS
  <2>3. E \in Seq(M) /\ Len(E) = Len(B) + Len(D) /\ Len(B) \in Nat /\ Len(D) \in Nat
        /\ \A i \in 1 .. Len(B) + Len(D) : E[i] = IF i <= Len(B) THEN B[i] ELSE D[i - Len(B)]
    BY <2>1, <2>2
  <2>4. \A i \in 1..Len(B) : i \in 1..Len(E) /\ E[i] = B[i]
    BY ONLY <2>3
  <2>5. DOMAIN B = 1..Len(B) /\ DOMAIN E = 1..Len(E)
    BY <2>3
  <2>. QED BY ONLY <2>2, <2>4, <2>5 DEF Cut
<1>2. X \subseteq X /\ X \cap Cut(t, B) \subseteq Cut(t, B \o D)
  BY <1>1
<1>. QED BY ONLY <1>2, g \in States, Edge(t, s, h, g, K, X, A, B, c), EdgeLater

(* c_first_pass: the link begins to be registered.                         *)
LEMMA PassStep ==
  ASSUME IInv, NetInv, NEW a \in Servers, NEW t \in Servers, a # t, wire[<<t, a>>] # << >>,
         NEW m, m = Head(wire[<<t, a>>]), NEW w, w = Rest(t, a),
         m.t = "PASS", link[a][t] \in {"out", "in"}, HandlePass(a, t, w)
  PROVE  NetInv'
<1>0. /\ w \in WireType(gone) /\ Elsewhere(a, w) /\ a \in alive /\ Adj(a, t)
      /\ w[<<t, a>>] = Tail(wire[<<t, a>>]) /\ w[<<a, t>>] = wire[<<a, t>>]
      /\ \A q \in Servers \ {a, t} : Both(q, a, srv[a], link[a], w, crossed)
      /\ EdgeOut(t, a, srv[a], link[a], w, crossed)
  <2>1. m.t # "SQUIT"
    OBVIOUS
  <2>2. Pops(a, t, m, w)
    BY DEF Pops
  <2>3. LineTaken(a, t, m, w)
    BY ONLY IInv, NetInv, a \in Servers, t \in Servers, <2>2, Popped
  <2>. QED BY ONLY <2>1, <2>3 DEF LineTaken
<1>1. Sound(a, srv[a], link[a]) /\ link \in LinkType /\ link[a] \in Rows /\ srv[a] \in Tables /\ DOMAIN srv = Servers
  BY <1>0, StateParts, Parts
<1>2. PICK k : k = IF link[a][t] = "out" THEN "outPass" ELSE "inPass"
  OBVIOUS
<1>3. PICK st, row : st = [srv[a] EXCEPT !.parent[t] = a] /\ row = [link[a] EXCEPT ![t] = k]
  OBVIOUS
<1>4. st.parent = [srv[a].parent EXCEPT ![t] = a]
  BY <1>1, <1>3 DEF Tables
<1>5. /\ Become(a, st) /\ link' = [link EXCEPT ![a] = row] /\ wire' = w /\ alive' = alive /\ crossed' = crossed
  BY <1>1, <1>2, <1>3 DEF HandlePass, LinkType
<1>6. k \in {"outPass", "inPass"} /\ link[a][t] \notin Passed
  BY <1>2 DEF Passed
<1>7. /\ Rooted(a, st, row) /\ row \in Rows
      /\ Heard(a, t, srv[a]) = {} /\ Heard(a, t, st) = {t}
      /\ \A q : Adj(a, q) =>
           /\ q # t => Heard(a, q, st) = Heard(a, q, srv[a])
           /\ Told(a, q, st, row) = Told(a, q, srv[a], link[a])
  <2>1. PICK old, r : old = srv[a] /\ r = link[a]
    OBVIOUS
  <2>2. /\ Sound(a, old, r) /\ r[t] \notin Passed
        /\ st.parent = [old.parent EXCEPT ![t] = a] /\ row = [r EXCEPT ![t] = k]
    BY <1>1, <1>3, <1>4, <1>6, <2>1
  <2>3. Adj(a, t)
    BY <1>0
  <2>. QED BY ONLY <1>6, <2>1, <2>2, <2>3, a \in Servers, NewNeighbour
<1>8. row[t] = k /\ \A q \in Servers : q # t => row[q] = link[a][q]
  BY <1>1, <1>3, <1>6 DEF Rows, States
<1>9. ASSUME NEW q \in Servers \ {a, t} PROVE Both(q, a, st, row, w, crossed)
  <2>1. CASE Adj(a, q)
    <3>1. Both(q, a, srv[a], link[a], w, crossed)
      BY <1>0
    <3>. QED BY <1>7, <1>8, <2>1, <3>1 DEF Both, EdgeIn, EdgeOut
  <2>2. CASE ~Adj(a, q)
    BY <1>0, <1>8, <2>2, BothIdle
  <2>. QED BY <2>1, <2>2
<1>10. EdgeIn(t, a, st, row, w, crossed)
  <2>1. Edge(t, a, link[a][t], link[t][a], {}, Told(t, a, srv[t], link[t]), wire[<<t, a>>], wire[<<a, t>>], crossed)
    BY <1>7, StateParts DEF Both, EdgeIn
  <2>2. Step(a, t, View(link[a][t], {}), m) = View(k, {t})
    BY <1>2 DEF Step, View
  <2>3. wire[<<t, a>>] \in Seq(Sent(gone)) /\ link[t][a] \in States /\ link[a][t] # "no" /\ Head(wire[<<t, a>>]) # EOF
    BY StateParts DEF EOF
  <2>4. Edge(t, a, k, link[t][a], {t}, Told(t, a, srv[t], link[t]), Tail(wire[<<t, a>>]), wire[<<a, t>>], crossed)
    BY <2>1, <2>2, <2>3, EdgeHandled
  <2>. QED BY <1>0, <1>7, <1>8, <2>4 DEF EdgeIn
<1>11. EdgeOut(t, a, st, row, w, crossed)
  <2>1. Edge(a, t, link[t][a], link[a][t], Heard(t, a, srv[t]), Told(a, t, srv[a], link[a]), w[<<a, t>>], w[<<t, a>>], crossed)
    BY <1>0 DEF EdgeOut
  <2>2. Edge(a, t, link[t][a], k, Heard(t, a, srv[t]), Told(a, t, srv[a], link[a]), w[<<a, t>>], w[<<t, a>>], crossed)
    BY <1>2, <2>1, EdgePass
  <2>3. Told(a, t, st, row) = Told(a, t, srv[a], link[a])
    BY <1>0, <1>7
  <2>. QED BY <1>8, <2>2, <2>3 DEF EdgeOut
<1>12. \A q \in Servers \ {a} : Both(q, a, st, row, wire', crossed')
  BY <1>5, <1>9, <1>10, <1>11 DEF Both
<1>. QED BY <1>0, <1>5, <1>7, <1>12, Frame

(* The burst announces the servers that a tells t of.                      *)
LEMMA BurstTells ==
  ASSUME IInv, NetInv, NEW a \in alive, NEW t \in Servers, Adj(a, t),
         link[a][t] \in {"outPass", "inPass"}, NEW X, X = Told(a, t, srv[a], link[a]),
         NEW D, D = Burst(a, t)
  PROVE  /\ D \in Seq(Sent(gone)) /\ Announces(t, a, D)
         /\ \A i \in DOMAIN D : D[i] # EOF /\ D[i].t \notin {"PASS", "SERVER", "SQUIT"}
         /\ \A i \in DOMAIN D : D[i].t = "SID" => D[i].sid \in X
         /\ \A x \in X \ {a} : \E i \in DOMAIN D : D[i].t = "SID" /\ D[i].sid = x
<1> DEFINE up(p) == srv[a].parent[p]
<1>0. /\ a \in Servers /\ Sound(a, srv[a], link[a]) /\ Adj(t, a) /\ t # a
      /\ a \in Side(t, a) /\ t \in Side(a, t) /\ a \notin Side(a, t) /\ t \notin Side(t, a)
  BY StateParts, Sides
<1>1. /\ srv[a].parent \in ParentType /\ NoOrphans(a, srv[a]) /\ Upward(a, srv[a])
      /\ Known(srv[a]) \cap Side(a, t) \subseteq {t} /\ up(t) = a
  <2>1. link[a][t] \in Passed
    BY DEF Passed
  <2>. QED BY <1>0, <2>1 DEF Sound, Rooted
<1>2. ASSUME NEW p \in Known(srv[a]), p # t PROVE p \in Side(t, a)
  <2>1. CASE p = a
    BY <1>0, <2>1
  <2>2. CASE p # a
    <3>1. PICK q : Adj(a, q) /\ p \in Side(a, q)
      BY <1>0, <1>1, <1>2, <2>2, KnownSides
    <3>2. q # t
      BY <1>1, <1>2, <3>1
    <3>. QED BY <1>0, <3>1, <3>2, SideInside
  <2>. QED BY <2>1, <2>2
<1>3. ASSUME NEW p \in Names(a, t)
      PROVE  /\ p \in X /\ p \in Known(srv[a]) \ {a} /\ Adj(up(p), p) /\ {up(p), p} \subseteq Side(t, a)
             /\ t \in Side(p, up(p))
  <2>1. p \in Known(srv[a]) \ {a, t} /\ p \in Servers /\ (up(p) = a => link[a][p] = "on")
    BY DEF Names, Known
  <2>2. p \in Side(t, a)
    BY <1>2, <2>1
  <2>3. p \in X
    BY <2>1, <2>2 DEF Told, Shy
  <2>4. Adj(up(p), p) /\ a \in Side(p, up(p))
    BY <1>1, <2>1 DEF Upward
  <2>5. up(p) # t
    <3>1. SUFFICES ASSUME up(p) = t PROVE FALSE
      OBVIOUS
    <3>2. Adj(t, p) /\ {t, p} # {a, t}
      BY <2>1, <2>4, <3>1
    <3>3. p \in Side(a, t)
      BY <1>0, <3>2, Sides
    <3>. QED BY <1>1, <2>1, <3>3
  <2>6. up(p) \in Known(srv[a])
    <3>1. up(p) \in Servers
      BY <2>4, Sides
    <3>. QED BY <1>1, <2>1, <3>1 DEF NoOrphans, Known
  <2>7. up(p) \in Side(t, a)
    BY <1>2, <2>5, <2>6
  <2>8. t \in Side(p, up(p))
    <3>1. Adj(p, up(p)) /\ {a, t} # {p, up(p)}
      BY <2>1, <2>4, Sides
    <3>. QED BY <1>0, <2>4, <3>1, Sides
  <2>. QED BY <2>1, <2>2, <2>3, <2>4, <2>7, <2>8
<1>4. ASSUME NEW x \in X \ {a} PROVE x \in Names(a, t)
  <2>1. x \in Known(srv[a]) /\ x \in Side(t, a) /\ ~Shy(a, srv[a], link[a], x)
    BY DEF Told
  <2>. QED BY <1>0, <2>1 DEF Shy, Names, Known
<1>5. /\ D \in Seq(Sent(gone))
      /\ \A p \in Names(a, t) : SID(up(p), p) \in Range(D)
      /\ \A m \in Range(D) : \/ \E p \in Names(a, t) : m = SID(up(p), p)
                             \/ m.t \in {"EUID", "SJOIN"}
  BY <1>0, Parts, BurstTyped
<1>6. ASSUME NEW i \in DOMAIN D
      PROVE  /\ D[i] # EOF /\ D[i].t \notin {"PASS", "SERVER", "SQUIT"} /\ Announce(t, a, D[i])
             /\ D[i].t = "SID" => D[i].sid \in X
  <2>1. D[i] \in Range(D)
    BY DEF Range
  <2>2. CASE D[i].t \in {"EUID", "SJOIN"}
    BY <2>2, NamesOfLines DEF Announce
  <2>3. CASE \E p \in Names(a, t) : D[i] = SID(up(p), p)
    <3>1. PICK p \in Names(a, t) : D[i] = SID(up(p), p)
      BY <2>3
    <3>2. PICK n : n = D[i]
      OBVIOUS
    <3>3. n # EOF /\ n.t = "SID" /\ n.src = up(p) /\ n.sid = p
      BY <3>1, <3>2, NamesOfLines
    <3>4. Announce(t, a, n)
      BY <1>3, <3>3 DEF Announce
    <3>. QED BY <1>3, <3>2, <3>3, <3>4
  <2>. QED BY <1>5, <2>1, <2>2, <2>3
<1>7. ASSUME NEW x \in X \ {a} PROVE \E i \in DOMAIN D : D[i].t = "SID" /\ D[i].sid = x
  <2>1. SID(up(x), x) \in Range(D)
    BY <1>4, <1>5
  <2>2. PICK i \in DOMAIN D : D[i] = SID(up(x), x)
    BY <2>1 DEF Range
  <2>. QED BY <2>2, NamesOfLines
<1>. QED BY <1>5, <1>6, <1>7 DEF Announces

(* c_us_server: the link is registered, t gets the burst and the others    *)
(* the name of t.                                                          *)
LEMMA ServerStep ==
  ASSUME IInv, NetInv, NEW a \in Servers, NEW t \in Servers, a # t, wire[<<t, a>>] # << >>,
         NEW m, m = Head(wire[<<t, a>>]), NEW w, w = Rest(t, a),
         m.t = "SERVER", link[a][t] \in {"outPass", "inPass"}, HandleServer(a, t, w)
  PROVE  NetInv'
<1>0. /\ w \in WireType(gone) /\ Elsewhere(a, w) /\ a \in alive /\ Adj(a, t)
      /\ w[<<t, a>>] = Tail(wire[<<t, a>>]) /\ w[<<a, t>>] = wire[<<a, t>>]
      /\ \A q \in Servers \ {a, t} : Both(q, a, srv[a], link[a], w, crossed)
      /\ EdgeOut(t, a, srv[a], link[a], w, crossed)
  <2>1. m.t # "SQUIT"
    OBVIOUS
  <2>2. Pops(a, t, m, w)
    BY DEF Pops
  <2>3. LineTaken(a, t, m, w)
    BY ONLY IInv, NetInv, a \in Servers, t \in Servers, <2>2, Popped
  <2>. QED BY ONLY <2>1, <2>3 DEF LineTaken
<1>1. Sound(a, srv[a], link[a]) /\ link \in LinkType /\ link[a] \in Rows /\ srv[a] \in Tables /\ srv \in [Servers -> Tables]
  BY <1>0, StateParts, Parts
<1>2. PICK row : row = [link[a] EXCEPT ![t] = "on"]
  OBVIOUS
<1>3. PICK D : D = Burst(a, t)
  OBVIOUS
<1>4. PICK lines : lines = OwnServer(a, t) \o D
  OBVIOUS
<1>5. PICK told : told = Tell(w, a, srv[a], t, SID(a, t))
  OBVIOUS
<1>6. /\ Become(a, srv[a]) /\ link' = [link EXCEPT ![a] = row] /\ alive' = alive /\ crossed' = crossed
      /\ wire' = Queue(told, a, t, lines)
  BY <1>1, <1>2, <1>3, <1>4, <1>5 DEF HandleServer, LinkType, Become
<1>7. told \in WireType(gone)
  BY <1>0, <1>5, Kinds, TellTyped
<1>8. /\ Rooted(a, srv[a], row) /\ row \in Rows
      /\ Told(a, t, srv[a], row) = Told(a, t, srv[a], link[a])
      /\ \A q : Adj(a, q) /\ q # t => Told(a, q, srv[a], row) = Told(a, q, srv[a], link[a]) \cup {t}
  <2>1. PICK r, old, k : r = link[a] /\ old = srv[a] /\ k = "on"
    OBVIOUS
  <2>2. Sound(a, old, r) /\ r[t] \in {"outPass", "inPass"} /\ row = [r EXCEPT ![t] = k]
    BY <1>1, <1>2, <2>1
  <2>3. Adj(a, t)
    BY <1>0
  <2>4. /\ Rooted(a, old, row) /\ row \in Rows /\ Told(a, t, old, row) = Told(a, t, old, r)
        /\ \A q : Adj(a, q) /\ q # t => Told(a, q, old, row) = Told(a, q, old, r) \cup {t}
    BY ONLY <2>1, <2>2, <2>3, a \in Servers, NewlyOn
  <2>. QED BY ONLY <2>1, <2>4
<1>9. row[t] = "on" /\ \A q \in Servers : q # t => row[q] = link[a][q]
  BY <1>1, <1>2 DEF Rows, States
<1>10. \A x, y \in Servers : x # y =>
         told[<<x, y>>] = IF x = a /\ srv[a].parent[y] = a /\ y # t /\ link[y][a] # "no"
                          THEN Append(w[<<x, y>>], SID(a, t)) ELSE w[<<x, y>>]
  BY <1>0, <1>5, TellLines
<1>11. \A x, y \in Servers : x # y =>
         wire'[<<x, y>>] = IF x = a /\ y = t /\ link[t][a] # "no"
                           THEN told[<<x, y>>] \o lines ELSE told[<<x, y>>]
  BY <1>6, <1>7, QueueLines
<1>12. Elsewhere(a, wire')
  BY <1>0, <1>10, <1>11 DEF Elsewhere
<1>13. ASSUME NEW q \in Servers \ {a, t} PROVE Both(q, a, srv[a], row, wire', crossed)
  <2>1. wire'[<<q, a>>] = w[<<q, a>>] /\ wire'[<<a, q>>] = told[<<a, q>>] /\ row[q] = link[a][q]
    BY <1>9, <1>10, <1>11
  <2>2. Both(q, a, srv[a], link[a], w, crossed)
    BY <1>0
  <2>3. CASE Adj(a, q)
    <3>1. /\ link[q][a] \in States /\ link[a][q] \in States /\ Adj(q, a)
          /\ w[<<q, a>>] \in Seq(Sent(gone)) /\ w[<<a, q>>] \in Seq(Sent(gone))
      BY <1>0, <2>3, StateParts, LineTyped, Sides, << >> \in Seq(Sent(gone))
    <3>2. srv[a].parent[q] = a <=> link[a][q] \in Passed
      BY <1>1 DEF Sound, Rooted
    <3>3. PICK B2, n : B2 = told[<<a, q>>] /\ n = SID(a, t)
      OBVIOUS
    <3>4. B2 = IF link[a][q] \in Passed /\ link[q][a] # "no" THEN Append(w[<<a, q>>], n) ELSE w[<<a, q>>]
      BY <1>10, <3>2, <3>3
    <3>5. n # EOF /\ n.t = "SID" /\ n.src = a /\ n.sid = t
      BY <3>3, NamesOfLines
    <3>6. Announce(q, a, n)
      <4>1. t \in Side(q, a) /\ a \in Side(q, a)
        BY <1>0, <3>1, Sides, SideInside
      <4>2. q \in Side(t, a)
        BY <1>0, <2>3, Sides, SideInside
      <4>. QED BY <1>0, <3>5, <4>1, <4>2 DEF Announce
    <3>7. /\ Edge(q, a, link[a][q], link[q][a], Heard(a, q, srv[a]), Told(q, a, srv[q], link[q]),
                  w[<<q, a>>], w[<<a, q>>], crossed)
          /\ Edge(a, q, link[q][a], link[a][q], Heard(q, a, srv[q]), Told(a, q, srv[a], link[a]),
                  w[<<a, q>>], w[<<q, a>>], crossed)
      BY <2>2 DEF Both, EdgeIn, EdgeOut
    <3>8. B2 = w[<<a, q>>] \/ B2 = Append(w[<<a, q>>], n)
      BY <3>4
    <3>9. Edge(q, a, link[a][q], link[q][a], Heard(a, q, srv[a]), Told(q, a, srv[q], link[q]),
               w[<<q, a>>], B2, crossed)
      BY ONLY <3>1, <3>7, <3>8, EdgeMore
    <3>10. Edge(a, q, link[q][a], link[a][q], Heard(q, a, srv[q]), Told(a, q, srv[a], link[a]) \cup {n.sid},
               B2, w[<<q, a>>], crossed)
      BY ONLY <3>1, <3>4, <3>5, <3>6, <3>7, EdgeToldSid
    <3>11. Told(a, q, srv[a], row) = Told(a, q, srv[a], link[a]) \cup {n.sid}
      BY <1>8, <2>3, <3>5
    <3>. QED BY <2>1, <3>3, <3>9, <3>10, <3>11 DEF Both, EdgeIn, EdgeOut
  <2>4. CASE ~Adj(a, q)
    <3>1. told[<<a, q>>] = w[<<a, q>>]
      BY <1>10, <2>4, NoLine
    <3>. QED BY <2>1, <2>2, <2>4, <3>1, BothIdle
  <2>. QED BY <2>3, <2>4
<1>14. told[<<a, t>>] = w[<<a, t>>] /\ told[<<t, a>>] = w[<<t, a>>]
  BY <1>10
<1>15. /\ wire[<<t, a>>] \in Seq(Sent(gone)) /\ link[t][a] \in States /\ link[a][t] # "no" /\ Head(wire[<<t, a>>]) # EOF
       /\ wire[<<a, t>>] \in Seq(Sent(gone))
  BY StateParts DEF EOF
<1>16. D \in Seq(Sent(gone)) /\ lines \in Seq(Sent(gone))
  <2>1. D \in Seq(Sent(gone))
    BY <1>0, <1>3, BurstTells
  <2>2. OwnServer(a, t) \in Seq(Sent(gone))
    BY Kinds DEF OwnServer
  <2>. QED BY <1>4, <2>1, <2>2
<1>17. EdgeIn(t, a, srv[a], row, wire', crossed)
  <2>1. PICK K : K = Heard(a, t, srv[a])
    OBVIOUS
  <2>2. Edge(t, a, link[a][t], link[t][a], K, Told(t, a, srv[t], link[t]), wire[<<t, a>>], wire[<<a, t>>], crossed)
    BY <2>1, StateParts DEF Both, EdgeIn
  <2>3. Step(a, t, View(link[a][t], K), m) = View("on", K)
    BY DEF Step, View
  <2>4. Edge(t, a, "on", link[t][a], K, Told(t, a, srv[t], link[t]), Tail(wire[<<t, a>>]), wire[<<a, t>>], crossed)
    BY <1>15, <2>2, <2>3, EdgeHandled
  <2>5. wire'[<<a, t>>] = wire[<<a, t>>] \/ wire'[<<a, t>>] = wire[<<a, t>>] \o lines
    BY <1>0, <1>11, <1>14
  <2>6. Edge(t, a, "on", link[t][a], K, Told(t, a, srv[t], link[t]), Tail(wire[<<t, a>>]), wire'[<<a, t>>], crossed)
    BY <1>15, <1>16, <2>4, <2>5, EdgeMany
  <2>7. wire'[<<t, a>>] = Tail(wire[<<t, a>>])
    BY <1>0, <1>11, <1>14
  <2>. QED BY <1>9, <2>1, <2>6, <2>7 DEF EdgeIn
<1>18. EdgeOut(t, a, srv[a], row, wire', crossed)
  <2>1. PICK X : X = Told(a, t, srv[a], link[a])
    OBVIOUS
  <2>2. Told(a, t, srv[a], row) = X
    BY <1>0, <1>8, <2>1
  <2>3. Edge(a, t, link[t][a], link[a][t], Heard(t, a, srv[t]), X, wire[<<a, t>>], w[<<t, a>>], crossed)
    BY <1>0, <2>1 DEF EdgeOut
  <2>4. CASE link[t][a] = "no"
    <3>1. wire'[<<a, t>>] = wire[<<a, t>>]
      BY <1>0, <1>11, <1>14, <2>4
    <3>. QED BY <2>3, <2>4, <3>1, EdgeIdle DEF EdgeOut
  <2>5. CASE link[t][a] # "no"
    <3>1. wire'[<<a, t>>] = wire[<<a, t>>] \o lines
      BY <1>0, <1>11, <1>14, <2>5
    <3>2. a \in X
      <4>1. a \in Known(srv[a])
        BY <1>0, <1>1, KnownSides DEF Sound, Rooted
      <4>2. a \in Side(t, a) /\ a \notin Side(a, t)
        BY <1>0, <1>1, Sides DEF Sound, Rooted
      <4>. QED BY <2>1, <4>1, <4>2 DEF Told, Shy
    <3>3. /\ Announces(t, a, D)
          /\ \A i \in DOMAIN D : D[i] # EOF /\ D[i].t \notin {"PASS", "SERVER", "SQUIT"}
          /\ \A i \in DOMAIN D : D[i].t = "SID" => D[i].sid \in X
          /\ \A x \in X \ {a} : \E i \in DOMAIN D : D[i].t = "SID" /\ D[i].sid = x
      <4>1. a \in alive /\ Adj(a, t)
        BY <1>0
      <4>. QED BY ONLY IInv, NetInv, <4>1, t \in Servers, link[a][t] \in {"outPass", "inPass"}, <1>3, <2>1, BurstTells
    <3>4. PASS \in Sent(gone) /\ SERVER \in Sent(gone)
      BY Kinds
    <3>5. PICK A2 : A2 = wire[<<a, t>>] \o ((IF link[a][t] = "inPass" THEN <<PASS, SERVER>> ELSE << >>) \o D)
      OBVIOUS
    <3>6. wire'[<<a, t>>] = A2
      BY <1>4, <3>1, <3>5 DEF OwnServer
    <3>7. Edge(a, t, link[t][a], "on", Heard(t, a, srv[t]), X, A2, wire'[<<t, a>>], crossed)
      BY ONLY <1>15, <1>16, <2>3, <2>5, <3>2, <3>3, <3>4, <3>5, link[a][t] \in {"outPass", "inPass"}, EdgeBurst
    <3>. QED BY <1>9, <2>2, <3>6, <3>7 DEF EdgeOut
  <2>. QED BY <2>4, <2>5
<1>19. \A q \in Servers \ {a} : Both(q, a, srv[a], row, wire', crossed')
  BY <1>6, <1>13, <1>17, <1>18 DEF Both
<1>. QED BY <1>0, <1>6, <1>8, <1>12, <1>19, Frame

(* c_s_sid: a server behind t                                              *)
LEMMA SidStep ==
  ASSUME IInv, NetInv, NEW a \in Servers, NEW t \in Servers, a # t, wire[<<t, a>>] # << >>,
         NEW m, m = Head(wire[<<t, a>>]), NEW w, w = Rest(t, a),
         m.t = "SID", link[a][t] = "on", HandleSid(a, t, w, m)
  PROVE  NetInv'
<1>0. /\ w \in WireType(gone) /\ Elsewhere(a, w) /\ a \in alive /\ Adj(a, t) /\ m \in Sent(gone)
      /\ w[<<t, a>>] = Tail(wire[<<t, a>>]) /\ w[<<a, t>>] = wire[<<a, t>>] /\ Announce(a, t, m)
      /\ \A q \in Servers \ {a, t} : Both(q, a, srv[a], link[a], w, crossed)
      /\ EdgeOut(t, a, srv[a], link[a], w, crossed)
  <2>1. m.t # "SQUIT"
    OBVIOUS
  <2>2. Pops(a, t, m, w)
    BY DEF Pops
  <2>3. LineTaken(a, t, m, w)
    BY ONLY IInv, NetInv, a \in Servers, t \in Servers, <2>2, Popped
  <2>. QED BY ONLY <2>1, <2>3 DEF LineTaken
<1>1. Sound(a, srv[a], link[a]) /\ link \in LinkType /\ link[a] \in Rows /\ srv[a] \in Tables /\ srv \in [Servers -> Tables]
  BY <1>0, StateParts, Parts
<1>2. PICK p, x : p = m.src /\ x = m.sid
  OBVIOUS
<1>3. p \in Servers /\ x \in Servers /\ m # EOF
  BY <1>0, <1>2, Fields DEF Sent, EOF
<1>4. Adj(p, x) /\ {p, x} \subseteq Side(a, t) /\ a \in Side(x, p)
  BY <1>0, <1>2 DEF Announce
<1>5. CASE p \notin Known(srv[a])
  <2>1. Die(a, w)
    BY <1>2, <1>3, <1>5 DEF HandleSid, Known
  <2>2. \A q \in Servers \ {a} : w[<<a, q>>] = wire[<<a, q>>]
    <3>1. SUFFICES ASSUME NEW q \in Servers \ {a} PROVE w[<<a, q>>] = wire[<<a, q>>]
      OBVIOUS
    <3>2. wire \in WireType(gone)
      BY StateParts
    <3>3. <<a, q>> \in DOMAIN wire /\ <<a, q>> # <<t, a>>
      BY <3>2 DEF WireType
    <3>. QED BY <3>3 DEF Rest
  <2>. QED BY <1>0, <2>1, <2>2, DieStep
<1>6. CASE p \in Known(srv[a])
  <2>1. PICK st : st = IF Knows(srv[a], x) THEN srv[a] ELSE [srv[a] EXCEPT !.parent[x] = p]
    OBVIOUS
  <2>2. /\ Become(a, st) /\ wire' = Tell(w, a, st, t, m) /\ link' = link /\ alive' = alive /\ crossed' = crossed
    BY <1>2, <1>3, <1>6, <2>1 DEF HandleSid, Pass, SameLinks, Known
  <2>3. link[a][t] = "on" /\ x \notin Side(t, a) /\ a \notin {p, x} /\ t \in Servers
    BY <1>0, <1>4, Sides, SidesApart
  <2>4. /\ Rooted(a, st, link[a])
        /\ Heard(a, t, st) = Heard(a, t, srv[a]) \cup {x}
        /\ Told(a, t, st, link[a]) = Told(a, t, srv[a], link[a])
        /\ \A q : Adj(a, q) /\ q # t =>
             /\ Heard(a, q, st) = Heard(a, q, srv[a])
             /\ Told(a, q, st, link[a]) = Told(a, q, srv[a], link[a]) \cup {x}
    <3>1. CASE x \in Known(srv[a])
      <4>1. st = srv[a]
        BY <2>1, <3>1 DEF Known
      <4>2. Heard(a, t, srv[a]) = Heard(a, t, srv[a]) \cup {x}
        BY <1>4, <3>1 DEF Heard
      <4>3. ~Shy(a, srv[a], link[a], x)
        <5>1. SUFFICES ASSUME srv[a].parent[x] = a PROVE link[a][x] = "on"
          BY DEF Shy
        <5>2. Adj(a, x)
          BY <1>1, <2>3, <3>1, <5>1 DEF Sound, Rooted, Upward
        <5>3. x = t
          BY <1>0, <1>4, <5>2, NeighboursApart, Sides
        <5>. QED BY <5>3
      <4>4. ASSUME NEW q, Adj(a, q), q # t PROVE x \in Told(a, q, srv[a], link[a])
        <5>1. x \in Side(q, a)
          BY <1>0, <1>4, <4>4, SideInside, Sides
        <5>. QED BY <3>1, <4>3, <5>1 DEF Told
      <4>5. \A q : Adj(a, q) /\ q # t => Told(a, q, srv[a], link[a]) = Told(a, q, srv[a], link[a]) \cup {x}
        BY <4>4
      <4>. QED BY <1>1, <4>1, <4>2, <4>5 DEF Sound
    <3>2. CASE x \notin Known(srv[a])
      <4>1. st.parent = [srv[a].parent EXCEPT ![x] = p]
        BY <1>1, <1>3, <2>1, <3>2 DEF Known, Tables
      <4>2. PICK old, r : old = srv[a] /\ r = link[a]
        OBVIOUS
      <4>3. /\ Sound(a, old, r) /\ p \in Known(old) /\ x \notin Known(old) /\ r[t] = "on"
            /\ st.parent = [old.parent EXCEPT ![x] = p]
        BY <1>1, <1>6, <3>2, <4>1, <4>2
      <4>4. /\ Adj(a, t) /\ p \in Side(a, t) /\ x \in Side(a, t) /\ x \in Servers
            /\ Adj(p, x) /\ a \in Side(x, p)
        BY <1>0, <1>3, <1>4
      <4>5. /\ Rooted(a, st, r) /\ Heard(a, t, st) = Heard(a, t, old) \cup {x} /\ Told(a, t, st, r) = Told(a, t, old, r)
            /\ \A q : Adj(a, q) /\ q # t =>
                 Heard(a, q, st) = Heard(a, q, old) /\ Told(a, q, st, r) = Told(a, q, old, r) \cup {x}
        BY ONLY <4>3, <4>4, a \in Servers, NewBehind
      <4>. QED BY ONLY <4>2, <4>5
    <3>. QED BY <3>1, <3>2
  <2>5. \A y, z \in Servers : y # z =>
          wire'[<<y, z>>] = IF y = a /\ st.parent[z] = a /\ z # t /\ link[z][a] # "no"
                            THEN Append(w[<<y, z>>], m) ELSE w[<<y, z>>]
    BY <1>0, <2>2, TellLines
  <2>6. Elsewhere(a, wire')
    BY <1>0, <2>5 DEF Elsewhere
  <2>7. ASSUME NEW q \in Servers \ {a, t} PROVE Both(q, a, st, link[a], wire', crossed)
    <3>1. wire'[<<q, a>>] = w[<<q, a>>]
      BY <2>5
    <3>2. Both(q, a, srv[a], link[a], w, crossed)
      BY <1>0
    <3>3. CASE Adj(a, q)
      <4>1. /\ link[q][a] \in States /\ link[a][q] \in States /\ Adj(q, a)
            /\ w[<<q, a>>] \in Seq(Sent(gone)) /\ w[<<a, q>>] \in Seq(Sent(gone))
        BY <1>0, <3>3, StateParts, LineTyped, Sides, << >> \in Seq(Sent(gone))
      <4>2. st.parent[q] = a <=> link[a][q] \in Passed
        BY <2>4 DEF Rooted
      <4>3. PICK B2 : B2 = wire'[<<a, q>>]
        OBVIOUS
      <4>4. B2 = IF link[a][q] \in Passed /\ link[q][a] # "no" THEN Append(w[<<a, q>>], m) ELSE w[<<a, q>>]
        BY <2>5, <4>2, <4>3
      <4>5. m # EOF /\ m.t = "SID"
        BY <1>3
      <4>6. Announce(q, a, m)
        <5>1. {p, x} \subseteq Side(q, a)
          BY <1>0, <1>4, <4>1, SideInside
        <5>2. q \in Side(x, p)
          <6>1. Adj(x, p) /\ {a, q} # {x, p}
            BY <1>4, <2>3, Sides
          <6>. QED BY <1>4, <3>3, <6>1, Sides
        <5>. QED BY <1>2, <1>4, <5>1, <5>2 DEF Announce
      <4>7. /\ Edge(q, a, link[a][q], link[q][a], Heard(a, q, srv[a]), Told(q, a, srv[q], link[q]),
                    w[<<q, a>>], w[<<a, q>>], crossed)
            /\ Edge(a, q, link[q][a], link[a][q], Heard(q, a, srv[q]), Told(a, q, srv[a], link[a]),
                    w[<<a, q>>], w[<<q, a>>], crossed)
        BY <3>2 DEF Both, EdgeIn, EdgeOut
      <4>8. B2 = w[<<a, q>>] \/ B2 = Append(w[<<a, q>>], m)
        BY <4>4
      <4>9. Edge(q, a, link[a][q], link[q][a], Heard(a, q, srv[a]), Told(q, a, srv[q], link[q]),
                 w[<<q, a>>], B2, crossed)
        BY ONLY <4>1, <4>7, <4>8, EdgeMore
      <4>10. Edge(a, q, link[q][a], link[a][q], Heard(q, a, srv[q]), Told(a, q, srv[a], link[a]) \cup {m.sid},
                 B2, w[<<q, a>>], crossed)
        BY ONLY <4>1, <4>4, <4>5, <4>6, <4>7, EdgeToldSid
      <4>11. /\ Told(a, q, st, link[a]) = Told(a, q, srv[a], link[a]) \cup {m.sid}
             /\ Heard(a, q, st) = Heard(a, q, srv[a])
        BY <1>2, <2>4, <3>3
      <4>. QED BY <3>1, <4>3, <4>9, <4>10, <4>11 DEF Both, EdgeIn, EdgeOut
    <3>4. CASE ~Adj(a, q)
      <4>1. wire'[<<a, q>>] = w[<<a, q>>]
        BY <2>5, <3>4, NoLine
      <4>. QED BY <3>1, <3>2, <3>4, <4>1, BothIdle
    <3>. QED BY <3>3, <3>4
  <2>8. wire'[<<a, t>>] = wire[<<a, t>>] /\ wire'[<<t, a>>] = Tail(wire[<<t, a>>])
    BY <1>0, <2>5
  <2>9. EdgeIn(t, a, st, link[a], wire', crossed)
    <3>1. PICK K : K = Heard(a, t, srv[a])
      OBVIOUS
    <3>2. Edge(t, a, link[a][t], link[t][a], K, Told(t, a, srv[t], link[t]), wire[<<t, a>>], wire[<<a, t>>], crossed)
      BY <3>1, StateParts DEF Both, EdgeIn
    <3>3. Step(a, t, View(link[a][t], K), m) = View("on", K \cup {x})
      <4>1. m.src \in K
        BY <1>2, <1>4, <1>6, <3>1 DEF Heard
      <4>. QED BY <1>2, <4>1 DEF Step, View
    <3>4. wire[<<t, a>>] \in Seq(Sent(gone)) /\ link[t][a] \in States /\ link[a][t] # "no" /\ Head(wire[<<t, a>>]) # EOF
      BY <1>3, StateParts
    <3>5. Edge(t, a, "on", link[t][a], K \cup {x}, Told(t, a, srv[t], link[t]), Tail(wire[<<t, a>>]), wire[<<a, t>>], crossed)
      BY <3>2, <3>3, <3>4, EdgeHandled
    <3>. QED BY <2>4, <2>8, <3>1, <3>5 DEF EdgeIn
  <2>10. EdgeOut(t, a, st, link[a], wire', crossed)
    BY <1>0, <2>4, <2>8 DEF EdgeOut
  <2>11. \A q \in Servers \ {a} : Both(q, a, st, link[a], wire', crossed')
    BY <2>2, <2>7, <2>9, <2>10 DEF Both
  <2>12. link' = [link EXCEPT ![a] = link[a]]
    BY <1>1, <2>2 DEF LinkType
  <2>. QED BY <1>0, <2>2, <2>4, <2>6, <2>11, <2>12, Frame
<1>. QED BY <1>5, <1>6

(* c_a_squit, without where it came from                                   *)
LEMMA SquitAtStep ==
  ASSUME IInv, NetInv, NEW a \in alive, NEW w \in WireType(gone), Elsewhere(a, w), NEW from,
         NEW out \in Known(srv[a]), out # a, NEW st, NEW row, Forgets(a, out, st, row), Become(a, st),
         link' = [link EXCEPT ![a] = row], alive' = alive, crossed => crossed',
         NEW told, told = Tell(w, a, srv[a], from, SQUIT(out)),
         srv[a].parent[out] = a => wire' = Closed(told, a, out) /\ Announces(out, a, w[<<a, out>>]),
         srv[a].parent[out] # a => wire' = told /\ Both(out, a, srv[a], link[a], w, crossed'),
         \A q \in Servers \ {a, out, from} : Both(q, a, srv[a], link[a], w, crossed'),
         from \in Servers \ {a, out} => Both(from, a, st, row, told, crossed')
  PROVE  NetInv'
<1>0. /\ a \in Servers /\ out \in Servers /\ Sound(a, srv[a], link[a]) /\ link[a] \in Rows
  BY StateParts DEF Known
<1>1. /\ row = IF srv[a].parent[out] = a THEN [link[a] EXCEPT ![out] = "no"] ELSE link[a]
      /\ st.parent = [x \in Servers |-> IF x \in Below(srv[a], out) THEN None ELSE srv[a].parent[x]]
  BY DEF Forgets
<1>2. Rooted(a, st, row)
  BY <1>0, <1>1, Removed
<1>3. told \in WireType(gone)
  BY <1>0, Kinds, TellTyped
<1>4. \A x, y \in Servers : x # y =>
        told[<<x, y>>] = IF x = a /\ srv[a].parent[y] = a /\ y # from /\ link[y][a] # "no"
                         THEN Append(w[<<x, y>>], SQUIT(out)) ELSE w[<<x, y>>]
  BY TellLines
<1>5. \A x, y \in Servers : x # y /\ {x, y} # {a, out} => wire'[<<x, y>>] = told[<<x, y>>]
  BY <1>0, <1>3, ClosedLines
<1>6. Elsewhere(a, wire')
  BY <1>4, <1>5 DEF Elsewhere
<1>7. ASSUME NEW q \in Servers \ {a, out} PROVE Both(q, a, st, row, wire', crossed')
  <2>1. Both(q, a, st, row, told, crossed')
    <3>1. CASE q = from
      BY <3>1
    <3>2. CASE q # from
      <4>1. Both(q, a, srv[a], link[a], w, crossed')
        BY <3>2
      <4>2. Removal(a, out, w, from, told, st, row)
        BY DEF Removal
      <4>. QED BY ONLY IInv, NetInv, a \in alive, q \in Servers \ {a, out}, <3>2, <4>1, <4>2, ForgetOther
    <3>. QED BY <3>1, <3>2
  <2>2. wire'[<<q, a>>] = told[<<q, a>>] /\ wire'[<<a, q>>] = told[<<a, q>>]
    BY <1>0, <1>5
  <2>. QED BY <2>1, <2>2 DEF Both, EdgeIn, EdgeOut
<1>8. CASE srv[a].parent[out] = a
  <2>1. Adj(a, out) /\ row[out] = "no" /\ wire' = Closed(told, a, out)
    BY <1>0, <1>1, <1>8 DEF Sound, Rooted, Upward, Rows
  <2>2. Announces(out, a, told[<<a, out>>])
    <3>1. PICK n : n = SQUIT(out)
      OBVIOUS
    <3>2. told[<<a, out>>] = w[<<a, out>>] \/ told[<<a, out>>] = Append(w[<<a, out>>], n)
      BY <1>0, <1>4, <3>1
    <3>3. w[<<a, out>>] \in Seq(Sent(gone)) /\ Announce(out, a, n) /\ Announces(out, a, w[<<a, out>>])
      BY <1>0, <1>8, <3>1, LineTyped, << >> \in Seq(Sent(gone)), NamesOfLines DEF Announce
    <3>. QED BY <3>2, <3>3, OneMore
  <2>3. Both(out, a, st, row, wire', crossed')
    BY <1>0, <1>3, <2>1, <2>2, CloseTo
  <2>4. \A q \in Servers \ {a} : Both(q, a, st, row, wire', crossed')
    BY <1>7, <2>3
  <2>. QED BY <1>0, <1>2, <1>6, <2>4, Frame
<1>9. CASE srv[a].parent[out] # a
  <2>1. ~Adj(a, out) /\ row = link[a]
    BY <1>0, <1>1, <1>9, KnownSides DEF Sound, Rooted
  <2>2. wire' = told
    BY <1>9
  <2>3. wire'[<<out, a>>] = w[<<out, a>>] /\ wire'[<<a, out>>] = w[<<a, out>>]
    BY <1>0, <1>4, <1>9, <2>2
  <2>4. Both(out, a, st, row, wire', crossed')
    BY <1>0, <1>9, <2>1, <2>3, BothIdle
  <2>5. \A q \in Servers \ {a} : Both(q, a, st, row, wire', crossed')
    BY <1>7, <2>4
  <2>. QED BY <1>0, <1>2, <1>6, <2>5, Frame
<1>. QED BY <1>8, <1>9

(* SQUIT of an operator                                                    *)
LEMMA SquitStep ==
  ASSUME IInv, NetInv, NEW a \in Servers, NEW out \in Servers, a # out, Squit(a, out)
  PROVE  NetInv'
<1>1. /\ a \in alive /\ out \in Known(srv[a]) /\ crossed' = crossed /\ SquitAt(a, wire, None, out)
  BY DEF Squit, Known
<1>2. srv[a] \in Tables /\ wire \in WireType(gone) /\ link \in LinkType
  BY Parts, StateParts
<1>3. PICK st, row : /\ st = ServerDestroy(srv[a], out)
                     /\ row = IF srv[a].parent[out] = a THEN [link[a] EXCEPT ![out] = "no"] ELSE link[a]
  OBVIOUS
<1>4. Forgets(a, out, st, row)
  BY <1>2, <1>3, DestroyedParents DEF Forgets
<1>5. PICK told : told = Tell(wire, a, srv[a], None, SQUIT(out))
  OBVIOUS
<1>6. out \notin {a, None}
  BY NetAssumption
<1>7. /\ Become(a, st) /\ alive' = alive
      /\ wire' = IF srv[a].parent[out] = a THEN Closed(told, a, out) ELSE told
      /\ link' = IF srv[a].parent[out] = a THEN [link EXCEPT ![a][out] = "no"] ELSE link
  BY <1>1, <1>3, <1>5, <1>6 DEF SquitAt
<1>8. link' = [link EXCEPT ![a] = row]
  BY <1>2, <1>3, <1>7 DEF LinkType
<1>9. \A q \in Servers \ {a} : Both(q, a, srv[a], link[a], wire, crossed')
  BY <1>1, StateParts
<1>10. Announces(out, a, wire[<<a, out>>])
  <2>1. Edge(a, out, link[out][a], link[a][out], Heard(out, a, srv[out]), Told(a, out, srv[a], link[a]),
             wire[<<a, out>>], wire[<<out, a>>], crossed)
    BY StateParts DEF Both, EdgeOut
  <2>. QED BY <2>1 DEF Edge, Announces
<1>11. Elsewhere(a, wire) /\ None \notin Servers
  BY NetAssumption DEF Elsewhere
<1>12. srv[a].parent[out] = a => wire' = Closed(told, a, out) /\ Announces(out, a, wire[<<a, out>>])
  BY <1>7, <1>10
<1>13. srv[a].parent[out] # a => wire' = told /\ Both(out, a, srv[a], link[a], wire, crossed')
  BY <1>7, <1>9
<1>. QED BY ONLY IInv, NetInv, a # out, <1>1, <1>2, <1>4, <1>5, <1>7, <1>8, <1>9, <1>11, <1>12, <1>13, SquitAtStep

(* A SQUIT of a server that is not known                                   *)
LEMMA IgnoredSquit ==
  ASSUME IInv, NetInv, NEW a \in Servers, NEW t \in Servers, a # t, wire[<<t, a>>] # << >>,
         NEW m, m = Head(wire[<<t, a>>]), NEW w, w = Rest(t, a),
         m.t = "SQUIT", link[a][t] = "on", m.sid # a, m.sid \notin Known(srv[a]), Ignore(w)
  PROVE  NetInv'
<1>0. w \in WireType(gone) /\ Elsewhere(a, w) /\ a \in alive
  <2>1. Pops(a, t, m, w)
    BY DEF Pops
  <2>2. LineTaken(a, t, m, w)
    BY ONLY IInv, NetInv, a \in Servers, t \in Servers, <2>1, Popped
  <2>. QED BY ONLY <2>2 DEF LineTaken
<1>1. Sound(a, srv[a], link[a]) /\ srv \in [Servers -> Tables]
  BY <1>0, StateParts, Parts
<1>2. PICK k : k = Heard(a, t, srv[a])
  OBVIOUS
<1>3. Known(srv[a]) \cap Beyond(a, m.sid) = {}
  BY <1>1, UnknownBeyond
<1>4. Step(a, t, View(link[a][t], k), m) = View(link[a][t], k)
  <2>1. k \ Beyond(a, m.sid) = k
    BY <1>2, <1>3 DEF Heard
  <2>. QED BY <2>1 DEF Step, View
<1>5. m # EOF
  BY DEF EOF
<1>6. Ways(a, srv[a], link[a], w, crossed)
  BY <1>2, <1>3, <1>4, <1>5, PoppedWays
<1>7. Become(a, srv[a]) /\ wire' = w /\ link' = link /\ alive' = alive /\ crossed' = crossed
  BY <1>1 DEF Ignore, SameLinks, Become
<1>. QED BY ONLY IInv, NetInv, <1>0, <1>6, <1>7, NeutralStep

(* A SQUIT of a server that is                                             *)
LEMMA HandledSquit ==
  ASSUME IInv, NetInv, NEW a \in Servers, NEW t \in Servers, a # t, wire[<<t, a>>] # << >>,
         NEW m, m = Head(wire[<<t, a>>]), NEW w, w = Rest(t, a),
         m.t = "SQUIT", link[a][t] = "on", m.sid = a \/ m.sid \in Known(srv[a]), HandleSquit(a, t, w, m)
  PROVE  NetInv'
<1>0. /\ w \in WireType(gone) /\ Elsewhere(a, w) /\ a \in alive /\ Adj(a, t) /\ m \in Sent(gone)
      /\ w[<<t, a>>] = Tail(wire[<<t, a>>]) /\ w[<<a, t>>] = wire[<<a, t>>]
      /\ \A q \in Servers \ {a, t} : Both(q, a, srv[a], link[a], w, crossed)
  <2>1. Pops(a, t, m, w)
    BY DEF Pops
  <2>2. LineTaken(a, t, m, w)
    BY ONLY IInv, NetInv, a \in Servers, t \in Servers, <2>1, Popped
  <2>. QED BY ONLY <2>2 DEF LineTaken
<1>1. /\ Sound(a, srv[a], link[a]) /\ link \in LinkType /\ link[a] \in Rows /\ srv[a] \in Tables
      /\ crossed \in BOOLEAN
  BY <1>0, StateParts, Parts DEF Books
<1>2. PICK out : out = IF m.sid \in {a, t} THEN t ELSE m.sid
  OBVIOUS
<1>3. srv[a].parent[t] = a /\ t \in Known(srv[a])
  <2>1. srv[a].parent[t] = a
    BY <1>1 DEF Sound, Rooted, Passed
  <2>. QED BY <1>0, <1>1, <2>1, KnownSides DEF Sound, Rooted
<1>4. out \in Known(srv[a]) /\ out # a /\ out \in Servers
  BY <1>2, <1>3 DEF Known
<1>5. /\ SquitAt(a, w, t, m.sid)
      /\ crossed' = \/ crossed
                    \/ /\ m.sid \notin {a, t}
                       /\ CameBack(a, t, w, Knows(srv[t], m.sid), {SID(p, m.sid) : p \in Servers})
  BY DEF HandleSquit, Known
<1>6. PICK st, row : /\ st = ServerDestroy(srv[a], out)
                     /\ row = IF srv[a].parent[out] = a THEN [link[a] EXCEPT ![out] = "no"] ELSE link[a]
  OBVIOUS
<1>7. Forgets(a, out, st, row)
  BY <1>1, <1>6, DestroyedParents DEF Forgets
<1>8. PICK told : told = Tell(w, a, srv[a], t, SQUIT(out))
  OBVIOUS
<1>9. /\ Become(a, st) /\ alive' = alive
      /\ wire' = IF srv[a].parent[out] = a THEN Closed(told, a, out) ELSE told
      /\ link' = IF srv[a].parent[out] = a THEN [link EXCEPT ![a][out] = "no"] ELSE link
  BY <1>2, <1>5, <1>6, <1>8 DEF SquitAt
<1>10. link' = [link EXCEPT ![a] = row]
  BY <1>1, <1>6, <1>9 DEF LinkType
<1>11. crossed => crossed'
  BY <1>5
<1>12. \A q \in Servers \ {a, t} : Both(q, a, srv[a], link[a], w, crossed')
  <2>1. SUFFICES ASSUME NEW q \in Servers \ {a, t} PROVE Both(q, a, srv[a], link[a], w, crossed')
    OBVIOUS
  <2>2. Both(q, a, srv[a], link[a], w, crossed)
    BY <1>0
  <2>3. q \in Servers \ {a}
    OBVIOUS
  <2>. QED BY ONLY IInv, NetInv, a \in Servers, <1>0, <1>1, <1>11, <2>2, <2>3, BothLater
<1>13. \A x, y \in Servers : x # y =>
         told[<<x, y>>] = IF x = a /\ srv[a].parent[y] = a /\ y # t /\ link[y][a] # "no"
                          THEN Append(w[<<x, y>>], SQUIT(out)) ELSE w[<<x, y>>]
  BY <1>0, <1>8, TellLines
<1>14. told[<<t, a>>] = Tail(wire[<<t, a>>]) /\ told[<<a, t>>] = wire[<<a, t>>]
  BY <1>0, <1>13
<1>15. ASSUME NEW q \in Servers \ {a} PROVE Announces(q, a, wire[<<a, q>>])
  <2>1. Edge(a, q, link[q][a], link[a][q], Heard(q, a, srv[q]), Told(a, q, srv[a], link[a]),
             wire[<<a, q>>], wire[<<q, a>>], crossed)
    BY StateParts DEF Both, EdgeOut
  <2>. QED BY <2>1 DEF Edge, Announces
<1>16. w[<<a, out>>] = wire[<<a, out>>]
  <2>1. wire \in WireType(gone) /\ <<a, out>> # <<t, a>>
    BY StateParts
  <2>2. <<a, out>> \in DOMAIN wire
    BY <1>4, <2>1 DEF WireType
  <2>. QED BY <2>1, <2>2 DEF Rest
<1>17. srv[a].parent[out] = a => wire' = Closed(told, a, out) /\ Announces(out, a, w[<<a, out>>])
  BY <1>4, <1>9, <1>15, <1>16
<1>18. srv[a].parent[out] # a => wire' = told /\ Both(out, a, srv[a], link[a], w, crossed')
  BY <1>3, <1>4, <1>9, <1>12
<1>19. ASSUME t # out PROVE Both(t, a, st, row, told, crossed')
  <2>1. out = m.sid /\ out \notin {a, t}
    BY <1>2, <1>19
  <2>2. row[t] = "on"
    BY <1>1, <1>6, <1>19 DEF Rows
  <2>3. /\ Heard(a, t, st) = Heard(a, t, srv[a]) \ Beyond(a, out)
        /\ Told(a, t, st, row) = Told(a, t, srv[a], link[a]) \ Beyond(a, out)
    BY <1>1, <1>4, <1>7, Removed DEF Forgets
  <2>4. PICK A, B : A = wire[<<t, a>>] /\ B = wire[<<a, t>>]
    OBVIOUS
  <2>5. /\ A \in Seq(Sent(gone)) /\ B \in Seq(Sent(gone)) /\ A # << >> /\ Head(A) = m
        /\ link[t][a] \in States /\ m # EOF /\ told[<<t, a>>] = Tail(A) /\ told[<<a, t>>] = B
    BY <1>14, <2>4, StateParts DEF EOF
  <2>6. /\ Edge(t, a, "on", link[t][a], Heard(a, t, srv[a]), Told(t, a, srv[t], link[t]), A, B, crossed)
        /\ Edge(a, t, link[t][a], "on", Heard(t, a, srv[t]), Told(a, t, srv[a], link[a]), B, A, crossed)
    BY <2>4, StateParts DEF Both, EdgeIn, EdgeOut
  <2>7. EdgeIn(t, a, st, row, told, crossed')
    <3>1. PICK K, K2 : K = Heard(a, t, srv[a]) /\ K2 = K \ Beyond(a, out)
      OBVIOUS
    <3>2. Step(a, t, View("on", K), m) = View("on", K2)
      BY <2>1, <3>1 DEF Step, View
    <3>3. Edge(t, a, "on", link[t][a], K2, Told(t, a, srv[t], link[t]), Tail(A), B, crossed)
      BY <2>5, <2>6, <3>1, <3>2, EdgeHandled
    <3>4. Edge(t, a, "on", link[t][a], K2, Told(t, a, srv[t], link[t]), Tail(A), B, crossed')
      <4>1. PICK X : X = Told(t, a, srv[t], link[t])
        OBVIOUS
      <4>2. Edge(t, a, "on", link[t][a], K2, X, Tail(A), B, crossed) /\ link[t][a] \in States
        BY <2>5, <3>3, <4>1
      <4>3. X \subseteq X /\ X \cap Cut(t, B) \subseteq Cut(t, B)
        OBVIOUS
      <4>4. Edge(t, a, "on", link[t][a], K2, X, Tail(A), B, crossed')
        BY ONLY <1>11, <4>2, <4>3, EdgeLater
      <4>. QED BY <4>1, <4>4
    <3>. QED BY <2>2, <2>3, <2>5, <3>1, <3>4 DEF EdgeIn
  <2>8. EdgeOut(t, a, st, row, told, crossed')
    <3>1. PICK h, K, X : h = link[t][a] /\ K = Heard(t, a, srv[t]) /\ X = Told(a, t, srv[a], link[a])
      OBVIOUS
    <3>2. Edge(a, t, h, "on", K, X, B, A, crossed)
      BY <2>6, <3>1
    <3>3. CASE h = "no"
      <4>1. Edge(a, t, h, "on", K, X \ Beyond(a, out), B, Tail(A), crossed')
        BY <3>2, <3>3, EdgeIdle
      <4>. QED BY <2>2, <2>3, <2>5, <3>1, <4>1 DEF EdgeOut
    <3>4. CASE h # "no"
      <4>1. t \in alive /\ Sound(t, srv[t], link[t])
        BY <3>1, <3>4, StateParts
      <4>2. ASSUME ~crossed'
            PROVE  K \cap Beyond(t, out) = {} /\ \A i \in DOMAIN B : B[i].t = "SID" => B[i].sid # out
        <5>1. /\ ~Knows(srv[t], out)
              /\ \A i \in DOMAIN B : B[i] \notin {SID(p, out) : p \in Servers}
          BY <1>0, <1>5, <2>1, <2>4, <4>2 DEF CameBack
        <5>2. out \notin Known(srv[t]) /\ out # t
          BY <2>1, <5>1 DEF Known
        <5>3. Known(srv[t]) \cap Beyond(t, out) = {}
          BY <4>1, <5>2, UnknownBeyond
        <5>4. ASSUME NEW i \in DOMAIN B, B[i].t = "SID", B[i].sid = out PROVE FALSE
          <6>1. B[i] \in Messages
            BY <2>5 DEF Sent
          <6>2. \E p, x \in Servers : B[i] = SID(p, x)
            BY <5>4, <6>1 DEF Messages, PASS, SERVER, EOF, SID, SQUIT, EUID, NICK, QUIT, KILL, JOIN, PART,
                              ModeLines, ChanLines
          <6>. QED BY <5>1, <5>4, <6>2, NamesOfLines
        <5>. QED BY <3>1, <5>3, <5>4 DEF Heard
      <4>3. Edge(a, t, h, "on", K, X \ Beyond(a, out), B, Tail(A), crossed')
        <5>1. Head(A).t = "SQUIT" /\ out = Head(A).sid
          BY <2>1, <2>5
        <5>2. crossed' \/ (K \cap Beyond(t, out) = {} /\ \A i \in DOMAIN B : B[i].t = "SID" => B[i].sid # out)
          BY <3>4, <4>2
        <5>3. out \notin {t, a}
          BY <2>1
        <5>. QED BY ONLY <1>11, <2>5, <3>2, <5>1, <5>2, <5>3, EdgeAsked
      <4>. QED BY <2>2, <2>3, <2>5, <3>1, <4>3 DEF EdgeOut
    <3>. QED BY <3>3, <3>4
  <2>. QED BY <2>7, <2>8 DEF Both
<1>20. \A q \in Servers \ {a, out, t} : Both(q, a, srv[a], link[a], w, crossed')
  BY <1>12
<1>21. t \in Servers \ {a, out} => Both(t, a, st, row, told, crossed')
  BY <1>19
<1>. QED BY ONLY IInv, NetInv, <1>0, <1>4, <1>7, <1>8, <1>9, <1>10, <1>11, <1>17, <1>18, <1>20, <1>21, SquitAtStep

(* The two ways of a new connection: nothing came yet, and a was sent PASS *)
(* and SERVER.                                                             *)
LEMMA EdgeNew ==
  ASSUME NEW a, NEW b, Adj(a, b), NEW X, NEW B, NEW c
  PROVE  /\ Edge(b, a, "out", "in", {}, X, << >>, B, c)
         /\ a \in X => Edge(a, b, "in", "out", {}, X, <<PASS, SERVER>>, B, c)
<1>1. Adj(b, a) /\ a \in Side(b, a)
  BY Sides
<1>2. Edge(b, a, "out", "in", {}, X, << >>, B, c)
  <2>1. View("out", {}) \in Views(a, b) /\ View("out", {}).k = {}
    BY ViewTyped DEF States
  <2>2. Ends(a, b, View("out", {}), << >>, View("out", {}))
    BY <2>1, EndsNone
  <2>3. Fit(b, "out", "in", X, Cut(b, B), c, View("out", {}))
    BY <2>1 DEF Fit
  <2>4. \A s, t : Announces(s, t, << >>) /\ Going(s, t, << >>) /\ ~Registers(<< >>)
    BY DEF Announces, Going, Registers
  <2>. QED BY <2>2, <2>3, <2>4 DEF Edge
<1>3. ASSUME a \in X PROVE Edge(a, b, "in", "out", {}, X, <<PASS, SERVER>>, B, c)
  <2>1. PICK v0, v1, v2 : v0 = View("in", {}) /\ v1 = View("inPass", {a}) /\ v2 = View("on", {a})
    OBVIOUS
  <2>2. /\ v0 \in Views(b, a) /\ v1 \in Views(b, a) /\ v2 \in Views(b, a)
        /\ v0.h = "in" /\ ~v0.dead /\ v1.h = "inPass" /\ ~v1.dead /\ v1.k = {a} /\ v2.h = "on" /\ v2.k = {a}
    BY <1>1, <2>1, ViewTyped DEF States
  <2>3. Step(b, a, v0, PASS) = v1
    BY <2>1, <2>2, NamesOfLines DEF Step
  <2>4. Step(b, a, v1, SERVER) = v2
    BY <2>1, <2>2, NamesOfLines DEF Step
  <2>5. Announce(b, a, PASS) /\ Announce(b, a, SERVER)
    BY NamesOfLines DEF Announce
  <2>6. PICK M : M = {PASS, SERVER}
    OBVIOUS
  <2>7. << >> \in Seq(M) /\ Append(<< >>, PASS) \in Seq(M)
    BY <2>6
  <2>8. Ends(b, a, v0, << >>, v0)
    BY <2>2, EndsNone
  <2>9. Ends(b, a, v0, Append(<< >>, PASS), v1)
    BY <1>1, <2>3, <2>5, <2>7, <2>8, EndsAppend
  <2>10. Ends(b, a, v0, Append(Append(<< >>, PASS), SERVER), v2)
    BY <1>1, <2>4, <2>5, <2>7, <2>9, EndsAppend
  <2>11. PICK A : A = <<PASS, SERVER>>
    OBVIOUS
  <2>12. A = Append(Append(<< >>, PASS), SERVER)
    BY <2>11
  <2>13. Ends(b, a, View("in", {}), A, v2)
    BY <2>1, <2>10, <2>12
  <2>14. DOMAIN A = 1..2 /\ A[1] = PASS /\ A[2] = SERVER /\ \A i \in 1..2 : i = 1 \/ i = 2
    BY <2>11
  <2>15. Announces(b, a, A)
    BY <2>5, <2>14 DEF Announces
  <2>16. Going(b, a, A)
    BY <2>14, NamesOfLines DEF Going, PASS, SERVER, EOF
  <2>17. Fit(a, "in", "out", X, Cut(a, B), c, v2)
    BY <1>3, <2>2 DEF Fit
  <2>. QED BY <1>1, <2>11, <2>13, <2>15, <2>16, <2>17 DEF Edge
<1>. QED BY <1>2, <1>3

(* u_link_connect                                                          *)
LEMMA ConnectStep ==
  ASSUME IInv, NetInv, NEW a \in Servers, NEW b \in Servers, a # b, Connect(a, b)
  PROVE  NetInv'
<1>1. /\ srv' = srv /\ alive' = alive /\ crossed' = crossed /\ a \in alive /\ b \in alive
      /\ link[a][b] = "no" /\ link[b][a] = "no" /\ Adj(a, b) /\ Adj(b, a)
  BY DEF Connect, Adj
<1>2. \A s, t \in Servers :
         link'[s][t] = IF s = a /\ t = b THEN "out" ELSE IF s = b /\ t = a THEN "in" ELSE link[s][t]
  BY StateParts DEF Connect, LinkType
<1>3. \A s, t \in Servers : s # t =>
         wire'[<<s, t>>] = IF s = a /\ t = b THEN <<PASS, SERVER>> ELSE wire[<<s, t>>]
  <2>1. PICK L, w : L = <<PASS, SERVER>> /\ w = wire'
    OBVIOUS
  <2>2. w = [wire EXCEPT ![<<a, b>>] = L]
    BY <2>1 DEF Connect
  <2>3. wire \in WireType(gone)
    BY StateParts
  <2>4. \A s, t \in Servers : s # t => w[<<s, t>>] = IF s = a /\ t = b THEN L ELSE wire[<<s, t>>]
    BY ONLY <2>2, <2>3, OtherLines
  <2>. QED BY <2>1, <2>4
<1>4. ASSUME NEW s \in alive
      PROVE  Rooted(s, srv[s], link'[s]) /\ \A q : Told(s, q, srv[s], link'[s]) = Told(s, q, srv[s], link[s])
  <2>1. Sound(s, srv[s], link[s]) /\ s \in Servers
    BY StateParts
  <2>2. CASE s \notin {a, b}
    <3>1. link'[s] = link[s]
      BY <2>1, <2>2, StateParts DEF Connect, LinkType
    <3>. QED BY <2>1, <3>1 DEF Sound
  <2>3. CASE s = a
    <3>1. link'[s] = [link[s] EXCEPT ![b] = link'[s][b]] /\ link'[s][b] = "out"
      BY <2>1, <2>3, StateParts DEF Connect, LinkType
    <3>. QED BY <1>1, <2>1, <2>3, <3>1, NotPassed DEF Passed
  <2>4. CASE s = b
    <3>1. link'[s] = [link[s] EXCEPT ![a] = link'[s][a]] /\ link'[s][a] = "in"
      BY <2>1, <2>4, StateParts DEF Connect, LinkType
    <3>. QED BY <1>1, <2>1, <2>4, <3>1, NotPassed DEF Passed
  <2>. QED BY <2>2, <2>3, <2>4
<1>5. ASSUME NEW s \in Servers, NEW q PROVE Told(s, q, srv[s], link'[s]) = Told(s, q, srv[s], link[s])
  <2>1. CASE s \in alive
    BY <1>4, <2>1
  <2>2. CASE s \notin alive
    <3>1. link'[s] = link[s]
      BY <1>1, <2>2, StateParts DEF Connect, LinkType
    <3>. QED BY <3>1
  <2>. QED BY <2>1, <2>2
<1>6. wire[<<a, b>>] = << >> /\ wire[<<b, a>>] = << >>
  <2>1. EdgeIn(a, b, srv[b], link[b], wire, crossed) /\ EdgeIn(b, a, srv[a], link[a], wire, crossed)
    BY DEF NetInv
  <2>. QED BY <1>1, <2>1, EdgeIdle DEF EdgeIn
<1>7. ASSUME NEW s \in alive, NEW t \in Servers, Adj(s, t), link[s][t] = "no"
      PROVE  Heard(s, t, srv[s]) = {} /\ s \in Told(s, t, srv[s], link[s])
  <2>1. Sound(s, srv[s], link[s]) /\ s \in Servers /\ s # t
    BY <1>7, StateParts, Sides
  <2>2. srv[s].parent[t] # s
    BY <1>7, <2>1 DEF Sound, Rooted, Passed
  <2>3. s \in Known(srv[s]) /\ t \notin Known(srv[s]) /\ Known(srv[s]) \cap Side(s, t) = {}
    BY <1>7, <2>1, <2>2, KnownSides DEF Sound, Rooted
  <2>4. s \in Side(t, s)
    BY <1>7, Sides
  <2>. QED BY <2>3, <2>4 DEF Heard, Told, Shy
<1>8. ASSUME NEW s \in Servers, NEW t \in Servers, s # t
      PROVE  Edge(t, s, link'[s][t], link'[t][s], Heard(s, t, srv[s]), Told(t, s, srv[t], link'[t]),
                  wire'[<<t, s>>], wire'[<<s, t>>], crossed)
  <2>1. CASE s = a /\ t = b
    <3>1. link'[s][t] = "out" /\ link'[t][s] = "in" /\ wire'[<<t, s>>] = << >> /\ Heard(s, t, srv[s]) = {}
      BY <1>1, <1>2, <1>3, <1>6, <1>7, <2>1
    <3>. QED BY <1>1, <2>1, <3>1, EdgeNew
  <2>2. CASE s = b /\ t = a
    <3>1. link'[s][t] = "in" /\ link'[t][s] = "out" /\ wire'[<<t, s>>] = <<PASS, SERVER>>
      BY <1>2, <1>3, <2>2
    <3>2. Heard(s, t, srv[s]) = {} /\ t \in Told(t, s, srv[t], link'[t])
      BY <1>1, <1>5, <1>7, <2>2
    <3>. QED BY <1>1, <2>2, <3>1, <3>2, EdgeNew
  <2>3. CASE ~(s = a /\ t = b) /\ ~(s = b /\ t = a)
    <3>1. /\ link'[s][t] = link[s][t] /\ link'[t][s] = link[t][s]
          /\ wire'[<<t, s>>] = wire[<<t, s>>] /\ wire'[<<s, t>>] = wire[<<s, t>>]
          /\ Told(t, s, srv[t], link'[t]) = Told(t, s, srv[t], link[t])
      BY <1>2, <1>3, <1>5, <1>8, <2>3
    <3>2. EdgeIn(t, s, srv[s], link[s], wire, crossed)
      BY <1>8 DEF NetInv
    <3>. QED BY <3>1, <3>2 DEF EdgeIn
  <2>. QED BY <2>1, <2>2, <2>3
<1>9. \A s, t \in Servers : s # t => EdgeIn(t, s, srv[s], link[s], wire, crossed)'
  BY <1>1, <1>8 DEF EdgeIn
<1>10. \A s \in Servers \ alive, t \in Servers : link'[s][t] = "no"
  BY <1>1, <1>2 DEF NetInv
<1>. QED BY <1>1, <1>4, <1>9, <1>10 DEF NetInv

(* The next line of a link: what it tells of servers is noted, and told to *)
(* the others.                                                             *)
LEMMA ReceiveStep ==
  ASSUME IInv, NetInv, NEW a \in Servers, NEW t \in Servers, a # t, Receive(a, t)
  PROVE  NetInv'
<1>1. PICK m, w : m = Head(wire[<<t, a>>]) /\ w = Rest(t, a)
  OBVIOUS
<1>2. wire[<<t, a>>] # << >> /\ IF m = EOF THEN LinkEnd(a, t, w) ELSE Handle(a, t, w, m)
  BY <1>1 DEF Receive, Rest
<1>3. m \in Messages /\ link[a][t] \in States \ {"no"} /\ a \in alive /\ w \in WireType(gone) /\ Elsewhere(a, w)
  <2>1. m \in Sent(gone) /\ link[a][t] # "no" /\ a \in alive /\ w \in WireType(gone) /\ Elsewhere(a, w)
    <3>1. Pops(a, t, m, w)
      BY <1>1, <1>2 DEF Pops
    <3>2. LineTaken(a, t, m, w)
      BY ONLY IInv, NetInv, a \in Servers, t \in Servers, <3>1, Popped
    <3>. QED BY ONLY <3>2 DEF LineTaken
  <2>. QED BY <2>1, StateParts DEF Sent
<1>4. CASE m = EOF
  BY <1>1, <1>2, <1>4, EofStep
<1>5. CASE m # EOF /\ m.t = "PASS" /\ link[a][t] \in {"out", "in"}
  <2>1. HandlePass(a, t, w)
    BY <1>2, <1>5 DEF Handle
  <2>. QED BY <1>1, <1>2, <1>5, <2>1, PassStep
<1>6. CASE m # EOF /\ m.t = "SERVER" /\ link[a][t] \in {"outPass", "inPass"}
  <2>1. HandleServer(a, t, w)
    BY <1>2, <1>6 DEF Handle
  <2>. QED BY <1>1, <1>2, <1>6, <2>1, ServerStep
<1>7. CASE m # EOF /\ m.t = "SID" /\ link[a][t] = "on"
  <2>1. HandleSid(a, t, w, m)
    BY <1>2, <1>7 DEF Handle, HandleRegistered
  <2>. QED BY <1>1, <1>2, <1>7, <2>1, SidStep
<1>8. CASE m # EOF /\ m.t = "SQUIT" /\ link[a][t] = "on"
  <2>1. HandleSquit(a, t, w, m)
    BY <1>2, <1>8 DEF Handle, HandleRegistered
  <2>2. CASE m.sid = a \/ m.sid \in Known(srv[a])
    BY <1>1, <1>2, <1>8, <2>1, <2>2, HandledSquit
  <2>3. CASE m.sid # a /\ m.sid \notin Known(srv[a])
    <3>1. m.sid \in Servers
      BY <1>3, <1>8, Fields
    <3>2. Ignore(w)
      BY <2>1, <2>3, <3>1 DEF HandleSquit, Known
    <3>. QED BY <1>1, <1>2, <1>8, <2>3, <3>2, IgnoredSquit
  <2>. QED BY <2>2, <2>3
<1>9. CASE m # EOF /\ m.t = "NICK" /\ link[a][t] = "on" /\ m.u \notin srv[a].here
  <2>1. Die(a, w)
    BY <1>2, <1>9 DEF Handle, HandleRegistered, HandleNick
  <2>2. ASSUME NEW q \in Servers \ {a} PROVE w[<<a, q>>] = wire[<<a, q>>]
    <3>1. wire \in WireType(gone)
      BY StateParts
    <3>2. <<a, q>> \in DOMAIN wire /\ <<a, q>> # <<t, a>>
      BY <3>1 DEF WireType
    <3>. QED BY <1>1, <3>2 DEF Rest
  <2>. QED BY <1>3, <2>1, <2>2, DieStep
<1>10. CASE Useless(link[a][t], m) /\ ((m.t = "NICK" /\ link[a][t] = "on") => m.u \in srv[a].here)
  <2>1. Handle(a, t, w, m)
    BY <1>2, <1>10 DEF Useless
  <2>. QED BY <1>1, <1>2, <1>10, <2>1, UserLines
<1>. QED BY <1>4, <1>5, <1>6, <1>7, <1>8, <1>9, <1>10 DEF Useless

(* Nothing is under way at first, and the two of a pair know each other.   *)
LEMMA InitNet == Init => NetInv
<1>. SUFFICES ASSUME Init PROVE NetInv
  OBVIOUS
<1>1. /\ \A s \in Servers : srv[s] = AtStart(s)
      /\ \A s, t \in Servers : link[s][t] = IF LinkedPair(s, t) THEN "on" ELSE "no"
      /\ \A s, t \in Servers : s # t => wire[<<s, t>>] = << >>
      /\ alive = Servers /\ ~crossed
  BY DEF Init
<1>2. \A s, t \in Servers : LinkedPair(s, t) => Adj(s, t) /\ LinkedPair(t, s) /\ s # t
  BY NetAssumption, Sides DEF LinkedPair, Adj
<1>3. ASSUME NEW s, NEW t, NEW q, LinkedPair(s, t), LinkedPair(s, q) PROVE t = q
  <2>1. PICK p1, p2 : /\ p1 \in Pairs /\ (p1 = <<s, t>> \/ p1 = <<t, s>>)
                      /\ p2 \in Pairs /\ (p2 = <<s, q>> \/ p2 = <<q, s>>)
    BY <1>3 DEF LinkedPair
  <2>2. s \in Range(p1) /\ s \in Range(p2)
    <3>1. \A a, b : Range(<<a, b>>) = {a, b}
      BY RangeOfPair
    <3>. QED BY <2>1, <3>1
  <2>3. p1 = p2
    BY <2>1, <2>2, NetAssumption
  <2>. QED BY <2>1, <2>3
<1>4. \A s, x \in Servers : srv[s].parent[x] = IF x = s \/ LinkedPair(s, x) THEN s ELSE None
  <2>1. SUFFICES ASSUME NEW s \in Servers, NEW x \in Servers
                 PROVE  srv[s].parent[x] = IF x = s \/ LinkedPair(s, x) THEN s ELSE None
    OBVIOUS
  <2>2. AtStart(s).parent = [y \in Servers |-> IF y = s \/ LinkedPair(s, y) THEN s ELSE None]
    BY DEF AtStart
  <2>3. PICK p : p = AtStart(s).parent
    OBVIOUS
  <2>4. p[x] = IF x = s \/ LinkedPair(s, x) THEN s ELSE None
    BY ONLY <2>1, <2>2, <2>3, Zenon
  <2>. QED BY <1>1, <2>3, <2>4
<1>5. \A s \in Servers : Known(srv[s]) = {s} \cup {x \in Servers : LinkedPair(s, x)}
  BY <1>4, NetAssumption DEF Known, Knows
<1>6. ASSUME NEW s \in Servers PROVE Rooted(s, srv[s], link[s])
  <2>1. \A t \in Servers \ {s} : srv[s].parent[t] = s <=> link[s][t] \in Passed
    BY <1>1, <1>4, NetAssumption DEF Passed
  <2>2. Upward(s, srv[s])
    BY <1>2, <1>4, <1>5, Sides DEF Upward
  <2>3. ASSUME NEW t \in Servers, Adj(s, t), link[s][t] # "on"
        PROVE  Known(srv[s]) \cap Side(s, t) \subseteq {t}
    <3>1. ~LinkedPair(s, t)
      BY <1>1, <2>3
    <3>2. \A x \in Servers : LinkedPair(s, x) => x \notin Side(s, t)
      BY <1>2, <2>3, <3>1, NeighboursApart, Sides
    <3>. QED BY <1>5, <2>3, <3>2, Sides
  <2>. QED BY <2>1, <2>2, <2>3 DEF Rooted
<1>7. ASSUME NEW s \in Servers, NEW t \in Servers, s # t PROVE EdgeIn(t, s, srv[s], link[s], wire, crossed)
  <2>1. CASE ~LinkedPair(s, t)
    BY <1>1, <1>7, <2>1, EdgeNone DEF EdgeIn
  <2>2. CASE LinkedPair(s, t)
    <3>1. Adj(s, t) /\ Adj(t, s) /\ t \in Side(s, t) /\ s \notin Side(s, t) /\ LinkedPair(t, s)
      BY <1>2, <2>2, Sides
    <3>2. Known(srv[s]) = {s, t} /\ Known(srv[t]) = {s, t}
      BY <1>3, <1>5, <2>2, <3>1
    <3>3. Heard(s, t, srv[s]) = {t} /\ Told(t, s, srv[t], link[t]) = {t}
      BY <3>1, <3>2 DEF Heard, Told, Shy
    <3>4. PICK v : v = View("on", {t})
      OBVIOUS
    <3>5. v \in Views(s, t) /\ v.h = "on" /\ v.k = {t}
      BY <3>1, <3>4, ViewTyped DEF States
    <3>6. Ends(s, t, View("on", {t}), << >>, v)
      BY <3>4, <3>5, EndsNone
    <3>7. Fit(t, "on", "on", {t}, Cut(t, << >>), crossed, v)
      BY <3>5 DEF Fit
    <3>8. \A x, y : Announces(x, y, << >>) /\ Going(x, y, << >>) /\ ~Registers(<< >>)
      BY DEF Announces, Going, Registers
    <3>9. Edge(t, s, "on", "on", {t}, {t}, << >>, << >>, crossed)
      BY <3>1, <3>6, <3>7, <3>8 DEF Edge
    <3>10. link[s][t] = "on" /\ link[t][s] = "on" /\ wire[<<t, s>>] = << >> /\ wire[<<s, t>>] = << >>
      BY <1>1, <1>7, <2>2, <3>1
    <3>. QED BY <3>3, <3>9, <3>10 DEF EdgeIn
  <2>. QED BY <2>1, <2>2
<1>. QED BY <1>1, <1>6, <1>7 DEF NetInv

(* Every step keeps what is known along the lines.                         *)
LEMMA NextKeepsNet == IInv /\ NetInv /\ [Next]_vars => NetInv'
<1>. SUFFICES ASSUME IInv, NetInv, [Next]_vars PROVE NetInv'
  OBVIOUS
<1>1. CASE UNCHANGED vars
  BY <1>1 DEF vars, NetInv, EdgeIn
<1>2. ASSUME NEW s \in Servers, NEW t \in Servers, s # t,
             Receive(s, t) \/ Connect(s, t) \/ Break(s, t) \/ Squit(s, t)
      PROVE  NetInv'
  BY <1>2, ReceiveStep, ConnectStep, BreakStep, SquitStep
<1>3. ASSUME NEW s \in Servers, NEW u \in Users, Kill(s, u) PROVE NetInv'
  BY <1>3, UserSteps
<1>4. ASSUME NEW u \in Users, NEW n \in Nicks, FirstNickLine(u, n) \/ Nick(u, n) PROVE NetInv'
  BY <1>4, UserSteps
<1>5. ASSUME NEW u \in Users, UserLine(u) \/ Quit(u) \/ Join(u) \/ Part(u) PROVE NetInv'
  BY <1>5, UserSteps
<1>6. ASSUME NEW u \in Users, NEW on \in BOOLEAN, NEW who \in Users \cup {None}, Mode(u, on, who)
      PROVE  NetInv'
  BY <1>6, UserSteps
<1>. QED BY <1>1, <1>2, <1>3, <1>4, <1>5, <1>6 DEF Next

(* When nothing is under way, both ends of a line have a link that is      *)
(* registered, or none; and what one heard is what the other told.         *)
LEMMA Settled ==
  ASSUME IInv, NetInv, AtRest, NEW s \in Servers, NEW t \in Servers, s # t
  PROVE  /\ link[s][t] \in {"no", "on"} /\ link[t][s] = link[s][t]
         /\ link[s][t] = "on" => /\ Adj(s, t) /\ s \in alive /\ t \in alive
                                 /\ Heard(s, t, srv[s]) = Told(t, s, srv[t], link[t])
<1>1. ~crossed /\ \A x, y \in Servers : x # y => wire[<<x, y>>] = << >>
  <2>1. DOMAIN wire = {x \in Servers \X Servers : x[1] # x[2]}
    BY StateParts DEF WireType
  <2>. QED BY <2>1 DEF AtRest, Quiet
<1>2. ASSUME NEW x \in Servers, NEW y \in Servers, x # y, link[x][y] # "no"
      PROVE  /\ Adj(x, y) /\ link[y][x] # "no"
             /\ link[y][x] \in {"in", "inPass"} => link[x][y] = "out"
             /\ link[y][x] \notin {"in", "inPass"} => link[x][y] = "on"
             /\ link[y][x] = "on" => Heard(x, y, srv[x]) = Told(y, x, srv[y], link[y])
  <2>1. PICK h, g, K, X : /\ h = link[x][y] /\ g = link[y][x]
                          /\ K = Heard(x, y, srv[x]) /\ X = Told(y, x, srv[y], link[y])
    OBVIOUS
  <2>2. Edge(y, x, h, g, K, X, << >>, << >>, crossed)
    <3>1. EdgeIn(y, x, srv[x], link[x], wire, crossed)
      BY <1>2 DEF NetInv
    <3>. QED BY <1>1, <1>2, <2>1, <3>1 DEF EdgeIn
  <2>3. h \in States /\ g \in States /\ h # "no"
    BY <1>2, <2>1, StateParts
  <2>4. Adj(x, y) /\ g # "no"
    BY <2>2, <2>3 DEF Edge, Closing
  <2>5. PICK w : Ends(x, y, View(h, K), << >>, w) /\ Fit(y, h, g, X, Cut(y, << >>), crossed, w)
    BY <2>2, <2>3, <2>4 DEF Edge
  <2>6. K \in SUBSET Side(x, y)
    BY <2>1 DEF Heard
  <2>7. View(h, K) \in Views(x, y) /\ View(h, K).h = h /\ View(h, K).k = K /\ ~View(h, K).dead
    BY <2>3, <2>6, ViewTyped
  <2>8. w = View(h, K)
    BY <2>5, <2>7, EndsNone
  <2>9. Cut(y, << >>) = {}
    BY DEF Cut
  <2>. QED BY <1>1, <2>1, <2>3, <2>4, <2>5, <2>7, <2>8, <2>9 DEF Fit, States
<1>3. link[s][t] \in States /\ link[t][s] \in States
  BY StateParts
<1>4. link[s][t] = "on" => s \in alive /\ t \in alive
  BY <1>2, StateParts
<1>. QED BY <1>2, <1>3, <1>4 DEF States

(* Then two servers with a link know the same servers.                     *)
LEMMA SameKnown ==
  ASSUME IInv, NetInv, AtRest, NEW s \in Servers, NEW t \in Servers, s # t, link[s][t] = "on"
  PROVE  s \in alive /\ t \in alive /\ Known(srv[s]) = Known(srv[t])
<1>1. /\ Adj(s, t) /\ Adj(t, s) /\ s \in alive /\ t \in alive /\ link[t][s] = "on"
      /\ Heard(s, t, srv[s]) = Told(t, s, srv[t], link[t])
      /\ Heard(t, s, srv[t]) = Told(s, t, srv[s], link[s])
  <2>1. Adj(s, t) /\ link[t][s] = "on"
    BY Settled
  <2>. QED BY <2>1, Settled, Sides
<1>2. ASSUME NEW x \in alive, NEW y \in Servers, Adj(x, y)
      PROVE  /\ Told(x, y, srv[x], link[x]) = Known(srv[x]) \cap Side(y, x)
             /\ Known(srv[x]) \subseteq Side(x, y) \cup Side(y, x)
  <2>1. Sound(x, srv[x], link[x]) /\ x \in Servers
    BY StateParts
  <2>2. ASSUME NEW z \in Known(srv[x]), Shy(x, srv[x], link[x], z) PROVE FALSE
    <3>1. z # x /\ srv[x].parent[z] = x /\ link[x][z] # "on" /\ z \in Servers
      BY <2>2 DEF Shy, Known
    <3>2. link[x][z] \in Passed
      BY <2>1, <3>1 DEF Sound, Rooted
    <3>3. link[x][z] \in {"no", "on"}
      BY <2>1, <3>1, Settled
    <3>. QED BY <3>1, <3>2, <3>3 DEF Passed
  <2>3. ASSUME NEW z \in Known(srv[x]) PROVE z \in Side(x, y) \cup Side(y, x)
    <3>1. CASE z = x
      BY <1>2, <3>1, Sides
    <3>2. CASE z # x
      <4>1. PICK q : Adj(x, q) /\ z \in Side(x, q)
        BY <2>1, <2>3, <3>2, KnownSides DEF Sound, Rooted
      <4>2. q # y => Side(x, q) \subseteq Side(y, x)
        BY <1>2, <4>1, SideInside, Sides
      <4>. QED BY <4>1, <4>2
    <3>. QED BY <3>1, <3>2
  <2>. QED BY <2>2, <2>3 DEF Told
<1>. QED BY <1>1, <1>2 DEF Heard

(* The servers that links lead to                                          *)
LEMMA LinkedClosed ==
  ASSUME NEW s \in Servers
  PROVE  /\ s \in Linked(s) /\ Linked(s) \subseteq Servers
         /\ \A p \in Linked(s), t \in Servers : link[p][t] = "on" => t \in Linked(s)
         /\ \A S \in SUBSET Servers :
              s \in S /\ (\A p \in S, t \in Servers : link[p][t] = "on" => t \in S) => Linked(s) \subseteq S
  BY DEF Linked

(* When nothing is under way, a server knows exactly the servers that      *)
(* links lead to.                                                          *)
LEMMA KnownLinked ==
  ASSUME IInv, NetInv, AtRest, NEW s \in alive
  PROVE  Known(srv[s]) = Linked(s)
<1>1. s \in Servers /\ Sound(s, srv[s], link[s])
  BY StateParts
<1>2. PICK S : S = {x \in alive : Known(srv[x]) = Known(srv[s])}
  OBVIOUS
<1>3. S \in SUBSET Servers /\ s \in S /\ S \subseteq alive /\ \A x \in S : Known(srv[x]) = Known(srv[s])
  BY <1>2, StateParts
<1>4. ASSUME NEW p \in S, NEW t \in Servers, link[p][t] = "on" PROVE t \in S
  <2>1. p # t => t \in alive /\ Known(srv[p]) = Known(srv[t])
    BY <1>3, <1>4, SameKnown
  <2>. QED BY <1>2, <1>3, <2>1
<1>5. Linked(s) \subseteq S
  BY <1>1, <1>3, <1>4, LinkedClosed
<1>6. ASSUME NEW x \in S PROVE x \in Known(srv[s])
  <2>1. x \in Servers /\ Sound(x, srv[x], link[x])
    BY <1>3, StateParts
  <2>2. x \in Known(srv[x])
    BY <2>1, KnownSides DEF Sound, Rooted
  <2>. QED BY <1>3, <2>2
<1>7. ASSUME NEW x \in Known(srv[s]) \ {s}, srv[s].parent[x] \in Linked(s) PROVE x \in Linked(s)
  <2>1. PICK p : p = srv[s].parent[x]
    OBVIOUS
  <2>2. x \in Servers /\ Adj(p, x) /\ p \in S /\ p \in Linked(s)
    BY <1>1, <1>5, <1>7, <2>1 DEF Sound, Rooted, Upward, Known
  <2>3. p \in Servers /\ Sound(p, srv[p], link[p]) /\ x \in Known(srv[p]) /\ p # x
    BY <1>3, <2>2, StateParts, Sides
  <2>4. link[p][x] \in Passed
    BY <2>2, <2>3, KnownSides DEF Sound, Rooted
  <2>5. link[p][x] = "on"
    BY <2>2, <2>3, <2>4, Settled DEF Passed
  <2>. QED BY <1>1, <2>2, <2>5, LinkedClosed
<1>8. Known(srv[s]) \subseteq Linked(s)
  <2>1. s \in Linked(s)
    BY <1>1, LinkedClosed
  <2>2. PICK T : T = Linked(s)
    OBVIOUS
  <2>. QED BY <1>1, <1>7, <2>1, <2>2, Chain DEF Sound, Rooted
<1>. QED BY <1>5, <1>6, <1>8

(* When nothing is under way, the servers that links lead to are those     *)
(* that are known, whatever connections came and broke meanwhile and in    *)
(* whatever order SID and SQUIT crossed (c_s_sid, c_a_squit,               *)
(* u_server_burst_2, u_server_destroy).                                    *)
THEOREM ServersAgreeAtRest == Spec => []ServersAgree
<1>1. IInv /\ NetInv /\ [Next]_vars => NetInv'
  BY NextKeepsNet
<1>2. IInv /\ NetInv => ServersAgree
  <2>1. SUFFICES ASSUME IInv, NetInv, AtRest, NEW s \in alive
                 PROVE  {t \in Servers : Knows(srv[s], t)} = Linked(s)
    BY DEF ServersAgree
  <2>. QED BY <2>1, KnownLinked DEF Known
<1>. QED BY <1>1, <1>2, InitNet, InductiveInvariant, PTL DEF Spec
=============================================================================
