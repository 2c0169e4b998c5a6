------------------------------ MODULE ChanProofs -----------------------------
(***************************************************************************)
(* Proofs about mode processing: what Process keeps, and that what it      *)
(* announces has the same effect on a server in the same state; and about  *)
(* channels: the two maps of a membership and of an invitation agree, a    *)
(* channel goes with its last member, nobody gets into a channel that      *)
(* would not let him in, a mute is known, and a MODE means the same on     *)
(* every server.                                                           *)
(***************************************************************************)
EXTENDS Chan, WellFoundedInduction, FiniteSetTheorems, TLAPS

(***************************************************************************)
(* Induction and recursion in a form the provers can apply: about sets and *)
(* functions, not about operators.                                         *)
(***************************************************************************)
(* What holds at 0 and at i when it does at i - 1 holds up to a bound.      *)
LEMMA IndexInduction ==
  ASSUME NEW b \in Nat, NEW S, 0 \in S, \A i \in 1..b : i - 1 \in S => i \in S
  PROVE  0..b \subseteq S
<1> DEFINE T == 0..b \ S
           R == {ss \in Nat \X Nat : ss[1] < ss[2]}
<1>. SUFFICES ASSUME T # {} PROVE FALSE
  OBVIOUS
<1>1. IsWellFoundedOn(R, Nat)
  BY NatLessThanWellFounded DEF OpToRel
<1>2. PICK x \in T : \A y \in T : ~(<<y, x>> \in R)
  <2>1. T \subseteq Nat
    OBVIOUS
  <2> HIDE DEF R, T
  <2>. QED BY <1>1, <2>1, WFMin
<1>3. x \in 1..b /\ x - 1 \in 0..b /\ <<x - 1, x>> \in R
  OBVIOUS
<1>. QED BY <1>2, <1>3

(* b steps from x, of which the i-th applies the function G[i]: the values  *)
(* along the way are those of a recursive function, and in the set S.      *)
LEMMA StepsExist ==
  ASSUME NEW S, NEW x \in S, NEW b \in Nat, NEW G \in [1..b -> [S -> S]]
  PROVE  \E f \in [0..b -> S] : f[0] = x /\ \A i \in 1..b : f[i] = G[i][f[i - 1]]
<1> DEFINE Good(n, f) == /\ f \in [0..n -> S] /\ f[0] = x
                         /\ \A i \in 1..n : f[i] = G[i][f[i - 1]]
           T == {n \in 0..b : \E f : Good(n, f)}
<1>1. 0 \in T
  <2>1. Good(0, [i \in 0..0 |-> x])
    OBVIOUS
  <2> HIDE DEF Good
  <2>. QED BY <2>1
<1>2. ASSUME NEW n \in 1..b, n - 1 \in T PROVE n \in T
  <2>1. PICK f : Good(n - 1, f)
    BY <1>2
  <2> DEFINE g == [i \in 0..n |-> IF i = n THEN G[n][f[n - 1]] ELSE f[i]]
  <2>2. Good(n, g)
    BY <2>1
  <2> HIDE DEF Good, g
  <2>. QED BY <2>2
<1>3. b \in T
  <2> HIDE DEF T
  <2>1. 0..b \subseteq T
    BY <1>1, <1>2, IndexInduction
  <2>. QED BY <2>1
<1>. QED BY <1>3


\* Those runs: b steps in S from x, the i-th by the function G[i]
Runs(S, x, b, G) ==
    {f \in [0..b -> S] : f[0] = x /\ \A i \in 1..b : f[i] = G[i][f[i - 1]]}

LEMMA RunsExist ==
  ASSUME NEW S, NEW x \in S, NEW b \in Nat, NEW G \in [1..b -> [S -> S]]
  PROVE  \E f : f \in Runs(S, x, b, G)
BY StepsExist DEF Runs

-----------------------------------------------------------------------------
(* Mode processing.                                                        *)

\* A u_modes in use on a channel with these members
SettingRec(members) ==
    [m : ModesRec(members), params : Seq(Args), access : BOOLEAN, force : BOOLEAN,
     opOf : SUBSET Chans, told : Seq(Letters), args : Seq(Args), denied : BOOLEAN]

\* Letter stays in S.
Kept(S) == \A q \in S, x \in Letters : Letter(q, x) \in S

(* Process is the last of a sequence of settings, each the Letter of the   *)
(* one before; they stay in any set that Letter keeps.                     *)
LEMMA ProcessSteps ==
  ASSUME NEW S, NEW p \in S, NEW letters \in Seq(Letters),
         \A q \in S, x \in Letters : Letter(q, x) \in S
  PROVE  \E f \in [0..Len(letters) -> S] :
           /\ f[0] = p
           /\ \A i \in 1..Len(letters) : f[i] = Letter(f[i - 1], letters[i])
           /\ Process(p, letters) = f[Len(letters)]
<1> DEFINE N == Len(letters)
           G == [i \in 1..N |-> [q \in S |-> Letter(q, letters[i])]]
           Def(f) == f = [i \in 0..N |-> IF i = 0 THEN p ELSE Letter(f[i - 1], letters[i])]
           after == CHOOSE f : Def(f)
<1>1. N \in Nat /\ \A i \in 1..N : letters[i] \in Letters
  OBVIOUS
<1>2. G \in [1..N -> [S -> S]]
  BY <1>1
<1>3. PICK f \in [0..N -> S] : f[0] = p /\ \A i \in 1..N : f[i] = G[i][f[i - 1]]
  <2>1. N \in Nat
    BY <1>1
  <2>2. p \in S
    OBVIOUS
  <2> HIDE DEF G, N, Def, after
  <2>3. PICK f : f \in Runs(S, p, N, G)
    BY ONLY <1>2, <2>1, <2>2, RunsExist
  <2>. QED BY ONLY <2>3 DEF Runs
<1>4. ASSUME NEW i \in 1..N PROVE f[i] = Letter(f[i - 1], letters[i])
  <2>1. i - 1 \in 0..N /\ f[i - 1] \in S
    BY <1>1, <1>3
  <2>2. f[i] = G[i][f[i - 1]]
    BY <1>3
  <2>. QED BY <2>1, <2>2
<1>5. Def(f)
  BY <1>1, <1>3, <1>4
<1>6. Def(after)
  <2> HIDE DEF Def
  <2> QED BY <1>5
<1>7. after[0] = p /\ \A i \in 1..N : after[i] = Letter(after[i - 1], letters[i])
  <2> HIDE DEF N
  <2>1. after = [i \in 0..N |-> IF i = 0 THEN p ELSE Letter(after[i - 1], letters[i])]
    BY <1>6
  <2>2. 0 \in 0..N /\ \A i \in 1..N : i \in 0..N /\ i # 0
    BY <1>1
  <2> HIDE DEF after
  <2>. QED BY <2>1, <2>2
<1>8. after = f
  <2>1. \A i \in 0..N : after[i] = f[i]
    <3> DEFINE T == {i \in 0..N : after[i] = f[i]}
    <3>1. 0 \in T
      BY <1>1, <1>3, <1>7
    <3>2. ASSUME NEW i \in 1..N, i - 1 \in T PROVE i \in T
      BY <1>4, <1>7, <3>2
    <3>3. 0..N \subseteq T
      <4> HIDE DEF T, N
      <4> QED BY <1>1, <3>1, <3>2, IndexInduction
    <3>. QED BY <3>3
  <2>. QED BY <1>6, <2>1
<1>9. Process(p, letters) = after[N]
  BY DEF Process
<1>. QED BY <1>3, <1>4, <1>8, <1>9

-----------------------------------------------------------------------------
(* The next parameter is one of the command's, or there is none.            *)
LEMMA ParamType ==
  ASSUME NEW M \in SUBSET Users, NEW p \in SettingRec(M)
  PROVE  \/ p.params = << >> /\ Param(p) = None
         \/ p.params # << >> /\ Param(p) \in Args /\ Param(p) # None
<1>1. p.params \in Seq(Args)
  BY DEF SettingRec
<1>. QED BY <1>1, ModesAssumption DEF Param

(* Using up a parameter and denying a letter keep the kinds of a u_modes.   *)
LEMMA UsedType ==
  ASSUME NEW M \in SUBSET Users, NEW p \in SettingRec(M)
  PROVE  Used(p) \in SettingRec(M) /\ Denied(p) \in SettingRec(M)
<1>1. (IF p.params = << >> THEN p.params ELSE Tail(p.params)) \in Seq(Args)
  BY DEF SettingRec
<1>2. Used(p) \in SettingRec(M)
  BY <1>1 DEF SettingRec, Used
<1>3. Denied(p) \in SettingRec(M)
  BY DEF SettingRec, Denied
<1>. QED BY <1>2, <1>3

(* So does an announcement with new settings.                               *)
LEMMA PutType ==
  ASSUME NEW M \in SUBSET Users, NEW p \in SettingRec(M), NEW c \in Letters,
         NEW a \in Args \cup {None}, NEW m \in ModesRec(M)
  PROVE  [Put(p, c.on, c.ch, a) EXCEPT !.m = m] \in SettingRec(M)
<1> DEFINE t == Append(p.told, [on |-> c.on, ch |-> c.ch])
           b == IF a = None THEN p.args ELSE Append(p.args, a)
<1>1. [on |-> c.on, ch |-> c.ch] \in Letters
  BY DEF Letters
<1>2. t \in Seq(Letters) /\ b \in Seq(Args)
  BY <1>1 DEF SettingRec
<1>3. [Put(p, c.on, c.ch, a) EXCEPT !.m = m] = [p EXCEPT !.told = t, !.args = b, !.m = m]
  BY DEF Put, SettingRec
<1> HIDE DEF t, b
<1>. QED BY <1>2, <1>3 DEF SettingRec

(* Letter is the handler of its letter: the kinds of letters are disjoint.  *)
LEMMA LetterIs ==
  ASSUME NEW p, NEW c \in Letters
  PROVE  /\ c.ch \in FlagModes => Letter(p, c) = Flag(p, c.on, c.ch)
         /\ c.ch \in StatusModes => Letter(p, c) = Status(p, c.on, c.ch)
         /\ c.ch \in ListModes => Letter(p, c) = List(p, c.on, c.ch)
         /\ c.ch = "f" => Letter(p, c) = Forward(p, c.on)
         /\ c.ch = "k" => Letter(p, c) = Key(p, c.on)
         /\ c.ch = "l" => Letter(p, c) = Limit(p, c.on)
BY DEF Letter, Letters, FlagModes, StatusModes, ListModes

(* Every letter keeps the kinds, and the members of the channel.            *)
LEMMA LetterType ==
  ASSUME NEW M \in SUBSET Users, NEW p \in SettingRec(M), NEW c \in Letters
  PROVE  Letter(p, c) \in SettingRec(M)
<1>1. CASE c.ch \in FlagModes
  <2> DEFINE m == [p.m EXCEPT !.flags = IF c.on THEN @ \cup {c.ch} ELSE @ \ {c.ch}]
  <2>1. m \in ModesRec(M)
    BY <1>1 DEF SettingRec, ModesRec
  <2>2. Flag(p, c.on, c.ch) \in {p, Denied(p), [Put(p, c.on, c.ch, None) EXCEPT !.m = m]}
    BY DEF Flag, SettingRec, Put
  <2>3. Letter(p, c) = Flag(p, c.on, c.ch)
    BY <1>1, LetterIs
  <2> HIDE DEF m
  <2>. QED BY <2>1, <2>2, <2>3, UsedType, PutType
<1>2. CASE c.ch \in StatusModes
  <2> DEFINE u == Param(p)
             m == [p.m EXCEPT !.status[u] = IF c.on THEN @ \cup {c.ch} ELSE @ \ {c.ch}]
             q == [Put(p, c.on, c.ch, u) EXCEPT !.m = m]
  <2>1. u \in M => m \in ModesRec(M)
    BY <1>2 DEF SettingRec, ModesRec
  <2>2. DOMAIN p.m.status = M
    BY DEF SettingRec, ModesRec
  <2>3. Status(p, c.on, c.ch) \in {Used(p), Used(Denied(p))} \cup {Used(q) : x \in M \cap {u}}
    BY <2>2 DEF Status, SettingRec, Put
  <2>4. Letter(p, c) = Status(p, c.on, c.ch)
    BY <1>2, LetterIs
  <2>5. u \in Args \cup {None}
    BY ParamType
  <2>6. u \in M => q \in SettingRec(M)
    <3> HIDE DEF m, u
    <3> QED BY <2>1, <2>5, PutType
  <2> HIDE DEF q, u
  <2>. QED BY <2>3, <2>4, <2>6, UsedType
<1>3. CASE c.ch \in ListModes
  <2> DEFINE k == Param(p)
             m == [p.m EXCEPT !.list[c.ch] = IF c.on THEN @ \cup {k} ELSE @ \ {k}]
             q == [Put(p, c.on, c.ch, k) EXCEPT !.m = m]
  <2>1. k \in Args => m \in ModesRec(M)
    BY <1>3 DEF SettingRec, ModesRec
  <2>2. \/ List(p, c.on, c.ch) \in {p, Used(p), Used(Denied(p))}
        \/ List(p, c.on, c.ch) = Used(q) /\ k # None
    BY DEF List, SettingRec, Put
  <2>3. Letter(p, c) = List(p, c.on, c.ch)
    BY <1>3, LetterIs
  <2>4. k \in Args \/ k = None
    BY ParamType
  <2>5. k \in Args => q \in SettingRec(M)
    <3> HIDE DEF m, k
    <3> QED BY <2>1, PutType
  <2> HIDE DEF q, k
  <2>. QED BY <2>2, <2>3, <2>4, <2>5, UsedType
<1>4. CASE c.ch = "f"
  <2> DEFINE k == Param(p)
             off == [Put(p, FALSE, "f", None) EXCEPT !.m = [p.m EXCEPT !.forward = None]]
             on == [Put(p, TRUE, "f", k) EXCEPT !.m = [p.m EXCEPT !.forward = k]]
  <2>1. c.on \in BOOLEAN
    BY DEF Letters
  <2>2. \/ Forward(p, c.on) \in {p, Used(p), Denied(p), Used(Denied(p))}
        \/ Forward(p, c.on) = off /\ ~c.on
        \/ Forward(p, c.on) = Used(on) /\ k # None /\ c.on
    BY <2>1 DEF Forward, SettingRec, Put
  <2>3. Letter(p, c) = Forward(p, c.on)
    BY <1>4, LetterIs
  <2>4. k \in Args \/ k = None
    BY ParamType
  <2>5. [p.m EXCEPT !.forward = None] \in ModesRec(M)
        /\ (k \in Args => [p.m EXCEPT !.forward = k] \in ModesRec(M))
    BY DEF SettingRec, ModesRec
  <2>6. (~c.on => off \in SettingRec(M)) /\ (c.on /\ k \in Args => on \in SettingRec(M))
    <3> HIDE DEF k
    <3> QED BY <1>4, <2>1, <2>5, PutType
  <2> HIDE DEF on, off, k
  <2>. QED BY <2>2, <2>3, <2>4, <2>6, UsedType
<1>5. CASE c.ch = "k"
  <2> DEFINE k == Param(p)
             off == [Put(p, FALSE, "k", Star) EXCEPT !.m = [p.m EXCEPT !.key = None]]
             on == [Put(p, TRUE, "k", k) EXCEPT !.m = [p.m EXCEPT !.key = k]]
  <2>1. c.on \in BOOLEAN
    BY DEF Letters
  <2>2. \/ Key(p, c.on) \in {p, Used(p), Used(Denied(p))}
        \/ Key(p, c.on) = Used(off) /\ ~c.on
        \/ Key(p, c.on) = Used(on) /\ k # None /\ c.on
    BY <2>1 DEF Key, SettingRec, Put
  <2>3. Letter(p, c) = Key(p, c.on)
    BY <1>5, LetterIs
  <2>4. (k \in Args \/ k = None) /\ Star \in Args
    BY ParamType DEF Args
  <2>5. [p.m EXCEPT !.key = None] \in ModesRec(M)
        /\ (k \in Args => [p.m EXCEPT !.key = k] \in ModesRec(M))
    BY DEF SettingRec, ModesRec
  <2>6. (~c.on => off \in SettingRec(M)) /\ (c.on /\ k \in Args => on \in SettingRec(M))
    <3> HIDE DEF k
    <3> QED BY <1>5, <2>1, <2>4, <2>5, PutType
  <2> HIDE DEF on, off, k
  <2>. QED BY <2>2, <2>3, <2>4, <2>6, UsedType
<1>6. CASE c.ch = "l"
  <2> DEFINE k == Param(p)
             bare == [p EXCEPT !.m.limit = None]
             off == [Put(p, FALSE, "l", None) EXCEPT !.m = [p.m EXCEPT !.limit = None]]
             on == [Put(p, TRUE, "l", k) EXCEPT !.m = [p.m EXCEPT !.limit = k]]
  <2>1. c.on \in BOOLEAN
    BY DEF Letters
  <2>2. \/ Limit(p, c.on) \in {p, Used(p), Denied(p), Used(Denied(p)), bare}
        \/ Limit(p, c.on) = off /\ ~c.on
        \/ Limit(p, c.on) = Used(on) /\ k # None /\ Value(k) >= 1 /\ c.on
    <3>1. Value(k) \in Int
      BY ModesAssumption DEF Value
    <3>2. CASE c.on
      <4>1. Value(k) < 1 \/ Value(k) >= 1
        BY <3>1
      <4>2. c.on = TRUE
        BY <2>1, <3>2
      <4>3. HasAccess(p) /\ k # None /\ ~(Value(k) < 1) => Limit(p, c.on) = Used(on)
        BY <4>2 DEF Limit, SettingRec, Put
      <4> HIDE DEF on
      <4>. QED BY <3>1, <4>1, <4>2, <4>3 DEF Limit
    <3>3. CASE ~c.on
      <4>1. c.on = FALSE
        BY <2>1, <3>3
      <4>2. CASE p.m.limit = None
        BY <4>1, <4>2 DEF Limit
      <4>3. CASE p.m.limit # None
        <5>1. [Put(p, FALSE, "l", None) EXCEPT !.m.limit = None] = off
          BY DEF SettingRec, Put
        <5> HIDE DEF off
        <5>. QED BY <4>1, <4>3, <5>1 DEF Limit
      <4>. QED BY <4>2, <4>3
    <3>. QED BY <2>1, <3>2, <3>3
  <2>3. Letter(p, c) = Limit(p, c.on)
    BY <1>6, LetterIs
  <2>4. (k \in Args \/ k = None) /\ (Value(k) >= 1 => k \in Limits)
    BY ParamType DEF Value
  <2>5. [p.m EXCEPT !.limit = None] \in ModesRec(M)
        /\ (k \in Limits => [p.m EXCEPT !.limit = k] \in ModesRec(M))
    BY DEF SettingRec, ModesRec
  <2>6. bare \in SettingRec(M)
    BY <2>5 DEF SettingRec
  <2>7. (~c.on => off \in SettingRec(M)) /\ (c.on /\ k \in Limits /\ k \in Args => on \in SettingRec(M))
    <3> HIDE DEF k
    <3> QED BY <1>6, <2>1, <2>4, <2>5, PutType
  <2> HIDE DEF on, off, k, bare
  <2>. QED BY <2>2, <2>3, <2>4, <2>6, <2>7, UsedType
<1>. QED BY <1>1, <1>2, <1>3, <1>4, <1>5, <1>6 DEF Letters

(* u_mode_process never makes settings of another kind, adds a member or   *)
(* loses one.                                                              *)
LEMMA ProcessType ==
  ASSUME NEW M \in SUBSET Users, NEW p \in SettingRec(M), NEW letters \in Seq(Letters)
  PROVE  Process(p, letters) \in SettingRec(M)
<1>1. \A q \in SettingRec(M), x \in Letters : Letter(q, x) \in SettingRec(M)
  BY LetterType
<1>2. PICK f \in [0..Len(letters) -> SettingRec(M)] : Process(p, letters) = f[Len(letters)]
  <2> HIDE DEF SettingRec
  <2> QED BY <1>1, ProcessSteps
<1>. QED BY <1>2

(* One more letter is processed after the others.                           *)
LEMMA ProcessAppend ==
  ASSUME NEW M \in SUBSET Users, NEW p \in SettingRec(M), NEW letters \in Seq(Letters),
         NEW c \in Letters
  PROVE  Process(p, Append(letters, c)) = Letter(Process(p, letters), c)
<1> DEFINE S == SettingRec(M)
           N == Len(letters)
           more == Append(letters, c)
<1>1. \A q \in S, x \in Letters : Letter(q, x) \in S
  BY LetterType
<1>2. more \in Seq(Letters) /\ Len(more) = N + 1 /\ more[N + 1] = c /\ N \in Nat
      /\ \A i \in 1..N : more[i] = letters[i]
  OBVIOUS
<1>3. ASSUME NEW s \in Seq(Letters)
      PROVE  \E f : /\ f[0] = p /\ Process(p, s) = f[Len(s)]
                    /\ \A i \in 1..Len(s) : f[i] = Letter(f[i - 1], s[i])
  <2>1. p \in S
    OBVIOUS
  <2> HIDE DEF S
  <2> QED BY <1>1, <2>1, ProcessSteps
<1>4. PICK f : /\ f[0] = p /\ Process(p, letters) = f[N]
               /\ \A i \in 1..N : f[i] = Letter(f[i - 1], letters[i])
  BY <1>3
<1>7. PICK g : /\ g[0] = p /\ Process(p, more) = g[N + 1]
                /\ \A i \in 1..N + 1 : g[i] = Letter(g[i - 1], more[i])
  <2> HIDE DEF more
  <2>1. \E g : /\ g[0] = p /\ Process(p, more) = g[Len(more)]
               /\ \A i \in 1..Len(more) : g[i] = Letter(g[i - 1], more[i])
    BY <1>2, <1>3
  <2>. QED BY <1>2, <2>1
<1>5. f[N] = g[N]
  <2> DEFINE T == {i \in 0..N : f[i] = g[i]}
  <2>1. 0 \in T
    BY <1>2, <1>4, <1>7
  <2>2. ASSUME NEW i \in 1..N, i - 1 \in T PROVE i \in T
    <3>1. i \in 1..N + 1 /\ f[i - 1] = g[i - 1] /\ more[i] = letters[i]
      BY <1>2, <2>2
    <3>2. f[i] = g[i]
      BY <1>4, <1>7, <3>1
    <3>. QED BY <3>2
  <2>3. 0..N \subseteq T
    <3> HIDE DEF T, N
    <3> QED BY <1>2, <2>1, <2>2, IndexInduction
  <2>. QED BY <1>2, <2>3
<1>6. g[N + 1] = Letter(g[N], c)
  <2>1. N + 1 \in 1..N + 1 /\ (N + 1) - 1 = N
    BY <1>2
  <2>. QED BY <1>2, <1>7, <2>1
<1>. QED BY <1>4, <1>7, <1>5, <1>6

(* What using up a parameter leaves alone.                                  *)
LEMMA UsedIs ==
  ASSUME NEW M \in SUBSET Users, NEW p \in SettingRec(M)
  PROVE  /\ Used(p).m = p.m /\ Used(p).told = p.told /\ Used(p).args = p.args
         /\ Used(p).access = p.access /\ Used(p).force = p.force /\ Used(p).opOf = p.opOf
         /\ Used(p).params = IF p.params = << >> THEN p.params ELSE Tail(p.params)
BY DEF Used, SettingRec

(* What denying a letter leaves alone.                                      *)
LEMMA DeniedIs ==
  ASSUME NEW M \in SUBSET Users, NEW p \in SettingRec(M)
  PROVE  /\ Denied(p).m = p.m /\ Denied(p).told = p.told /\ Denied(p).args = p.args
         /\ Denied(p).access = p.access /\ Denied(p).force = p.force
         /\ Denied(p).opOf = p.opOf /\ Denied(p).params = p.params
BY DEF Denied, SettingRec

\* An announcement of a letter with its argument, and the change it announces
WithArg(s, x) == IF x = None THEN s ELSE Append(s, x)
Putting(q, c, x, m) == [Put(q, c.on, c.ch, x) EXCEPT !.m = m]

(* What an announcement with new settings leaves alone.                     *)
LEMMA PutIs ==
  ASSUME NEW M \in SUBSET Users, NEW p \in SettingRec(M), NEW c \in Letters, NEW a, NEW m
  PROVE  /\ Putting(p, c, a, m).m = m
         /\ Putting(p, c, a, m).told = Append(p.told, c)
         /\ Putting(p, c, a, m).args = WithArg(p.args, a)
         /\ Putting(p, c, a, m).access = p.access /\ Putting(p, c, a, m).force = p.force
         /\ Putting(p, c, a, m).opOf = p.opOf /\ Putting(p, c, a, m).params = p.params
<1>1. [on |-> c.on, ch |-> c.ch] = c
  BY DEF Letters
<1>. QED BY <1>1 DEF Put, Putting, SettingRec, WithArg

\* A setter with access that has the settings of p, and x as next parameter if
\* there is an x, arrives at the settings m by the letter c and uses up x only.
Redone(M, p, c, x, m) ==
    \A q \in SettingRec(M) :
        /\ q.m = p.m /\ q.opOf = p.opOf /\ q.access
        /\ x = None \/ (q.params # << >> /\ Head(q.params) = x)
        => /\ Letter(q, c).m = m /\ Letter(q, c).opOf = q.opOf
           /\ Letter(q, c).access = q.access
           /\ Letter(q, c).params = IF x = None THEN q.params ELSE Tail(q.params)

\* From p the letter c leads to p2: either nothing changes and nothing is told,
\* or a receiver with the settings of p does the same by what is told.
Announced(M, p, c, p2) ==
    /\ p2.opOf = p.opOf /\ p2.force = p.force
    /\ \/ p2.m = p.m /\ p2.told = p.told /\ p2.args = p.args
       \/ /\ p2.told = Append(p.told, c)
          /\ \E x \in Args \cup {None} :
                /\ p2.args = WithArg(p.args, x)
                /\ Redone(M, p, c, x, p2.m)

(* A letter that is refused, or changes nothing, is not announced.          *)
LEMMA Silent ==
  ASSUME NEW M \in SUBSET Users, NEW p \in SettingRec(M), NEW c \in Letters,
         NEW q, q \in {p, Used(p), Denied(p), Used(Denied(p))}
  PROVE  Announced(M, p, c, q)
<1>1. /\ q.m = p.m /\ q.told = p.told /\ q.args = p.args
      /\ q.opOf = p.opOf /\ q.force = p.force
  BY UsedIs, DeniedIs, UsedType
<1>. QED BY <1>1 DEF Announced

(* An announced change is redone by a receiver that would make it too.      *)
LEMMA Told ==
  ASSUME NEW M \in SUBSET Users, NEW p \in SettingRec(M), NEW c \in Letters,
         NEW x \in Args \cup {None}, NEW m \in ModesRec(M),
         \A q \in SettingRec(M) :
            q.m = p.m /\ q.opOf = p.opOf /\ q.access
            /\ (x = None \/ (q.params # << >> /\ Head(q.params) = x))
            => Letter(q, c) = IF x = None THEN Putting(q, c, x, m) ELSE Used(Putting(q, c, x, m)),
         NEW p2 \in {Putting(p, c, x, m), Used(Putting(p, c, x, m))}
  PROVE  Announced(M, p, c, p2)
<1>1. ASSUME NEW q \in SettingRec(M)
      PROVE  /\ Putting(q, c, x, m) \in SettingRec(M)
             /\ Putting(q, c, x, m).m = m
             /\ Putting(q, c, x, m).told = Append(q.told, c)
             /\ Putting(q, c, x, m).args = WithArg(q.args, x)
             /\ Putting(q, c, x, m).params = q.params
             /\ Putting(q, c, x, m).opOf = q.opOf
             /\ Putting(q, c, x, m).access = q.access
             /\ Putting(q, c, x, m).force = q.force
  <2>1. Putting(q, c, x, m) \in SettingRec(M)
    BY PutType DEF Putting
  <2> DEFINE r == Putting(q, c, x, m)
  <2>2. /\ r.m = m /\ r.told = Append(q.told, c) /\ r.params = q.params
        /\ r.args = WithArg(q.args, x)
        /\ r.opOf = q.opOf /\ r.access = q.access /\ r.force = q.force
    BY PutIs
  <2>. QED BY <2>1, <2>2
<1>2. /\ p2.m = m /\ p2.told = Append(p.told, c)
      /\ p2.args = WithArg(p.args, x)
      /\ p2.opOf = p.opOf /\ p2.force = p.force
  BY <1>1, UsedIs
<1>3. Redone(M, p, c, x, m)
  <2> SUFFICES ASSUME NEW q \in SettingRec(M), q.m = p.m, q.opOf = p.opOf, q.access,
                      x = None \/ (q.params # << >> /\ Head(q.params) = x)
               PROVE  /\ Letter(q, c).m = m /\ Letter(q, c).opOf = q.opOf
                      /\ Letter(q, c).access = q.access
                      /\ Letter(q, c).params = IF x = None THEN q.params ELSE Tail(q.params)
    BY DEF Redone
  <2>1. Letter(q, c) = IF x = None THEN Putting(q, c, x, m) ELSE Used(Putting(q, c, x, m))
    OBVIOUS
  <2> DEFINE r == Putting(q, c, x, m)
  <2>2. r \in SettingRec(M) /\ r.m = m /\ r.params = q.params /\ r.opOf = q.opOf
        /\ r.access = q.access
    BY <1>1
  <2>3. Used(r).m = m /\ Used(r).opOf = q.opOf /\ Used(r).access = q.access
        /\ (q.params # << >> => Used(r).params = Tail(q.params))
    BY <2>2, UsedIs
  <2>4. CASE x = None
    <3>1. Letter(q, c) = r
      BY <2>1, <2>4
    <3> HIDE DEF r
    <3>. QED BY <2>2, <2>4, <3>1
  <2>5. CASE x # None
    <3>1. Letter(q, c) = Used(r) /\ q.params # << >>
      BY <2>1, <2>5
    <3> HIDE DEF r
    <3>. QED BY <2>3, <2>5, <3>1
  <2>. QED BY <2>4, <2>5
<1>. QED BY <1>2, <1>3 DEF Announced

(* Flags take no parameter, on either side.                                *)
LEMMA AnnouncedFlag ==
  ASSUME NEW M \in SUBSET Users, NEW p \in SettingRec(M), NEW c \in Letters, c.ch \in FlagModes
  PROVE  Announced(M, p, c, Letter(p, c))
<1> DEFINE m == [p.m EXCEPT !.flags = IF c.on THEN @ \cup {c.ch} ELSE @ \ {c.ch}]
<1>1. ASSUME NEW q \in SettingRec(M), q.m = p.m
      PROVE  Letter(q, c) = IF ~HasAccess(q) THEN Denied(q)
                            ELSE IF c.on = (c.ch \in p.m.flags) THEN q
                            ELSE Putting(q, c, None, m)
  <2>1. [Put(q, c.on, c.ch, None) EXCEPT
            !.m.flags = IF c.on THEN @ \cup {c.ch} ELSE @ \ {c.ch}] = Putting(q, c, None, m)
    BY <1>1 DEF SettingRec, Put, Putting
  <2>2. Letter(q, c) = Flag(q, c.on, c.ch)
    BY LetterIs
  <2> HIDE DEF m
  <2>. QED BY <1>1, <2>1, <2>2 DEF Flag
<1>2. m \in ModesRec(M)
  BY DEF SettingRec, ModesRec
<1> HIDE DEF m
<1>3. CASE Letter(p, c) \in {p, Denied(p)}
  BY <1>3, Silent
<1>4. CASE c.on # (c.ch \in p.m.flags) /\ Letter(p, c) = Putting(p, c, None, m)
  BY <1>1, <1>2, <1>4, Told DEF HasAccess
<1>. QED BY <1>1, <1>3, <1>4

(* The next parameter, in terms of those that are left.                     *)
LEMMA ParamIs ==
  ASSUME NEW M \in SUBSET Users, NEW p \in SettingRec(M)
  PROVE  /\ Param(p) \in Args \cup {None}
         /\ Param(p) # None <=> p.params # << >>
         /\ p.params # << >> => Param(p) = Head(p.params)
BY ParamType DEF Param

(* +o and +v name their user on both sides.                                 *)
LEMMA AnnouncedStatus ==
  ASSUME NEW M \in SUBSET Users, NEW p \in SettingRec(M), NEW c \in Letters, c.ch \in StatusModes
  PROVE  Announced(M, p, c, Letter(p, c))
<1> DEFINE u == Param(p)
           m == [p.m EXCEPT !.status[u] = IF c.on THEN @ \cup {c.ch} ELSE @ \ {c.ch}]
<1>1. ASSUME NEW q \in SettingRec(M), q.m = p.m, Param(q) = u
      PROVE  Letter(q, c) = Used(IF ~HasAccess(q) THEN Denied(q)
                                 ELSE IF u \notin M THEN q
                                 ELSE Putting(q, c, u, m))
  <2>1. [Put(q, c.on, c.ch, u) EXCEPT
            !.m.status[u] = IF c.on THEN @ \cup {c.ch} ELSE @ \ {c.ch}] = Putting(q, c, u, m)
    BY <1>1 DEF SettingRec, Put, Putting
  <2>2. Letter(q, c) = Status(q, c.on, c.ch)
    BY LetterIs
  <2>3. DOMAIN q.m.status = M
    BY DEF SettingRec, ModesRec
  <2> HIDE DEF m, u
  <2>. QED BY <1>1, <2>1, <2>2, <2>3 DEF Status
<1>2. u \in M => m \in ModesRec(M)
  BY DEF SettingRec, ModesRec
<1>3. u \in Args \cup {None} /\ (u \in M => u \in Args /\ u # None)
  BY ParamIs, ModesAssumption DEF Args
<1> HIDE DEF m
<1>4. CASE Letter(p, c) \in {Used(p), Used(Denied(p))}
  BY <1>4, Silent
<1>5. CASE u \in M /\ Letter(p, c) = Used(Putting(p, c, u, m))
  <2>1. ASSUME NEW q \in SettingRec(M), q.m = p.m, q.access, q.params # << >>, Head(q.params) = u
        PROVE  Letter(q, c) = Used(Putting(q, c, u, m))
    <3>1. Param(q) = u
      BY <2>1, ParamIs
    <3>. QED BY <1>1, <1>5, <2>1, <3>1 DEF HasAccess
  <2> HIDE DEF u
  <2>. QED BY <1>2, <1>3, <1>5, <2>1, Told
<1>. QED BY <1>1, <1>4, <1>5

(* A mask of a list is announced with it.                                   *)
LEMMA AnnouncedList ==
  ASSUME NEW M \in SUBSET Users, NEW p \in SettingRec(M), NEW c \in Letters, c.ch \in ListModes
  PROVE  Announced(M, p, c, Letter(p, c))
<1> DEFINE u == Param(p)
           m == [p.m EXCEPT !.list[c.ch] = IF c.on THEN @ \cup {u} ELSE @ \ {u}]
           same == \/ c.on = (u \in p.m.list[c.ch])
                   \/ c.on /\ Cardinality(p.m.list[c.ch]) >= MaxBanList
<1>1. ASSUME NEW q \in SettingRec(M), q.m = p.m, Param(q) = u, u # None
      PROVE  Letter(q, c) = Used(IF ~HasAccess(q) THEN Denied(q)
                                 ELSE IF same THEN q
                                 ELSE Putting(q, c, u, m))
  <2>1. [Put(q, c.on, c.ch, u) EXCEPT
            !.m.list[c.ch] = IF c.on THEN @ \cup {u} ELSE @ \ {u}] = Putting(q, c, u, m)
    BY <1>1 DEF SettingRec, Put, Putting
  <2>2. Letter(q, c) = List(q, c.on, c.ch)
    BY LetterIs
  <2> HIDE DEF m, u
  <2>. QED BY <1>1, <2>1, <2>2 DEF List
<1>2. u # None => m \in ModesRec(M)
  <2>1. u # None => u \in Args
    BY ParamIs
  <2>. QED BY <2>1 DEF SettingRec, ModesRec
<1>3. u \in Args \cup {None}
  BY ParamIs
<1> HIDE DEF m, same
<1>4. CASE Letter(p, c) \in {p, Used(p), Used(Denied(p))}
  BY <1>4, Silent
<1>5. CASE u # None /\ ~same /\ Letter(p, c) = Used(Putting(p, c, u, m))
  <2>1. ASSUME NEW q \in SettingRec(M), q.m = p.m, q.access, q.params # << >>, Head(q.params) = u
        PROVE  Letter(q, c) = Used(Putting(q, c, u, m))
    <3>1. Param(q) = u
      BY <2>1, ParamIs
    <3>. QED BY <1>1, <1>5, <2>1, <3>1 DEF HasAccess
  <2> HIDE DEF u
  <2>. QED BY <1>2, <1>3, <1>5, <2>1, Told
<1>6. u = None => Letter(p, c) = p
  BY LetterIs DEF List
<1>. QED BY <1>1, <1>4, <1>5, <1>6

(* +f names its channel, of which the source is an operator for the         *)
(* receiver too; -f takes no parameter.                                    *)
LEMMA AnnouncedForward ==
  ASSUME NEW M \in SUBSET Users, NEW p \in SettingRec(M), NEW c \in Letters,
         c.ch = "f", ~p.force
  PROVE  Announced(M, p, c, Letter(p, c))
<1> DEFINE u == Param(p)
           off == [p.m EXCEPT !.forward = None]
           on == [p.m EXCEPT !.forward = u]
<1>1. Letter(p, c) = Forward(p, c.on) /\ \A q \in SettingRec(M) : Letter(q, c) = Forward(q, c.on)
  BY LetterIs
<1>3. c = [on |-> c.on, ch |-> "f"] /\ c.on \in BOOLEAN
  BY DEF Letters
<1>4. /\ off \in ModesRec(M) /\ (u # None => on \in ModesRec(M))
      /\ u \in Args \cup {None}
  <2>1. u \in Args \cup {None}
    BY ParamIs
  <2>. QED BY <2>1 DEF SettingRec, ModesRec
<1>8. \A q \in SettingRec(M) : Letter(q, c) = IF c.on THEN Forward(q, TRUE) ELSE Forward(q, FALSE)
  BY <1>1, <1>3
<1>2. ASSUME NEW q \in SettingRec(M), q.m = p.m
      PROVE  /\ ~c.on => [Put(q, FALSE, "f", None) EXCEPT !.m.forward = None] = Putting(q, c, None, off)
             /\ c.on => [Put(q, TRUE, "f", u) EXCEPT !.m.forward = u] = Putting(q, c, u, on)
  <2>1. [Put(q, c.on, "f", None) EXCEPT !.m.forward = None] = Putting(q, c, None, off)
    BY <1>2 DEF SettingRec, Put, Putting
  <2>2. [Put(q, c.on, "f", u) EXCEPT !.m.forward = u] = Putting(q, c, u, on)
    BY <1>2 DEF SettingRec, Put, Putting
  <2> HIDE DEF on, off, u
  <2>. QED BY <1>3, <2>1, <2>2
<1> HIDE DEF on, off
<1>5. CASE Letter(p, c) \in {p, Used(p), Denied(p), Used(Denied(p))}
  BY <1>5, Silent
<1>6. CASE c.on = FALSE
  <2>1. ASSUME NEW q \in SettingRec(M), q.m = p.m, p.m.forward # None, HasAccess(q)
        PROVE  Letter(q, c) = Putting(q, c, None, off)
    BY <1>8, <1>2, <1>3, <1>6, <2>1 DEF Forward
  <2>2. CASE Letter(p, c) = Putting(p, c, None, off) /\ p.m.forward # None
    <3>1. \A q \in SettingRec(M) : q.m = p.m /\ q.access => Letter(q, c) = Putting(q, c, None, off)
      BY <2>1, <2>2 DEF HasAccess
    <3>. QED BY <1>4, <2>2, <3>1, Told
  <2>. QED BY <1>8, <1>5, <1>6, <2>1, <2>2 DEF Forward
<1>7. CASE c.on = TRUE
  <2>1. ASSUME NEW q \in SettingRec(M), q.m = p.m, HasAccess(q), Param(q) = u, u # None, u \in q.opOf
        PROVE  Letter(q, c) = Used(Putting(q, c, u, on))
    <3> HIDE DEF u
    <3> QED BY <1>8, <1>2, <1>3, <1>7, <2>1 DEF Forward
  <2>2. CASE Letter(p, c) = Used(Putting(p, c, u, on)) /\ u # None /\ u \in p.opOf
    <3>1. ASSUME NEW q \in SettingRec(M), q.m = p.m, q.access, q.opOf = p.opOf,
                 q.params # << >>, Head(q.params) = u
          PROVE  Letter(q, c) = Used(Putting(q, c, u, on))
      <4>1. Param(q) = u
        BY <3>1, ParamIs
      <4> HIDE DEF u
      <4>. QED BY <2>1, <2>2, <3>1, <4>1 DEF HasAccess
    <3> HIDE DEF u
    <3>. QED BY <1>4, <2>2, <3>1, Told
  <2>. QED BY <1>8, <1>5, <1>7, <2>1, <2>2 DEF Forward
<1>. QED BY <1>3, <1>6, <1>7

(* -k is announced with a parameter as it uses one up.                      *)
LEMMA AnnouncedKey ==
  ASSUME NEW M \in SUBSET Users, NEW p \in SettingRec(M), NEW c \in Letters, c.ch = "k"
  PROVE  Announced(M, p, c, Letter(p, c))
<1> DEFINE u == Param(p)
           off == [p.m EXCEPT !.key = None]
           on == [p.m EXCEPT !.key = u]
<1>1. Letter(p, c) = Key(p, c.on) /\ \A q \in SettingRec(M) : Letter(q, c) = Key(q, c.on)
  BY LetterIs
<1>3. c = [on |-> c.on, ch |-> "k"] /\ c.on \in BOOLEAN /\ Star \in Args /\ Star # None
  BY ModesAssumption DEF Letters, Args
<1>4. /\ off \in ModesRec(M) /\ (u # None => on \in ModesRec(M))
      /\ u \in Args \cup {None}
  <2>1. u \in Args \cup {None}
    BY ParamIs
  <2>. QED BY <2>1 DEF SettingRec, ModesRec
<1>8. \A q \in SettingRec(M) : Letter(q, c) = IF c.on THEN Key(q, TRUE) ELSE Key(q, FALSE)
  BY <1>1, <1>3
<1>2. ASSUME NEW q \in SettingRec(M), q.m = p.m
      PROVE  /\ ~c.on => [Put(q, FALSE, "k", Star) EXCEPT !.m.key = None] = Putting(q, c, Star, off)
             /\ c.on => [Put(q, TRUE, "k", u) EXCEPT !.m.key = u] = Putting(q, c, u, on)
  <2>1. [Put(q, c.on, "k", Star) EXCEPT !.m.key = None] = Putting(q, c, Star, off)
    BY <1>2 DEF SettingRec, Put, Putting
  <2>2. [Put(q, c.on, "k", u) EXCEPT !.m.key = u] = Putting(q, c, u, on)
    BY <1>2 DEF SettingRec, Put, Putting
  <2> HIDE DEF on, off, u
  <2>. QED BY <1>3, <2>1, <2>2
<1> HIDE DEF on, off
<1>5. CASE Letter(p, c) \in {p, Used(p), Denied(p), Used(Denied(p))}
  BY <1>5, Silent
<1>6. CASE c.on = FALSE
  <2>1. ASSUME NEW q \in SettingRec(M), q.m = p.m, p.m.key # None, HasAccess(q)
        PROVE  Letter(q, c) = Used(Putting(q, c, Star, off))
    BY <1>8, <1>2, <1>3, <1>6, <2>1 DEF Key
  <2>2. CASE Letter(p, c) = Used(Putting(p, c, Star, off)) /\ p.m.key # None
    <3>1. \A q \in SettingRec(M) : q.m = p.m /\ q.access => Letter(q, c) = Used(Putting(q, c, Star, off))
      BY <2>1, <2>2 DEF HasAccess
    <3>. QED BY <1>3, <1>4, <2>2, <3>1, Told
  <2>. QED BY <1>8, <1>5, <1>6, <2>1, <2>2 DEF Key
<1>7. CASE c.on = TRUE
  <2>1. ASSUME NEW q \in SettingRec(M), q.m = p.m, HasAccess(q), Param(q) = u, u # None
        PROVE  Letter(q, c) = Used(Putting(q, c, u, on))
    <3> HIDE DEF u
    <3> QED BY <1>8, <1>2, <1>3, <1>7, <2>1 DEF Key
  <2>2. CASE Letter(p, c) = Used(Putting(p, c, u, on)) /\ u # None
    <3>1. ASSUME NEW q \in SettingRec(M), q.m = p.m, q.access, q.params # << >>, Head(q.params) = u
          PROVE  Letter(q, c) = Used(Putting(q, c, u, on))
      <4>1. Param(q) = u
        BY <3>1, ParamIs
      <4> HIDE DEF u
      <4>. QED BY <2>1, <2>2, <3>1, <4>1 DEF HasAccess
    <3> HIDE DEF u
    <3>. QED BY <1>4, <2>2, <3>1, Told
  <2>. QED BY <1>8, <1>5, <1>7, <2>1, <2>2 DEF Key
<1>. QED BY <1>3, <1>6, <1>7

(* +l is announced with a limit that counts; -l takes no parameter.         *)
LEMMA AnnouncedLimit ==
  ASSUME NEW M \in SUBSET Users, NEW p \in SettingRec(M), NEW c \in Letters, c.ch = "l"
  PROVE  Announced(M, p, c, Letter(p, c))
<1> DEFINE u == Param(p)
           off == [p.m EXCEPT !.limit = None]
           on == [p.m EXCEPT !.limit = u]
<1>1. Letter(p, c) = Limit(p, c.on) /\ \A q \in SettingRec(M) : Letter(q, c) = Limit(q, c.on)
  BY LetterIs
<1>3. c = [on |-> c.on, ch |-> "l"] /\ c.on \in BOOLEAN /\ Value(u) \in Int
  BY ModesAssumption DEF Letters, Value
<1>4. /\ off \in ModesRec(M) /\ (Value(u) >= 1 => u \in Limits /\ on \in ModesRec(M))
      /\ u \in Args \cup {None}
  <2>1. u \in Args \cup {None}
    BY ParamIs
  <2>2. Value(u) >= 1 => u \in Limits
    BY DEF Value
  <2>. QED BY <2>1, <2>2 DEF SettingRec, ModesRec
<1>5. p.m.limit = None => [p EXCEPT !.m.limit = None] = p
  BY DEF SettingRec, ModesRec
<1>9. \A q \in SettingRec(M) : Letter(q, c) = IF c.on THEN Limit(q, TRUE) ELSE Limit(q, FALSE)
  BY <1>1, <1>3
<1>2. ASSUME NEW q \in SettingRec(M), q.m = p.m
      PROVE  /\ ~c.on => [Put(q, FALSE, "l", None) EXCEPT !.m.limit = None] = Putting(q, c, None, off)
             /\ c.on => [Put(q, TRUE, "l", u) EXCEPT !.m.limit = u] = Putting(q, c, u, on)
  <2>1. [Put(q, c.on, "l", None) EXCEPT !.m.limit = None] = Putting(q, c, None, off)
    BY <1>2 DEF SettingRec, Put, Putting
  <2>2. [Put(q, c.on, "l", u) EXCEPT !.m.limit = u] = Putting(q, c, u, on)
    BY <1>2 DEF SettingRec, Put, Putting
  <2> HIDE DEF on, off, u
  <2>. QED BY <1>3, <2>1, <2>2
<1> HIDE DEF on, off
<1>6. CASE Letter(p, c) \in {p, Used(p), Denied(p), Used(Denied(p))}
  BY <1>6, Silent
<1>7. CASE c.on = FALSE
  <2>1. ASSUME NEW q \in SettingRec(M), q.m = p.m, p.m.limit # None, HasAccess(q)
        PROVE  Letter(q, c) = Putting(q, c, None, off)
    BY <1>9, <1>2, <1>3, <1>7, <2>1 DEF Limit
  <2>2. CASE Letter(p, c) = Putting(p, c, None, off) /\ p.m.limit # None
    <3>1. \A q \in SettingRec(M) : q.m = p.m /\ q.access => Letter(q, c) = Putting(q, c, None, off)
      BY <2>1, <2>2 DEF HasAccess
    <3>. QED BY <1>4, <2>2, <3>1, Told
  <2>. QED BY <1>9, <1>5, <1>6, <1>7, <2>1, <2>2 DEF Limit
<1>8. CASE c.on = TRUE
  <2>1. ASSUME NEW q \in SettingRec(M), q.m = p.m, HasAccess(q), Param(q) = u, u # None, Value(u) >= 1
        PROVE  Letter(q, c) = Used(Putting(q, c, u, on))
    <3> HIDE DEF u
    <3>1. ~(Value(u) < 1)
      BY <1>3, <2>1
    <3> QED BY <1>9, <1>2, <1>3, <1>8, <2>1, <3>1 DEF Limit
  <2>2. CASE Letter(p, c) = Used(Putting(p, c, u, on)) /\ u # None /\ Value(u) >= 1
    <3>1. ASSUME NEW q \in SettingRec(M), q.m = p.m, q.access, q.params # << >>, Head(q.params) = u
          PROVE  Letter(q, c) = Used(Putting(q, c, u, on))
      <4>1. Param(q) = u
        BY <3>1, ParamIs
      <4> HIDE DEF u
      <4>. QED BY <2>1, <2>2, <3>1, <4>1 DEF HasAccess
    <3> HIDE DEF u
    <3>. QED BY <1>4, <2>2, <3>1, Told
  <2>3. Value(u) < 1 \/ Value(u) >= 1
    BY <1>3
  <2>. QED BY <1>9, <1>6, <1>8, <2>1, <2>2, <2>3 DEF Limit
<1>. QED BY <1>3, <1>7, <1>8

(* Every letter of a setter that is not forced is announced as it must be.  *)
LEMMA LetterAnnounced ==
  ASSUME NEW M \in SUBSET Users, NEW p \in SettingRec(M), ~p.force, NEW c \in Letters
  PROVE  Announced(M, p, c, Letter(p, c))
<1>1. \/ c.ch \in FlagModes \/ c.ch \in StatusModes \/ c.ch \in ListModes
      \/ c.ch = "f" \/ c.ch = "k" \/ c.ch = "l"
  BY DEF Letters
<1>. QED BY <1>1, AnnouncedFlag, AnnouncedStatus, AnnouncedList, AnnouncedForward,
            AnnouncedKey, AnnouncedLimit

(* A command starts from a u_modes of its kinds.                            *)
LEMMA SettingType ==
  ASSUME NEW M \in SUBSET Users, NEW m \in ModesRec(M), NEW params \in Seq(Args),
         NEW access \in BOOLEAN, NEW force \in BOOLEAN, NEW opOf \in SUBSET Chans
  PROVE  Setting(m, params, access, force, opOf) \in SettingRec(M)
BY DEF Setting, SettingRec

(* Sequences: an element at the end of one or at the start of the next.     *)
LEMMA AppendConcat ==
  ASSUME NEW s \in Seq(Args), NEW x \in Args, NEW rest \in Seq(Args)
  PROVE  /\ Append(s, x) \o rest = s \o (<<x>> \o rest)
         /\ Head(<<x>> \o rest) = x /\ Tail(<<x>> \o rest) = rest
         /\ <<x>> \o rest # << >> /\ <<x>> \o rest \in Seq(Args)
OBVIOUS

\* The parameters that start with x, if there is an x
Before(x, rest) == IF x = None THEN rest ELSE <<x>> \o rest

(* The arguments of one more letter come before the rest.                   *)
LEMMA AppendArgs ==
  ASSUME NEW s \in Seq(Args), NEW x \in Args \cup {None}, NEW rest \in Seq(Args)
  PROVE  /\ Before(x, rest) \in Seq(Args)
         /\ WithArg(s, x) \o rest = s \o Before(x, rest)
         /\ x # None => Before(x, rest) # << >> /\ Head(Before(x, rest)) = x
                        /\ Tail(Before(x, rest)) = rest
         /\ x = None => Before(x, rest) = rest
<1>1. CASE x = None
  BY <1>1 DEF Before, WithArg
<1>2. CASE x # None
  <2>1. x \in Args /\ WithArg(s, x) = Append(s, x) /\ Before(x, rest) = <<x>> \o rest
    BY <1>2 DEF Before, WithArg
  <2>2. Append(s, x) \o rest = s \o (<<x>> \o rest)
        /\ Head(<<x>> \o rest) = x /\ Tail(<<x>> \o rest) = rest
        /\ <<x>> \o rest # << >> /\ <<x>> \o rest \in Seq(Args)
    BY <2>1, AppendConcat, Zenon
  <2>. QED BY ONLY <1>2, <2>1, <2>2, Zenon
<1>. QED BY <1>1, <1>2

(* Processing no letter changes nothing.                                   *)
LEMMA ProcessNothing ==
  ASSUME NEW S, NEW p \in S, Kept(S)
  PROVE  Process(p, << >>) = p
<1>1. << >> \in Seq(Letters) /\ Len(<< >>) = 0
  OBVIOUS
<1>2. \A q \in S, x \in Letters : Letter(q, x) \in S
  BY DEF Kept
<1>3. PICK e : e = << >>
  OBVIOUS
<1>4. PICK f : f[0] = p /\ Process(p, e) = f[Len(e)]
  <2>1. e \in Seq(Letters)
    BY <1>1, <1>3
  <2>. QED BY ONLY p \in S, <1>2, <2>1, ProcessSteps
<1>5. Process(p, e) = p
  BY <1>1, <1>3, <1>4
<1>. QED BY <1>3, <1>5

\* A server with the settings m, too, arrives at those of "here" by what is told.
SameThere(here, m, force, opOf) ==
    Process(Setting(m, here.args, TRUE, force, opOf), here.told).m = here.m

(* What u_mode_process announces, processed by a server in the same state  *)
(* for a source with access, leads to the same settings: every letter uses *)
(* up the arguments it was announced with, whatever was refused, left out  *)
(* or without effect before it.                                            *)
THEOREM ProcessReplays ==
  ASSUME NEW M \in SUBSET Users, NEW m \in ModesRec(M), NEW params \in Seq(Args),
         NEW access \in BOOLEAN, NEW force \in BOOLEAN, NEW opOf \in SUBSET Chans,
         NEW letters \in Seq(Letters)
  PROVE  SameThere(Process(Setting(m, params, access, FALSE, opOf), letters), m, force, opOf)
<1> DEFINE There(p, rest) == Process(Setting(m, p.args \o rest, TRUE, force, opOf), p.told)
           Same(p, rest) == /\ There(p, rest).m = p.m /\ There(p, rest).opOf = opOf
                            /\ There(p, rest).access /\ There(p, rest).params = rest
           S == {p \in SettingRec(M) : p.opOf = opOf /\ p.force = FALSE
                                       /\ \A rest \in Seq(Args) : Same(p, rest)}
           p0 == Setting(m, params, access, FALSE, opOf)
<1>1. p0 \in S
  <2>1. p0 \in SettingRec(M) /\ p0.opOf = opOf /\ p0.force = FALSE /\ p0.m = m
        /\ p0.args = << >> /\ p0.told = << >>
    BY SettingType DEF Setting
  <2>2. ASSUME NEW rest \in Seq(Args) PROVE Same(p0, rest)
    <3> DEFINE q == Setting(m, rest, TRUE, force, opOf)
    <3>1. q \in SettingRec(M)
      BY SettingType
    <3>2. q.m = m /\ q.opOf = opOf /\ q.access /\ q.params = rest
      BY DEF Setting
    <3>3. Process(q, << >>) = q
      <4>1. Kept(SettingRec(M))
        BY LetterType DEF Kept
      <4> HIDE DEF q
      <4>. QED BY ONLY <3>1, <4>1, ProcessNothing
    <3>4. << >> \o rest = rest
      OBVIOUS
    <3> HIDE DEF q, p0
    <3>. QED BY <2>1, <3>2, <3>3, <3>4 DEF q
  <2> HIDE DEF p0, Same
  <2>. QED BY <2>1, <2>2
<1>2. ASSUME NEW p \in S, NEW c \in Letters PROVE Letter(p, c) \in S
  <2> DEFINE p2 == Letter(p, c)
  <2>1. p \in SettingRec(M) /\ p.opOf = opOf /\ p.force = FALSE
        /\ \A rest \in Seq(Args) : Same(p, rest)
    BY <1>2
  <2>2. p2 \in SettingRec(M) /\ Announced(M, p, c, p2)
    <3>1. p2 \in SettingRec(M)
      BY ONLY <2>1, c \in Letters, LetterType
    <3>2. p.force = FALSE => Announced(M, p, c, p2)
      BY ONLY <2>1, c \in Letters, LetterAnnounced
    <3>. QED BY <2>1, <3>1, <3>2
  <2>3. p2.opOf = opOf /\ p2.force = FALSE
    BY <2>1, <2>2 DEF Announced
  <2>4. ASSUME NEW rest \in Seq(Args) PROVE Same(p2, rest)
    <3> HIDE DEF p2
    <3>1. CASE p2.m = p.m /\ p2.told = p.told /\ p2.args = p.args
      <4>1. There(p2, rest) = There(p, rest)
        BY ONLY <3>1
      <4> HIDE DEF There
      <4>. QED BY <2>1, <3>1, <4>1
    <3>2. CASE /\ p2.told = Append(p.told, c)
               /\ \E x \in Args \cup {None} :
                     /\ p2.args = WithArg(p.args, x)
                     /\ Redone(M, p, c, x, p2.m)
      <4>1. PICK x \in Args \cup {None} :
                     /\ p2.args = WithArg(p.args, x)
                     /\ Redone(M, p, c, x, p2.m)
        BY <3>2
      <4>2. p.args \in Seq(Args) /\ p.told \in Seq(Letters)
        BY <2>1 DEF SettingRec
      <4> DEFINE r == Before(x, rest)
                 q0 == Setting(m, p.args \o r, TRUE, force, opOf)
                 q == Process(q0, p.told)
      <4>3. r \in Seq(Args) /\ p2.args \o rest = p.args \o r
            /\ (x # None => r # << >> /\ Head(r) = x /\ Tail(r) = rest)
            /\ (x = None => r = rest)
        <5>1. Before(x, rest) \in Seq(Args)
          BY <4>1, <4>2, AppendArgs
        <5>2. WithArg(p.args, x) \o rest = p.args \o Before(x, rest)
          BY <4>2, AppendArgs
        <5>3. p2.args \o rest = p.args \o r
          BY ONLY <4>1, <5>2
        <5>4. /\ (x # None => r # << >> /\ Head(r) = x /\ Tail(r) = rest)
              /\ (x = None => r = rest)
          BY <4>1, <4>2, AppendArgs
        <5>. QED BY <5>1, <5>3, <5>4
      <4> HIDE DEF r
      <4>4. p.args \o r \in Seq(Args)
        BY <4>2, <4>3
      <4>5. q0 \in SettingRec(M)
        BY <4>4, SettingType
      <4>6. q \in SettingRec(M)
        <5> HIDE DEF q0
        <5> QED BY <4>2, <4>5, ProcessType
      <4>7. q.m = p.m /\ q.opOf = opOf /\ q.access /\ q.params = r
        BY <2>1, <4>3
      <4>8. There(p2, rest) = Letter(q, c)
        <5>1. There(p2, rest) = Process(q0, Append(p.told, c))
          BY <3>2, <4>3
        <5> HIDE DEF q0, There
        <5>. QED BY <4>2, <4>5, <5>1, ProcessAppend
      <4> HIDE DEF q, There
      <4>9. /\ Letter(q, c).m = p2.m /\ Letter(q, c).opOf = opOf /\ Letter(q, c).access
            /\ Letter(q, c).params = IF x = None THEN r ELSE Tail(r)
        BY <2>1, <4>1, <4>3, <4>6, <4>7 DEF Redone
      <4>. QED BY <4>3, <4>8, <4>9
    <3>. QED BY <2>2, <3>1, <3>2 DEF Announced
  <2>5. p2 \in S
    <3> HIDE DEF p2, Same
    <3>. QED BY <2>2, <2>3, <2>4
  <2>. QED BY <2>5
<1> DEFINE here == Process(p0, letters)
<1>3. here \in S
  <2> HIDE DEF S, p0
  <2>1. \A s \in Seq(Letters) : \E f \in [0..Len(s) -> S] : Process(p0, s) = f[Len(s)]
    BY ONLY <1>1, <1>2, ProcessSteps
  <2>2. PICK f \in [0..Len(letters) -> S] : Process(p0, letters) = f[Len(letters)]
    BY <2>1
  <2>. QED BY <2>2
<1>4. Same(here, << >>) /\ here.args \in Seq(Args)
  <2> HIDE DEF Same, here
  <2>1. here \in SettingRec(M) /\ \A rest \in Seq(Args) : Same(here, rest)
    BY <1>3
  <2>2. here.args \in Seq(Args)
    BY <2>1 DEF SettingRec
  <2>3. << >> \in Seq(Args)
    OBVIOUS
  <2>. QED BY <2>1, <2>2, <2>3, Zenon
<1>5. here.args \o << >> = here.args
  BY <1>4
<1> HIDE DEF here
<1>6. Process(Setting(m, here.args, TRUE, force, opOf), here.told).m = here.m
  BY <1>4, <1>5
<1>. QED BY <1>6 DEF here, p0, SameThere

-----------------------------------------------------------------------------
(* Channels.                                                               *)

(* A step that leaves the channels alone keeps them and their members.   *)
LEMMA Unmoved ==
  ASSUME UNCHANGED modes
  PROVE  \A c : Alive(c)' = Alive(c) /\ MembersOf(c)' = MembersOf(c)
BY DEF Alive, MembersOf

(* What the type invariant says of a channel that is there and of one    *)
(* that is not.                                                          *)
LEMMA MembersAre ==
  ASSUME TypeOK
  PROVE  \A c \in Chans :
           /\ MembersOf(c) \subseteq Users
           /\ Alive(c) => modes[c] \in ModesRec(MembersOf(c)) /\ DOMAIN modes[c].status = MembersOf(c)
           /\ ~Alive(c) => modes[c] = None /\ MembersOf(c) = {}
BY DEF TypeOK, Alive, MembersOf

(* The bound on commands holds.                                          *)
LEMMA CountType ==
  ASSUME TypeOK, Count
  PROVE  ops' \in 0..MaxOps
BY ChanAssumption DEF TypeOK, Count

(* At the start there are no channels.                                   *)
LEMMA InitInv == Init => IInv
<1> SUFFICES ASSUME Init PROVE IInv
  OBVIOUS
<1>1. \A c \in Chans : ~Alive(c) /\ MembersOf(c) = {}
  BY DEF Init, Alive, MembersOf
<1>2. TypeOK
  <2>1. << >> \in [{} -> [muted : BOOLEAN, current : BOOLEAN]]
    OBVIOUS
  <2>2. /\ channels \in [Users -> [live : SUBSET Chans, null : SUBSET Chans, open : BOOLEAN]]
        /\ invites \in [Chans -> SUBSET Users] /\ invited \in [Users -> SUBSET Chans]
        /\ unsynced \in [Chans -> SUBSET Users] /\ synced \in [Chans -> BOOLEAN]
        /\ DOMAIN modes = Chans /\ DOMAIN cu = Chans /\ ops \in 0..MaxOps
    BY ChanAssumption DEF Init, NoChannels
  <2>3. \A c \in Chans : cu[c] \in [MembersOf(c) -> [muted : BOOLEAN, current : BOOLEAN]]
    BY <1>1, <2>1 DEF Init
  <2>. QED BY <1>1, <2>2, <2>3, ChanAssumption DEF Init, TypeOK
<1>3. BothWays /\ NoEmptyChannel /\ NullKeysWait /\ AbortsByWhoOnly
  BY <1>1 DEF Init, BothWays, NoEmptyChannel, NullKeysWait, AbortsByWhoOnly, NoChannels
<1>4. FirstCookie /\ MutedRight
  BY <1>1 DEF Init, FirstCookie, MutedRight
<1>. QED BY <1>2, <1>3, <1>4 DEF IInv

(* WHO leaves a loop over a user's channels open and nothing else.       *)
LEMMA WhoInv ==
  ASSUME IInv, ~aborted, NEW u \in Users, Who(u)
  PROVE  IInv'
<1> USE DEF IInv
<1>1. \A c : Alive(c)' = Alive(c) /\ MembersOf(c)' = MembersOf(c)
  BY Unmoved DEF Who
<1>2. TypeOK'
  <2>1. channels' \in [Users -> [live : SUBSET Chans, null : SUBSET Chans, open : BOOLEAN]]
    <3>1. channels' = [channels EXCEPT ![u] = [channels[u] EXCEPT !.open = TRUE]]
      BY DEF Who
    <3>2. [channels[u] EXCEPT !.open = TRUE] \in
             [live : SUBSET Chans, null : SUBSET Chans, open : BOOLEAN]
      <4>1. channels[u] \in [live : SUBSET Chans, null : SUBSET Chans, open : BOOLEAN]
        BY DEF TypeOK
      <4>. QED BY ONLY <4>1
    <3>. QED BY <3>1, <3>2 DEF TypeOK
  <2>2. ops' \in 0..MaxOps
    BY CountType DEF Who
  <2>. QED BY <1>1, <2>1, <2>2 DEF Who, TypeOK
<1>3. \A v \in Users : channels'[v].live = channels[v].live /\ channels'[v].null = channels[v].null
                       /\ (channels[v].open => channels'[v].open)
  BY DEF Who, TypeOK
<1>4. channels'[u].open
  BY DEF Who, TypeOK
<1>5. BothWays' /\ NoEmptyChannel'
  BY <1>1, <1>3 DEF Who, BothWays, NoEmptyChannel
<1>6. NullKeysWait' /\ AbortsByWhoOnly'
  <2>1. \A v \in Users : v # u => channels'[v] = channels[v]
    BY DEF Who, TypeOK
  <2>. QED BY <2>1, <1>3, <1>4 DEF Who, NullKeysWait, AbortsByWhoOnly
<1>7. FirstCookie' /\ MutedRight'
  BY <1>1 DEF Who, FirstCookie, MutedRight, Muted, InList
<1>. QED BY <1>2, <1>5, <1>6, <1>7

(* INVITE enters the invitation in both maps, for a user and a channel   *)
(* that are there.                                                       *)
LEMMA InviteInv ==
  ASSUME IInv, ~aborted, NEW by \in users, NEW u \in Users, NEW c \in Chans, Invite(by, u, c)
  PROVE  IInv'
<1> USE DEF IInv
<1>1. \A d : Alive(d)' = Alive(d) /\ MembersOf(d)' = MembersOf(d)
  BY Unmoved DEF Invite
<1>2. TypeOK'
  <2>1. invites' \in [Chans -> SUBSET Users] /\ invited' \in [Users -> SUBSET Chans]
    BY DEF Invite, TypeOK
  <2>2. ops' \in 0..MaxOps
    BY CountType DEF Invite
  <2>. QED BY <1>1, <2>1, <2>2 DEF Invite, TypeOK
<1>3. BothWays'
  BY <1>1 DEF Invite, BothWays, TypeOK
<1>4. NoEmptyChannel' /\ NullKeysWait' /\ AbortsByWhoOnly'
  BY <1>1 DEF Invite, NoEmptyChannel, NullKeysWait, AbortsByWhoOnly
<1>5. FirstCookie' /\ MutedRight'
  BY <1>1 DEF Invite, FirstCookie, MutedRight, Muted, InList
<1>. QED BY <1>2, <1>3, <1>4, <1>5

(* After a NICK the mutes of that user are not up to date anywhere.      *)
LEMMA NickInv ==
  ASSUME IInv, ~aborted, NEW u \in Users, NEW i \in Idents, Nick(u, i)
  PROVE  IInv'
<1> USE DEF IInv
<1>1. \A d : Alive(d)' = Alive(d) /\ MembersOf(d)' = MembersOf(d)
  BY Unmoved DEF Nick
<1>2. TypeOK'
  <2>1. unsynced' \in [Chans -> SUBSET Users]
    BY DEF Nick, TypeOK
  <2>2. ops' \in 0..MaxOps
    BY CountType DEF Nick
  <2>3. ident' \in [Users -> Idents]
    BY DEF Nick, TypeOK
  <2>. QED BY <1>1, <2>1, <2>2, <2>3 DEF Nick, TypeOK
<1>3. BothWays' /\ NoEmptyChannel' /\ NullKeysWait' /\ AbortsByWhoOnly'
  BY <1>1 DEF Nick, BothWays, NoEmptyChannel, NullKeysWait, AbortsByWhoOnly
<1>4. \A d \in Chans : Alive(d) => unsynced'[d] = unsynced[d] \cup {u}
  BY DEF Nick
<1>5. FirstCookie'
  BY <1>1, <1>4 DEF Nick, FirstCookie
<1>6. MutedRight'
  <2> SUFFICES ASSUME NEW c \in Chans, NEW v \in MembersOf(c), v \notin unsynced'[c], cu[c][v].current
               PROVE  cu[c][v].muted = Muted(c, v)'
    BY <1>1 DEF Nick, MutedRight
  <2>1. Alive(c) /\ v \notin unsynced[c] /\ v # u
    BY <1>4 DEF MembersOf
  <2>2. ident'[v] = ident[v]
    BY <2>1 DEF Nick, TypeOK
  <2>3. Muted(c, v)' = Muted(c, v)
    BY <2>2 DEF Nick, Muted, InList
  <2>. QED BY <2>1, <2>3 DEF MutedRight
<1>. QED BY <1>2, <1>3, <1>5, <1>6

(* u_is_muted works the answer out and keeps it; the cookie had been     *)
(* advanced.                                                             *)
LEMMA MessageInv ==
  ASSUME IInv, ~aborted, NEW u \in Users, NEW c \in Chans, Message(u, c)
  PROVE  IInv'
<1> USE DEF IInv
<1>1. \A d : Alive(d)' = Alive(d) /\ MembersOf(d)' = MembersOf(d)
  BY Unmoved DEF Message
<1> DEFINE answer == [muted |-> Muted(c, u), current |-> TRUE]
<1>2. /\ cu' = [cu EXCEPT ![c] = [cu[c] EXCEPT ![u] = answer]]
      /\ u \in MembersOf(c) /\ ~cu[c][u].current
  BY DEF Message
<1>3. cu[c] \in [MembersOf(c) -> [muted : BOOLEAN, current : BOOLEAN]]
  BY DEF TypeOK
<1>4. /\ DOMAIN cu' = Chans /\ \A d \in Chans : d # c => cu'[d] = cu[d]
      /\ cu'[c] = [cu[c] EXCEPT ![u] = answer]
  BY <1>2 DEF TypeOK
<1>5. answer \in [muted : BOOLEAN, current : BOOLEAN]
  BY DEF Muted
<1> HIDE DEF answer
<1>6. TypeOK'
  <2>1. \A d \in Chans : cu'[d] \in [MembersOf(d) -> [muted : BOOLEAN, current : BOOLEAN]]
    <3>1. cu'[c] \in [MembersOf(c) -> [muted : BOOLEAN, current : BOOLEAN]]
      BY <1>3, <1>4, <1>5
    <3>. QED BY <1>4, <3>1 DEF TypeOK
  <2>2. unsynced' \in [Chans -> SUBSET Users]
    BY DEF Message, TypeOK
  <2>. QED BY <1>1, <1>4, <2>1, <2>2 DEF Message, TypeOK
<1>7. BothWays' /\ NoEmptyChannel' /\ NullKeysWait' /\ AbortsByWhoOnly'
  BY <1>1 DEF Message, BothWays, NoEmptyChannel, NullKeysWait, AbortsByWhoOnly
<1>8. synced[c]
  BY <1>2 DEF FirstCookie
<1>9. \A d \in Chans : d # c => unsynced'[d] = unsynced[d]
  BY DEF Message, TypeOK
<1>10. FirstCookie'
  BY <1>1, <1>4, <1>8, <1>9 DEF Message, FirstCookie
<1>11. MutedRight'
  <2> SUFFICES ASSUME NEW d \in Chans, NEW v \in MembersOf(d), v \notin unsynced'[d], cu'[d][v].current
               PROVE  cu'[d][v].muted = Muted(d, v)
    BY <1>1 DEF Message, MutedRight, Muted, InList
  <2>1. CASE d = c /\ v = u
    BY <1>2, <1>3, <1>4, <2>1 DEF answer
  <2>2. CASE ~(d = c /\ v = u)
    <3>1. cu'[d][v] = cu[d][v]
      BY <1>3, <1>4, <2>2
    <3>2. v \notin unsynced[d]
      BY <1>9, <2>2 DEF Message, TypeOK
    <3>. QED BY <3>1, <3>2 DEF MutedRight
  <2>. QED BY <2>1, <2>2
<1>. QED BY <1>6, <1>7, <1>10, <1>11

(* restore_chan rebuilds the maps of the users from those of the         *)
(* channels.                                                             *)
LEMMA UpgradeInv ==
  ASSUME IInv, ~aborted, Upgrade
  PROVE  IInv'
<1> USE DEF IInv
<1>1. \A d : Alive(d)' = Alive(d) /\ MembersOf(d)' = MembersOf(d)
  BY Unmoved DEF Upgrade
<1>2. /\ \A u \in Users : /\ channels'[u].live = {c \in Chans : u \in MembersOf(c)}
                          /\ channels'[u].null = {} /\ channels'[u].open = FALSE
      /\ channels' \in [Users -> [live : SUBSET Chans, null : SUBSET Chans, open : BOOLEAN]]
  BY DEF Upgrade
<1>3. invited' \in [Users -> SUBSET Chans]
      /\ \A u \in Users : invited'[u] = {c \in Chans : u \in invites[c]}
  BY DEF Upgrade
<1>4. TypeOK'
  BY <1>1, <1>2, <1>3 DEF Upgrade, TypeOK
<1>5. BothWays' /\ NoEmptyChannel' /\ NullKeysWait' /\ AbortsByWhoOnly'
  BY <1>1, <1>2, <1>3 DEF Upgrade, BothWays, NoEmptyChannel, NullKeysWait, AbortsByWhoOnly
<1>6. FirstCookie' /\ MutedRight'
  BY <1>1 DEF Upgrade, FirstCookie, MutedRight, Muted, InList
<1>. QED BY <1>4, <1>5, <1>6

(* After a mode command the channel has the settings it led to and the   *)
(* members it had.                                                       *)
LEMMA ModeDoneModes ==
  ASSUME IInv, NEW c \in Chans, Alive(c), NEW p \in SettingRec(MembersOf(c)), ModeDone(c, p)
  PROVE  /\ p.m \in ModesRec(MembersOf(c))
         /\ DOMAIN modes' = Chans /\ modes'[c] = p.m
         /\ \A d \in Chans : d # c => modes'[d] = modes[d]
         /\ \A d : (Alive(d)' <=> Alive(d)) /\ MembersOf(d)' = MembersOf(d)
<1> USE DEF IInv
<1>1. p.m \in ModesRec(MembersOf(c)) /\ p.m # None
  <2>1. MembersOf(c) \in SUBSET Users
    BY MembersAre
  <2>. QED BY <2>1, ModesAssumption DEF SettingRec
<1>2. /\ DOMAIN modes' = Chans /\ modes'[c] = p.m
      /\ \A d \in Chans : d # c => modes'[d] = modes[d]
  BY DEF ModeDone, TypeOK
<1>3. \A d : (Alive(d)' <=> Alive(d)) /\ MembersOf(d)' = MembersOf(d)
  <2>1. DOMAIN p.m.status = MembersOf(c)
    BY <1>1 DEF ModesRec
  <2>2. Alive(c)' /\ MembersOf(c)' = MembersOf(c)
    BY <1>1, <1>2, <2>1 DEF Alive, MembersOf
  <2>3. ASSUME NEW d, d # c PROVE (Alive(d)' <=> Alive(d)) /\ MembersOf(d)' = MembersOf(d)
    BY <1>2, <2>3 DEF Alive, MembersOf
  <2>. QED BY <2>2, <2>3
<1>. QED BY <1>1, <1>2, <1>3

(* A mode command advances the cookie, so that no answer counts as       *)
(* current.                                                              *)
LEMMA ModeDoneInv ==
  ASSUME IInv, ~aborted, NEW c \in Chans, Alive(c), NEW p \in SettingRec(MembersOf(c)),
         ModeDone(c, p), Count
  PROVE  IInv'
<1> USE DEF IInv
<1>1. p.m \in ModesRec(MembersOf(c))
  BY ModeDoneModes
<1>2. /\ DOMAIN modes' = Chans /\ modes'[c] = p.m
      /\ \A d \in Chans : d # c => modes'[d] = modes[d]
  BY ModeDoneModes
<1>3. \A d : (Alive(d)' <=> Alive(d)) /\ MembersOf(d)' = MembersOf(d)
  BY ModeDoneModes
<1>4. /\ DOMAIN cu' = Chans /\ cu'[c] = [v \in DOMAIN cu[c] |-> [cu[c][v] EXCEPT !.current = FALSE]]
      /\ \A d \in Chans : d # c => cu'[d] = cu[d]
      /\ synced' = [synced EXCEPT ![c] = TRUE]
      /\ unsynced' = [unsynced EXCEPT ![c] = {}]
  BY DEF ModeDone, Sync, TypeOK
<1>5. /\ cu'[c] \in [MembersOf(c) -> [muted : BOOLEAN, current : BOOLEAN]]
      /\ \A v \in MembersOf(c) : ~cu'[c][v].current
  <2>1. cu[c] \in [MembersOf(c) -> [muted : BOOLEAN, current : BOOLEAN]]
    BY DEF TypeOK
  <2>2. ASSUME NEW r \in [muted : BOOLEAN, current : BOOLEAN]
        PROVE  /\ [r EXCEPT !.current = FALSE] \in [muted : BOOLEAN, current : BOOLEAN]
               /\ ~[r EXCEPT !.current = FALSE].current
    BY ONLY TRUE
  <2>. QED BY ONLY <1>4, <2>1, <2>2
<1>6. TypeOK'
  <2>1. \A d \in Chans : /\ MembersOf(d)' \subseteq Users
                         /\ Alive(d)' => modes'[d] \in ModesRec(MembersOf(d)')
    BY <1>1, <1>2, <1>3 DEF TypeOK
  <2>2. \A d \in Chans : cu'[d] \in [MembersOf(d)' -> [muted : BOOLEAN, current : BOOLEAN]]
    BY <1>3, <1>4, <1>5 DEF TypeOK
  <2>3. synced' \in [Chans -> BOOLEAN] /\ unsynced' \in [Chans -> SUBSET Users]
    BY <1>4 DEF TypeOK
  <2>4. ops' \in 0..MaxOps
    BY CountType
  <2>. QED BY <1>2, <1>4, <2>1, <2>2, <2>3, <2>4 DEF ModeDone, TypeOK
<1>7. BothWays' /\ NoEmptyChannel' /\ NullKeysWait' /\ AbortsByWhoOnly'
  BY <1>3 DEF ModeDone, BothWays, NoEmptyChannel, NullKeysWait, AbortsByWhoOnly
<1>8. FirstCookie'
  <2>1. synced'[c] /\ \A d \in Chans : d # c => synced'[d] = synced[d] /\ unsynced'[d] = unsynced[d]
    BY <1>4 DEF TypeOK
  <2>. QED BY <1>2, <1>3, <1>4, <2>1 DEF FirstCookie
<1>9. MutedRight'
  <2> SUFFICES ASSUME NEW d \in Chans, NEW v \in MembersOf(d), v \notin unsynced'[d], cu'[d][v].current
               PROVE  cu'[d][v].muted = Muted(d, v)'
    BY <1>3 DEF MutedRight
  <2>1. d # c
    BY <1>5
  <2>2. Muted(d, v)' = Muted(d, v)
    BY <1>2, <2>1 DEF ModeDone, Muted, InList
  <2>3. unsynced'[d] = unsynced[d]
    BY <1>4, <2>1 DEF TypeOK
  <2>. QED BY <1>4, <2>1, <2>2, <2>3 DEF MutedRight
<1>. QED BY <1>6, <1>7, <1>8, <1>9

(* MODE and TMODE, from whatever source, end with settings of the right  *)
(* kinds.                                                                *)
LEMMA ModeIsDone ==
  ASSUME IInv, NEW c \in Chans, NEW u \in Users, NEW cmd \in Commands, cmd.chan = c,
         Mode(u, c, cmd) \/ RemoteMode(u, c, cmd)
  PROVE  Alive(c) /\ Count /\ \E p \in SettingRec(MembersOf(c)) : ModeDone(c, p)
<1>1. Alive(c) /\ Count
  BY DEF Mode, RemoteMode
<1>2. modes[c] \in ModesRec(MembersOf(c)) /\ MembersOf(c) \in SUBSET Users
  BY <1>1, MembersAre DEF IInv
<1>3. cmd.args \in Seq(Args) /\ cmd.letters \in Seq(Letters)
  BY ChanAssumption
<1>4. IsOp(c, u) \in BOOLEAN /\ OpOf(u) \in SUBSET Chans
  BY DEF IsOp, OpOf
<1>5. \A access, force \in BOOLEAN :
         Process(Setting(modes[c], cmd.args, access, force, OpOf(u)), cmd.letters)
            \in SettingRec(MembersOf(c))
  BY <1>2, <1>3, <1>4, SettingType, ProcessType
<1>6. PICK access \in BOOLEAN, force \in BOOLEAN :
         ModeDone(c, Process(Setting(modes[c], cmd.args, access, force, OpOf(u)), cmd.letters))
  BY <1>4 DEF Mode, RemoteMode
<1>. QED BY <1>1, <1>5, <1>6

(* So they keep the invariant.                                           *)
LEMMA ModeInv ==
  ASSUME IInv, ~aborted, NEW c \in Chans, NEW u \in Users, NEW cmd \in Commands, cmd.chan = c,
         Mode(u, c, cmd) \/ RemoteMode(u, c, cmd)
  PROVE  IInv'
BY ModeIsDone, ModeDoneInv

(* A new channel has settings of the right kinds, and no members.        *)
LEMMA NewModesType == NewModes \in ModesRec({})
<1>1. << >> \in [{} -> SUBSET StatusModes]
  OBVIOUS
<1>2. [l \in ListModes |-> {}] \in [ListModes -> SUBSET Args]
  OBVIOUS
<1>3. {"n", "t"} \subseteq FlagModes
  BY DEF FlagModes
<1>. QED BY <1>1, <1>2, <1>3 DEF NewModes, ModesRec

(* BMASK changes one list of one channel, which it makes if it has to.   *)
LEMMA BmaskModes ==
  ASSUME IInv, NEW c \in Chans, NEW l \in BmaskLists, NEW mask \in Masks, Bmask(c, l, mask)
  PROVE  LET m == IF Alive(c) THEN modes[c] ELSE NewModes
         IN  /\ m \in ModesRec(MembersOf(c))
             /\ modes'[c] \in ModesRec(MembersOf(c))
             /\ modes'[c].status = m.status /\ modes'[c].flags = m.flags
             /\ l # "q" => modes'[c].list["q"] = m.list["q"]
             /\ DOMAIN modes' = Chans /\ \A d \in Chans : d # c => modes'[d] = modes[d]
             /\ Alive(c)' /\ \A d : MembersOf(d)' = MembersOf(d)
             /\ \A d : d # c => Alive(d)' = Alive(d)
<1> USE DEF IInv
<1> DEFINE m == IF Alive(c) THEN modes[c] ELSE NewModes
           m2 == [m EXCEPT !.list = [m.list EXCEPT ![l] = @ \cup {mask}]]
<1>1. m \in ModesRec(MembersOf(c))
  BY MembersAre, NewModesType
<1>2. /\ m2 \in ModesRec(MembersOf(c)) /\ m2 # None /\ m2.status = m.status /\ m2.flags = m.flags
      /\ l # "q" => m2.list["q"] = m.list["q"]
  <2>1. l \in ListModes /\ mask \in Args
    BY ChanAssumption DEF Args
  <2>2. m2 \in ModesRec(MembersOf(c)) /\ m2.status = m.status /\ m2.flags = m.flags
        /\ m2.list = [m.list EXCEPT ![l] = m.list[l] \cup {mask}]
    BY <1>1, <2>1 DEF ModesRec
  <2>3. l # "q" => m2.list["q"] = m.list["q"]
    BY <1>1, <2>1, <2>2 DEF ModesRec, ListModes
  <2>4. MembersOf(c) \in SUBSET Users
    BY MembersAre
  <2> HIDE DEF m2
  <2>. QED BY <2>2, <2>3, <2>4, ModesAssumption
<1>3. /\ DOMAIN modes' = Chans /\ modes'[c] = m2
      /\ \A d \in Chans : d # c => modes'[d] = modes[d]
  BY DEF Bmask, TypeOK
<1>4. DOMAIN m2.status = MembersOf(c)
  BY <1>2 DEF ModesRec
<1> HIDE DEF m2
<1>5. /\ Alive(c)' /\ \A d : MembersOf(d)' = MembersOf(d)
      /\ \A d : d # c => Alive(d)' = Alive(d)
  <2>1. Alive(c)' /\ MembersOf(c)' = MembersOf(c)
    BY <1>2, <1>3, <1>4 DEF Alive, MembersOf
  <2>2. ASSUME NEW d, d # c PROVE Alive(d)' = Alive(d) /\ MembersOf(d)' = MembersOf(d)
    BY <1>3, <2>2 DEF Alive, MembersOf
  <2>. QED BY <2>1, <2>2
<1>. QED BY <1>1, <1>2, <1>3, <1>5

(* A BMASK of the quiet list is marked as not synchronised, for every    *)
(* user.                                                                 *)
LEMMA BmaskInv ==
  ASSUME IInv, ~aborted, NEW c \in Chans, NEW l \in BmaskLists, NEW mask \in Masks, Bmask(c, l, mask)
  PROVE  IInv'
<1> USE DEF IInv
<1> DEFINE m == IF Alive(c) THEN modes[c] ELSE NewModes
           m2 == modes'[c]
<1>1. m \in ModesRec(MembersOf(c))
  BY BmaskModes
<1>2. /\ m2 \in ModesRec(MembersOf(c)) /\ m2.status = m.status /\ m2.flags = m.flags
      /\ l # "q" => m2.list["q"] = m.list["q"]
  BY BmaskModes
<1>3. /\ DOMAIN modes' = Chans
      /\ \A d \in Chans : d # c => modes'[d] = modes[d]
  BY BmaskModes
<1>5. /\ Alive(c)' /\ \A d : MembersOf(d)' = MembersOf(d)
      /\ \A d : d # c => Alive(d)' = Alive(d)
  BY BmaskModes
<1>6. /\ \A d \in Chans : d # c => unsynced'[d] = unsynced[d]
      /\ IF l = "q" THEN unsynced'[c] = Users ELSE unsynced'[c] = unsynced[c]
      /\ unsynced' \in [Chans -> SUBSET Users]
  BY DEF Bmask, TypeOK
<1>7. TypeOK'
  <2>1. \A d \in Chans : /\ MembersOf(d)' \subseteq Users
                         /\ Alive(d)' => modes'[d] \in ModesRec(MembersOf(d)')
    BY <1>2, <1>3, <1>5 DEF TypeOK
  <2>2. \A d \in Chans : cu'[d] \in [MembersOf(d)' -> [muted : BOOLEAN, current : BOOLEAN]]
    BY <1>5 DEF Bmask, TypeOK
  <2>3. ops' \in 0..MaxOps /\ serverMade' \subseteq Chans
    BY CountType DEF Bmask, TypeOK
  <2>. QED BY <1>3, <1>6, <2>1, <2>2, <2>3 DEF Bmask, TypeOK
<1>8. BothWays'
  BY <1>5 DEF Bmask, BothWays
<1>9. NoEmptyChannel' /\ NullKeysWait' /\ AbortsByWhoOnly'
  BY <1>5 DEF Bmask, NoEmptyChannel, NullKeysWait, AbortsByWhoOnly
<1>10. FirstCookie'
  <2> SUFFICES ASSUME NEW d \in Chans
               PROVE  IF synced[d] THEN Alive(d)' ELSE
                        /\ \A u \in MembersOf(d) : cu[d][u] = [muted |-> FALSE, current |-> TRUE]
                        /\ Alive(d)' => "m" \notin modes'[d].flags
                        /\ Alive(d)' /\ modes'[d].list["q"] # {} => unsynced'[d] = Users
    BY <1>5 DEF Bmask, FirstCookie
  <2>1. CASE d # c
    BY <1>3, <1>5, <1>6, <2>1 DEF FirstCookie
  <2>2. CASE d = c
    <3>1. ~synced[c] => "m" \notin m.flags
                        /\ (m.list["q"] # {} => unsynced[c] = Users)
      BY DEF FirstCookie, NewModes, ListModes
    <3> HIDE DEF m
    <3>2. ~synced[c] => "m" \notin m2.flags /\ (m2.list["q"] # {} => unsynced'[c] = Users)
      BY <1>2, <1>6, <3>1
    <3>. QED BY <1>3, <1>5, <2>2, <3>2 DEF FirstCookie
  <2>. QED BY <2>1, <2>2
<1>11. MutedRight'
  <2> SUFFICES ASSUME NEW d \in Chans, NEW v \in MembersOf(d), v \notin unsynced'[d], cu[d][v].current
               PROVE  cu[d][v].muted = Muted(d, v)'
    BY <1>5 DEF Bmask, MutedRight
  <2>1. v \in Users
    BY DEF TypeOK
  <2>2. v \notin unsynced[d] /\ (d = c => l # "q")
    BY <1>6, <2>1
  <2>3. cu[d][v].muted = Muted(d, v)
    BY <2>2 DEF MutedRight
  <2>4. CASE d # c
    BY <1>3, <2>3, <2>4 DEF Bmask, Muted, InList
  <2>5. CASE d = c
    <3>1. Alive(c) /\ m = modes[c]
      BY <2>5 DEF MembersOf
    <3>2. modes'[c].status = modes[c].status /\ modes'[c].flags = modes[c].flags
          /\ modes'[c].list["q"] = modes[c].list["q"]
      BY <1>2, <1>3, <2>2, <2>5, <3>1
    <3>3. ident' = ident
      BY DEF Bmask
    <3>. QED BY <2>3, <2>5, <3>2, <3>3 DEF Muted, InList
  <2>. QED BY <2>4, <2>5
<1>. QED BY <1>7, <1>8, <1>9, <1>10, <1>11

(* u_chan_user_add adds a member and leaves the settings and the other   *)
(* members alone.                                                        *)
LEMMA MemberType ==
  ASSUME NEW M \in SUBSET Users, NEW m \in ModesRec(M), NEW u \in Users,
         NEW status \in SUBSET StatusModes
  PROVE  /\ Member(m, u, status) \in ModesRec(M \cup {u})
         /\ Member(m, u, status) # None
         /\ DOMAIN Member(m, u, status).status = M \cup {u}
         /\ Member(m, u, status).flags = m.flags /\ Member(m, u, status).list = m.list
         /\ \A v \in M \ {u} : Member(m, u, status).status[v] = m.status[v]
<1> DEFINE f == [v \in M \cup {u} |-> IF v = u THEN status ELSE m.status[v]]
<1>1. m.status \in [M -> SUBSET StatusModes]
  BY DEF ModesRec
<1>2. f \in [M \cup {u} -> SUBSET StatusModes]
  BY <1>1
<1>3. Member(m, u, status) = [m EXCEPT !.status = f]
  BY <1>1 DEF Member
<1>4. \A v \in M \ {u} : f[v] = m.status[v]
  OBVIOUS
<1>5. DOMAIN f = M \cup {u}
  OBVIOUS
<1> HIDE DEF f
<1>6. /\ [m EXCEPT !.status = f] \in ModesRec(M \cup {u})
      /\ [m EXCEPT !.status = f].status = f
      /\ [m EXCEPT !.status = f].flags = m.flags /\ [m EXCEPT !.status = f].list = m.list
  BY <1>2 DEF ModesRec
<1>. QED BY <1>3, <1>4, <1>5, <1>6, ModesAssumption

(* A user who has joined is in both maps, and not muted as long as the   *)
(* cookie has not been advanced.                                         *)
LEMMA JoinedInv ==
  ASSUME IInv, ~aborted, NEW c \in Chans, NEW u \in users, u \notin MembersOf(c),
         NEW m, m = IF Alive(c) THEN modes[c] ELSE NewModes,
         NEW status \in SUBSET StatusModes,
         modes' = [modes EXCEPT ![c] = Member(m, u, status)],
         cu' = [cu EXCEPT ![c] = WithCu(c, u)],
         channels' = [channels EXCEPT ![u].live = @ \cup {c}],
         \/ /\ invites' = [invites EXCEPT ![c] = @ \ {u}]
            /\ invited' = [invited EXCEPT ![u] = @ \ {c}]
         \/ UNCHANGED << invites, invited >>,
         UNCHANGED << synced, users, ident, aborted, unsynced, serverMade, ops >>
  PROVE  IInv'
<1> USE DEF IInv
<1> DEFINE m2 == Member(m, u, status)
           M2 == MembersOf(c) \cup {u}
<1>1. m \in ModesRec(MembersOf(c)) /\ MembersOf(c) \in SUBSET Users /\ u \in Users
  BY MembersAre, NewModesType DEF TypeOK
<1>2. /\ m2 \in ModesRec(M2) /\ m2 # None /\ DOMAIN m2.status = M2
      /\ m2.flags = m.flags /\ m2.list = m.list
      /\ \A v \in MembersOf(c) : m2.status[v] = m.status[v]
  <2>1. /\ m2 \in ModesRec(M2) /\ m2 # None /\ DOMAIN m2.status = M2
        /\ m2.flags = m.flags /\ m2.list = m.list
        /\ \A v \in MembersOf(c) \ {u} : m2.status[v] = m.status[v]
    <3>1. status \in SUBSET StatusModes
      OBVIOUS
    <3>. QED BY ONLY <1>1, <3>1, MemberType
  <2> HIDE DEF m2
  <2>. QED BY <2>1
<1> HIDE DEF m2
<1>3. /\ DOMAIN modes' = Chans /\ modes'[c] = m2
      /\ \A d \in Chans : d # c => modes'[d] = modes[d]
  BY DEF m2, TypeOK
<1>4. /\ Alive(c)' /\ MembersOf(c)' = M2
      /\ \A d : d # c => (Alive(d)' <=> Alive(d)) /\ MembersOf(d)' = MembersOf(d)
  <2>1. Alive(c)' /\ MembersOf(c)' = M2
    BY <1>2, <1>3 DEF Alive, MembersOf
  <2>2. ASSUME NEW d, d # c PROVE (Alive(d)' <=> Alive(d)) /\ MembersOf(d)' = MembersOf(d)
    BY <1>3, <2>2 DEF Alive, MembersOf
  <2>. QED BY <2>1, <2>2
<1>5. /\ DOMAIN cu' = Chans /\ \A d \in Chans : d # c => cu'[d] = cu[d]
      /\ cu'[c] \in [M2 -> [muted : BOOLEAN, current : BOOLEAN]]
      /\ cu'[c][u] = [muted |-> FALSE, current |-> ~synced[c]]
      /\ \A v \in MembersOf(c) : cu'[c][v] = cu[c][v]
  <2>1. cu[c] \in [MembersOf(c) -> [muted : BOOLEAN, current : BOOLEAN]]
    BY DEF TypeOK
  <2>2. NewCu(c) \in [muted : BOOLEAN, current : BOOLEAN]
    BY DEF NewCu
  <2>3. DOMAIN cu' = Chans /\ cu'[c] = WithCu(c, u) /\ \A d \in Chans : d # c => cu'[d] = cu[d]
    BY DEF TypeOK
  <2>4. WithCu(c, u) = [v \in M2 |-> IF v = u THEN NewCu(c) ELSE cu[c][v]]
    BY <2>1 DEF WithCu
  <2>5. WithCu(c, u) \in [M2 -> [muted : BOOLEAN, current : BOOLEAN]]
    BY <2>1, <2>2, <2>4
  <2>6. WithCu(c, u)[u] = NewCu(c) /\ \A v \in MembersOf(c) : WithCu(c, u)[v] = cu[c][v]
    BY <2>4
  <2>. QED BY <2>3, <2>5, <2>6 DEF NewCu
<1>6. /\ channels' \in [Users -> [live : SUBSET Chans, null : SUBSET Chans, open : BOOLEAN]]
      /\ channels'[u].live = channels[u].live \cup {c}
      /\ \A v \in Users : v # u => channels'[v] = channels[v]
      /\ channels'[u].null = channels[u].null
      /\ channels'[u].open = channels[u].open
  <2> DEFINE r == [channels[u] EXCEPT !.live = channels[u].live \cup {c}]
  <2>1. channels[u] \in [live : SUBSET Chans, null : SUBSET Chans, open : BOOLEAN]
    BY <1>1 DEF TypeOK
  <2>2. /\ r \in [live : SUBSET Chans, null : SUBSET Chans, open : BOOLEAN]
        /\ r.live = channels[u].live \cup {c} /\ r.null = channels[u].null
        /\ r.open = channels[u].open
    BY <2>1
  <2>3. channels' = [channels EXCEPT ![u] = r]
    OBVIOUS
  <2>4. PICK R : /\ R = [live : SUBSET Chans, null : SUBSET Chans, open : BOOLEAN]
                 /\ channels \in [Users -> R] /\ u \in Users
    BY <1>1 DEF TypeOK
  <2> HIDE DEF r
  <2>5. r \in R
    BY ONLY <2>2, <2>4
  <2>6. /\ channels' \in [Users -> R] /\ channels'[u] = r
        /\ \A v \in Users : v # u => channels'[v] = channels[v]
    BY ONLY <2>3, <2>4, <2>5
  <2>. QED BY ONLY <2>2, <2>4, <2>6
<1>7. /\ invites' \in [Chans -> SUBSET Users] /\ invited' \in [Users -> SUBSET Chans]
      /\ \A d \in Chans, v \in Users : (v \in invites'[d]) = (d \in invited'[v])
      /\ \A d \in Chans : invites'[d] \subseteq invites[d]
  <2>1. /\ invites \in [Chans -> SUBSET Users] /\ invited \in [Users -> SUBSET Chans]
        /\ \A d \in Chans, v \in Users : (v \in invites[d]) = (d \in invited[v])
    BY DEF TypeOK, BothWays
  <2>2. CASE UNCHANGED << invites, invited >>
    BY <2>1, <2>2
  <2>3. CASE /\ invites' = [invites EXCEPT ![c] = @ \ {u}]
             /\ invited' = [invited EXCEPT ![u] = @ \ {c}]
    BY ONLY <1>1, <2>1, <2>3
  <2>. QED BY <2>2, <2>3
<1>8. TypeOK'
  <2>1. ASSUME NEW d \in Chans
        PROVE  MembersOf(d)' \subseteq Users /\ (Alive(d)' => modes'[d] \in ModesRec(MembersOf(d)'))
    <3>1. CASE d = c
      BY <1>1, <1>2, <1>3, <1>4, <3>1
    <3>2. CASE d # c
      <4>1. MembersOf(d) \subseteq Users /\ (Alive(d) => modes[d] \in ModesRec(MembersOf(d)))
        BY DEF TypeOK
      <4>. QED BY <1>3, <1>4, <3>2, <4>1
    <3>. QED BY <3>1, <3>2
  <2>2. \A d \in Chans : cu'[d] \in [MembersOf(d)' -> [muted : BOOLEAN, current : BOOLEAN]]
    BY <1>4, <1>5 DEF TypeOK
  <2>. QED BY <1>3, <1>5, <1>6, <1>7, <2>1, <2>2 DEF TypeOK
<1>9. BothWays'
  <2> SUFFICES ASSUME NEW d \in Chans, NEW v \in Users
               PROVE  /\ (v \in MembersOf(d)') = (d \in channels'[v].live)
                      /\ (v \in invites'[d]) = (d \in invited'[v])
                      /\ v \in MembersOf(d)' \cup invites'[d] => v \in users
                      /\ v \in invites'[d] => Alive(d)'
    BY DEF BothWays
  <2>1. (v \in MembersOf(d)') <=> (d \in channels'[v].live)
    BY <1>4, <1>6 DEF BothWays
  <2>2. v \in MembersOf(d)' \cup invites'[d] => v \in users
    BY <1>4, <1>7 DEF BothWays
  <2>3. v \in invites'[d] => Alive(d)'
    BY <1>4, <1>7 DEF BothWays
  <2>. QED BY <1>7, <2>1, <2>2, <2>3
<1>10. NoEmptyChannel'
  BY <1>4 DEF NoEmptyChannel
<1>11. NullKeysWait' /\ AbortsByWhoOnly'
  BY <1>6 DEF NullKeysWait, AbortsByWhoOnly
<1>12. ~synced[c] => "m" \notin m.flags /\ (m.list["q"] # {} => unsynced[c] = Users)
  BY DEF FirstCookie, NewModes, ListModes
<1>13. synced[c] => Alive(c)
  BY DEF FirstCookie
<1>14. FirstCookie'
  <2> SUFFICES ASSUME NEW d \in Chans
               PROVE  IF synced[d] THEN Alive(d)' ELSE
                        /\ \A v \in MembersOf(d)' : cu'[d][v] = [muted |-> FALSE, current |-> TRUE]
                        /\ Alive(d)' => "m" \notin modes'[d].flags
                        /\ Alive(d)' /\ modes'[d].list["q"] # {} => unsynced[d] = Users
    BY DEF FirstCookie
  <2>1. CASE d # c
    BY <1>3, <1>4, <1>5, <2>1 DEF FirstCookie
  <2>2. CASE d = c /\ synced[c]
    BY <1>4, <2>2
  <2>3. CASE d = c /\ ~synced[c]
    <3>1. synced[c] = FALSE
      BY <2>3 DEF TypeOK
    <3>2. \A v \in MembersOf(c)' : cu'[c][v] = [muted |-> FALSE, current |-> TRUE]
      BY <1>4, <1>5, <3>1 DEF FirstCookie
    <3>. QED BY <1>2, <1>3, <1>12, <2>3, <3>2
  <2>. QED BY <2>1, <2>2, <2>3
<1>15. MutedRight'
  <2> SUFFICES ASSUME NEW d \in Chans, NEW v \in MembersOf(d)', v \notin unsynced[d], cu'[d][v].current
               PROVE  cu'[d][v].muted = Muted(d, v)'
    BY DEF MutedRight
  <2>1. CASE d # c
    <3>1. Muted(d, v)' = Muted(d, v)
      BY <1>3, <2>1 DEF Muted, InList
    <3>. QED BY <1>4, <1>5, <2>1, <3>1 DEF MutedRight
  <2>2. CASE d = c /\ v # u
    <3>1. v \in MembersOf(c) /\ Alive(c) /\ m = modes[c]
      BY <1>4, <2>2 DEF MembersOf
    <3>2. /\ modes'[c].status[v] = modes[c].status[v] /\ modes'[c].flags = modes[c].flags
          /\ modes'[c].list = modes[c].list
      BY <1>2, <1>3, <3>1
    <3>3. Muted(c, v)' = Muted(c, v)
      BY <3>2 DEF Muted, InList
    <3>4. cu'[c][v] = cu[c][v]
      BY <1>5, <3>1
    <3>. QED BY <2>2, <3>1, <3>3, <3>4 DEF MutedRight
  <2>3. CASE d = c /\ v = u
    <3>1. ~synced[c] /\ cu'[c][u].muted = FALSE
      BY <1>5, <2>3
    <3>2. m.list["q"] = {} /\ "m" \notin m.flags
      BY <1>1, <1>12, <2>3, <3>1
    <3>3. modes'[c].list["q"] = {} /\ "m" \notin modes'[c].flags
      BY <1>2, <1>3, <3>2
    <3>4. ~Muted(c, u)'
      BY <3>3 DEF Muted, InList
    <3>5. Muted(c, u)' \in BOOLEAN
      BY DEF Muted
    <3>. QED BY <2>3, <3>1, <3>4, <3>5
  <2>. QED BY <2>1, <2>2, <2>3
<1>. QED BY <1>8, <1>9, <1>10, <1>11, <1>14, <1>15

\* The settings without one member
Parted(m, u) == [m EXCEPT !.status = [v \in DOMAIN @ \ {u} |-> @[v]]]

(* A member who leaves takes only his own status with him.               *)
LEMMA LeftType ==
  ASSUME NEW M \in SUBSET Users, NEW m \in ModesRec(M), NEW u
  PROVE  /\ Parted(m, u) \in ModesRec(M \ {u}) /\ Parted(m, u) # None
         /\ DOMAIN Parted(m, u).status = M \ {u}
         /\ Parted(m, u).flags = m.flags /\ Parted(m, u).list = m.list
         /\ \A v \in M \ {u} : Parted(m, u).status[v] = m.status[v]
<1> DEFINE f == [v \in M \ {u} |-> m.status[v]]
<1>1. m.status \in [M -> SUBSET StatusModes]
  BY DEF ModesRec
<1>2. f \in [M \ {u} -> SUBSET StatusModes] /\ DOMAIN f = M \ {u}
      /\ \A v \in M \ {u} : f[v] = m.status[v]
  BY <1>1
<1>3. Parted(m, u) = [m EXCEPT !.status = f]
  BY <1>1 DEF Parted
<1> HIDE DEF f
<1>4. /\ [m EXCEPT !.status = f] \in ModesRec(M \ {u})
      /\ [m EXCEPT !.status = f].status = f
      /\ [m EXCEPT !.status = f].flags = m.flags /\ [m EXCEPT !.status = f].list = m.list
  BY <1>2 DEF ModesRec
<1>5. M \ {u} \in SUBSET Users
  OBVIOUS
<1>. QED BY <1>2, <1>3, <1>4, <1>5, ModesAssumption

\* User u has left the channels cs, of which those in gone were dropped.
Left(u, cs, gone) ==
    \A c \in Chans :
        /\ MembersOf(c)' = IF c \in cs THEN MembersOf(c) \ {u} ELSE MembersOf(c)
        /\ Alive(c)' <=> Alive(c) /\ c \notin gone
        /\ Alive(c)' => /\ modes'[c] \in ModesRec(MembersOf(c)')
                        /\ modes'[c].flags = modes[c].flags /\ modes'[c].list = modes[c].list
                        /\ \A v \in MembersOf(c)' : modes'[c].status[v] = modes[c].status[v]
        /\ cu'[c] \in [MembersOf(c)' -> [muted : BOOLEAN, current : BOOLEAN]]
        /\ \A v \in MembersOf(c)' : cu'[c][v] = cu[c][v]
        /\ synced'[c] = (synced[c] /\ c \notin gone)
        /\ unsynced'[c] = IF c \in gone THEN {} ELSE unsynced[c]

(* That is what Leave does to every channel.                             *)
LEMMA LeaveLeft ==
  ASSUME IInv, NEW u \in Users, NEW cs \in SUBSET {c \in Chans : u \in MembersOf(c)},
         NEW gone, gone = {c \in cs : LastMember(c, u)}, Leave(u, cs, gone)
  PROVE  /\ Left(u, cs, gone)
         /\ DOMAIN modes' = Chans /\ DOMAIN cu' = Chans /\ synced' \in [Chans -> BOOLEAN]
         /\ unsynced' \in [Chans -> SUBSET Users] /\ serverMade' \subseteq Chans
<1> USE DEF IInv
<1>1. ASSUME NEW c \in Chans
      PROVE  /\ MembersOf(c)' = IF c \in cs THEN MembersOf(c) \ {u} ELSE MembersOf(c)
             /\ Alive(c)' <=> Alive(c) /\ c \notin gone
             /\ Alive(c)' => /\ modes'[c] \in ModesRec(MembersOf(c)')
                             /\ modes'[c].flags = modes[c].flags
                             /\ modes'[c].list = modes[c].list
                             /\ \A v \in MembersOf(c)' : modes'[c].status[v] = modes[c].status[v]
  <2>0. MembersOf(c) \in SUBSET Users /\ (Alive(c) => modes[c] \in ModesRec(MembersOf(c)))
    BY MembersAre
  <2>1. CASE c \in gone
    <3>1. modes'[c] = None
      BY <2>1 DEF Leave
    <3>2. MembersOf(c) = {u} /\ c \in cs
      BY <2>1 DEF LastMember
    <3>3. ~Alive(c)' /\ MembersOf(c)' = {}
      BY <3>1 DEF Alive, MembersOf
    <3>. QED BY <2>1, <3>2, <3>3
  <2>2. CASE c \in cs /\ c \notin gone
    <3> DEFINE left == Parted(modes[c], u)
    <3>1. modes'[c] = left
      BY <2>2 DEF Leave, Parted
    <3>2. Alive(c)
      BY <2>2 DEF MembersOf
    <3>3. /\ left \in ModesRec(MembersOf(c) \ {u}) /\ left # None
          /\ DOMAIN left.status = MembersOf(c) \ {u}
          /\ left.flags = modes[c].flags /\ left.list = modes[c].list
          /\ \A v \in MembersOf(c) \ {u} : left.status[v] = modes[c].status[v]
      BY <2>0, <3>2, LeftType
    <3> HIDE DEF left
    <3>4. Alive(c)' /\ MembersOf(c)' = MembersOf(c) \ {u}
      BY <3>1, <3>3 DEF Alive, MembersOf
    <3>. QED BY <2>2, <3>1, <3>2, <3>3, <3>4
  <2>3. CASE c \notin cs
    <3>1. modes'[c] = modes[c] /\ c \notin gone
      BY <2>3 DEF Leave
    <3>2. (Alive(c)' <=> Alive(c)) /\ MembersOf(c)' = MembersOf(c)
      BY <3>1 DEF Alive, MembersOf
    <3>. QED BY <2>0, <2>3, <3>1, <3>2
  <2>. QED BY <2>1, <2>2, <2>3
<1>2. ASSUME NEW c \in Chans
      PROVE  /\ cu'[c] \in [MembersOf(c)' -> [muted : BOOLEAN, current : BOOLEAN]]
             /\ \A v \in MembersOf(c)' : cu'[c][v] = cu[c][v]
  <2>1. cu[c] \in [MembersOf(c) -> [muted : BOOLEAN, current : BOOLEAN]]
    BY DEF TypeOK
  <2>2. cu'[c] = IF c \in cs THEN Without(cu[c], u) ELSE cu[c]
    BY DEF Leave
  <2>3. /\ Without(cu[c], u) \in [MembersOf(c) \ {u} -> [muted : BOOLEAN, current : BOOLEAN]]
        /\ \A v \in MembersOf(c) \ {u} : Without(cu[c], u)[v] = cu[c][v]
    BY <2>1 DEF Without
  <2>4. CASE c \in cs
    BY <1>1, <2>2, <2>3, <2>4
  <2>5. CASE c \notin cs
    BY <1>1, <2>1, <2>2, <2>5
  <2>. QED BY <2>4, <2>5
<1>3. ASSUME NEW c \in Chans
      PROVE  /\ synced'[c] = (synced[c] /\ c \notin gone)
             /\ unsynced'[c] = IF c \in gone THEN {} ELSE unsynced[c]
  BY DEF Leave
<1>4. Left(u, cs, gone)
  BY <1>1, <1>2, <1>3 DEF Left
<1>5. DOMAIN modes' = Chans /\ DOMAIN cu' = Chans /\ serverMade' \subseteq Chans
  BY DEF Leave, TypeOK
<1>6. synced' \in [Chans -> BOOLEAN] /\ unsynced' \in [Chans -> SUBSET Users]
  BY DEF Leave, TypeOK
<1>. QED BY <1>4, <1>5, <1>6

(* A channel whose last member leaves is dropped with its history.       *)
LEMMA LeaveInv ==
  ASSUME IInv, NEW u \in Users, NEW cs \in SUBSET {c \in Chans : u \in MembersOf(c)},
         NEW gone, gone = {c \in cs : LastMember(c, u)}, Leave(u, cs, gone), UNCHANGED ident
  PROVE  NoEmptyChannel' /\ FirstCookie' /\ MutedRight'
<1> USE DEF IInv
<1>1. Left(u, cs, gone)
  BY LeaveLeft
<1>2. \A c \in gone : MembersOf(c) = {u} /\ c \in cs
  BY DEF LastMember
<1>3. NoEmptyChannel'
  <2> SUFFICES ASSUME NEW c \in Chans, Alive(c)', MembersOf(c)' = {} PROVE c \in serverMade'
    BY DEF NoEmptyChannel
  <2>1. Alive(c) /\ c \notin gone
    BY <1>1 DEF Left
  <2>2. c \in cs => MembersOf(c) \ {u} = {} /\ u \in MembersOf(c)
    BY <1>1 DEF Left
  <2>3. c \notin cs
    BY <2>1, <2>2 DEF LastMember
  <2>4. MembersOf(c) = {}
    BY <1>1, <2>3 DEF Left
  <2>. QED BY <2>1, <2>4 DEF NoEmptyChannel, Leave
<1>4. FirstCookie'
  <2> SUFFICES ASSUME NEW c \in Chans
               PROVE  IF synced'[c] THEN Alive(c)' ELSE
                        /\ \A v \in MembersOf(c)' : cu'[c][v] = [muted |-> FALSE, current |-> TRUE]
                        /\ Alive(c)' => "m" \notin modes'[c].flags
                        /\ Alive(c)' /\ modes'[c].list["q"] # {} => unsynced'[c] = Users
    BY DEF FirstCookie
  <2>1. CASE c \in gone
    <3>1. ~synced'[c] /\ ~Alive(c)' /\ MembersOf(c)' = {}
      BY <1>1, <1>2, <2>1 DEF Left
    <3>. QED BY <3>1
  <2>2. CASE c \notin gone
    <3>1. /\ synced'[c] <=> synced[c]
          /\ Alive(c)' <=> Alive(c)
          /\ unsynced'[c] = unsynced[c]
          /\ MembersOf(c)' \subseteq MembersOf(c)
          /\ Alive(c)' => modes'[c].flags = modes[c].flags /\ modes'[c].list = modes[c].list
          /\ \A v \in MembersOf(c)' : cu'[c][v] = cu[c][v]
      BY <1>1, <2>2 DEF Left
    <3>. QED BY <3>1 DEF FirstCookie
  <2>. QED BY <2>1, <2>2
<1>5. MutedRight'
  <2> SUFFICES ASSUME NEW c \in Chans, NEW v \in MembersOf(c)', v \notin unsynced'[c], cu'[c][v].current
               PROVE  cu'[c][v].muted = Muted(c, v)'
    BY DEF MutedRight
  <2>1. Alive(c)'
    BY DEF MembersOf
  <2>2. c \notin gone /\ v \in MembersOf(c) /\ unsynced'[c] = unsynced[c] /\ cu'[c][v] = cu[c][v]
    BY <1>1, <2>1 DEF Left
  <2>3. Muted(c, v)' = Muted(c, v)
    <3>1. /\ modes'[c].flags = modes[c].flags /\ modes'[c].list = modes[c].list
          /\ modes'[c].status[v] = modes[c].status[v]
      BY <1>1, <2>1 DEF Left
    <3>. QED BY <3>1 DEF Muted, InList
  <2>. QED BY <2>2, <2>3 DEF MutedRight
<1>. QED BY <1>3, <1>4, <1>5

(* PART and KICK keep both maps, and leave a key without data only in an *)
(* open loop.                                                            *)
LEMMA ChanUserDelInv ==
  ASSUME IInv, ~aborted, NEW c \in Chans, NEW u \in MembersOf(c), ChanUserDel(c, u)
  PROVE  IInv'
<1> USE DEF IInv
<1> DEFINE gone == IF LastMember(c, u) THEN {c} ELSE {}
<1>1. u \in Users /\ {c} \in SUBSET {d \in Chans : u \in MembersOf(d)}
      /\ gone = {d \in {c} : LastMember(d, u)}
  BY DEF TypeOK
<1>2. /\ Leave(u, {c}, gone)
      /\ invites' = [d \in Chans |-> IF d \in gone THEN {} ELSE invites[d]]
      /\ invited' = [v \in Users |-> invited[v] \ gone]
      /\ channels' = [channels EXCEPT ![u] = ChannelsDel(channels[u], {c})]
      /\ UNCHANGED << users, ident, aborted, ops >>
  BY DEF ChanUserDel, Uninvited
<1> HIDE DEF gone
<1>3. /\ Left(u, {c}, gone)
      /\ DOMAIN modes' = Chans /\ DOMAIN cu' = Chans /\ synced' \in [Chans -> BOOLEAN]
      /\ unsynced' \in [Chans -> SUBSET Users] /\ serverMade' \subseteq Chans
  BY <1>1, <1>2, LeaveLeft
<1>4. NoEmptyChannel' /\ FirstCookie' /\ MutedRight'
  BY <1>1, <1>2, LeaveInv
<1>5. /\ channels' \in [Users -> [live : SUBSET Chans, null : SUBSET Chans, open : BOOLEAN]]
      /\ channels'[u].live = channels[u].live \ {c}
      /\ channels'[u].open = channels[u].open
      /\ channels'[u].null # {} => channels'[u].open
      /\ \A v \in Users : v # u => channels'[v] = channels[v]
  <2> DEFINE r == ChannelsDel(channels[u], {c})
  <2>1. channels[u] \in [live : SUBSET Chans, null : SUBSET Chans, open : BOOLEAN]
    BY <1>1 DEF TypeOK
  <2>2. /\ r \in [live : SUBSET Chans, null : SUBSET Chans, open : BOOLEAN]
        /\ r.live = channels[u].live \ {c} /\ r.open = channels[u].open
        /\ r.null = IF channels[u].open THEN channels[u].null \cup {c} ELSE channels[u].null
    BY <2>1 DEF ChannelsDel
  <2> HIDE DEF r
  <2>3. r.null # {} => r.open
    BY <1>1, <2>2 DEF NullKeysWait
  <2>4. channels' = [channels EXCEPT ![u] = r]
    BY <1>2 DEF r
  <2>. QED BY <1>1, <2>2, <2>3, <2>4 DEF TypeOK
<1>6. TypeOK'
  <2>1. \A d \in Chans : /\ MembersOf(d)' \subseteq Users
                         /\ Alive(d)' => modes'[d] \in ModesRec(MembersOf(d)')
                         /\ cu'[d] \in [MembersOf(d)' -> [muted : BOOLEAN, current : BOOLEAN]]
    BY <1>3, MembersAre DEF Left
  <2>2. invites' \in [Chans -> SUBSET Users] /\ invited' \in [Users -> SUBSET Chans]
    BY <1>2 DEF TypeOK
  <2>. QED BY <1>2, <1>3, <1>5, <2>1, <2>2 DEF TypeOK
<1>7. BothWays'
  <2>0. users' = users
    BY <1>2
  <2>1. ASSUME NEW d \in Chans, NEW v \in Users
        PROVE  /\ (v \in MembersOf(d)') = (d \in channels'[v].live)
               /\ (v \in invites'[d]) = (d \in invited'[v])
               /\ v \in MembersOf(d)' \cup invites'[d] => v \in users
               /\ v \in invites'[d] => Alive(d)'
    <3>1. (v \in MembersOf(d)') <=> (d \in channels'[v].live)
      BY <1>3, <1>5 DEF Left, BothWays
    <3>2. (v \in invites'[d]) <=> (d \in invited'[v])
      BY <1>2 DEF BothWays
    <3>3. v \in MembersOf(d)' \cup invites'[d] => v \in users
      BY <1>2, <1>3 DEF Left, BothWays
    <3>4. v \in invites'[d] => Alive(d)'
      BY <1>2, <1>3 DEF Left, BothWays
    <3>. QED BY <3>1, <3>2, <3>3, <3>4
  <2>. QED BY ONLY <2>0, <2>1 DEF BothWays
<1>8. NullKeysWait' /\ AbortsByWhoOnly'
  BY <1>2, <1>5 DEF NullKeysWait, AbortsByWhoOnly
<1>. QED BY <1>4, <1>6, <1>7, <1>8

(* A user who goes leaves nothing behind in the maps of channels, and of *)
(* users invited to channels dropped with him.                           *)
LEMMA UserDestroyInv ==
  ASSUME IInv, ~aborted, NEW u \in Users, UserDestroy(u)
  PROVE  IInv'
<1> USE DEF IInv
<1>1. CASE channels[u].null # {}
  <2>1. UNCHANGED << modes, synced, cu, invites, channels, invited, users, unsynced, serverMade,
                     ident, ops >> /\ aborted' = TRUE
    BY <1>1 DEF UserDestroy
  <2>2. \A d : Alive(d)' = Alive(d) /\ MembersOf(d)' = MembersOf(d)
    BY <2>1, Unmoved
  <2>3. TypeOK'
    BY <2>1, <2>2 DEF TypeOK
  <2>4. BothWays' /\ NoEmptyChannel' /\ NullKeysWait'
    BY <2>1, <2>2 DEF BothWays, NoEmptyChannel, NullKeysWait
  <2>5. AbortsByWhoOnly'
    BY <1>1, <2>1 DEF NullKeysWait, AbortsByWhoOnly
  <2>6. FirstCookie' /\ MutedRight'
    BY <2>1, <2>2 DEF FirstCookie, MutedRight, Muted, InList
  <2>. QED BY <2>3, <2>4, <2>5, <2>6
<1>2. CASE channels[u].null = {}
  <2> DEFINE cs == channels[u].live
             gone == {c \in cs : LastMember(c, u)}
  <2>1. /\ Leave(u, cs, gone)
        /\ invites' = [c \in Chans |-> IF c \in gone THEN {} ELSE invites[c] \ {u}]
        /\ invited' = [v \in Users |-> IF v = u THEN {} ELSE invited[v] \ gone]
        /\ channels' = [channels EXCEPT ![u] = NoChannels]
        /\ users' = users \ {u}
        /\ UNCHANGED << aborted, ident, ops >>
    BY <1>2 DEF UserDestroy, Uninvited
  <2>2. cs \in SUBSET {c \in Chans : u \in MembersOf(c)}
        /\ \A c \in Chans : u \in MembersOf(c) => c \in cs
    BY DEF TypeOK, BothWays
  <2>3. gone = {c \in cs : LastMember(c, u)}
    OBVIOUS
  <2> HIDE DEF cs, gone
  <2>4. /\ Left(u, cs, gone)
        /\ DOMAIN modes' = Chans /\ DOMAIN cu' = Chans /\ synced' \in [Chans -> BOOLEAN]
        /\ unsynced' \in [Chans -> SUBSET Users] /\ serverMade' \subseteq Chans
    BY <2>1, <2>2, <2>3, LeaveLeft
  <2>5. NoEmptyChannel' /\ FirstCookie' /\ MutedRight'
    BY <2>1, <2>2, <2>3, LeaveInv
  <2>6. /\ channels' \in [Users -> [live : SUBSET Chans, null : SUBSET Chans, open : BOOLEAN]]
        /\ channels'[u] = NoChannels /\ \A v \in Users : v # u => channels'[v] = channels[v]
    BY <2>1 DEF TypeOK, NoChannels
  <2>7. TypeOK'
    <3>1. \A d \in Chans : /\ MembersOf(d)' \subseteq Users
                           /\ Alive(d)' => modes'[d] \in ModesRec(MembersOf(d)')
                           /\ cu'[d] \in [MembersOf(d)' -> [muted : BOOLEAN, current : BOOLEAN]]
      BY <2>4, MembersAre DEF Left
    <3>2. invites' \in [Chans -> SUBSET Users] /\ invited' \in [Users -> SUBSET Chans]
      BY <2>1 DEF TypeOK
    <3>3. users' \subseteq Users
      BY <2>1 DEF TypeOK
    <3>. QED BY <2>1, <2>4, <2>6, <3>1, <3>2, <3>3 DEF TypeOK
  <2>8. BothWays'
    <3> SUFFICES ASSUME NEW d \in Chans, NEW v \in Users
                 PROVE  /\ (v \in MembersOf(d)') = (d \in channels'[v].live)
                        /\ (v \in invites'[d]) = (d \in invited'[v])
                        /\ v \in MembersOf(d)' \cup invites'[d] => v \in users'
                        /\ v \in invites'[d] => Alive(d)'
      BY DEF BothWays
    <3>1. MembersOf(d)' = MembersOf(d) \ {u}
      BY <2>2, <2>4 DEF Left
    <3>2. (v \in MembersOf(d)') <=> (d \in channels'[v].live)
      BY <2>6, <3>1 DEF BothWays, NoChannels
    <3>3. (v \in invites'[d]) <=> (d \in invited'[v])
      BY <2>1 DEF BothWays
    <3>4. v \in MembersOf(d)' \cup invites'[d] => v \in users'
      BY <2>1, <3>1 DEF BothWays
    <3>5. v \in invites'[d] => Alive(d)'
      BY <2>1, <2>4 DEF Left, BothWays
    <3>. QED BY <3>2, <3>3, <3>4, <3>5
  <2>9. NullKeysWait' /\ AbortsByWhoOnly'
    BY <2>1, <2>6 DEF NullKeysWait, AbortsByWhoOnly, NoChannels
  <2>. QED BY <2>5, <2>7, <2>8, <2>9
<1>. QED BY <1>1, <1>2

(* u_find_forward, after however many hops, ends at a channel that is    *)
(* there and lets the user in, or at none.                               *)
LEMMA ForwardEnds ==
  ASSUME NEW c \in Chans, NEW u, NEW key
  PROVE  LET d == FindForward(c, u, key)
         IN  d # None => Alive(d) /\ ~EntryBlocked(d, u, key)
<1> DEFINE Open == {d \in Chans : Alive(d) /\ ~EntryBlocked(d, u, key)}
           S == [Chans -> Open \cup {None}]
           Hop(h, d) == LET f == modes[d].forward
                        IN  IF ~Alive(f) THEN None
                            ELSE IF ~EntryBlocked(f, u, key) THEN f
                            ELSE h[f]
           Step(h) == [d \in Chans |-> IF ~Alive(d) THEN None ELSE Hop(h, d)]
           nowhere == [d \in Chans |-> None]
           Def(f) == f = [n \in 0..MaxHops |-> [d \in Chans |->
                             IF n = 0 \/ ~Alive(d) THEN None ELSE Hop(f[n - 1], d)]]
           hop == CHOOSE f : Def(f)
           G == [i \in 1..MaxHops |-> [h \in S |-> Step(h)]]
<1>1. MaxHops \in Nat
  BY ChanAssumption
<1>2. \A h \in S : Step(h) \in S
  <2> SUFFICES ASSUME NEW h \in S, NEW d \in Chans, Alive(d) PROVE Hop(h, d) \in Open \cup {None}
    OBVIOUS
  <2> DEFINE f == modes[d].forward
  <2>1. CASE ~Alive(f)
    BY <2>1
  <2>2. CASE Alive(f) /\ ~EntryBlocked(f, u, key)
    <3>1. f \in Open
      BY <2>2 DEF Alive
    <3>. QED BY <2>2, <3>1
  <2>3. CASE Alive(f) /\ EntryBlocked(f, u, key)
    <3>1. f \in Chans
      BY <2>3 DEF Alive
    <3>2. h[f] \in Open \cup {None}
      BY <3>1
    <3>. QED BY <2>3, <3>2
  <2>. QED BY <2>1, <2>2, <2>3
<1>3. nowhere \in S
  OBVIOUS
<1>4. G \in [1..MaxHops -> [S -> S]]
  <2> HIDE DEF S, Step
  <2>. QED BY <1>2
<1>5. PICK f \in [0..MaxHops -> S] : f[0] = nowhere /\ \A i \in 1..MaxHops : f[i] = G[i][f[i - 1]]
  <2> HIDE DEF S, G, nowhere, Def, hop, Step, Hop, Open
  <2>1. PICK f : f \in Runs(S, nowhere, MaxHops, G)
    BY ONLY <1>1, <1>3, <1>4, RunsExist
  <2>. QED BY ONLY <2>1 DEF Runs
<1>6. \A i \in 1..MaxHops : f[i] = Step(f[i - 1])
  <2> SUFFICES ASSUME NEW i \in 1..MaxHops PROVE f[i] = Step(f[i - 1])
    OBVIOUS
  <2>1. i - 1 \in 0..MaxHops
    BY <1>1
  <2>2. f[i - 1] \in S /\ f[i] = G[i][f[i - 1]]
    BY <1>5, <2>1
  <2> HIDE DEF S, Step
  <2>. QED BY <2>2
<1>7. Def(f)
  <2>1. ASSUME NEW n \in 0..MaxHops
        PROVE  f[n] = [d \in Chans |-> IF n = 0 \/ ~Alive(d) THEN None ELSE Hop(f[n - 1], d)]
    <3> HIDE DEF Hop
    <3>1. CASE n = 0
      BY <1>5, <3>1
    <3>2. CASE n # 0
      <4>1. n \in 1..MaxHops
        BY <1>1, <3>2
      <4>. QED BY <1>6, <3>2, <4>1
    <3>. QED BY <3>1, <3>2
  <2>2. f = [n \in 0..MaxHops |-> f[n]]
    BY <1>5
  <2> HIDE DEF Hop
  <2>. QED BY <2>1, <2>2
<1>8. Def(hop)
  <2> HIDE DEF Def
  <2>. QED BY <1>7
<1>9. \A i \in 0..MaxHops : hop[i] = f[i]
  <2> DEFINE T == {i \in 0..MaxHops : hop[i] = f[i]}
             R(h, i) == [d \in Chans |-> IF i = 0 \/ ~Alive(d) THEN None ELSE Hop(h[i - 1], d)]
  <2> HIDE DEF Hop
  <2>1. \A i \in 0..MaxHops : hop[i] = R(hop, i) /\ f[i] = R(f, i)
    <3> HIDE DEF hop
    <3>. QED BY <1>7, <1>8
  <2> HIDE DEF hop
  <2>2. 0 \in T
    <3>1. R(hop, 0) = R(f, 0)
      OBVIOUS
    <3>2. 0 \in 0..MaxHops
      BY <1>1
    <3> HIDE DEF R
    <3>. QED BY <2>1, <3>1, <3>2
  <2>3. ASSUME NEW i \in 1..MaxHops, i - 1 \in T PROVE i \in T
    <3>1. R(hop, i) = R(f, i)
      BY <2>3
    <3>2. i \in 0..MaxHops
      BY <1>1
    <3>. QED BY <2>1, <3>1, <3>2
  <2>4. 0..MaxHops \subseteq T
    <3> HIDE DEF T
    <3>. QED BY <1>1, <2>2, <2>3, IndexInduction
  <2>. QED BY <2>4
<1>10. FindForward(c, u, key) = hop[MaxHops][c]
  BY DEF FindForward
<1>11. hop[MaxHops] \in S
  <2>1. MaxHops \in 0..MaxHops
    BY <1>1
  <2> HIDE DEF hop, S
  <2>. QED BY <1>5, <1>9, <2>1
<1>12. FindForward(c, u, key) \in Open \cup {None}
  <2> HIDE DEF hop, Open
  <2>. QED BY <1>10, <1>11
<1>. QED BY <1>12

(* u_chan_user_add keeps the invariant, also when it aborts.             *)
LEMMA AddInv ==
  ASSUME IInv, ~aborted, NEW c \in Chans, NEW u \in users, u \notin MembersOf(c),
         NEW m, m = IF Alive(c) THEN modes[c] ELSE NewModes,
         NEW status \in SUBSET StatusModes, Add(c, m, u, status),
         UNCHANGED << synced, users, ident, unsynced, serverMade, ops >>
  PROVE  IInv'
<1> USE DEF IInv
<1>1. CASE channels[u].open
  <2>1. UNCHANGED << modes, cu, channels, invites, invited >> /\ aborted' = TRUE
    BY <1>1 DEF Add
  <2>2. \A d : Alive(d)' = Alive(d) /\ MembersOf(d)' = MembersOf(d)
    BY <2>1, Unmoved
  <2>3. TypeOK'
    BY <2>1, <2>2 DEF TypeOK
  <2>4. BothWays' /\ NoEmptyChannel' /\ NullKeysWait'
    BY <2>1, <2>2 DEF BothWays, NoEmptyChannel, NullKeysWait
  <2>5. AbortsByWhoOnly'
    BY <1>1, <2>1 DEF TypeOK, AbortsByWhoOnly
  <2>6. FirstCookie' /\ MutedRight'
    BY <2>1, <2>2 DEF FirstCookie, MutedRight, Muted, InList
  <2>. QED BY <2>3, <2>4, <2>5, <2>6
<1>2. CASE ~channels[u].open
  <2>1. /\ modes' = [modes EXCEPT ![c] = Member(m, u, status)]
        /\ cu' = [cu EXCEPT ![c] = WithCu(c, u)]
        /\ channels' = [channels EXCEPT ![u].live = @ \cup {c}]
        /\ invites' = [invites EXCEPT ![c] = @ \ {u}]
        /\ invited' = [invited EXCEPT ![u] = @ \ {c}]
        /\ UNCHANGED aborted
    BY <1>2 DEF Add
  <2>. QED BY <2>1, JoinedInv
<1>. QED BY <1>1, <1>2

(* A local JOIN ends in a new channel, the one asked for or one          *)
(* forwarded to.                                                         *)
LEMMA JoinInv ==
  ASSUME IInv, ~aborted, NEW c \in Chans, NEW u \in Users, NEW key \in Keys \cup {None},
         Join(u, c, key)
  PROVE  IInv'
<1>1. /\ u \in users /\ u \notin MembersOf(c)
      /\ UNCHANGED << synced, users, ident, unsynced, serverMade, ops >>
  BY DEF Join
<1>2. CASE ~Alive(c)
  <2>1. Add(c, NewModes, u, {"o"}) /\ {"o"} \in SUBSET StatusModes
    BY <1>2 DEF Join, StatusModes
  <2>. QED BY <1>1, <1>2, <2>1, AddInv
<1>3. CASE Alive(c)
  <2>1. PICK to \in {IF EntryBlocked(c, u, key) THEN FindForward(c, u, key) ELSE c} :
          to # None /\ u \notin MembersOf(to) /\ Add(to, modes[to], u, {})
    BY <1>3 DEF Join
  <2>2. Alive(to) /\ to \in Chans
    BY <1>3, <2>1, ForwardEnds DEF Alive
  <2>3. {} \in SUBSET StatusModes
    OBVIOUS
  <2>. QED BY <1>1, <2>1, <2>2, <2>3, AddInv
<1>. QED BY <1>2, <1>3

(* A JOIN from another server asks nothing of the channel.               *)
LEMMA RemoteJoinInv ==
  ASSUME IInv, ~aborted, NEW c \in Chans, NEW u \in Users, RemoteJoin(u, c)
  PROVE  IInv'
<1> USE DEF IInv
<1>1. /\ u \in users /\ u \notin MembersOf(c) /\ Alive(c)
      /\ UNCHANGED << synced, invites, invited, users, ident, unsynced, serverMade, ops >>
  BY DEF RemoteJoin
<1>2. CASE channels[u].open
  <2>1. UNCHANGED << modes, cu, channels >> /\ aborted' = TRUE
    BY <1>2 DEF RemoteJoin
  <2>2. \A d : Alive(d)' = Alive(d) /\ MembersOf(d)' = MembersOf(d)
    BY <2>1, Unmoved
  <2>3. TypeOK'
    BY <1>1, <2>1, <2>2 DEF TypeOK
  <2>4. BothWays' /\ NoEmptyChannel' /\ NullKeysWait'
    BY <1>1, <2>1, <2>2 DEF BothWays, NoEmptyChannel, NullKeysWait
  <2>5. AbortsByWhoOnly'
    BY <1>2, <2>1 DEF AbortsByWhoOnly
  <2>6. FirstCookie' /\ MutedRight'
    BY <1>1, <2>1, <2>2 DEF FirstCookie, MutedRight, Muted, InList
  <2>. QED BY <2>3, <2>4, <2>5, <2>6
<1>3. CASE ~channels[u].open
  <2>1. /\ modes' = [modes EXCEPT ![c] = Member(modes[c], u, {})]
        /\ cu' = [cu EXCEPT ![c] = WithCu(c, u)]
        /\ channels' = [channels EXCEPT ![u].live = @ \cup {c}]
        /\ UNCHANGED aborted
    BY <1>3 DEF RemoteJoin
  <2>2. {} \in SUBSET StatusModes
    OBVIOUS
  <2>. QED BY <1>1, <2>1, <2>2, JoinedInv
<1>. QED BY <1>2, <1>3

(* Every step keeps the invariant.                                       *)
LEMMA NextInv == IInv /\ [Next]_vars => IInv'
<1> SUFFICES ASSUME IInv, [Next]_vars PROVE IInv'
  OBVIOUS
<1>1. CASE UNCHANGED vars
  <2>1. \A d : Alive(d)' = Alive(d) /\ MembersOf(d)' = MembersOf(d)
    BY <1>1, Unmoved DEF vars
  <2>2. TypeOK'
    BY <1>1, <2>1 DEF vars, IInv, TypeOK
  <2>3. BothWays' /\ NoEmptyChannel'
    BY <1>1, <2>1 DEF vars, IInv, BothWays, NoEmptyChannel
  <2>4. NullKeysWait' /\ AbortsByWhoOnly'
    BY <1>1 DEF vars, IInv, NullKeysWait, AbortsByWhoOnly
  <2>5. FirstCookie'
    BY <1>1, <2>1 DEF vars, IInv, FirstCookie
  <2>6. MutedRight'
    BY <1>1, <2>1 DEF vars, IInv, MutedRight, Muted, InList
  <2>. QED BY <2>2, <2>3, <2>4, <2>5, <2>6 DEF IInv
<1>2. CASE ~aborted /\ Membership
  <2>1. PICK u \in Users, c \in Chans :
          \/ \E key \in Keys \cup {None} : Join(u, c, key)
          \/ RemoteJoin(u, c) \/ Part(u, c) \/ Who(u) \/ UserDestroy(u)
          \/ \E by \in users \cup {None} : Kick(by, u, c)
          \/ \E by \in users : Invite(by, u, c)
    BY <1>2 DEF Membership
  <2>2. ASSUME NEW key \in Keys \cup {None}, Join(u, c, key) PROVE IInv'
    BY <1>2, <2>2, JoinInv
  <2>3. CASE RemoteJoin(u, c)
    BY <1>2, <2>3, RemoteJoinInv
  <2>4. CASE Part(u, c)
    BY <1>2, <2>4, ChanUserDelInv DEF Part
  <2>5. CASE Who(u)
    BY <1>2, <2>5, WhoInv
  <2>6. CASE UserDestroy(u)
    BY <1>2, <2>6, UserDestroyInv
  <2>7. ASSUME NEW by \in users \cup {None}, Kick(by, u, c) PROVE IInv'
    BY <1>2, <2>7, ChanUserDelInv DEF Kick
  <2>8. ASSUME NEW by \in users, Invite(by, u, c) PROVE IInv'
    BY <1>2, <2>8, InviteInv
  <2>. QED BY <2>1, <2>2, <2>3, <2>4, <2>5, <2>6, <2>7, <2>8
<1>3. CASE ~aborted /\ Settings
  <2>1. PICK c \in Chans :
          \/ \E u \in Users : Message(u, c)
          \/ \E u \in Users, cmd \in {x \in Commands : x.chan = c} :
                Mode(u, c, cmd) \/ RemoteMode(u, c, cmd)
          \/ \E l \in BmaskLists, mask \in Masks : Bmask(c, l, mask)
          \/ \E u \in Users, i \in Idents : Nick(u, i)
    BY <1>3 DEF Settings
  <2>2. ASSUME NEW u \in Users, Message(u, c) PROVE IInv'
    BY <1>3, <2>2, MessageInv
  <2>3. ASSUME NEW u \in Users, NEW cmd \in {x \in Commands : x.chan = c},
               Mode(u, c, cmd) \/ RemoteMode(u, c, cmd)
        PROVE  IInv'
    BY <1>3, <2>3, ModeInv
  <2>4. ASSUME NEW l \in BmaskLists, NEW mask \in Masks, Bmask(c, l, mask) PROVE IInv'
    BY <1>3, <2>4, BmaskInv
  <2>5. ASSUME NEW u \in Users, NEW i \in Idents, Nick(u, i) PROVE IInv'
    BY <1>3, <2>5, NickInv
  <2>. QED BY <2>1, <2>2, <2>3, <2>4, <2>5
<1>4. CASE ~aborted /\ Upgrade
  BY <1>4, UpgradeInv
<1>. QED BY <1>1, <1>2, <1>3, <1>4 DEF Next

(* The invariant: it adds to the properties below that a key without     *)
(* data waits in an open loop, and that until its cookie is first        *)
(* advanced a channel mutes nobody.                                      *)
THEOREM InductiveInvariant == Spec => []IInv
<1>. QED BY InitInv, NextInv, PTL DEF Spec

(* Settings keep their kinds, and every member has one u_chanuser.       *)
THEOREM TypeCorrect == Spec => []TypeOK
<1>1. IInv => TypeOK
  BY DEF IInv
<1>. QED BY <1>1, InductiveInvariant, PTL

(* Membership and invitations are in both maps or in none, and nothing   *)
(* dangles, after any sequence of joins, parts, kicks, invitations,      *)
(* upgrades and lost users.                                              *)
THEOREM BothWaysAlways == Spec => []BothWays
<1>1. IInv => BothWays
  BY DEF IInv
<1>. QED BY <1>1, InductiveInvariant, PTL

(* A channel goes with its last member, unless a BMASK made it.          *)
THEOREM NoEmptyChannelEver == Spec => []NoEmptyChannel
<1>1. IInv => NoEmptyChannel
  BY DEF IInv
<1>. QED BY <1>1, InductiveInvariant, PTL

(* The process aborts in u_map_set or on a null chanuser only because    *)
(* WHO left a loop open.                                                 *)
THEOREM OnlyWhoAborts == Spec => []AbortsByWhoOnly
<1>1. IInv => AbortsByWhoOnly
  BY DEF IInv
<1>. QED BY <1>1, InductiveInvariant, PTL

(* A current answer of u_is_muted is right, unless a quiet mask or the   *)
(* name of the member changed without a new cookie.                      *)
THEOREM MutedKnown == Spec => []MutedRight
<1>1. IInv => MutedRight
  BY DEF IInv
<1>. QED BY <1>1, InductiveInvariant, PTL

(* What a MODE of a local user announces has the same effect on a server *)
(* in the same state, whatever the letters, the parameters and the       *)
(* settings.                                                             *)
THEOREM AnnouncementsReplay == Spec => []Replays
<1>1. ASSUME IInv PROVE Replays
  <2> SUFFICES ASSUME NEW u \in users \cap Local, NEW cmd \in Commands, NEW force \in BOOLEAN,
                      Alive(cmd.chan)
               PROVE  LET c == cmd.chan
                          here == Process(Setting(modes[c], cmd.args, IsOp(c, u), FALSE, OpOf(u)),
                                          cmd.letters)
                          there == Process(Setting(modes[c], here.args, TRUE, force, OpOf(u)),
                                           here.told)
                      IN  there.m = here.m
    BY DEF Replays
  <2> DEFINE c == cmd.chan
  <2>1. c \in Chans /\ cmd.args \in Seq(Args) /\ cmd.letters \in Seq(Letters)
    BY ChanAssumption
  <2>2. modes[c] \in ModesRec(MembersOf(c)) /\ MembersOf(c) \in SUBSET Users
    BY <1>1, <2>1, MembersAre DEF IInv
  <2>3. IsOp(c, u) \in BOOLEAN /\ OpOf(u) \in SUBSET Chans
    BY DEF IsOp, OpOf
  <2>4. SameThere(Process(Setting(modes[c], cmd.args, IsOp(c, u), FALSE, OpOf(u)), cmd.letters),
                  modes[c], force, OpOf(u))
    <3>1. force \in BOOLEAN
      OBVIOUS
    <3> HIDE DEF c
    <3>. QED BY ONLY <2>1, <2>2, <2>3, <3>1, ProcessReplays
  <2>. QED BY <2>4 DEF SameThere
<1>. QED BY <1>1, InductiveInvariant, PTL

-----------------------------------------------------------------------------
(* Adding a member changes the members of that channel only.             *)
LEMMA JoinedMembers ==
  ASSUME IInv, NEW c \in Chans, NEW u \in users, NEW m, m = IF Alive(c) THEN modes[c] ELSE NewModes,
         NEW status \in SUBSET StatusModes,
         modes' = [modes EXCEPT ![c] = Member(m, u, status)]
  PROVE  \A d : MembersOf(d)' = IF d = c THEN MembersOf(c) \cup {u} ELSE MembersOf(d)
<1> DEFINE m2 == Member(m, u, status)
           M2 == MembersOf(c) \cup {u}
<1>1. m \in ModesRec(MembersOf(c)) /\ MembersOf(c) \in SUBSET Users /\ u \in Users
  BY MembersAre, NewModesType DEF IInv, TypeOK
<1>2. /\ m2 \in ModesRec(M2) /\ m2 # None /\ DOMAIN m2.status = M2
      /\ m2.flags = m.flags /\ m2.list = m.list
      /\ \A v \in MembersOf(c) \ {u} : m2.status[v] = m.status[v]
  <2>1. status \in SUBSET StatusModes
    OBVIOUS
  <2>. QED BY ONLY <1>1, <2>1, MemberType
<1>3. modes'[c] = m2 /\ \A d \in Chans : d # c => modes'[d] = modes[d]
  BY DEF IInv, TypeOK
<1> HIDE DEF m2
<1>4. MembersOf(c)' = M2
  BY <1>2, <1>3 DEF Alive, MembersOf
<1>5. \A d : d # c => MembersOf(d)' = MembersOf(d)
  BY <1>3 DEF Alive, MembersOf
<1>. QED BY <1>4, <1>5

(* u_chan_user_add adds that user to that channel and uses his           *)
(* invitation up, or does nothing.                                       *)
LEMMA AddGrows ==
  ASSUME IInv, NEW c \in Chans, NEW u \in users, NEW m, m = IF Alive(c) THEN modes[c] ELSE NewModes,
         NEW status \in SUBSET StatusModes, Add(c, m, u, status)
  PROVE  \/ \A d : MembersOf(d)' = MembersOf(d)
         \/ /\ \A d : MembersOf(d)' = IF d = c THEN MembersOf(c) \cup {u} ELSE MembersOf(d)
            /\ u \notin invites'[c]
<1>1. CASE channels[u].open
  BY <1>1, Unmoved DEF Add
<1>2. CASE ~channels[u].open
  <2>1. modes' = [modes EXCEPT ![c] = Member(m, u, status)] /\ invites' = [invites EXCEPT ![c] = @ \ {u}]
    BY <1>2 DEF Add
  <2>2. u \notin invites'[c]
    BY <2>1 DEF IInv, TypeOK
  <2>. QED BY <2>1, <2>2, JoinedMembers
<1>. QED BY <1>1, <1>2

(* A local user becomes a member by a JOIN of his own only.              *)
LEMMA LocalJoins ==
  ASSUME IInv, [Next]_vars, NEW c \in Chans, NEW u \in Local,
         u \in MembersOf(c)', u \notin MembersOf(c)
  PROVE  \E d \in Chans, key \in Keys \cup {None} : Join(u, d, key)
<1>1. CASE UNCHANGED vars
  BY <1>1, Unmoved DEF vars
<1>2. CASE ~aborted /\ Membership
  <2>1. PICK v \in Users, d \in Chans :
          \/ \E key \in Keys \cup {None} : Join(v, d, key)
          \/ RemoteJoin(v, d) \/ Part(v, d) \/ Who(v) \/ UserDestroy(v)
          \/ \E by \in users \cup {None} : Kick(by, v, d)
          \/ \E by \in users : Invite(by, v, d)
    BY <1>2 DEF Membership
  <2>2. ASSUME NEW key \in Keys \cup {None}, Join(v, d, key) PROVE u = v
    <3>1. v \in users
      BY <2>2 DEF Join
    <3>2. CASE ~Alive(d)
      <4>1. Add(d, NewModes, v, {"o"}) /\ {"o"} \in SUBSET StatusModes
        BY <2>2, <3>2 DEF Join, StatusModes
      <4>. QED BY <3>1, <3>2, <4>1, AddGrows
    <3>3. CASE Alive(d)
      <4>1. PICK to \in {IF EntryBlocked(d, v, key) THEN FindForward(d, v, key) ELSE d} :
              to # None /\ Add(to, modes[to], v, {})
        BY <2>2, <3>3 DEF Join
      <4>2. Alive(to) /\ to \in Chans /\ {} \in SUBSET StatusModes
        BY <3>3, <4>1, ForwardEnds DEF Alive
      <4>3. PICK m : m = modes[to] /\ m = IF Alive(to) THEN modes[to] ELSE NewModes
        BY <4>2
      <4>4. \/ \A e : MembersOf(e)' = MembersOf(e)
            \/ \A e : MembersOf(e)' = IF e = to THEN MembersOf(to) \cup {v} ELSE MembersOf(e)
        BY ONLY IInv, <3>1, <4>1, <4>2, <4>3, AddGrows
      <4>. QED BY <4>4
    <3>. QED BY <3>2, <3>3
  <2>3. CASE RemoteJoin(v, d)
    <3>1. v \in users \ Local /\ Alive(d)
          /\ (modes' = modes \/ modes' = [modes EXCEPT ![d] = Member(modes[d], v, {})])
      BY <2>3 DEF RemoteJoin
    <3>2. {} \in SUBSET StatusModes
      OBVIOUS
    <3>. QED BY <3>1, <3>2, Unmoved, JoinedMembers
  <2>4. ASSUME v \in MembersOf(d), ChanUserDel(d, v) PROVE FALSE
    <3> DEFINE gone == IF LastMember(d, v) THEN {d} ELSE {}
    <3>1. v \in Users /\ {d} \in SUBSET {e \in Chans : v \in MembersOf(e)}
          /\ gone = {e \in {d} : LastMember(e, v)}
      BY <2>4
    <3>2. Leave(v, {d}, gone)
      BY <2>4 DEF ChanUserDel
    <3> HIDE DEF gone
    <3>3. Left(v, {d}, gone)
      BY <3>1, <3>2, LeaveLeft
    <3>. QED BY <3>3 DEF Left
  <2>5. CASE UserDestroy(v)
    <3>1. CASE channels[v].null # {}
      BY <2>5, <3>1, Unmoved DEF UserDestroy
    <3>2. CASE channels[v].null = {}
      <4> DEFINE cs == channels[v].live
                 gone == {e \in cs : LastMember(e, v)}
      <4>1. Leave(v, cs, gone)
        BY <2>5, <3>2 DEF UserDestroy
      <4>2. cs \in SUBSET {e \in Chans : v \in MembersOf(e)} /\ gone = {e \in cs : LastMember(e, v)}
        BY DEF IInv, TypeOK, BothWays
      <4> HIDE DEF cs, gone
      <4>3. Left(v, cs, gone)
        BY <4>1, <4>2, LeaveLeft
      <4>. QED BY <4>3 DEF Left
    <3>. QED BY <3>1, <3>2
  <2>6. CASE Who(v) \/ \E by \in users : Invite(by, v, d)
    BY <2>6, Unmoved DEF Who, Invite
  <2>. QED BY <2>1, <2>2, <2>3, <2>4, <2>5, <2>6 DEF Part, Kick
<1>3. CASE ~aborted /\ Settings
  <2>1. PICK d \in Chans :
          \/ \E v \in Users : Message(v, d)
          \/ \E v \in Users, cmd \in {x \in Commands : x.chan = d} :
                Mode(v, d, cmd) \/ RemoteMode(v, d, cmd)
          \/ \E l \in BmaskLists, mask \in Masks : Bmask(d, l, mask)
          \/ \E v \in Users, i \in Idents : Nick(v, i)
    BY <1>3 DEF Settings
  <2>2. CASE \/ \E v \in Users : Message(v, d)
             \/ \E v \in Users, i \in Idents : Nick(v, i)
    BY <2>2, Unmoved DEF Message, Nick
  <2>3. ASSUME NEW v \in Users, NEW cmd \in {x \in Commands : x.chan = d},
               Mode(v, d, cmd) \/ RemoteMode(v, d, cmd)
        PROVE  FALSE
    BY <2>3, ModeIsDone, ModeDoneModes
  <2>4. ASSUME NEW l \in BmaskLists, NEW mask \in Masks, Bmask(d, l, mask) PROVE FALSE
    BY <2>4, BmaskModes
  <2>. QED BY <2>1, <2>2, <2>3, <2>4
<1>4. CASE ~aborted /\ Upgrade
  BY <1>4, Unmoved DEF Upgrade
<1>. QED BY <1>1, <1>2, <1>3, <1>4 DEF Next

(* That JOIN ends in a channel that lets the user in.                    *)
LEMMA StepEntryKept ==
  ASSUME IInv, [Next]_vars, NEW c \in Chans, NEW u \in Local, Alive(c),
         u \in MembersOf(c)', u \notin MembersOf(c)
  PROVE  LET asked == u \in invites[c]
         IN  /\ "i" \in modes[c].flags => asked \/ InList(c, u, "I")
             /\ InList(c, u, "b") => InList(c, u, "e")
             /\ modes[c].limit = None \/ asked
                \/ Cardinality(MembersOf(c)') <= LimitOf[modes[c].limit]
             /\ u \notin invites[c]'
<1>1. PICK d \in Chans, key \in Keys \cup {None} : Join(u, d, key)
  BY LocalJoins
<1>2. u \in users
  BY <1>1 DEF Join
<1>3. Alive(d)
  <2> SUFFICES ASSUME ~Alive(d) PROVE FALSE
    OBVIOUS
  <2>1. Add(d, NewModes, u, {"o"}) /\ {"o"} \in SUBSET StatusModes
    BY <1>1 DEF Join, StatusModes
  <2>. QED BY <1>2, <2>1, AddGrows
<1>4. PICK to \in {IF EntryBlocked(d, u, key) THEN FindForward(d, u, key) ELSE d} :
        to # None /\ Add(to, modes[to], u, {})
  BY <1>1, <1>3 DEF Join
<1>5. Alive(to) /\ to \in Chans /\ ~EntryBlocked(to, u, key) /\ {} \in SUBSET StatusModes
  BY <1>3, <1>4, ForwardEnds DEF Alive
<1>6. to = c /\ MembersOf(c)' = MembersOf(c) \cup {u} /\ u \notin invites'[c]
  BY <1>2, <1>4, <1>5, AddGrows
<1>7. ~EntryBlocked(c, u, key)
  BY <1>5, <1>6
<1>8. modes[c].limit # None /\ u \notin invites[c] =>
         Cardinality(MembersOf(c)') <= LimitOf[modes[c].limit]
  <2> SUFFICES ASSUME modes[c].limit # None, u \notin invites[c]
               PROVE  Cardinality(MembersOf(c)') <= LimitOf[modes[c].limit]
    OBVIOUS
  <2>1. modes[c] \in ModesRec(MembersOf(c)) /\ MembersOf(c) \subseteq Users
    BY MembersAre DEF IInv
  <2>2. LimitOf[modes[c].limit] \in Int
    BY <2>1, ModesAssumption DEF ModesRec
  <2>3. IsFiniteSet(MembersOf(c))
    BY <2>1, ChanAssumption, FS_Subset
  <2>4. Cardinality(MembersOf(c)) \in Nat
        /\ Cardinality(MembersOf(c) \cup {u}) = Cardinality(MembersOf(c)) + 1
    BY <2>3, FS_CardinalityType, FS_AddElement
  <2>5. ~(Cardinality(MembersOf(c)) >= LimitOf[modes[c].limit])
    BY <1>7 DEF EntryBlocked
  <2>. QED BY <1>6, <2>2, <2>4, <2>5
<1>. QED BY <1>6, <1>7, <1>8 DEF EntryBlocked

(* Wherever a JOIN ends, the bans, the limit and the +i of that very     *)
(* channel are kept, through any number of forwards, and an invitation   *)
(* serves once.                                                          *)
THEOREM EntryIsKept == Spec => EntryKept
<1>1. IInv /\ [Next]_vars =>
        [\A c \in Chans, u \in Local :
          Alive(c) /\ u \in MembersOf(c)' \ MembersOf(c) =>
            LET asked == u \in invites[c]
            IN  /\ "i" \in modes[c].flags => asked \/ InList(c, u, "I")
                /\ InList(c, u, "b") => InList(c, u, "e")
                /\ modes[c].limit = None \/ asked
                   \/ Cardinality(MembersOf(c)') <= LimitOf[modes[c].limit]
                /\ u \notin invites[c]']_vars
  BY StepEntryKept
<1>. QED BY <1>1, InductiveInvariant, PTL DEF Spec, EntryKept
=============================================================================
