----------------------------- MODULE ConnProofs -----------------------------
(***************************************************************************)
(* Proofs about Conn, for every set of connections and every bound on the  *)
(* data an owner queues.                                                   *)
(*                                                                         *)
(* An action changes one connection, and cont only on behalf of that one.  *)
(* So each action has a lemma that its connection ends up GoodStep, OneConn *)
(* lifts that to the invariant and the action properties, and the two      *)
(* actions that change many connections are treated apart.                 *)
(***************************************************************************)
EXTENDS Conn, TLAPS

USE ConnAssumption

(* What the invariant says of one connection r, with cont = k. *)
Fine(k, c, r) ==
  /\ ~(k = After(c, "connect_ok") /\ r.st = "ACTIVE") => Polled(r)
  /\ k = After(c, "connect_ok") => r.st \notin {"none", "CONNECTING"}
  /\ k = After(c, "connect_error") => r.st # "none" /\ r.broke
  /\ k = After(c, "end_of_stream") => r.st \notin {"none", "CONNECTING"}
  /\ k = After(c, "fatal_error") =>
       r.st \notin {"none", "CONNECTING"} /\ r.broke
  /\ k = After(c, "connect_ok") /\ r.st = "ACTIVE" => r.listed = 0

LEMMA IInvByConn ==
  IInv <=> TypeOK /\ \A c \in Conns : Fine(cont, c, conn[c])
BY DEF IInv, PollInterest, ContState, CallbackState, InConnectFinish, Fine

(* r2 is what an action may make of a connection that was r. *)
Ahead(r, r2) ==
  \/ r2.st \in Later(r.st)
  \/ r.st = "AWAIT_CLEANUP" /\ r2.st = "SHUTTING_DOWN" /\ r2.again

GoodStep(k, c, r, r2) ==
  /\ r2 \in ConnRec
  /\ Fine(k, c, r2)
  /\ Ahead(r, r2)
  /\ r.st # "AWAIT_CLEANUP" /\ r2.st = "AWAIT_CLEANUP"
       => r2.broke \/ r2.size = 0

-----------------------------------------------------------------------------
(* The functions of conn.c keep a connection's type; what each leaves in   *)
(* the fields the invariant is about.                                      *)
LEMMA FreeFine ==
  /\ Free \in ConnRec
  /\ Free.st = "none"
  /\ Polled(Free)
BY DEF Free, ConnRec, Polled

(* What the list and the polling of a closing connection may be. *)
Unlisted(r) == ~r.again => r.listed = 0
Drains(r) == r.send # "connect_end" /\ (r.send = "send_ready" \/ r.carried)

LEMMA MarkedFine ==
  ASSUME NEW r \in ConnRec
  PROVE  /\ Marked(r) \in ConnRec
         /\ Marked(r).st = "AWAIT_CLEANUP"
         /\ Marked(r).size = r.size /\ Marked(r).broke = r.broke
         /\ r.st # "AWAIT_CLEANUP" /\ Unlisted(r) => Polled(Marked(r))
         /\ r.st = "AWAIT_CLEANUP" => Marked(r) = r
<1>1. CASE r.st = "AWAIT_CLEANUP"
  BY <1>1 DEF Marked
<1>2. CASE r.st # "AWAIT_CLEANUP"
  <2> DEFINE n == IF r.listed = 0 THEN 1 ELSE 2
             m == [r EXCEPT !.st = "AWAIT_CLEANUP", !.recv = FALSE,
                            !.send = "off", !.listed = n]
  <2>1. Marked(r) = m
    BY <1>2 DEF Marked
  <2>0. n \in {1, 2} /\ (r.listed = 0 => n = 1)
    OBVIOUS
  <2> HIDE DEF n
  <2>2. m \in ConnRec
    BY <2>0 DEF ConnRec
  <2>3. /\ m.st = "AWAIT_CLEANUP" /\ ~m.recv /\ m.send = "off"
        /\ m.listed = n /\ m.size = r.size /\ m.broke = r.broke
        /\ m.again = r.again
    BY DEF ConnRec
  <2> HIDE DEF m
  <2>4. Unlisted(r) => Polled(m)
    BY <2>0, <2>3 DEF Polled, Unlisted
  <2>5. QED BY <1>2, <2>1, <2>2, <2>3, <2>4
<1>3. QED BY <1>1, <1>2

(* After sync_on_update an active or closing connection is polled as it    *)
(* should be, if it was not listed.                                        *)
LEMMA SyncFine ==
  ASSUME NEW r \in ConnRec
  PROVE  /\ SyncOnUpdate(r) \in ConnRec
         /\ SyncOnUpdate(r).size = r.size /\ SyncOnUpdate(r).broke = r.broke
         /\ SyncOnUpdate(r).again = r.again
         /\ SyncOnUpdate(r).st =
              IF r.st = "SHUTTING_DOWN" /\ r.size = 0 THEN "AWAIT_CLEANUP"
                                                      ELSE r.st
         /\ r.st = "ACTIVE" /\ r.listed = 0 => Polled(SyncOnUpdate(r))
         /\ r.st = "SHUTTING_DOWN" /\ Unlisted(r) /\ Drains(r)
              => Polled(SyncOnUpdate(r))
         /\ r.st \in {"CONNECTING", "AWAIT_CLEANUP"} /\ Polled(r)
              => Polled(SyncOnUpdate(r))
<1> USE DEF ConnRec
<1>0. r.size \in Nat /\ (r.size # 0 <=> r.size > 0)
  OBVIOUS
<1>1. CASE r.st = "ACTIVE"
  <2> DEFINE out == IF r.size > 0 THEN "send_ready" ELSE "off"
             s   == [r EXCEPT !.recv = TRUE, !.send = out]
  <2>1. SyncOnUpdate(r) = s
    BY <1>1 DEF SyncOnUpdate
  <2>2. s \in ConnRec
    OBVIOUS
  <2>3. /\ s.st = "ACTIVE" /\ s.recv /\ s.send = out /\ s.listed = r.listed
        /\ s.size = r.size /\ s.broke = r.broke /\ s.again = r.again
    BY <1>1
  <2> HIDE DEF s
  <2>4. r.listed = 0 => Polled(s)
    BY <2>3 DEF Polled
  <2>5. QED BY <1>1, <2>1, <2>2, <2>3, <2>4
<1>2. CASE r.st = "SHUTTING_DOWN" /\ r.size = 0
  <2>1. SyncOnUpdate(r) = Marked(r)
    BY <1>2 DEF SyncOnUpdate
  <2>2. Marked(r).again = r.again
    BY DEF Marked
  <2>. QED BY <1>2, <2>1, <2>2, MarkedFine
<1>3. CASE r.st # "ACTIVE" /\ ~(r.st = "SHUTTING_DOWN" /\ r.size = 0)
  <2> DEFINE s == [r EXCEPT !.recv = FALSE]
  <2>1. SyncOnUpdate(r) = s
    BY <1>3 DEF SyncOnUpdate
  <2>2. s \in ConnRec
    OBVIOUS
  <2>3. /\ s.st = r.st /\ ~s.recv /\ s.send = r.send /\ s.listed = r.listed
        /\ s.size = r.size /\ s.broke = r.broke /\ s.again = r.again
        /\ s.carried = r.carried
    OBVIOUS
  <2> HIDE DEF s
  <2>4. /\ r.st = "SHUTTING_DOWN" /\ Unlisted(r) /\ Drains(r) => Polled(s)
        /\ r.st = "CONNECTING" /\ Polled(r) => Polled(s)
        /\ r.st = "AWAIT_CLEANUP" /\ Polled(r) => Polled(s)
    BY <1>0, <1>3, <2>3 DEF Polled, Unlisted, Drains
  <2>5. QED BY <1>3, <2>1, <2>2, <2>3, <2>4
<1>4. QED BY <1>1, <1>2, <1>3

LEMMA ShutDownFine ==
  ASSUME NEW r \in ConnRec, r.st # "AWAIT_CLEANUP" => Unlisted(r)
  PROVE  /\ ShutDown(r) \in ConnRec
         /\ r.st = "AWAIT_CLEANUP" => ShutDown(r).again
         /\ ShutDown(r).size = r.size /\ ShutDown(r).broke = r.broke
         /\ ShutDown(r).st = IF r.size = 0 THEN "AWAIT_CLEANUP"
                                           ELSE "SHUTTING_DOWN"
         /\ Polled(ShutDown(r))
<1> DEFINE a == r.again \/ r.st = "AWAIT_CLEANUP"
           s == [r EXCEPT !.st = "SHUTTING_DOWN", !.recv = FALSE,
                          !.send = "send_ready", !.again = a]
<1>0. a \in BOOLEAN
  BY DEF ConnRec
<1>2. ShutDown(r) = SyncOnUpdate(s)
  BY DEF ShutDown
<1>4. r.st = "AWAIT_CLEANUP" => a
  OBVIOUS
<1>5. r.again => a
  OBVIOUS
<1> HIDE DEF a
<1>1. /\ s \in ConnRec /\ s.st = "SHUTTING_DOWN" /\ s.send = "send_ready"
      /\ s.listed = r.listed /\ s.size = r.size /\ s.broke = r.broke
      /\ s.again = a
  BY <1>0 DEF ConnRec
<1> HIDE DEF s
<1>6. Unlisted(s) /\ Drains(s)
  BY <1>1, <1>4, <1>5 DEF Unlisted, Drains
<1>3. QED BY <1>1, <1>2, <1>4, <1>6, SyncFine

-----------------------------------------------------------------------------
(* cont concerns at most one connection. *)
Concerns(k, c) == \E w \in Conts : k = After(c, w)

LEMMA ContCases ==
  /\ \A c : ~Concerns(Idle, c)
  /\ \A c, d, w : Concerns(After(c, w), d) => c = d
  /\ \A c, w, v : After(c, w) = After(c, v) => w = v
  /\ \A c, w : After(c, w).then = w /\ After(c, w).c = c
BY DEF Concerns, Conts, Idle, After

LEMMA FineElsewhere ==
  ASSUME NEW k, NEW c, NEW r, ~Concerns(k, c)
  PROVE  Fine(k, c, r) <=> Polled(r)
BY DEF Fine, Concerns, Conts

(* What every step keeps. *)
Kept == IInv' /\ \A c \in Conns : Forward(c) /\ DrainedFirst(c)

LEMMA ForwardOrStay == \A r \in ConnRec : Ahead(r, r)
BY DEF ConnRec, Later, Ahead

(* A step of one connection c: it is enough to look at c. *)
LEMMA OneConnStep ==
  ASSUME IInv, NEW c \in Conns, NEW r2,
         Update(c, r2), GoodStep(cont', c, conn[c], r2),
         \/ cont' = cont
         \/ cont' = Idle /\ \A d \in Conns \ {c} : ~Concerns(cont, d)
         \/ cont = Idle /\ \E w \in Conts : cont' = After(c, w)
  PROVE  Kept
<1>1. /\ conn \in [Conns -> ConnRec]
      /\ cont \in {Idle} \cup [then : Conts, c : Conns]
      /\ \A d \in Conns : Fine(cont, d, conn[d])
  BY IInvByConn DEF TypeOK
<1>2. conn' = [conn EXCEPT ![c] = r2] /\ r2 \in ConnRec /\ ub' = ub
  BY DEF Update, GoodStep
<1>3. conn'[c] = r2 /\ \A d \in Conns \ {c} : conn'[d] = conn[d]
  BY <1>1, <1>2
<1>4. conn' \in [Conns -> ConnRec]
  BY <1>1, <1>2
<1>5. cont' \in {Idle} \cup [then : Conts, c : Conns]
  BY <1>1 DEF After
<1>6. ASSUME NEW d \in Conns PROVE Fine(cont', d, conn'[d])
  <2>1. CASE d = c
    BY <1>3, <2>1 DEF GoodStep
  <2>2. CASE d # c /\ cont' = cont
    BY <1>1, <1>3, <2>2
  <2>3. CASE d # c /\ cont' # cont
    <3>1. ~Concerns(cont, d) /\ ~Concerns(cont', d)
      BY <2>3, ContCases
    <3>2. Polled(conn[d])
      BY <1>1, <3>1, FineElsewhere
    <3>3. QED BY <1>3, <2>3, <3>1, <3>2, FineElsewhere
  <2>4. QED BY <2>1, <2>2, <2>3
<1>7. IInv'
  <2>1. TypeOK'
    BY <1>2, <1>4, <1>5 DEF TypeOK, IInv
  <2>2. QED
    BY <1>6, <2>1 DEF IInv, PollInterest, ContState, CallbackState,
                      InConnectFinish, Fine
<1>8. ASSUME NEW d \in Conns PROVE Forward(d) /\ DrainedFirst(d)
  <2>1. CASE d = c
    BY <1>3, <2>1 DEF GoodStep, Ahead, Forward, DrainedFirst
  <2>2. CASE d # c
    BY <1>1, <1>3, <2>2, ForwardOrStay DEF Ahead, Forward, DrainedFirst
  <2>3. QED BY <2>1, <2>2
<1>9. QED BY <1>7, <1>8 DEF Kept

-----------------------------------------------------------------------------
(* One lemma per action. *)

(* What the invariant gives about the connection an action is about. *)
LEMMA ConnFacts ==
  ASSUME IInv, NEW c \in Conns
  PROVE  /\ conn[c] \in ConnRec
         /\ Fine(cont, c, conn[c])
         /\ cont = Idle => Polled(conn[c])
BY IInvByConn, ContCases, FineElsewhere DEF TypeOK

(* While no callback runs, a connection that is polled right is fine. *)
LEMMA IdleFine == \A c, r : Fine(Idle, c, r) <=> Polled(r)
BY ContCases, FineElsewhere

(* What the write callback tells about the connection. *)
LEMMA SendTells ==
  ASSUME NEW r \in ConnRec, Polled(r)
  PROVE  /\ r.send = "connect_end" => r.st = "CONNECTING" /\ r.listed = 0
         /\ r.send = "send_ready" => /\ r.st \in {"ACTIVE", "SHUTTING_DOWN"}
                                     /\ Unlisted(r)
                                     /\ r.st = "ACTIVE" => r.listed = 0
<1>1. CASE r.st = "none"
  <2>1. r = Free
    BY <1>1 DEF Polled
  <2>2. Free.send = "off"
    BY DEF Free
  <2>3. QED BY <2>1, <2>2
<1>2. CASE r.st = "CONNECTING"
  BY <1>2 DEF Polled
<1>3. CASE r.st = "ACTIVE"
  BY <1>3 DEF Polled, Unlisted
<1>4. CASE r.st = "SHUTTING_DOWN"
  BY <1>4 DEF Polled, Unlisted
<1>5. CASE r.st = "AWAIT_CLEANUP"
  BY <1>5 DEF Polled
<1>6. QED BY <1>1, <1>2, <1>3, <1>4, <1>5 DEF ConnRec

LEMMA AcceptStep ==
  ASSUME IInv, NEW c \in Conns, Accept(c) PROVE Kept
<1>1. /\ Accepted \in ConnRec /\ Polled(Accepted) /\ Accepted.st = "ACTIVE"
  <2>1. Accepted \in ConnRec
    BY FreeFine DEF Accepted, ConnRec
  <2>2. /\ Accepted.st = "ACTIVE" /\ Accepted.recv /\ Accepted.send = "off"
        /\ Accepted.size = 0 /\ Accepted.listed = 0
    BY DEF Accepted, Free
  <2>3. QED BY <2>1, <2>2 DEF Polled
<1>2. GoodStep(cont', c, conn[c], Accepted)
  BY <1>1, IdleFine DEF Accept, Looping, GoodStep, Ahead, Later
<1>3. QED BY <1>2, OneConnStep DEF Accept, Looping

LEMMA ConnectStep ==
  ASSUME IInv, NEW c \in Conns, Connect(c) PROVE Kept
<1>1. /\ Connected \in ConnRec /\ Polled(Connected)
      /\ Connected.st = "CONNECTING"
  <2>1. Connected \in ConnRec
    BY FreeFine DEF Connected, ConnRec
  <2>2. /\ Connected.st = "CONNECTING" /\ ~Connected.recv
        /\ Connected.send = "connect_end" /\ Connected.listed = 0
    BY DEF Connected, Free
  <2>3. QED BY <2>1, <2>2 DEF Polled
<1>2. ~Concerns(cont, c)
  BY ConnFacts DEF Connect, Fine, Concerns, Conts
<1>3. GoodStep(cont', c, conn[c], Connected)
  BY <1>1, <1>2, FineElsewhere DEF Connect, GoodStep, Ahead, Later
<1>4. QED BY <1>3, OneConnStep DEF Connect

LEMMA ConnectEndOkStep ==
  ASSUME IInv, NEW c \in Conns, ConnectEndOk(c) PROVE Kept
<1> DEFINE r == conn[c]
           t == [r EXCEPT !.st = "ACTIVE"]
<1>1. r \in ConnRec /\ Polled(r) /\ r.send = "connect_end"
  BY ConnFacts DEF ConnectEndOk, Looping
<1>2. r.st = "CONNECTING" /\ r.listed = 0
  BY <1>1, SendTells
<1>3. t \in ConnRec /\ t.st = "ACTIVE" /\ t.listed = 0
  BY <1>1, <1>2 DEF ConnRec
<1> HIDE DEF t
<1>4. GoodStep(cont', c, r, t)
  BY <1>2, <1>3, ContCases DEF ConnectEndOk, GoodStep, Fine, Ahead, Later
<1>5. Update(c, t) /\ cont = Idle /\ cont' = After(c, "connect_ok")
  BY DEF ConnectEndOk, Looping, t
<1>6. QED BY <1>4, <1>5, OneConnStep DEF Conts

LEMMA BrokenFine ==
  ASSUME NEW r \in ConnRec
  PROVE  /\ Broken(r) \in ConnRec
         /\ Broken(r).broke
         /\ Broken(r).st = r.st /\ Broken(r).listed = r.listed
         /\ Broken(r).size = r.size /\ Broken(r).again = r.again
         /\ Polled(r) /\ r.st # "none" => Polled(Broken(r))
<1> DEFINE b == [r EXCEPT !.broke = TRUE]
<1>1. b \in ConnRec
  BY DEF ConnRec
<1>2. /\ b.broke /\ b.st = r.st /\ b.listed = r.listed /\ b.size = r.size
      /\ b.recv = r.recv /\ b.send = r.send
      /\ b.again = r.again /\ b.carried = r.carried
  BY DEF ConnRec
<1> HIDE DEF b
<1>3. Polled(r) /\ r.st # "none" => Polled(b)
  BY <1>2 DEF Polled, ConnRec
<1>4. QED BY <1>1, <1>2, <1>3 DEF Broken, b

LEMMA ConnectEndErrorStep ==
  ASSUME IInv, NEW c \in Conns, ConnectEndError(c) PROVE Kept
<1> DEFINE r == conn[c]
<1>1. r \in ConnRec /\ Polled(r) /\ r.send = "connect_end"
  BY ConnFacts DEF ConnectEndError, Looping
<1>2. r.st = "CONNECTING"
  BY <1>1, SendTells
<1>3. GoodStep(cont', c, r, Broken(r))
  BY <1>1, <1>2, BrokenFine, ContCases
  DEF ConnectEndError, GoodStep, Fine, Ahead, Later
<1>4. QED BY <1>3, OneConnStep DEF ConnectEndError, Looping, Conts

LEMMA RecvEofStep ==
  ASSUME IInv, NEW c \in Conns, RecvEof(c) PROVE Kept
<1> DEFINE r == conn[c]
<1>1. r \in ConnRec /\ Polled(r) /\ r.st = "ACTIVE"
  BY ConnFacts DEF RecvEof, Looping
<1>2. Update(c, r)
  BY ConnFacts DEF RecvEof, Update, IInv, TypeOK
<1>3. GoodStep(cont', c, r, r)
  BY <1>1, ContCases DEF RecvEof, GoodStep, Fine, Ahead, Later
<1>4. QED BY <1>2, <1>3, OneConnStep DEF RecvEof, Looping, Conts

LEMMA RecvErrorStep ==
  ASSUME IInv, NEW c \in Conns, RecvError(c) PROVE Kept
<1> DEFINE r == conn[c]
<1>1. r \in ConnRec /\ Polled(r) /\ r.st = "ACTIVE"
  BY ConnFacts DEF RecvError, Looping
<1>2. GoodStep(cont', c, r, Broken(r))
  BY <1>1, BrokenFine, ContCases DEF RecvError, GoodStep, Fine, Ahead, Later
<1>3. QED BY <1>2, OneConnStep DEF RecvError, Looping, Conts

LEMMA WroteFine ==
  ASSUME NEW r \in ConnRec, NEW n \in 1..r.size,
         r.st \in {"ACTIVE", "SHUTTING_DOWN"}, Unlisted(r),
         r.st = "ACTIVE" => r.listed = 0, r.send = "send_ready"
  PROVE  /\ Wrote(r, n) \in ConnRec /\ Polled(Wrote(r, n))
         /\ Wrote(r, n).st \in {r.st, "AWAIT_CLEANUP"}
         /\ Wrote(r, n).st = "AWAIT_CLEANUP" => Wrote(r, n).size = 0
<1> DEFINE m == r.size - n
           w == [r EXCEPT !.size = m]
<1>1. m \in Nat
  BY DEF ConnRec
<1>2. Wrote(r, n) = SyncOnUpdate(w)
  BY DEF Wrote
<1> HIDE DEF m
<1>3. /\ w \in ConnRec /\ w.st = r.st /\ w.listed = r.listed
      /\ w.send = "send_ready" /\ w.size = m /\ w.again = r.again
  BY <1>1 DEF ConnRec
<1> HIDE DEF w
<1>6. Unlisted(w) /\ Drains(w) /\ (w.st = "ACTIVE" => w.listed = 0)
  BY <1>3 DEF Unlisted, Drains
<1>4. /\ SyncOnUpdate(w) \in ConnRec
      /\ SyncOnUpdate(w).size = w.size
      /\ SyncOnUpdate(w).st =
           IF w.st = "SHUTTING_DOWN" /\ w.size = 0 THEN "AWAIT_CLEANUP"
                                                   ELSE w.st
      /\ w.st = "ACTIVE" => Polled(SyncOnUpdate(w))
      /\ w.st = "SHUTTING_DOWN" => Polled(SyncOnUpdate(w))
  BY <1>3, <1>6, SyncFine
<1>5. QED BY <1>2, <1>3, <1>4

LEMMA SendReadyStep ==
  ASSUME IInv, NEW c \in Conns, NEW n \in 1..conn[c].size, SendReady(c, n)
  PROVE  Kept
<1> DEFINE r == conn[c]
<1>1. r \in ConnRec /\ Polled(r) /\ r.send = "send_ready"
  BY ConnFacts DEF SendReady, Looping
<1>2. /\ r.st \in {"ACTIVE", "SHUTTING_DOWN"} /\ Unlisted(r)
      /\ r.st = "ACTIVE" => r.listed = 0
  BY <1>1, SendTells
<1>3. GoodStep(cont', c, r, Wrote(r, n))
  BY <1>1, <1>2, WroteFine, IdleFine DEF SendReady, Looping, GoodStep, Ahead, Later
<1>4. QED BY <1>3, OneConnStep DEF SendReady, Looping

LEMMA SendErrorStep ==
  ASSUME IInv, NEW c \in Conns, SendError(c) PROVE Kept
<1> DEFINE r == conn[c]
<1>1. r \in ConnRec /\ Polled(r) /\ r.send = "send_ready"
  BY ConnFacts DEF SendError, Looping
<1>2. r.st \in {"ACTIVE", "SHUTTING_DOWN"} /\ Unlisted(r)
  BY <1>1, SendTells
<1>3. /\ Broken(r) \in ConnRec /\ Broken(r).broke
      /\ Broken(r).st = r.st /\ Unlisted(Broken(r)) /\ Polled(Broken(r))
  BY <1>1, <1>2, BrokenFine DEF Unlisted
<1>4. CASE r.st = "ACTIVE"
  <2>1. GoodStep(cont', c, r, Broken(r))
    BY <1>3, <1>4, ContCases DEF SendError, GoodStep, Fine, Ahead, Later
  <2>2. QED BY <1>4, <2>1, OneConnStep DEF SendError, Looping, Conts
<1>5. CASE r.st = "SHUTTING_DOWN"
  <2>1. /\ Marked(Broken(r)) \in ConnRec /\ Polled(Marked(Broken(r)))
        /\ Marked(Broken(r)).st = "AWAIT_CLEANUP" /\ Marked(Broken(r)).broke
    BY <1>3, <1>5, MarkedFine
  <2>2. cont = Idle /\ cont' = Idle /\ Update(c, Marked(Broken(r)))
    BY <1>5 DEF SendError, Looping
  <2>3. GoodStep(cont', c, r, Marked(Broken(r)))
    BY <1>5, <2>1, <2>2, IdleFine DEF GoodStep, Ahead, Later
  <2>4. QED BY <2>2, <2>3, OneConnStep
<1>6. QED BY <1>2, <1>4, <1>5

LEMMA RdnsCallbackStep ==
  ASSUME IInv, NEW c \in Conns, RdnsCallback(c) PROVE Kept
<1> DEFINE r == conn[c]
           t == [r EXCEPT !.rdns = FALSE]
<1>1. r \in ConnRec /\ Polled(r) /\ r.rdns
  BY ConnFacts DEF RdnsCallback, Looping
<1>2. r.st # "none"
  <2>1. ~Free.rdns
    BY DEF Free
  <2>2. QED BY <1>1, <2>1 DEF Polled
<1>3. /\ t \in ConnRec /\ t.st = r.st /\ t.recv = r.recv /\ t.send = r.send
      /\ t.size = r.size /\ t.listed = r.listed /\ t.broke = r.broke
      /\ t.again = r.again /\ t.carried = r.carried
  BY <1>1 DEF ConnRec
<1>4. Update(c, t) /\ cont = Idle /\ cont' = Idle
  BY DEF RdnsCallback, Looping
<1> HIDE DEF t
<1>5. Polled(t)
  BY <1>1, <1>2, <1>3 DEF Polled, ConnRec
<1>6. GoodStep(cont', c, r, t)
  BY <1>1, <1>3, <1>4, <1>5, IdleFine, ForwardOrStay DEF GoodStep, Ahead
<1>7. QED BY <1>4, <1>6, OneConnStep

(* The state of a connection whose handler waits for its owner: not listed *)
(* when it is not awaiting cleanup, unless it has been.                    *)
LEMMA NotListed ==
  ASSUME IInv, NEW c \in Conns,
         conn[c].st \in {"CONNECTING", "ACTIVE", "SHUTTING_DOWN"}
  PROVE  Unlisted(conn[c]) /\ (conn[c].st = "ACTIVE" => conn[c].listed = 0)
BY ConnFacts DEF Fine, Polled, Unlisted

LEMMA MarkStep ==
  ASSUME NEW r \in ConnRec, r.broke,
         r.st \in {"CONNECTING", "ACTIVE", "SHUTTING_DOWN"} => Unlisted(r),
         r.st = "AWAIT_CLEANUP" => Polled(r),
         r.st # "none"
  PROVE  \A c : GoodStep(Idle, c, r, Marked(r))
<1>1. /\ Marked(r) \in ConnRec /\ Marked(r).st = "AWAIT_CLEANUP"
      /\ Marked(r).broke
      /\ r.st # "AWAIT_CLEANUP" /\ Unlisted(r) => Polled(Marked(r))
      /\ r.st = "AWAIT_CLEANUP" => Marked(r) = r
  BY MarkedFine
<1>2. r.st \in {"CONNECTING", "ACTIVE", "SHUTTING_DOWN", "AWAIT_CLEANUP"}
  BY DEF ConnRec
<1>3. Polled(Marked(r))
  BY <1>1, <1>2
<1>4. "AWAIT_CLEANUP" \in Later(r.st)
  BY <1>2 DEF Later
<1>5. QED BY <1>1, <1>3, <1>4, IdleFine DEF GoodStep, Ahead

LEMMA ReturnStep ==
  ASSUME IInv, NEW c \in Conns, Return(c) PROVE Kept
<1> DEFINE r == conn[c]
           f == Finished(cont.then, r)
<1>1. r \in ConnRec /\ Fine(cont, c, r)
  BY ConnFacts
<1>2. PICK w \in Conts : cont = After(c, w)
  BY DEF Return, IInv, TypeOK, After
<1>3. cont.then = w
  BY <1>2, ContCases
<1>4. Update(c, f) /\ cont' = Idle
  BY DEF Return
<1>5. \A d \in Conns \ {c} : ~Concerns(cont, d)
  BY <1>2, ContCases
<1>6. SUFFICES GoodStep(Idle, c, r, f)
  BY <1>4, <1>5, OneConnStep
<1> HIDE DEF r
<1>7. /\ r.st \in {"CONNECTING", "ACTIVE", "SHUTTING_DOWN"} => Unlisted(r)
      /\ r.st = "ACTIVE" => r.listed = 0
  BY NotListed DEF r
<1>8. CASE w = "connect_ok"
  <2>1. f = SyncOnUpdate(r)
    BY <1>3, <1>8 DEF Finished
  <2>2. r.st \in {"ACTIVE", "SHUTTING_DOWN", "AWAIT_CLEANUP"}
    BY <1>1, <1>2, <1>8 DEF Fine, ConnRec
  <2>3. r.st # "ACTIVE" => Polled(r)
    BY <1>1 DEF Fine
  <2>4. /\ r.st = "SHUTTING_DOWN" => Drains(r)
        /\ r.st = "SHUTTING_DOWN" /\ ~r.carried => r.size > 0
    BY <2>3 DEF Polled, Drains
  <2>5. r.size \in Nat
    BY <1>1 DEF ConnRec
  <2>6. /\ SyncOnUpdate(r) \in ConnRec /\ Polled(SyncOnUpdate(r))
        /\ SyncOnUpdate(r).size = r.size
        /\ SyncOnUpdate(r).st = IF r.st = "SHUTTING_DOWN" /\ r.size = 0
                                  THEN "AWAIT_CLEANUP" ELSE r.st
    BY <1>1, <1>7, <2>2, <2>3, <2>4, SyncFine
  <2>8. Ahead(r, SyncOnUpdate(r))
    BY <2>2, <2>6 DEF Ahead, Later
  <2>7. QED BY <2>1, <2>6, <2>8, IdleFine DEF GoodStep
<1>9. CASE w = "end_of_stream"
  <2>1. f = ShutDown(r)
    BY <1>3, <1>9 DEF Finished
  <2>2. r.st \in {"ACTIVE", "SHUTTING_DOWN", "AWAIT_CLEANUP"}
    BY <1>1, <1>2, <1>9 DEF Fine, ConnRec
  <2>4. r.st # "AWAIT_CLEANUP" => Unlisted(r)
    BY <1>7, <2>2
  <2>5. /\ ShutDown(r) \in ConnRec
        /\ r.st = "AWAIT_CLEANUP" => ShutDown(r).again
        /\ ShutDown(r).size = r.size
        /\ ShutDown(r).st = IF r.size = 0 THEN "AWAIT_CLEANUP" ELSE "SHUTTING_DOWN"
        /\ Polled(ShutDown(r))
    BY <1>1, <2>4, ShutDownFine
  <2>6. Ahead(r, ShutDown(r))
    BY <2>2, <2>5 DEF Ahead, Later
  <2>3. QED
    BY <2>1, <2>5, <2>6, IdleFine DEF GoodStep
<1>10. CASE w \in {"connect_error", "fatal_error"}
  <2>1. f = Marked(r)
    BY <1>3, <1>10 DEF Finished
  <2>2. r.st # "none" /\ r.broke /\ (r.st = "AWAIT_CLEANUP" => Polled(r))
    BY <1>1, <1>2, <1>10 DEF Fine
  <2>3. QED BY <1>1, <1>7, <2>1, <2>2, MarkStep
<1>11. QED BY <1>8, <1>9, <1>10 DEF Conts

(* The owner's calls, which may come in the middle of a handler. *)
LEMMA QueuedFine ==
  ASSUME NEW r \in ConnRec
  PROVE  /\ Queued(r) \in ConnRec
         /\ Queued(r).st = r.st /\ Queued(r).broke = r.broke
         /\ Polled(r) /\ r.st # "none" => Polled(Queued(r))
         /\ r.st = "ACTIVE" /\ r.listed = 0 => Polled(Queued(r))
<1> DEFINE n == r.size + 1
           m == r.total + 1
           q == [r EXCEPT !.size = n, !.total = m]
<1>1. n \in Nat /\ m \in Nat /\ n # 0 /\ n > 0
  BY DEF ConnRec
<1>2. Queued(r) = SyncOnUpdate(q)
  BY DEF Queued
<1> HIDE DEF n, m
<1>3. /\ q \in ConnRec /\ q.size = n /\ q.st = r.st /\ q.recv = r.recv
      /\ q.send = r.send /\ q.listed = r.listed /\ q.broke = r.broke
      /\ q.again = r.again /\ q.carried = r.carried
  BY <1>1 DEF ConnRec
<1> HIDE DEF q
<1>4. Queued(r) \in ConnRec /\ Queued(r).st = r.st /\ Queued(r).broke = r.broke
  BY <1>1, <1>2, <1>3, SyncFine
<1>5. r.st = "ACTIVE" /\ r.listed = 0 => Polled(Queued(r))
  BY <1>2, <1>3, SyncFine
<1>6. Polled(r) /\ r.st # "none" => Polled(Queued(r))
  <2> SUFFICES ASSUME Polled(r), r.st # "none" PROVE Polled(Queued(r))
    OBVIOUS
  <2>1. r.st \in {"CONNECTING", "ACTIVE", "SHUTTING_DOWN", "AWAIT_CLEANUP"}
    BY DEF ConnRec
  <2>2. CASE r.st = "ACTIVE"
    BY <1>5, <2>2 DEF Polled
  <2>3. CASE r.st = "SHUTTING_DOWN"
    <3>1. Unlisted(q) /\ Drains(q)
      BY <1>3, <2>3 DEF Polled, Unlisted, Drains
    <3>2. QED BY <1>2, <1>3, <2>3, <3>1, SyncFine
  <2>4. CASE r.st \in {"CONNECTING", "AWAIT_CLEANUP"}
    <3>1. Polled(q)
      BY <1>3, <2>4 DEF Polled
    <3>2. QED BY <1>2, <1>3, <2>4, <3>1, SyncFine
  <2>5. QED BY <2>1, <2>2, <2>3, <2>4
<1>7. QED BY <1>4, <1>5, <1>6

LEMMA SendStep ==
  ASSUME IInv, NEW c \in Conns, Send(c) PROVE Kept
<1> DEFINE r == conn[c]
<1>1. /\ r \in ConnRec /\ Fine(cont, c, r) /\ r.st # "none"
  BY ConnFacts DEF Send
<1>2. Update(c, Queued(r)) /\ cont' = cont
  BY DEF Send
<1>3. /\ Queued(r) \in ConnRec /\ Queued(r).st = r.st
      /\ Queued(r).broke = r.broke
      /\ Polled(r) => Polled(Queued(r))
      /\ r.st = "ACTIVE" /\ r.listed = 0 => Polled(Queued(r))
  BY <1>1, QueuedFine
<1>4. Fine(cont, c, Queued(r))
  BY <1>1, <1>3 DEF Fine, Polled
<1>5. GoodStep(cont', c, r, Queued(r))
  BY <1>1, <1>2, <1>3, <1>4, ForwardOrStay DEF GoodStep, Ahead
<1>6. QED BY <1>2, <1>5, OneConnStep

LEMMA ClosingStep ==
  ASSUME IInv, NEW c \in Conns, conn[c].st # "none",
         NEW q \in ConnRec, q.st = conn[c].st, q.listed = conn[c].listed,
         q.broke = conn[c].broke, q.again = conn[c].again,
         Update(c, ShutDown(q)), UNCHANGED cont
  PROVE  Kept
<1> DEFINE r == conn[c]
<1>1. /\ r \in ConnRec /\ Fine(cont, c, r)
      /\ r.st \in {"CONNECTING", "ACTIVE", "SHUTTING_DOWN"} => Unlisted(r)
  BY ConnFacts, NotListed
<1>6. r.st \in {"CONNECTING", "ACTIVE", "SHUTTING_DOWN", "AWAIT_CLEANUP"}
  BY <1>1 DEF ConnRec
<1>7. q.st # "AWAIT_CLEANUP" => Unlisted(q)
  BY <1>1, <1>6 DEF Unlisted
<1>2. /\ ShutDown(q) \in ConnRec /\ Polled(ShutDown(q))
      /\ r.st = "AWAIT_CLEANUP" => ShutDown(q).again
      /\ ShutDown(q).size = q.size /\ ShutDown(q).broke = r.broke
      /\ ShutDown(q).st = IF q.size = 0 THEN "AWAIT_CLEANUP"
                                         ELSE "SHUTTING_DOWN"
  BY <1>7, ShutDownFine
<1>3. Fine(cont, c, ShutDown(q))
  BY <1>1, <1>2 DEF Fine
<1>8. Ahead(r, ShutDown(q))
  BY <1>2, <1>6 DEF Ahead, Later
<1>9. r.st # "AWAIT_CLEANUP" /\ ShutDown(q).st = "AWAIT_CLEANUP"
        => ShutDown(q).size = 0
  BY <1>2
<1>4. GoodStep(cont', c, r, ShutDown(q))
  BY <1>2, <1>3, <1>8, <1>9 DEF GoodStep
<1>5. QED BY <1>4, OneConnStep

LEMMA CloseStep ==
  ASSUME IInv, NEW c \in Conns, Close(c) PROVE Kept
BY ConnFacts, ClosingStep DEF Close

LEMMA DropStep ==
  ASSUME IInv, NEW c \in Conns, Drop(c) PROVE Kept
<1> DEFINE q == Cleared(conn[c])
<1>1. /\ q \in ConnRec /\ q.st = conn[c].st /\ q.listed = conn[c].listed
      /\ q.broke = conn[c].broke /\ q.again = conn[c].again
  BY ConnFacts DEF Cleared, ConnRec
<1>2. conn[c].st # "none" /\ Update(c, ShutDown(q)) /\ UNCHANGED cont
  BY DEF Drop
<1> HIDE DEF q
<1>3. QED BY <1>1, <1>2, ClosingStep

(* A step of the loop itself may change every connection. *)
LEMMA ManyConnsStep ==
  ASSUME IInv, cont = Idle, UNCHANGED <<cont, ub>>,
         conn' = [c \in Conns |-> conn'[c]],
         \A c \in Conns : GoodStep(Idle, c, conn[c], conn'[c])
  PROVE  Kept
<1>1. \A c \in Conns : conn'[c] \in ConnRec /\ Fine(cont', c, conn'[c])
  BY DEF GoodStep
<1>2. TypeOK'
  BY <1>1 DEF TypeOK, IInv
<1>3. IInv'
  BY <1>1, <1>2 DEF IInv, PollInterest, ContState, CallbackState,
                    InConnectFinish, Fine
<1>4. QED BY <1>3 DEF Kept, GoodStep, Ahead, Forward, DrainedFirst

LEMMA StayGood ==
  ASSUME IInv, cont = Idle, NEW c \in Conns
  PROVE  GoodStep(Idle, c, conn[c], conn[c])
BY ConnFacts, IdleFine, ForwardOrStay DEF GoodStep

(* The connections of the loop that ended, or of the process that ended.   *)
LEMMA FreeGood ==
  ASSUME IInv, NEW c \in Conns
  PROVE  GoodStep(Idle, c, conn[c], Free)
<1>1. conn[c].st \in {"none", "CONNECTING", "ACTIVE", "SHUTTING_DOWN",
                      "AWAIT_CLEANUP"}
  BY ConnFacts DEF ConnRec
<1>2. QED BY <1>1, FreeFine, IdleFine DEF GoodStep, Ahead, Later

(* No connection changes. *)
LEMMA ConnsStay ==
  ASSUME IInv, UNCHANGED <<conn, cont>>, ub' \in BOOLEAN PROVE Kept
<1>1. conn \in [Conns -> ConnRec]
  BY DEF IInv, TypeOK
<1>2. \A c \in Conns : Forward(c) /\ DrainedFirst(c)
  BY <1>1, ForwardOrStay DEF Ahead, Forward, DrainedFirst
<1>3. IInv'
  BY DEF IInv, TypeOK, PollInterest, ContState, CallbackState, InConnectFinish
<1>4. QED BY <1>2, <1>3 DEF Kept

LEMMA CleanupPassStep ==
  ASSUME IInv, CleanupPass PROVE Kept
<1>1. CASE \E c \in Conns : conn[c].listed > 1
  BY <1>1, ConnsStay DEF CleanupPass
<1>2. CASE ~\E c \in Conns : conn[c].listed > 1
  <2>1. /\ conn' = [c \in Conns |-> IF conn[c].listed > 0 THEN Free ELSE conn[c]]
        /\ cont = Idle /\ UNCHANGED <<cont, ub>>
    BY <1>2 DEF CleanupPass, Looping
  <2>2. ASSUME NEW c \in Conns
        PROVE  GoodStep(Idle, c, conn[c], conn'[c])
    BY <2>1, StayGood, FreeGood
  <2>3. QED BY <2>1, <2>2, ManyConnsStep
<1>3. QED BY <1>1, <1>2

LEMMA ReopenedType ==
  ASSUME NEW r \in ConnRec, NEW v \in BOOLEAN
  PROVE  [r EXCEPT !.recv = FALSE, !.send = "off", !.listed = 0,
                   !.again = FALSE, !.carried = v] \in ConnRec
BY DEF ConnRec

LEMMA UpgradeStep ==
  ASSUME IInv, NEW S \in SUBSET Conns, Upgrade(S) PROVE Kept
<1>1. ASSUME NEW c \in S
      PROVE  GoodStep(Idle, c, conn[c], Restored(conn[c]))
  <2> DEFINE r == conn[c]
             v == r.carried \/ r.st # "ACTIVE"
             b == [r EXCEPT !.recv = FALSE, !.send = "off", !.listed = 0,
                            !.again = FALSE, !.carried = v]
  <2>0. Restored(r) = SyncOnUpdate(b)
    BY DEF Restored
  <2>1. r \in ConnRec /\ r.st \in {"ACTIVE", "SHUTTING_DOWN", "AWAIT_CLEANUP"}
    BY ConnFacts DEF Upgrade, ConnRec
  <2>2. v \in BOOLEAN /\ (r.st # "ACTIVE" => v)
    BY <2>1 DEF ConnRec
  <2> HIDE DEF v
  <2>3. /\ b.st = r.st /\ b.listed = 0 /\ b.size = r.size
        /\ b.send = "off" /\ ~b.recv /\ b.carried = v /\ ~b.again
    BY <2>1 DEF ConnRec
  <2>8. b \in ConnRec
    BY <2>1, <2>2, ReopenedType
  <2> HIDE DEF b
  <2>9. r.st # "ACTIVE" => b.carried
    BY <2>2, <2>3
  <2>10. b.st = "SHUTTING_DOWN" => Unlisted(b) /\ Drains(b)
    BY <2>3, <2>9 DEF Unlisted, Drains
  <2>11. b.st = "AWAIT_CLEANUP" => Polled(b)
    <3> SUFFICES ASSUME b.st = "AWAIT_CLEANUP" PROVE Polled(b)
      OBVIOUS
    <3>1. b.carried
      BY <2>3, <2>9
    <3>2. b.listed < 2
      BY <2>3
    <3>3. QED BY <2>3, <3>1, <3>2 DEF Polled
  <2>4. /\ b.st = "SHUTTING_DOWN" => Unlisted(b) /\ Drains(b)
        /\ b.st = "AWAIT_CLEANUP" => Polled(b)
    BY <2>10, <2>11
  <2>5. /\ Restored(r) \in ConnRec /\ Restored(r).size = r.size
        /\ Restored(r).st = IF r.st = "SHUTTING_DOWN" /\ r.size = 0
                              THEN "AWAIT_CLEANUP" ELSE r.st
        /\ Polled(Restored(r))
    BY <2>0, <2>1, <2>3, <2>4, <2>8, SyncFine
  <2>6. Ahead(r, Restored(r))
    BY <2>1, <2>5 DEF Ahead, Later
  <2>7. QED BY <2>1, <2>5, <2>6, IdleFine DEF GoodStep
<1>2. ASSUME NEW c \in Conns
      PROVE  GoodStep(Idle, c, conn[c], conn'[c])
  <2>1. conn'[c] = IF c \in S THEN Restored(conn[c]) ELSE Free
    BY DEF Upgrade
  <2>2. QED BY <1>1, <2>1, FreeGood
<1>3. QED BY <1>2, ManyConnsStep DEF Upgrade, Looping

-----------------------------------------------------------------------------
LEMMA InitIInv == Init => IInv
<1> SUFFICES ASSUME Init PROVE IInv
  OBVIOUS
<1>1. cont = Idle /\ \A c \in Conns : conn[c] = Free
  BY DEF Init
<1>2. TypeOK
  BY FreeFine DEF Init, TypeOK
<1>3. \A c \in Conns : Fine(cont, c, conn[c])
  BY <1>1, FreeFine, IdleFine
<1>4. QED BY <1>2, <1>3, IInvByConn

LEMMA NextKept ==
  ASSUME IInv, [Next]_vars PROVE Kept
<1>1. CASE UNCHANGED vars
  BY <1>1, ConnsStay DEF vars, IInv, TypeOK
<1>2. CASE CleanupPass
  BY <1>2, CleanupPassStep
<1>3. CASE \E S \in SUBSET Conns : Upgrade(S)
  BY <1>3, UpgradeStep
<1>4. ASSUME NEW c \in Conns,
             \/ Accept(c) \/ Connect(c) \/ ConnectEndOk(c) \/ ConnectEndError(c)
             \/ RecvEof(c) \/ RecvError(c)
             \/ \E n \in 1..conn[c].size : SendReady(c, n)
             \/ SendError(c) \/ RdnsCallback(c) \/ Return(c)
             \/ Send(c) \/ Close(c) \/ Drop(c)
      PROVE  Kept
  BY <1>4, AcceptStep, ConnectStep, ConnectEndOkStep, ConnectEndErrorStep,
     RecvEofStep, RecvErrorStep, SendReadyStep, SendErrorStep,
     RdnsCallbackStep, ReturnStep, SendStep, CloseStep, DropStep
<1>5. QED BY <1>1, <1>2, <1>3, <1>4 DEF Next

(* The invariant holds in every state. *)
THEOREM InductiveInvariant == Spec => []IInv
<1>1. Init => IInv
  BY InitIInv
<1>2. IInv /\ [Next]_vars => IInv'
  BY NextKept DEF Kept
<1>3. QED BY <1>1, <1>2, PTL DEF Spec

(* Variables keep their types. *)
THEOREM TypeCorrect == Spec => []TypeOK
<1>1. IInv => TypeOK
  BY DEF IInv
<1>2. QED BY <1>1, InductiveInvariant, PTL

(* The event loop polls every connection for what sync_on_update owes it,  *)
(* whatever its owner called in whatever callback; a connection is in      *)
(* awaiting_cleanup twice only after a shutdown while it awaited cleanup,  *)
(* and unpolled while it closes only after an upgrade.                     *)
THEOREM PolledRight == Spec => []PollInterest
<1>1. IInv => PollInterest
  BY DEF IInv
<1>2. QED BY <1>1, InductiveInvariant, PTL

(* A connection that was shut down is never active again, whatever its     *)
(* owner calls; it goes back from awaiting cleanup to shutting down by     *)
(* another u_conn_shut_down only.                                          *)
THEOREM OnlyForward == Spec => LifeCycle
<1>1. IInv /\ [Next]_vars => [\A c \in Conns : Forward(c)]_vars
  BY NextKept DEF Kept
<1>2. QED BY <1>1, InductiveInvariant, PTL DEF Spec, LifeCycle

(* A shutdown lets the queue drain before the connection is cleaned up.    *)
THEOREM DrainsFirst == Spec => Drained
<1>1. IInv /\ [Next]_vars => [\A c \in Conns : DrainedFirst(c)]_vars
  BY NextKept DEF Kept
<1>2. QED BY <1>1, InductiveInvariant, PTL DEF Spec, Drained
=============================================================================
