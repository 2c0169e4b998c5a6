-------------------------------- MODULE Conn --------------------------------
(***************************************************************************)
(* Stream connections, src/conn.c: the life of a u_conn from accept or     *)
(* connect to final_cleanup, what the event loop polls its socket for, and *)
(* the calls its owner (src/link.c) makes into it.                         *)
(*                                                                         *)
(* The daemon is one thread.  An event handler of conn.c runs to its end,  *)
(* except that it may call its owner in the middle; what it does after the *)
(* owner returns is a step of its own, and cont says which one is due.     *)
(* While the owner runs it may call into any connection.                   *)
(*                                                                         *)
(* Queued data are counted in units: src/sendq.c is the module SendQ.      *)
(***************************************************************************)
EXTENDS Integers

CONSTANTS
  Conns,      \* the connections the daemon has room for
  MaxSends    \* bound: units an owner queues on one connection; 0 is none

ASSUME ConnAssumption == MaxSends \in Nat

VARIABLES
  conn,       \* [Conns -> ConnRec]
  cont,       \* the end of a handler that waits for its owner to return
  ub          \* a connection was freed that is in the list twice

vars == <<conn, cont, ub>>

(* A u_conn.  recv and send are the callbacks set_recv and set_send left   *)
(* with the event loop; listed says how often it was added to              *)
(* awaiting_cleanup, where 2 is more than once.  History: broke says that  *)
(* the socket failed, total how many units were ever queued, again that    *)
(* the connection was shut down while it awaited cleanup, carried that it  *)
(* came over an upgrade while it was closing.                              *)
ConnRec ==
  [st     : {"none", "CONNECTING", "ACTIVE", "SHUTTING_DOWN", "AWAIT_CLEANUP"},
   recv   : BOOLEAN,
   send   : {"off", "connect_end", "send_ready"},
   size   : Nat,
   rdns   : BOOLEAN,
   listed : {0, 1, 2},
   broke  : BOOLEAN,
   total  : Nat,
   again  : BOOLEAN,
   carried : BOOLEAN]

(* No u_conn. *)
Free == [st |-> "none", recv |-> FALSE, send |-> "off", size |-> 0,
         rdns |-> FALSE, listed |-> 0, broke |-> FALSE, total |-> 0,
         again |-> FALSE, carried |-> FALSE]

(* The parts of handlers that run after the owner's callback returned. *)
Conts == {"connect_ok", "connect_error", "end_of_stream", "fatal_error"}
Idle  == [then |-> "idle"]
After(c, what) == [then |-> what, c |-> c]

Init ==
  /\ conn = [c \in Conns |-> Free]
  /\ cont = Idle
  /\ ub = FALSE

-----------------------------------------------------------------------------
(* The functions of conn.c, on one connection. *)

(* u_conn_accept and u_conn_connect, up to rdns_start. *)
Accepted  == [Free EXCEPT !.st = "ACTIVE", !.recv = TRUE, !.rdns = TRUE]
Connected == [Free EXCEPT !.st = "CONNECTING", !.send = "connect_end",
                          !.rdns = TRUE]

(* Variant with a fault: the connection is not put in the list. *)
MarkedUnlisted(r) ==
  [r EXCEPT !.st = "AWAIT_CLEANUP", !.recv = FALSE, !.send = "off"]

(* mark_for_cleanup *)
Marked(r) ==
  IF r.st = "AWAIT_CLEANUP"
    THEN r
    ELSE [r EXCEPT !.st = "AWAIT_CLEANUP", !.recv = FALSE, !.send = "off",
                   !.listed = IF @ = 0 THEN 1 ELSE 2]

(* sync_on_update *)
SyncOnUpdate(r) ==
  CASE r.st = "ACTIVE" ->
         [r EXCEPT !.recv = TRUE,
                   !.send = IF r.size > 0 THEN "send_ready" ELSE "off"]
    [] r.st = "SHUTTING_DOWN" /\ r.size = 0 -> Marked(r)
    [] OTHER -> [r EXCEPT !.recv = FALSE]

(* Variant with a fault: a shutdown does not wait for the queue. *)
ShutDownAtOnce(r) == Marked(r)

(* u_conn_shut_down, whatever the state of the connection: one that awaits *)
(* cleanup is shutting down again, and still in the list.                  *)
ShutDown(r) ==
  SyncOnUpdate([r EXCEPT !.st = "SHUTTING_DOWN", !.recv = FALSE,
                         !.send = "send_ready",
                         !.again = @ \/ r.st = "AWAIT_CLEANUP"])

(* Variant with a fault: nothing asks to be told when the socket can be    *)
(* written.                                                                *)
QueuedUnsynced(r) == [r EXCEPT !.size = @ + 1, !.total = @ + 1]

(* u_conn_end_send_buffer, whatever the state of the connection. *)
Queued(r) == SyncOnUpdate([r EXCEPT !.size = @ + 1, !.total = @ + 1])

(* u_conn_sendq_clear *)
Cleared(r) == [r EXCEPT !.size = 0]

(* send_ready after u_sendq_write took n units. *)
Wrote(r, n) == SyncOnUpdate([r EXCEPT !.size = @ - n])

Broken(r) == [r EXCEPT !.broke = TRUE]

(* u_conn_to_json and u_conn_from_json: the restored connection has the    *)
(* state it had, polls for what sync_on_update says, and looks its host    *)
(* name up again.                                                          *)
Restored(r) ==
  SyncOnUpdate([r EXCEPT !.recv = FALSE, !.send = "off", !.listed = 0,
                         !.again = FALSE,
                         !.carried = @ \/ r.st # "ACTIVE"])

Update(c, r) == conn' = [conn EXCEPT ![c] = r] /\ UNCHANGED ub

(* The event loop has the control. *)
Looping == cont = Idle /\ ~ub

-----------------------------------------------------------------------------
(* Events of the event loop. *)
Accept(c) ==
  /\ Looping /\ conn[c].st = "none"
  /\ Update(c, Accepted) /\ UNCHANGED cont

(* connect_end: the outcome of a connect; the owner is told either way.    *)
ConnectEndOk(c) ==
  /\ Looping /\ conn[c].send = "connect_end"
  /\ Update(c, [conn[c] EXCEPT !.st = "ACTIVE"])
  /\ cont' = After(c, "connect_ok")

ConnectEndError(c) ==
  /\ Looping /\ conn[c].send = "connect_end"
  /\ Update(c, Broken(conn[c]))
  /\ cont' = After(c, "connect_error")

(* u_conn_recv, called by the owner's data_ready: a read that returns data *)
(* changes nothing here; one that fails, or finds the end of the stream,   *)
(* tells the owner first.                                                  *)
RecvEof(c) ==
  /\ Looping /\ conn[c].recv /\ conn[c].st = "ACTIVE"
  /\ cont' = After(c, "end_of_stream") /\ UNCHANGED <<conn, ub>>

RecvError(c) ==
  /\ Looping /\ conn[c].recv /\ conn[c].st = "ACTIVE"
  /\ Update(c, Broken(conn[c]))
  /\ cont' = After(c, "fatal_error")

(* send_ready: the socket takes n units, or fails.  fatal_error tells the  *)
(* owner only when the connection is active.                               *)
SendReady(c, n) ==
  /\ Looping /\ conn[c].send = "send_ready"
  /\ Update(c, Wrote(conn[c], n)) /\ UNCHANGED cont

SendError(c) ==
  /\ Looping /\ conn[c].send = "send_ready"
  /\ IF conn[c].st = "ACTIVE"
       THEN /\ Update(c, Broken(conn[c]))
            /\ cont' = After(c, "fatal_error")
       ELSE /\ Update(c, Marked(Broken(conn[c])))
            /\ UNCHANGED cont

(* rdns_callback: the answer, or the time-out, of the host name query. *)
RdnsCallback(c) ==
  /\ Looping /\ conn[c].rdns
  /\ Update(c, [conn[c] EXCEPT !.rdns = FALSE]) /\ UNCHANGED cont

(* What connect_end, u_conn_recv and fatal_error do after the callback. *)
Finished(what, r) ==
  CASE what = "connect_ok"    -> SyncOnUpdate(r)
    [] what = "end_of_stream" -> ShutDown(r)
    [] OTHER                  -> Marked(r)

Return(c) ==
  /\ cont # Idle /\ cont.c = c /\ ~ub
  /\ Update(c, Finished(cont.then, conn[c]))
  /\ cont' = Idle

(* The end of an iteration of u_conn_run: final_cleanup of every listed    *)
(* connection.  A node that was added to the list twice has broken it: the *)
(* walk, or the next one, meets a connection that is freed.                *)
CleanupPass ==
  /\ Looping /\ \E c \in Conns : conn[c].listed > 0
  /\ IF \E c \in Conns : conn[c].listed > 1
       THEN ub' = TRUE /\ UNCHANGED conn
       ELSE /\ conn' = [c \in Conns |->
                          IF conn[c].listed > 0 THEN Free ELSE conn[c]]
            /\ UNCHANGED ub
  /\ UNCHANGED cont

-----------------------------------------------------------------------------
(* Calls the owner makes while its code runs: in a callback, or in a       *)
(* handler of another connection or of a timer.                            *)
Connect(c) ==
  /\ ~ub /\ conn[c].st = "none"
  /\ Update(c, Connected) /\ UNCHANGED cont

Send(c) ==
  /\ ~ub /\ conn[c].st # "none"
  /\ MaxSends > 0 => conn[c].total < MaxSends
  /\ Update(c, Queued(conn[c])) /\ UNCHANGED cont

(* u_conn_shut_down, of any connection there is and at any time.           *)
Close(c) ==
  /\ ~ub /\ conn[c].st # "none"
  /\ Update(c, ShutDown(conn[c])) /\ UNCHANGED cont

(* A send queue over its limit: u_conn_sendq_clear, then u_conn_shut_down. *)
Drop(c) ==
  /\ ~ub /\ conn[c].st # "none"
  /\ Update(c, ShutDown(Cleared(conn[c]))) /\ UNCHANGED cont

(* The process replaces itself.  The connections of users and servers      *)
(* (some set S, and they have been active) are restored; nobody knows the  *)
(* others any more.                                                        *)
Upgrade(S) ==
  /\ Looping /\ \A c \in S : conn[c].st \notin {"none", "CONNECTING"}
  /\ conn' = [c \in Conns |-> IF c \in S THEN Restored(conn[c]) ELSE Free]
  /\ UNCHANGED <<cont, ub>>

-----------------------------------------------------------------------------
Next ==
  \/ \E c \in Conns :
       \/ Accept(c) \/ Connect(c) \/ ConnectEndOk(c) \/ ConnectEndError(c)
       \/ RecvEof(c) \/ RecvError(c)
       \/ \E n \in 1..conn[c].size : SendReady(c, n)
       \/ SendError(c) \/ RdnsCallback(c) \/ Return(c)
       \/ Send(c) \/ Close(c) \/ Drop(c)
  \/ CleanupPass
  \/ \E S \in SUBSET Conns : Upgrade(S)
  \/ (ub /\ UNCHANGED vars)

Spec == Init /\ [][Next]_vars

(* The loop of u_conn_run never stops and its handlers return.  A peer     *)
(* that is sent data takes some of it in the end, or its socket fails: the *)
(* daemon itself has no timer that would end the connection.               *)
Writable(c) ==
  (\E n \in 1..conn[c].size : SendReady(c, n)) \/ SendError(c)

Fairness ==
  /\ WF_vars(CleanupPass)
  /\ \A c \in Conns : WF_vars(Return(c)) /\ SF_vars(Writable(c))

FairSpec == Spec /\ Fairness

-----------------------------------------------------------------------------
TypeOK ==
  /\ conn \in [Conns -> ConnRec]
  /\ cont \in {Idle} \cup [then : Conts, c : Conns]
  /\ ub \in BOOLEAN

(* What the event loop polls a connection for, and when it is listed for   *)
(* cleanup, whatever its owner calls and when: an active one is read from, *)
(* and written to just when data wait; a closing one is written to, and    *)
(* has data left; one that awaits cleanup is polled for nothing and is in  *)
(* the list.  Otherwise output stalls, the loop spins, or a closed         *)
(* connection stays for ever.  It is in the list once, and not before, as  *)
(* long as nobody shuts down what awaits cleanup (again), which conn.c     *)
(* does not prevent and link.c does: see DeletedOnce in Link.  A           *)
(* connection that was closing when the process upgraded (carried) may be  *)
(* polled for nothing and not be in the list.                              *)
Polled(r) ==
  CASE r.st = "none"       -> r = Free
    [] r.st = "CONNECTING" -> ~r.recv /\ r.send = "connect_end" /\ r.listed = 0
    [] r.st = "ACTIVE"     -> /\ r.recv /\ r.listed = 0
                              /\ r.send = IF r.size > 0 THEN "send_ready"
                                                        ELSE "off"
    [] r.st = "SHUTTING_DOWN" ->
         /\ ~r.recv
         /\ ~r.carried => r.send = "send_ready" /\ r.size > 0
         /\ r.send # "connect_end"
         /\ ~r.again => r.listed = 0
    [] r.st = "AWAIT_CLEANUP" ->
         /\ ~r.recv /\ r.send = "off"
         /\ ~r.carried => r.listed > 0
         /\ ~r.again => r.listed < 2

(* In the connect_finish callback the state is already ACTIVE but the      *)
(* write callback is still connect_end.                                    *)
InConnectFinish(c) == cont = After(c, "connect_ok") /\ conn[c].st = "ACTIVE"

PollInterest ==
  \A c \in Conns : ~InConnectFinish(c) => Polled(conn[c])

(* The rest of the inductive invariant: the connection a callback runs on  *)
(* is not freed meanwhile, and the owner is told of an error only after    *)
(* one.                                                                    *)
CallbackState(c) ==
  /\ cont = After(c, "connect_ok") => conn[c].st \notin {"none", "CONNECTING"}
  /\ cont = After(c, "connect_error") => conn[c].st # "none" /\ conn[c].broke
  /\ cont = After(c, "end_of_stream") => conn[c].st \notin {"none", "CONNECTING"}
  /\ cont = After(c, "fatal_error") =>
       conn[c].st \notin {"none", "CONNECTING"} /\ conn[c].broke
  /\ InConnectFinish(c) => conn[c].listed = 0

ContState == \A c \in Conns : CallbackState(c)

IInv == TypeOK /\ PollInterest /\ ContState

(* A connection moves forward only: whatever is called on one that is      *)
(* closing, it is not active again before it is freed.  The one way back   *)
(* is a shutdown of a connection that awaits cleanup, which then shuts     *)
(* down again.                                                             *)
Later(s) ==
  CASE s = "none"          -> {"none", "CONNECTING", "ACTIVE"}
    [] s = "CONNECTING"    -> {"CONNECTING", "ACTIVE", "SHUTTING_DOWN",
                               "AWAIT_CLEANUP", "none"}
    [] s = "ACTIVE"        -> {"ACTIVE", "SHUTTING_DOWN", "AWAIT_CLEANUP", "none"}
    [] s = "SHUTTING_DOWN" -> {"SHUTTING_DOWN", "AWAIT_CLEANUP", "none"}
    [] s = "AWAIT_CLEANUP" -> {"AWAIT_CLEANUP", "none"}

Forward(c) ==
  \/ conn'[c].st \in Later(conn[c].st)
  \/ /\ conn[c].st = "AWAIT_CLEANUP" /\ conn'[c].st = "SHUTTING_DOWN"
     /\ conn'[c].again

LifeCycle == [][\A c \in Conns : Forward(c)]_vars

(* u_conn_shut_down lets the queue drain: a connection whose socket did    *)
(* not fail comes to await cleanup only with an empty queue, so the ERROR  *)
(* or QUIT line queued before the shutdown is written first.               *)
DrainedFirst(c) ==
  conn[c].st # "AWAIT_CLEANUP" /\ conn'[c].st = "AWAIT_CLEANUP"
    => conn'[c].broke \/ conn'[c].size = 0

Drained == [][\A c \in Conns : DrainedFirst(c)]_vars

(* A connection that is shut down is freed in the end, also when it is     *)
(* shut down again; not, if the process upgraded while it was closing.     *)
ClosesInTheEnd ==
  \A c \in Conns : conn[c].st \in {"SHUTTING_DOWN", "AWAIT_CLEANUP"}
                     ~> conn[c].st = "none" \/ conn[c].carried \/ ub

(* An active connection's queue does not stand for ever: it is written, or *)
(* the connection goes away.                                               *)
OutputMoves ==
  \A c \in Conns : conn[c].st = "ACTIVE" /\ conn[c].size > 0
                     ~> conn[c].st # "ACTIVE" \/ conn[c].size = 0 \/ ub
=============================================================================
