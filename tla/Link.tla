-------------------------------- MODULE Link --------------------------------
(***************************************************************************)
(* An IRC link, src/link.c: the input buffer and its dispatch, the         *)
(* identity (user or server) a peer gets by its first commands, and every  *)
(* way a link ends: QUIT, ERROR, KILL, SQUIT, end of stream, socket error, *)
(* flood, a send queue over its limit, an upgrade of the process.          *)
(*                                                                         *)
(* One link is modelled.  The connection under it is a u_conn as module    *)
(* Conn has it; the other links appear as what they do to this one.        *)
(*                                                                         *)
(* The daemon is one thread, but calls nest: a command sends a line, the   *)
(* line overflows the send queue, that ends the link, which sends QUIT     *)
(* lines, and so on, and then each caller goes on with what it had left.   *)
(* todo is what the calls on the stack have left to do, innermost first.   *)
(* The event loop runs when it is empty.                                   *)
(***************************************************************************)
EXTENDS Integers, Sequences, FiniteSets

CONSTANTS
  Kinds,      \* the kinds of lines the peer sends
  IbufCap,    \* IBUFSIZE, in units of input
  MaxRead,    \* bound: units one read returns
  Limit,      \* sendq limit of the class, in lines; 0 is no limit
  MaxLines,   \* bound: lines the peer sends
  MaxOthers   \* bound: what the rest of the network does to this link

ASSUME LinkAssumption ==
  /\ Kinds \subseteq {"nick", "user", "sid", "badsid", "server", "svinfo",
                      "quit", "squit", "upgrade", "cmd"}
  /\ IbufCap \in Nat \ {0} /\ MaxRead \in Nat \ {0}
  /\ Limit \in Nat /\ MaxLines \in Nat /\ MaxOthers \in Nat

VARIABLES
  conn,      \* the u_conn: a C!ConnRec
  cont,      \* what is left of the conn.c handler that called link.c
  link,      \* the u_link
  todo,      \* what is left of the calls on the stack
  others,    \* steps the rest of the network took
  ub         \* the process is lost: freed memory or a null pointer was used,
             \* or the successor of an upgrade did not start

vars == <<conn, cont, link, todo, others, ub>>

C == INSTANCE Conn WITH
  Conns <- {"link"},
  MaxSends <- 0,
  conn  <- [c \in {"link"} |-> conn],
  ub    <- ub,
  cont  <- IF cont = "idle" THEN [then |-> "idle"]
                            ELSE [then |-> cont, c |-> "link"]

(* The u_link.  A unit of ibuf is a line, or, with kind "part", bytes      *)
(* without a line ending; n numbers the lines the peer sends.  pos units   *)
(* of ibuf are dispatched already (ibufskip).  has says which of NICK and  *)
(* USER were seen; block says that conf.link is set.  got, ran, told and   *)
(* late are history: lines received and dispatched, QUIT or SQUIT          *)
(* announcements made, and whether the identity was made on a connection   *)
(* that was closing.                                                       *)
LinkRec ==
  [type : {"NONE", "USER", "SERVER"}, priv : {"none", "live", "freed"},
   wait : BOOLEAN, sentQuit : BOOLEAN, sentPass : BOOLEAN,
   registered : BOOLEAN, has : SUBSET {"nick", "user"}, block : BOOLEAN,
   limit : {0, Limit},
   ibuf : Seq([k : Kinds \cup {"part"}, n : 1..(MaxLines + 1)]),
   pos : Nat, got : 0..MaxLines, ran : 0..MaxLines,
   told : [users : Nat, servers : Nat], late : BOOLEAN]

(* link_create *)
NewLink ==
  [type |-> "NONE", priv |-> "none", wait |-> FALSE, sentQuit |-> FALSE,
   sentPass |-> FALSE, registered |-> FALSE, has |-> {}, block |-> FALSE,
   limit |-> 0, ibuf |-> << >>, pos |-> 0, got |-> 0, ran |-> 0,
   told |-> [users |-> 0, servers |-> 0], late |-> FALSE]

Init ==
  /\ conn = C!Free /\ cont = "idle" /\ link = NewLink
  /\ todo = << >> /\ others = 0 /\ ub = FALSE

-----------------------------------------------------------------------------
(* Sequences of calls. *)
Fatal   == <<"exq", "send", "shut">>    \* u_link_fatal, on_excess_flood
Full    == <<"exq", "drop">>            \* on_sendq_full
Quit    == <<"tell_users", "sendu", "tell_servers", "shut", "destroy">>
Killed  == <<"tell_users", "tell_servers", "sendu", "shut", "destroy">>
Squit   == <<"tell_servers", "shut", "destroy">>
SquitByOther == <<"tell_servers", "send", "shut", "destroy">>

(* Variants with a fault: the flag is not set; the input is not flushed. *)
LookingOnly      == <<"send">>
LookedNoDispatch == <<"send", "unwait">>

Looking == <<"send", "wait">>                     \* on_rdns_start
Looked  == <<"send", "unwait", "dispatch">>       \* on_rdns_finish

Pending == SubSeq(link.ibuf, link.pos + 1, Len(link.ibuf))
Complete(s) == {i \in 1..Len(s) : s[i].k # "part"}
FirstOf(S) == CHOOSE i \in S : \A j \in S : i <= j

Idle == todo = << >> /\ cont = "idle" /\ ~ub
Top(op) == todo # << >> /\ Head(todo) = op /\ ~ub

(* Go on with prog, then with what is left. *)
Call(prog) == todo' = prog \o Tail(todo)

(* Memory that was freed, or a null pointer, is used; or the process ends. *)
Undefined == ub' = TRUE /\ UNCHANGED <<conn, cont, link, todo, others>>

-----------------------------------------------------------------------------
(* The handler of a line of kind k, on l, the link after the line was      *)
(* taken from its buffer; dispatch_lines goes on after it.                 *)
Handle(prog, l) == todo' = prog \o todo /\ link' = l

(* NICK and USER before registration.  The first makes the user            *)
(* (u_repeat_as_user); the second registers it (u_user_try_register), or   *)
(* finds no auth block.  A bad or taken name is refused.                   *)
TryRegister(l, k) ==
  /\ k \in {"nick", "user"} /\ l.type # "SERVER" /\ ~l.registered
  /\ LET u == [l EXCEPT !.type = "USER", !.priv = "live",
                        !.has = @ \cup {k},
                        !.late = @ \/ (l.type = "NONE" /\ conn.st # "ACTIVE")]
     IN  \/ Handle(<<"sendu">>, [u EXCEPT !.has = l.has])
         \/ u.has # {"nick", "user"} /\ Handle(<< >>, u)
         \/ /\ u.has = {"nick", "user"}
            /\ \/ Handle(<<"sendu">>, [u EXCEPT !.registered = TRUE,
                                               !.limit = Limit])
               \/ Handle(Fatal, u)

(* PASS with a SID, first of all lines: good or bad. *)
PassSid(l, k) ==
  /\ l.type = "NONE"
  /\ \/ k = "badsid" /\ Handle(Fatal, l)
     \/ k = "sid" /\ Handle(<< >>, [l EXCEPT !.type = "SERVER", !.priv = "live",
                                            !.late = conn.st # "ACTIVE"])

(* SERVER: registration and burst, or no link block.  SVINFO may find the  *)
(* clocks too far apart.                                                   *)
ServerLine(l, k) ==
  /\ l.type = "SERVER"
  /\ \/ /\ k = "server" /\ ~l.registered
        /\ \/ Handle(IF l.sentPass THEN <<"sendu">> ELSE <<"send", "sendu">>,
                     [l EXCEPT !.registered = TRUE, !.sentPass = TRUE])
           \/ Handle(Fatal, l)
     \/ /\ k = "svinfo" /\ l.registered
        /\ Handle(<< >>, l) \/ Handle(Fatal, l)
     \/ k = "squit" /\ l.registered /\ Handle(Squit, l)

UserLine(l, k) ==
  /\ l.type = "USER" /\ l.registered
  /\ \/ k = "quit" /\ Handle(Quit, l)
     \/ k = "upgrade" /\ Handle(<<"sendu", "exec", "sendu">>, l)

(* Any other line, or one that is out of place: a reply to the peer.  A    *)
(* server is sent nothing for a command it may not use.                    *)
Special(l, k) ==
  \/ k \in {"nick", "user"} /\ l.type # "SERVER" /\ ~l.registered
  \/ k \in {"sid", "badsid"} /\ l.type = "NONE"
  \/ k = "server" /\ l.type = "SERVER" /\ ~l.registered
  \/ k \in {"svinfo", "squit"} /\ l.type = "SERVER" /\ l.registered
  \/ k \in {"quit", "upgrade"} /\ l.type = "USER" /\ l.registered

Reply(l, k) ==
  /\ ~Special(l, k)
  /\ Handle(CASE l.type = "NONE" -> <<"send">>
              [] l.type = "USER" -> <<"sendu">>
              [] OTHER -> IF l.registered /\ k = "cmd" THEN <<"sendu">> ELSE << >>,
            l)

(* One turn of the loop of dispatch_lines.  fill_source and the handler    *)
(* read the user or server of the link.                                    *)
Line ==
  /\ Top("dispatch") /\ ~link.wait /\ Complete(Pending) # {}
  /\ LET i == FirstOf(Complete(Pending))
         k == Pending[i].k
         l == [link EXCEPT !.pos = @ + i, !.ran = @ + 1]
     IN  IF link.priv = "freed"
           THEN Undefined
           ELSE /\ \/ TryRegister(l, k) \/ PassSid(l, k) \/ ServerLine(l, k)
                   \/ UserLine(l, k) \/ Reply(l, k)
                /\ UNCHANGED <<conn, cont, others, ub>>

(* Variant with a fault: ibufskip is not reset. *)
CompactOnly ==
  /\ Top("dispatch") /\ (link.wait \/ Complete(Pending) = {})
  /\ link' = [link EXCEPT !.ibuf = Pending]
  /\ Call(<< >>) /\ UNCHANGED <<conn, cont, others, ub>>

(* The loop ends: the rest of the buffer moves to its start. *)
Compact ==
  /\ Top("dispatch") /\ (link.wait \/ Complete(Pending) = {})
  /\ link' = [link EXCEPT !.ibuf = Pending, !.pos = 0]
  /\ Call(<< >>) /\ UNCHANGED <<conn, cont, others, ub>>

-----------------------------------------------------------------------------
(* The other calls. *)

(* exceptional_quit.  A server is one of those told of its own SQUIT.      *)
ExceptionalQuit ==
  /\ Top("exq")
  /\ link' = [link EXCEPT !.sentQuit = TRUE]
  /\ Call(CASE link.type = "USER" /\ ~link.sentQuit ->
                   <<"tell_users", "tell_servers", "destroy">>
            [] link.type = "SERVER" /\ ~link.sentQuit ->
                   <<"tell_servers", "send", "destroy">>
            [] OTHER -> << >>)
  /\ UNCHANGED <<conn, cont, others, ub>>

(* u_link_vf; "sendu" first reads the user or server of the link. *)
SendLine ==
  /\ Top("send") \/ Top("sendu")
  /\ IF Top("sendu") /\ link.priv = "freed"
       THEN Undefined
       ELSE /\ IF link.limit > 0 /\ conn.size + 1 > link.limit
                 THEN Call(Full) /\ UNCHANGED conn
                 ELSE Call(<< >>) /\ conn' = C!Queued(conn)
            /\ UNCHANGED <<cont, link, others, ub>>

(* u_sendto_visible and u_sendto_servers with the last words of the link.  *)
(* A receiver whose queue is full quits in turn, and its own QUIT line may *)
(* be for this link.                                                       *)
Tell ==
  /\ Top("tell_users") \/ Top("tell_servers")
  /\ IF link.priv = "freed"
       THEN Undefined
       ELSE /\ link' = IF Top("tell_users")
                         THEN [link EXCEPT !.told.users = @ + 1]
                         ELSE [link EXCEPT !.told.servers = @ + 1]
            /\ \/ Call(<< >>) /\ UNCHANGED others
               \/ /\ others < MaxOthers /\ others' = others + 1
                  /\ Call(<<"send">>)
            /\ UNCHANGED <<conn, cont, ub>>

(* u_user_destroy or u_server_destroy; link->priv still points there. *)
Destroy ==
  /\ Top("destroy")
  /\ IF link.priv = "freed"
       THEN Undefined
       ELSE /\ link' = [link EXCEPT !.priv = "freed"]
            /\ Call(<< >>) /\ UNCHANGED <<conn, cont, others, ub>>

(* u_conn_shut_down, after u_conn_sendq_clear for a full send queue. *)
CloseConn ==
  /\ Top("shut") \/ Top("drop")
  /\ conn' = C!ShutDown(IF Top("drop") THEN C!Cleared(conn) ELSE conn)
  /\ Call(<< >>) /\ UNCHANGED <<cont, link, others, ub>>

Flag ==
  /\ Top("wait") \/ Top("unwait")
  /\ link' = [link EXCEPT !.wait = Top("wait")]
  /\ Call(<< >>) /\ UNCHANGED <<conn, cont, others, ub>>

(* Variant with a fault: ibufskip is ignored. *)
RestartWhole ==
  /\ link.priv = "live" /\ cont' = "idle"
  /\ conn' = C!Restored(conn) /\ link' = [link EXCEPT !.pos = 0]
  /\ todo' = <<"dispatch">> /\ UNCHANGED <<others, ub>>

(* The process replaces itself: dump_user and dump_server write the links  *)
(* of live users and servers, without what was dispatched; the successor   *)
(* restores them, asks for host names again and flushes the input.  Other  *)
(* links are lost, and so are the calls on the stack.  The dump reads the  *)
(* link block of a server, which only an outgoing link has; the successor  *)
(* refuses an input buffer that is full.                                   *)
Unsavable ==
  link.priv = "live" /\ \/ link.type = "SERVER" /\ ~link.block
                        \/ Len(Pending) = IbufCap

(* Variant with a fault: every link is dumped. *)
RestartEvery ==
  IF Unsavable
  THEN Undefined
  ELSE
  /\ cont' = "idle" /\ conn' = C!Restored(conn)
  /\ link' = [link EXCEPT !.ibuf = Pending, !.pos = 0]
  /\ todo' = IF conn.rdns THEN Looking \o <<"dispatch">> ELSE <<"dispatch">>
  /\ UNCHANGED <<others, ub>>

Restart ==
  IF Unsavable
  THEN Undefined
  ELSE
  /\ cont' = "idle"
  /\ IF link.priv = "live"
       THEN /\ conn' = C!Restored(conn)
            /\ link' = [link EXCEPT !.ibuf = Pending, !.pos = 0]
            /\ todo' = IF conn.rdns THEN Looking \o <<"dispatch">>
                                    ELSE <<"dispatch">>
       ELSE conn' = C!Free /\ link' = NewLink /\ todo' = << >>
  /\ UNCHANGED <<others, ub>>

(* begin_upgrade: execvp, or an error. *)
Exec ==
  /\ Top("exec")
  /\ \/ Restart
     \/ Call(<< >>) /\ UNCHANGED <<conn, cont, link, others, ub>>

Run ==
  \/ Line \/ Compact \/ ExceptionalQuit \/ SendLine \/ Tell \/ Destroy
  \/ CloseConn \/ Flag \/ Exec

-----------------------------------------------------------------------------
(* Events of the loop, and the callbacks of u_link_conn_ctx they make.     *)
Event(c, prog, then) ==
  /\ Idle /\ conn' = c /\ todo' = prog /\ cont' = then
  /\ UNCHANGED <<others, ub>>

Accept ==
  /\ conn.st = "none" /\ Event(C!Accepted, Looking, "idle") /\ link' = NewLink

Connect ==
  /\ conn.st = "none" /\ Event(C!Connected, Looking, "idle")
  /\ link' = [NewLink EXCEPT !.block = TRUE]

(* on_connect_finish starts the burst whatever the outcome. *)
ConnectEnd ==
  /\ conn.send = "connect_end"
  /\ \/ Event([conn EXCEPT !.st = "ACTIVE"],
              IF link.sentPass THEN << >> ELSE <<"send">>, "connect_ok")
     \/ Event(C!Broken(conn),
              IF link.sentPass THEN << >> ELSE <<"send">>, "connect_error")
  /\ link' = [link EXCEPT !.sentPass = TRUE]

Readable == conn.recv /\ conn.st = "ACTIVE" /\ Len(link.ibuf) < IbufCap

(* The lines the peer may send next, numbered. *)
Reads ==
  {s \in UNION {[1..m -> Kinds \cup {"part"}] : m \in 1..MaxRead} :
     /\ Len(link.ibuf) + Len(s) <= IbufCap
     /\ link.got + Cardinality({i \in 1..Len(s) : s[i] # "part"}) <= MaxLines}

Numbered(s) ==
  [i \in 1..Len(s) |->
     [k |-> s[i],
      n |-> link.got + 1 + Cardinality({j \in 1..(i - 1) : s[j] # "part"})]]

(* on_data_ready *)
RecvData(s) ==
  /\ Readable /\ Event(conn, <<"dispatch">>, "idle")
  /\ link' = [link EXCEPT !.ibuf = @ \o Numbered(s),
                          !.got = @ + Cardinality(Complete(Numbered(s)))]

ExcessFlood ==
  /\ conn.recv /\ conn.st = "ACTIVE" /\ Len(link.ibuf) = IbufCap
  /\ Event(conn, Fatal, "idle") /\ UNCHANGED link

(* Variant with a fault: the network is not told. *)
RecvEofSilent ==
  /\ Readable /\ Event(conn, << >>, "end_of_stream") /\ UNCHANGED link

RecvEof ==
  /\ Readable /\ Event(conn, <<"exq">>, "end_of_stream") /\ UNCHANGED link

RecvError ==
  /\ Readable /\ Event(C!Broken(conn), <<"exq">>, "fatal_error")
  /\ UNCHANGED link

SendReady(n) ==
  /\ conn.send = "send_ready" /\ Event(C!Wrote(conn, n), << >>, "idle")
  /\ UNCHANGED link

SendError ==
  /\ conn.send = "send_ready"
  /\ IF conn.st = "ACTIVE"
       THEN Event(C!Broken(conn), <<"exq">>, "fatal_error")
       ELSE Event(C!Marked(C!Broken(conn)), << >>, "idle")
  /\ UNCHANGED link

RdnsCallback ==
  /\ conn.rdns /\ Event([conn EXCEPT !.rdns = FALSE], Looked, "idle")
  /\ UNCHANGED link

(* conn.c goes on after link.c returned. *)
Return ==
  /\ todo = << >> /\ cont # "idle" /\ ~ub
  /\ conn' = C!Finished(cont, conn) /\ cont' = "idle"
  /\ UNCHANGED <<link, todo, others, ub>>

(* Variant with a fault: a connection with data is kept. *)
CleanupIfEmpty ==
  /\ Idle /\ conn.listed > 0 /\ conn.size = 0
  /\ Event(C!Free, << >>, "idle") /\ link' = NewLink

(* final_cleanup and on_cleanup.  A connection that is in the list twice   *)
(* is freed twice.                                                         *)
Cleanup ==
  /\ Idle /\ conn.listed > 0
  /\ IF conn.listed > 1
       THEN Undefined
       ELSE Event(C!Free, << >>, "idle") /\ link' = NewLink

(* What the handlers of other links do to this one: send it a line, KILL   *)
(* its user, SQUIT its server, take the nick of a user who is not          *)
(* registered yet (u_user_try_override).                                   *)
Others ==
  /\ others < MaxOthers /\ link.priv = "live" /\ Idle /\ others' = others + 1
  /\ \/ /\ link.registered \/ link.type = "SERVER"
        /\ todo' = <<"send">> /\ UNCHANGED link
     \/ /\ link.type = "USER" /\ link.registered
        /\ todo' = Killed /\ UNCHANGED link
     \/ link.type = "SERVER" /\ todo' = SquitByOther /\ UNCHANGED link
     \/ /\ link.type = "USER" /\ ~link.registered /\ "nick" \in link.has
        /\ todo' = <<"sendu">>
        /\ link' = [link EXCEPT !.has = @ \ {"nick"}]
  /\ UNCHANGED <<conn, cont, ub>>

Upgrade == Idle /\ conn.st # "none" /\ Restart

Next ==
  \/ Run \/ Return \/ Cleanup
  \/ Accept \/ Connect \/ ConnectEnd
  \/ (\E s \in Reads : RecvData(s)) \/ ExcessFlood \/ RecvEof \/ RecvError
  \/ (\E n \in 1..conn.size : SendReady(n)) \/ SendError \/ RdnsCallback
  \/ Others \/ Upgrade
  \/ (ub /\ UNCHANGED vars)

Spec == Init /\ [][Next]_vars

(* Calls return, the event loop runs, peers read or their sockets fail,    *)
(* and the resolver answers or times out.                                  *)
Writable == (\E n \in 1..conn.size : SendReady(n)) \/ SendError

Fairness ==
  /\ WF_vars(Run) /\ WF_vars(Return) /\ WF_vars(Cleanup)
  /\ WF_vars(RdnsCallback) /\ SF_vars(Writable)

FairSpec == Spec /\ Fairness

-----------------------------------------------------------------------------
TypeOK ==
  /\ conn \in C!ConnRec /\ link \in LinkRec
  /\ cont \in C!Conts \cup {"idle"}
  /\ todo \in Seq({"dispatch", "exq", "send", "sendu", "tell_users",
                   "tell_servers", "shut", "drop", "destroy", "wait",
                   "unwait", "exec"})
  /\ others \in 0..MaxOthers /\ ub \in BOOLEAN

(* Every line the peer sent is in the buffer or was dispatched, once and   *)
(* in order: through lines that arrive in pieces, waits for the host name, *)
(* commands that close the link, and an upgrade in the middle of the loop  *)
(* (ibufskip keeps the UPGRADE line itself from running again).            *)
LinesExact ==
  /\ link.got = link.ran + Cardinality(Complete(Pending))
  /\ \A i \in Complete(Pending) :
       Pending[i].n = link.ran + Cardinality({j \in Complete(Pending) : j <= i})

(* ibufskip stays within the buffer. *)
SkipInBuffer == link.pos <= Len(link.ibuf)

(* While the host name is looked up, the lines wait, or will be made to    *)
(* before the calls on the stack dispatch any.                             *)
NamePending ==
  conn.rdns =>
    /\ \A i \in 1..Len(todo) : todo[i] # "unwait"
    /\ \/ link.wait
       \/ \E j \in 1..Len(todo) :
            todo[j] = "wait" /\ \A i \in 1..(j - 1) : todo[i] # "dispatch"

IInv == TypeOK /\ LinesExact /\ SkipInBuffer /\ NamePending

(* How the calls that are left fit the connection: conn.c and link.c work  *)
(* on a connection that is there; nothing is read and no identity made     *)
(* before it is; and what conn.c calls neither dispatches nor upgrades.    *)
CallsFit ==
  /\ conn.st = "none" =>
       /\ todo = << >> /\ cont = "idle" /\ link.priv # "live"
       /\ ~conn.rdns /\ conn.send # "connect_end"
  /\ conn.st = "CONNECTING" => link.ibuf = << >> /\ link.priv # "live"
  /\ cont # "idle" => \A i \in 1..Len(todo) : todo[i] \notin {"dispatch", "exec"}

(* The loop of dispatch_lines is the outermost call; a process that        *)
(* replaces itself does so in a handler of that loop, with one reply left  *)
(* to send.                                                                *)
LoopLast ==
  \A i \in 1..Len(todo) :
    /\ todo[i] = "dispatch" => i = Len(todo)
    /\ todo[i] = "exec" => /\ i = Len(todo) - 2
                           /\ todo[i + 1] = "sendu" /\ todo[i + 2] = "dispatch"

(* A connect that failed is not active; one that may end has not.          *)
ConnFits ==
  /\ cont = "connect_error" => conn.st # "ACTIVE"
  /\ conn.send = "connect_end" =>
       conn.st = "CONNECTING" \/ (cont = "connect_ok" /\ conn.st = "ACTIVE")
  /\ conn.st \in {"CONNECTING", "ACTIVE"} => conn.listed = 0

(* How often op is among the calls that are left. *)
Left(op) == Cardinality({i \in 1..Len(todo) : todo[i] = op})

(* The link comes to its end: the connection is not active any more, or    *)
(* will not be when the calls on the stack have returned.                  *)
Over ==
  conn.st # "ACTIVE" \/ Left("shut") + Left("drop") > 0
    \/ cont \in {"end_of_stream", "fatal_error"}

(* The identity is destroyed, or will be by the calls that are left.       *)
Leaving == link.priv = "freed" \/ Left("destroy") > 0

(* How often it is: a call of exceptional_quit that finds its flag clear   *)
(* will destroy it too.  Twice loses the process.                          *)
Ends ==
  Left("destroy") + (IF link.priv = "freed" THEN 1 ELSE 0)
    + (IF ~link.sentQuit /\ link.type # "NONE" /\ Left("exq") > 0 THEN 1 ELSE 0)

(* How the calls that are left fit the identity: it is there as long as    *)
(* the link is not over, unless it was made later; and if it ends once,    *)
(* the announcements made and those left are one, from the moment its      *)
(* destruction is due.                                                     *)
IdentityFits ==
  /\ link.type = "NONE" <=> link.priv = "none"
  /\ link.limit > 0 \/ Left("destroy") > 0 => link.priv # "none"
  /\ link.sentQuit \/ Left("exq") > 0 => Over
  /\ Over /\ link.priv = "live" /\ ~link.late => Ends > 0
  /\ conn.st = "CONNECTING" =>
       link.priv = "none" /\ ~link.sentQuit /\ Left("exq") = 0
  /\ Ends <= 1 =>
       /\ link.told.users + Left("tell_users") =
            IF link.type = "USER" /\ Leaving THEN 1 ELSE 0
       /\ link.told.servers + Left("tell_servers") = IF Leaving THEN 1 ELSE 0

Parting == ~ub => CallsFit /\ LoopLast /\ ConnFits /\ IdentityFits

(* No line is dispatched while the host name is looked up: a user is       *)
(* registered, and an auth block chosen for it, only with its host known.  *)
NoLineBeforeHostName ==
  [][link'.ran > link.ran => ~conn.rdns]_vars

(* When a link is freed, its user or server is gone and the network was    *)
(* told exactly once, whichever calls met: a QUIT, KILL or SQUIT that      *)
(* overflows the send queue, lines dispatched after the close, an upgrade. *)
(* (A process that destroys an identity twice is lost before it comes to   *)
(* that, NoQuitForKill shows one; identities made on a connection that was *)
(* closing are apart, see OwnerOutlivesLink.)                              *)
SaidGoodbye ==
  CASE link.type = "NONE"   -> link.told = [users |-> 0, servers |-> 0]
    [] link.type = "USER"   -> link.priv = "freed" /\
                               link.told = [users |-> 1, servers |-> 1]
    [] link.type = "SERVER" -> link.priv = "freed" /\
                               link.told = [users |-> 0, servers |-> 1]

Goodbye ==
  [][conn.st # "none" /\ conn'.st = "none" /\ ~link.late => SaidGoodbye]_vars

(* Lines that arrived are dispatched in the end, or the connection stops   *)
(* being active.                                                           *)
LinesServed ==
  conn.st = "ACTIVE" /\ link.got > link.ran
    ~> link.got = link.ran \/ conn.st # "ACTIVE" \/ ub

(* A link that is closed is freed in the end, whatever its owner queues on *)
(* it meanwhile, and across an upgrade.                                    *)
ClosedIsFreed ==
  conn.st \in {"SHUTTING_DOWN", "AWAIT_CLEANUP"}
    ~> conn.st = "none" \/ ub \/ link.late

(* link.c and conn.c together are a connection as module Conn has it: every *)
(* step, up to the one that loses the process, is a step of that module or *)
(* leaves the connection alone.                                            *)
ImplementsConn == C!Init /\ [][~ub' => C!Next]_(C!vars)

-----------------------------------------------------------------------------
(* What comments of the code and its documents say and the code does not   *)
(* keep; TLC finds each violated (MCLinkDeleted.cfg and the others).       *)

(* conn.h:49, of a connection that awaits cleanup: "The connection is      *)
(* unusable and will be deleted soon."  It is listed for that once.        *)
DeletedOnce == conn.listed <= 1

(* The same comment: it is deleted, also when the process upgrades.        *)
DeletedSoon == conn.st = "AWAIT_CLEANUP" ~> conn.st # "AWAIT_CLEANUP" \/ ub

(* user.h:69, of the link of a user: "never null, except when shutting     *)
(* down".  A link is not freed before its user.                            *)
OwnerOutlivesLink ==
  [][conn.st # "none" /\ conn'.st = "none" /\ link.type = "USER"
       => link.priv # "live"]_vars

(* ts6-summary.txt:65, of QUIT: "don't send for KILL".  In a run without   *)
(* QUIT lines of the peer, servers are told once that a user has left.     *)
NoQuitForKill == link.told.servers <= 1
=============================================================================
