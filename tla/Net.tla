-------------------------------- MODULE Net --------------------------------
(***************************************************************************)
(* A network of servers: what each of them believes of the servers, the    *)
(* users and a channel, and the lines they tell each other.                *)
(*                                                                         *)
(* From src/src/server.c, src/src/user.c and src/modules/core (pass,       *)
(* ts6init, sid, euid, nick, user, quit, kill, squit, join, part, sjoin    *)
(* and the TMODE part of mode).  A server handles one line at a time; the  *)
(* lines of a link arrive in order, and some of the last ones get lost     *)
(* when the connection breaks.  Lines that a server had still in its input *)
(* buffer when it closed the link are not handled (module Link has them).  *)
(*                                                                         *)
(* Of a channel there is one flag, the status of operator and the          *)
(* timestamp: module Chan has the rest of it, for one server.              *)
(***************************************************************************)
EXTENDS Integers, FiniteSets, SequencesExt

CONSTANTS Servers, Users, Nicks, None,
          Home,       \* the server of each user
          FirstNick,  \* the nick of those who are registered at the start
          Lines,      \* the pairs << s, t >> where s may connect to t
          Pairs,      \* the pairs that are linked at the start
          ByName,     \* the servers in the order of servers_by_name
          MaxTime,    \* bound on the clock
          MaxOps,     \* bound on what users and operators do
          MaxBreaks   \* bound on connections that break

ASSUME NetAssumption ==
    /\ Home \in [Users -> Servers] /\ FirstNick \in [Users -> Nicks \cup {None}]
    /\ Pairs \subseteq Lines /\ Lines \subseteq Servers \X Servers
    /\ \A p, q \in Pairs : p # q => Range(p) \cap Range(q) = {}
    /\ ByName \in Seq(Servers) /\ Range(ByName) = Servers /\ IsFiniteSet(Users) /\ None \notin Servers \cup Users \cup Nicks
    /\ MaxTime \in Nat \ {0} /\ MaxOps \in Nat /\ MaxBreaks \in Nat

\* S is what is left with t of the network without the line of s and t.
Splits(s, t, S) ==
    /\ t \in S /\ s \notin S
    /\ \A p \in Lines : Range(p) = {s, t} \/ (p[1] \in S <=> p[2] \in S)

\* The lines are a tree: two ways between two servers are not in the model.
ASSUME TreeAssumption == \A p \in Lines : \E S \in SUBSET Servers : Splits(p[1], p[2], S)

VARIABLES
    srv,      \* the tables of every server
    wire,     \* lines under way from a server to another
    link,     \* what a server has for a link to another
    ready,    \* local users whose USER and host name are there
    reg,      \* registered users
    gone,     \* users who left, wherever that is known
    alive,    \* servers that run
    now, ops, breaks,
    lost,     \* a line with uninitialized text was sent
    crossed   \* history: a SQUIT or KILL met a newer link to its target

vars == << srv, wire, link, ready, reg, gone, alive, now, ops, breaks, lost, crossed >>

NoChan == [ts |-> 0, mod |-> FALSE, members |-> {}, opers |-> {}, there |-> FALSE]
Times == 1..MaxTime

\* me, servers_by_sid, users_by_uid, users_by_nick, all_chans
Tables ==
    [parent : [Servers -> Servers \cup {None}], here : SUBSET Users,
     nick : [Users -> Nicks \cup {None}], byNick : [Nicks -> Users \cup {None}],
     chan : [ts : 0..MaxTime, mod : BOOLEAN, members : SUBSET Users,
             opers : SUBSET Users, there : BOOLEAN]]

PASS == [t |-> "PASS"]
SERVER == [t |-> "SERVER"]
EOF == [t |-> "EOF"]
SID(src, sid) == [t |-> "SID", src |-> src, sid |-> sid]
EUID(u, n) == [t |-> "EUID", u |-> u, n |-> n]
SQUIT(sv) == [t |-> "SQUIT", sid |-> sv]
NICK(u, n) == [t |-> "NICK", u |-> u, n |-> n]
QUIT(u) == [t |-> "QUIT", u |-> u]
KILL(u) == [t |-> "KILL", u |-> u]
JOIN(u) == [t |-> "JOIN", u |-> u]
PART(u) == [t |-> "PART", u |-> u]
TMODE(ts, on, who) == [t |-> "TMODE", ts |-> ts, on |-> on, who |-> who]
SJOIN(c, who) == [t |-> "SJOIN", ts |-> c.ts, mod |-> c.mod, who |-> who,
                  opers |-> c.opers \cap who]

ModeLines == [t : {"TMODE"}, ts : Times, on : BOOLEAN, who : Users \cup {None}]
ChanLines ==
    [t : {"SJOIN"}, ts : Times, mod : BOOLEAN, who : SUBSET Users, opers : SUBSET Users]

Messages ==
    {PASS, SERVER, EOF} \cup ModeLines \cup ChanLines
    \cup {SID(s, t) : s \in Servers, t \in Servers} \cup {SQUIT(s) : s \in Servers}
    \cup {EUID(u, n) : u \in Users, n \in Nicks} \cup {NICK(u, n) : u \in Users, n \in Nicks}
    \cup {QUIT(u) : u \in Users} \cup {KILL(u) : u \in Users}
    \cup {JOIN(u) : u \in Users} \cup {PART(u) : u \in Users}

-----------------------------------------------------------------------------
(***************************************************************************)
(* The tables of one server.                                               *)
(***************************************************************************)
Knows(st, s) == st.parent[s] # None
Peers(s, st) == {p \in Servers \ {s} : st.parent[p] = s}
LocalTo(s) == {u \in Users : Home[u] = s}

\* u_user_by_nick: a local user who is not registered does not count.
Taken(s, n) ==
    LET u == srv[s].byNick[n] IN u # None /\ (Home[u] # s \/ u \in reg)

\* u_user_set_nick; the table keeps the entry that another user has.
SetNick(st, u, n) ==
    LET table == IF st.nick[u] = None THEN st.byNick
                 ELSE [st.byNick EXCEPT ![st.nick[u]] = None]
    IN  [st EXCEPT !.nick[u] = n,
                   !.byNick = IF table[n] = None THEN [table EXCEPT ![n] = u] ELSE table]

\* u_user_try_override, for the user who has nick n
Override(st, s, n) ==
    LET u == st.byNick[n]
    IN  IF u # None /\ Home[u] = s /\ u \notin reg
        THEN [st EXCEPT !.nick[u] = None, !.byNick[n] = None]
        ELSE st

\* u_chan_user_add, u_chan_user_del for all of "us", with u_chan_drop.  The
\* first one has a fault: an operator who leaves stays one.
ChanAdd(st, us) == [st EXCEPT !.chan.members = @ \cup us]
ChanDelKeepsStatus(st, us) ==
    LET left == st.chan.members \ us
    IN  IF st.chan.members \cap us = {} THEN st
        ELSE [st EXCEPT !.chan = IF left = {} THEN NoChan ELSE [@ EXCEPT !.members = left]]

ChanDel(st, us) ==
    LET left == st.chan.members \ us
    IN  IF st.chan.members \cap us = {} THEN st
        ELSE [st EXCEPT !.chan = IF left = {} THEN NoChan
                                 ELSE [st.chan EXCEPT !.members = left,
                                                      !.opers = st.chan.opers \ us]]

\* Variant of Destroy with a fault: the nick is not deleted.
DestroyKeepsNick(st, us) ==
    [ChanDel(st, us) EXCEPT !.here = @ \ us,
                            !.nick = [u \in Users |-> IF u \in us THEN None ELSE @[u]]]

\* u_user_destroy of all of "us"; the nick is deleted whoever has the entry.
Destroy(st, us) ==
    LET nicks == {st.nick[u] : u \in us}
    IN  [ChanDel(st, us) EXCEPT
            !.here = @ \ us,
            !.nick = [u \in Users |-> IF u \in us THEN None ELSE @[u]],
            !.byNick = [n \in Nicks |-> IF n \in nicks THEN None ELSE @[n]]]

\* sv and the servers behind it: the smallest set that has those of its own
Below(st, sv) ==
    LET closed == {S \in SUBSET Servers :
                      sv \in S /\ \A t \in Servers : st.parent[t] \in S => t \in S}
    IN  {t \in Servers : \A S \in closed : t \in S}

\* Variant of ServerDestroy with a fault: the servers behind it stay.
ServerDestroyOne(st, sv) ==
    [Destroy(st, {u \in st.here : Home[u] = sv}) EXCEPT !.parent[sv] = None]

\* u_server_destroy
ServerDestroy(st, sv) ==
    LET out == Below(st, sv)
    IN  [Destroy(st, {u \in st.here : Home[u] \in out}) EXCEPT
            !.parent = [t \in Servers |-> IF t \in out THEN None ELSE @[t]]]

-----------------------------------------------------------------------------
(***************************************************************************)
(* Lines.  w is what is under way before the call.                         *)
(***************************************************************************)
\* Lines queued by s for t; a peer that closed does not read them.
Queue(w, s, t, lines) ==
    IF link[t][s] = "no" THEN w ELSE [w EXCEPT ![<< s, t >>] = @ \o lines]

\* u_sendto_servers; a peer is told from its PASS on.
Tell(w, s, st, exclude, m) ==
    [x \in DOMAIN w |->
        IF x[1] = s /\ x[2] \in Peers(s, st) \ {exclude} /\ link[x[2]][s] # "no"
        THEN Append(w[x], m) ELSE w[x]]

\* A connection is closed by s: what t sends is not read any more, and t reads
\* the rest of what it was sent.  A peer that closed too reads nothing.
Closed(w, s, t) ==
    [w EXCEPT ![<< t, s >>] = << >>,
              ![<< s, t >>] = IF link[t][s] = "no" THEN << >> ELSE Append(@, EOF)]

Become(s, st) == srv' = [srv EXCEPT ![s] = st]
Op == ops < MaxOps /\ ops' = ops + 1 /\ UNCHANGED breaks
Still == UNCHANGED << ops, breaks >>
SameUsers == UNCHANGED << ready, reg, gone, now >>
SameLinks == UNCHANGED << link, alive, lost, crossed >>

-----------------------------------------------------------------------------
(***************************************************************************)
(* Users.                                                                  *)
(***************************************************************************)
\* u_user_try_register and u_user_welcome, after NICK or USER
TryRegister(s, st, u, isReady) ==
    IF isReady /\ st.nick[u] # None
    THEN /\ reg' = reg \cup {u}
         /\ wire' = Tell(wire, s, st, None, EUID(u, st.nick[u]))
    ELSE UNCHANGED << reg, wire >>

\* c_uu_nick, and u_repeat_as_user for the first line
FirstNickLine(u, n) ==
    LET s == Home[u]
        st == SetNick([srv[s] EXCEPT !.here = @ \cup {u}], u, n)
    IN  /\ u \notin reg \cup gone /\ s \in alive /\ Op
        /\ ~Taken(s, n)
        /\ Become(s, st) /\ TryRegister(s, st, u, u \in ready)
        /\ UNCHANGED << ready, gone, now >> /\ SameLinks

\* c_uu_user; the host name is there by then, and an auth block for the user.
UserLine(u) ==
    LET s == Home[u]
        st == [srv[s] EXCEPT !.here = @ \cup {u}]
    IN  /\ u \notin reg \cup gone \cup ready /\ s \in alive /\ Op
        /\ ready' = ready \cup {u}
        /\ Become(s, st) /\ TryRegister(s, st, u, TRUE)
        /\ UNCHANGED << gone, now >> /\ SameLinks

\* A registered user who is there
Active(u) == u \in reg \ gone /\ Home[u] \in alive

\* c_lu_nick
Nick(u, n) ==
    LET s == Home[u]
    IN  /\ Active(u) /\ ~Taken(s, n) /\ srv[s].nick[u] # n /\ Op
        /\ Become(s, SetNick(srv[s], u, n))
        /\ wire' = Tell(wire, s, srv[s], None, NICK(u, n))
        /\ SameUsers /\ SameLinks

\* c_u_quit, or the end of the link before registration
Quit(u) ==
    LET s == Home[u]
    IN  /\ u \in srv[s].here /\ s \in alive /\ Op
        /\ gone' = gone \cup {u}
        /\ Become(s, Destroy(srv[s], {u}))
        /\ wire' = Tell(wire, s, srv[s], None, QUIT(u))
        /\ UNCHANGED << ready, reg, now >> /\ SameLinks

\* c_a_kill of an operator of s; "from" is the link it came by.
KillAt(s, w, from, u) ==
    /\ Become(s, Destroy(srv[s], {u}))
    /\ wire' = Tell(w, s, srv[s], from, KILL(u))
    /\ gone' = IF Home[u] = s THEN gone \cup {u} ELSE gone
    /\ UNCHANGED << ready, reg, now, link, alive, lost >>

Kill(s, u) ==
    /\ s \in alive /\ u \in reg /\ u \in srv[s].here /\ Op
    /\ KillAt(s, wire, None, u) /\ UNCHANGED crossed

\* try_local_join_chan of a channel without modes that keep users out
Join(u) ==
    LET s == Home[u]
        c == srv[s].chan
        st == ChanAdd(srv[s], {u})
    IN  /\ Active(u) /\ u \notin c.members /\ Op
        /\ IF c.there
           THEN /\ Become(s, st)
                /\ wire' = Tell(wire, s, st, None, IF c.members = {} THEN SJOIN(c, {u})
                                                   ELSE JOIN(u))
                /\ UNCHANGED now
           ELSE \E ts \in {t \in Times : t >= now} :
                    LET new == [ts |-> ts, mod |-> FALSE, members |-> {u},
                                opers |-> {u}, there |-> TRUE]
                    IN  /\ now' = ts
                        /\ Become(s, [srv[s] EXCEPT !.chan = new])
                        /\ wire' = Tell(wire, s, srv[s], None, SJOIN(new, {u}))
        /\ UNCHANGED << ready, reg, gone >> /\ SameLinks

\* c_u_part of a local user
Part(u) ==
    LET s == Home[u]
    IN  /\ Active(u) /\ u \in srv[s].chan.members /\ Op
        /\ Become(s, ChanDel(srv[s], {u}))
        /\ wire' = Tell(wire, s, srv[s], None, PART(u))
        /\ SameUsers /\ SameLinks

\* What a mode change makes of a channel: the flag, or the status of "who".
Changed(c, on, who) ==
    IF who = None THEN [c EXCEPT !.mod = on]
    ELSE IF who \notin c.members THEN c
    ELSE [c EXCEPT !.opers = IF on THEN @ \cup {who} ELSE @ \ {who}]

\* c_a_mode of a local operator of the channel
Mode(u, on, who) ==
    LET s == Home[u]
        c == srv[s].chan
        new == Changed(c, on, who)
    IN  /\ Active(u) /\ u \in c.opers /\ new # c /\ Op
        /\ Become(s, [srv[s] EXCEPT !.chan = new])
        /\ wire' = Tell(wire, s, srv[s], None, TMODE(c.ts, on, who))
        /\ SameUsers /\ SameLinks

-----------------------------------------------------------------------------
(***************************************************************************)
(* Links between servers.                                                  *)
(***************************************************************************)
\* u_link_connect and u_server_burst_1: PASS, CAPAB and SERVER are sent.
Connect(s, t) ==
    /\ << s, t >> \in Lines /\ {s, t} \subseteq alive
    /\ link[s][t] = "no" /\ link[t][s] = "no"
    /\ link' = [link EXCEPT ![s][t] = "out", ![t][s] = "in"]
    /\ wire' = [wire EXCEPT ![<< s, t >>] = << PASS, SERVER >>]
    /\ UNCHANGED << srv, alive, lost, crossed >> /\ SameUsers /\ Still

\* exceptional_quit and what closes the connection
LinkEnd(s, t, w) ==
    LET st == IF Knows(srv[s], t) THEN ServerDestroy(srv[s], t) ELSE srv[s]
        told == IF Knows(srv[s], t) THEN Tell(w, s, srv[s], None, SQUIT(t)) ELSE w
    IN  /\ Become(s, st)
        /\ wire' = Closed(told, s, t)
        /\ link' = [link EXCEPT ![s][t] = "no"]
        /\ SameUsers /\ UNCHANGED << alive, lost, crossed >>

\* The connection breaks: s sees the error first, t gets part of the lines.
Break(s, t) ==
    /\ link[s][t] # "no" /\ breaks < MaxBreaks /\ breaks' = breaks + 1 /\ UNCHANGED ops
    /\ \E k \in 0..Len(wire[<< s, t >>]) :
           LinkEnd(s, t, [wire EXCEPT ![<< s, t >>] = SubSeq(@, 1, k)])

\* SQUIT of sv, from s itself or from t: the three cases of c_a_squit
SquitAt(s, w, from, sv) ==
    LET local == sv \in {s, from}
        out == IF local THEN from ELSE sv
        told == Tell(w, s, srv[s], from, SQUIT(out))
        direct == srv[s].parent[out] = s
    IN  /\ Become(s, ServerDestroy(srv[s], out))
        /\ wire' = IF direct THEN Closed(told, s, out) ELSE told
        /\ link' = IF direct THEN [link EXCEPT ![s][out] = "no"] ELSE link
        /\ SameUsers /\ UNCHANGED << alive, lost >>

Squit(s, sv) ==
    /\ s \in alive /\ sv # s /\ Knows(srv[s], sv) /\ Op
    /\ SquitAt(s, wire, None, sv) /\ UNCHANGED crossed

\* A null pointer is read: the process ends, and its peers get part of its lines.
Die(s, w) ==
    /\ alive' = alive \ {s}
    /\ \E k \in UNION {0..Len(w[x]) : x \in {y \in DOMAIN w : y[1] = s}} :
           wire' = [x \in DOMAIN w |->
                       IF x[2] = s THEN << >>
                       ELSE IF x[1] = s /\ link[x[2]][s] # "no"
                       THEN Append(SubSeq(w[x], 1, IF k < Len(w[x]) THEN k ELSE Len(w[x])), EOF)
                       ELSE w[x]]
    /\ link' = [link EXCEPT ![s] = [t \in Servers |-> "no"]]
    /\ UNCHANGED << srv, lost, crossed >> /\ SameUsers

\* u_server_burst_1 of the server that was connected to
OwnServer(s, t) == IF link[s][t] = "inPass" THEN << PASS, SERVER >> ELSE << >>

\* What u_server_burst_2 sends to t: the servers by name, users, the channel.  The
\* EUID of a local user who is not registered is left out: it lacks parameters, and
\* t refuses it.
Burst(s, t) ==
    LET st == srv[s]
        named(p) == /\ p \notin {s, t} /\ Knows(st, p)
                    /\ st.parent[p] = s => link[s][p] = "on"
        sids[i \in 0..Len(ByName)] ==
            IF i = 0 THEN << >>
            ELSE sids[i - 1] \o (IF named(ByName[i])
                                 THEN << SID(st.parent[ByName[i]], ByName[i]) >> ELSE << >>)
        users == SetToSeq({u \in st.here : Home[u] # s \/ u \in reg})
    IN  sids[Len(ByName)] \o [i \in DOMAIN users |-> EUID(users[i], st.nick[users[i]])]
        \o IF st.chan.members = {} THEN << >> ELSE << SJOIN(st.chan, st.chan.members) >>

-----------------------------------------------------------------------------
(***************************************************************************)
(* Handlers of lines, m from t at s; w is what is under way after it.      *)
(***************************************************************************)
\* The line changes the tables to st and goes on to the other servers.
Pass(s, t, w, st, m) ==
    /\ Become(s, st) /\ wire' = Tell(w, s, st, t, m) /\ SameUsers /\ SameLinks
Ignore(w) == wire' = w /\ UNCHANGED srv /\ SameUsers /\ SameLinks

\* c_first_pass, u_repeat_as_server, u_server_make_sreg
HandlePass(s, t, w) ==
    /\ Become(s, [srv[s] EXCEPT !.parent[t] = s])
    /\ link' = [link EXCEPT ![s][t] = IF @ = "out" THEN "outPass" ELSE "inPass"]
    /\ wire' = w /\ UNCHANGED << alive, lost, crossed >> /\ SameUsers

\* Variant of HandleServer with a fault: the other servers are not told.
HandleServerQuietly(s, t, w) ==
    /\ link' = [link EXCEPT ![s][t] = "on"]
    /\ wire' = Queue(w, s, t, OwnServer(s, t) \o Burst(s, t))
    /\ UNCHANGED << srv, alive, lost, crossed >> /\ SameUsers

\* c_us_server
HandleServer(s, t, w) ==
    /\ link' = [link EXCEPT ![s][t] = "on"]
    /\ wire' = Queue(Tell(w, s, srv[s], t, SID(s, t)), s, t, OwnServer(s, t) \o Burst(s, t))
    /\ UNCHANGED << srv, alive, lost, crossed >> /\ SameUsers

\* c_s_sid: the parent of the new server may be NULL.
HandleSid(s, t, w, m) ==
    IF ~Knows(srv[s], m.src) THEN Die(s, w)
    ELSE Pass(s, t, w, IF Knows(srv[s], m.sid) THEN srv[s]
                       ELSE [srv[s] EXCEPT !.parent[m.sid] = m.src], m)

\* c_s_euid.  A second EUID of a user makes a record that users_by_uid does not have.
\* A nick that is free leads to it; that is left out: the nick of a user who is here
\* is free only after another who had it came and went.
HandleEuid(s, t, w, m) ==
    LET st == Override(srv[s], s, m.n)
    IN  IF ~Knows(srv[s], Home[m.u]) THEN Ignore(w)
        ELSE Pass(s, t, w, IF m.u \in st.here THEN st
                           ELSE SetNick([st EXCEPT !.here = @ \cup {m.u}], m.u, m.n), m)

\* Where the target of a SQUIT or KILL came back meanwhile: t forgot it when it
\* sent the line, learned of it again, and is not told that it is removed here.
CameBack(s, t, w, known, kinds) ==
    known \/ \E i \in DOMAIN w[<< s, t >>] : w[<< s, t >>][i] \in kinds

HandleSquit(s, t, w, m) ==
    IF m.sid # s /\ ~Knows(srv[s], m.sid) THEN Ignore(w)
    ELSE /\ SquitAt(s, w, t, m.sid)
         /\ crossed' = \/ crossed
                       \/ /\ m.sid \notin {s, t}
                          /\ CameBack(s, t, w, Knows(srv[t], m.sid),
                                      {SID(p, m.sid) : p \in Servers})

\* c_ru_nick: the user may be NULL.
HandleNick(s, t, w, m) ==
    IF m.u \notin srv[s].here THEN Die(s, w)
    ELSE Pass(s, t, w, SetNick(Override(srv[s], s, m.n), m.u, m.n), m)

\* c_u_quit and c_a_kill of a user that is not known do nothing.
HandleQuit(s, t, w, m) ==
    IF m.u \notin srv[s].here THEN Ignore(w)
    ELSE Pass(s, t, w, Destroy(srv[s], {m.u}), m)

HandleKill(s, t, w, m) ==
    IF m.u \notin srv[s].here THEN Ignore(w)
    ELSE /\ KillAt(s, w, t, m.u)
         /\ crossed' = \/ crossed
                       \/ CameBack(s, t, w, m.u \in srv[t].here,
                                   {EUID(m.u, n) : n \in Nicks})

\* c_ru_join
HandleJoin(s, t, w, m) ==
    IF m.u \notin srv[s].here \/ ~srv[s].chan.there THEN Ignore(w)
    ELSE Pass(s, t, w, ChanAdd(srv[s], {m.u}), m)

\* Variant of HandlePart with a fault: it goes no further.
HandlePartHere(s, t, w, m) ==
    IF m.u \notin srv[s].here THEN Ignore(w)
    ELSE Become(s, ChanDel(srv[s], {m.u})) /\ wire' = w /\ SameUsers /\ SameLinks

\* c_u_part.  Without a user "*" goes on as the source, which has no effect.
HandlePart(s, t, w, m) ==
    IF m.u \notin srv[s].here THEN Ignore(w) ELSE Pass(s, t, w, ChanDel(srv[s], {m.u}), m)

\* c_r_tmode: what changes nothing goes no further.
HandleTmode(s, t, w, m) ==
    LET c == srv[s].chan
        new == Changed(c, m.on, m.who)
    IN  IF ~c.there \/ m.ts > c.ts \/ new = c THEN Ignore(w)
        ELSE Pass(s, t, w, [srv[s] EXCEPT !.chan = new], TMODE(c.ts, m.on, m.who))

\* ts_equal, ts_win and ts_lose, for the members of m that are known.  A flag
\* is told to be off in ts_lose, but it stays; so does the status of users of
\* other servers.
TsEqual(c, m, who) ==
    [c EXCEPT !.mod = @ \/ m.mod, !.members = @ \cup who, !.opers = @ \cup (m.opers \cap who)]
TsWin(c, m, who) == [c EXCEPT !.members = @ \cup who]
TsLose(c, m, who, s) ==
    TsEqual([c EXCEPT !.ts = m.ts, !.opers = @ \ LocalTo(s)], m, who)

\* Variant of TsRules with a fault: the newer channel wins.
TsRulesReversed(c, m, who, s) ==
    CASE c.ts = m.ts -> TsEqual(c, m, who)
      [] c.ts > m.ts -> TsWin(c, m, who)
      [] c.ts < m.ts -> TsLose(c, m, who, s)

\* ts_rules, for timestamps that are not 0
TsRules(c, m, who, s) ==
    CASE c.ts = m.ts -> TsEqual(c, m, who)
      [] c.ts < m.ts -> TsWin(c, m, who)
      [] c.ts > m.ts -> TsLose(c, m, who, s)

\* c_s_sjoin.  Without a member that is known, the list that goes on is text
\* that was never written.
HandleSjoin(s, t, w, m) ==
    LET who == m.who \cap srv[s].here
        old == IF srv[s].chan.there THEN srv[s].chan
               ELSE [NoChan EXCEPT !.ts = m.ts, !.there = TRUE]
        c == TsRules(old, m, who, s)
        st == [srv[s] EXCEPT !.chan = c]
    IN  /\ Become(s, st)
        /\ wire' = Tell(w, s, st, t, SJOIN(c, who))
        /\ lost' = (who = {} /\ Peers(s, st) # {t})
        /\ SameUsers /\ UNCHANGED << link, alive, crossed >>

\* A line of a server whose link is registered.  PASS and SERVER are refused.
HandleRegistered(s, t, w, m) ==
    CASE m.t = "SID" -> HandleSid(s, t, w, m)
      [] m.t = "EUID" -> HandleEuid(s, t, w, m)
      [] m.t = "SQUIT" -> HandleSquit(s, t, w, m)
      [] m.t = "NICK" -> HandleNick(s, t, w, m)
      [] m.t = "QUIT" -> HandleQuit(s, t, w, m)
      [] m.t = "KILL" -> HandleKill(s, t, w, m)
      [] m.t = "JOIN" -> HandleJoin(s, t, w, m)
      [] m.t = "PART" -> HandlePart(s, t, w, m)
      [] m.t = "TMODE" -> HandleTmode(s, t, w, m)
      [] m.t = "SJOIN" -> HandleSjoin(s, t, w, m)
      [] OTHER -> Ignore(w)

\* Lines that a link has no command for before it is registered are refused.
Handle(s, t, w, m) ==
    CASE link[s][t] \in {"out", "in"} ->
             IF m.t = "PASS" THEN HandlePass(s, t, w) ELSE Ignore(w)
      [] link[s][t] \in {"outPass", "inPass"} ->
             IF m.t = "SERVER" THEN HandleServer(s, t, w) ELSE Ignore(w)
      [] OTHER -> HandleRegistered(s, t, w, m)

Receive(s, t) ==
    /\ wire[<< t, s >>] # << >> /\ Still
    /\ LET m == Head(wire[<< t, s >>])
           w == [wire EXCEPT ![<< t, s >>] = Tail(@)]
       IN  IF m = EOF THEN LinkEnd(s, t, w) ELSE Handle(s, t, w, m)

-----------------------------------------------------------------------------
\* Servers that run alone or in pairs, with users who registered before
LinkedPair(s, t) == << s, t >> \in Pairs \/ << t, s >> \in Pairs
AtStart(s) ==
    LET us == {u \in Users : FirstNick[u] # None /\ (Home[u] = s \/ LinkedPair(s, Home[u]))}
    IN  [parent |-> [t \in Servers |-> IF t = s \/ LinkedPair(s, t) THEN s ELSE None],
         here |-> us,
         nick |-> [u \in Users |-> IF u \in us THEN FirstNick[u] ELSE None],
         byNick |-> [n \in Nicks |-> IF \E u \in us : FirstNick[u] = n
                                     THEN CHOOSE u \in us : FirstNick[u] = n ELSE None],
         chan |-> NoChan]

Init ==
    /\ srv = [s \in Servers |-> AtStart(s)]
    /\ wire = [x \in {y \in Servers \X Servers : y[1] # y[2]} |-> << >>]
    /\ link = [s \in Servers |-> [t \in Servers |-> IF LinkedPair(s, t) THEN "on" ELSE "no"]]
    /\ reg = {u \in Users : FirstNick[u] # None} /\ ready = reg
    /\ gone = {} /\ alive = Servers
    /\ now = 1 /\ ops = 0 /\ breaks = 0 /\ lost = FALSE /\ crossed = FALSE

Next ==
    /\ ~lost
    /\ \/ \E s, t \in Servers : s # t /\ (Receive(s, t) \/ Connect(s, t) \/ Break(s, t)
                                           \/ Squit(s, t))
       \/ \E s \in Servers, u \in Users : Kill(s, u)
       \/ \E u \in Users, n \in Nicks : FirstNickLine(u, n) \/ Nick(u, n)
       \/ \E u \in Users : UserLine(u) \/ Quit(u) \/ Join(u) \/ Part(u)
       \/ \E u \in Users, on \in BOOLEAN, who \in Users \cup {None} : Mode(u, on, who)

Spec == Init /\ [][Next]_vars

-----------------------------------------------------------------------------
TypeOK ==
    /\ srv \in [Servers -> Tables]
    /\ wire \in [{x \in Servers \X Servers : x[1] # x[2]} -> Seq(Messages)]
    /\ link \in [Servers -> [Servers -> {"no", "out", "in", "outPass", "inPass", "on"}]]
    /\ ready \subseteq Users /\ reg \subseteq Users /\ gone \subseteq Users
    /\ alive \subseteq Servers /\ now \in Times /\ ops \in 0..MaxOps
    /\ breaks \in 0..MaxBreaks /\ lost \in BOOLEAN /\ crossed \in BOOLEAN

\* An entry of the table by nick is a user who is there and has that nick.
EntriesRight(st) ==
    \A n \in Nicks :
        LET u == st.byNick[n] IN u # None => u \in st.here /\ st.nick[u] = n

\* The nick table leads to the user with that nick, never to one who is gone,
\* whatever collisions the network has seen (u_user_set_nick and its TODO).
NickTable == \A s \in alive : EntriesRight(srv[s])

\* Whoever is announced to other servers has a nick.
Named(s, st, registered) ==
    \A u \in st.here : Home[u] # s \/ u \in registered => st.nick[u] # None

\* Operators are members, and a channel that is not there is empty.
ChanSane(c) ==
    /\ c.opers \subseteq c.members
    /\ IF c.there THEN c.ts \in Times ELSE c = NoChan

\* Nobody outlives his server, and no server the one that it is behind: sv and
\* parent point to what is there (u_server_destroy).
NoOrphans(s, st) ==
    /\ st.parent[s] = s
    /\ \A t \in Servers : Knows(st, t) => Knows(st, st.parent[t])
    /\ \A u \in st.here : Knows(st, Home[u])

Sane(s, st, registered) ==
    EntriesRight(st) /\ Named(s, st, registered) /\ ChanSane(st.chan) /\ NoOrphans(s, st)

\* Only users who left are announced to have quit, and a registered user who did
\* not leave is known to his own server, whatever lines come in about him.
QuitsTrue ==
    \A x \in DOMAIN wire : \A i \in DOMAIN wire[x] :
        wire[x][i].t = "QUIT" => wire[x][i].u \in gone
AtHome == \A u \in reg \ gone : u \in srv[Home[u]].here

IInv ==
    TypeOK /\ (\A s \in Servers : Sane(s, srv[s], reg)) /\ QuitsTrue /\ AtHome

\* Nothing is under way.
Quiet == ~lost /\ \A x \in DOMAIN wire : wire[x] = << >>
AtRest == Quiet /\ ~crossed

\* The smallest set with s and those that its members are linked to
Linked(s) ==
    LET closed == {S \in SUBSET Servers :
                      s \in S /\ \A p \in S : \A t \in Servers : link[p][t] = "on" => t \in S}
    IN  {t \in Servers : \A S \in closed : t \in S}

\* When nothing is under way, a server knows exactly the servers it is linked
\* to, whatever links came and broke meanwhile (SID, SQUIT, u_server_destroy).
ServersAgree ==
    AtRest => \A s \in alive : {t \in Servers : Knows(srv[s], t)} = Linked(s)

\* When nothing is under way, a server knows exactly the registered users of
\* those servers, by the nicks they have: nobody is left from a split, and no
\* NICK, QUIT or KILL was missed.
Online(s) == {u \in srv[s].here : Home[u] # s \/ u \in reg}
UsersAgree ==
    AtRest => \A s \in alive :
        /\ Online(s) = {u \in reg \ gone : Home[u] \in Linked(s)}
        /\ \A u \in Online(s) : srv[s].nick[u] = srv[Home[u]].nick[u]

\* When nothing is under way, nobody is on the channel for some server but not
\* for his own.
NoGhosts ==
    AtRest => \A s \in alive : \A u \in srv[s].chan.members :
        u \in srv[Home[u]].chan.members

\* The timestamp of a channel only falls as long as the channel is there
\* (ts_rules), so that a younger channel does not take over an older one.
TsFalls ==
    [][\A s \in Servers : srv[s].chan.there /\ srv'[s].chan.there
                              => srv'[s].chan.ts <= srv[s].chan.ts]_vars

\* "Our TS is newer. Wipe all local modes and statuses" (sjoin.c:211): a server
\* whose channel is the younger one takes over the flag of the older.
ModesWiped ==
    [][\A s \in Servers :
          srv[s].chan.there /\ srv'[s].chan.there /\ srv'[s].chan.ts < srv[s].chan.ts
          /\ ~lost'
              => \E t \in Servers \ {s} :
                     /\ wire[<< t, s >>] # << >> /\ Head(wire[<< t, s >>]).t = "SJOIN"
                     /\ srv'[s].chan.mod = Head(wire[<< t, s >>]).mod]_vars
=============================================================================
