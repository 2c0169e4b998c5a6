------------------------------- MODULE Sendto -------------------------------
(***************************************************************************)
(* Fan-out of messages: src/src/sendto.c with the cookies of               *)
(* src/src/cookie.c, over the members of channels and the server links.    *)
(*                                                                         *)
(* All calls share one cookie and two line buffers.  They do not run at    *)
(* the same time, but inside each other: a line that does not fit the send *)
(* queue of a receiver ends that receiver's link at once, and the end of a *)
(* link is itself announced by calls of the same functions                 *)
(* (exceptional_quit in src/src/link.c).  The call stack is explicit: its  *)
(* first item is what the process does next, the others what it goes on    *)
(* with afterwards.                                                        *)
(*                                                                         *)
(* Iterators queue the nodes of a members map through a field of the node  *)
(* (map.c:18), so two of them on one channel write the same next and prev  *)
(* pointers; both are modelled.                                            *)
(***************************************************************************)
EXTENDS Integers, FiniteSets, SequencesExt

CONSTANTS Users,
          Chans,
          Members,    \* the members of each channel at the start
          Trees,      \* the trees a members map may have its keys in
          UserLinks, ServerLinks,
          LinkOf,     \* the link a user is reached by
          None,
          MaxCalls,   \* bound on the calls made by commands
          MaxFull,    \* bound on the queues that overflow
          MaxTime     \* bound on the seconds of the clock

Links == UserLinks \cup ServerLinks

\* The nodes of a members map (u_map_n): the root, and child[0] and child[1] of each.
Tree == [root : Users \cup {None}, left : [Users -> Users \cup {None}],
         right : [Users -> Users \cup {None}]]

\* t is a binary tree of the keys s: level by level its nodes are o, and when the
\* first i of them have been left, those through number b[i] have been met.
LevelOrder(t, s, o, b) ==
    /\ t.root = IF s = {} THEN None ELSE o[1]
    /\ b[0] = IF s = {} THEN 0 ELSE 1
    /\ \A i, j \in 1..Cardinality(s) : i < j => o[i] # o[j]
    /\ \A i \in 1..Cardinality(s) :
          /\ i <= b[i - 1]
          /\ b[i] = b[i - 1] + (IF t.left[o[i]] = None THEN 0 ELSE 1)
                            + (IF t.right[o[i]] = None THEN 0 ELSE 1)
          /\ t.left[o[i]] # None => t.left[o[i]] = o[b[i - 1] + 1]
          /\ t.right[o[i]] # None => t.right[o[i]] = o[b[i]]

IsTree(t, s) ==
    \E o \in [1..Cardinality(s) -> s], b \in [0..Cardinality(s) -> 0..Cardinality(s)] :
        LevelOrder(t, s, o, b)

AllTrees == UNION {Trees[s] : s \in SUBSET Users}

ASSUME SendtoAssumption ==
    /\ IsFiniteSet(Users) /\ IsFiniteSet(Chans) /\ IsFiniteSet(ServerLinks)
    /\ None \notin Users \cup Chans \cup Links
    /\ Users \cap Chans = {} /\ (Users \cup Chans) \cap Links = {}
    /\ LinkOf \in [Users -> Links]
    /\ Members \in [Chans -> (SUBSET Users) \ {{}}]
    /\ Trees \in [SUBSET Users -> (SUBSET Tree) \ {{}}]
    /\ \A s \in SUBSET Users : \A t \in Trees[s] : IsTree(t, s)
    /\ \A l \in UserLinks : Cardinality({u \in Users : LinkOf[u] = l}) <= 1

ST_ALL == "all"
ST_SERVERS == "servers"
ST_USERS == "users"

VARIABLES
    now,        \* NOW.tv_sec
    ck,         \* ck_sendto
    mark,       \* link->ck_sendto of every link
    ln,         \* what ln_user and ln_serv hold: the number of a call, or None
    members,    \* c->members of every channel
    tree,       \* the tree every one of them has its keys in
    node,       \* prev and next of every node of those trees
    stack,      \* calls in progress
    alive,      \* users, server links and channels that are not freed
    quit,       \* links with U_LINK_SENT_QUIT
    calls,      \* number of calls so far: the name of the next one
    last,       \* history: the call that returned last
    steady,     \* history: no mark was restored or written under a later clock
    lost        \* the process has read freed memory

vars == << now, ck, mark, ln, members, tree, node, stack, alive, quit, calls,
           last, steady, lost >>

-----------------------------------------------------------------------------
\* u_cookie_cmp and u_cookie_inc
Older(a, b) == a.high < b.high \/ (a.high = b.high /\ a.low < b.low)
Zero == [high |-> 0, low |-> 0]
CookieIncOnce(c) == [c EXCEPT !.high = now]
CookieInc(c) ==
    IF c.high = now THEN [c EXCEPT !.low = @ + 1] ELSE [high |-> now, low |-> 0]

\* The order of a table, and of the channels of a user.
Order == [s \in (SUBSET Users) \cup (SUBSET Chans) \cup (SUBSET ServerLinks) |->
            SetToSeq(s)]

\* A members map: the keys in the tree, those whose data are not NULL, and the
\* number of loops; the keys between the two wait for the loops to end.
MembersMap(s) == [keys |-> s, live |-> s, depth |-> 0]
InMap(m) == m.live
ChansOf(u) == {c \in Chans : u \in InMap(members[c])}

Init ==
    /\ now = 1 /\ ck = Zero /\ mark = [l \in Links |-> Zero]
    /\ ln = [user |-> None, server |-> None]
    /\ members = [c \in Chans |-> MembersMap(Members[c])]
    /\ \E ts \in [Chans -> AllTrees] :
          (\A c \in Chans : ts[c] \in Trees[Members[c]]) /\ tree = ts
    /\ node = [c \in Chans |-> [u \in Users |-> [next |-> None, prev |-> None]]]
    /\ stack = << >> /\ alive = Users \cup ServerLinks \cup Chans /\ quit = {}
    /\ calls = 0 /\ last = None /\ steady = TRUE /\ lost = FALSE

-----------------------------------------------------------------------------
\* A call of u_sendto_chan, u_sendto_visible or u_sendto_servers.  The fields
\* "wants", "sent", "alone" and "fresh" are history.
Call(kind, who, type, exclude) ==
    [kind |-> kind, who |-> who, type |-> type, exclude |-> exclude, begun |-> FALSE,
     id |-> None, c |-> None, todo |-> << >>, head |-> None, tail |-> None,
     wants |-> {}, sent |-> [l \in Links |-> << >>], alone |-> TRUE, fresh |-> TRUE]
ToChan(c, type, exclude) == Call("chan", c, type, exclude)
ToVisible(u) == Call("visible", u, ST_USERS, LinkOf[u])
ToServers(exclude) == Call("servers", None, ST_SERVERS, exclude)

Do(op, arg) == Call(op, arg, None, None)

TypeOf(l) == IF l \in ServerLinks THEN "server" ELSE "user"

WantSend(type, l) ==
    type = ST_ALL \/ (type = ST_SERVERS <=> l \in ServerLinks)

Wants(f) ==
    LET from == IF f.kind = "chan" THEN InMap(members[f.who])
                ELSE IF f.kind = "visible"
                THEN UNION {InMap(members[c]) : c \in ChansOf(f.who)}
                ELSE {}
        reach == IF f.kind = "servers" THEN ServerLinks \cap alive
                 ELSE {l \in {LinkOf[u] : u \in from} : WantSend(f.type, l)}
    IN  reach \ {f.exclude}

Return == stack' = Tail(stack)
Top == stack[1]
Returned(f) == [f EXCEPT !.wants = @ \ quit]

-----------------------------------------------------------------------------
(* The queue of an iterator: mowgli_node_add and mowgli_node_delete, on a  *)
(* frame f and the nodes n of one map.                                     *)
Enqueue(q, u) ==
    LET n == q.node
        f == q.f
    IN  IF f.head = None
        THEN [f |-> [f EXCEPT !.head = u, !.tail = u],
              node |-> [n EXCEPT ![u] = [next |-> None, prev |-> None]]]
        ELSE [f |-> [f EXCEPT !.tail = u],
              node |-> [n EXCEPT ![u] = [next |-> None, prev |-> f.tail],
                                 ![f.tail].next = u]]

\* The head of the queue leaves it.
Dequeue(q) ==
    LET n == q.node
        u == q.f.head
        nx == n[u].next
        pv == n[u].prev
    IN  [f |-> [q.f EXCEPT !.head = IF pv = None THEN nx ELSE @,
                           !.tail = IF nx = None THEN pv ELSE @],
         node |-> [v \in Users |->
                     [next |-> IF v = pv THEN nx ELSE n[v].next,
                      prev |-> IF v = nx THEN pv ELSE n[v].prev]]]

TryQueue(q, u) == IF u = None THEN q ELSE Enqueue(q, u)

\* u_map_each_start on the members of c, for the frame f
EachStart(f, c) ==
    \E q \in {TryQueue([f |-> [f EXCEPT !.c = c, !.head = None, !.tail = None],
                      node |-> node[c]], tree[c].root)} :
        /\ members' = [members EXCEPT ![c].depth = @ + 1]
        /\ node' = [node EXCEPT ![c] = q.node] /\ UNCHANGED tree
        /\ stack' = << q.f >> \o Tail(stack)

\* u_map_each_next: a node leaves the queue, those below it in the tree enter.
EachNext(q, t) ==
    LET u == q.f.head
    IN  TryQueue(TryQueue(Dequeue(q), t.left[u]), t.right[u])

\* u_map_del
MapDel(m, u) ==
    [m EXCEPT !.live = @ \ {u}, !.keys = IF m.depth = 0 THEN @ \ {u} ELSE @]

\* u_map_each_next at the end of the queue
EachEndKeeps(m) == [m EXCEPT !.depth = @ - 1]
EachEnd(m) ==
    [m EXCEPT !.depth = @ - 1, !.keys = IF m.depth = 1 THEN m.live ELSE @]

\* Keys that are deleted leave a tree of the others; without that it stays as it is.
Replant ==
    LET cut == {c \in Chans : members'[c].keys # members[c].keys}
    IN  \E ts \in [cut -> AllTrees] :
            /\ \A c \in cut : ts[c] \in Trees[members'[c].keys]
            /\ tree' = [c \in Chans |-> IF c \in cut THEN ts[c] ELSE tree[c]]

-----------------------------------------------------------------------------
(* Freed memory.  A loop over the members of a channel reads the map and,  *)
(* of every member it meets, the user; a call for what a user sees reads   *)
(* the user's map of channels; a loop over a table has its next element in *)
(* hand while the body runs.                                               *)
ReadsFreed(f) ==
    \/ f.c # None /\ f.c \notin alive
    \/ f.c # None /\ f.head # None /\ f.head \notin alive
    \/ f.kind \in {"visible", "destroy"} /\ f.who \notin alive
    \/ f.kind \in {"servers", "split"} /\ f.todo # << >> /\ Head(f.todo) \notin alive

Lose == /\ stack # << >> /\ ReadsFreed(Top) /\ ~lost
        /\ lost' = TRUE
        /\ UNCHANGED << now, ck, mark, ln, members, tree, node, stack, alive, quit,
                        calls, last, steady >>

Running(kind) == ~lost /\ stack # << >> /\ Top.kind = kind /\ ~ReadsFreed(Top)

\* The next element of a table is fixed before the body runs.
From(s, k) ==
    IF \E i \in k..Len(s) : s[i] \in alive
    THEN SubSeq(s, CHOOSE i \in k..Len(s) :
                      s[i] \in alive /\ \A j \in k..(i - 1) : s[j] \notin alive, Len(s))
    ELSE << >>
RestNotMoved(s) == From(s, 1)
Rest(s) == From(s, 2)

-----------------------------------------------------------------------------
\* A command makes a call.
Command ==
    /\ stack = << >> /\ ~lost /\ calls < MaxCalls
    /\ \/ \E c \in Chans \cap alive, from \in {None} \cup Links :
             \/ from = None /\ stack' = << ToChan(c, ST_USERS, None) >>
             \/ from # None /\ stack' = << ToChan(c, ST_ALL, from) >>
       \/ \E u \in Users \cap alive : stack' = << ToVisible(u) >>
       \/ \E from \in {None} \cup ServerLinks : stack' = << ToServers(from) >>
    /\ last' = None
    /\ UNCHANGED << now, ck, mark, ln, members, tree, node, alive, quit, calls,
                    steady, lost >>

\* u_sendto_start and u_sendto_skip, which every kind of call begins with
Begin ==
    LET f == Top
        c == CookieInc(ck)
        skip == f.exclude # None /\ Older(mark[f.exclude], c)
    IN  /\ stack # << >> /\ f.kind \in {"chan", "visible", "servers"} /\ ~f.begun
        /\ ~lost /\ ~ReadsFreed(f)
        /\ ck' = c /\ ln' = [user |-> None, server |-> None]
        /\ mark' = IF skip THEN [mark EXCEPT ![f.exclude] = c] ELSE mark
        /\ calls' = calls + 1
        /\ stack' = << [f EXCEPT
                !.begun = TRUE, !.id = calls, !.wants = Wants(f),
                !.fresh = \A l \in Links : Older(mark[l], c),
                !.todo = IF f.kind = "visible" THEN Order[ChansOf(f.who)]
                         ELSE IF f.kind = "servers"
                         THEN Order[ServerLinks \cap alive] ELSE << >>] >>
             \o [i \in 1..(Len(stack) - 1) |->
                    [stack[i + 1] EXCEPT !.alone = ~stack[i + 1].begun]]
        /\ UNCHANGED << now, members, tree, node, alive, quit, last, steady, lost >>

\* exceptional_quit: what is announced and destroyed when a link ends
ExceptionalQuit(l) ==
    IF l \in ServerLinks
    THEN << ToServers(None), Do("split", l) >>
    ELSE LET u == CHOOSE v \in Users : LinkOf[v] = l
         IN  << ToVisible(u), ToServers(None), Do("destroy", u) >>

\* u_sendto of the line of call f to link l, with f and the nodes as the
\* iterator leaves them: ln makes the line unless there is one, then either
\* the line is queued or the queue is full and the link ends.
Deliver(f, l) ==
    LET key == TypeOf(l)
        line == IF ln[key] = None THEN f.id ELSE ln[key]
    IN  /\ ln' = [ln EXCEPT ![key] = line]
        /\ mark' = [mark EXCEPT ![l] = ck]
        /\ \/ /\ l \notin quit
              /\ stack' = << [f EXCEPT !.sent[l] = Append(@, line)] >> \o Tail(stack)
              /\ UNCHANGED quit
           \/ /\ l \in quit
              /\ stack' = << f >> \o Tail(stack)
              /\ UNCHANGED quit
           \/ /\ l \notin quit /\ Cardinality(quit) < MaxFull
              /\ quit' = quit \cup {l}
              /\ stack' = ExceptionalQuit(l) \o << f >> \o Tail(stack)

\* A link the iterator passes over: it has the line, or is of another type.
SkippedByType(f, l) == f.kind # "servers" /\ ~WantSend(f.type, l)
Skipped(f, l) == mark[l] = ck \/ (f.kind # "servers" /\ ~WantSend(f.type, l))
Pass(f) == stack' = << f >> \o Tail(stack) /\ UNCHANGED << ln, mark, quit >>

\* u_sendto_chan_next and the inner loop of u_sendto_visible_next: the next
\* member of the channel
NextMember ==
    /\ Running("chan") \/ Running("visible")
    /\ Top.begun /\ Top.c # None /\ Top.head # None
    /\ \E q \in {EachNext([f |-> Top, node |-> node[Top.c]], tree[Top.c])} :
        /\ node' = [node EXCEPT ![Top.c] = q.node]
        /\ IF Skipped(Top, LinkOf[Top.head])
           THEN Pass(q.f)
           ELSE Deliver(q.f, LinkOf[Top.head])
    /\ UNCHANGED << now, ck, members, tree, alive, calls, last, steady, lost >>

\* The members of one channel are done.
EndMembers ==
    LET f == Top
    IN  /\ Running("chan") \/ Running("visible")
        /\ f.begun /\ f.c # None /\ f.head = None
        /\ members' = [members EXCEPT ![f.c] = EachEnd(@)] /\ Replant
        /\ IF f.kind = "chan"
           THEN Return /\ last' = Returned(f)
           ELSE stack' = << [f EXCEPT !.c = None] >> \o Tail(stack) /\ last' = last
        /\ UNCHANGED << now, ck, mark, ln, node, alive, quit, calls, steady, lost >>

\* u_map_each_start on the members of the channel, or of the next channel
ChanMembers ==
    /\ Running("chan") /\ Top.begun /\ Top.c = None
    /\ EachStart(Top, Top.who)
    /\ UNCHANGED << now, ck, mark, ln, alive, quit, calls, last, steady, lost >>

VisibleMembers ==
    /\ Running("visible") /\ Top.begun /\ Top.c = None /\ Top.todo # << >>
    /\ EachStart([Top EXCEPT !.todo = Tail(@)], Head(Top.todo))
    /\ UNCHANGED << now, ck, mark, ln, alive, quit, calls, last, steady, lost >>

VisibleEnd ==
    /\ Running("visible") /\ Top.begun /\ Top.c = None /\ Top.todo = << >>
    /\ Return /\ last' = Returned(Top)
    /\ UNCHANGED << now, ck, mark, ln, members, tree, node, alive, quit, calls,
                    steady, lost >>

\* u_sendto_servers_next
NextServer ==
    /\ Running("servers") /\ Top.begun /\ Top.todo # << >>
    /\ \E f \in {[Top EXCEPT !.todo = Rest(@)]}, l \in {Head(Top.todo)} :
        IF Skipped(f, l) THEN Pass(f) ELSE Deliver(f, l)
    /\ UNCHANGED << now, ck, members, tree, node, alive, calls, last, steady, lost >>

ServersEnd ==
    /\ Running("servers") /\ Top.begun /\ Top.todo = << >>
    /\ Return /\ last' = Returned(Top)
    /\ UNCHANGED << now, ck, mark, ln, members, tree, node, alive, quit, calls,
                    steady, lost >>

-----------------------------------------------------------------------------
\* u_user_destroy: the user leaves its channels, and a channel goes with its
\* last member.
Destroy ==
    LET u == Top.who
        left == [c \in ChansOf(u) |-> MapDel(members[c], u)]
        dropped == {c \in ChansOf(u) : InMap(left[c]) = {}}
    IN  /\ Running("destroy")
        /\ members' = [c \in Chans |->
               IF c \in dropped THEN MembersMap({})
               ELSE IF c \in ChansOf(u) THEN left[c] ELSE members[c]]
        /\ Replant
        /\ alive' = alive \ ({u} \cup dropped)
        /\ Return
        /\ UNCHANGED << now, ck, mark, ln, node, quit, calls, last, steady, lost >>

\* u_server_destroy: the users of the server, one after the other, then the
\* server itself
SplitBegin ==
    /\ Running("split") /\ ~Top.begun
    /\ stack' = << [Top EXCEPT !.begun = TRUE, !.todo = Order[Users \cap alive]] >>
                \o Tail(stack)
    /\ UNCHANGED << now, ck, mark, ln, members, tree, node, alive, quit, calls, last,
                    steady, lost >>

SplitUser ==
    LET u == Head(Top.todo)
        f == [Top EXCEPT !.todo = Rest(@)]
    IN  /\ Running("split") /\ Top.begun /\ Top.todo # << >>
        /\ stack' = (IF LinkOf[u] = Top.who THEN << ToVisible(u), Do("destroy", u) >>
                     ELSE << >>) \o << f >> \o Tail(stack)
        /\ UNCHANGED << now, ck, mark, ln, members, tree, node, alive, quit, calls,
                        last, steady, lost >>

SplitEnd ==
    /\ Running("split") /\ Top.begun /\ Top.todo = << >>
    /\ alive' = alive \ {Top.who}
    /\ Return
    /\ UNCHANGED << now, ck, mark, ln, members, tree, node, quit, calls, last, steady,
                    lost >>

-----------------------------------------------------------------------------
\* Time is read between two rounds of the event loop; it may be set back.
Tick ==
    /\ stack = << >>
    /\ \/ now < MaxTime /\ now' = now + 1 /\ steady' = steady
       \/ now > 1 /\ now' = now - 1 /\ steady' = FALSE
    /\ last' = None
    /\ UNCHANGED << ck, mark, ln, members, tree, node, stack, alive, quit, calls, lost >>

\* An upgrade restores the marks of the links and starts with a new cookie.
Upgrade ==
    /\ stack = << >> /\ ~lost
    /\ ck' = Zero /\ ln' = [user |-> None, server |-> None]
    /\ steady' = (steady /\ \A l \in Links : mark[l].high < now)
    /\ last' = None
    /\ UNCHANGED << now, mark, members, tree, node, stack, alive, quit, calls, lost >>

Step == \/ Begin \/ ChanMembers \/ NextMember \/ EndMembers \/ VisibleMembers
        \/ VisibleEnd \/ NextServer \/ ServersEnd \/ Destroy
        \/ SplitBegin \/ SplitUser \/ SplitEnd \/ Lose

Next == Command \/ Step \/ Tick \/ Upgrade

Spec == Init /\ [][Next]_vars
FairSpec == Spec /\ WF_vars(Step)

-----------------------------------------------------------------------------
(* A call that no other call ran inside of, under a cookie later than all  *)
(* marks, queues its own line exactly once for every link behind which     *)
(* somebody is meant to read it, and for no other link: not the excluded   *)
(* one, and no link twice through two channels or two users behind it.     *)
ExactlyOnce ==
    last # None /\ last.alone /\ last.fresh
        => \A l \in Links :
              last.sent[l] = IF l \in last.wants THEN << last.id >> ELSE << >>

(* Unless the clock was set back, or an upgrade took less than a second,   *)
(* every call has a cookie later than all marks.                           *)
FreshCookie ==
    steady => \A i \in DOMAIN stack : stack[i].begun => stack[i].fresh

(* When everything has returned no loop is left open, no deletion waits    *)
(* and no channel has a member that is gone.                               *)
Settled ==
    stack = << >> => \A c \in Chans \cap alive :
        /\ members[c].depth = 0 /\ InMap(members[c]) # {}
        /\ members[c].keys = InMap(members[c]) /\ InMap(members[c]) \subseteq alive

(* Every fan-out comes to an end, with all that runs inside it.            *)
Returns == stack # << >> ~> (stack = << >> \/ lost)

(* What src/include/sendto.h promises of every call.                       *)
AllOnce ==
    last # None /\ last.fresh
        => \A l \in last.wants : last.sent[l] = << last.id >>
=============================================================================
