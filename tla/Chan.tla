-------------------------------- MODULE Chan --------------------------------
(***************************************************************************)
(* Channels of one server: src/src/chan.c with the handlers JOIN, PART,    *)
(* KICK, INVITE, MODE and TMODE, BMASK, PRIVMSG and WHO of                 *)
(* src/modules/core.  A handler runs to its end before the next one.       *)
(*                                                                         *)
(* Membership and invitations are kept twice, in a map of the channel and  *)
(* in a map of the user, and nothing but the order of the calls keeps a    *)
(* pointer from outliving what it points to.                               *)
(***************************************************************************)
EXTENDS Modes

CONSTANTS Local,      \* users of this server; the others are remote
          Idents,     \* what masks are matched against (%H)
          FirstIdent, \* the identity of every user at the start
          Matches,    \* the identities a parameter matches as a mask
          Commands,   \* MODE commands of the instance: channel, letters, parameters
          BmaskLists, \* lists that BMASK commands of the instance are for
          MaxHops,    \* the bound on forwards, 30 in the code
          MaxOps      \* bound on MODE, BMASK, INVITE, NICK and WHO commands

ASSUME ChanAssumption ==
    /\ IsFiniteSet(Users) /\ Local \subseteq Users
    /\ Matches \in [Args -> SUBSET Idents]
    /\ FirstIdent \in [Users -> Idents]
    /\ Commands \subseteq [chan : Chans, letters : Seq(Letters), args : Seq(Args)]
    /\ BmaskLists \subseteq ListModes /\ MaxHops \in Nat /\ MaxOps \in Nat

VARIABLES
    modes,      \* settings and members of every channel, or None when there is none
    synced,     \* the cookie of the channel has been advanced
    cu,         \* what a u_chanuser has beside its status: CU_MUTED, and whether
                \* its cookie is not older than the channel's
    invites,    \* c->invites
    channels,   \* u->channels
    invited,    \* u->invites
    users,      \* live users
    ident,      \* nick!user@host of every user
    aborted,    \* abort() in u_map_set, or a null chanuser: the process is gone
    unsynced,   \* history: members whose muting changed without a new cookie
    serverMade, \* history: channels made by a BMASK
    ops         \* number of commands counted by MaxOps

vars == << modes, synced, cu, invites, channels, invited, users, ident, aborted,
           unsynced, serverMade, ops >>

Alive(c) == c \in Chans /\ modes[c] # None
MembersOf(c) == IF Alive(c) THEN DOMAIN modes[c].status ELSE {}
IsOp(c, u) == u \in MembersOf(c) /\ "o" \in modes[c].status[u]
Count == ops < MaxOps /\ ops' = ops + 1

\* A map of a user's channels: "null" has the keys that stay in the tree
\* without data because a loop over the map was never finished ("open").
NoChannels == [live |-> {}, null |-> {}, open |-> FALSE]

Init ==
    /\ modes = [c \in Chans |-> None] /\ synced = [c \in Chans |-> FALSE]
    /\ cu = [c \in Chans |-> << >>]
    /\ invites = [c \in Chans |-> {}] /\ channels = [u \in Users |-> NoChannels]
    /\ invited = [u \in Users |-> {}]
    /\ users = Users /\ ident = FirstIdent
    /\ aborted = FALSE /\ unsynced = [c \in Chans |-> {}] /\ serverMade = {} /\ ops = 0

-----------------------------------------------------------------------------
\* is_in_list
InList(c, u, l) == \E mask \in modes[c].list[l] : ident[u] \in Matches[mask]

\* u_entry_blocked
EntryBlocked(c, u, key) ==
    LET m == modes[c]
        hasInvite == u \in invites[c]
    IN  \/ "i" \in m.flags /\ ~InList(c, u, "I") /\ ~hasInvite
        \/ m.key # None /\ m.key # key
        \/ InList(c, u, "b") /\ ~InList(c, u, "e")
        \/ /\ m.limit # None /\ ~hasInvite
           /\ Cardinality(MembersOf(c)) >= LimitOf[m.limit]

\* Variant of FindForward with a fault: the channel it ends at is not looked at.
FindForwardBlind(c, u, key) ==
    LET f == modes[c].forward
    IN  IF f = None THEN None ELSE IF Alive(f) THEN f ELSE None

\* u_find_forward
FindForward(c, u, key) ==
    LET hop[n \in 0..MaxHops] == [d \in Chans |->
            IF n = 0 \/ ~Alive(d) THEN None
            ELSE LET f == modes[d].forward
                 IN  IF ~Alive(f) THEN None
                     ELSE IF ~EntryBlocked(f, u, key) THEN f
                     ELSE hop[n - 1][f]]
    IN  hop[MaxHops][c]

\* u_chan_user_add
Member(m, u, status) ==
    [m EXCEPT !.status = [v \in DOMAIN @ \cup {u} |-> IF v = u THEN status ELSE @[v]]]
NewCu(c) == [muted |-> FALSE, current |-> ~synced[c]]
WithCu(c, u) == [v \in DOMAIN cu[c] \cup {u} |-> IF v = u THEN NewCu(c) ELSE cu[c][v]]

\* u_chan_user_add aborts when a loop over the user's channels is open.
Add(c, m, u, status) ==
    IF channels[u].open
    THEN aborted' = TRUE
         /\ UNCHANGED << modes, cu, channels, invites, invited >>
    ELSE /\ modes' = [modes EXCEPT ![c] = Member(m, u, status)]
         /\ cu' = [cu EXCEPT ![c] = WithCu(c, u)]
         /\ channels' = [channels EXCEPT ![u].live = @ \cup {c}]
         /\ invites' = [invites EXCEPT ![c] = @ \ {u}]
         /\ invited' = [invited EXCEPT ![u] = @ \ {c}]
         /\ UNCHANGED aborted

\* try_local_join_chan: a new channel is the user's, an old one must let the
\* user in or forward to one that does.
Join(u, c, key) ==
    /\ u \in users \cap Local /\ u \notin MembersOf(c)
    /\ UNCHANGED << synced, users, ident, unsynced, serverMade, ops >>
    /\ IF ~Alive(c)
       THEN Add(c, NewModes, u, {"o"})
       ELSE \E to \in {IF EntryBlocked(c, u, key) THEN FindForward(c, u, key) ELSE c} :
               /\ to # None
               /\ u \notin MembersOf(to)
               /\ Add(to, modes[to], u, {})

\* c_ru_join: nothing is asked, and an invitation would stay.
RemoteJoin(u, c) ==
    /\ u \in users \ Local /\ Alive(c) /\ u \notin MembersOf(c)
    /\ IF channels[u].open
       THEN aborted' = TRUE /\ UNCHANGED << modes, cu, channels >>
       ELSE /\ modes' = [modes EXCEPT ![c] = Member(@, u, {})]
            /\ cu' = [cu EXCEPT ![c] = WithCu(c, u)]
            /\ channels' = [channels EXCEPT ![u].live = @ \cup {c}]
            /\ UNCHANGED aborted
    /\ UNCHANGED << synced, invites, invited, users, ident, unsynced, serverMade, ops >>

-----------------------------------------------------------------------------
\* u_map_del on the user's map of channels.  The first one, which always waits, has a fault.
ChannelsDelAlways(m, cs) == [m EXCEPT !.live = @ \ cs, !.null = @ \cup cs]
ChannelsDel(m, cs) ==
    [m EXCEPT !.live = @ \ cs, !.null = IF m.open THEN @ \cup cs ELSE @]

\* Variant of Without with a fault: a u_chanuser is not freed.
WithoutFreeing(f, u) == f
Without(f, u) == [v \in DOMAIN f \ {u} |-> f[v]]

\* Variant of Uninvited with a fault: dropping a channel clears its own map only.
UninvitedOneWay(v, gone) == invited[v]
Uninvited(v, gone) == invited[v] \ gone

\* What is left when user u has left the channels cs and those in gone are
\* dropped with their invitations (u_chan_drop, u_clr_invites_chan).
Leave(u, cs, gone) ==
    /\ modes' = [c \in Chans |->
            IF c \in gone THEN None
            ELSE IF c \in cs
            THEN [modes[c] EXCEPT !.status = [v \in DOMAIN @ \ {u} |-> @[v]]]
            ELSE modes[c]]
    /\ cu' = [c \in Chans |-> IF c \in cs THEN Without(cu[c], u) ELSE cu[c]]
    /\ synced' = [c \in Chans |-> synced[c] /\ c \notin gone]
    /\ unsynced' = [c \in Chans |-> IF c \in gone THEN {} ELSE unsynced[c]]
    /\ serverMade' = serverMade \ gone

\* Variant of LastMember with a fault: the size is read before the member is out of the map.
LastMemberEarly(c, u) == MembersOf(c) = {}
LastMember(c, u) == MembersOf(c) = {u}

\* u_chan_user_del
ChanUserDel(c, u) ==
    LET gone == IF LastMember(c, u) THEN {c} ELSE {}
    IN  /\ Leave(u, {c}, gone)
        /\ invites' = [d \in Chans |-> IF d \in gone THEN {} ELSE invites[d]]
        /\ invited' = [v \in Users |-> Uninvited(v, gone)]
        /\ channels' = [channels EXCEPT ![u] = ChannelsDel(@, {c})]
        /\ UNCHANGED << users, ident, aborted, ops >>

\* c_u_part
Part(u, c) == u \in MembersOf(c) /\ ChanUserDel(c, u)

\* c_a_kick, by an operator, a remote user or a server
Kick(by, u, c) ==
    /\ u \in MembersOf(c)
    /\ by \in Local => IsOp(c, by)
    /\ ChanUserDel(c, u)

\* u_user_destroy: its callback on a key without data reads a null pointer.
UserDestroy(u) ==
    /\ u \in users
    /\ IF channels[u].null # {}
       THEN aborted' = TRUE
            /\ UNCHANGED << modes, synced, cu, invites, channels, invited, users,
                            unsynced, serverMade >>
       ELSE LET cs == channels[u].live
                gone == {c \in cs : LastMember(c, u)}
            IN  /\ Leave(u, cs, gone)
                /\ invites' = [c \in Chans |->
                                  IF c \in gone THEN {} ELSE invites[c] \ {u}]
                /\ invited' = [v \in Users |->
                                  IF v = u THEN {} ELSE Uninvited(v, gone)]
                /\ channels' = [channels EXCEPT ![u] = NoChannels]
                /\ users' = users \ {u} /\ UNCHANGED aborted
    /\ UNCHANGED << ident, ops >>

\* c_u_invite: only a local user is remembered, and only a local source is
\* told that the user is there already.
Invite(by, u, c) ==
    /\ {by, u} \subseteq users /\ Alive(c) /\ Count
    /\ by \in Local => /\ by \in MembersOf(c) /\ u \notin MembersOf(c)
                       /\ IsOp(c, by) \/ "g" \in modes[c].flags
    /\ u \in Local
    /\ invites' = [invites EXCEPT ![c] = @ \cup {u}]
    /\ invited' = [invited EXCEPT ![u] = @ \cup {c}]
    /\ UNCHANGED << modes, synced, cu, channels, users, ident, aborted, unsynced,
                    serverMade >>

-----------------------------------------------------------------------------
OpOf(u) == {c \in Chans : IsOp(c, u)}

\* Variant of Sync with a fault: the cookie of the channel stays.
SyncOnly(c) ==
    UNCHANGED << synced, cu >> /\ unsynced' = [unsynced EXCEPT ![c] = {}]

\* cmode_sync: the cookie of the channel is newer than those of its members.
Sync(c) ==
    /\ synced' = [synced EXCEPT ![c] = TRUE]
    /\ cu' = [cu EXCEPT ![c] = [v \in DOMAIN @ |-> [@[v] EXCEPT !.current = FALSE]]]
    /\ unsynced' = [unsynced EXCEPT ![c] = {}]

ModeDone(c, p) ==
    /\ modes' = [modes EXCEPT ![c] = p.m]
    /\ Sync(c)
    /\ UNCHANGED << invites, channels, invited, users, ident, aborted, serverMade >>

\* c_a_mode by a local user
Mode(u, c, cmd) ==
    /\ u \in users \cap Local /\ Alive(c) /\ Count
    /\ ModeDone(c, Process(Setting(modes[c], cmd.args, IsOp(c, u), FALSE, OpOf(u)),
                           cmd.letters))

\* c_a_mode and c_r_tmode by a remote source; TMODE leaves m.flags as it was
\* on the stack, so MODE_FORCE_ALL may be set or not.
RemoteMode(u, c, cmd) ==
    /\ u \in users \ Local /\ Alive(c) /\ Count
    /\ \E force \in BOOLEAN :
          ModeDone(c, Process(Setting(modes[c], cmd.args, TRUE, force, OpOf(u)),
                              cmd.letters))

\* c_s_bmask: the masks go in without a new cookie, and the channel is made
\* if there is none.
Bmask(c, l, mask) ==
    LET m == IF Alive(c) THEN modes[c] ELSE NewModes
    IN  /\ Count
        /\ modes' = [modes EXCEPT ![c] = [m EXCEPT !.list[l] = @ \cup {mask}]]
        /\ serverMade' = IF Alive(c) THEN serverMade ELSE serverMade \cup {c}
        /\ unsynced' = IF l = "q" THEN [unsynced EXCEPT ![c] = Users] ELSE unsynced
        /\ UNCHANGED << synced, cu, invites, channels, invited, users, ident, aborted >>

\* A user of a mask changes: NICK, by the user or from another server.
Nick(u, i) ==
    /\ u \in users /\ i # ident[u] /\ Count
    /\ ident' = [ident EXCEPT ![u] = i]
    /\ unsynced' = [c \in Chans |->
                       IF Alive(c) THEN unsynced[c] \cup {u} ELSE unsynced[c]]
    /\ UNCHANGED << modes, synced, cu, invites, channels, invited, users, aborted,
                    serverMade >>

-----------------------------------------------------------------------------
\* The answer of u_is_muted when it is worked out
Muted(c, u) ==
    modes[c].status[u] = {} /\ (InList(c, u, "q") \/ "m" \in modes[c].flags)

\* message_chan: u_is_muted keeps its answer until the cookie changes.
Message(u, c) ==
    /\ u \in MembersOf(c) \cap Local /\ ~cu[c][u].current
    /\ cu' = [cu EXCEPT ![c][u] = [muted |-> Muted(c, u), current |-> TRUE]]
    /\ unsynced' = [unsynced EXCEPT ![c] = @ \ {u}]
    /\ UNCHANGED << modes, synced, invites, channels, invited, users, ident, aborted,
                    serverMade, ops >>

\* WHO <nick>: who_reply leaves its loop over the user's channels at the first.
Who(u) ==
    /\ u \in users /\ channels[u].live \cup channels[u].null # {} /\ Count
    /\ channels' = [channels EXCEPT ![u].open = TRUE]
    /\ UNCHANGED << modes, synced, cu, invites, invited, users, ident, aborted,
                    unsynced, serverMade >>

\* dump_chan and restore_chan: the maps of the users are made again from those
\* of the channels; cookies and CU_MUTED are saved.
Upgrade ==
    /\ channels' = [u \in Users |->
            [live |-> {c \in Chans : u \in MembersOf(c)}, null |-> {}, open |-> FALSE]]
    /\ invited' = [u \in Users |-> {c \in Chans : u \in invites[c]}]
    /\ UNCHANGED << modes, synced, cu, invites, users, ident, aborted, unsynced,
                    serverMade, ops >>

Membership ==
    \E u \in Users, c \in Chans :
        \/ \E key \in Keys \cup {None} : Join(u, c, key)
        \/ RemoteJoin(u, c) \/ Part(u, c) \/ Who(u) \/ UserDestroy(u)
        \/ \E by \in users \cup {None} : Kick(by, u, c)
        \/ \E by \in users : Invite(by, u, c)

Settings ==
    \E c \in Chans :
        \/ \E u \in Users : Message(u, c)
        \/ \E u \in Users, cmd \in {x \in Commands : x.chan = c} :
              Mode(u, c, cmd) \/ RemoteMode(u, c, cmd)
        \/ \E l \in BmaskLists, mask \in Masks : Bmask(c, l, mask)
        \/ \E u \in Users, i \in Idents : Nick(u, i)

Next == ~aborted /\ (Membership \/ Settings \/ Upgrade)

Spec == Init /\ [][Next]_vars

-----------------------------------------------------------------------------
(* A channel has settings of its kinds and one u_chanuser for every member. *)
TypeOK ==
    /\ DOMAIN modes = Chans /\ DOMAIN cu = Chans /\ synced \in [Chans -> BOOLEAN]
    /\ \A c \in Chans : MembersOf(c) \subseteq Users
                         /\ (Alive(c) => modes[c] \in ModesRec(MembersOf(c)))
    /\ \A c \in Chans : cu[c] \in [MembersOf(c) -> [muted : BOOLEAN, current : BOOLEAN]]
    /\ invites \in [Chans -> SUBSET Users] /\ invited \in [Users -> SUBSET Chans]
    /\ channels \in [Users -> [live : SUBSET Chans, null : SUBSET Chans, open : BOOLEAN]]
    /\ users \subseteq Users /\ ident \in [Users -> Idents] /\ aborted \in BOOLEAN
    /\ unsynced \in [Chans -> SUBSET Users] /\ serverMade \subseteq Chans /\ ops \in 0..MaxOps

(* Channels and users point at each other: a membership or an invitation   *)
(* is in both maps or in none, and nothing points to a channel that was    *)
(* dropped or to a user that is gone, in whatever order they went.         *)
BothWays ==
    \A c \in Chans, u \in Users :
        /\ (u \in MembersOf(c)) = (c \in channels[u].live)
        /\ (u \in invites[c]) = (c \in invited[u])
        /\ u \in MembersOf(c) \cup invites[c] => u \in users
        /\ u \in invites[c] => Alive(c)

(* A channel goes with its last member: one without members was made by a  *)
(* BMASK and nobody has joined it yet.                                     *)
NoEmptyChannel ==
    \A c \in Chans : Alive(c) /\ MembersOf(c) = {} => c \in serverMade

(* The process stops in u_map_set or on a null chanuser only if a WHO left *)
(* a loop open, never by the loops that remove channels and users.         *)
AbortsByWhoOnly == aborted => \E u \in Users : channels[u].open

(* A member that may not speak is known as such, unless the quiet list or  *)
(* the member's name changed since the channel's cookie was last advanced. *)
MutedRight ==
    \A c \in Chans : \A u \in MembersOf(c) \ unsynced[c] :
        cu[c][u].current => cu[c][u].muted = Muted(c, u)

(* A key without data is in a user's map of channels only while a loop     *)
(* over the map is open.                                                   *)
NullKeysWait == \A u \in Users : channels[u].null # {} => channels[u].open

(* The cookie of a channel is first advanced by its first mode command:    *)
(* until then nobody is muted and every answer counts as current, but for  *)
(* masks that came in a BMASK.                                             *)
FirstCookie ==
    \A c \in Chans : IF synced[c] THEN Alive(c) ELSE
        /\ \A u \in MembersOf(c) : cu[c][u] = [muted |-> FALSE, current |-> TRUE]
        /\ Alive(c) => "m" \notin modes[c].flags
        /\ Alive(c) /\ modes[c].list["q"] # {} => unsynced[c] = Users

IInv ==
    /\ TypeOK
    /\ BothWays
    /\ NoEmptyChannel
    /\ NullKeysWait
    /\ AbortsByWhoOnly
    /\ FirstCookie
    /\ MutedRight

(* Wherever a JOIN ends, through however many forwards: the user is let in *)
(* by that channel itself, and an invitation serves once.                  *)
EntryKept ==
    [][\A c \in Chans, u \in Local :
          Alive(c) /\ u \in MembersOf(c)' \ MembersOf(c) =>
            LET asked == u \in invites[c]
            IN  /\ "i" \in modes[c].flags => asked \/ InList(c, u, "I")
                /\ InList(c, u, "b") => InList(c, u, "e")
                /\ modes[c].limit = None \/ asked
                   \/ Cardinality(MembersOf(c)') <= LimitOf[modes[c].limit]
                /\ u \notin invites[c]']_vars

(* What a MODE of a local user announces to other servers, processed by a  *)
(* server in the same state, has the same effect: the letters use up the   *)
(* parameters they were announced with.                                    *)
Replays ==
    \A u \in users \cap Local, cmd \in Commands, force \in BOOLEAN :
        LET c == cmd.chan IN Alive(c) =>
          LET here == Process(Setting(modes[c], cmd.args, IsOp(c, u), FALSE, OpOf(u)),
                              cmd.letters)
              there == Process(Setting(modes[c], here.args, TRUE, force, OpOf(u)),
                               here.told)
          IN  there.m = here.m
=============================================================================
