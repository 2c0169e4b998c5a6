# A TLA+ model of ircd-micro

ircd-micro is an IRC daemon with TS6 server linking: one process, one thread,
an event loop.  This directory holds specifications of its parts, the TLC
configurations that check them and the TLAPS proofs about them.  Paths below are
relative to the repository (`src/link.c` is the daemon's `src/` directory).

## 1. Inventory

One thread does not make the daemon simple.  Calls nest: a handler queues a
line, the line overflows a send queue, that ends another link, whose farewell is
sent to everyone again, and then every caller goes on with what it had left.
Objects are freed in the middle of this.  Sockets fail, resolvers answer late,
and `/upgrade` replaces the process in the middle of a command.

| component | state | operations | correct when |
|---|---|---|---|
| send queues, `src/sendq.c` | chunks of a queue, pool of free chunks, size | get/end buffer, clear, write (gather, writev, reap), dump, restore | every queued byte leaves once and in order; `size` is exact; promised room exists; the pool keeps its limit |
| connections, `src/conn.c` | state, poll callbacks, DNS query, cleanup list | accept, connect, recv, send, shut down, errors, rdns, cleanup, dump, restore | polled for what the state needs; listed when it awaits cleanup; not active again once it closes; drained before cleanup; freed in the end |
| links, `src/link.c` | input buffer, flags, identity, limit | data ready, dispatch, line out, sendq full, fatal, end of stream, rdns, dump, restore | each line once and in order; not before the host name; one farewell; identity gone before the link |
| setup and teardown commands, `modules/core/{pass,nick,user,ts6init,quit,kill,squit,upgrade}.c` | the link's identity | one handler each | as links |
| command dispatch, `src/msg.c` | command table | source, lookup, repeat, ENCAP, propagation | a line reaches the handler its sender may use, once |
| fan-out, `src/sendto.c`, `src/cookie.c` | cookie, shared line buffers, marks on links | start, skip, send, iterators | each receiver once, also when calls nest |
| maps, `src/map.c` | AA tree, iteration depth, pending deletions | get, set, del, each, iterators | tree stays a search tree; deletion while iterating is safe |
| users, `src/user.c` | users by uid and by nick | create, register, nick, destroy, dump, restore | one user per nick; tables agree with users |
| servers, `src/server.c` | tree of servers | create, burst, squit, dump, restore | a tree; users and servers behind a lost link go with it |
| channels, `src/chan.c` | members, invites, lists, modes, mute cache | join, part, kick, mode, invite, drop | membership is symmetric; no empty channel; cached mutes are right |
| SJOIN, `modules/core/sjoin.c` | timestamps | three TS rules | servers agree after a burst |
| modes, `src/mode.c` | stackers | process | what is announced is what was changed |
| rate limits, `src/ratelimit.c` | tokens | allow, credit, dump, restore | a flood is refused, and tokens stay within their limit |
| upgrade, `src/upgrade.c` | the dump | begin, finish, abort | the successor has the state of its predecessor |
| modules and hooks, `src/module.c`, `src/hook.c` | loaded modules | load, unload, reload | no command outlives its module |
| authorization, `src/auth.c` | auth, class, oper and link blocks | lookups | the first block that matches |

How they interact: the event loop calls `conn.c`, which calls `link.c` through
`u_conn_ctx`; `link.c` calls command handlers through `msg.c`; handlers change
users, servers and channels and send lines through `sendto.c` and `u_link_f`,
which write into send queues and sync the poll interest; `conn.c` writes queues
out.  An upgrade walks users, servers and channels and takes their links,
connections and queues along.

The hazards this code has, each at its line, are in `PROJECT.json` with the
properties that would catch them; those without a property say why.

## 2. Plan

| module | of | state |
|---|---|---|
| `SendQ` over `ByteStream` | send queues | checked and proved |
| `Conn` | connections | checked and proved |
| `Link`, composed with `Conn` | links | checked; all safety proved |
| `UMap` over `Dictionary`, with `AATree` | maps | checked and proved |
| `Sendto` | fan-out, cookies, nested calls | checked and proved, but for liveness |
| `Chan` with `Modes` | channels, MODE | checked and proved |
| `Net` | servers, users, nicks, SJOIN between servers | checked; safety of each server and `ServersAgree` proved |
| `Commands` | registry, dispatch, modules, rate limit | checked and proved |

The proofs are in modules of their own: `SendQProofs`, `ConnProofs`,
`ChanProofs` (with those of `Modes`), `LinkProofs`, `UMapProofs` (with those of `AATree`), `SendtoProofs`, `NetProofs`
and `CommandsProofs`.

What is left, in this order: the users of `Net` once nothing is under way (`UsersAgree`,
`NoGhosts`), for which every EUID, NICK, QUIT and KILL on a wire has to be followed as the
proof of `ServersAgree` follows SID and SQUIT; the order in which an upgrade restores servers,
users and channels; ENCAP and its propagation.

## 3. What is modelled

### ByteStream
What a queue promises: bytes, named by position, leave from the bottom in order.

### SendQ (`src/sendq.c`)
A chunk is its two cursors and the stream position of its byte 0; the data are not
needed, since a byte is its position.  `u_sendq_write` and `u_sendq_from_json` are
loops, and run one iteration per step (`pc`, `cur`).  `Dump` is a whole upgrade: the
chunks of every queue become one string (`coded`) and `RestoreBlock` is a turn of the
decoding loop, with blocks of `BlockSize` (3996) bytes in chunks of `ChunkSize` (4000).
`written` and `sent` are history.  Base64 is taken to keep the bytes.  The refusal of
`u_sendq_get_buffer` above 4000 bytes is outside: its callers ask for 512 or 4000.

### Conn (`src/conn.c`)
A record per connection: state, poll interest for reading and writing, queue length
in *units* (a line), pending DNS query, places in `awaiting_cleanup`.  A handler that
calls its owner and goes on afterwards is two steps: the event leaves the rest in
`cont`, `Return` does it, and between them the owner may make the calls of
`Connect`, `Send`, `Close` and `Drop`, on any connection and in any state: `u_conn_shut_down`
asks nothing, and `link.c` does close what is closing or awaits cleanup.  The latter shuts
down again while it is in the list of deletions (`again`) and comes to be there twice, which breaks
the list: `CleanupPass` then loses the process (`ub`).  `carried` marks a connection
that was closing when the process upgraded; it is in no list any more.  `u_conn_recv` on a
connection that may not be read returns 0 and changes nothing; `u_conn_send` is a stub.
`MaxSends` bounds the units an owner queues in the life of a connection, for TLC; 0 is no
bound, which is how `Link` instantiates the module.

### Link (`src/link.c` and the handlers that decide about a link)
One link over one connection (the operators of `Conn` applied to one record).  A unit of
the buffer is a line, or a piece of one without an ending (`part`).  `todo` holds what
the calls on the stack have left, innermost first, as a sequence of operations:
`exceptional_quit` is `exq`, a line out is `send` or, when it reads the link's user or
server, `sendu`, the fan-outs of the farewell are `tell_users` and `tell_servers`, and so
on.  A line handler is such a program put before the rest of `dispatch_lines`.
`Others` are handlers of other links: a line for this one, KILL, SQUIT, the loss of an
unregistered nick.  Identities may be refused, banned or fail verification by choice.

`ub` says that the process is lost.  It becomes true when freed memory is used (a line
dispatched for a user that is gone, a line that reads one, a second `destroy`, a connection
freed twice), when
the dump of an upgrade reads the link block of an incoming server link, which is null,
and when the successor refuses a full input buffer.  Nothing is claimed after it: the
properties speak of the states before, and the liveness properties name it.

Abstracted: the 512-byte estimate of `u_link_vf` is one unit and so is every line; an
unparsable line is one more line without effect; CAP negotiation (`USER_MASK_WAIT`) delays
registration, which the model may do anyway; a rate-limited command is one with no
effect; a burst is one line.

### UMap and AATree over Dictionary (`src/map.c`)
`AATree` has the tree as a value and its algorithms as the recursions they are in
C (`skew`, `split`, `aa_insert`, `aa_delete` with its swap of keys), each a recursive
function over `Tree`, the trees at most as high as there are keys.  `n_cmp` is the difference of two keys
in an int of `2 * HalfInt` values, as the code truncates it; `UMapNear` is `UMap` for keys near
enough to each other for it to be their order (`KeysNear`), and `MCUMapFar` has others.  `UMap` has the map
with its size, its depth of iteration and its pending deletions.  `frames` is the stack of
loops: `u_map_each` runs by recursion, `U_MAP_EACH` queues nodes; both are stepped so that
their bodies can delete keys and start other loops, and a body may leave its loop
(`IterBreak`).  A key whose deletion waits is found and may be deleted again, which takes one
more from the size (`twice`, bounded by `MaxTwice`).  A loop of the second kind inside another on the same map would share the
queue's link fields in the nodes; here that is excluded by a guard, and `Sendto` has it.
`Dictionary` is what callers rely on.

### Sendto (`src/sendto.c`, `src/cookie.c`)
`stack` has the calls in progress, the innermost first.  A step is one receiver: skipped
by its mark or type, queued, refused since its link is gone, or overflowing.  The last one
puts `exceptional_quit` on the stack: a fan-out to those who see the user, one to the
servers, and the destruction; for a server all its users, one after the other.  The shared
state is the cookie, the two line buffers (the number of the call that filled them) and,
for every member of a channel, the link field its node is queued by.  `Tick` is the clock,
which may be set back between calls; `Upgrade` keeps the marks and resets the cookie.
`Order` gives every table of libmowgli an order.  The keys of a members map are in one of the trees
that `Trees` allows for them (`tree`), of any shape; when keys are deleted they may come to be in any other
(`Replant`), which is all that rotations can do to an iterator.  `EachNext` queues the
children of a node as the code does.  What insertions and deletions do to a tree is `UMap`'s
matter, and so is that keys are found: here a member who leaves is found in the map.
A call is `alone` until another call begins inside of it; it stays so while the
frames above it have only been put on the stack.
`lost` says that freed memory was read.  A loop over a patricia table is taken to hold its
next element, and to drop elements that were deleted.

### Chan and Modes (`src/chan.c`, `src/mode.c`, `modules/core/{join,part,kick,invite,mode,bmask,message,who}.c`)
`modes[c]` is the channel, with the status of its members; `cu`, `channels`, `invites` and
`invited` are the other maps of the pair, so that a pointer left over is a difference
between two variables.  `Modes` has one operator per kind of mode, and `Process` the loop:
a setting in progress has the parameters that are left and what was put aside for the
servers (`told`, `args`).  The cookies of mute caching are reduced to whether a member's is
as new as its channel's (`current`); `unsynced` is history, and says whose muting
changed by something that does not advance the cookie: BMASK of a quiet, or a change of
nick.  `channels[u].open` is the loop that WHO left.

Abstracted: masks match a set of identities; keys and limits are members of small sets;
extended bans are masks.  MODE reads up to five parameters, and the instance's commands have
fewer.  Timestamps, by which TMODE, BMASK and INVITE may be dropped, are left to `Net`.

### Net (`src/server.c`, `src/user.c`, `modules/core`)
`srv[s]` has the tables of server s, `wire` the lines on their way, `link[s][t]` what s
has for its link to t, through PASS and SERVER to "on".  A handler takes the first line of
a wire, changes the tables and queues what it tells others: those it treats as linked, the
sender excepted.  A connection that breaks loses any number of the last lines in one
direction and all in the other.  The burst is put on the wire when SERVER arrives, in the
order of the code: servers by name, users, channels.  One channel with a flag, operators
and a timestamp stands for all of them.  `Die` is a null pointer that is read (NICK of a user
or SID of a parent that is not known); its peers
get a part of the lines it had written.  `Below`, the servers behind one, is the smallest
set closed under "is linked through", since `u_server_unlink` walks the tree to its end.

`TreeAssumption`: a line parts the network in two (`Splits`), so that no two ways lead from one
server to another.  The protocol relies on operators for that: a SID says which server is behind
which, and `u_server_new_remote` would make a second record of a server it hears of twice.  `IInv`, `NickTable` and
`TsFalls` hold without it; `ServersAgree` is about such a network.

### Commands (`src/msg.c`, `src/module.c`, `src/ratelimit.c`, `modules/core/module.c`, `modules/extra/alias.c`)
`reg` has the pointers of the registry as they are in memory: the first command of every
name, and `next`, `prev`, `owner` and `loaded` of every command.  Loading and unloading
work on these; `Forget` is the memory of a module that was unmapped.  A line is stepped in
rounds (`Round`), between which a handler that asks for a repeat has changed the type of
the link.  The rate limit has the arithmetic of the code: unsigned tokens, division that
truncates, a clock that may be set back.  The dump of a limit and the tokens of WHO (which no
command with a rate reads) are left out.  The loops over a module's table and over lists
are recursive functions, one round a step.

`TableAssumption` and `RepeatAssumption` are what the `u_cmd` tables of the repository
have: every module its own commands, none of which overlap; `extra/alias` none; and a
command that asks for a repeat (`PASS`, `CAP`, `USER`, `NICK`) serves only the first line of
a link and is followed in its table by one that nothing else overlaps.  An alias named
`CAP` would overlap that one; `core/cap` is loaded before the aliases are read and refuses
it, so that it is left out.

## 4. Runs

| run | checks | bounds, and why they are enough |
|---|---|---|
| `sendq` | `IInv`, `RoomPromised`, `OffersBytes`, `ImplementsStream` | two queues, 3-byte chunks, blocks of 2, 2 iovecs, a pool of 1, 4 bytes each: more chunks than iovecs and pool hold; writes end inside, at and across chunk ends; a block is smaller than a chunk, as in the code (3996 and 4000) |
| `conn` | `PollInterest`, `Drained`, `ClosesInTheEnd`, `OutputMoves` | two connections (callbacks of one call into the other), closed at any time, twice and more; 2 units each |
| `link` | `IInv`, `LinesExact`, `NoLineBeforeHostName`, `LinesServed`, `ClosedIsFreed`, `Goodbye`, `ImplementsConn` | all kinds of lines, 4 of them, enough to register, upgrade or quit, and have a line left; a buffer of 2 units and reads of up to 2, so that lines come in pieces and the buffer is full; a sendq limit of one line, so that the farewells of QUIT, KILL, ERROR and SQUIT overflow; one step by others; lines after the close are dispatched |
| `umap` | `VisitsAllOnce`, `DeletionsWait`, `ImplementsMap` | 6 keys, the fewest for which a deletion rotates on two levels; loops over maps of 3 keys, two at a time; one deletion of a key that waits; an int of 12 values, so that all keys are near |
| `sendto` | `ExactlyOnce`, `FreshCookie`, `Settled`, `Returns` | two channels that share two members, a server link with two users, a second server link; one channel's members in a list, the other's in a list or a balanced tree; 2 calls by commands, 2 overflows, so calls nest three deep; clock of 2 values |
| `chan` | `IInv`, `BothWays`, `NoEmptyChannel`, `MutedRight`, `Replays`, `AbortsByWhoOnly`, `EntryKept` | a local and a remote user, two channels that may forward to each other, 6 MODE commands with every kind of mode, 3 counted commands |
| `net` | `IInv`, `NickTable`, `ServersAgree`, `UsersAgree`, `NoGhosts`, `TsFalls` | a chain of three servers, the first two linked at the start; three users, one not registered yet, two nicks (so that they collide); 2 steps by users and operators, one broken connection, timestamps 1 and 2 |
| `commands` | `TypeOK`, `RegistrySound`, `NoRepeatAbort`, `OthersStay` | six modules and 12 commands, with three names shared by modules, one overlap; tokens up to 2, clock 0 to 2, wrap at 8 |

`Goodbye` and `ClosedIsFreed` leave out identities made on a connection that was closing
(`late`), and `Goodbye` is not about a process that is lost before the link is freed; what happens
then is under "With a configuration" below.  `ImplementsConn` goes up to the
step that loses the process.
`ServersAgree`, `UsersAgree` and `NoGhosts` are about a network where nothing is under way
and no SQUIT or KILL has crossed a newer link to its target (`crossed`).
`ExactlyOnce` is about calls that no other call ran inside of; `fanout_nested` shows the
others.  Deadlock is not checked where the bounds on commands let a model stop (`umap` stops
when the process has aborted, `sendto`, `chan` and `net` when the counted steps are used up).

Where the code does not do what its comments say, a run shows it:

| run | comment | what happens |
|---|---|---|
| `link_deleted` | `include/conn.h:51`, it "will be deleted soon" | an ERROR line that overflows the queue closes the connection twice and lists it twice |
| `commands_flood` | `src/ratelimit.c:38`, "Subtract tokens" | nothing is subtracted: a user sends more lines than its tokens pay for |
| `fanout_nested` | `include/sendto.h:27`, each function "sends message to the various places" | a receiver overflows inside a fan-out; its farewell clears the line and advances the cookie, and the outer call goes on with the inner one's line, or sends twice |
| `sjoin_modes` | `modules/core/sjoin.c:211`, "Wipe all local modes and statuses" | the removal is announced to users, and the server keeps the flag |

With a configuration of its own, not among the runs; `tlc -config X.cfg M` finds the property violated:

| configuration, module | property | comment | what happens |
|---|---|---|---|
| `MCLinkKill.cfg`, `MCLink` | `NoQuitForKill` | `doc/ts6-summary.txt:65`, QUIT, "don't send for KILL" | the QUIT line that KILL queues for its target overflows: `exceptional_quit` announces a QUIT as well and destroys the user whom KILL goes on with |
| `MCLinkOwner.cfg`, `MCLink` | `OwnerOutlivesLink` | `include/user.h:69`, the link of a user is "never null, except when shutting down" | NICK arrives, then the end of the stream, then the host name (`src/conn.c:249`): the user is made after the farewell and is there when its link is freed |
| `MCLinkCarried.cfg`, `MCLink` | `DeletedSoon` | `include/conn.h:51`, as above | an upgrade restores the connection of such a user as awaiting cleanup, and in no list (`src/conn.c:601`): it stays for ever |
| `MCUMapFar.cfg`, `MCUMapFar` | `FindsKeys` | `src/map.c:165`, "standard binary search tree operations" | `n_cmp` truncates the difference of addresses to an int (`src/map.c:44`); of keys 2^31 or more apart some are not found after rotations |

More of what the modules say of the code, and reading confirms, without a run of its own:

- `dispatch_lines` (`src/link.c:193`) never looks at the state of the connection: lines after QUIT still
  run, for a user that is gone (`ub`).
- A node of the tree with only a right child keeps level 2 (`src/map.c:235`): after some
  deletions the height exceeds that of an AA tree (`UMap!Balanced` fails for nine keys); lookups stay right.
- WHO of a nick leaves a loop open (`modules/core/who.c:19`): the user's next JOIN aborts the process, a
  PART and then QUIT read a null pointer.  `AbortsByWhoOnly` shows that nothing else does.
- A clock that was set back makes the tokens of the rate limit wrap or vanish (`src/ratelimit.c:30`), and
  then the user is refused until it pauses for a period: the only way to be refused at all.
- NICK of an unknown user (`modules/core/nick.c:81`) and SID with an unknown parent (`modules/core/sid.c:11`)
  read a null pointer; both are in `Net` (`Die`).
- SJOIN whose members have all left relays a buffer that was never written (`modules/core/sjoin.c:158`); `Net` stops
  there.  A remote JOIN ignores timestamps and channels that are not there
  (`modules/core/join.c:117`).
- A SQUIT or KILL that crosses a reconnect removes what the other side has just learned of
  (`modules/core/squit.c:51`, `modules/core/kill.c:30`).
- A nick that is taken is not refused from another server, nobody is killed
  (`src/user.c:248`): two users have it, and the table leads to one of them, until one leaves and
  it leads to nobody.
- A line whose source cannot be resolved keeps every bit of its mask (`src/msg.c:298`): it may reach
  a handler of unregistered links.  That a repeat does not abort then depends on the
  order in which commands were registered (`NoRepeatAbort`).
- Reloading `extra/alias` loses the aliases of the configuration; a command that was refused
  for an overlap stays away when the other one goes.

### Fairness
The event loop never stops (`u_conn_run`), so handlers return, calls finish and listed
connections are cleaned up: weak fairness of `Return`, `Run`, `CleanupPass` and `Cleanup`, and of
`Step` in `Sendto`, where a step is the process executing its next call.  The
resolver answers or times out: weak fairness of `RdnsCallback`.  A peer whose socket is
polled for writing again and again takes data or its socket fails: strong fairness of
`Writable`, strong because an owner that queues more, or an upgrade, may interrupt the
polling.  The code does not enforce the last one; there is no ping timer
(`src/main.c:65`), so it is an assumption about peers.  Reading is not fair: peers may be
silent.  `UMap`, `Chan`, `Net` and `Commands` have no liveness properties: their handlers are
single steps, and that a network comes to rest is left to TCP.

One pass of the event loop may dispatch several events before the cleanup pass; this is
how libmowgli's pollers work, which are external (a submodule), so cleanup is an action of
its own that may come late.

## 5. What is proved

`SendQProofs` (for every chunk size, block size up to it, number of iovecs, pool limit,
amount of data and set of queues, under `SendQAssumption`):
`IInv` adds to the properties the state of the loops between two turns (`LoopState`).
Its parts `TypeOK`, `SizeExact`, `ChunkBounds` and `Contiguous` are named in `SendQ` and
proved from it; the run checks `IInv` as a whole.  `Contiguous` alone is not inductive: while chunks are reaped the head is behind by the
bytes in flight, so the invariant must bind `todo` to the chunks, and to know that
`writev` cannot take more than there is it must bind `avail` to the first `niov` chunks.
`RoomPromised` is what makes the clamp of `u_sendq_end_buffer` dead code, and `ChunkBounds`
is needed for it.  `OffersBytes` follows: only the tail may be empty.  `QueueIsStream`
maps `NextOut`, the position at the head cursor plus what is in flight, to the stream and
shows each step to be a `Put`, a `Take` or a stutter.

`ConnProofs` (for every set of connections, every bound on sends, and an owner that calls what it
wants when it wants): `IInv` is `TypeOK`, `PollInterest` and `ContState`.  `PollInterest` needs
`ContState`: that the connection whose handler is in its second half is there, and has failed if the
owner was told so.  That it is in the list once is under `~again`, since a second shutdown of one that awaits cleanup
lists it twice, and what a closing connection is polled for under `~carried`.  `LifeCycle` and `Drained`
are action properties proved from the same invariant, one lemma per function of `conn.c`.

Recursion.  The provers cannot use the library's induction theorems, which take an
operator.  They can use sets: `IndexInduction` is induction about a set of numbers up to a
bound, from the least number outside it, and `StepsExist` that a function defined by steps on
0..b exists and has its steps, by that induction.  The recursive functions of
`Modes`, `Chan`, `Net`, `Commands` and `UMap` are reasoned about through these two, with which
`ChanProofs`, `NetProofs`, `CommandsProofs` and `UMapProofs` begin; no module declares a
`RECURSIVE` operator.

`ChanProofs`, part 1, is about `Modes`.  `ProcessReplays` relates two runs of a loop: `u_mode_process` on the server
of the user, with the parameters and the access the user has, and the loop over what it
announced, forced, on a server in the same state.  The invariant of the double run is
that after every letter both have the same settings and the second has used up exactly
the parameters put aside so far.  One lemma per kind of mode shows a letter to keep it;
the delicate ones are a list that is full (nothing is announced, nothing may change) and a
key or a limit that is taken away (announced with or without a parameter).

`ChanProofs`, part 2 (for any sets of users, channels, masks, keys, limits and MODE commands, under
`ChanAssumption` and `ModesAssumption`; users are a finite set): `IInv` is `TypeOK`,
`BothWays`, `NoEmptyChannel`, `AbortsByWhoOnly`, `MutedRight`, and two parts that the run
does not name.  `FirstCookie` is needed for `MutedRight`: until the first mode command
advances a channel's cookie every answer counts as current, the one a new member starts
with, too, which is right only if nothing could have muted anybody before.
`NullKeysWait` is needed for `AbortsByWhoOnly`: a key without a chanuser is in a user's map
only while a loop over it is open, and the loop that never ends is the one of WHO.
`Replays`
follows from `ProcessReplays`; `EntryKept` by induction over the forwards of a JOIN.

`LinkProofs` (for any commands, sizes and limits): `IInv` is `TypeOK`, `LinesExact`,
`SkipInBuffer` and `NamePending`.  The last one says that while the host name is looked up
the link waits, or an operation of the stack makes it wait before any dispatch of the
stack runs; without it `NoLineBeforeHostName` is not inductive, since the notice of
`on_rdns_start` is queued before its flag is set, and after an upgrade the restored
dispatch is already on the stack behind both.  `LinesExact` needs lemmas about the
lines complete in a buffer when a piece is joined, taken out or skipped.
`RefinesConn` (`ImplementsConn`) needs `CallsFit`, the calls that are left fit the
connection: none is left when it is gone, and a process replaces itself only where conn.c
is not in the middle of a handler.  `FarewellOnce` (`Goodbye`) needs three more invariants,
which with it are `Parting`.  `LoopLast`: the loop of `dispatch_lines` is the outermost call,
so that a handler finds no other call behind it and an upgrade leaves no farewell half done.
`ConnFits`: how the connection follows the handlers of conn.c.  `IdentityFits`: while a link
is over and its identity lives, a destruction of it is due, now or in an `exceptional_quit`
that will find its flag clear; and as long as one destruction is due or done, the
announcements made and those still on the stack are one to users (of a user) and one to
servers.  With two it claims nothing, because then the process is lost
(`NoQuitForKill`, section 4).  The stack
is counted (`Numbers`): closes, farewells, destructions and announcements of a program
before another are the sums, and each kind of call changes the sums by its own.

`UMapProofs` (for any finite set of integer keys, any data and bounds, under `AATreeAssumption`,
`UMapAssumption` and `KeysNear`: no two keys are further apart than an int can say.  That is
what strings and addresses within 2^31 bytes keep and the code does not see to; without it the theorems are
false, as `MCUMapFar` shows).  Part 1 shows that `n_cmp` is then the order of the keys, and that the recursive functions of `AATree` are what their
equations say, by induction on the height of a tree.  Part 2 says what a tree *holds*: a map m that
gives every key the set of its data, empty when the key is not there.  `Holds` is the smallest set of pairs
closed under putting a root over two trees with lesser and greater keys, so that it has its own
induction (`TreeInduction`), in which levels play no part: `Skew`, `Split`, `DecreaseLevel` and hence
`Rebalance` keep what a tree holds whatever the levels are (`RebalanceSame`), which is why the
level that the code gets wrong does no harm.  Part 3 has one theorem per operation: `FetchFinds`,
`SetDataHolds`, `InsertHolds`, and `DeleteHolds`, by induction on the height and not on the tree, since
`aa_delete` goes on with a subtree in which the neighbour's node has taken the key that is to go
(`RekeyHolds`), and that subtree is in order only for the key that went.  Part 4: `IInv` says that the tree holds some m,
that `size` is the number of keys with data, that the keys without are those of `pending`
while the depth is above 0, and that every frame *covers* the keys of the map: what it has
seen, each key once, and what it will meet, disjoint, are all of them.  A frame of
`u_map_each` meets the keys in its list, one of `U_MAP_EACH` everything below its nodes, hence
`BelowSplits` (a visit trades a node for its key and what its children have below them) and
`SetDataBelow` (a deletion that waits changes nothing below any node).  The end of the
outermost loop is an induction over the list (`DeletePendingHolds`).
Part 5: `VisitsRight`, `DeletionsRight`, and `MapRefines`, the refinement of `Dictionary`.

`SendtoProofs` (for any finite sets of users, channels and server links, any memberships, and any
bounds on calls, overflows and time, under `SendtoAssumption`; names of users, channels and
links are different things): `IInv` is about four matters.  *Types*: what the frames on the stack are
about, and that whatever a step puts on it has not begun.  *Marks* (`Marked`): unless the clock was set back or an
upgrade was quick, every mark is the current cookie, an older one, or from an earlier second,
so that the next cookie is later than all (`FreshCookie`).  *Members* (`Counted`, `Tables`): the depth of a channel's
map is the number of frames that loop over it, for the channels that are there, and
a key without data belongs to a user who is gone (`Settled`).  *The call on top* (`OnTop`,
`Alone`): below the top no call is alone unless the top has yet to begin, and a call on top that is
alone has its own line in both buffers, has sent it to links that it marked and to no
other, and every link it is for is marked or *ahead*: behind a member its iterator has yet to
reach, or in a channel or among the servers it has yet to come to.  For that the queue of
the iterator is described exactly (`Queue`): when a - 1 nodes of the tree have left it, it holds those from
number a to the last that was met, in the order of the levels and chained in both directions, whatever
the shape of the tree (`LevelOrder`, `NextQueue`).  `Planted` says that the keys of every map are in a tree
of theirs; it is what a step may rely on when deletions have changed the tree.  A loop ends when its queue is empty, which is then
seen to be past the last node; so nobody is ahead, and `ExactlyOnce` follows.  A member that is gone is
still a key; what keeps a link that the call is not for from being marked is `Tables`,
and that the model stops where freed memory is read.

`NetProofs` (for any servers, users, nicks, homes and lines, under `NetAssumption`, with no
bound on what is on the wires): `IInv` is `TypeOK`, and for every server that its tables are
sane (`Sane`: the entries of users and servers are right, the nick table leads to users
with that nick, the channel has members that are known, and `NoOrphans`), and two parts
about the whole network: `QuitsTrue`, that a QUIT on a wire is of a user who left, and
`AtHome`, that a user who did not leave is known to his server.  These two are what
keeps a server from dropping its own user because of what another one says.  One lemma per
handler; `NickTable` and `NoOrphans` are read off, `TsFalls` follows from each handler.

`NetProofs`, second part (`ServersAgreeAtRest`, under `TreeAssumption` too).  When nothing is
under way, a server knows exactly the servers that registered links lead to.  `IInv` says too little for
that: what counts is every line on every wire.  `NetInv` has three conjuncts.  `Rooted`: the
parent of a server is the next one on the way to it, a neighbour is known exactly when its link has
passed PASS, and nothing is known behind a neighbour that has not registered.  Servers that
ended have no links.  And for each direction of each line `Edge`: let s handle all lines that are under way
from t (`Ends`, a fold of `Step` over the wire).  Then either the process of s ends on the way, for a SID behind a
server that it has forgotten; or s has the link registered, and knows of t's side (`Side`)
no server that t does not tell of (`Told`: what t knows there, but for neighbours that have not sent SERVER), and every one that t
tells of but for those in `Cut`: behind a server that s has asked t to remove in a SQUIT t did not read yet.
That is why a SQUIT that crosses a SID does no harm as long as the target did not come back
meanwhile (`crossed`), the one case in which the first half fails.  When t closed its end the
wire ends with EOF instead, and when t has yet to register nothing but its PASS and SERVER is said.
`Beyond` is what a SQUIT takes away; on a tree it is one side of a line, the same from both ends of
every other line (`BeyondLine`), and `u_server_destroy` removes exactly that (`BelowBeyond`).  The lemmas about a wire (`EdgeSid`,
`EdgeSquit`, `EdgeForget`, `EdgeHandled`, `EdgeAsked`, `EdgeBurst`) are stated for any sequence of
lines; there is then one lemma per handler, and the ways to and from servers that a handler does not touch go
by `Frame`.  With nothing under way `Edge` says that linked servers
know the same ones (`SameKnown`), and the rest is an induction along the tree (`KnownLinked`).

`CommandsProofs` (for any modules, tables, aliases and rates, under the three assumptions of
`Commands`): the invariant says that there are a set of commands `on` and a `rank` with
which the registry is `Sound`.  The pointers of the commands in `on` agree (`next` and
`prev` undo each other, within one name, and the head of a name has no `prev`), what is
not in `on` is as it was before it was ever registered, every command knows the module
that brought it, and `next` leads down in rank.  The rank is what makes a list end:
`RegistrySound` reads lists from their heads, and no statement about neighbours forbids a
circle beside them.  A command that comes gets a rank above all others, one that goes
changes no rank, and so both loops of the code are inductions over single pointer changes
(`RegOneKeeps`, `UnregOneKeeps`).  `Behind`, a part of `Sound`, says that a command that asks
for a repeat has another of its module and name above it in rank: `find_command` finds
it for the first line of a link only, so that `u_cmd_invoke` does not abort
(`RepeatsEnd`).  `CommandsStay` follows from who owns what is in `on`, and from
`ReloadManaged`, which shows that nothing that stays refuses what comes back.

Only model-checked:

- all liveness (`LinesServed`, `ClosedIsFreed`, `ClosesInTheEnd`, `OutputMoves`, `Returns`):
  this prover does not do fairness;
- `UsersAgree` and `NoGhosts` of `Net`, which are about the users of a network at rest.

## 6. What is not modelled

- Where ENCAP and BROADCAST commands are propagated to, and the numerics of a refused line.
- SJOIN with keys, limits, lists and a timestamp of 0; TB; the TS check of BMASK, whose
  lists have no limit; a second EUID of a user whose nick has become free; user modes; AWAY;
  nick timestamps, which no decision depends on.
- The dump of users and servers in an upgrade, and its abort by a hook (no module sets
  one).  A module whose init fails (no module of the repository has one that can).
- WHO tokens of the rate limit (WHO has no rate, so they are never compared), and the dump of a limit.
- Authorization blocks: lookups in a configuration that does not change after start-up.
- Queries, which read and format.  Text, configuration files, logging, cryptography, the
  build system, tests, and libmowgli, which is external (its lists, patricia tables,
  event loop and JSON are modelled from how the code uses them).
