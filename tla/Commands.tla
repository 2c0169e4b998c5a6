------------------------------ MODULE Commands ------------------------------
(***************************************************************************)
(* The registry of commands and the dispatch of a line (src/src/msg.c),    *)
(* the modules that bring commands in and take them out again              *)
(* (src/src/module.c, src/modules/core/module.c, src/modules/extra/alias.c)*)
(* and the rate limit in front of a handler (src/src/ratelimit.c).         *)
(*                                                                         *)
(* Several commands have the same name and serve different sources.  They  *)
(* are on a doubly linked list whose pointers are in the data of their     *)
(* modules; a module that goes must leave the lists of the others whole.   *)
(* "reg" holds those pointers.  The lines are those of one connection.     *)
(***************************************************************************)
EXTENDS Integers, FiniteSets, SequencesExt

CONSTANTS Modules, Core,   \* module files; those in modules/core
          Manager, Alias,  \* core/module and extra/alias
          Table,           \* the commands of a module, in the order of its cmdtab
          Aliases,         \* the aliases the configuration may name
          Info,            \* name, mask, rate and effect of a command
          FloodTokens, RefillPeriod,
          Wrap,            \* 2^32: the tokens are an unsigned int
          MaxNow,          \* bound of the clock
          None

StaticCmds == UNION { ToSet(Table[m]) : m \in Modules }
Cmds == StaticCmds \cup Aliases
Names == { Info[c].name : c \in Cmds }

\* The bits of a source mask (msg.h).
Bits == {"first", "unregUser", "unregServer", "localUser", "localOper",
         "remoteUser", "remoteOper", "localServer", "remoteServer",
         "encapUser", "encapServer"}

ASSUME CommandsAssumption ==
    /\ Core \subseteq Modules /\ Manager \in Core /\ Alias \in Modules \ Core
    /\ None \notin Cmds \cup Modules \cup Names
    /\ \A c \in Cmds : /\ Info[c].mask \in (SUBSET Bits) \ {{}} /\ Info[c].rate \in Nat
                       /\ Info[c].does \in {"asUser", "asEither", "register", "oper",
                                            "manage", "plain"}
    /\ \A c \in Cmds : Info[c].rate > 0 => Info[c].does = "plain"
    /\ \A c \in Cmds : Info[c].rate < FloodTokens
    /\ FloodTokens \in Nat /\ RefillPeriod \in Nat \ {0} /\ MaxNow \in Nat
    /\ Wrap \in Nat /\ Wrap > FloodTokens + MaxNow

\* Every module has commands of its own, which do not overlap each other; extra/alias
\* has none.
ASSUME TableAssumption ==
    /\ Table \in [Modules -> Seq(StaticCmds)] /\ Table[Alias] = << >>
    /\ IsFiniteSet(Cmds) /\ StaticCmds \cap Aliases = {}
    /\ \A m \in Modules : IsInjective(Table[m])
    /\ \A m, o \in Modules : m # o => ToSet(Table[m]) \cap ToSet(Table[o]) = {}
    /\ \A m \in Modules : \A c, d \in ToSet(Table[m]) :
           c # d /\ Info[c].name = Info[d].name => Info[c].mask \cap Info[d].mask = {}

\* A command that asks to be repeated with another source.
Repeats(c) == Info[c].does \in {"asUser", "asEither"}

\* Those of the repository (PASS, CAP, USER, NICK) serve the first line of a link, and are
\* followed in their table by one for the same name that no other command overlaps.  An
\* alias named CAP would, but core/cap, loaded before the aliases are read, refuses it.
ASSUME RepeatAssumption ==
    /\ \A a \in Aliases : ~Repeats(a)
    /\ \A m \in Modules : \A i \in DOMAIN Table[m] :
           Repeats(Table[m][i]) =>
               /\ Info[Table[m][i]].mask = {"first"}
               /\ \E j \in (i + 1)..Len(Table[m]) :
                      LET c == Table[m][j]
                      IN  /\ Info[c].name = Info[Table[m][i]].name
                          /\ \A d \in Cmds \ {c} : Info[d].name = Info[c].name
                                                   => Info[d].mask \cap Info[c].mask = {}

VARIABLES reg,      \* heads of the lists, and the fields of every command
          modules,  \* u_modules
          phase,    \* what main does: "directory", "conf", "running"
          kind,     \* type and state of the link
          limit,    \* u_ratelimit_t of the user the lines come from
          now,      \* NOW
          cur,      \* the line u_cmd_invoke is at, or None
          aborted   \* abort() was called

vars == << reg, modules, phase, kind, limit, now, cur, aborted >>

registry == << reg, modules, phase >>
source == << kind, limit >>

------------------------------------------------------------------------------
(* The lists of commands. *)

\* A command of an image just mapped, or just allocated.
Blank == [next |-> None, prev |-> None, owner |-> None, loaded |-> FALSE]

Chain(r, name) ==
    LET from[c \in Cmds \cup {None}] ==
            IF c = None THEN << >> ELSE << c >> \o from[r.cmd[c].next]
    IN  from[r.head[name]]

Registered(r) == UNION { ToSet(Chain(r, n)) : n \in Names }

\* Variant with a fault: the new command goes to the end of the list.
RegOneLast(r, c, owner) ==
    LET n == Info[c].name
        ch == Chain(r, n)
        at == IF ch = << >> THEN None ELSE ch[Len(ch)]
    IN  IF \/ \E d \in ToSet(ch) : Info[d].mask \cap Info[c].mask # {}
           \/ r.cmd[c].loaded
        THEN r
        ELSE [head |-> IF at = None THEN [r.head EXCEPT ![n] = c] ELSE r.head,
              cmd |-> [d \in Cmds |->
                         IF d = c THEN [next |-> None, prev |-> at, owner |-> owner, loaded |-> TRUE]
                         ELSE IF d = at THEN [r.cmd[d] EXCEPT !.next = c]
                         ELSE r.cmd[d]]]

\* Variant with a fault: only the first command of the name is looked at for an overlap.
RegOneHeadOnly(r, c, owner) ==
    LET n == Info[c].name
        at == r.head[n]
    IN  IF \/ at # None /\ Info[at].mask \cap Info[c].mask # {}
           \/ r.cmd[c].loaded
        THEN r
        ELSE [head |-> [r.head EXCEPT ![n] = c],
              cmd |-> [d \in Cmds |->
                         IF d = c THEN [next |-> at, prev |-> None, owner |-> owner, loaded |-> TRUE]
                         ELSE IF d = at THEN [r.cmd[d] EXCEPT !.prev = c]
                         ELSE r.cmd[d]]]

\* reg_one: a new command goes in front of those of its name.
RegOne(r, c, owner) ==
    LET n == Info[c].name
        at == r.head[n]
    IN  IF \/ \E d \in ToSet(Chain(r, n)) : Info[d].mask \cap Info[c].mask # {}
           \/ r.cmd[c].loaded
        THEN r
        ELSE [head |-> [r.head EXCEPT ![n] = c],
              cmd |-> [d \in Cmds |->
                         IF d = c THEN [next |-> at, prev |-> None, owner |-> owner, loaded |-> TRUE]
                         ELSE IF d = at THEN [r.cmd[d] EXCEPT !.prev = c]
                         ELSE r.cmd[d]]]

\* Variant with a fault: the name goes with its first command.
UnregOneDropsChain(r, c) ==
    LET nx == r.cmd[c].next
        pv == r.cmd[c].prev
    IN  [head |-> IF pv = None THEN [r.head EXCEPT ![Info[c].name] = None] ELSE r.head,
         cmd |-> [d \in Cmds |->
                    IF d = nx THEN [r.cmd[d] EXCEPT !.prev = pv]
                    ELSE IF d = pv THEN [r.cmd[d] EXCEPT !.next = nx]
                    ELSE r.cmd[d]]]

\* u_cmd_unreg
UnregOne(r, c) ==
    LET nx == r.cmd[c].next
        pv == r.cmd[c].prev
    IN  [head |-> IF pv = None THEN [r.head EXCEPT ![Info[c].name] = nx] ELSE r.head,
         cmd |-> [d \in Cmds |->
                    IF d = nx THEN [r.cmd[d] EXCEPT !.prev = pv]
                    ELSE IF d = pv THEN [r.cmd[d] EXCEPT !.next = nx]
                    ELSE r.cmd[d]]]

\* A round of the loops below: c goes if one of "owners" registered it.
UnregOwned(r, c, owners) == IF r.cmd[c].owner \in owners THEN UnregOne(r, c) ELSE r

Unreg(r, cs, owners) ==
    LET after[i \in 0..Len(cs)] ==
            IF i = 0 THEN r ELSE UnregOwned(after[i - 1], cs[i], owners)
    IN  after[Len(cs)]

\* dlclose of the last reference unmaps the data; free does so for an alias.
Forget(r, cs) == [r EXCEPT !.cmd = [c \in Cmds |-> IF c \in cs THEN Blank ELSE r.cmd[c]]]

\* on_module_unload: every list is walked, "next" read before a command goes.
UnregName(r, n, m) == Unreg(r, Chain(r, n), {m})
OnModuleUnload(r, m) ==
    LET names == SetToSeq(Names)
        after[i \in 0..Len(names)] ==
            IF i = 0 THEN r ELSE UnregName(after[i - 1], names[i], m)
    IN  after[Len(names)]

\* add_alias, run by the configuration when no module is being loaded.
AddAlias(r, a) ==
    LET q == RegOne(r, a, None)
    IN  IF q = r THEN Forget(r, {a}) ELSE q

\* alias_deinit, whoever registered the aliases.
Deinit(r, m) ==
    IF m # Alias THEN r
    ELSE Forget(Unreg(r, SetToSeq(Registered(r) \cap Aliases), Modules \cup {None}), Aliases)

------------------------------------------------------------------------------
(* Modules, as pairs of the registry and u_modules. *)

\* u_cmds_reg
CmdsReg(r, m) ==
    LET after[i \in 0..Len(Table[m])] ==
            IF i = 0 THEN r ELSE RegOne(after[i - 1], Table[m][i], m)
    IN  after[Len(Table[m])]

\* module_load_path
LoadPath(st, m) == [r |-> CmdsReg(st.r, m), ms |-> st.ms \cup {m}]

\* do_module_load, unique
Load(st, m) == IF m \in st.ms THEN st ELSE LoadPath(st, m)

\* u_module_unload, module_unload
Unload(st, m) ==
    IF m \notin st.ms \/ m = Manager THEN st
    ELSE [r |-> Forget(Deinit(OnModuleUnload(st.r, m), m), ToSet(Table[m])),
          ms |-> st.ms \ {m}]

\* do_module_reload, whether or not m was loaded; a module that may not be
\* unloaded is not loaded twice.
Reload(st, m) == Load(Unload(st, m), m)

\* c_lo_module
Manage(st, op, m) ==
    CASE op = "load" -> Load(st, m)
      [] op = "unload" -> Unload(st, m)
      [] op = "reload" -> Reload(st, m)

State == [r |-> reg, ms |-> modules]
Becomes(st) == reg' = st.r /\ modules' = st.ms

------------------------------------------------------------------------------
(* The rate limit. *)

\* u_ratelimit_init; and what stands for the limit while there is no user.
NewLimit == [tokens |-> FloodTokens, last |-> now]
NoLimit == [tokens |-> FloodTokens, last |-> 0]

\* Division truncates towards zero.
Quot(a, b) == IF a < 0 THEN -((-a) \div b) ELSE a \div b

\* Variant with a fault: the tokens have no upper limit.
AllowUncapped(lim, rate) ==
    LET t == (lim.tokens + Quot(now - lim.last, RefillPeriod)) % Wrap
    IN  [ok |-> t > rate, lim |-> [tokens |-> IF t > rate THEN t ELSE 0, last |-> now]]

\* u_ratelimit_allow without WHO tokens: WHO has no rate, so that they are never
\* looked at.  The tokens a line costs are compared, and not taken.
Allow(lim, rate) ==
    LET sum == (lim.tokens + Quot(now - lim.last, RefillPeriod)) % Wrap
        t == IF sum > FloodTokens THEN FloodTokens ELSE sum
    IN  [ok |-> t > rate, lim |-> [tokens |-> IF t > rate THEN t ELSE 0, last |-> now]]

------------------------------------------------------------------------------
(* Dispatch. *)

\* What fill_source can make of a line of the link.  A server link also has
\* lines of users and servers behind it, of users of our own it may name, lines
\* with a source it cannot find, which keep every bit ("unusable"), and ENCAP.
Sources == CASE kind = "server" -> {"localServer", "remoteServer", "remoteUser", "remoteOper",
                                    "localUser", "localOper", "unknownUser", "unusable",
                                    "encapUser", "encapServer"}
             [] OTHER -> {kind}

MaskOf(src) == CASE src = "unusable" -> Bits
                 [] src = "unknownUser" -> {"remoteUser"}
                 [] OTHER -> {src}

HasUser(src) == src \in {"unregUser", "localUser", "localOper", "remoteUser", "remoteOper",
                         "encapUser"}

\* find_command
FindCommand(name, mask) ==
    LET chain == Chain(reg, name)
        hits == {i \in DOMAIN chain : Info[chain[i]].mask \cap mask # {}}
    IN  IF hits = {} THEN None
        ELSE chain[CHOOSE i \in hits : \A j \in hits : i <= j]

\* The limit is asked before the handler of c.
IsLimited(c, src) == Info[c].rate > 0 /\ HasUser(src)

\* u_user_create_local and u_server_make_sreg do nothing with a link that is something.
RepeatAs(k) == IF kind = "first" THEN {k} ELSE {kind}

\* A line arrives.
Line(name, src) ==
    /\ phase = "running" /\ cur = None /\ ~aborted /\ src \in Sources
    /\ cur' = [name |-> name, src |-> src, last |-> None]
    /\ UNCHANGED << registry, source, now, aborted >>

Done == cur' = None

\* The handler of c, as far as it concerns the link and the registry.
Handler(c) ==
    \/ /\ Repeats(c)
       /\ \E k \in RepeatAs("unregUser") \cup
                   IF Info[c].does = "asEither" THEN RepeatAs("unregServer") ELSE {} :
             /\ kind' = k
             /\ cur' = [cur EXCEPT !.src = IF kind = "server" THEN @ ELSE k, !.last = c]
       /\ limit' = IF kind = "first" THEN NewLimit ELSE limit
       /\ UNCHANGED << reg, modules >>
    \/ /\ Info[c].does = "register"
       /\ kind' \in CASE kind = "unregUser" -> {kind, "localUser"}
                      [] kind = "unregServer" -> {kind, "server"}
                      [] OTHER -> {kind}
       /\ Done /\ UNCHANGED << reg, modules, limit >>
    \/ /\ Info[c].does = "oper"
       /\ kind' \in IF kind = "localUser" THEN {kind, "localOper"} ELSE {kind}
       /\ Done /\ UNCHANGED << reg, modules, limit >>
    \/ /\ Info[c].does = "manage"
       /\ \E op \in {"load", "unload", "reload"}, m \in Modules : Becomes(Manage(State, op, m))
       /\ Done /\ UNCHANGED << kind, limit >>
    \/ /\ Info[c].does \in {"plain", "asEither"}   \* PASS may have too few parameters
       /\ Done /\ UNCHANGED << reg, modules, kind, limit >>

\* A round of u_cmd_invoke, or invoke_encap.
Round ==
    /\ cur # None /\ ~aborted
    /\ LET c == FindCommand(cur.name, MaskOf(cur.src))
           a == Allow(limit, Info[c].rate)
           limited == IsLimited(c, cur.src)
       IN  \/ /\ c = None                            \* report_failure
              /\ Done /\ UNCHANGED << reg, modules, kind, limit, aborted >>
           \/ /\ c # None /\ c = cur.last            \* "requested repeat to itself!"
              /\ aborted' = TRUE /\ Done
              /\ UNCHANGED << reg, modules, kind, limit >>
           \/ /\ c # None /\ c # cur.last /\ limited
              /\ limit' = a.lim
              /\ Done /\ UNCHANGED << reg, modules, kind, aborted >>
           \/ /\ c # None /\ c # cur.last /\ ~limited
              /\ Handler(c) /\ UNCHANGED aborted
    /\ UNCHANGED << phase, now >>

------------------------------------------------------------------------------
\* u_module_load_directory: the files of modules/core in any order.
Autoload(m) ==
    /\ phase = "directory" /\ m \in Core \ modules
    /\ Becomes(LoadPath(State, m))
    /\ phase' = IF modules' = Core THEN "conf" ELSE "directory"
    /\ UNCHANGED << source, now, cur, aborted >>

\* u_conf_read: conf_loadmodule, conf_alias.
ConfLoad(m) ==
    /\ phase = "conf" /\ Becomes(Load(State, m))
    /\ UNCHANGED << phase, source, now, cur, aborted >>

ConfAlias(a) ==
    /\ phase = "conf" /\ Alias \in modules /\ ~reg.cmd[a].loaded
    /\ reg' = AddAlias(reg, a)
    /\ UNCHANGED << modules, phase, source, now, cur, aborted >>

Start ==
    /\ phase = "conf" /\ phase' = "running"
    /\ UNCHANGED << reg, modules, source, now, cur, aborted >>

\* The link ends, and another comes.
Replace ==
    /\ phase = "running" /\ cur = None /\ kind # "first"
    /\ kind' = "first" /\ limit' = NoLimit
    /\ UNCHANGED << registry, now, cur, aborted >>

\* sync_time: the clock of the system may be set back.
SyncTime ==
    /\ phase = "running" /\ cur = None
    /\ now' \in 0..MaxNow \ {now}
    /\ UNCHANGED << registry, source, cur, aborted >>

Init ==
    /\ reg = [head |-> [n \in Names |-> None], cmd |-> [c \in Cmds |-> Blank]]
    /\ modules = {} /\ phase = "directory"
    /\ kind = "first" /\ now = 0 /\ limit = NoLimit
    /\ cur = None /\ aborted = FALSE

Next ==
    \/ \E m \in Modules : Autoload(m) \/ ConfLoad(m)
    \/ \E a \in Aliases : ConfAlias(a)
    \/ \E n \in Names, s \in Bits \cup {"unusable", "unknownUser"} : Line(n, s)
    \/ Start \/ Round \/ Replace \/ SyncTime

Spec == Init /\ [][Next]_vars

------------------------------------------------------------------------------
(* Properties. *)

\* Types: the pointers point to commands, and the tokens of a user stay within
\* FLOODTOKENS whatever the clock does (ratelimit.c:30-36).
TypeOK ==
    /\ reg.head \in [Names -> Cmds \cup {None}]
    /\ reg.cmd \in [Cmds -> [next : Cmds \cup {None}, prev : Cmds \cup {None},
                             owner : Modules \cup {None}, loaded : BOOLEAN]]
    /\ modules \subseteq Modules /\ phase \in {"directory", "conf", "running"}
    /\ kind \in {"first", "unregUser", "unregServer", "localUser", "localOper", "server"}
    /\ limit \in [tokens : 0..FloodTokens, last : 0..MaxNow] /\ now \in 0..MaxNow
    /\ aborted \in BOOLEAN

\* The lists are whole after any history of loads, unloads and aliases: what is
\* on them is what was registered and not taken out, every command of them is in
\* memory, "prev" is the way back, and no two commands of a name serve the same
\* source (reg_one, u_cmd_unreg, on_module_unload).
RegistrySound ==
    /\ LET on == Registered(reg)
       IN  /\ on = { c \in Cmds : reg.cmd[c].loaded }
           /\ \A m \in Modules \ modules : on \cap ToSet(Table[m]) = {}
           /\ Alias \notin modules => on \cap Aliases = {}
    /\ \A n \in Names : LET ch == Chain(reg, n) IN
          /\ \A i \in 1..Len(ch) :
                /\ Info[ch[i]].name = n
                /\ reg.cmd[ch[i]].prev = IF i = 1 THEN None ELSE ch[i - 1]
          /\ \A i, j \in 1..Len(ch) : i # j => Info[ch[i]].mask \cap Info[ch[j]].mask = {}

\* A module that goes takes its own commands and no other's, in whatever order the
\* modules came and however their commands share the lists; one that is loaded again
\* brings back all it had, but extra/alias, whose aliases the configuration made.
OthersStay ==
    [][ LET gone == Registered(reg) \ Registered(reg')
        IN  \/ gone = {}
            \/ gone \subseteq Aliases /\ Alias \in modules
            \/ \E m \in modules \ modules' : gone \subseteq ToSet(Table[m]) ]_reg

\* u_cmd_invoke never meets its abort(), although a line whose source is not known
\* matches every command of its name: the command that asks for a repeat is
\* registered before another of its name, and therefore behind it.
NoRepeatAbort == ~aborted

==============================================================================
