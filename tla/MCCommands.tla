----------------------------- MODULE MCCommands -----------------------------
(***************************************************************************)
(* A part of the commands of the program that share names: PASS of         *)
(* core/pass, of core/ts6init and of an alias, NICK of core/nick and of a  *)
(* module from outside the core, OPER and MODLOAD, and the SU of ENCAP.    *)
(***************************************************************************)
EXTENDS Commands

CmdOf(n, m, r, d) == [name |-> n, mask |-> m, rate |-> r, does |-> d]

MCInfo ==
    [passFirst |-> CmdOf("PASS", {"first"}, 0, "asEither"),
     passUser |-> CmdOf("PASS", {"unregUser"}, 0, "plain"),
     passServer |-> CmdOf("PASS", {"unregServer"}, 0, "plain"),
     server |-> CmdOf("SERVER", {"unregServer"}, 0, "register"),
     nickFirst |-> CmdOf("NICK", {"first"}, 0, "asUser"),
     nickUnreg |-> CmdOf("NICK", {"unregUser"}, 0, "register"),
     nickLocal |-> CmdOf("NICK", {"localUser", "localOper"}, 1, "plain"),
     modload |-> CmdOf("MODLOAD", {"localOper"}, 0, "manage"),
     oper |-> CmdOf("OPER", {"localUser", "localOper"}, 0, "oper"),
     su |-> CmdOf("SU", {"encapServer"}, 0, "plain"),
     other |-> CmdOf("NICK", {"localUser", "localOper"}, 0, "plain"),
     alias |-> CmdOf("PASS", {"localUser", "localOper", "remoteUser", "remoteOper"}, 0, "plain")]

MCTable == [pass |-> << "passFirst", "passUser" >>,
            ts6init |-> << "passServer", "server" >>,
            nick |-> << "nickFirst", "nickUnreg", "nickLocal" >>,
            module |-> << "modload", "oper", "su" >>,
            other |-> << "other" >>,
            extra |-> << >>]

==============================================================================
