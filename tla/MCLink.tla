------------------------------- MODULE MCLink -------------------------------
(* Instances of Link for TLC: which lines the peer sends. *)
EXTENDS Link

AllKinds    == {"nick", "user", "sid", "badsid", "server", "svinfo", "quit",
                "squit", "upgrade", "cmd"}
UserKinds   == {"nick", "user", "quit", "upgrade", "cmd"}
PlainKinds  == {"nick", "user", "cmd"}

(* Bound of one run: no line is dispatched on a closing connection. *)
OnTime == link'.ran > link.ran => conn.st = "ACTIVE"
=============================================================================
