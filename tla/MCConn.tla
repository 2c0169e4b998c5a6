------------------------------- MODULE MCConn -------------------------------
(* Two connections, so that a handler of one acts on the other. *)
EXTENDS Conn

CONSTANTS c1, c2

TwoConns == {c1, c2}
=============================================================================
