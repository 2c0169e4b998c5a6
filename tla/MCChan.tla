------------------------------- MODULE MCChan -------------------------------
(***************************************************************************)
(* A local user and a remote one, and two channels that may forward to     *)
(* each other.                                                             *)
(***************************************************************************)
EXTENDS Chan, TLC

CONSTANTS u1, u2, c1, c2, m1, k1, one, zero

On(ch) == [on |-> TRUE, ch |-> ch]
Off(ch) == [on |-> FALSE, ch |-> ch]
Cmd(c, letters, args) == [chan |-> c, letters |-> letters, args |-> args]

TheCommands ==
    {Cmd(c1, << On("i"), On("m"), On("v") >>, << u2 >>),
     Cmd(c1, << On("b"), On("q") >>, << m1, m1 >>),
     Cmd(c1, << Off("k"), On("b"), On("l") >>, << k1, m1, one >>),
     Cmd(c1, << On("f"), On("o"), On("k") >>, << c2, u2, k1 >>),
     Cmd(c1, << Off("f"), On("I"), On("e"), On("m") >>, << m1, m1 >>),
     Cmd(c2, << On("l"), Off("l"), On("l"), On("f") >>, << zero, one, c1 >>)}
TheLimits == one :> 1 @@ zero :> 0
TheIdents == u1 :> "a" @@ u2 :> "z"
TheMatches == [a \in Args |-> IF a = m1 THEN {"a"} ELSE {}]
=============================================================================
