------------------------------- MODULE MCNet -------------------------------
(***************************************************************************)
(* A chain of three servers; s2 is linked to by the two others.            *)
(***************************************************************************)
EXTENDS Net

CONSTANTS s1, s2, s3, u1, u2, u3, n1, n2

TheLines == {<< s1, s2 >>, << s3, s2 >>}
ThePairs == {<< s1, s2 >>}
TheNames == << s1, s2, s3 >>
TheHomes == u1 :> s1 @@ u2 :> s3 @@ u3 :> s2
TheNicks == u1 :> n1 @@ u2 :> n2 @@ u3 :> None
=============================================================================
