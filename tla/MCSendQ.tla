------------------------------- MODULE MCSendQ -------------------------------
(* Two queues, which share the pool of chunks. *)
EXTENDS SendQ

CONSTANTS qa, qb

TwoQueues == {qa, qb}
=============================================================================
