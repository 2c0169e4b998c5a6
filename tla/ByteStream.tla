----------------------------- MODULE ByteStream -----------------------------
(***************************************************************************)
(* What a send queue promises to its connection: a byte stream.  Bytes are *)
(* named by their position in the stream.  The producer adds bytes at the  *)
(* top and they leave at the bottom, in order, each once.                  *)
(***************************************************************************)
EXTENDS Integers

CONSTANT Queues          \* the queues, each an independent stream

VARIABLES
  top,                   \* [Queues -> Nat]: bytes produced so far
  next                   \* [Queues -> Nat]: the next byte that will leave

streamVars == <<top, next>>

StreamInit ==
  /\ top  = [q \in Queues |-> 0]
  /\ next = [q \in Queues |-> 0]

(* The producer adds bytes. *)
Put(q) ==
  /\ top'[q] >= top[q]
  /\ top' = [top EXCEPT ![q] = top'[q]]
  /\ UNCHANGED next

(* The oldest pending bytes leave, in order: to the socket, or thrown away *)
(* with everything else that is pending.                                   *)
Take(q) ==
  /\ next'[q] \in next[q]..top[q]
  /\ next' = [next EXCEPT ![q] = next'[q]]
  /\ UNCHANGED top

StreamNext == \E q \in Queues : Put(q) \/ Take(q)

StreamSpec == StreamInit /\ [][StreamNext]_streamVars
=============================================================================
