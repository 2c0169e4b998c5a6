-------------------------------- MODULE SendQ --------------------------------
(***************************************************************************)
(* The dynamic send queues of src/sendq.c: a queue is a list of            *)
(* fixed-size chunks that recycled chunks come from and go back to.        *)
(*                                                                         *)
(* Bytes are named by their position in the stream of everything ever      *)
(* queued, so a chunk is its two cursors and the position of its byte 0;   *)
(* the byte at index i of a chunk's data is stream byte  off + i.          *)
(*                                                                         *)
(* u_sendq_write and u_sendq_from_json are loops; they run one iteration   *)
(* per step, with pc and cur saying which loop runs on which queue.  The   *)
(* daemon has one thread, so nothing else happens while pc # "idle".       *)
(***************************************************************************)
EXTENDS Integers, Sequences

CONSTANTS
  Queues,      \* the send queues that share the pool
  ChunkSize,   \* SENDQ_CHUNK_SIZE, 4000
  BlockSize,   \* bytes decoded from one SENDQ_B64_CHUNK_SIZE block, 3996
  NumIovecs,   \* NUM_IOVECS, 32
  BacklogMax,  \* SENDQ_CHUNK_BACKLOG_MAX, 400
  MaxWritten   \* bound: bytes ever put into one queue

ASSUME SendQAssumption ==
  /\ ChunkSize \in Nat \ {0}
  /\ BlockSize \in 1..ChunkSize
  /\ NumIovecs \in Nat \ {0}
  /\ BacklogMax \in Nat
  /\ MaxWritten \in Nat

VARIABLES
  chunks,      \* [Queues -> Seq(Chunk)]: head to tail
  size,        \* [Queues -> Nat]: u_sendq.size
  nfree,       \* num_free_chunks: chunks in the pool
  resv,        \* [Queues -> Nat]: room promised by an open u_sendq_get_buffer
  pc,          \* the loop that runs: "idle", "gather", "reap" or "restore"
  cur,         \* the queue u_sendq_write runs on
  niov,        \* iovecs filled so far
  avail,       \* bytes those iovecs hold
  todo,        \* bytes accepted by writev and not yet reaped
  coded,       \* [Queues -> Nat]: serialized bytes not yet decoded
  written,     \* [Queues -> Nat], history: bytes the callers put in
  sent         \* [Queues -> Nat], history: bytes that left, or were dropped

loopVars == <<pc, cur, niov, avail, todo>>
vars == <<chunks, size, nfree, resv, pc, cur, niov, avail, todo, coded,
          written, sent>>

Chunk == [start : Nat, end : Nat, off : Nat]

Bytes(ch) == ch.end - ch.start
First(ch) == ch.off + ch.start
Stop(ch)  == ch.off + ch.end
LastOf(s) == s[Len(s)]

(* Variant with a fault: the start of a chunk sent in part does not move. *)
TrimForgotten(s, n) == s

(* Chunk list updates: n more bytes in the tail, n fewer in the head. *)
Grow(s, n) == [s EXCEPT ![Len(s)].end = @ + n]
Trim(s, n) == [s EXCEPT ![1].start = @ + n]

Init ==
  /\ chunks = [q \in Queues |-> << >>]
  /\ size = [q \in Queues |-> 0]
  /\ nfree = 0
  /\ resv = [q \in Queues |-> 0]
  /\ pc = "idle" /\ cur \in Queues /\ niov = 0 /\ avail = 0 /\ todo = 0
  /\ coded = [q \in Queues |-> 0]
  /\ written = [q \in Queues |-> 0]
  /\ sent = [q \in Queues |-> 0]

-----------------------------------------------------------------------------
(* chunk_new: a recycled or a fresh chunk, its cursors reset; pos is the   *)
(* position of the next byte to be queued.                                 *)
ChunkNew(pos) == [start |-> 0, end |-> 0, off |-> pos]

PoolTake == nfree' = IF nfree > 0 THEN nfree - 1 ELSE nfree

(* chunk_free on k chunks: the pool keeps at most BacklogMax of them. *)
PoolGive(k) ==
  nfree' = IF nfree + k <= BacklogMax THEN nfree + k ELSE BacklogMax

(* Variant with a fault: room at the start of the chunk counts too. *)
NeedsChunkByBytes(s, sz) == s = << >> \/ sz > ChunkSize - Bytes(LastOf(s))

(* Would sz bytes not fit after the last byte of the tail chunk? *)
NeedsChunk(s, sz) == s = << >> \/ sz > ChunkSize - LastOf(s).end

(* Variant with a fault: each buffer gets a chunk of its own. *)
WithRoomAlways(s, sz, pos) == Append(s, ChunkNew(pos))

(* The chunk list u_sendq_get_buffer leaves behind. *)
WithRoom(s, sz, pos) ==
  IF NeedsChunk(s, sz) THEN Append(s, ChunkNew(pos)) ELSE s

(* u_sendq_get_buffer: make room for sz bytes after the tail's last byte.  *)
GetBuffer(q, sz) ==
  /\ pc = "idle" /\ resv[q] = 0
  /\ chunks' = [chunks EXCEPT ![q] = WithRoom(@, sz, written[q])]
  /\ IF NeedsChunk(chunks[q], sz) THEN PoolTake ELSE UNCHANGED nfree
  /\ resv' = [resv EXCEPT ![q] = sz]
  /\ UNCHANGED <<size, loopVars, coded, written, sent>>

(* The bytes u_sendq_end_buffer keeps of the sz it is told about. *)
Clamped(ch, sz) == IF ch.end + sz > ChunkSize THEN ChunkSize - ch.end ELSE sz

(* u_sendq_end_buffer: sz bytes were formatted into the buffer.  The       *)
(* caller counts all of them as queued.                                    *)
EndBuffer(q, sz) ==
  /\ pc = "idle" /\ resv[q] > 0 /\ sz <= resv[q]
  /\ written[q] + sz <= MaxWritten
  /\ written' = [written EXCEPT ![q] = @ + sz]
  /\ resv' = [resv EXCEPT ![q] = 0]
  /\ IF chunks[q] = << >>
       THEN UNCHANGED <<chunks, size>>
       ELSE LET n == Clamped(LastOf(chunks[q]), sz)
            IN  /\ chunks' = [chunks EXCEPT ![q] = Grow(@, n)]
                /\ size' = [size EXCEPT ![q] = @ + n]
  /\ UNCHANGED <<nfree, loopVars, coded, sent>>

(* u_sendq_clear: every chunk back to the pool, nothing pending. *)
Clear(q) ==
  /\ pc = "idle" /\ resv[q] = 0
  /\ chunks' = [chunks EXCEPT ![q] = << >>]
  /\ size' = [size EXCEPT ![q] = 0]
  /\ PoolGive(Len(chunks[q]))
  /\ sent' = [sent EXCEPT ![q] = written[q]]
  /\ UNCHANGED <<resv, loopVars, coded, written>>

-----------------------------------------------------------------------------
(* u_sendq_write, called when the socket is writable. *)
WriteStart(q) ==
  /\ pc = "idle" /\ resv[q] = 0
  /\ pc' = "gather" /\ cur' = q /\ niov' = 0 /\ avail' = 0
  /\ UNCHANGED <<chunks, size, nfree, resv, todo, coded, written, sent>>

GatherMore == niov < NumIovecs /\ niov < Len(chunks[cur])

(* Variant with a fault: every iovec points to the head chunk. *)
GatherHead ==
  /\ pc = "gather" /\ GatherMore
  /\ niov' = niov + 1
  /\ avail' = avail + Bytes(chunks[cur][1])
  /\ UNCHANGED <<chunks, size, nfree, resv, pc, cur, todo, coded, written, sent>>

(* One turn of the loop that fills the iovecs. *)
Gather ==
  /\ pc = "gather" /\ GatherMore
  /\ niov' = niov + 1
  /\ avail' = avail + Bytes(chunks[cur][niov + 1])
  /\ UNCHANGED <<chunks, size, nfree, resv, pc, cur, todo, coded, written, sent>>

(* writev takes n bytes; they are on the wire from here on. *)
Writev(n) ==
  /\ pc = "gather" /\ ~GatherMore
  /\ pc' = "reap" /\ todo' = n
  /\ size' = [size EXCEPT ![cur] = @ - n]
  /\ sent' = [sent EXCEPT ![cur] = @ + n]
  /\ UNCHANGED <<chunks, nfree, resv, cur, niov, avail, coded, written>>

(* writev fails: the queue stays as it was. *)
WritevError ==
  /\ pc = "gather" /\ ~GatherMore
  /\ pc' = "idle"
  /\ UNCHANGED <<chunks, size, nfree, resv, cur, niov, avail, todo, coded,
                 written, sent>>

(* The head chunk was sent in full (or is empty): sendq_delete_chunk. *)
ReapChunk ==
  /\ pc = "reap" /\ chunks[cur] # << >>
  /\ Bytes(chunks[cur][1]) <= todo
  /\ todo' = todo - Bytes(chunks[cur][1])
  /\ chunks' = [chunks EXCEPT ![cur] = Tail(@)]
  /\ PoolGive(1)
  /\ UNCHANGED <<size, resv, pc, cur, niov, avail, coded, written, sent>>

(* The head chunk was sent in part: its start moves and the loop ends. *)
ReapPartial ==
  /\ pc = "reap" /\ chunks[cur] # << >>
  /\ Bytes(chunks[cur][1]) > todo
  /\ chunks' = [chunks EXCEPT ![cur] = Trim(@, todo)]
  /\ todo' = 0 /\ pc' = "idle"
  /\ UNCHANGED <<size, nfree, resv, cur, niov, avail, coded, written, sent>>

(* No chunk is left. *)
ReapDone ==
  /\ pc = "reap" /\ chunks[cur] = << >>
  /\ todo' = 0 /\ pc' = "idle"
  /\ UNCHANGED <<chunks, size, nfree, resv, cur, niov, avail, coded, written,
                 sent>>

-----------------------------------------------------------------------------
(* u_sendq_to_json serializes the chunks in order; the new process starts  *)
(* with empty queues and an empty pool.                                    *)
Serialized(s) == IF s = << >> THEN 0 ELSE Stop(LastOf(s)) - First(s[1])

Dump ==
  /\ pc = "idle" /\ \A q \in Queues : resv[q] = 0
  /\ coded' = [q \in Queues |-> Serialized(chunks[q])]
  /\ chunks' = [q \in Queues |-> << >>]
  /\ size' = [q \in Queues |-> 0]
  /\ nfree' = 0
  /\ pc' = "restore"
  /\ UNCHANGED <<resv, cur, niov, avail, todo, written, sent>>

(* One turn of the loop of u_sendq_from_json: get_buffer, decode a block,  *)
(* end_buffer.                                                             *)
RestoreBlock(q) ==
  /\ pc = "restore" /\ coded[q] > 0
  /\ LET n    == IF coded[q] < BlockSize THEN coded[q] ELSE BlockSize
         pos  == written[q] - coded[q]
     IN  /\ chunks' = [chunks EXCEPT
                         ![q] = Grow(WithRoom(@, ChunkSize, pos), n)]
         /\ size' = [size EXCEPT ![q] = @ + n]
         /\ coded' = [coded EXCEPT ![q] = @ - n]
  /\ UNCHANGED <<nfree, resv, loopVars, written, sent>>

RestoreDone ==
  /\ pc = "restore" /\ \A q \in Queues : coded[q] = 0
  /\ pc' = "idle"
  /\ UNCHANGED <<chunks, size, nfree, resv, cur, niov, avail, todo, coded,
                 written, sent>>

-----------------------------------------------------------------------------
Next ==
  \/ \E q \in Queues :
       \/ \E sz \in 1..ChunkSize : GetBuffer(q, sz)
       \/ \E sz \in 0..ChunkSize : EndBuffer(q, sz)
       \/ Clear(q)
       \/ WriteStart(q)
       \/ RestoreBlock(q)
  \/ Gather
  \/ \E n \in 0..avail : Writev(n)
  \/ WritevError
  \/ ReapChunk \/ ReapPartial \/ ReapDone
  \/ Dump \/ RestoreDone

Spec == Init /\ [][Next]_vars

-----------------------------------------------------------------------------
TypeOK ==
  /\ chunks \in [Queues -> Seq(Chunk)]
  /\ size \in [Queues -> Nat]
  /\ nfree \in 0..BacklogMax
  /\ resv \in [Queues -> 0..ChunkSize]
  /\ pc \in {"idle", "gather", "reap", "restore"}
  /\ cur \in Queues
  /\ niov \in 0..NumIovecs
  /\ avail \in Nat
  /\ todo \in Nat
  /\ coded \in [Queues -> Nat]
  /\ written \in [Queues -> Nat]
  /\ sent \in [Queues -> Nat]

(* Bytes of q that writev took but whose chunks are not reaped yet. *)
InFlight(q) == IF pc = "reap" /\ q = cur THEN todo ELSE 0

(* Chunk list s holds exactly the bytes from lo to hi - 1, in order. *)
Holds(s, lo, hi) ==
  IF s = << >>
    THEN lo = hi
    ELSE /\ First(s[1]) = lo
         /\ \A i \in 1..(Len(s) - 1) : Stop(s[i]) = First(s[i + 1])
         /\ \A i \in 1..Len(s) : Stop(s[i]) <= hi
         /\ Stop(LastOf(s)) = hi

(* The chunks of a queue hold, from head to tail and without a gap or an   *)
(* overlap, exactly the bytes that were queued and have not left: the next *)
(* byte the socket gets is the next byte of the stream, through partial    *)
(* writes, chunk boundaries, recycled chunks and an upgrade.               *)
Contiguous ==
  \A q \in Queues :
    Holds(chunks[q], sent[q] - InFlight(q), written[q] - coded[q])

(* u_sendq.size, which decides whether the socket is polled for writing,   *)
(* whether a closing connection may be destroyed, whether a client is over *)
(* its sendq limit and how large the serialization buffer is, counts the   *)
(* pending bytes exactly.                                                  *)
SizeExact ==
  \A q \in Queues : size[q] = written[q] - sent[q] - coded[q]

(* Cursors are in order and inside the chunk; a chunk without bytes is a   *)
(* chunk nothing was put in yet, and only the tail can be one.             *)
Shaped(s) ==
  \A i \in 1..Len(s) :
    /\ s[i].end <= ChunkSize
    /\ s[i].start < s[i].end \/ (s[i].start = 0 /\ s[i].end = 0)
    /\ i < Len(s) => s[i].end > 0

ChunkBounds == \A q \in Queues : Shaped(chunks[q])

(* The room u_sendq_get_buffer promised is still there when the caller     *)
(* calls u_sendq_end_buffer, so the clamp never cuts a line short.         *)
RoomPromised ==
  \A q \in Queues :
    resv[q] > 0 => /\ chunks[q] # << >>
                   /\ LastOf(chunks[q]).end + resv[q] <= ChunkSize

(* A writable socket is always offered a byte when any is pending: empty   *)
(* chunks cannot fill the iovecs and leave send_ready spinning.            *)
OffersBytes ==
  pc = "gather" /\ ~GatherMore /\ size[cur] > 0 => avail > 0

(* What the loops keep between two turns: bytes are in flight only while   *)
(* chunks are reaped, a serialized backlog is left only while it is        *)
(* decoded, no buffer of the queue at work is open, and the iovecs filled  *)
(* so far hold the bytes from the first unsent one on.                     *)
LoopState ==
  /\ pc # "reap" => todo = 0
  /\ pc \in {"gather", "reap"} => resv[cur] = 0
  /\ pc = "restore" => \A q \in Queues : resv[q] = 0
  /\ pc # "restore" => \A q \in Queues : coded[q] = 0
  /\ \A q \in Queues : sent[q] + coded[q] <= written[q]
  /\ todo <= sent[cur]
  /\ pc = "gather" =>
       /\ niov <= Len(chunks[cur])
       /\ niov = 0 => avail = 0
       /\ niov > 0 => /\ avail = Stop(chunks[cur][niov]) - sent[cur]
                      /\ avail >= Bytes(chunks[cur][1])

(* The inductive invariant. *)
IInv ==
  /\ TypeOK
  /\ LoopState
  /\ Contiguous
  /\ SizeExact
  /\ ChunkBounds
  /\ RoomPromised

(* The stream as the chunk cursors have it, for the refinement. *)
NextOut(q) ==
  IF chunks[q] = << >> THEN written[q] - coded[q]
                       ELSE First(chunks[q][1]) + InFlight(q)

Stream == INSTANCE ByteStream WITH
  top  <- written,
  next <- [q \in Queues |-> NextOut(q)]

(* The queue implements the byte stream: nothing is lost, repeated or      *)
(* reordered by chunking, partial writes or an upgrade.                    *)
ImplementsStream == Stream!StreamSpec
=============================================================================
