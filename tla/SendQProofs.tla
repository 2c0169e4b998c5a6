----------------------------- MODULE SendQProofs -----------------------------
(***************************************************************************)
(* Proofs about SendQ, for every number of queues and every chunk size,    *)
(* block size, iovec count and backlog.                                    *)
(***************************************************************************)
EXTENDS SendQ, SequenceTheorems, TLAPS

USE SendQAssumption

-----------------------------------------------------------------------------
(* Lemmas about chunks and chunk lists. *)

(* Moving one cursor of a chunk leaves the others alone. *)
LEMMA MoveCursor ==
  ASSUME NEW ch \in Chunk, NEW n \in Nat
  PROVE  /\ ch.start \in Nat /\ ch.end \in Nat /\ ch.off \in Nat
         /\ LET e == [ch EXCEPT !.end = @ + n]
            IN  e \in Chunk /\ e.start = ch.start /\ e.off = ch.off
                /\ e.end = ch.end + n
         /\ LET e == [ch EXCEPT !.start = @ + n]
            IN  e \in Chunk /\ e.start = ch.start + n /\ e.off = ch.off
                /\ e.end = ch.end
  BY DEF Chunk

(* Appending a new chunk, placed where the list stops, adds no byte. *)
LEMMA AppendChunk ==
  ASSUME NEW s \in Seq(Chunk), NEW lo \in Int, NEW hi \in Nat, Holds(s, lo, hi)
  PROVE  LET t == Append(s, ChunkNew(hi))
         IN  /\ t \in Seq(Chunk) /\ t # << >> /\ Len(t) = Len(s) + 1
             /\ \A i \in 1..Len(s) : t[i] = s[i]
             /\ LastOf(t) = ChunkNew(hi)
             /\ Holds(t, lo, hi)
<1> DEFINE t == Append(s, ChunkNew(hi))
<1>1. ChunkNew(hi) \in Chunk
  BY DEF ChunkNew, Chunk
<1>2. /\ t \in Seq(Chunk) /\ Len(t) = Len(s) + 1 /\ t # << >>
      /\ \A i \in 1..Len(s) : t[i] = s[i]
      /\ t[Len(t)] = ChunkNew(hi)
  BY <1>1, AppendProperties
<1>3. Len(s) \in Nat /\ (s # << >> => Len(s) > 0) /\ (s = << >> => Len(s) = 0)
  BY EmptySeq
<1>4. Holds(t, lo, hi)
  <2>1. First(ChunkNew(hi)) = hi /\ Stop(ChunkNew(hi)) = hi
    BY DEF ChunkNew, First, Stop
  <2>2. CASE s = << >>
    BY <1>2, <1>3, <2>1, <2>2 DEF Holds, LastOf
  <2>3. CASE s # << >>
    <3>1. First(t[1]) = lo
      BY <1>2, <1>3, <2>3 DEF Holds
    <3>2. ASSUME NEW i \in 1..(Len(t) - 1)
          PROVE  Stop(t[i]) = First(t[i + 1])
      <4>1. CASE i = Len(s)
        BY <1>2, <1>3, <2>1, <2>3, <4>1 DEF Holds, LastOf
      <4>2. CASE i # Len(s)
        BY <1>2, <1>3, <2>3, <4>2 DEF Holds
      <4>3. QED BY <4>1, <4>2
    <3>3. ASSUME NEW i \in 1..Len(t) PROVE Stop(t[i]) <= hi
      BY <1>2, <1>3, <2>1, <2>3 DEF Holds
    <3>4. QED BY <1>2, <2>1, <3>1, <3>2, <3>3 DEF Holds, LastOf
  <2>4. QED BY <2>2, <2>3
<1>5. QED BY <1>2, <1>4 DEF LastOf

(* Growing the tail chunk by n bytes moves the end of the list by n. *)
LEMMA GrowList ==
  ASSUME NEW s \in Seq(Chunk), s # << >>, NEW lo \in Int, NEW hi \in Int,
         NEW n \in Nat, Holds(s, lo, hi)
  PROVE  LET t == Grow(s, n)
         IN  /\ t \in Seq(Chunk) /\ t # << >> /\ Len(t) = Len(s)
             /\ \A i \in 1..(Len(s) - 1) : t[i] = s[i]
             /\ LastOf(t).start = LastOf(s).start
             /\ LastOf(t).end = LastOf(s).end + n
             /\ Holds(t, lo, hi + n)
<1> DEFINE k == Len(s)
<1> DEFINE e == [s[k] EXCEPT !.end = @ + n]
<1> DEFINE t == Grow(s, n)
<1>1. k \in Nat /\ k > 0 /\ k \in 1..Len(s)
  BY EmptySeq
<1>2. s[k] \in Chunk
  BY <1>1, ElementOfSeq
<1>3. /\ e \in Chunk /\ e.start = s[k].start /\ e.off = s[k].off
      /\ e.end = s[k].end + n
      /\ s[k].end \in Nat /\ s[k].off \in Nat
  BY <1>2, MoveCursor
<1>4. t = [s EXCEPT ![k] = e]
  BY DEF Grow
<1>5. /\ t \in Seq(Chunk) /\ Len(t) = k
      /\ \A j \in 1..k : t[j] = IF j = k THEN e ELSE s[j]
  BY <1>1, <1>3, <1>4, ExceptSeq
<1>6. t # << >>
  BY <1>1, <1>5, EmptySeq
<1>7. t[k] = e /\ \A i \in 1..(k - 1) : t[i] = s[i]
  BY <1>1, <1>5
<1> HIDE DEF e, t
<1>8. \A i \in 1..k : First(t[i]) = First(s[i])
  BY <1>1, <1>3, <1>5 DEF First
<1>9. Stop(t[k]) = Stop(s[k]) + n /\ \A i \in 1..(k - 1) : Stop(t[i]) = Stop(s[i])
  BY <1>1, <1>3, <1>7 DEF Stop
<1>10. Holds(t, lo, hi + n)
  <2>1. First(t[1]) = lo
    BY <1>1, <1>8 DEF Holds
  <2>2. ASSUME NEW i \in 1..(k - 1) PROVE Stop(t[i]) = First(t[i + 1])
    BY <1>1, <1>8, <1>9 DEF Holds
  <2>3. Stop(t[k]) = hi + n
    BY <1>9 DEF Holds, LastOf
  <2>4. ASSUME NEW i \in 1..k PROVE Stop(t[i]) <= hi + n
    <3>1. Stop(s[i]) <= hi /\ s[i] \in Chunk
      BY ElementOfSeq DEF Holds
    <3>2. Stop(s[i]) \in Int
      BY <3>1 DEF Stop, Chunk
    <3>3. CASE i = k
      BY <2>3, <3>3
    <3>4. CASE i # k
      BY <1>1, <1>9, <3>1, <3>2, <3>4
    <3>5. QED BY <3>3, <3>4
  <2>5. QED BY <1>5, <1>6, <2>1, <2>2, <2>3, <2>4 DEF Holds, LastOf
<1>11. QED BY <1>3, <1>5, <1>6, <1>7, <1>10 DEF LastOf, t

(* Dropping the head chunk moves the start of the list past its bytes. *)
LEMMA TailList ==
  ASSUME NEW s \in Seq(Chunk), s # << >>, NEW lo \in Int, NEW hi \in Int,
         Holds(s, lo, hi)
  PROVE  /\ Tail(s) \in Seq(Chunk)
         /\ Holds(Tail(s), lo + Bytes(s[1]), hi)
<1> DEFINE t == Tail(s)
<1>1. /\ t \in Seq(Chunk) /\ Len(t) = Len(s) - 1
      /\ \A i \in 1..Len(t) : t[i] = s[i + 1]
  BY HeadTailProperties
<1>2. Len(s) \in Nat /\ Len(s) > 0 /\ (t = << >> <=> Len(s) = 1)
  <2>1. Len(s) \in Nat /\ Len(s) > 0
    BY EmptySeq
  <2>2. (t # << >> => Len(t) \in Nat \ {0}) /\ Len(<< >>) = 0
    BY <1>1, EmptySeq
  <2>3. ASSUME t = << >> PROVE Len(s) = 1
    <3>1. Len(t) = 0
      BY <2>2, <2>3
    <3>2. Len(t) = Len(s) - 1
      BY <1>1
    <3> HIDE DEF t
    <3>3. QED BY <2>1, <3>1, <3>2
  <2>4. ASSUME t # << >> PROVE Len(s) # 1
    BY <1>1, <2>1, <2>2, <2>4
  <2>5. QED BY <2>1, <2>3, <2>4
<1>3. s[1] \in Chunk
  BY <1>2, ElementOfSeq
<1>4. Stop(s[1]) = lo + Bytes(s[1])
  BY <1>3 DEF Holds, Stop, First, Bytes, Chunk
<1>5. CASE Len(s) = 1
  BY <1>1, <1>2, <1>4, <1>5 DEF Holds, LastOf
<1>6. CASE Len(s) > 1
  <2>1. First(t[1]) = lo + Bytes(s[1])
    BY <1>1, <1>2, <1>4, <1>6 DEF Holds
  <2>2. ASSUME NEW i \in 1..(Len(t) - 1) PROVE Stop(t[i]) = First(t[i + 1])
    BY <1>1, <1>2 DEF Holds
  <2>3. ASSUME NEW i \in 1..Len(t) PROVE Stop(t[i]) <= hi
    BY <1>1, <1>2 DEF Holds
  <2>4. Stop(t[Len(t)]) = hi
    BY <1>1, <1>2, <1>6 DEF Holds, LastOf
  <2>5. QED BY <1>1, <1>2, <1>6, <2>1, <2>2, <2>3, <2>4 DEF Holds, LastOf
<1>7. QED BY <1>2, <1>5, <1>6

(* Moving the start of the head chunk by n moves the start of the list. *)
LEMMA TrimList ==
  ASSUME NEW s \in Seq(Chunk), s # << >>, NEW lo \in Int, NEW hi \in Int,
         NEW n \in Nat, Holds(s, lo, hi)
  PROVE  LET t == Trim(s, n)
         IN  /\ t \in Seq(Chunk) /\ t # << >> /\ Len(t) = Len(s)
             /\ \A i \in 2..Len(s) : t[i] = s[i]
             /\ t[1].start = s[1].start + n
             /\ t[1].end = s[1].end
             /\ Holds(t, lo + n, hi)
<1> DEFINE e == [s[1] EXCEPT !.start = @ + n]
<1> DEFINE t == Trim(s, n)
<1>1. Len(s) \in Nat /\ Len(s) > 0 /\ 1 \in 1..Len(s)
  BY EmptySeq
<1>2. s[1] \in Chunk
  BY <1>1, ElementOfSeq
<1>3. /\ e \in Chunk /\ e.start = s[1].start + n /\ e.off = s[1].off
      /\ e.end = s[1].end
      /\ s[1].start \in Nat /\ s[1].off \in Nat
  BY <1>2, MoveCursor
<1>4. t = [s EXCEPT ![1] = e]
  BY DEF Trim
<1>5. /\ t \in Seq(Chunk) /\ Len(t) = Len(s)
      /\ \A j \in 1..Len(s) : t[j] = IF j = 1 THEN e ELSE s[j]
  BY <1>1, <1>3, <1>4, ExceptSeq
<1>6. t # << >>
  BY <1>1, <1>5, EmptySeq
<1>7. t[1] = e /\ \A i \in 2..Len(s) : t[i] = s[i]
  BY <1>1, <1>5
<1>8. First(t[1]) = First(s[1]) + n
  BY <1>3, <1>7 DEF First
<1>9. \A i \in 1..Len(s) : Stop(t[i]) = Stop(s[i])
  BY <1>1, <1>3, <1>5 DEF Stop
<1>10. Holds(t, lo + n, hi)
  <2> HIDE DEF t, e
  <2>1. First(t[1]) = lo + n
    BY <1>8 DEF Holds
  <2>2. ASSUME NEW i \in 1..(Len(s) - 1) PROVE Stop(t[i]) = First(t[i + 1])
    BY <1>1, <1>7, <1>9 DEF Holds
  <2>3. Stop(t[Len(s)]) = hi /\ \A i \in 1..Len(s) : Stop(t[i]) <= hi
    BY <1>1, <1>9 DEF Holds, LastOf
  <2>4. QED BY <1>5, <1>6, <2>1, <2>2, <2>3 DEF Holds, LastOf
<1>11. QED BY <1>3, <1>5, <1>6, <1>7, <1>10

(* Making room leaves the bytes as they are, and the tail with the room. *)
LEMMA RoomList ==
  ASSUME NEW s \in Seq(Chunk), NEW lo \in Int, NEW hi \in Nat,
         NEW sz \in 1..ChunkSize, Holds(s, lo, hi), Shaped(s)
  PROVE  LET t == WithRoom(s, sz, hi)
         IN  /\ t \in Seq(Chunk) /\ t # << >>
             /\ LastOf(t).end + sz <= ChunkSize
             /\ Holds(t, lo, hi) /\ Shaped(t)
<1>1. CASE NeedsChunk(s, sz)
  <2> DEFINE t == Append(s, ChunkNew(hi))
  <2>1. WithRoom(s, sz, hi) = t
    BY <1>1 DEF WithRoom
  <2>2. /\ t \in Seq(Chunk) /\ t # << >> /\ Len(t) = Len(s) + 1
        /\ \A i \in 1..Len(s) : t[i] = s[i]
        /\ LastOf(t) = ChunkNew(hi) /\ Holds(t, lo, hi)
    BY AppendChunk
  <2>3. ChunkNew(hi).start = 0 /\ ChunkNew(hi).end = 0
    BY DEF ChunkNew
  <2>4. Len(s) \in Nat /\ (s # << >> => Len(s) > 0) /\ (s = << >> => Len(s) = 0)
    BY EmptySeq
  <2>5. ASSUME s # << >> PROVE s[Len(s)].end > 0
    <3>1. s[Len(s)] \in Chunk
      BY <2>4, <2>5, ElementOfSeq
    <3>2. s[Len(s)].end \in Nat
      BY <3>1 DEF Chunk
    <3>3. QED BY <1>1, <2>5, <3>2 DEF NeedsChunk, LastOf
  <2>6. Shaped(t)
    <3> SUFFICES ASSUME NEW i \in 1..Len(t)
                 PROVE  /\ t[i].end <= ChunkSize
                        /\ t[i].start < t[i].end
                           \/ (t[i].start = 0 /\ t[i].end = 0)
                        /\ i < Len(t) => t[i].end > 0
      BY DEF Shaped
    <3>1. CASE i = Len(t)
      BY <2>2, <2>3, <3>1 DEF LastOf
    <3>2. CASE i # Len(t)
      <4>1. i \in 1..Len(s) /\ t[i] = s[i]
        BY <2>2, <2>4, <3>2
      <4>2. CASE i = Len(s)
        BY <2>5, <2>4, <4>1, <4>2 DEF Shaped
      <4>3. CASE i # Len(s)
        BY <2>4, <4>1, <4>3 DEF Shaped
      <4>4. QED BY <4>2, <4>3
    <3>3. QED BY <3>1, <3>2
  <2>7. QED BY <2>1, <2>2, <2>3, <2>6
<1>2. CASE ~NeedsChunk(s, sz)
  <2>1. WithRoom(s, sz, hi) = s /\ s # << >>
    BY <1>2 DEF WithRoom, NeedsChunk
  <2>2. LastOf(s) \in Chunk
    BY <2>1, EmptySeq, ElementOfSeq DEF LastOf
  <2>3. LastOf(s).end \in Nat
    BY <2>2 DEF Chunk
  <2>4. LastOf(s).end + sz <= ChunkSize
    BY <1>2, <2>3 DEF NeedsChunk
  <2>5. QED BY <2>1, <2>4
<1>3. QED BY <1>1, <1>2

(* Chunks keep their shape when the tail grows, the head shrinks or goes. *)
LEMMA GrowShaped ==
  ASSUME NEW s \in Seq(Chunk), s # << >>, NEW t \in Seq(Chunk), NEW n \in Nat,
         Len(t) = Len(s), \A i \in 1..(Len(s) - 1) : t[i] = s[i],
         LastOf(t).start = LastOf(s).start,
         LastOf(t).end = LastOf(s).end + n,
         LastOf(s).end + n <= ChunkSize, Shaped(s)
  PROVE  Shaped(t)
<1>1. Len(s) \in Nat /\ Len(s) > 0
  BY EmptySeq
<1>2. s[Len(s)] \in Chunk
  BY <1>1, ElementOfSeq
<1>3. s[Len(s)].start \in Nat /\ s[Len(s)].end \in Nat
  BY <1>2 DEF Chunk
<1>4. ASSUME NEW i \in 1..Len(t)
      PROVE  /\ t[i].end <= ChunkSize
             /\ t[i].start < t[i].end \/ (t[i].start = 0 /\ t[i].end = 0)
             /\ i < Len(t) => t[i].end > 0
  <2>1. CASE i = Len(s)
    BY <1>1, <1>3, <2>1 DEF Shaped, LastOf
  <2>2. CASE i # Len(s)
    BY <1>1, <2>2 DEF Shaped
  <2>3. QED BY <2>1, <2>2
<1>5. QED BY <1>4 DEF Shaped

LEMMA TailShaped ==
  ASSUME NEW s \in Seq(Chunk), s # << >>, Shaped(s)
  PROVE  Shaped(Tail(s))
<1>1. /\ Len(s) \in Nat /\ Len(s) > 0 /\ Len(Tail(s)) = Len(s) - 1
      /\ \A i \in 1..Len(Tail(s)) : Tail(s)[i] = s[i + 1]
  BY EmptySeq, HeadTailProperties
<1>2. QED BY <1>1 DEF Shaped

LEMMA TrimShaped ==
  ASSUME NEW s \in Seq(Chunk), s # << >>, NEW t \in Seq(Chunk), NEW n \in Nat,
         Len(t) = Len(s), \A i \in 2..Len(s) : t[i] = s[i],
         t[1].start = s[1].start + n, t[1].end = s[1].end,
         n < Bytes(s[1]), Shaped(s)
  PROVE  Shaped(t)
<1>1. Len(s) \in Nat /\ Len(s) > 0 /\ 1 \in 1..Len(s)
  BY EmptySeq
<1>2. s[1] \in Chunk
  BY <1>1, ElementOfSeq
<1>3. s[1].start \in Nat /\ s[1].end \in Nat
  BY <1>2 DEF Chunk
<1>4. ASSUME NEW i \in 1..Len(t)
      PROVE  /\ t[i].end <= ChunkSize
             /\ t[i].start < t[i].end \/ (t[i].start = 0 /\ t[i].end = 0)
             /\ i < Len(t) => t[i].end > 0
  <2>1. CASE i = 1
    BY <1>1, <1>3, <2>1 DEF Shaped, Bytes
  <2>2. CASE i # 1
    BY <1>1, <2>2 DEF Shaped
  <2>3. QED BY <2>1, <2>2
<1>5. QED BY <1>4 DEF Shaped

-----------------------------------------------------------------------------
(* The inductive invariant. *)

(* Facts about one queue that every action below starts from. *)
LEMMA QueueFacts ==
  ASSUME IInv, NEW q \in Queues
  PROVE  /\ chunks[q] \in Seq(Chunk) /\ size[q] \in Nat
         /\ resv[q] \in 0..ChunkSize /\ coded[q] \in Nat
         /\ written[q] \in Nat /\ sent[q] \in Nat
         /\ sent[q] + coded[q] <= written[q]
         /\ written[q] - coded[q] \in Nat
         /\ InFlight(q) \in Nat /\ sent[q] - InFlight(q) \in Int
         /\ Holds(chunks[q], sent[q] - InFlight(q), written[q] - coded[q])
         /\ Shaped(chunks[q])
         /\ size[q] = written[q] - sent[q] - coded[q]
<1>1. /\ chunks[q] \in Seq(Chunk) /\ size[q] \in Nat
      /\ resv[q] \in 0..ChunkSize /\ coded[q] \in Nat
      /\ written[q] \in Nat /\ sent[q] \in Nat /\ todo \in Nat
  BY DEF IInv, TypeOK
<1>2. sent[q] + coded[q] <= written[q]
  BY DEF IInv, LoopState
<1>3. InFlight(q) \in Nat
  BY <1>1 DEF InFlight
<1>4. Holds(chunks[q], sent[q] - InFlight(q), written[q] - coded[q])
  BY DEF IInv, Contiguous
<1>5. Shaped(chunks[q]) /\ size[q] = written[q] - sent[q] - coded[q]
  BY DEF IInv, ChunkBounds, SizeExact
<1>6. written[q] - coded[q] \in Nat /\ sent[q] - InFlight(q) \in Int
  BY <1>1, <1>2, <1>3
<1>7. QED BY <1>1, <1>2, <1>3, <1>4, <1>5, <1>6, Zenon

LEMMA InitIInv == Init => IInv
<1> SUFFICES ASSUME Init PROVE IInv
  OBVIOUS
<1>1. << >> \in Seq(Chunk) /\ Len(<< >>) = 0
  BY EmptySeq
<1>2. TypeOK
  BY <1>1 DEF Init, TypeOK
<1>3. LoopState
  BY DEF Init, LoopState
<1>4. Contiguous
  BY DEF Init, Contiguous, Holds, InFlight
<1>5. SizeExact /\ RoomPromised
  BY DEF Init, SizeExact, RoomPromised
<1>6. ChunkBounds
  BY <1>1 DEF Init, ChunkBounds, Shaped
<1>7. QED BY <1>2, <1>3, <1>4, <1>5, <1>6 DEF IInv

(* Nothing about queue p changes. *)
Same(p) ==
  /\ chunks'[p] = chunks[p] /\ size'[p] = size[p] /\ resv'[p] = resv[p]
  /\ coded'[p] = coded[p] /\ written'[p] = written[p] /\ sent'[p] = sent[p]
  /\ InFlight(p)' = InFlight(p)

(* A step that changes one queue has that queue's part to show. *)
LEMMA OneQueue ==
  ASSUME IInv, NEW q \in Queues, TypeOK', LoopState',
         \A p \in Queues \ {q} : Same(p),
         Holds(chunks'[q], sent'[q] - InFlight(q)', written'[q] - coded'[q]),
         Shaped(chunks'[q]),
         size'[q] = written'[q] - sent'[q] - coded'[q],
         resv'[q] > 0 => /\ chunks'[q] # << >>
                         /\ LastOf(chunks'[q]).end + resv'[q] <= ChunkSize
  PROVE  IInv'
<1>1. Contiguous'
  <2>1. ASSUME NEW p \in Queues \ {q}
        PROVE  Holds(chunks'[p], sent'[p] - InFlight(p)', written'[p] - coded'[p])
    <3>1. Holds(chunks[p], sent[p] - InFlight(p), written[p] - coded[p])
      BY DEF IInv, Contiguous
    <3>2. /\ chunks'[p] = chunks[p] /\ coded'[p] = coded[p]
          /\ written'[p] = written[p] /\ sent'[p] = sent[p]
          /\ InFlight(p)' = InFlight(p)
      BY DEF Same
    <3>3. QED BY <3>1, <3>2, Zenon
  <2>2. QED BY <2>1, Zenon DEF Contiguous
<1>2. SizeExact'
  <2>1. ASSUME NEW p \in Queues \ {q}
        PROVE  size'[p] = written'[p] - sent'[p] - coded'[p]
    BY DEF IInv, SizeExact, Same
  <2>2. QED BY <2>1, Zenon DEF SizeExact
<1>3. ChunkBounds'
  BY DEF IInv, ChunkBounds, Same
<1>4. RoomPromised'
  BY DEF IInv, RoomPromised, Same
<1>5. QED BY <1>1, <1>2, <1>3, <1>4 DEF IInv

LEMMA GetBufferIInv ==
  ASSUME IInv, NEW q \in Queues, NEW sz \in 1..ChunkSize, GetBuffer(q, sz)
  PROVE  IInv'
<1> DEFINE t == WithRoom(chunks[q], sz, written[q])
<1>1. /\ pc = "idle" /\ coded[q] = 0 /\ InFlight(q) = 0
      /\ \A p \in Queues : InFlight(p)' = InFlight(p)
  BY DEF IInv, LoopState, GetBuffer, InFlight, loopVars
<1>2. /\ Holds(chunks[q], sent[q], written[q]) /\ Shaped(chunks[q])
      /\ chunks[q] \in Seq(Chunk) /\ sent[q] \in Int /\ written[q] \in Nat
  BY <1>1, QueueFacts
<1>3. /\ t \in Seq(Chunk) /\ t # << >> /\ LastOf(t).end + sz <= ChunkSize
      /\ Holds(t, sent[q], written[q]) /\ Shaped(t)
  BY <1>2, RoomList
<1> HIDE DEF t
<1>4. /\ chunks' = [chunks EXCEPT ![q] = t] /\ resv' = [resv EXCEPT ![q] = sz]
      /\ UNCHANGED <<size, pc, cur, niov, avail, todo, coded, written, sent>>
  BY DEF GetBuffer, loopVars, t
<1>5. /\ chunks'[q] = t /\ resv'[q] = sz
      /\ \A p \in Queues \ {q} : Same(p)
  BY <1>1, <1>4 DEF IInv, TypeOK, Same
<1>6. TypeOK'
  <2>1. chunks' \in [Queues -> Seq(Chunk)] /\ resv' \in [Queues -> 0..ChunkSize]
    BY <1>3, <1>4 DEF IInv, TypeOK
  <2>2. nfree' \in 0..BacklogMax
    BY DEF GetBuffer, PoolTake, IInv, TypeOK
  <2>3. QED BY <1>4, <2>1, <2>2 DEF IInv, TypeOK
<1>7. LoopState'
  BY <1>1, <1>4 DEF IInv, LoopState
<1>8. /\ Holds(chunks'[q], sent'[q] - InFlight(q)', written'[q] - coded'[q])
      /\ size'[q] = written'[q] - sent'[q] - coded'[q]
  BY <1>1, <1>2, <1>3, <1>4, <1>5, QueueFacts
<1>9. QED BY <1>3, <1>5, <1>6, <1>7, <1>8, OneQueue

LEMMA EndBufferIInv ==
  ASSUME IInv, NEW q \in Queues, NEW sz \in 0..ChunkSize, EndBuffer(q, sz)
  PROVE  IInv'
<1> DEFINE s == chunks[q]
<1> DEFINE t == Grow(s, sz)
<1>1. /\ pc = "idle" /\ coded[q] = 0 /\ InFlight(q) = 0
      /\ \A p \in Queues : InFlight(p)' = InFlight(p)
  BY DEF IInv, LoopState, EndBuffer, InFlight, loopVars
<1>2. s # << >> /\ LastOf(s).end + resv[q] <= ChunkSize
  BY DEF IInv, RoomPromised, EndBuffer
<1>3. /\ Holds(s, sent[q], written[q]) /\ Shaped(s) /\ s \in Seq(Chunk)
      /\ sent[q] \in Int /\ written[q] \in Nat /\ resv[q] \in Nat
      /\ size[q] \in Nat /\ size[q] = written[q] - sent[q]
      /\ sent[q] <= written[q]
  BY <1>1, QueueFacts
<1>4. LastOf(s).end \in Nat
  <2>1. LastOf(s) \in Chunk
    BY <1>2, <1>3, EmptySeq, ElementOfSeq DEF LastOf
  <2>2. QED BY <2>1 DEF Chunk
<1>5. sz <= resv[q] /\ LastOf(s).end + sz <= ChunkSize /\ sz \in Nat
  BY <1>2, <1>3, <1>4 DEF EndBuffer
<1> HIDE DEF s
<1>6. Clamped(LastOf(s), sz) = sz
  BY <1>4, <1>5 DEF Clamped
<1>7. /\ t \in Seq(Chunk) /\ t # << >> /\ Len(t) = Len(s)
      /\ \A i \in 1..(Len(s) - 1) : t[i] = s[i]
      /\ LastOf(t).start = LastOf(s).start
      /\ LastOf(t).end = LastOf(s).end + sz
      /\ Holds(t, sent[q], written[q] + sz)
  BY <1>2, <1>3, <1>5, GrowList
<1> HIDE DEF t
<1>8. Shaped(t)
  BY <1>2, <1>3, <1>5, <1>7, GrowShaped
<1>9. /\ chunks' = [chunks EXCEPT ![q] = t]
      /\ size' = [size EXCEPT ![q] = @ + sz]
      /\ written' = [written EXCEPT ![q] = @ + sz]
      /\ resv' = [resv EXCEPT ![q] = 0]
      /\ UNCHANGED <<nfree, pc, cur, niov, avail, todo, coded, sent>>
  BY <1>2, <1>6 DEF EndBuffer, loopVars, s, t
<1>10. /\ chunks'[q] = t /\ resv'[q] = 0 /\ written'[q] = written[q] + sz
       /\ size'[q] = size[q] + sz
       /\ \A p \in Queues \ {q} : Same(p)
  BY <1>1, <1>9 DEF IInv, TypeOK, Same
<1>11. TypeOK'
  <2>1. /\ chunks \in [Queues -> Seq(Chunk)] /\ size \in [Queues -> Nat]
        /\ written \in [Queues -> Nat] /\ resv \in [Queues -> 0..ChunkSize]
    BY DEF IInv, TypeOK
  <2>2. chunks' \in [Queues -> Seq(Chunk)]
    BY <1>7, <1>9, <2>1
  <2>3. size' \in [Queues -> Nat]
    <3>1. size[q] + sz \in Nat
      BY <1>3, <1>5
    <3>2. QED BY <1>9, <2>1, <3>1
  <2>4. written' \in [Queues -> Nat]
    <3>1. written[q] + sz \in Nat
      BY <1>3, <1>5
    <3>2. QED BY <1>9, <2>1, <3>1
  <2>5. resv' \in [Queues -> 0..ChunkSize]
    <3>1. 0 \in 0..ChunkSize
      BY SendQAssumption
    <3>2. QED BY <1>9, <2>1, <3>1
  <2>6. QED BY <1>9, <2>2, <2>3, <2>4, <2>5 DEF IInv, TypeOK
<1>12. LoopState'
  <2>1. ASSUME NEW p \in Queues PROVE sent'[p] + coded'[p] <= written'[p]
    <3>1. sent[p] + coded[p] <= written[p]
      BY DEF IInv, LoopState
    <3>2. sent' = sent /\ coded' = coded
      BY <1>9
    <3>3. CASE p = q
      BY <1>1, <1>3, <1>5, <1>10, <3>2, <3>3
    <3>4. CASE p # q
      BY <1>10, <3>1, <3>2, <3>4 DEF Same
    <3>5. QED BY <3>3, <3>4
  <2>2. QED BY <1>1, <1>9, <2>1 DEF IInv, LoopState
<1>13. /\ Holds(chunks'[q], sent'[q] - InFlight(q)', written'[q] - coded'[q])
       /\ size'[q] = written'[q] - sent'[q] - coded'[q]
  <2>1. /\ InFlight(q)' = 0 /\ coded'[q] = 0 /\ sent'[q] = sent[q]
        /\ written'[q] = written[q] + sz /\ size'[q] = size[q] + sz
        /\ chunks'[q] = t
    BY <1>1, <1>9, <1>10
  <2>2. /\ sent'[q] - InFlight(q)' = sent[q]
        /\ written'[q] - coded'[q] = written[q] + sz
    BY <1>3, <1>5, <2>1
  <2>3. size'[q] = written'[q] - sent'[q] - coded'[q]
    BY <1>3, <1>5, <2>1
  <2>4. QED BY <1>7, <2>1, <2>2, <2>3
<1>14. QED BY <1>8, <1>10, <1>11, <1>12, <1>13, OneQueue

LEMMA ClearIInv ==
  ASSUME IInv, NEW q \in Queues, Clear(q)
  PROVE  IInv'
<1>1. /\ pc = "idle" /\ coded[q] = 0 /\ InFlight(q) = 0 /\ todo = 0
      /\ \A p \in Queues : InFlight(p)' = InFlight(p)
  BY DEF IInv, LoopState, Clear, InFlight, loopVars
<1>2. /\ << >> \in Seq(Chunk) /\ Len(<< >>) = 0 /\ Len(chunks[q]) \in Nat
      /\ written[q] \in Nat /\ resv[q] = 0
  BY EmptySeq, QueueFacts, LenProperties DEF Clear
<1>3. /\ chunks' = [chunks EXCEPT ![q] = << >>]
      /\ size' = [size EXCEPT ![q] = 0]
      /\ sent' = [sent EXCEPT ![q] = written[q]]
      /\ UNCHANGED <<resv, pc, cur, niov, avail, todo, coded, written>>
  BY DEF Clear, loopVars
<1>4. /\ chunks'[q] = << >> /\ size'[q] = 0 /\ sent'[q] = written[q]
      /\ resv'[q] = 0 /\ written'[q] = written[q] /\ coded'[q] = 0
      /\ \A p \in Queues \ {q} : Same(p)
  BY <1>1, <1>2, <1>3 DEF IInv, TypeOK, Same
<1>5. TypeOK'
  <2>1. chunks' \in [Queues -> Seq(Chunk)] /\ size' \in [Queues -> Nat]
        /\ sent' \in [Queues -> Nat]
    BY <1>2, <1>3 DEF IInv, TypeOK
  <2>2. nfree' \in 0..BacklogMax
    BY <1>2 DEF Clear, PoolGive, IInv, TypeOK
  <2>3. QED BY <1>3, <2>1, <2>2 DEF IInv, TypeOK
<1>6. LoopState'
  <2>1. \A p \in Queues : sent'[p] + coded'[p] <= written'[p]
    BY <1>1, <1>2, <1>3, <1>4 DEF Same, IInv, LoopState
  <2>2. cur \in Queues /\ sent'[cur] \in Nat
    BY <1>5, <1>3 DEF IInv, TypeOK
  <2>3. QED BY <1>1, <1>3, <2>1, <2>2 DEF IInv, LoopState
<1>7. Holds(chunks'[q], sent'[q] - InFlight(q)', written'[q] - coded'[q])
  BY <1>1, <1>2, <1>4 DEF Holds
<1>8. Shaped(chunks'[q]) /\ size'[q] = written'[q] - sent'[q] - coded'[q]
  BY <1>2, <1>4 DEF Shaped
<1>9. QED BY <1>4, <1>5, <1>6, <1>7, <1>8, OneQueue

-----------------------------------------------------------------------------
(* The loops of u_sendq_write. *)

(* A step that changes no queue has only the loop state to show. *)
LEMMA NoQueue ==
  ASSUME IInv, TypeOK', LoopState', \A p \in Queues : Same(p)
  PROVE  IInv'
<1>1. Contiguous'
  <2>1. ASSUME NEW p \in Queues
        PROVE  Holds(chunks'[p], sent'[p] - InFlight(p)', written'[p] - coded'[p])
    <3>1. Holds(chunks[p], sent[p] - InFlight(p), written[p] - coded[p])
      BY DEF IInv, Contiguous
    <3>2. /\ chunks'[p] = chunks[p] /\ coded'[p] = coded[p]
          /\ written'[p] = written[p] /\ sent'[p] = sent[p]
          /\ InFlight(p)' = InFlight(p)
      BY DEF Same
    <3>3. QED BY <3>1, <3>2, Zenon
  <2>2. QED BY <2>1, Zenon DEF Contiguous
<1>2. SizeExact'
  BY DEF IInv, SizeExact, Same
<1>3. ChunkBounds'
  BY DEF IInv, ChunkBounds, Same
<1>4. RoomPromised'
  BY DEF IInv, RoomPromised, Same
<1>5. QED BY <1>1, <1>2, <1>3, <1>4 DEF IInv

(* Facts about the queue whose loop runs, and its head chunk. *)
LEMMA HeadFacts ==
  ASSUME IInv, chunks[cur] # << >>
  PROVE  /\ cur \in Queues /\ chunks[cur] \in Seq(Chunk)
         /\ Len(chunks[cur]) \in Nat /\ Len(chunks[cur]) > 0
         /\ \A i \in 1..Len(chunks[cur]) :
              /\ chunks[cur][i] \in Chunk
              /\ Bytes(chunks[cur][i]) \in Nat
              /\ Stop(chunks[cur][i]) = First(chunks[cur][i])
                                        + Bytes(chunks[cur][i])
              /\ Stop(chunks[cur][i]) \in Nat
<1>1. cur \in Queues
  BY DEF IInv, TypeOK
<1>2. chunks[cur] \in Seq(Chunk) /\ Shaped(chunks[cur])
  BY <1>1, QueueFacts
<1>3. Len(chunks[cur]) \in Nat /\ Len(chunks[cur]) > 0
  BY <1>2, EmptySeq
<1>4. ASSUME NEW i \in 1..Len(chunks[cur])
      PROVE  /\ chunks[cur][i] \in Chunk
             /\ Bytes(chunks[cur][i]) \in Nat
             /\ Stop(chunks[cur][i]) = First(chunks[cur][i])
                                       + Bytes(chunks[cur][i])
             /\ Stop(chunks[cur][i]) \in Nat
  <2>1. chunks[cur][i] \in Chunk
    BY <1>2, ElementOfSeq
  <2>2. /\ chunks[cur][i].start \in Nat /\ chunks[cur][i].end \in Nat
        /\ chunks[cur][i].off \in Nat
    BY <2>1 DEF Chunk
  <2>3. chunks[cur][i].start <= chunks[cur][i].end
    BY <1>2, <2>2 DEF Shaped
  <2>4. QED BY <2>1, <2>2, <2>3 DEF Bytes, Stop, First
<1>5. QED BY <1>1, <1>2, <1>3, <1>4

LEMMA WriteStartIInv ==
  ASSUME IInv, NEW q \in Queues, WriteStart(q)
  PROVE  IInv'
<1>1. /\ pc = "idle" /\ todo = 0 /\ pc' = "gather" /\ cur' = q /\ niov' = 0
      /\ avail' = 0 /\ chunks[q] \in Seq(Chunk) /\ Len(chunks[q]) \in Nat
      /\ resv[q] = 0
      /\ UNCHANGED <<chunks, size, nfree, resv, todo, coded, written, sent>>
  BY QueueFacts, LenProperties DEF IInv, LoopState, WriteStart
<1>2. TypeOK'
  BY <1>1 DEF IInv, TypeOK
<1>3. LoopState'
  <2>1. sent[q] \in Nat
    BY QueueFacts
  <2>2. QED BY <1>1, <2>1 DEF IInv, LoopState
<1>4. \A p \in Queues : Same(p)
  BY <1>1 DEF Same, InFlight
<1>5. QED BY <1>2, <1>3, <1>4, NoQueue

LEMMA GatherIInv ==
  ASSUME IInv, Gather
  PROVE  IInv'
<1> DEFINE s == chunks[cur]
<1>1. /\ pc = "gather" /\ niov \in Nat /\ niov < NumIovecs /\ niov < Len(s)
      /\ niov' = niov + 1 /\ avail' = avail + Bytes(s[niov + 1])
      /\ avail \in Nat /\ cur \in Queues /\ InFlight(cur) = 0
      /\ UNCHANGED <<chunks, size, nfree, resv, pc, cur, todo, coded, written,
                     sent>>
  BY DEF IInv, TypeOK, Gather, GatherMore, InFlight
<1>2. s \in Seq(Chunk) /\ Holds(s, sent[cur], written[cur] - coded[cur])
      /\ sent[cur] \in Nat
  BY <1>1, QueueFacts
<1>3. s # << >> /\ Len(s) \in Nat
  BY <1>1, <1>2, EmptySeq, LenProperties
<1>4. \A i \in 1..Len(s) : /\ Bytes(s[i]) \in Nat
                           /\ Stop(s[i]) = First(s[i]) + Bytes(s[i])
                           /\ Stop(s[i]) \in Nat
  BY <1>3, HeadFacts
<1>5. First(s[1]) = sent[cur]
      /\ \A i \in 1..(Len(s) - 1) : Stop(s[i]) = First(s[i + 1])
  BY <1>2, <1>3 DEF Holds
<1>6. /\ niov = 0 => avail = 0
      /\ niov > 0 => /\ avail = Stop(s[niov]) - sent[cur]
                     /\ avail >= Bytes(s[1])
  BY <1>1 DEF IInv, LoopState
<1> HIDE DEF s
<1>7. /\ avail' = Stop(s[niov + 1]) - sent[cur]
      /\ avail' >= Bytes(s[1]) /\ avail' \in Nat
  <2>1. Len(s) \in Nat /\ niov + 1 \in 1..Len(s) /\ 1 \in 1..Len(s)
    BY <1>1, <1>3
  <2>2. /\ Bytes(s[niov + 1]) \in Nat /\ Bytes(s[1]) \in Nat
        /\ Stop(s[niov + 1]) = First(s[niov + 1]) + Bytes(s[niov + 1])
        /\ Stop(s[niov + 1]) \in Nat
    BY <1>4, <2>1
  <2>3. CASE niov = 0
    <3>1. avail = 0 /\ niov + 1 = 1
      BY <1>6, <2>3
    <3>2. avail' = Bytes(s[1])
      BY <1>1, <2>2, <3>1
    <3>3. Stop(s[1]) = sent[cur] + Bytes(s[1])
      BY <1>5, <2>2, <3>1
    <3>4. QED BY <1>2, <2>2, <3>1, <3>2, <3>3
  <2>4. CASE niov > 0
    <3>1. niov \in 1..(Len(s) - 1) /\ niov \in 1..Len(s)
      BY <1>1, <2>1, <2>4
    <3>2. Stop(s[niov]) = First(s[niov + 1]) /\ Stop(s[niov]) \in Nat
      BY <1>4, <1>5, <3>1
    <3>3. avail = Stop(s[niov]) - sent[cur] /\ avail >= Bytes(s[1])
      BY <1>6, <2>4
    <3>4. avail' = avail + Bytes(s[niov + 1])
      BY <1>1
    <3>5. QED BY <1>1, <1>2, <2>2, <3>2, <3>3, <3>4
  <2>5. QED BY <1>1, <2>3, <2>4
<1>8. TypeOK'
  BY <1>1, <1>7 DEF IInv, TypeOK
<1>9. LoopState'
  BY <1>1, <1>3, <1>7 DEF IInv, LoopState, s
<1>10. \A p \in Queues : Same(p)
  BY <1>1 DEF Same, InFlight
<1>11. QED BY <1>8, <1>9, <1>10, NoQueue

LEMMA WritevIInv ==
  ASSUME IInv, NEW n \in 0..avail, Writev(n)
  PROVE  IInv'
<1> DEFINE s == chunks[cur]
<1>1. /\ pc = "gather" /\ niov \in Nat /\ niov <= Len(s) /\ avail \in Nat
      /\ n \in Nat /\ n <= avail
      /\ pc' = "reap" /\ todo' = n
      /\ size' = [size EXCEPT ![cur] = @ - n]
      /\ sent' = [sent EXCEPT ![cur] = @ + n]
      /\ UNCHANGED <<chunks, nfree, resv, cur, niov, avail, coded, written>>
      /\ cur \in Queues /\ InFlight(cur) = 0 /\ coded[cur] = 0
      /\ resv[cur] = 0
  BY DEF IInv, TypeOK, LoopState, Writev, InFlight
<1>2. /\ s \in Seq(Chunk) /\ Holds(s, sent[cur], written[cur]) /\ Shaped(s)
      /\ sent[cur] \in Nat /\ written[cur] \in Nat /\ size[cur] \in Nat
      /\ size[cur] = written[cur] - sent[cur] /\ sent[cur] <= written[cur]
  <2>1. /\ s \in Seq(Chunk) /\ Shaped(s)
        /\ Holds(s, sent[cur] - InFlight(cur), written[cur] - coded[cur])
        /\ sent[cur] \in Nat /\ written[cur] \in Nat /\ size[cur] \in Nat
        /\ size[cur] = written[cur] - sent[cur] - coded[cur]
        /\ sent[cur] + coded[cur] <= written[cur]
    BY <1>1, QueueFacts
  <2>2. /\ sent[cur] - InFlight(cur) = sent[cur]
        /\ written[cur] - coded[cur] = written[cur]
    BY <1>1, <2>1
  <2>3. QED BY <1>1, <2>1, <2>2
<1>3. n <= written[cur] - sent[cur]
  <2>1. CASE niov = 0
    BY <1>1, <1>2, <2>1 DEF IInv, LoopState
  <2>2. CASE niov > 0
    <3>1. s # << >> /\ niov \in 1..Len(s)
      BY <1>1, <1>2, <2>2, EmptySeq, LenProperties
    <3>2. Stop(s[niov]) <= written[cur]
      BY <1>2, <3>1 DEF Holds
    <3>3. avail = Stop(s[niov]) - sent[cur]
      BY <1>1, <2>2 DEF IInv, LoopState
    <3>4. Stop(s[niov]) \in Nat
      BY <3>1, HeadFacts
    <3>5. QED BY <1>1, <1>2, <3>2, <3>3, <3>4
  <2>3. QED BY <1>1, <2>1, <2>2
<1>4. /\ chunks'[cur] = s /\ size'[cur] = size[cur] - n
      /\ sent'[cur] = sent[cur] + n /\ InFlight(cur)' = n
      /\ written'[cur] = written[cur] /\ coded'[cur] = 0 /\ resv'[cur] = 0
      /\ \A p \in Queues \ {cur} : Same(p)
  BY <1>1 DEF IInv, TypeOK, Same, InFlight
<1> HIDE DEF s
<1>5. TypeOK'
  <2>1. size' \in [Queues -> Nat] /\ sent' \in [Queues -> Nat]
    BY <1>1, <1>2, <1>3 DEF IInv, TypeOK
  <2>2. QED BY <1>1, <2>1 DEF IInv, TypeOK
<1>6. LoopState'
  <2>1. \A p \in Queues : sent'[p] + coded'[p] <= written'[p]
    BY <1>1, <1>2, <1>3, <1>4 DEF Same, IInv, LoopState
  <2>2. QED BY <1>1, <1>2, <1>4, <2>1 DEF IInv, LoopState
<1>7. /\ Holds(chunks'[cur], sent'[cur] - InFlight(cur)', written'[cur] - coded'[cur])
      /\ size'[cur] = written'[cur] - sent'[cur] - coded'[cur]
  BY <1>1, <1>2, <1>4
<1>8. Shaped(chunks'[cur]) /\ ~(resv'[cur] > 0)
  BY <1>2, <1>4
<1>9. QED BY <1>1, <1>4, <1>5, <1>6, <1>7, <1>8, OneQueue, Zenon

LEMMA WritevErrorIInv ==
  ASSUME IInv, WritevError
  PROVE  IInv'
<1>1. /\ pc = "gather" /\ pc' = "idle"
      /\ UNCHANGED <<chunks, size, nfree, resv, cur, niov, avail, todo, coded,
                     written, sent>>
  BY DEF WritevError
<1>2. TypeOK'
  BY <1>1 DEF IInv, TypeOK
<1>3. LoopState'
  BY <1>1 DEF IInv, LoopState
<1>4. \A p \in Queues : Same(p)
  BY <1>1 DEF Same, InFlight
<1>5. QED BY <1>2, <1>3, <1>4, NoQueue

LEMMA ReapChunkIInv ==
  ASSUME IInv, ReapChunk
  PROVE  IInv'
<1> DEFINE s == chunks[cur]
<1> DEFINE b == Bytes(s[1])
<1>1. /\ pc = "reap" /\ s # << >> /\ b <= todo /\ cur \in Queues
      /\ todo \in Nat /\ todo <= sent[cur] /\ InFlight(cur) = todo
      /\ resv[cur] = 0
      /\ todo' = todo - b /\ chunks' = [chunks EXCEPT ![cur] = Tail(s)]
      /\ UNCHANGED <<size, resv, pc, cur, niov, avail, coded, written, sent>>
  BY DEF IInv, TypeOK, LoopState, ReapChunk, InFlight
<1>2. s \in Seq(Chunk) /\ Shaped(s) /\ sent[cur] \in Nat /\ written[cur] \in Nat
      /\ coded[cur] \in Nat
      /\ Holds(s, sent[cur] - todo, written[cur] - coded[cur])
      /\ size[cur] = written[cur] - sent[cur] - coded[cur]
  BY <1>1, QueueFacts
<1>3. b \in Nat
  BY <1>1, HeadFacts
<1>4. /\ Tail(s) \in Seq(Chunk) /\ Shaped(Tail(s))
      /\ Holds(Tail(s), sent[cur] - todo + b, written[cur] - coded[cur])
  <2>1. sent[cur] - todo \in Int /\ written[cur] - coded[cur] \in Int
    BY <1>1, <1>2
  <2>2. QED BY <1>1, <1>2, <2>1, TailList, TailShaped
<1>5. /\ chunks'[cur] = Tail(s) /\ InFlight(cur)' = todo - b
      /\ \A p \in Queues \ {cur} : Same(p)
  BY <1>1 DEF IInv, TypeOK, Same, InFlight
<1> HIDE DEF s, b
<1>6. TypeOK'
  <2>1. chunks' \in [Queues -> Seq(Chunk)]
    BY <1>1, <1>4 DEF IInv, TypeOK
  <2>2. nfree' \in 0..BacklogMax
    BY DEF ReapChunk, PoolGive, IInv, TypeOK
  <2>3. todo' \in Nat
    BY <1>1, <1>3
  <2>4. QED BY <1>1, <2>1, <2>2, <2>3 DEF IInv, TypeOK
<1>7. LoopState'
  BY <1>1, <1>2, <1>3 DEF IInv, LoopState
<1>8. sent'[cur] - InFlight(cur)' = sent[cur] - todo + b
  BY <1>1, <1>2, <1>3, <1>5
<1>9. Holds(chunks'[cur], sent'[cur] - InFlight(cur)', written'[cur] - coded'[cur])
  BY <1>1, <1>4, <1>5, <1>8
<1>10. /\ Shaped(chunks'[cur]) /\ ~(resv'[cur] > 0)
       /\ size'[cur] = written'[cur] - sent'[cur] - coded'[cur]
  <2>1. /\ size'[cur] = size[cur] /\ written'[cur] = written[cur]
        /\ sent'[cur] = sent[cur] /\ coded'[cur] = coded[cur]
        /\ resv'[cur] = 0
    BY <1>1
  <2>2. Shaped(chunks'[cur])
    BY <1>4, <1>5
  <2>3. QED BY <1>2, <2>1, <2>2
<1>11. QED BY <1>1, <1>5, <1>6, <1>7, <1>9, <1>10, OneQueue, Zenon

LEMMA ReapPartialIInv ==
  ASSUME IInv, ReapPartial
  PROVE  IInv'
<1> DEFINE s == chunks[cur]
<1> DEFINE t == Trim(s, todo)
<1>1. /\ pc = "reap" /\ s # << >> /\ Bytes(s[1]) > todo /\ cur \in Queues
      /\ todo \in Nat /\ todo <= sent[cur] /\ InFlight(cur) = todo
      /\ resv[cur] = 0
      /\ todo' = 0 /\ pc' = "idle" /\ chunks' = [chunks EXCEPT ![cur] = t]
      /\ UNCHANGED <<size, nfree, resv, cur, niov, avail, coded, written, sent>>
  BY DEF IInv, TypeOK, LoopState, ReapPartial, InFlight
<1>2. s \in Seq(Chunk) /\ Shaped(s) /\ sent[cur] \in Nat /\ written[cur] \in Nat
      /\ coded[cur] \in Nat
      /\ Holds(s, sent[cur] - todo, written[cur] - coded[cur])
      /\ size[cur] = written[cur] - sent[cur] - coded[cur]
  BY <1>1, QueueFacts
<1>3. sent[cur] - todo \in Int /\ written[cur] - coded[cur] \in Int
  BY <1>1, <1>2
<1>4. Bytes(s[1]) \in Nat /\ todo < Bytes(s[1])
  BY <1>1, HeadFacts
<1> HIDE DEF s
<1>5. /\ t \in Seq(Chunk) /\ t # << >> /\ Len(t) = Len(s)
      /\ \A i \in 2..Len(s) : t[i] = s[i]
      /\ t[1].start = s[1].start + todo /\ t[1].end = s[1].end
      /\ Holds(t, sent[cur] - todo + todo, written[cur] - coded[cur])
  BY <1>1, <1>2, <1>3, TrimList
<1> HIDE DEF t
<1>6. Shaped(t)
  BY <1>1, <1>2, <1>4, <1>5, TrimShaped
<1>7. /\ chunks'[cur] = t /\ InFlight(cur)' = 0
      /\ \A p \in Queues \ {cur} : Same(p)
  BY <1>1 DEF IInv, TypeOK, Same, InFlight
<1>8. TypeOK'
  <2>1. chunks' \in [Queues -> Seq(Chunk)]
    BY <1>1, <1>5 DEF IInv, TypeOK
  <2>2. QED BY <1>1, <2>1 DEF IInv, TypeOK
<1>9. LoopState'
  BY <1>1, <1>2 DEF IInv, LoopState
<1>10. sent'[cur] - InFlight(cur)' = sent[cur] - todo + todo
  BY <1>1, <1>2, <1>7
<1>11. Holds(chunks'[cur], sent'[cur] - InFlight(cur)', written'[cur] - coded'[cur])
  BY <1>1, <1>5, <1>7, <1>10
<1>12. /\ Shaped(chunks'[cur]) /\ ~(resv'[cur] > 0)
       /\ size'[cur] = written'[cur] - sent'[cur] - coded'[cur]
  <2>1. /\ size'[cur] = size[cur] /\ written'[cur] = written[cur]
        /\ sent'[cur] = sent[cur] /\ coded'[cur] = coded[cur]
        /\ resv'[cur] = 0
    BY <1>1
  <2>2. Shaped(chunks'[cur])
    BY <1>6, <1>7
  <2>3. QED BY <1>2, <2>1, <2>2
<1>13. QED BY <1>1, <1>7, <1>8, <1>9, <1>11, <1>12, OneQueue, Zenon

LEMMA ReapDoneIInv ==
  ASSUME IInv, ReapDone
  PROVE  IInv'
<1>1. /\ pc = "reap" /\ chunks[cur] = << >> /\ cur \in Queues
      /\ todo \in Nat /\ InFlight(cur) = todo /\ coded[cur] = 0
      /\ todo' = 0 /\ pc' = "idle"
      /\ UNCHANGED <<chunks, size, nfree, resv, cur, niov, avail, coded,
                     written, sent>>
  BY DEF IInv, TypeOK, LoopState, ReapDone, InFlight
<1>2. /\ Holds(chunks[cur], sent[cur] - InFlight(cur), written[cur] - coded[cur])
      /\ sent[cur] \in Nat /\ written[cur] \in Nat
      /\ sent[cur] + coded[cur] <= written[cur]
  BY <1>1, QueueFacts
<1>3. sent[cur] - todo = written[cur]
  <2>1. sent[cur] - InFlight(cur) = written[cur] - coded[cur]
    BY <1>1, <1>2, Zenon DEF Holds
  <2>2. QED BY <1>1, <1>2, <2>1
<1>4. todo = 0
  BY <1>1, <1>2, <1>3
<1>5. TypeOK'
  BY <1>1 DEF IInv, TypeOK
<1>6. LoopState'
  BY <1>1, <1>2, <1>4 DEF IInv, LoopState
<1>7. \A p \in Queues : Same(p)
  BY <1>1, <1>4 DEF Same, InFlight
<1>8. QED BY <1>5, <1>6, <1>7, NoQueue

-----------------------------------------------------------------------------
(* The upgrade. *)

LEMMA DumpIInv ==
  ASSUME IInv, Dump
  PROVE  IInv'
<1>1. /\ pc = "idle" /\ todo = 0 /\ pc' = "restore"
      /\ chunks' = [q \in Queues |-> << >>] /\ size' = [q \in Queues |-> 0]
      /\ nfree' = 0 /\ coded' = [q \in Queues |-> Serialized(chunks[q])]
      /\ UNCHANGED <<resv, cur, niov, avail, todo, written, sent>>
      /\ \A q \in Queues : resv[q] = 0
  BY DEF IInv, LoopState, Dump
<1>2. ASSUME NEW q \in Queues
      PROVE  Serialized(chunks[q]) = written[q] - sent[q]
  <2>1. /\ Holds(chunks[q], sent[q] - InFlight(q), written[q] - coded[q])
        /\ sent[q] \in Nat /\ written[q] \in Nat
    BY QueueFacts
  <2>2. coded[q] = 0 /\ InFlight(q) = 0
    BY <1>1 DEF IInv, LoopState, InFlight
  <2>3. sent[q] - InFlight(q) = sent[q] /\ written[q] - coded[q] = written[q]
    BY <2>1, <2>2
  <2>4. Holds(chunks[q], sent[q], written[q])
    BY <2>1, <2>3
  <2>5. QED BY <2>1, <2>4 DEF Serialized, Holds
<1>3. \A q \in Queues : /\ sent[q] \in Nat /\ written[q] \in Nat
                        /\ sent[q] <= written[q]
                        /\ coded'[q] = written[q] - sent[q]
                        /\ chunks'[q] = << >> /\ size'[q] = 0
                        /\ InFlight(q)' = 0
  <2> SUFFICES ASSUME NEW q \in Queues
               PROVE  /\ sent[q] \in Nat /\ written[q] \in Nat
                      /\ sent[q] <= written[q]
                      /\ coded'[q] = written[q] - sent[q]
                      /\ chunks'[q] = << >> /\ size'[q] = 0
                      /\ InFlight(q)' = 0
    OBVIOUS
  <2>1. /\ sent[q] \in Nat /\ written[q] \in Nat /\ coded[q] \in Nat
        /\ sent[q] + coded[q] <= written[q]
    BY QueueFacts
  <2>2. coded'[q] = written[q] - sent[q] /\ chunks'[q] = << >> /\ size'[q] = 0
    BY <1>1, <1>2
  <2>3. InFlight(q)' = 0
    BY <1>1 DEF InFlight
  <2>4. sent[q] <= written[q]
    BY <2>1
  <2>5. QED BY <2>1, <2>2, <2>3, <2>4
<1>4. << >> \in Seq(Chunk) /\ Len(<< >>) = 0
  BY EmptySeq
<1>5. TypeOK'
  <2>1. chunks' \in [Queues -> Seq(Chunk)] /\ size' \in [Queues -> Nat]
    BY <1>1, <1>4
  <2>2. coded' \in [Queues -> Nat]
    <3>1. \A q \in Queues : Serialized(chunks[q]) \in Nat
      BY <1>2, <1>3
    <3>2. QED BY <1>1, <3>1
  <2>3. QED BY <1>1, <2>1, <2>2 DEF IInv, TypeOK
<1>6. LoopState'
  <2>1. \A q \in Queues : sent'[q] + coded'[q] <= written'[q]
    BY <1>1, <1>3
  <2>2. cur' \in Queues /\ sent'[cur'] \in Nat
    BY <1>1, <1>3 DEF IInv, TypeOK
  <2>3. QED BY <1>1, <2>1, <2>2 DEF IInv, LoopState
<1>7. Contiguous'
  <2>1. ASSUME NEW q \in Queues
        PROVE  sent'[q] - InFlight(q)' = written'[q] - coded'[q]
    BY <1>1, <1>3
  <2>2. QED BY <1>3, <2>1, Zenon DEF Contiguous, Holds
<1>8. SizeExact'
  BY <1>1, <1>3 DEF SizeExact
<1>9. ChunkBounds' /\ RoomPromised'
  BY <1>1, <1>3, <1>4 DEF ChunkBounds, Shaped, RoomPromised
<1>10. QED BY <1>5, <1>6, <1>7, <1>8, <1>9 DEF IInv

LEMMA RestoreBlockIInv ==
  ASSUME IInv, NEW q \in Queues, RestoreBlock(q)
  PROVE  IInv'
<1> DEFINE pos == written[q] - coded[q]
<1> DEFINE n == IF coded[q] < BlockSize THEN coded[q] ELSE BlockSize
<1> DEFINE t == WithRoom(chunks[q], ChunkSize, pos)
<1> DEFINE u == Grow(t, n)
<1>1. /\ pc = "restore" /\ coded[q] > 0
      /\ chunks' = [chunks EXCEPT ![q] = u]
      /\ size' = [size EXCEPT ![q] = @ + n]
      /\ coded' = [coded EXCEPT ![q] = @ - n]
      /\ UNCHANGED <<nfree, resv, pc, cur, niov, avail, todo, written, sent>>
      /\ resv[q] = 0 /\ InFlight(q) = 0
  BY DEF IInv, LoopState, RestoreBlock, loopVars, InFlight
<1>2. /\ chunks[q] \in Seq(Chunk) /\ Shaped(chunks[q])
      /\ sent[q] \in Nat /\ written[q] \in Nat /\ coded[q] \in Nat
      /\ size[q] \in Nat /\ pos \in Nat
      /\ size[q] = written[q] - sent[q] - coded[q]
      /\ sent[q] + coded[q] <= written[q]
      /\ Holds(chunks[q], sent[q], pos)
  <2>1. /\ chunks[q] \in Seq(Chunk) /\ Shaped(chunks[q])
        /\ sent[q] \in Nat /\ written[q] \in Nat /\ coded[q] \in Nat
        /\ size[q] \in Nat /\ pos \in Nat
        /\ size[q] = written[q] - sent[q] - coded[q]
        /\ sent[q] + coded[q] <= written[q]
        /\ Holds(chunks[q], sent[q] - InFlight(q), pos)
    BY QueueFacts
  <2>2. sent[q] - InFlight(q) = sent[q]
    BY <1>1, <2>1
  <2>3. QED BY <2>1, <2>2
<1>3. n \in Nat /\ n <= coded[q] /\ n <= ChunkSize
  BY <1>2
<1> HIDE DEF pos, n
<1>4. /\ t \in Seq(Chunk) /\ t # << >> /\ LastOf(t).end + ChunkSize <= ChunkSize
      /\ Holds(t, sent[q], pos) /\ Shaped(t)
  <2>1. ChunkSize \in 1..ChunkSize
    OBVIOUS
  <2>2. QED BY <1>2, <2>1, RoomList
<1> HIDE DEF t
<1>5. LastOf(t).end \in Nat /\ LastOf(t).end + n <= ChunkSize
  <2>1. LastOf(t) \in Chunk
    BY <1>4, EmptySeq, ElementOfSeq DEF LastOf
  <2>2. LastOf(t).end \in Nat
    BY <2>1 DEF Chunk
  <2>3. QED BY <1>3, <1>4, <2>2
<1>6. /\ u \in Seq(Chunk) /\ u # << >> /\ Len(u) = Len(t)
      /\ \A i \in 1..(Len(t) - 1) : u[i] = t[i]
      /\ LastOf(u).start = LastOf(t).start
      /\ LastOf(u).end = LastOf(t).end + n
      /\ Holds(u, sent[q], pos + n)
  BY <1>2, <1>3, <1>4, GrowList
<1> HIDE DEF u
<1>7. Shaped(u)
  BY <1>3, <1>4, <1>5, <1>6, GrowShaped
<1>8. /\ chunks'[q] = u /\ size'[q] = size[q] + n /\ coded'[q] = coded[q] - n
      /\ InFlight(q)' = 0
      /\ \A p \in Queues \ {q} : Same(p)
  BY <1>1 DEF IInv, TypeOK, Same, InFlight
<1>9. TypeOK'
  <2>1. chunks' \in [Queues -> Seq(Chunk)]
    BY <1>1, <1>6 DEF IInv, TypeOK
  <2>2. size[q] + n \in Nat /\ coded[q] - n \in Nat
    BY <1>2, <1>3
  <2>3. size' \in [Queues -> Nat]
    BY <1>1, <2>2 DEF IInv, TypeOK
  <2>4. coded' \in [Queues -> Nat]
    BY <1>1, <2>2 DEF IInv, TypeOK
  <2>5. QED BY <1>1, <2>1, <2>3, <2>4 DEF IInv, TypeOK
<1>10. LoopState'
  <2>1. \A p \in Queues : sent'[p] + coded'[p] <= written'[p]
    BY <1>1, <1>2, <1>3, <1>8 DEF Same, IInv, LoopState
  <2>2. QED BY <1>1, <2>1 DEF IInv, LoopState
<1>11. written'[q] - coded'[q] = pos + n /\ sent'[q] - InFlight(q)' = sent[q]
       /\ size'[q] = written'[q] - sent'[q] - coded'[q]
  <2>1. written'[q] = written[q] /\ sent'[q] = sent[q]
    BY <1>1
  <2>2. pos = written[q] - coded[q]
    BY DEF pos
  <2>3. written[q] - (coded[q] - n) = pos + n
    BY <1>2, <1>3, <2>2
  <2>4. size[q] + n = written[q] - sent[q] - (coded[q] - n)
    BY <1>2, <1>3
  <2>5. sent[q] - 0 = sent[q]
    BY <1>2
  <2>6. QED BY <1>8, <2>1, <2>3, <2>4, <2>5
<1>12. Holds(chunks'[q], sent'[q] - InFlight(q)', written'[q] - coded'[q])
  BY <1>6, <1>8, <1>11
<1>13. QED BY <1>1, <1>7, <1>8, <1>9, <1>10, <1>11, <1>12, OneQueue

LEMMA RestoreDoneIInv ==
  ASSUME IInv, RestoreDone
  PROVE  IInv'
<1>1. /\ pc = "restore" /\ pc' = "idle" /\ \A q \in Queues : coded[q] = 0
      /\ UNCHANGED <<chunks, size, nfree, resv, cur, niov, avail, todo, coded,
                     written, sent>>
  BY DEF RestoreDone
<1>2. TypeOK'
  BY <1>1 DEF IInv, TypeOK
<1>3. LoopState'
  BY <1>1 DEF IInv, LoopState
<1>4. \A p \in Queues : Same(p)
  BY <1>1 DEF Same, InFlight
<1>5. QED BY <1>2, <1>3, <1>4, NoQueue

-----------------------------------------------------------------------------
(* The theorems. *)

LEMMA NextIInv == IInv /\ [Next]_vars => IInv'
<1> SUFFICES ASSUME IInv, [Next]_vars PROVE IInv'
  OBVIOUS
<1>1. CASE \E q \in Queues, sz \in 1..ChunkSize : GetBuffer(q, sz)
  BY <1>1, GetBufferIInv
<1>2. CASE \E q \in Queues, sz \in 0..ChunkSize : EndBuffer(q, sz)
  BY <1>2, EndBufferIInv
<1>3. CASE \E q \in Queues : Clear(q)
  BY <1>3, ClearIInv
<1>4. CASE \E q \in Queues : WriteStart(q)
  BY <1>4, WriteStartIInv
<1>5. CASE \E q \in Queues : RestoreBlock(q)
  BY <1>5, RestoreBlockIInv
<1>6. CASE Gather
  BY <1>6, GatherIInv
<1>7. CASE \E n \in 0..avail : Writev(n)
  BY <1>7, WritevIInv
<1>8. CASE WritevError
  BY <1>8, WritevErrorIInv
<1>9. CASE ReapChunk
  BY <1>9, ReapChunkIInv
<1>10. CASE ReapPartial
  BY <1>10, ReapPartialIInv
<1>11. CASE ReapDone
  BY <1>11, ReapDoneIInv
<1>12. CASE Dump
  BY <1>12, DumpIInv
<1>13. CASE RestoreDone
  BY <1>13, RestoreDoneIInv
<1>14. CASE UNCHANGED vars
  <2>1. UNCHANGED <<chunks, size, nfree, resv, pc, cur, niov, avail, todo,
                    coded, written, sent>>
    BY <1>14 DEF vars
  <2>2. TypeOK'
    BY <2>1 DEF IInv, TypeOK
  <2>3. LoopState'
    BY <2>1 DEF IInv, LoopState
  <2>4. \A p \in Queues : Same(p)
    BY <2>1 DEF Same, InFlight
  <2>5. QED BY <2>2, <2>3, <2>4, NoQueue
<1>15. QED
  BY <1>1, <1>2, <1>3, <1>4, <1>5, <1>6, <1>7, <1>8, <1>9, <1>10, <1>11,
     <1>12, <1>13, <1>14 DEF Next

(* The inductive invariant holds in every state: the loops of              *)
(* u_sendq_write and u_sendq_from_json never lose track of a byte.         *)
THEOREM InductiveInvariant == Spec => []IInv
<1>1. QED BY InitIInv, NextIInv, PTL DEF Spec

(* Every variable keeps its type: size and the cursors never wrap below    *)
(* zero, and the pool never outgrows SENDQ_CHUNK_BACKLOG_MAX.              *)
THEOREM TypeCorrect == Spec => []TypeOK
<1>1. IInv => TypeOK
  BY DEF IInv
<1>2. QED BY <1>1, InductiveInvariant, PTL

(* The chunks of a queue hold exactly the queued and unsent bytes, in      *)
(* order, for every pattern of partial writes, clears and upgrades.        *)
THEOREM NoByteLostOrReordered == Spec => []Contiguous
<1>1. IInv => Contiguous
  BY DEF IInv
<1>2. QED BY <1>1, InductiveInvariant, PTL

(* u_sendq.size counts the pending bytes exactly. *)
THEOREM SizeIsExact == Spec => []SizeExact
<1>1. IInv => SizeExact
  BY DEF IInv
<1>2. QED BY <1>1, InductiveInvariant, PTL

(* The room u_sendq_get_buffer promised is there at u_sendq_end_buffer. *)
THEOREM RoomIsKept == Spec => []RoomPromised
<1>1. IInv => RoomPromised
  BY DEF IInv
<1>2. QED BY <1>1, InductiveInvariant, PTL

(* u_sendq_write never hands writev an empty set of bytes while any is     *)
(* pending, so a writable socket always makes progress.                    *)
THEOREM AlwaysOffersBytes == Spec => []OffersBytes
<1>1. IInv => OffersBytes
  <2> SUFFICES ASSUME IInv, pc = "gather", ~GatherMore, size[cur] > 0
               PROVE  avail > 0
    BY DEF OffersBytes
  <2> DEFINE s == chunks[cur]
  <2>1. /\ cur \in Queues /\ niov \in Nat /\ niov <= Len(s) /\ avail \in Nat
        /\ NumIovecs > 0 /\ InFlight(cur) = 0 /\ coded[cur] = 0
        /\ niov > 0 => avail >= Bytes(s[1])
    BY DEF IInv, TypeOK, LoopState, InFlight
  <2>2. /\ s \in Seq(Chunk) /\ Holds(s, sent[cur] - 0, written[cur] - 0)
        /\ Shaped(s) /\ sent[cur] \in Nat /\ written[cur] \in Nat
        /\ size[cur] = written[cur] - sent[cur] - 0
    BY <2>1, QueueFacts
  <2>3. s # << >>
    BY <2>2 DEF Holds
  <2>4. Len(s) \in Nat /\ Len(s) > 0 /\ Bytes(s[1]) \in Nat /\ s[1] \in Chunk
    BY <2>3, HeadFacts
  <2>5. niov > 0
    BY <2>1, <2>4 DEF GatherMore
  <2>6. Bytes(s[1]) > 0
    <3>1. s[1].start \in Nat /\ s[1].end \in Nat /\ s[1].off \in Nat
      BY <2>4 DEF Chunk
    <3>2. CASE s[1].start < s[1].end
      BY <3>1, <3>2 DEF Bytes
    <3>3. CASE s[1].start = 0 /\ s[1].end = 0
      <4>1. Len(s) = 1
        <5>1. 1 \in 1..Len(s) /\ ~(s[1].end > 0)
          BY <2>4, <3>3
        <5>2. ~(1 < Len(s))
          BY <2>2, <5>1, Zenon DEF Shaped
        <5>3. \A k \in Nat : k > 0 /\ ~(1 < k) => k = 1
          OBVIOUS
        <5>4. QED BY <2>4, <5>2, <5>3, Zenon
      <4>2. Stop(s[1]) = First(s[1])
        BY <3>1, <3>3 DEF Stop, First
      <4>3. First(s[1]) = sent[cur] - 0 /\ Stop(s[1]) = written[cur] - 0
        BY <2>2, <2>3, <4>1 DEF Holds, LastOf
      <4>4. QED BY <2>2, <4>2, <4>3
    <3>4. QED BY <2>2, <2>4, <3>1, <3>2, <3>3 DEF Shaped
  <2>7. QED BY <2>1, <2>4, <2>5, <2>6
<1>2. QED BY <1>1, InductiveInvariant, PTL

-----------------------------------------------------------------------------
(* The refinement. *)

(* The chunk cursors and the history agree on the next byte to leave. *)
LEMMA NextOutIsSent ==
  ASSUME IInv
  PROVE  [q \in Queues |-> NextOut(q)] = sent
<1>1. sent \in [Queues -> Nat]
  BY DEF IInv, TypeOK
<1>2. ASSUME NEW q \in Queues PROVE NextOut(q) = sent[q]
  <2>1. /\ Holds(chunks[q], sent[q] - InFlight(q), written[q] - coded[q])
        /\ sent[q] \in Nat /\ written[q] \in Nat /\ coded[q] \in Nat
        /\ InFlight(q) \in Nat /\ sent[q] + coded[q] <= written[q]
    BY QueueFacts
  <2>2. CASE chunks[q] = << >>
    <3>1. sent[q] - InFlight(q) = written[q] - coded[q]
      BY <2>1, <2>2, Zenon DEF Holds
    <3>2. written[q] - coded[q] = sent[q]
      BY <2>1, <3>1
    <3>3. QED BY <2>2, <3>2 DEF NextOut
  <2>3. CASE chunks[q] # << >>
    <3>1. First(chunks[q][1]) = sent[q] - InFlight(q)
      BY <2>1, <2>3, Zenon DEF Holds
    <3>2. First(chunks[q][1]) + InFlight(q) = sent[q]
      BY <2>1, <3>1
    <3>3. QED BY <2>3, <3>2, Zenon DEF NextOut
  <2>4. QED BY <2>2, <2>3
<1>3. QED BY <1>1, <1>2

LEMMA InitStream == Init => Stream!StreamInit
<1>1. ASSUME Init, NEW q \in Queues PROVE NextOut(q) = 0
  BY <1>1 DEF Init, NextOut
<1>2. QED BY <1>1 DEF Init, Stream!StreamInit

(* Every step of the queues puts bytes in, takes bytes out, or stutters. *)
LEMMA StepStream ==
  ASSUME IInv, IInv', [Next]_vars
  PROVE  [Stream!StreamNext]_(Stream!streamVars)
<1> SUFFICES Stream!StreamNext \/ UNCHANGED Stream!streamVars
  OBVIOUS
<1> DEFINE next == [q \in Queues |-> NextOut(q)]
<1>1. next = sent /\ next' = sent'
  <2>1. next = sent
    BY NextOutIsSent
  <2>2. (next = sent)'
    BY NextOutIsSent, PTL
  <2>3. QED BY <2>1, <2>2
<1> HIDE DEF next
<1>2. /\ written \in [Queues -> Nat] /\ sent \in [Queues -> Nat]
      /\ \A q \in Queues : sent'[q] <= written'[q]
  <2>1. \A q \in Queues : /\ sent'[q] + coded'[q] <= written'[q]
                          /\ sent'[q] \in Nat /\ written'[q] \in Nat
                          /\ coded'[q] \in Nat
    BY DEF IInv, TypeOK, LoopState
  <2>2. \A q \in Queues : sent'[q] <= written'[q]
    BY <2>1
  <2>3. QED BY <2>2 DEF IInv, TypeOK
<1>3. ASSUME UNCHANGED <<written, sent>> PROVE UNCHANGED Stream!streamVars
  BY <1>1, <1>3 DEF Stream!streamVars, next
<1>4. ASSUME NEW q \in Queues, NEW n \in Nat,
             written' = [written EXCEPT ![q] = @ + n], sent' = sent
      PROVE  Stream!StreamNext
  <2>1. written'[q] >= written[q] /\ written' = [written EXCEPT ![q] = written'[q]]
    BY <1>2, <1>4
  <2>2. Stream!Put(q)
    BY <1>1, <1>4, <2>1 DEF Stream!Put, next
  <2>3. QED BY <2>2 DEF Stream!StreamNext
<1>5. ASSUME NEW q \in Queues, NEW n \in Int, sent[q] <= n,
             sent' = [sent EXCEPT ![q] = n], written' = written
      PROVE  Stream!StreamNext
  <2>1. sent'[q] = n /\ sent'[q] \in sent[q]..written[q]
    BY <1>2, <1>5
  <2>2. next'[q] \in next[q]..written[q] /\ next' = [next EXCEPT ![q] = next'[q]]
    BY <1>1, <1>5, <2>1
  <2>3. Stream!Take(q)
    BY <1>5, <2>2 DEF Stream!Take, next
  <2>4. QED BY <2>3 DEF Stream!StreamNext
<1>6. CASE \E q \in Queues, sz \in 0..ChunkSize : EndBuffer(q, sz)
  <2>1. PICK q \in Queues, sz \in 0..ChunkSize : EndBuffer(q, sz)
    BY <1>6
  <2>2. written' = [written EXCEPT ![q] = @ + sz] /\ sent' = sent
    BY <2>1 DEF EndBuffer
  <2>3. sz \in Nat
    OBVIOUS
  <2>4. Stream!StreamNext
    BY <1>4, <2>2, <2>3, Zenon
  <2>5. QED BY <2>4
<1>7. CASE \E q \in Queues : Clear(q)
  <2>1. PICK q \in Queues : Clear(q)
    BY <1>7
  <2>2. sent' = [sent EXCEPT ![q] = written[q]] /\ written' = written
    BY <2>1 DEF Clear
  <2>3. sent[q] <= written[q] /\ written[q] \in Int
    BY QueueFacts
  <2>4. QED BY <1>5, <2>2, <2>3
<1>8. CASE \E n \in 0..avail : Writev(n)
  <2>1. PICK n \in 0..avail : Writev(n)
    BY <1>8
  <2>2. sent' = [sent EXCEPT ![cur] = sent[cur] + n] /\ written' = written
    BY <2>1 DEF Writev
  <2>3. cur \in Queues /\ sent[cur] \in Nat /\ n \in Nat
    BY DEF IInv, TypeOK
  <2>4. sent[cur] <= sent[cur] + n /\ sent[cur] + n \in Int
    BY <2>3
  <2>5. QED BY <1>5, <2>2, <2>3, <2>4
<1>9. CASE \E q \in Queues, sz \in 1..ChunkSize : GetBuffer(q, sz)
  BY <1>3, <1>9 DEF GetBuffer
<1>10. CASE \E q \in Queues : WriteStart(q)
  BY <1>3, <1>10 DEF WriteStart
<1>11. CASE \E q \in Queues : RestoreBlock(q)
  BY <1>3, <1>11 DEF RestoreBlock
<1>12. CASE Gather \/ WritevError
  BY <1>3, <1>12 DEF Gather, WritevError
<1>13. CASE ReapChunk \/ ReapPartial \/ ReapDone
  BY <1>3, <1>13 DEF ReapChunk, ReapPartial, ReapDone
<1>14. CASE Dump \/ RestoreDone
  BY <1>3, <1>14 DEF Dump, RestoreDone
<1>15. CASE UNCHANGED vars
  BY <1>3, <1>15 DEF vars
<1>16. QED
  BY <1>6, <1>7, <1>8, <1>9, <1>10, <1>11, <1>12, <1>13, <1>14, <1>15
  DEF Next

(* The queues implement independent byte streams: what leaves is what was  *)
(* put in, each byte once and in order.                                    *)
THEOREM QueueIsStream == Spec => ImplementsStream
<1>1. QED
  BY InductiveInvariant, InitStream, StepStream, PTL
  DEF Spec, ImplementsStream, Stream!StreamSpec
=============================================================================
