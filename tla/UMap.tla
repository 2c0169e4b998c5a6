-------------------------------- MODULE UMap --------------------------------
(***************************************************************************)
(* A u_map (src/src/map.c, src/include/map.h) and the loops over it: a     *)
(* tree of nodes, a size kept beside it, and deletions that wait in a list *)
(* while any loop is running.  Loops nest, because what a loop calls may   *)
(* start another one on the same map; they are the stack "frames".  Of the *)
(* two kinds, u_map_each walks the tree by recursion and U_MAP_EACH queues *)
(* nodes through a field of the node, so two of the latter on one map may  *)
(* not overlap (map.c:18): the callers' obligation, a guard here.          *)
(***************************************************************************)
EXTENDS AATree, SequencesExt

CONSTANTS LoopKeys, \* bound: loops run over maps of these keys only
          MaxNest,  \* bound on the loops that run or were left early
          MaxTwice  \* bound on the deletions of keys that are deleted already
ASSUME UMapAssumption ==
    LoopKeys \subseteq Keys /\ MaxNest \in Nat /\ MaxTwice \in Nat

VARIABLES root, size, iterdepth, pending,
          frames,   \* loops in progress, the innermost first
          aborted,  \* u_map_set met a running loop: the process is gone
          twice     \* history: deletions of keys that were deleted already

vars == << root, size, iterdepth, pending, frames, aborted, twice >>

\* u_map_get
Lookup(t, k) ==
    LET n == Fetch(t, k) IN IF IsNil(n) THEN None ELSE n.data

InTree == ToSet(InOrder[root])
LiveKeys == {k \in Keys : Lookup(root, k) # None}

\* Keys below and at the queued nodes: what a U_MAP_EACH has yet to visit.
ToVisit(f) ==
    IF f.kind = "each" THEN ToSet(f.todo)
    ELSE UNION {ToSet(InOrder[Fetch(root, k)]) : k \in ToSet(f.todo)}

\* "seen" is the history of the keys a loop has visited, in order.
Frame(kind, todo) == [kind |-> kind, todo |-> todo, seen |-> << >>]

Init == /\ root = Nil /\ size = 0 /\ iterdepth = 0 /\ pending = << >>
        /\ frames = << >> /\ aborted = FALSE /\ twice = 0

-----------------------------------------------------------------------------
\* u_map_set
Set(k, d) ==
    /\ UNCHANGED << iterdepth, pending, frames, twice >>
    /\ IF iterdepth > 0
       THEN aborted' = TRUE /\ UNCHANGED << root, size >>
       ELSE /\ aborted' = FALSE
            /\ IF IsNil(Fetch(root, k))
               THEN root' = Insert(root, NewNode(k, d)) /\ size' = size + 1
               ELSE root' = SetData(root, k, d) /\ size' = size

\* u_map_del.  A key whose deletion waits is still found; the size, an unsigned
\* number in the code, then loses one more than it should.
Del(k) ==
    /\ ~IsNil(Fetch(root, k))
    /\ size' = size - 1
    /\ IF Lookup(root, k) = None
       THEN twice < MaxTwice /\ twice' = twice + 1
       ELSE twice' = twice
    /\ IF iterdepth > 0
       THEN root' = SetData(root, k, None) /\ pending' = Append(pending, k)
       ELSE root' = Delete(root, k) /\ pending' = pending
    /\ UNCHANGED << iterdepth, frames, aborted >>

\* u_map_free, and u_map_new for the next owner
Free ==
    /\ frames = << >>
    /\ root' = Nil /\ size' = 0 /\ iterdepth' = 0 /\ pending' = << >> /\ twice' = 0
    /\ UNCHANGED << frames, aborted >>

\* Variant of Begin with a fault: an inner loop forgets the deletions that wait too.
BeginAfresh(frame) ==
    /\ iterdepth < MaxNest
    /\ InTree \subseteq LoopKeys
    /\ pending' = << >>
    /\ iterdepth' = iterdepth + 1
    /\ frames' = << frame >> \o frames
    /\ UNCHANGED << root, size, aborted, twice >>

\* The beginning of both kinds of loop
Begin(frame) ==
    /\ iterdepth < MaxNest
    /\ InTree \subseteq LoopKeys
    /\ pending' = IF iterdepth = 0 THEN << >> ELSE pending
    /\ iterdepth' = iterdepth + 1
    /\ frames' = << frame >> \o frames
    /\ UNCHANGED << root, size, aborted, twice >>

DeletePending ==
    LET after[i \in 0..Len(pending)] ==
            IF i = 0 THEN root ELSE Delete(after[i - 1], pending[i])
    IN  after[Len(pending)]

\* The end of both: the outermost loop deletes what waited.
End ==
    /\ iterdepth' = iterdepth - 1
    /\ IF iterdepth = 1
       THEN root' = DeletePending /\ pending' = << >>
       ELSE UNCHANGED << root, pending >>
    /\ frames' = Tail(frames)
    /\ UNCHANGED << size, aborted, twice >>

Visit(todo) ==
    /\ frames' = [frames EXCEPT ![1].todo = todo,
                                ![1].seen = Append(@, Head(frames[1].todo))]
    /\ UNCHANGED << root, size, iterdepth, pending, aborted, twice >>

Running(kind) == frames # << >> /\ frames[1].kind = kind

-----------------------------------------------------------------------------
\* u_map_each: its recursion visits the keys in order.
EachBegin == Begin(Frame("each", InOrder[root]))
EachVisit == /\ Running("each") /\ frames[1].todo # << >>
             /\ Visit(Tail(frames[1].todo))
EachEnd == Running("each") /\ frames[1].todo = << >> /\ End

\* try_queue
Queued(todo, node) == IF IsNil(node) THEN todo ELSE Append(todo, node.key)

\* U_MAP_EACH: u_map_each_start, then u_map_each_next until it returns false
IterBegin == /\ \A i \in DOMAIN frames : frames[i].kind # "iter"
             /\ Begin(Frame("iter", Queued(<< >>, root)))
\* Variant of IterVisit with a fault: a node with two children queues one of them.
IterVisitOneChild ==
    /\ Running("iter") /\ frames[1].todo # << >>
    /\ LET n == Fetch(root, Head(frames[1].todo))
       IN  Visit(Queued(Tail(frames[1].todo),
                        IF IsNil(n.child[LEFT]) THEN n.child[RIGHT] ELSE n.child[LEFT]))
IterVisit ==
    /\ Running("iter") /\ frames[1].todo # << >>
    /\ LET n == Fetch(root, Head(frames[1].todo))
       IN  Visit(Queued(Queued(Tail(frames[1].todo), n.child[LEFT]), n.child[RIGHT]))
IterEnd == Running("iter") /\ frames[1].todo = << >> /\ End

\* A break in the body of U_MAP_EACH (modules/core/who.c): nothing is undone.
IterBreak ==
    /\ Running("iter") /\ frames[1].seen # << >>
    /\ frames' = Tail(frames)
    /\ UNCHANGED << root, size, iterdepth, pending, aborted, twice >>

Operate == \/ \E k \in Keys, d \in Data : Set(k, d)
           \/ \E k \in Keys : Del(k)
           \/ Free

Loop == \/ EachBegin \/ EachVisit \/ EachEnd
        \/ IterBegin \/ IterVisit \/ IterEnd \/ IterBreak

Next == ~aborted /\ (Operate \/ Loop)

Spec == Init /\ [][Next]_vars

-----------------------------------------------------------------------------
(* Whatever was inserted and deleted in whatever order, through rotations, *)
(* key swaps and deletions that waited for a loop, the map holds for every *)
(* key what was last set, and its size counts the keys that are set, less  *)
(* the deletions of keys that were deleted already.                        *)
Abstract == INSTANCE Dictionary WITH
    dict <- [k \in Keys |-> Lookup(root, k)],
    count <- size + twice
ImplementsMap == Abstract!DictSpec

(* A loop visits every key that was in the map when it began exactly once, *)
(* whatever its body deletes and whatever loops run inside it.             *)
VisitsAllOnce ==
    \A i \in DOMAIN frames :
        LET f == frames[i]
            seen == ToSet(f.seen)
            rest == ToVisit(f)
        IN  /\ Cardinality(seen) = Len(f.seen)
            /\ seen \cap rest = {} /\ seen \cup rest = InTree

(* A deleted key stays in the tree only while a loop may still meet it,    *)
(* and is then known to the list of pending deletions.                     *)
DeletionsWait ==
    InTree \ LiveKeys = IF iterdepth = 0 THEN {} ELSE ToSet(pending)

(* map.c:165: "dumb functions are just standard binary search tree         *)
(* operations".  In such a tree a search finds every key it holds.         *)
FindsKeys == \A k \in InTree : Fetch(root, k).level > 0 /\ Fetch(root, k).key = k

(* Not kept by the code, and in no run: the height of an AA tree is at     *)
(* most 2 log2(n + 1).  After deletions a node with only a right child may *)
(* stay at level 2 (ShouldBe), and the tree grows towards a list.          *)
Balanced == 2 ^ (Height[root] \div 2) - 1 <= Cardinality(InTree)
=============================================================================
