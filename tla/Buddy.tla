------------------------------- MODULE Buddy -------------------------------
(***************************************************************************)
(* The binary buddy allocator of kernel/memory/buddy_alloc.h, as the       *)
(* kernel heap uses it (kernel/memory/heap.cpp): buddy_init with its       *)
(* virtual slots, buddy_malloc and buddy_calloc, buddy_realloc, buddy_free *)
(* and buddy_safe_free.                                                    *)
(*                                                                         *)
(* Sizes and addresses are counted in slots of `alignment` bytes from the  *)
(* start of the arena.  A tree position is its index: root 1, children 2p  *)
(* and 2p+1.  The status of position p is st[p]; the bitset that encodes   *)
(* it in unary is abstracted.  0 is a free subtree, LocalOffset(p) a full  *)
(* one, and s in between says that the largest free block below p lies s   *)
(* levels down.                                                            *)
(*                                                                         *)
(* Every loop of the C code that walks the tree is a step of its own:      *)
(* "toggle" (buddy_toggle_virtual_slots), "search" (buddy_tree_find_free), *)
(* "lookup" (position_for_address) and "climb" (update_parent_chain).      *)
(* heap_lock is held for a whole call, so calls do not overlap here.       *)
(***************************************************************************)
EXTENDS Integers, FiniteSets

CONSTANTS Slots,      \* memory_size
          FirstLeaf,  \* index of the leftmost leaf: the effective size
          Order,      \* order of the tree
          DepthOf,    \* depth field of a position
          Sizes       \* sizes the callers ask for

Nodes == 1 .. (2 * FirstLeaf - 1)
Left(p) == 2 * p
Right(p) == 2 * p + 1
Parent(p) == p \div 2
IsLeaf(p) == p >= FirstLeaf

SizeForDepth(d) == FirstLeaf \div (2 ^ (d - 1))
SizeOf(p) == SizeForDepth(DepthOf[p])

\* address_for_position.
AddressOf(p) == SizeOf(p) * (p - 2 ^ (DepthOf[p] - 1))
BlockOf(p) == <<AddressOf(p), SizeOf(p)>>

\* The tree of buddy_tree_init: the effective size is the power of two not
\* below the memory size, positions carry their depth, and each child takes
\* half of its parent's block.
ASSUME TreeOK ==
    /\ FirstLeaf \in Nat \ {0}
    /\ Order \in Nat \ {0}
    /\ Slots \in 1 .. FirstLeaf
    /\ FirstLeaf < 2 * Slots
    /\ DepthOf \in [Nodes -> 1 .. Order]
    /\ DepthOf[1] = 1
    /\ \A p \in Nodes : p < FirstLeaf => /\ DepthOf[2 * p] = DepthOf[p] + 1
                                         /\ DepthOf[2 * p + 1] = DepthOf[p] + 1
    /\ \A p \in Nodes : p >= FirstLeaf <=> DepthOf[p] = Order

\* What SizeOf and AddressOf come to in such a tree: the root is the arena, a
\* leaf is its slot, and the children are the halves of their parent.
ASSUME GeometryOK ==
    /\ \A p \in Nodes : SizeOf(p) \in Nat \ {0} /\ AddressOf(p) \in 0 .. FirstLeaf - 1
    /\ SizeOf(1) = FirstLeaf /\ AddressOf(1) = 0
    /\ \A p \in Nodes : p >= FirstLeaf => SizeOf(p) = 1 /\ AddressOf(p) = p - FirstLeaf
    /\ \A p \in Nodes : p < FirstLeaf => /\ SizeOf(p) = 2 * SizeOf(2 * p)
                                         /\ SizeOf(p) = 2 * SizeOf(2 * p + 1)
                                         /\ AddressOf(2 * p) = AddressOf(p)
                                         /\ AddressOf(2 * p + 1) = AddressOf(p) + SizeOf(2 * p)

ASSUME SizesOK == Sizes \subseteq Nat

VARIABLES st,       \* the status of every position
          pc,       \* the loop in progress, or "idle"
          pos,      \* its position
          next,     \* where "toggle" goes on after a climb
          delta,    \* `delta` of buddy_toggle_virtual_slots
          call,     \* the call in progress
          live      \* blocks the callers own, as <<address, size>>

vars == <<st, pc, pos, next, delta, call, live>>

\* local_offset: the status of position p when it is full.
LocalOffset(p) == Order - DepthOf[p] + 1

\* depth_for_size: the loop goes down while half the block still fits.
IsDepthForSize(d, size) ==
    /\ SizeForDepth(d) >= size
    /\ d < Order => SizeForDepth(d + 1) < size

\* A call that does nothing with the tree.
NoCall == [op |-> "none", addr |-> 0, size |-> 0, depth |-> 1, origin |-> 0]

Statuses == {"toggle", "idle", "search", "lookup", "climb"}
Ops == {"none", "init", "malloc", "realloc", "free", "safe_free"}

\* Types; the status of a position never exceeds the bits it has in the tree.
TypeOK ==
    /\ st \in [Nodes -> 0 .. Order]
    /\ \A p \in Nodes : st[p] <= LocalOffset(p)
    /\ pc \in Statuses
    /\ pos \in Nodes
    /\ next \in Nodes
    /\ delta \in Nat
    /\ call \in [op : Ops, addr : Nat, size : Nat, depth : 1 .. Order,
                 origin : {0} \cup Nodes]

Init ==
    /\ st = [p \in Nodes |-> 0]
    /\ pc = IF Slots = FirstLeaf THEN "idle" ELSE "toggle"
    /\ pos = 1
    /\ next = IF Slots = FirstLeaf THEN 1 ELSE Right(1)
    /\ delta = FirstLeaf - Slots
    /\ call = NoCall
    /\ live = {}

-----------------------------------------------------------------------------
(* buddy_tree_mark, buddy_tree_release and update_parent_chain *)

\* Write a status and start up the parent chain.
Write(p, status) ==
    /\ st' = [st EXCEPT ![p] = status]
    /\ pc' = "climb"
    /\ pos' = p

Mark_OffByOne(p) == Write(p, LocalOffset(p) + 1)
Mark(p) == Write(p, LocalOffset(p))

Smaller(a, b) == IF a <= b THEN a ELSE b

\* target_parent: 0 over two free children, else one more than the less
\* used child.
TargetParent_Max(p) ==
    LET l == st[Left(p)]
        r == st[Right(p)]
    IN  IF l = 0 /\ r = 0 THEN 0 ELSE (IF l <= r THEN r ELSE l) + 1
TargetParent(p) ==
    LET l == st[Left(p)]
        r == st[Right(p)]
    IN  IF l = 0 /\ r = 0 THEN 0 ELSE Smaller(l, r) + 1

\* The loop returns at the root and at the first parent that is up to date.
ClimbEnds_Early == pos # 1 => st[Parent(pos)] # 0
ClimbEnds == pos # 1 => TargetParent(Parent(pos)) = st[Parent(pos)]

Climb ==
    /\ pc = "climb"
    /\ ~ClimbEnds
    /\ st' = [st EXCEPT ![Parent(pos)] = TargetParent(Parent(pos))]
    /\ pos' = Parent(pos)
    /\ UNCHANGED <<pc, next, delta, call, live>>

\* Where the caller of mark or release goes on.
ClimbDone ==
    /\ pc = "climb"
    /\ ClimbEnds
    /\ CASE call.op = "init" /\ delta > 0 ->
              pc' = "toggle" /\ pos' = 1 /\ UNCHANGED call
         [] call.op = "realloc" ->
              pc' = "search" /\ pos' = 1 /\ UNCHANGED call
         [] OTHER ->
              pc' = "idle" /\ pos' = 1 /\ call' = NoCall
    /\ UNCHANGED <<st, next, delta, live>>

-----------------------------------------------------------------------------
(* buddy_toggle_virtual_slots(buddy, 1): mask the slots past the arena *)

ToggleHere ==
    /\ pc = "toggle"
    /\ delta = SizeOf(next)
    /\ Mark(next)
    /\ delta' = 0
    /\ call' = [NoCall EXCEPT !.op = "init"]
    /\ UNCHANGED <<next, live>>

ToggleDescend ==
    /\ pc = "toggle"
    /\ delta # SizeOf(next)
    /\ delta <= SizeOf(next) \div 2
    /\ next' = Right(next)
    /\ UNCHANGED <<st, pc, pos, delta, call, live>>

ToggleRight_NoLeft ==
    /\ pc = "toggle"
    /\ delta # SizeOf(next)
    /\ delta > SizeOf(next) \div 2
    /\ Mark(Right(next))
    /\ delta' = 0
    /\ next' = Left(next)
    /\ call' = [NoCall EXCEPT !.op = "init"]
    /\ UNCHANGED live
ToggleRight ==
    /\ pc = "toggle"
    /\ delta # SizeOf(next)
    /\ delta > SizeOf(next) \div 2
    /\ Mark(Right(next))
    /\ delta' = delta - SizeOf(next) \div 2
    /\ next' = Left(next)
    /\ call' = [NoCall EXCEPT !.op = "init"]
    /\ UNCHANGED live

-----------------------------------------------------------------------------
(* buddy_tree_find_free *)

\* The child to go down to: the one with room if only one has, else the
\* fuller one, the left one on a tie.
PreferredChild_NoRoomTest(p, room) ==
    IF st[Right(p)] > st[Left(p)] THEN Right(p) ELSE Left(p)
PreferredChild(p, room) ==
    CASE st[Left(p)] > room -> Right(p)
      [] st[Left(p)] <= room /\ st[Right(p)] > room -> Left(p)
      [] OTHER -> IF st[Right(p)] > st[Left(p)] THEN Right(p) ELSE Left(p)

Found == DepthOf[pos] = call.depth
NotFound == pos = 1 /\ st[1] > call.depth - 1

SearchDown ==
    /\ pc = "search"
    /\ ~NotFound
    /\ ~Found
    /\ pos' = PreferredChild(pos, call.depth - DepthOf[pos] - 1)
    /\ UNCHANGED <<st, pc, next, delta, call, live>>

\* The position found is marked.  A realloc also gives up its old block; when
\* the search returned the old position the mark only restores it.
SearchFound ==
    /\ pc = "search"
    /\ ~NotFound
    /\ Found
    /\ Mark(pos)
    /\ live' = (live \ (IF call.op = "realloc" THEN {BlockOf(call.origin)} ELSE {}))
                 \cup {BlockOf(pos)}
    /\ call' = [NoCall EXCEPT !.op = "malloc"]
    /\ UNCHANGED <<next, delta>>

\* NULL from buddy_malloc.
MallocFails ==
    /\ pc = "search"
    /\ NotFound
    /\ call.op = "malloc"
    /\ pc' = "idle"
    /\ call' = NoCall
    /\ UNCHANGED <<st, pos, next, delta, live>>

\* NULL from buddy_realloc: the mark on the old block is restored.
ReallocFails ==
    /\ pc = "search"
    /\ NotFound
    /\ call.op = "realloc"
    /\ Mark(call.origin)
    /\ call' = [NoCall EXCEPT !.op = "malloc"]
    /\ UNCHANGED <<next, delta, live>>

-----------------------------------------------------------------------------
(* position_for_address, and what its callers do with the position *)

LookupUp_Same ==
    /\ pc = "lookup"
    /\ st[pos] = 0
    /\ pos # 1
    /\ UNCHANGED vars
LookupUp ==
    /\ pc = "lookup"
    /\ st[pos] = 0
    /\ pos # 1
    /\ pos' = Parent(pos)
    /\ UNCHANGED <<st, pc, next, delta, call, live>>

\* INVALID_POS: nothing up to the root, or a position that starts elsewhere.
\* buddy_safe_free also gives up when the size does not match.
Misses_NoAddress ==
    \/ st[pos] = 0 /\ pos = 1
    \/ /\ call.op = "safe_free"
       /\ st[pos] # 0
       /\ \/ call.size > SizeOf(pos)
          \/ call.size <= SizeOf(pos) \div 2
Misses ==
    \/ st[pos] = 0 /\ pos = 1
    \/ st[pos] # 0 /\ AddressOf(pos) # call.addr
    \/ /\ call.op = "safe_free"
       /\ st[pos] # 0
       /\ \/ call.size > SizeOf(pos)
          \/ call.size <= SizeOf(pos) \div 2

LookupFails ==
    /\ pc = "lookup"
    /\ Misses
    /\ pc' = "idle"
    /\ call' = NoCall
    /\ UNCHANGED <<st, pos, next, delta, live>>

\* buddy_tree_release refuses a partially used position.
ReleaseRefused ==
    /\ pc = "lookup"
    /\ st[pos] # 0
    /\ ~Misses
    /\ st[pos] # LocalOffset(pos)
    /\ call.op \in {"free", "safe_free"}
    /\ pc' = "idle"
    /\ call' = NoCall
    /\ UNCHANGED <<st, pos, next, delta, live>>

Release_Partial ==
    /\ pc = "lookup"
    /\ st[pos] # 0
    /\ ~Misses
    /\ Write(pos, 0)
    /\ live' = IF call.op = "realloc" THEN live ELSE live \ {BlockOf(pos)}
    /\ call' = [call EXCEPT !.origin = pos]
    /\ UNCHANGED <<next, delta>>
Release ==
    /\ pc = "lookup"
    /\ st[pos] # 0
    /\ ~Misses
    /\ st[pos] = LocalOffset(pos)
    /\ Write(pos, 0)
    /\ live' = IF call.op = "realloc" THEN live ELSE live \ {BlockOf(pos)}
    /\ call' = [call EXCEPT !.origin = pos]
    /\ UNCHANGED <<next, delta>>

-----------------------------------------------------------------------------
(* The calls *)

\* buddy_malloc, and buddy_calloc with the product of its arguments.
Malloc(size) ==
    LET request == IF size = 0 THEN 1 ELSE size
    IN  /\ pc = "idle"
        /\ request <= Slots
        /\ \E d \in 1 .. Order :
              /\ IsDepthForSize(d, request)
              /\ call' = [NoCall EXCEPT !.op = "malloc", !.size = request, !.depth = d]
        /\ pc' = "search"
        /\ pos' = 1
        /\ UNCHANGED <<st, next, delta, live>>

\* position_for_address starts at the deepest position.
StartLookup(a) ==
    /\ pc = "idle"
    /\ pc' = "lookup"
    /\ pos' = FirstLeaf + a
    /\ UNCHANGED <<st, next, delta, live>>

\* buddy_realloc of a block the caller owns, which the frees below do not ask for:
\* unlike them it goes on after a release that was refused ("a bug in caller",
\* line 1995), and would mark the partly used position again if the search fails.
Realloc(b, size) ==
    /\ size \in 1 .. Slots
    /\ StartLookup(b[1])
    /\ \E d \in 1 .. Order :
          /\ IsDepthForSize(d, size)
          /\ call' = [NoCall EXCEPT !.op = "realloc", !.addr = b[1],
                                    !.size = size, !.depth = d]

\* buddy_free of any address of the arena, owned or not.
Free(a) ==
    /\ StartLookup(a)
    /\ call' = [NoCall EXCEPT !.op = "free", !.addr = a]

\* buddy_safe_free of any address with any size.
SafeFree(a, size) ==
    /\ StartLookup(a)
    /\ call' = [NoCall EXCEPT !.op = "safe_free", !.addr = a,
                              !.size = IF size < 1 THEN 1 ELSE size]

Call ==
    \/ \E size \in Sizes : Malloc(size)
    \/ \E b \in live, size \in Sizes : Realloc(b, size)
    \/ \E a \in 0 .. Slots - 1 : Free(a)
    \/ \E a \in 0 .. Slots - 1, size \in Sizes : SafeFree(a, size)

Proceed ==
    \/ ToggleHere \/ ToggleDescend \/ ToggleRight
    \/ Climb \/ ClimbDone
    \/ SearchDown \/ SearchFound \/ MallocFails \/ ReallocFails
    \/ LookupUp \/ LookupFails \/ ReleaseRefused \/ Release

Next == Call \/ Proceed

Spec == Init /\ [][Next]_vars

\* A call runs to its end: heap_lock's holder is never stopped.
FairSpec == Spec /\ WF_vars(Proceed)

-----------------------------------------------------------------------------
\* buddy_tree_check_invariant at one position: over used children the status
\* is one more than the less used one's, over free children it is free or full.
NodeConsistent(p) ==
    LET l == st[Left(p)]
        r == st[Right(p)]
    IN  IF l # 0 \/ r # 0 THEN st[p] = Smaller(l, r) + 1
                          ELSE st[p] \in {0, LocalOffset(p)}

\* The invariant the allocator checks itself with (buddy_tree_check_invariant):
\* it holds at every position, except at the parent that update_parent_chain
\* is about to repair, whatever slots were passed to the frees, as long as the
\* blocks passed to realloc are the caller's.
TreeConsistent ==
    \A p \in Nodes :
        \/ IsLeaf(p)
        \/ pc = "climb" /\ pos # 1 /\ p = Parent(pos)
        \/ NodeConsistent(p)

\* What the loops maintain.  "search": there is room below the position.
\* "lookup": the child come from is free.  "toggle": the slots left to mask
\* end at the next position, which is free.  A climb writes neither to the
\* position toggled next nor to the one a failed realloc will mark again.
LoopInvariant ==
    /\ pc = "search" =>
          /\ DepthOf[pos] <= call.depth
          /\ pos # 1 => st[pos] <= call.depth - DepthOf[pos]
    /\ pc = "lookup" =>
          /\ call.op \in {"realloc", "free", "safe_free"}
          /\ ~IsLeaf(pos) => st[Left(pos)] = 0 \/ st[Right(pos)] = 0
    /\ pc = "toggle" \/ (pc = "climb" /\ call.op = "init" /\ delta > 0) =>
          /\ next > 1 /\ st[next] = 0
          /\ delta \in 1 .. SizeOf(next)
    /\ pc = "climb" /\ call.op = "init" /\ delta > 0 => pos <= next + 1
    /\ pc \in {"climb", "search"} /\ call.op = "realloc" =>
          call.origin \in Nodes /\ st[call.origin] = 0
    /\ pc = "climb" /\ call.op = "realloc" => pos <= call.origin

Extent(b) == b[1] .. (b[1] + b[2] - 1)
Covers(p) == Extent(BlockOf(p))
VirtualSlots == Slots .. FirstLeaf - 1
Taken == VirtualSlots \cup UNION {Extent(b) : b \in live}

\* Strictly inside a block, where the tree keeps no information.
Shadowed(p) ==
    /\ p # 1
    /\ \/ Covers(Parent(p)) \subseteq VirtualSlots
       \/ \E b \in live : Covers(Parent(p)) \subseteq Extent(b)

\* Between calls, the status of a position is how many levels below it the
\* largest free block starts, its full mark if there is none, and zero inside
\* a block: what mark, release and the early return of update_parent_chain
\* maintain incrementally agrees with a recomputation from the live blocks.
StatusMeansRoom ==
    pc = "idle" =>
        \A p \in Nodes :
            LET down(k) == {q \in Nodes : /\ DepthOf[q] = DepthOf[p] + k
                                         /\ Covers(q) \subseteq Covers(p) \ Taken}
            IN  IF Shadowed(p) THEN st[p] = 0
                ELSE \/ /\ st[p] < LocalOffset(p)
                        /\ down(st[p]) # {}
                        /\ \A k \in 0 .. st[p] - 1 : down(k) = {}
                     \/ /\ st[p] = LocalOffset(p)
                        /\ \A k \in 0 .. st[p] - 1 : down(k) = {}

\* buddy_free and buddy_safe_free release a position only if it is a block
\* some caller owns: freeing a block twice, or an address inside a block or
\* in free memory, changes nothing.
StrayFreesMiss ==
    pc = "lookup" /\ st[pos] = LocalOffset(pos) /\ ~Misses =>
        BlockOf(pos) \in live /\ BlockOf(pos)[1] = call.addr

\* buddy_malloc returns NULL only when no aligned block of that size is free;
\* buddy_realloc only when none is even with its own block given up.
NullMeansNoRoom ==
    pc = "search" /\ NotFound =>
        LET own == IF call.op = "realloc" THEN Covers(call.origin) ELSE {}
        IN  \A p \in Nodes : DepthOf[p] = call.depth =>
                Covers(p) \cap (Taken \ own) # {}

\* Every call of the allocator returns.
CallsReturn == pc # "idle" ~> pc = "idle"

\* The allocator implements BlockAllocator: blocks never overlap and stay in
\* the arena; a failed realloc leaves the old block in place.
Blocks == INSTANCE BlockAllocator
ImplementsBlocks == Blocks!Spec
=============================================================================
