---------------------------- MODULE BuddyResize ----------------------------
(***************************************************************************)
(* buddy_resize() of kernel/memory/buddy_alloc.h and the queries about the *)
(* arena, on the tree as it lies in memory (BuddyBits).                    *)
(*                                                                         *)
(* Buddy has the loops of buddy_malloc() and buddy_free() and the choice   *)
(* of a position; here a call is one step and malloc takes any free        *)
(* position.  Sizes and addresses are counted in slots of `alignment`      *)
(* bytes, and the arena is not embedded.                                   *)
(***************************************************************************)
EXTENDS BuddyBits, Sequences

CONSTANTS Slots,      \* slots of the arena at first
          Sizes,      \* sizes of blocks, powers of two
          Ranges,     \* lengths of the ranges callers reserve
          Resizes     \* the resizes callers ask for, as <<from, to>>

ASSUME ResizesOK ==
    /\ Slots \in Nat \ {0}
    /\ Sizes \subseteq {TwoTo[k] : k \in 0 .. Slots} /\ 1 \in Sizes
    /\ Ranges \subseteq Nat \ {0}
    /\ \A r \in Resizes : r[1] \in Nat \ {0} /\ r[2] \in Nat \ {0} /\ r[1] # r[2]

VARIABLES slots,      \* memory_size
          order,      \* order of the tree
          bits,       \* its bitset
          live        \* blocks the callers own, as <<address, size>>

vars == <<slots, order, bits, live>>

-----------------------------------------------------------------------------
(* The tree *)

\* buddy_tree_order_for_memory() and ceiling_power_of_two().
OrderForMemory(n) ==
    CHOOSE o \in 1 .. n : TwoTo[o - 1] >= n /\ (o > 1 => TwoTo[o - 2] < n)
EffectiveSize(n) == TwoTo[OrderForMemory(n) - 1]
SizeForDepth(n, d) == EffectiveSize(n) \div TwoTo[d - 1]

Smaller(a, b) == IF a <= b THEN a ELSE b
Smallest(S) == CHOOSE m \in S : \A x \in S : m <= x
Largest(S) == CHOOSE m \in S : \A x \in S : x <= m

\* A turn of update_parent_chain(): on to the parent; the loop is over at the
\* root, or where the parent has its status already.
ChainTurn(o, f) ==
    LET sibling == ReadSibling(f.bits, o, f.pos)
        parent == f.pos \div 2
        target == IF f.status = 0 /\ sibling = 0 THEN 0 ELSE Smaller(f.status, sibling) + 1
    IN  IF f.pos = 1 THEN f
        ELSE IF target = Read(f.bits, o, parent) THEN [f EXCEPT !.pos = 1]
        ELSE [bits |-> Write(f.bits, o, parent, target), pos |-> parent, status |-> target]
UpdateParentChain(B, o, p, current) ==
    LET F[k \in Nat] == IF k = 0 THEN [bits |-> B, pos |-> p, status |-> current]
                        ELSE ChainTurn(o, F[k - 1])
    IN  F[Depth(p)].bits

\* buddy_tree_mark() and buddy_tree_release().
Mark(B, o, p) ==
    UpdateParentChain(Write(B, o, p, LocalOffset(o, p)), o, p, LocalOffset(o, p))
Release(B, o, p) ==
    IF Read(B, o, p) # LocalOffset(o, p) THEN B
    ELSE UpdateParentChain(Write(B, o, p, 0), o, p, 0)

Toggle(B, o, p, state) == IF state THEN Mark(B, o, p) ELSE Release(B, o, p)

\* buddy_tree_interval(): the leaves below p.
Interval(o, p) == (p * TwoTo[o - Depth(p)]) .. ((p + 1) * TwoTo[o - Depth(p)] - 1)

\* buddy_tree_is_free(): unused, and below no allocation, which the nearest used
\* ancestor tells.
TreeIsFree(B, o, p) ==
    LET above == {q \in Positions(o) : /\ q # p /\ Interval(o, p) \subseteq Interval(o, q)
                                       /\ Read(B, o, q) # 0}
    IN  /\ Read(B, o, p) = 0
        /\ above # {} => Read(B, o, Largest(above)) # LocalOffset(o, Largest(above))

-----------------------------------------------------------------------------
(* buddy_toggle_virtual_slots() *)

\* A turn at t.pos, of whose slots the last t.delta are missing.
VirtualTurn(o, n, state, t) ==
    LET size == SizeForDepth(n, Depth(t.pos))
    IN  IF t.delta = 0 THEN t
        ELSE IF t.delta = size
             THEN [t EXCEPT !.bits = Toggle(t.bits, o, t.pos, state), !.delta = 0]
        ELSE IF t.delta <= size \div 2 THEN [t EXCEPT !.pos = Right(t.pos)]
        ELSE [bits |-> Toggle(t.bits, o, Right(t.pos), state), pos |-> Left(t.pos),
              delta |-> t.delta - size \div 2]
ToggleVirtualSlots(B, o, n, state) ==
    LET T[k \in Nat] ==
            IF k = 0 THEN [bits |-> B, pos |-> Right(1), delta |-> EffectiveSize(n) - n]
            ELSE VirtualTurn(o, n, state, T[k - 1])
    IN  T[o].bits

MaskVirtualSlots(B, o, n) == ToggleVirtualSlots(B, o, n, TRUE)
UnmaskVirtualSlots_Keep(B, o, n) == B
UnmaskVirtualSlots(B, o, n) == ToggleVirtualSlots(B, o, n, FALSE)

-----------------------------------------------------------------------------
(* buddy_tree_resize(), an order at a time *)

\* The row of depth d becomes the left half of the row below it, bottom up.
GrowRow(B, o, d) ==
    LET nodes == TwoTo[d - 1]
        length == o - d + 1
        from == Location(o, TwoTo[d - 1])
        to == Location(o + 1, TwoTo[d])
    IN  ClearRange(ShiftRight(B, from, from + length * nodes, to - from),
                   to + length * nodes, to + 2 * (length * nodes) - 1)

Grow(B, o) ==
    LET R[k \in 0 .. o] == IF k = 0 THEN B ELSE GrowRow(R[k - 1], o, o - k + 1)
    IN  UpdateParentChain(R[o], o + 1, Right(1), 0)

\* The left half of the row of depth d becomes the row above it, top down.
ShrinkRow(B, o, d) ==
    LET nodes == TwoTo[d - 1]
        length == o - d + 1
        from == Location(o, TwoTo[d - 1])
        to == Location(o - 1, TwoTo[d - 2])
    IN  ShiftLeft(B, from, from + (length * nodes) \div 2, from - to)

Shrink(B, o) ==
    LET R[k \in Nat] == IF k = 0 THEN B ELSE ShrinkRow(R[k - 1], o, k + 1)
    IN  R[o - 1]

CanShrink(B, o) == Read(B, o, Right(1)) = 0 /\ Read(B, o, 1) # LocalOffset(o, 1)

TreeGrow(B, o, desired) ==
    LET G[k \in 0 .. (desired - o)] == IF k = 0 THEN B ELSE Grow(G[k - 1], o + k - 1)
    IN  [bits |-> G[desired - o], order |-> desired]

\* It returns as soon as the tree cannot shrink.
ShrinkTurn(t, desired) ==
    IF t.order > desired /\ CanShrink(t.bits, t.order)
    THEN [bits |-> Shrink(t.bits, t.order), order |-> t.order - 1]
    ELSE t
TreeShrink(B, o, desired) ==
    LET S[k \in Nat] == IF k = 0 THEN [bits |-> B, order |-> o] ELSE ShrinkTurn(S[k - 1], desired)
    IN  S[o - desired]

TreeResize_Once(B, o, desired) ==
    IF o < desired THEN [bits |-> Grow(B, o), order |-> o + 1]
    ELSE IF o > desired THEN TreeShrink(B, o, desired)
    ELSE [bits |-> B, order |-> o]
TreeResize(B, o, desired) ==
    IF o < desired THEN TreeGrow(B, o, desired)
    ELSE IF o > desired THEN TreeShrink(B, o, desired)
    ELSE [bits |-> B, order |-> o]

-----------------------------------------------------------------------------
(* Queries *)

\* buddy_is_free(): nothing is allocated from slot `from` on.  Every leaf of the
\* range but the last is tested through its highest ancestor inside the range.
IsFree_Leaves(B, o, n, from) ==
    LET first == TwoTo[o - 1] + from
        virtual == EffectiveSize(n) - n
        last == TwoTo[o - 1] + EffectiveSize(n) - (IF virtual = 0 THEN 1 ELSE virtual)
    IN  \A leaf \in first .. (last - 1) : Read(B, o, leaf) = 0
IsFree(B, o, n, from) ==
    LET first == TwoTo[o - 1] + from
        virtual == EffectiveSize(n) - n
        last == TwoTo[o - 1] + EffectiveSize(n) - (IF virtual = 0 THEN 1 ELSE virtual)
        Cover(leaf) ==
            Smallest({q \in Positions(o) : /\ leaf \in Interval(o, q)
                                           /\ Interval(o, q) \subseteq first .. last})
    IN  \A leaf \in first .. (last - 1) : TreeIsFree(B, o, Cover(leaf))

\* buddy_arena_free_size(): the walk adds unused positions and goes below the
\* partly used ones.
ArenaFreeSize(B, o, n) ==
    LET W[p \in Positions(o)] ==
            IF Read(B, o, p) = LocalOffset(o, p) THEN 0
            ELSE IF Read(B, o, p) = 0 THEN SizeForDepth(n, Depth(p))
            ELSE IF p < TwoTo[o - 1] THEN W[Left(p)] + W[Right(p)]
            ELSE 0
    IN  W[1]

-----------------------------------------------------------------------------
(* The calls *)

Init ==
    /\ slots = Slots
    /\ order = OrderForMemory(Slots)
    /\ bits = MaskVirtualSlots({}, OrderForMemory(Slots), Slots)
    /\ live = {}

\* address_for_position() and size_for_depth().
SizeOf(p) == SizeForDepth(slots, Depth(p))
BlockOf(p) == <<SizeOf(p) * (p - TwoTo[Depth(p) - 1]), SizeOf(p)>>

\* buddy_is_full() and buddy_is_empty().
IsFull(B, o) == Read(B, o, 1) = o
IsEmpty(B, o, n) == IsFree(B, o, n, 0)

\* buddy_tree_walk(): the next position, top down and from left to right; 0 at
\* the end.  A caller that sets going_up skips what lies below p.
WalkUp(p) ==
    LET Up[k \in Nat] == IF k = 0 THEN p
                         ELSE LET q == Up[k - 1]
                              IN  IF q # 1 /\ q % 2 = 1 THEN q \div 2 ELSE q
        top == Up[p]
    IN  IF top = 1 THEN 0 ELSE top + 1
WalkNext(o, p, going_up) ==
    IF going_up \/ Left(p) \notin Positions(o) THEN WalkUp(p) ELSE Left(p)

\* buddy_walk(): the blocks its callback is given.  A position is full for one
\* block or for the blocks below it, which the left child tells; the walk ends
\* at the first full position that reaches past the arena.
WalkTurn(B, o, w) ==
    LET p == w.pos
        single == /\ Read(B, o, p) = LocalOffset(o, p)
                  /\ Left(p) \in Positions(o) => Read(B, o, Left(p)) = 0
    IN  IF p = 0 THEN w
        ELSE IF ~single THEN [w EXCEPT !.pos = WalkNext(o, p, FALSE)]
        ELSE IF BlockOf(p)[1] + BlockOf(p)[2] > slots THEN [w EXCEPT !.pos = 0]
        ELSE [pos |-> WalkNext(o, p, TRUE), found |-> Append(w.found, BlockOf(p))]

\* No slot takes more turns than the tree has rows.
BuddyWalk(B, o) ==
    LET F[k \in Nat] == IF k = 0 THEN [pos |-> 1, found |-> <<>>] ELSE WalkTurn(B, o, F[k - 1])
    IN  F[TwoTo[o - 1] * o].found

\* buddy_malloc() of a block at position p.
Malloc(p) ==
    /\ SizeOf(p) \in Sizes
    /\ TreeIsFree(bits, order, p)
    /\ bits' = Mark(bits, order, p)
    /\ live' = live \cup {BlockOf(p)}
    /\ UNCHANGED <<slots, order>>

\* buddy_free() of the block at position p.
Free(p) ==
    /\ BlockOf(p) \in live
    /\ bits' = Release(bits, order, p)
    /\ live' = live \ {BlockOf(p)}
    /\ UNCHANGED <<slots, order>>

\* buddy_reserve_range() and buddy_unsafe_release_range(), slot by slot at the
\* deepest positions.  Callers reserve what is free; a release leaves alone the
\* slots that were not reserved one by one.
DeepestPosition(s) == TwoTo[order - 1] + s
ToggleRange(s, n, reserve) ==
    LET T[k \in 0 .. n] == IF k = 0 THEN bits
                            ELSE Toggle(T[k - 1], order, DeepestPosition(s + k - 1), reserve)
    IN  T[n]
ReservedSlots(s, n) == {<<i, 1>> : i \in s .. (s + n - 1)}

ReserveRange(s, n) ==
    /\ s + n <= slots
    /\ \A i \in s .. (s + n - 1) : TreeIsFree(bits, order, DeepestPosition(i))
    /\ bits' = ToggleRange(s, n, TRUE)
    /\ live' = live \cup ReservedSlots(s, n)
    /\ UNCHANGED <<slots, order>>

ReleaseRange(s, n) ==
    /\ s + n <= slots
    /\ bits' = ToggleRange(s, n, FALSE)
    /\ live' = live \ ReservedSlots(s, n)
    /\ UNCHANGED <<slots, order>>

\* buddy_resize_standard(); where buddy_is_free() says no, it returns NULL.
Resize(n) ==
    LET tree == TreeResize(UnmaskVirtualSlots(bits, order, slots), order, OrderForMemory(n))
    IN  /\ <<slots, n>> \in Resizes
        /\ IsFree(bits, order, slots, n)
        /\ slots' = n
        /\ order' = tree.order
        /\ bits' = MaskVirtualSlots(tree.bits, tree.order, n)
        /\ UNCHANGED live

\* Resizes that take no order from the tree, nor the last slot alone from an
\* arena of a power of two, which buddy_is_free() does not test.
KeepsOrder(r) ==
    /\ OrderForMemory(r[1]) <= OrderForMemory(r[2])
    /\ r[2] = r[1] - 1 => r[1] # EffectiveSize(r[1])

Next ==
    \/ \E p \in Positions(order) : Malloc(p) \/ Free(p)
    \/ \E s \in 0 .. slots - 1, n \in Ranges : ReserveRange(s, n) \/ ReleaseRange(s, n)
    \/ \E r \in Resizes : Resize(r[2])

Spec == Init /\ [][Next]_vars

-----------------------------------------------------------------------------
\* Types; the tree always has the order the arena needs, and its bits lie inside
\* the bitset of that order.
TypeOK ==
    /\ slots \in Nat \ {0}
    /\ order = OrderForMemory(slots)
    /\ bits \subseteq 0 .. (SizeForOrder(order, 0) - 1)
    /\ live \subseteq (0 .. slots - 1) \X Sizes

\* The test of a single bit that the search uses agrees with the count that the
\* updates use, at every position and for every status: no write, mask or move
\* of rows ever leaves a field with a gap or touches its neighbour.
\* (compare_with_internal_position against read_from_internal_position)
CompareAgreesWithRead ==
    \A p \in Positions(order) : \A v \in 1 .. LocalOffset(order, p) :
        Compare(bits, order, p, v) <=> Read(bits, order, p) >= v

\* The slots of p, and whether no block and no missing slot is among them.
SlotsOf(p) == BlockOf(p)[1] .. (BlockOf(p)[1] + BlockOf(p)[2] - 1)
Unused(p) ==
    /\ \A s \in SlotsOf(p) : s < slots
    /\ \A b \in live : SlotsOf(p) \cap (b[1] .. (b[1] + b[2] - 1)) = {}

\* Inside a block, or among missing slots, whose status stands for p's.
Inside(p) ==
    \E q \in Positions(order) :
        /\ q # p /\ SlotsOf(p) \subseteq SlotsOf(q)
        /\ BlockOf(q) \in live \/ \A s \in SlotsOf(q) : s >= slots

\* The bits tell exactly which blocks there are: a status is the position's
\* order less the order of the largest unused block below it, and 0 inside a
\* block.  It holds after any mix of allocations, frees and resizes.
\* (buddy_tree_grow, buddy_toggle_virtual_slots, update_parent_chain)
BitsMatchBlocks ==
    \A p \in Positions(order) :
        LET unused == {q \in Positions(order) : SlotsOf(q) \subseteq SlotsOf(p) /\ Unused(q)}
            room == {0} \cup {LocalOffset(order, q) : q \in unused}
        IN  Read(bits, order, p) =
                IF Inside(p) THEN 0 ELSE LocalOffset(order, p) - Largest(room)

\* The slots of the arena that no block has.
FreeSlots == {s \in 0 .. slots - 1 : \A b \in live : s \notin b[1] .. (b[1] + b[2] - 1)}

\* What the queries say of the arena.  buddy_walk() calls back for the blocks in
\* use, all of them, once each, in the order of addresses, and for nothing else:
\* the "free and allocated slots" of buddy_alloc.h:150 are the allocated ones
\* only, as lines 1124-1128 skip what is free with what is partly used.
\* buddy_arena_free_size() is the arena less the blocks, and buddy_is_full() means
\* nothing is left.  buddy_is_free(), and so buddy_is_empty(), overlooks no block
\* from slots it looks at; from the last slot of an arena of a power of two it
\* looks at none, and says free whatever is there (line 1439 ends the range one
\* slot early).
QueriesAgree ==
    LET walk == BuddyWalk(bits, order)
        LooksAtNone(from) == slots = EffectiveSize(slots) /\ from = slots - 1
    IN  /\ {walk[i] : i \in DOMAIN walk} = live
        /\ \A i \in 1 .. Len(walk) - 1 : walk[i][1] + walk[i][2] <= walk[i + 1][1]
        /\ ArenaFreeSize(bits, order, slots) = Cardinality(FreeSlots)
        /\ IsFull(bits, order) <=> ArenaFreeSize(bits, order, slots) = 0
        /\ \A from \in 0 .. slots - 1 :
              IF LooksAtNone(from) THEN IsFree(bits, order, slots, from)
              ELSE IsFree(bits, order, slots, from) => \A b \in live : b[1] + b[2] <= from
        /\ IsEmpty(bits, order, slots) => live = {} \/ LooksAtNone(0)

\* buddy_resize() "Resizes the arena and metadata to a new size"
\* (buddy_alloc.h:82): a block in use stays marked as such.
BlocksSurviveResize ==
    \A b \in live :
        \E p \in Positions(order) :
            BlockOf(p) = b /\ Read(bits, order, p) = LocalOffset(order, p)
=============================================================================
