----------------------------- MODULE BuddyBits -----------------------------
(***************************************************************************)
(* How kernel/memory/buddy_alloc.h stores the statuses of its tree.  The   *)
(* tree of order `o` lies in one bitset, row by row from the root; position *)
(* p has a field of LocalOffset(o, p) bits in it and a status of v sets    *)
(* the first v of them.                                                    *)
(*                                                                         *)
(* A bitset is the set of the bits that are set.  The byte masks behind    *)
(* bitset_set_range() and its like are not modelled.                       *)
(***************************************************************************)
EXTENDS Integers, FiniteSets

\* two_to_the_power_of(): 1 << k.
TwoTo[k \in Nat] == IF k = 0 THEN 1 ELSE 2 * TwoTo[k - 1]

Left(p) == 2 * p
Right(p) == 2 * p + 1

\* A position carries its depth; the root has depth 1.
Depth(p) == CHOOSE d \in 1 .. p : TwoTo[d - 1] <= p /\ p < TwoTo[d]
Positions(o) == 1 .. (TwoTo[o] - 1)

\* size_for_order(): the bits of the rows above the one with fields of `to` bits;
\* turn k adds the row of depth k.
SizeForOrder_NoRoot(o, to) ==
    LET Rows[k \in Nat] == IF k <= 1 THEN 0 ELSE Rows[k - 1] + (o - k + 1) * TwoTo[k - 1]
    IN  Rows[o - to]
SizeForOrder(o, to) ==
    LET Rows[k \in Nat] == IF k = 0 THEN 0 ELSE Rows[k - 1] + (o - k + 1) * TwoTo[k - 1]
    IN  Rows[o - to]

\* buddy_tree_internal_position_order().
LocalOffset(o, p) == o - Depth(p) + 1
Location(o, p) ==
    SizeForOrder(o, LocalOffset(o, p)) + LocalOffset(o, p) * (p - TwoTo[Depth(p) - 1])

\* bitset_set_range(), bitset_clear_range() and bitset_count_range(); both ends
\* belong to the range.
SetRange(bits, from, to) == bits \cup (from .. to)
ClearRange(bits, from, to) == bits \ (from .. to)
CountRange(bits, from, to) == Cardinality(bits \cap (from .. to))

\* read_from_internal_position(), with its fast test of the first bit.
ReadAt(bits, at, length) ==
    IF at \notin bits THEN 0 ELSE CountRange(bits, at, at + length - 1)
Read(bits, o, p) == ReadAt(bits, Location(o, p), LocalOffset(o, p))

\* compare_with_internal_position().
Compare(bits, o, p, value) == Location(o, p) + value - 1 \in bits

\* write_to_internal_position().
Write(bits, o, p, value) ==
    LET at == Location(o, p)
    IN  SetRange(ClearRange(bits, at, at + LocalOffset(o, p) - 1), at, at + value - 1)

\* The status update_parent_chain() reads for the sibling of p.
ReadSibling(bits, o, p) ==
    LET length == LocalOffset(o, p)
    IN  ReadAt(bits, Location(o, p) + length - 2 * length * (p % 2), length)

\* bitset_shift_right(): the bit at `to` moves too, and the bits left behind
\* are cleared.
ShiftRight(bits, from, to, by) ==
    LET moved == {x + by : x \in bits \cap (from .. to)}
    IN  ClearRange(ClearRange(bits, from + by, to + by) \cup moved, from, from + by - 1)

\* bitset_shift_left(): the bits it clears at the end are `by` bits from
\* position to - from on, wherever the range lies.
ShiftLeft(bits, from, to, by) ==
    LET length == to - from
        moved == {x - by : x \in bits \cap (from .. (to - 1))}
    IN  ClearRange(ClearRange(bits, from - by, to - 1 - by) \cup moved,
                   length, length + by - 1)
=============================================================================
