--------------------------- MODULE BlockAllocator ---------------------------
(***************************************************************************)
(* What a heap promises (heap_malloc, heap_realloc, heap_free of           *)
(* kernel/memory/heap.cpp): blocks inside the arena that hold what was     *)
(* asked for and never overlap, each owned from the call that returns it   *)
(* to the call that gives it up.  A failed call changes nothing.           *)
(***************************************************************************)
EXTENDS Naturals

CONSTANT Slots      \* arena size

VARIABLE live       \* blocks in use, as <<address, size>>

Extent(b) == b[1] .. (b[1] + b[2] - 1)

Blocks == {b \in (0 .. Slots - 1) \X (1 .. Slots) : b[1] + b[2] <= Slots}

Apart(b, others) == \A c \in others : Extent(b) \cap Extent(c) = {}

Init == live = {}

\* A new block of at least `size`.
Alloc(size) ==
    \E b \in Blocks :
        /\ b[2] >= size
        /\ Apart(b, live)
        /\ live' = live \cup {b}

\* A block moves, grows or shrinks in one step.
Realloc(b, size) ==
    \E c \in Blocks :
        /\ c[2] >= size
        /\ Apart(c, live \ {b})
        /\ live' = (live \ {b}) \cup {c}

Free(b) == live' = live \ {b}

Next ==
    \/ \E size \in 1 .. Slots : Alloc(size)
    \/ \E b \in live, size \in 1 .. Slots : Realloc(b, size)
    \/ \E b \in live : Free(b)

Spec == Init /\ [][Next]_live
=============================================================================
