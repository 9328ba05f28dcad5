--------------------------- MODULE VirtualMemory ---------------------------
(***************************************************************************)
(* virtual_allocate() and virtual_free() of kernel/memory/virtual.cpp, on  *)
(* top of what PageMap promises (AddressSpace) and of what the physical    *)
(* memory manager promises: physical_allocate() returns a frame that is    *)
(* free, physical_free() makes one free.                                   *)
(*                                                                         *)
(* Addresses are page and frame numbers.  The calls are made one at a time *)
(* by the boot processor (heap_init()); every iteration of their loops is  *)
(* a step.                                                                 *)
(***************************************************************************)
EXTENDS Integers, FiniteSets

CONSTANTS Base, Limit,    \* the pages virtual_allocate() searches
          Memory,         \* frames of the physical memory manager
          Counts,         \* values of `count`
          Ghosts          \* pages that may look mapped without being so

\* A request may be empty, or larger than the range; `limit` - `count` does not
\* wrap.
ASSUME RangeOK ==
    /\ Base \in Nat /\ Limit \in Nat /\ Base < Limit
    /\ Memory \subseteq Nat
    /\ Counts \subseteq 0 .. Limit
    /\ Ghosts \subseteq Base .. Limit - 1

VARIABLES space,       \* the current pagemap
          taken,       \* frames whose bit in phys_bitmap is BITMAP_USED
          ranges,      \* ranges the callers own, as <<first page, count>>
          pc,          \* the loop in progress
          start,       \* `start`, or `address` of virtual_free()
          i,           \* pages of the range seen, mapped or freed so far
          count        \* `count`

vars == <<space, taken, ranges, pc, start, i, count>>

Pages == Base .. Limit - 1
None == -1

\* `start` + i is a frame number too: it may run past the end of memory.
Frames == {f + k : f \in Memory, k \in 0 .. Limit - Base - 1}

\* What the calls ask of the pagemap, all on behalf of the boot processor.
Boot == "boot"
Request ==
    CASE pc = "map"  -> [op |-> "map", page |-> start + i,
                         frames |-> {f + i : f \in Memory \ taken}, readable |-> TRUE]
      [] pc = "free" -> [op |-> "unmap", page |-> start, frames |-> {}, readable |-> TRUE]
      [] OTHER       -> [op |-> "none", page |-> None, frames |-> {}, readable |-> TRUE]

pagemap == INSTANCE AddressSpace WITH
    Callers <- {Boot},
    Owner <- [v \in Pages |-> Boot],
    FrameOwner <- [f \in Frames |-> Boot],
    hidden <- [v \in Pages |-> None],
    request <- [t \in {Boot} |-> Request]

\* Types; pages are backed by frames of the memory or, as virtual_allocate maps
\* `i` past what it took, by frames behind it.
TypeOK ==
    /\ space \in [Pages -> Frames \cup {None}]
    /\ taken \subseteq Memory
    /\ ranges \subseteq Pages \X Counts
    /\ pc \in {"idle", "scan", "map", "free", "panic"}
    /\ start \in Pages
    /\ i \in 0 .. Limit
    /\ count \in Counts \cup {0}

Init ==
    /\ space = [v \in Pages |-> None]
    /\ taken = {}
    /\ ranges = {}
    /\ pc = "idle"
    /\ start = Base
    /\ i = 0
    /\ count = 0

Return ==
    /\ pc' = "idle"
    /\ start' = Base
    /\ i' = 0
    /\ count' = 0

-----------------------------------------------------------------------------
(* virtual_allocate(base, limit, count) *)

Allocate(n) ==
    /\ pc = "idle"
    /\ n > 0
    /\ pc' = "scan"
    /\ start' = Base
    /\ i' = 0
    /\ count' = n
    /\ UNCHANGED <<space, taken, ranges>>

\* Neither loop has anything to do, and `base` is returned.
AllocateNothing(n) ==
    /\ pc = "idle"
    /\ n = 0
    /\ ranges' = ranges \cup {<<Base, n>>}
    /\ UNCHANGED <<space, taken, pc, start, i, count>>

\* is_valid() of the entry virtual_to_entry() finds: the kernel's image is mapped
\* from `limit` on, and the entry of a page without tables is read in physical
\* page 0, where anything may be.
MayBeValid(v) == v \in Pages => v \in Ghosts \/ space[v] # None
MayBeInvalid(v) == v \in Pages /\ space[v] = None

\* A page without a valid entry: the next one, or the range is found.
ScanFree_First ==
    /\ pc = "scan"
    /\ MayBeInvalid(start + i)
    /\ pc' = "map"
    /\ i' = 0
    /\ UNCHANGED <<space, taken, ranges, start, count>>
ScanFree ==
    /\ pc = "scan"
    /\ MayBeInvalid(start + i)
    /\ IF i + 1 < count THEN pc' = pc /\ i' = i + 1
                        ELSE pc' = "map" /\ i' = 0
    /\ UNCHANGED <<space, taken, ranges, start, count>>

\* "Found a valid page": the range starts one page later.
ScanUsed_Same ==
    /\ pc = "scan"
    /\ MayBeValid(start + i)
    /\ start + 1 < Limit - count
    /\ i' = 0
    /\ UNCHANGED <<space, taken, ranges, pc, start, count>>
ScanUsed ==
    /\ pc = "scan"
    /\ MayBeValid(start + i)
    /\ start + 1 < Limit - count
    /\ start' = start + 1
    /\ i' = 0
    /\ UNCHANGED <<space, taken, ranges, pc, count>>

\* nullptr: the loop ended.
ScanEnds_Early ==
    /\ pc = "scan"
    /\ MayBeValid(start + i)
    /\ start + count >= Limit - count
    /\ Return
    /\ UNCHANGED <<space, taken, ranges>>
ScanEnds ==
    /\ pc = "scan"
    /\ MayBeValid(start + i)
    /\ start + 1 >= Limit - count
    /\ Return
    /\ UNCHANGED <<space, taken, ranges>>

\* map_page(start + i, physical_allocate() + i).
MapNext_Address ==
    /\ pc = "map"
    /\ \E f \in Memory \ taken :
          /\ taken' = taken \cup {f}
          /\ space' = [space EXCEPT ![start + i] = f + start + i]
    /\ IF i + 1 < count THEN i' = i + 1 /\ UNCHANGED <<pc, start, count, ranges>>
                        ELSE ranges' = ranges \cup {<<start, count>>} /\ Return
MapNext ==
    /\ pc = "map"
    /\ \E f \in Memory \ taken :
          /\ taken' = taken \cup {f}
          /\ space' = [space EXCEPT ![start + i] = f + i]
    /\ IF i + 1 < count THEN i' = i + 1 /\ UNCHANGED <<pc, start, count, ranges>>
                        ELSE ranges' = ranges \cup {<<start, count>>} /\ Return

\* physical_allocate() does not return.
MapPanic ==
    /\ pc = "map"
    /\ taken = Memory
    /\ pc' = "panic"
    /\ UNCHANGED <<space, taken, ranges, start, i, count>>

-----------------------------------------------------------------------------
(* virtual_free(ptr, count) by the owner of the range *)

Free(r) ==
    /\ pc = "idle"
    /\ ranges' = ranges \ {r}
    /\ pc' = "free"
    /\ start' = r[1]
    /\ i' = 0
    /\ count' = r[2]
    /\ UNCHANGED <<space, taken>>

\* unmap_page(address) and physical_free(); `address` stays as it is.
FreeNext_KeepFrame ==
    /\ pc = "free"
    /\ i < count
    /\ space[start] # None
    /\ space' = [space EXCEPT ![start] = None]
    /\ i' = i + 1
    /\ UNCHANGED <<ranges, pc, start, count, taken>>
FreeNext ==
    /\ pc = "free"
    /\ i < count
    /\ space[start] # None
    /\ space' = [space EXCEPT ![start] = None]
    /\ taken' = taken \ {space[start]}
    /\ i' = i + 1
    /\ UNCHANGED <<ranges, pc, start, count>>

\* The end of the loop, or a page that is not mapped.
FreeEnds ==
    /\ pc = "free"
    /\ i = count \/ space[start] = None
    /\ Return
    /\ UNCHANGED <<space, taken, ranges>>

Halt == pc = "panic" /\ UNCHANGED vars

-----------------------------------------------------------------------------
Call ==
    \/ \E n \in Counts : Allocate(n) \/ AllocateNothing(n)
    \/ \E r \in ranges : Free(r)

Proceed ==
    \/ ScanFree \/ ScanUsed \/ ScanEnds
    \/ MapNext \/ MapPanic
    \/ FreeNext \/ FreeEnds

Next == Call \/ Proceed \/ Halt

Spec == Init /\ [][Next]_vars

\* The boot processor keeps executing inside a call.
FairSpec == Spec /\ WF_vars(Proceed)

-----------------------------------------------------------------------------
\* virtual_allocate() never replaces a mapping: a page that is mapped keeps its
\* frame until it is unmapped.
NeverRemaps ==
    [][\A v \in Pages : space[v] # None => space'[v] \in {space[v], None}]_vars

\* virtual_allocate() returns nullptr only when every start it has to try, `base`
\* whatever the size and then those before limit - count, is ruled out by a page
\* that is mapped or looks so, or by the kernel behind `limit`.
NullMeansNoRange ==
    [][pc = "scan" /\ pc' = "idle" =>
          \A s \in {Base} \cup (Base .. (Limit - count - 1)) :
              \E v \in s .. (s + count - 1) : MayBeValid(v)]_vars

\* As many frames are taken as pages are mapped, in the middle of a call too, no
\* range reaches the kernel behind `limit`, and the first page of every range
\* that is not empty has a frame of its own: freeing a range gives back a frame
\* that was taken, and never another range's.
FramesOwned ==
    /\ Cardinality(taken) = Cardinality({v \in Pages : space[v] # None})
    /\ \A r \in ranges : r[1] + r[2] <= Limit
    /\ \A r \in ranges : r[2] > 0 => space[r[1]] \in taken
    /\ \A r, s \in ranges :
          r # s /\ r[2] > 0 /\ s[2] > 0 => space[r[1]] # space[s[1]]

\* A range is backed by the frames allocated for it, contiguous or not: "It
\* allows non-contigous physical memory to act as if it was contigous memory."
\* (docs/memory.md:30)
MappedFramesAreTaken == \A v \in Pages : space[v] # None => space[v] \in taken

\* Every call returns, or the kernel stopped.
CallsReturn == pc # "idle" ~> pc \in {"idle", "panic"}
=============================================================================
