--------------------------- MODULE PhysicalMemory ---------------------------
(***************************************************************************)
(* The physical memory manager, kernel/memory/physical.cpp with            *)
(* kernel/include/libs/bitmap.hpp: the bitmap laid out over the memory     *)
(* map at boot, and physical_allocate / physical_free under phys_lock.     *)
(*                                                                         *)
(* Addresses are page numbers.  The bitmap is the set `avail` of the pages *)
(* whose bit is BITMAP_FREE.  phys_lock is a lock of module Mutex; the     *)
(* guarded regions are several steps (the scan of the bitmap, the bits it  *)
(* sets or clears, the counters), with the lock taken by the first and     *)
(* released by the last.                                                   *)
(***************************************************************************)
EXTENDS Integers, Sequences, FiniteSets, FiniteSetsExt

CONSTANTS Threads,      \* callers
          PAGE_SIZE,    \* bytes per page; the bitmap packs 8 pages per byte
          MemMaps,      \* memory maps the bootloader may hand over
          Counts        \* values of `count` the callers pass

\* A memory map is a sequence of entries, in pages.
Usable == "LIMINE_MEMMAP_USABLE"
Entries == [base : Nat, length : Nat, type : {Usable, "other"}]

\* What Limine guarantees: entries ascend without overlap and page 0 is never
\* usable.  There is usable memory.
ASSUME MemMapsOK ==
    \A m \in MemMaps :
        /\ m \in Seq(Entries)
        /\ \A i, j \in DOMAIN m : i < j => m[i].base + m[i].length <= m[j].base
        /\ \A i \in DOMAIN m : m[i].type = Usable => m[i].base > 0
        /\ \E i \in DOMAIN m : m[i].type = Usable /\ m[i].length > 0
ASSUME PageSizeOK == PAGE_SIZE \in Nat \ {0}
ASSUME CountsOK == Counts \subseteq Nat \ {0}

VARIABLES memmap,         \* memmap_request.response
          entry,          \* entries its first loop has gone through
          usable_pages,   \* phys_stats.usable_pages
          highest_page,   \* phys_stats.highest_usable_addr / PAGE_SIZE
          booted,         \* physical_initialize() returned
          bitmap_entries, \* phys_bitmap.size_
          bitmap_pages,   \* the pages that hold phys_bitmap's buffer
          boot_writes,    \* the pages physical_initialize() wrote to
          avail,          \* pages whose bit in phys_bitmap is BITMAP_FREE
          last_index,     \* bitmap_last_index
          used_pages, free_pages,    \* phys_stats
          blocks,         \* blocks the callers own, as <<first page, count>>
          pc,             \* where each caller is
          blk,            \* the block a call in progress works on
          asked, ahead, inside       \* phys_lock

vars == <<memmap, entry, usable_pages, highest_page, booted, bitmap_entries,
          bitmap_pages, boot_writes, avail, last_index, used_pages,
          free_pages, blocks, pc, blk, asked, ahead, inside>>

phys_lock == INSTANCE Mutex

lvars == <<asked, ahead, inside>>
ivars == <<memmap, entry, usable_pages, highest_page>>
bvars == <<ivars, booted, bitmap_entries, bitmap_pages, boot_writes>>

Window(p, n) == p .. (p + n - 1)
Pages(b) == Window(b[1], b[2])
NoBlock == <<0, 0>>

-----------------------------------------------------------------------------
(* physical_initialize() *)

UsableEntries == {i \in DOMAIN memmap : memmap[i].type = Usable}
EntryPages(e) == Window(e.base, e.length)
UsableMemory == UNION {EntryPages(memmap[i]) : i \in UsableEntries}

\* One turn of the first loop.  Nothing reads the other statistics it keeps.
ScanEntry ==
    /\ entry < Len(memmap)
    /\ entry' = entry + 1
    /\ LET e == memmap[entry + 1]
       IN  IF e.type = Usable
           THEN /\ usable_pages' = usable_pages + e.length
                /\ highest_page' = IF e.base + e.length > highest_page
                                   THEN e.base + e.length ELSE highest_page
           ELSE UNCHANGED <<usable_pages, highest_page>>
    /\ UNCHANGED <<memmap, booted, bitmap_entries, bitmap_pages, boot_writes, avail,
                   last_index, used_pages, free_pages, blocks, pc, blk, lvars>>

\* bitmap_size: the truncating division by 8, then align_up to whole pages;
\* in pages.
BitmapPages == ((highest_page \div 8) + PAGE_SIZE - 1) \div PAGE_SIZE

\* The entries that can host the bitmap; the first of them does.
Hosts == {i \in UsableEntries : memmap[i].length >= BitmapPages}
HostBase == memmap[Min(Hosts)].base

HostPages == IF Hosts = {} THEN {} ELSE Window(HostBase, BitmapPages)
HostEntries == IF Hosts = {} THEN 0 ELSE BitmapPages * PAGE_SIZE * 8

\* Entry base and length no longer include the bitmap when bits are cleared.
FreedAtBoot == UsableMemory \ HostPages

\* memset(buffer, 0xff, bitmap_entries) writes a byte for every bit.
Initialize ==
    /\ ~booted
    /\ entry = Len(memmap)
    /\ \A p \in FreedAtBoot : p < HostEntries
    /\ booted' = TRUE
    /\ bitmap_entries' = HostEntries
    /\ bitmap_pages' = HostPages
    /\ boot_writes' = IF Hosts = {} THEN {} ELSE Window(HostBase, 8 * BitmapPages)
    /\ avail' = FreedAtBoot
    /\ used_pages' = Cardinality(HostPages)
    /\ free_pages' = usable_pages - Cardinality(HostPages)
    /\ UNCHANGED <<ivars, last_index, blocks, pc, blk, lvars>>

\* Bitmap::set's assertion fails for some page: the boot processor stops.
InitializeAssert(t) ==
    /\ ~booted
    /\ entry = Len(memmap)
    /\ \A u \in Threads : pc[u] = "idle"
    /\ \E p \in FreedAtBoot : p >= HostEntries
    /\ pc' = [pc EXCEPT ![t] = "assert"]
    /\ UNCHANGED <<bvars, avail, last_index, used_pages, free_pages, blocks, blk, lvars>>

-----------------------------------------------------------------------------
(* physical_allocate(count) *)

\* The lambda allocate_internal: the pages at which a run of n free pages
\* within from .. limit-1 starts.  It takes the first.
FreeRuns(from, limit, n) ==
    {p \in from .. (limit - n) : Window(p, n) \subseteq avail}

\* The run taken by the first scan, from bitmap_last_index to the end, or
\* else by the second, from 0 to where the first began.
Candidates_NoRescan(n) == FreeRuns(last_index, highest_page, n)
Candidates(n) ==
    LET first == FreeRuns(last_index, highest_page, n)
    IN  IF first # {} THEN first ELSE FreeRuns(0, last_index, n)

\* Every bit the first scan looks at is inside the bitmap.
ScanInBounds(n) ==
    LET first == FreeRuns(last_index, highest_page, n)
        last == IF first = {} THEN highest_page ELSE Min(first) + n
    IN  last > last_index => last <= bitmap_entries

AllocateCall(t, n) ==
    /\ booted
    /\ pc[t] = "idle"
    /\ phys_lock!Ask(t)
    /\ pc' = [pc EXCEPT ![t] = "alloc_wait"]
    /\ blk' = [blk EXCEPT ![t] = <<0, n>>]
    /\ UNCHANGED <<bvars, avail, last_index, used_pages, free_pages, blocks>>

\* The bits are read one by one, up to the last one of the run.
AllocateScan_NoLock(t) ==
    LET n == blk[t][2]
    IN  /\ pc[t] = "alloc_wait"
        /\ inside' = inside \cup {t} /\ UNCHANGED <<asked, ahead>>
        /\ ScanInBounds(n)
        /\ Candidates(n) # {}
        /\ LET p == Min(Candidates(n))
           IN  /\ last_index' = p + n
               /\ blk' = [blk EXCEPT ![t] = <<p, n>>]
        /\ pc' = [pc EXCEPT ![t] = "alloc_mark"]
        /\ UNCHANGED <<bvars, avail, used_pages, free_pages, blocks>>
AllocateScan(t) ==
    LET n == blk[t][2]
    IN  /\ pc[t] = "alloc_wait"
        /\ phys_lock!Enter(t)
        /\ ScanInBounds(n)
        /\ Candidates(n) # {}
        /\ LET p == Min(Candidates(n))
           IN  /\ last_index' = p + n
               /\ blk' = [blk EXCEPT ![t] = <<p, n>>]
        /\ pc' = [pc EXCEPT ![t] = "alloc_mark"]
        /\ UNCHANGED <<bvars, avail, used_pages, free_pages, blocks>>

\* The bits of the run are set.
AllocateMark(t) ==
    /\ pc[t] = "alloc_mark"
    /\ avail' = avail \ Pages(blk[t])
    /\ pc' = [pc EXCEPT ![t] = "alloc_held"]
    /\ UNCHANGED <<bvars, last_index, used_pages, free_pages, blocks, blk, lvars>>

\* Both scans failed: log_panik(), which never returns, with the lock held.
AllocatePanic(t) ==
    /\ pc[t] = "alloc_wait"
    /\ phys_lock!Enter(t)
    /\ ScanInBounds(blk[t][2])
    /\ Candidates(blk[t][2]) = {}
    /\ pc' = [pc EXCEPT ![t] = "panic"]
    /\ UNCHANGED <<bvars, avail, last_index, used_pages, free_pages, blocks, blk>>

\* Bitmap::bit's assertion fails, with the lock held.
AllocateAssert(t) ==
    /\ pc[t] = "alloc_wait"
    /\ phys_lock!Enter(t)
    /\ ~ScanInBounds(blk[t][2])
    /\ pc' = [pc EXCEPT ![t] = "assert"]
    /\ UNCHANGED <<bvars, avail, last_index, used_pages, free_pages, blocks, blk>>

\* The counters, the end of the guard, and the return to the caller.  The
\* memset of the block is not modelled: page contents are not.
AllocateReturn_One(t) ==
    /\ pc[t] = "alloc_held"
    /\ used_pages' = used_pages + 1
    /\ free_pages' = free_pages - 1
    /\ phys_lock!Leave(t)
    /\ blocks' = blocks \cup {blk[t]}
    /\ pc' = [pc EXCEPT ![t] = "idle"]
    /\ blk' = [blk EXCEPT ![t] = NoBlock]
    /\ UNCHANGED <<bvars, avail, last_index>>
AllocateReturn_Twice(t) ==
    /\ pc[t] = "alloc_held"
    /\ used_pages' = used_pages + blk[t][2]
    /\ free_pages' = free_pages - 2 * blk[t][2]
    /\ phys_lock!Leave(t)
    /\ blocks' = blocks \cup {blk[t]}
    /\ pc' = [pc EXCEPT ![t] = "idle"]
    /\ blk' = [blk EXCEPT ![t] = NoBlock]
    /\ UNCHANGED <<bvars, avail, last_index>>
AllocateReturn(t) ==
    /\ pc[t] = "alloc_held"
    /\ used_pages' = used_pages + blk[t][2]
    /\ free_pages' = free_pages - blk[t][2]
    /\ phys_lock!Leave(t)
    /\ blocks' = blocks \cup {blk[t]}
    /\ pc' = [pc EXCEPT ![t] = "idle"]
    /\ blk' = [blk EXCEPT ![t] = NoBlock]
    /\ UNCHANGED <<bvars, avail, last_index>>

-----------------------------------------------------------------------------
(* physical_free(ptr, count), by a caller that owns the block *)

FreeCall(t, b) ==
    /\ booted
    /\ pc[t] = "idle"
    /\ phys_lock!Ask(t)
    /\ blocks' = blocks \ {b}
    /\ pc' = [pc EXCEPT ![t] = "free_wait"]
    /\ blk' = [blk EXCEPT ![t] = b]
    /\ UNCHANGED <<bvars, avail, last_index, used_pages, free_pages>>

FreeClear(t) ==
    /\ pc[t] = "free_wait"
    /\ phys_lock!Enter(t)
    /\ avail' = avail \cup Pages(blk[t])
    /\ pc' = [pc EXCEPT ![t] = "free_held"]
    /\ UNCHANGED <<bvars, last_index, used_pages, free_pages, blocks, blk>>

FreeReturn_NoUnlock(t) ==
    /\ pc[t] = "free_held"
    /\ used_pages' = used_pages - blk[t][2]
    /\ free_pages' = free_pages + blk[t][2]
    /\ pc' = [pc EXCEPT ![t] = "idle"]
    /\ blk' = [blk EXCEPT ![t] = NoBlock]
    /\ UNCHANGED <<bvars, avail, last_index, blocks, lvars>>
FreeReturn(t) ==
    /\ pc[t] = "free_held"
    /\ used_pages' = used_pages - blk[t][2]
    /\ free_pages' = free_pages + blk[t][2]
    /\ phys_lock!Leave(t)
    /\ pc' = [pc EXCEPT ![t] = "idle"]
    /\ blk' = [blk EXCEPT ![t] = NoBlock]
    /\ UNCHANGED <<bvars, avail, last_index, blocks>>

\* arch::halt(): a processor that stopped loops for ever.
Halt(t) ==
    /\ pc[t] \in {"panic", "assert"}
    /\ UNCHANGED vars

-----------------------------------------------------------------------------
Init ==
    /\ memmap \in MemMaps
    /\ entry = 0
    /\ usable_pages = 0
    /\ highest_page = 0
    /\ booted = FALSE
    /\ bitmap_entries = 0
    /\ bitmap_pages = {}
    /\ boot_writes = {}
    /\ avail = {}
    /\ last_index = 0
    /\ used_pages = 0
    /\ free_pages = 0
    /\ blocks = {}
    /\ pc = [t \in Threads |-> "idle"]
    /\ blk = [t \in Threads |-> NoBlock]
    /\ phys_lock!Init

Call(t) ==
    \/ \E n \in Counts : AllocateCall(t, n)
    \/ \E b \in blocks : FreeCall(t, b)

Proceed(t) ==
    \/ AllocateScan(t)
    \/ AllocateMark(t)
    \/ AllocatePanic(t)
    \/ AllocateAssert(t)
    \/ AllocateReturn(t)
    \/ FreeClear(t)
    \/ FreeReturn(t)

Next ==
    \/ ScanEntry
    \/ Initialize
    \/ \E t \in Threads : InitializeAssert(t) \/ Call(t) \/ Proceed(t) \/ Halt(t)

Spec == Init /\ [][Next]_vars

\* A processor inside a call keeps executing.
FairSpec == Spec /\ \A t \in Threads : WF_vars(Proceed(t))

-----------------------------------------------------------------------------
\* Types; the counters of phys_stats, unsigned in the code, never go below zero.
TypeOK ==
    /\ memmap \in MemMaps
    /\ entry \in 0 .. Len(memmap)
    /\ usable_pages \in Nat /\ highest_page \in Nat
    /\ booted \in BOOLEAN
    /\ bitmap_entries \in Nat
    /\ bitmap_pages \subseteq Nat /\ boot_writes \subseteq Nat
    /\ avail \subseteq Nat
    /\ last_index \in Nat
    /\ used_pages \in Nat /\ free_pages \in Nat
    /\ blocks \subseteq Nat \X Nat
    /\ pc \in [Threads -> {"idle", "alloc_wait", "alloc_mark", "alloc_held", "free_wait",
                           "free_held", "panic", "assert"}]
    /\ blk \in [Threads -> Nat \X Nat]
    /\ phys_lock!MutexTypeOK

\* The pages physical_initialize() gave to the allocator.
Managed == UsableMemory \ bitmap_pages

\* Blocks that some caller, or some call in progress, may touch.
InFlight == {t \in Threads : pc[t] \in {"alloc_held", "free_wait"}}

\* Every managed page is free, in one block, or in one call in progress: no
\* page is handed out twice, lost, or taken from the bitmap itself.
\* (physical_allocate and physical_free working on one bitmap.)
EveryPageOnce ==
    booted =>
        /\ avail \cup (UNION {Pages(b) : b \in blocks})
                 \cup (UNION {Pages(blk[t]) : t \in InFlight}) = Managed
        /\ \A b \in blocks : Pages(b) \cap avail = {}
        /\ \A t \in InFlight : Pages(blk[t]) \cap avail = {}
        /\ \A b, c \in blocks : b # c => Pages(b) \cap Pages(c) = {}
        /\ \A t \in InFlight, b \in blocks : Pages(blk[t]) \cap Pages(b) = {}
        /\ \A t, u \in InFlight : t # u => Pages(blk[t]) \cap Pages(blk[u]) = {}

\* phys_stats agrees with the bitmap whenever nobody is in a guarded region:
\* free_pages counts the free bits and used_pages the rest of usable memory.
StatsAgree ==
    booted /\ inside = {} =>
        /\ free_pages = Cardinality(avail)
        /\ used_pages + free_pages = Cardinality(UsableMemory)

\* physical_allocate() of a single page panics only when no page is free,
\* wherever bitmap_last_index has got to.
SinglePagePanicMeansFull ==
    \A t \in Threads : pc[t] = "panic" /\ blk[t][2] = 1 => avail = {}

\* physical_allocate(count) says "Out of Phyiscal Memory!" (physical.cpp:165)
\* only when there is no run of count free pages.
PanicMeansNoRun ==
    \A t \in Threads : pc[t] = "panic" => FreeRuns(0, highest_page, blk[t][2]) = {}

\* physical_initialize() writes to the bitmap it placed and to no other page:
\* one bit for each page (docs/memory.md:26).
BootWritesBitmapOnly == boot_writes \subseteq bitmap_pages

\* Every call returns, or the kernel stopped.
CallsReturn ==
    \A t \in Threads :
        pc[t] # "idle" ~> (pc[t] = "idle" \/ \E u \in Threads : pc[u] \in {"panic", "assert"})
=============================================================================
