------------------------ MODULE PhysicalMemoryProofs ------------------------
(***************************************************************************)
(* The bitmap allocator of kernel/memory/physical.cpp for every memory map *)
(* of the bootloader, every set of processors and every request size: no   *)
(* page is handed out twice or lost, phys_stats counts them, and a request *)
(* for one page fails only when nothing is free.                           *)
(***************************************************************************)
EXTENDS PhysicalMemory, TLAPS, FiniteSetTheorems, NaturalsInduction,
        WellFoundedInduction

\* At most one thread is between lock() and unlock().  This is not inductive;
\* that the callers stand in a line is.
OneHolder == \A t, u \in inside : t = u
LockInv == phys_lock!MutexTypeOK /\ phys_lock!Line

\* The usable pages of the first k entries.
UsableBefore(k) ==
    UNION {EntryPages(memmap[i]) : i \in {j \in UsableEntries : j <= k}}

\* The first loop of physical_initialize() has counted what it went through.
ScanInv ==
    /\ IsFiniteSet(UsableBefore(entry))
    /\ usable_pages = Cardinality(UsableBefore(entry))
    /\ \A p \in UsableBefore(entry) : p < highest_page

\* Before physical_initialize() returns there is nothing to allocate from.
BootInv ==
    /\ booted => entry = Len(memmap) /\ bitmap_pages \subseteq UsableMemory
    /\ ~booted => /\ asked = {} /\ blocks = {}
                  /\ \A t \in Threads : pc[t] \in {"idle", "assert"}

\* Who is inside a guarded region, or stopped there, holds phys_lock.
HoldInv ==
    /\ \A t \in Threads :
          pc[t] \in {"alloc_mark", "alloc_held", "free_held", "panic"} => t \in inside
    /\ \A t \in inside :
          pc[t] \in {"alloc_mark", "alloc_held", "free_held", "panic", "assert"}

\* The run a scan has found is still free when its bits are set.
MarkInv == \A t \in Threads : pc[t] = "alloc_mark" => Pages(blk[t]) \subseteq avail

\* From the change of the bitmap to the end of a guarded region phys_stats lags
\* behind the bitmap by the block in hand.
StatsInv ==
    booted =>
        /\ used_pages + free_pages = usable_pages
        /\ (\A t \in inside : pc[t] \notin {"alloc_held", "free_held"})
              => free_pages = Cardinality(avail)
        /\ \A t \in inside :
              /\ pc[t] = "alloc_held" => free_pages = Cardinality(avail) + blk[t][2]
              /\ pc[t] = "free_held" => Cardinality(avail) = free_pages + blk[t][2]

IInv ==
    /\ TypeOK
    /\ LockInv
    /\ ScanInv
    /\ BootInv
    /\ HoldInv
    /\ MarkInv
    /\ StatsInv
    /\ EveryPageOnce
    /\ SinglePagePanicMeansFull
-----------------------------------------------------------------------------
(* phys_lock *)

\* The holder of a lock whose callers stand in a line is alone.
LEMMA LineExcludes ==
    ASSUME LockInv
    PROVE  OneHolder
  BY DEF LockInv, phys_lock!Line, OneHolder

\* A lock nobody called yet.
LEMMA InitLock ==
    ASSUME phys_lock!Init
    PROVE  LockInv
  BY DEF phys_lock!Init, LockInv, phys_lock!Line, phys_lock!MutexTypeOK

\* lock() puts its caller at the end of the line.
LEMMA AskLock ==
    ASSUME LockInv, NEW t \in Threads, phys_lock!Ask(t)
    PROVE  LockInv'
<1> USE DEF LockInv, phys_lock!MutexTypeOK, phys_lock!Ask
<1>1. phys_lock!MutexTypeOK'
  OBVIOUS
<1>2. phys_lock!Line'
  BY DEF phys_lock!Line
<1> QED
  BY <1>1, <1>2

\* lock() returns to the first in the line, when nobody holds the lock.
LEMMA EnterLock ==
    ASSUME LockInv, NEW t \in Threads, phys_lock!Enter(t)
    PROVE  LockInv' /\ inside = {} /\ inside' = {t}
<1> USE DEF LockInv, phys_lock!MutexTypeOK, phys_lock!Enter
<1>1. inside = {}
  BY DEF phys_lock!Line
<1>2. LockInv'
  BY DEF phys_lock!Line
<1> QED
  BY <1>1, <1>2

\* unlock() takes the holder out of the line and leaves nobody inside.
LEMMA LeaveLock ==
    ASSUME LockInv, NEW t \in Threads, phys_lock!Leave(t)
    PROVE  LockInv' /\ inside = {t} /\ inside' = {}
<1> USE DEF LockInv, phys_lock!MutexTypeOK, phys_lock!Leave
<1>1. inside = {t}
  BY LineExcludes DEF OneHolder
<1>2. phys_lock!MutexTypeOK'
  OBVIOUS
<1>3. phys_lock!Line'
  BY <1>1 DEF phys_lock!Line
<1> QED
  BY <1>1, <1>2, <1>3

-----------------------------------------------------------------------------
(* The operators of the model *)

\* A non-empty set of naturals has a least element, which Min picks.
LEMMA MinOfNaturals ==
    ASSUME NEW S, S \subseteq Nat, S # {}
    PROVE  Min(S) \in S /\ \A x \in S : Min(S) <= x
<1> DEFINE Less == {ss \in Nat \X Nat : ss[1] < ss[2]}
<1>1. IsWellFoundedOn(Less, Nat)
  BY NatLessThanWellFounded, Zenon DEF OpToRel
<1>2. PICK m \in S : \A x \in S : ~(<<x, m>> \in Less)
  <2> HIDE DEF Less
  <2> QED
    BY <1>1, WFMin
<1>3. ASSUME NEW x \in S PROVE m <= x
  <2>1. <<x, m>> \in Nat \X Nat /\ <<x, m>>[1] = x /\ <<x, m>>[2] = m
    OBVIOUS
  <2>2. <<x, m>> \notin Less
    BY <1>2
  <2>3. ~(x < m)
    BY <2>1, <2>2, Zenon
  <2> QED
    BY <2>3
<1> QED
  BY <1>3 DEF Min

\* A run of n pages has n pages.
LEMMA WindowPages ==
    ASSUME NEW p \in Nat, NEW n \in Nat
    PROVE  /\ Window(p, n) \subseteq Nat
           /\ IsFiniteSet(Window(p, n))
           /\ Cardinality(Window(p, n)) = n
<1>1. p + n - 1 \in Int
  OBVIOUS
<1>2. /\ IsFiniteSet(p .. (p + n - 1))
      /\ Cardinality(p .. (p + n - 1)) = IF p > p + n - 1 THEN 0 ELSE p + n - 1 - p + 1
  BY <1>1, FS_Interval
<1> QED
  BY <1>2 DEF Window

\* Taking a set out of a finite set, or adding one to it, changes the count by
\* its size.
LEMMA CountAddRemove ==
    ASSUME NEW S, NEW T, IsFiniteSet(S), IsFiniteSet(T)
    PROVE  /\ Cardinality(S) \in Nat
           /\ T \subseteq S => /\ IsFiniteSet(S \ T)
                              /\ Cardinality(S \ T) = Cardinality(S) - Cardinality(T)
           /\ S \cap T = {} => /\ IsFiniteSet(S \cup T)
                              /\ Cardinality(S \cup T) = Cardinality(S) + Cardinality(T)
<1>1. Cardinality(S) \in Nat /\ Cardinality(T) \in Nat
  BY FS_CardinalityType
<1>2. ASSUME T \subseteq S
      PROVE  IsFiniteSet(S \ T) /\ Cardinality(S \ T) = Cardinality(S) - Cardinality(T)
  <2>1. S \cap T = T
    BY <1>2
  <2> QED
    BY <2>1, FS_Difference
<1>3. ASSUME S \cap T = {}
      PROVE  IsFiniteSet(S \cup T) /\ Cardinality(S \cup T) = Cardinality(S) + Cardinality(T)
  BY <1>1, <1>3, FS_Union, FS_EmptySet
<1> QED
  BY <1>1, <1>2, <1>3

\* The bitmap has a natural number of pages.
LEMMA BitmapPagesType ==
    ASSUME highest_page \in Nat
    PROVE  BitmapPages \in Nat
<1>1. highest_page \div 8 \in Nat
  OBVIOUS
<1>2. ASSUME NEW a \in Nat, NEW b \in Nat \ {0}
      PROVE  a \div b \in Nat
  OBVIOUS
<1>3. (highest_page \div 8) + PAGE_SIZE - 1 \in Nat
  BY <1>1, PageSizeOK
<1> QED
  BY <1>2, <1>3, PageSizeOK DEF BitmapPages

\* An entry of a memory map.
LEMMA EntryType ==
    ASSUME memmap \in MemMaps, NEW i \in UsableEntries
    PROVE  /\ i \in 1 .. Len(memmap) /\ Len(memmap) \in Nat
           /\ memmap[i].base \in Nat /\ memmap[i].length \in Nat
           /\ EntryPages(memmap[i]) \subseteq Nat
           /\ EntryPages(memmap[i]) \subseteq UsableMemory
<1>1. memmap \in Seq(Entries) /\ i \in DOMAIN memmap
  BY MemMapsOK DEF UsableEntries
<1>2. i \in 1 .. Len(memmap) /\ Len(memmap) \in Nat /\ memmap[i] \in Entries
  BY <1>1
<1>3. memmap[i].base \in Nat /\ memmap[i].length \in Nat
  BY <1>2 DEF Entries
<1>4. EntryPages(memmap[i]) \subseteq Nat
  BY <1>3, WindowPages DEF EntryPages
<1> QED
  BY <1>2, <1>3, <1>4 DEF UsableMemory

\* The bitmap lies in usable memory.
LEMMA HostInUsable ==
    ASSUME memmap \in MemMaps, highest_page \in Nat
    PROVE  /\ HostPages \subseteq UsableMemory
           /\ HostPages \subseteq Nat
           /\ IsFiniteSet(HostPages)
           /\ HostEntries \in Nat
           /\ Hosts # {} => Window(HostBase, 8 * BitmapPages) \subseteq Nat
<1>1. BitmapPages \in Nat
  BY BitmapPagesType
<1>2. CASE Hosts = {}
  BY <1>2, FS_EmptySet DEF HostPages, HostEntries
<1>3. CASE Hosts # {}
  <2>1. Hosts \subseteq Nat /\ Hosts \subseteq UsableEntries
    BY EntryType DEF Hosts
  <2>2. Min(Hosts) \in Hosts
    BY <1>3, <2>1, MinOfNaturals
  <2>3. /\ Min(Hosts) \in UsableEntries
        /\ memmap[Min(Hosts)].length >= BitmapPages
    BY <2>2 DEF Hosts
  <2>4. HostBase \in Nat /\ memmap[Min(Hosts)].length \in Nat
    BY <2>3, EntryType DEF HostBase
  <2>5. HostPages = Window(HostBase, BitmapPages)
    BY <1>3 DEF HostPages
  <2>6. HostPages \subseteq EntryPages(memmap[Min(Hosts)])
    BY <1>1, <2>3, <2>4, <2>5 DEF EntryPages, Window, HostBase
  <2>7. HostPages \subseteq UsableMemory
    BY <2>3, <2>6, EntryType
  <2>8. HostPages \subseteq Nat /\ IsFiniteSet(HostPages)
    BY <1>1, <2>4, <2>5, WindowPages
  <2>9. HostEntries \in Nat
    <3>1. BitmapPages * PAGE_SIZE \in Nat
      BY <1>1, PageSizeOK
    <3> QED
      BY <1>3, <3>1 DEF HostEntries
  <2>10. Window(HostBase, 8 * BitmapPages) \subseteq Nat
    BY <1>1, <2>4, WindowPages
  <2> QED
    BY <2>7, <2>8, <2>9, <2>10
<1> QED
  BY <1>2, <1>3

\* A scan finds a run of free pages.
LEMMA CandidateFree ==
    ASSUME TypeOK, NEW n \in Nat, Candidates(n) # {}
    PROVE  /\ Min(Candidates(n)) \in Nat
           /\ Window(Min(Candidates(n)), n) \subseteq avail
<1>1. last_index \in Nat /\ highest_page \in Nat
  BY DEF TypeOK
<1>2. \A p \in Candidates(n) : p \in Nat /\ Window(p, n) \subseteq avail
  BY <1>1 DEF Candidates, FreeRuns
<1>3. Min(Candidates(n)) \in Candidates(n)
  BY <1>2, MinOfNaturals
<1> QED
  BY <1>2, <1>3

\* When both scans fail to find one page, no page is free.
LEMMA NoCandidateForOne ==
    ASSUME TypeOK, Candidates(1) = {}, \A p \in avail : p < highest_page
    PROVE  avail = {}
<1> SUFFICES ASSUME NEW p \in avail PROVE FALSE
  OBVIOUS
<1>1. /\ p \in Nat /\ last_index \in Nat /\ highest_page \in Nat
      /\ p < highest_page
  BY DEF TypeOK
<1>2. Window(p, 1) = {p}
  BY <1>1 DEF Window
<1>3. FreeRuns(last_index, highest_page, 1) = {} /\ FreeRuns(0, last_index, 1) = {}
  BY DEF Candidates
<1>4. p \in last_index .. (highest_page - 1) \/ p \in 0 .. (last_index - 1)
  BY <1>1
<1> QED
  BY <1>2, <1>3, <1>4 DEF FreeRuns

-----------------------------------------------------------------------------
(* What the invariant says once memory is up *)

\* When its first loop ends physical_initialize() has seen all usable memory.
LEMMA WholeMap ==
    ASSUME IInv, entry = Len(memmap)
    PROVE  /\ IsFiniteSet(UsableMemory)
           /\ usable_pages = Cardinality(UsableMemory)
           /\ \A p \in UsableMemory : p \in Nat /\ p < highest_page
<1>1. memmap \in MemMaps
  BY DEF IInv, TypeOK
<1>2. \A i \in UsableEntries : i <= entry
  BY <1>1, EntryType
<1>3. {j \in UsableEntries : j <= entry} = UsableEntries
  BY <1>2
<1>4. UsableBefore(entry) = UsableMemory
  BY <1>3 DEF UsableBefore, UsableMemory
<1>5. UsableMemory \subseteq Nat
  BY <1>1, EntryType DEF UsableMemory
<1> QED
  BY <1>4, <1>5 DEF IInv, ScanInv

\* The allocator has some of the usable memory, which is finite and counted.
LEMMA Accounts ==
    ASSUME IInv, booted
    PROVE  /\ IsFiniteSet(avail)
           /\ Cardinality(avail) \in Nat
           /\ usable_pages = Cardinality(UsableMemory)
           /\ usable_pages \in Nat
           /\ avail \subseteq UsableMemory
           /\ IsFiniteSet(UsableMemory)
           /\ \A p \in avail : p < highest_page
<1>1. /\ IsFiniteSet(UsableMemory)
      /\ usable_pages = Cardinality(UsableMemory)
      /\ \A p \in UsableMemory : p < highest_page
  BY WholeMap DEF IInv, BootInv
<1>2. avail \subseteq UsableMemory
  BY DEF IInv, EveryPageOnce, Managed
<1>3. IsFiniteSet(avail)
  BY <1>1, <1>2, FS_Subset
<1> QED
  BY <1>1, <1>2, <1>3, FS_CardinalityType

\* A step that leaves the memory map alone leaves what boot computed alone.
LEMMA ScanFrame ==
    ASSUME IInv, UNCHANGED ivars
    PROVE  ScanInv' /\ UsableMemory' = UsableMemory
<1>1. UsableEntries' = UsableEntries
  BY DEF ivars, UsableEntries
<1>2. UsableMemory' = UsableMemory
  BY <1>1 DEF ivars, UsableMemory, EntryPages, Window
<1>3. UsableBefore(entry)' = UsableBefore(entry)
  BY <1>1 DEF ivars, UsableBefore, EntryPages, Window
<1> QED
  BY <1>2, <1>3 DEF IInv, ScanInv, ivars

\* The same for a call, which also leaves the bitmap where it is.
LEMMA BootFrame ==
    ASSUME IInv, UNCHANGED bvars
    PROVE  /\ ScanInv' /\ UsableMemory' = UsableMemory /\ Managed' = Managed
           /\ booted' = booted
           /\ booted => BootInv'
<1>1. ScanInv' /\ UsableMemory' = UsableMemory
  BY ScanFrame DEF bvars
<1> QED
  BY <1>1 DEF Managed, BootInv, IInv, bvars, ivars

\* The types after a step of a call.
LEMMA CallTypes ==
    ASSUME IInv, UNCHANGED bvars, LockInv',
           avail' \subseteq Nat, last_index' \in Nat,
           used_pages' \in Nat, free_pages' \in Nat,
           blocks' \subseteq Nat \X Nat, blk' \in [Threads -> Nat \X Nat],
           pc' \in [Threads -> {"idle", "alloc_wait", "alloc_mark", "alloc_held", "free_wait",
                               "free_held", "panic", "assert"}]
    PROVE  TypeOK'
<1>1. phys_lock!MutexTypeOK'
  BY DEF LockInv, phys_lock!MutexTypeOK, phys_lock!MutexTypeOK
<1> QED
  BY <1>1 DEF IInv, TypeOK, bvars, ivars

\* A step that moves no page keeps every page once.
LEMMA PagesFrame ==
    ASSUME IInv, UNCHANGED bvars, UNCHANGED <<avail, blocks>>,
           InFlight' = InFlight, \A u \in InFlight : blk'[u] = blk[u]
    PROVE  EveryPageOnce'
<1>1. Managed' = Managed /\ booted' = booted
  BY BootFrame DEF bvars
<1>2. \A u \in InFlight : Pages(blk'[u]) = Pages(blk[u])
  BY DEF Pages
<1>3. UNION {Pages(blk'[u]) : u \in InFlight'} = UNION {Pages(blk[u]) : u \in InFlight}
  BY <1>2
<1> QED
  BY <1>1, <1>2, <1>3 DEF EveryPageOnce, IInv

\* While no run waits to be marked there is nothing to keep of it.
LEMMA NoMark ==
    ASSUME \A u \in Threads : pc'[u] # "alloc_mark"
    PROVE  MarkInv'
BY DEF MarkInv

\* A run that waits to be marked stays free as long as no page is taken.
LEMMA MarkFrame ==
    ASSUME MarkInv, avail' = avail,
           \A u \in Threads : pc'[u] = "alloc_mark" => pc[u] = "alloc_mark" /\ blk'[u] = blk[u]
    PROVE  MarkInv'
<1> SUFFICES ASSUME NEW u \in Threads, pc'[u] = "alloc_mark"
             PROVE  Pages(blk'[u]) \subseteq avail'
  BY DEF MarkInv, Pages
<1>1. blk'[u] = blk[u] /\ Pages(blk[u]) \subseteq avail
  BY DEF MarkInv
<1> QED
  BY <1>1

-----------------------------------------------------------------------------
(* Boot *)

\* The initial state satisfies the invariant.
LEMMA InitIInv == Init => IInv
<1> SUFFICES ASSUME Init PROVE IInv
  OBVIOUS
<1> USE DEF Init
<1>1. memmap \in Seq(Entries) /\ Len(memmap) \in Nat
  BY MemMapsOK
<1>2. LockInv
  BY InitLock
<1>3. TypeOK
  <2>1. booted \in BOOLEAN
    OBVIOUS
  <2>2. /\ entry \in 0 .. Len(memmap)
        /\ pc \in [Threads -> {"idle", "alloc_wait", "alloc_mark", "alloc_held", "free_wait",
                               "free_held", "panic", "assert"}]
        /\ blk \in [Threads -> Nat \X Nat]
        /\ phys_lock!MutexTypeOK
    BY <1>1 DEF NoBlock, phys_lock!Init, phys_lock!MutexTypeOK
  <2> QED
    BY <2>1, <2>2 DEF TypeOK
<1>4. ScanInv
  <2>1. {j \in UsableEntries : j <= entry} = {}
    BY EntryType
  <2>2. UsableBefore(entry) = {}
    BY <2>1 DEF UsableBefore
  <2> QED
    BY <2>2, FS_EmptySet DEF ScanInv
<1>5. BootInv /\ HoldInv /\ MarkInv
  BY DEF BootInv, HoldInv, MarkInv, phys_lock!Init
<1>6. StatsInv /\ EveryPageOnce /\ SinglePagePanicMeansFull
  BY DEF StatsInv, EveryPageOnce, SinglePagePanicMeansFull
<1> QED
  BY <1>2, <1>3, <1>4, <1>5, <1>6 DEF IInv

\* One turn of the first loop counts one entry, which overlaps no earlier one.
LEMMA ScanEntryIInv ==
    ASSUME IInv, ScanEntry
    PROVE  IInv'
<1> USE DEF IInv
<1> DEFINE e == memmap[entry + 1]
<1>1. /\ memmap \in MemMaps /\ memmap \in Seq(Entries)
      /\ Len(memmap) \in Nat /\ entry \in Nat /\ entry < Len(memmap)
      /\ usable_pages \in Nat /\ highest_page \in Nat
  BY MemMapsOK DEF TypeOK, ScanEntry
<1>2. entry + 1 \in DOMAIN memmap /\ e \in Entries
  BY <1>1
<1>3. e.base \in Nat /\ e.length \in Nat
  BY <1>2 DEF Entries
<1>4. ~booted
  BY <1>1 DEF BootInv, ScanEntry
<1>5. /\ memmap' = memmap /\ UNCHANGED lvars /\ UNCHANGED pc /\ booted' = booted
      /\ avail' = avail /\ blocks' = blocks /\ blk' = blk /\ entry' = entry + 1
  BY DEF ScanEntry
<1>6. TypeOK'
  <2>1. entry' \in 0 .. Len(memmap')
    BY <1>1, <1>5
  <2>2. usable_pages' \in Nat /\ highest_page' \in Nat
    <3>1. CASE e.type = Usable
      BY <1>1, <1>3, <3>1 DEF ScanEntry
    <3>2. CASE e.type # Usable
      BY <1>1, <3>2 DEF ScanEntry
    <3> QED
      BY <3>1, <3>2
  <2>3. phys_lock!MutexTypeOK'
    BY <1>5 DEF TypeOK, phys_lock!MutexTypeOK, lvars
  <2> QED
    BY <2>1, <2>2, <2>3 DEF TypeOK, ScanEntry
<1>7. LockInv'
  BY <1>5 DEF lvars, LockInv, phys_lock!MutexTypeOK, phys_lock!Line
<1>8. BootInv' /\ HoldInv' /\ StatsInv' /\ EveryPageOnce' /\ SinglePagePanicMeansFull'
  BY <1>4, <1>5 DEF BootInv, HoldInv, StatsInv, EveryPageOnce,
                    SinglePagePanicMeansFull, lvars
<1>9. ScanInv'
  <2>1. UsableEntries' = UsableEntries
    BY <1>5 DEF UsableEntries
  <2>2. UsableBefore(entry)' =
            UNION {EntryPages(memmap[i]) : i \in {j \in UsableEntries : j <= entry + 1}}
    BY <2>1, <1>5 DEF UsableBefore, EntryPages, Window
  <2>3. UsableEntries \subseteq Nat
    BY <1>1, EntryType
  <2>4. \A j \in UsableEntries : j <= entry + 1 <=> (j <= entry \/ j = entry + 1)
    BY <2>3, <1>1
  <2>5. CASE e.type = Usable
    <3>1. entry + 1 \in UsableEntries
      BY <2>5, <1>2 DEF UsableEntries
    <3>2. {j \in UsableEntries : j <= entry + 1} =
              {j \in UsableEntries : j <= entry} \cup {entry + 1}
      BY <2>4, <3>1
    <3>3. UsableBefore(entry)' = UsableBefore(entry) \cup EntryPages(e)
      <4> DEFINE old == {j \in UsableEntries : j <= entry}
                 P(i) == EntryPages(memmap[i])
      <4>1. UsableBefore(entry)' = UNION {P(i) : i \in old \cup {entry + 1}}
        BY <2>2, <3>2, Zenon
      <4>2. UsableBefore(entry) = UNION {P(i) : i \in old}
        BY Zenon DEF UsableBefore
      <4>3. EntryPages(e) = P(entry + 1)
        OBVIOUS
      <4> HIDE DEF old, P, e
      <4> QED
        BY <4>1, <4>2, <4>3
    <3>4. \A p \in UsableBefore(entry) : p < e.base
      <4>1. SUFFICES ASSUME NEW i \in UsableEntries, i <= entry, NEW p \in EntryPages(memmap[i])
                     PROVE  p < e.base
        BY DEF UsableBefore
      <4>2. memmap[i].base + memmap[i].length <= e.base
        BY <1>1, <1>2, <2>3, <4>1, MemMapsOK DEF UsableEntries
      <4>3. memmap[i].base \in Nat /\ memmap[i].length \in Nat
        BY <1>1, EntryType
      <4> QED
        BY <1>3, <4>1, <4>2, <4>3 DEF EntryPages, Window
    <3>5. UsableBefore(entry) \cap EntryPages(e) = {}
      BY <3>4, <1>3 DEF EntryPages, Window
    <3>6. /\ EntryPages(e) \subseteq Nat /\ IsFiniteSet(EntryPages(e))
          /\ Cardinality(EntryPages(e)) = e.length
      BY <1>3, WindowPages DEF EntryPages
    <3>7. /\ IsFiniteSet(UsableBefore(entry)')
          /\ Cardinality(UsableBefore(entry)') = usable_pages + e.length
      BY <3>3, <3>5, <3>6, CountAddRemove, ZenonT(30) DEF ScanInv
    <3>8. /\ usable_pages' = usable_pages + e.length
          /\ highest_page' \in Nat
          /\ highest_page <= highest_page'
          /\ e.base + e.length <= highest_page'
      BY <1>1, <1>3, <2>5 DEF ScanEntry
    <3>9. \A p \in UsableBefore(entry) : p < highest_page'
      <4>1. TAKE p \in UsableBefore(entry)
      <4>2. p \in Nat
        BY <1>1, EntryType DEF UsableBefore
      <4> QED
        BY <4>1, <4>2, <1>1, <3>8 DEF ScanInv
    <3>10. \A p \in EntryPages(e) : p < highest_page'
      BY <1>3, <3>8 DEF EntryPages, Window
    <3> QED
      BY <3>3, <3>7, <3>8, <3>9, <3>10 DEF ScanInv
  <2>6. CASE e.type # Usable
    <3>1. entry + 1 \notin UsableEntries
      BY <2>6 DEF UsableEntries
    <3>2. {j \in UsableEntries : j <= entry + 1} = {j \in UsableEntries : j <= entry}
      BY <2>4, <3>1
    <3>3. UsableBefore(entry)' = UsableBefore(entry)
      BY <2>2, <3>2 DEF UsableBefore
    <3> QED
      BY <2>6, <3>3 DEF ScanInv, ScanEntry
  <2> QED
    BY <2>5, <2>6
<1>10. MarkInv'
  BY <1>5, MarkFrame
<1> QED
  BY <1>6, <1>7, <1>8, <1>9, <1>10

\* physical_initialize() hands out all usable memory but the bitmap.
LEMMA InitializeIInv ==
    ASSUME IInv, Initialize
    PROVE  IInv'
<1> USE DEF IInv
<1>1. /\ memmap \in MemMaps /\ highest_page \in Nat /\ usable_pages \in Nat
      /\ entry = Len(memmap) /\ UNCHANGED ivars /\ booted'
  BY DEF TypeOK, Initialize
<1>2. /\ asked = {} /\ inside = {} /\ blocks = {}
      /\ \A t \in Threads : pc[t] \in {"idle", "assert"}
  BY DEF Initialize, BootInv, LockInv, phys_lock!Line
<1>3. /\ UNCHANGED <<pc, blk, blocks, asked, ahead, inside, last_index>>
      /\ avail' = UsableMemory \ HostPages /\ bitmap_pages' = HostPages
      /\ used_pages' = Cardinality(HostPages)
      /\ free_pages' = usable_pages - Cardinality(HostPages)
  BY DEF Initialize, lvars, FreedAtBoot
<1>4. ScanInv' /\ UsableMemory' = UsableMemory
  BY <1>1, ScanFrame
<1>5. /\ HostPages \subseteq UsableMemory /\ HostPages \subseteq Nat
      /\ IsFiniteSet(HostPages) /\ HostEntries \in Nat
      /\ Hosts # {} => Window(HostBase, 8 * BitmapPages) \subseteq Nat
  BY <1>1, HostInUsable
<1>6. /\ IsFiniteSet(UsableMemory) /\ usable_pages = Cardinality(UsableMemory)
      /\ UsableMemory \subseteq Nat
  BY <1>1, WholeMap
<1>7. /\ IsFiniteSet(avail') /\ Cardinality(avail') \in Nat
      /\ Cardinality(avail') = usable_pages - Cardinality(HostPages)
      /\ Cardinality(HostPages) \in Nat
  BY <1>3, <1>5, <1>6, CountAddRemove, FS_CardinalityType
<1>8. TypeOK'
  <2>1. booted' \in BOOLEAN
    BY DEF Initialize
  <2>2. /\ bitmap_entries' \in Nat /\ bitmap_pages' \subseteq Nat
        /\ boot_writes' \subseteq Nat /\ avail' \subseteq Nat
        /\ used_pages' \in Nat /\ free_pages' \in Nat
    BY <1>3, <1>5, <1>6, <1>7 DEF Initialize
  <2>3. phys_lock!MutexTypeOK'
    BY <1>3 DEF TypeOK, phys_lock!MutexTypeOK
  <2> QED
    BY <1>1, <1>3, <2>1, <2>2, <2>3 DEF TypeOK, ivars
<1>9. LockInv'
  BY <1>3 DEF LockInv, phys_lock!MutexTypeOK, phys_lock!Line
<1>10. BootInv' /\ HoldInv'
  BY <1>1, <1>2, <1>3, <1>4, <1>5 DEF BootInv, HoldInv, ivars
<1>11. StatsInv'
  BY <1>1, <1>2, <1>3, <1>7 DEF StatsInv, ivars
<1>12. EveryPageOnce'
  <2>1. InFlight' = {}
    BY <1>2, <1>3 DEF InFlight
  <2>2. Managed' = avail'
    BY <1>3, <1>4 DEF Managed
  <2> QED
    BY <1>2, <1>3, <2>1, <2>2 DEF EveryPageOnce
<1>13. SinglePagePanicMeansFull'
  BY <1>2, <1>3 DEF SinglePagePanicMeansFull
<1>14. MarkInv'
  BY <1>2, <1>3, NoMark
<1> QED
  BY <1>4, <1>8, <1>9, <1>10, <1>11, <1>12, <1>13, <1>14

\* A failed assertion while memory is being set up stops the boot processor.
LEMMA InitializeAssertIInv ==
    ASSUME IInv, NEW t \in Threads, InitializeAssert(t)
    PROVE  IInv'
<1> USE DEF IInv
<1>1. /\ ~booted /\ UNCHANGED bvars /\ UNCHANGED lvars
      /\ UNCHANGED <<avail, last_index, used_pages, free_pages, blocks, blk>>
      /\ pc' = [pc EXCEPT ![t] = "assert"]
  BY DEF InitializeAssert
<1>2. LockInv'
  BY <1>1 DEF lvars, LockInv, phys_lock!MutexTypeOK, phys_lock!Line
<1>3. TypeOK'
  BY <1>1, <1>2, CallTypes DEF TypeOK
<1>4. ScanInv' /\ booted' = booted
  BY <1>1, BootFrame
<1>5. BootInv' /\ HoldInv' /\ SinglePagePanicMeansFull'
  BY <1>1, <1>4 DEF BootInv, HoldInv, SinglePagePanicMeansFull, TypeOK, lvars,
                    LockInv, phys_lock!Line
<1>6. StatsInv' /\ EveryPageOnce'
  BY <1>1, <1>4 DEF StatsInv, EveryPageOnce
<1>7. MarkInv'
  BY <1>1, MarkFrame DEF TypeOK
<1> QED
  BY <1>2, <1>3, <1>4, <1>5, <1>6, <1>7

-----------------------------------------------------------------------------
(* physical_allocate() *)

\* Waiting for phys_lock changes neither bitmap nor statistics.
LEMMA AllocateCallIInv ==
    ASSUME IInv, NEW t \in Threads, NEW n \in Counts, AllocateCall(t, n)
    PROVE  IInv'
<1> USE DEF IInv
<1>1. /\ booted /\ UNCHANGED bvars /\ pc[t] = "idle" /\ phys_lock!Ask(t)
      /\ UNCHANGED <<avail, last_index, used_pages, free_pages, blocks>>
      /\ pc' = [pc EXCEPT ![t] = "alloc_wait"]
      /\ blk' = [blk EXCEPT ![t] = <<0, n>>]
  BY DEF AllocateCall
<1>2. /\ LockInv' /\ inside' = inside /\ inside \subseteq Threads /\ t \notin inside
  <2>1. LockInv'
    BY <1>1, AskLock
  <2> QED
    BY <1>1, <2>1 DEF phys_lock!Ask, LockInv, phys_lock!MutexTypeOK, phys_lock!Line
<1>3. TypeOK'
  BY <1>1, <1>2, CallTypes, CountsOK DEF TypeOK
<1>4. ScanInv' /\ BootInv'
  BY <1>1, BootFrame
<1>5. \A u \in Threads : u # t => pc'[u] = pc[u] /\ blk'[u] = blk[u]
  BY <1>1 DEF TypeOK
<1>6. pc'[t] = "alloc_wait"
  BY <1>1 DEF TypeOK
<1>7. HoldInv' /\ SinglePagePanicMeansFull'
  BY <1>1, <1>2, <1>5, <1>6 DEF HoldInv, SinglePagePanicMeansFull
<1>8. StatsInv'
  BY <1>1, <1>2, <1>5, <1>6 DEF StatsInv, bvars, ivars
<1>9. EveryPageOnce'
  <2>1. InFlight' = InFlight /\ t \notin InFlight /\ InFlight \subseteq Threads
    BY <1>1, <1>5, <1>6 DEF InFlight
  <2> QED
    BY <1>1, <1>5, <2>1, PagesFrame
<1>10. MarkInv'
  BY <1>1, <1>5, <1>6, MarkFrame
<1> QED
  BY <1>2, <1>3, <1>4, <1>7, <1>8, <1>9, <1>10

\* The scan finds a run of free pages and marks none of them yet.
LEMMA AllocateScanIInv ==
    ASSUME IInv, NEW t \in Threads, AllocateScan(t)
    PROVE  IInv'
<1> USE DEF IInv
<1> DEFINE n == blk[t][2]
           p == Min(Candidates(n))
<1>1. /\ UNCHANGED bvars /\ pc[t] = "alloc_wait" /\ phys_lock!Enter(t)
      /\ UNCHANGED <<avail, used_pages, free_pages, blocks>>
      /\ pc' = [pc EXCEPT ![t] = "alloc_mark"]
      /\ last_index' = p + n
      /\ blk' = [blk EXCEPT ![t] = <<p, n>>]
      /\ Candidates(n) # {}
  BY DEF AllocateScan
<1>2. LockInv' /\ inside = {} /\ inside' = {t}
  BY <1>1, EnterLock
<1>3. booted
  BY <1>1 DEF BootInv
<1>4. n \in Nat
  BY DEF TypeOK
<1>5. p \in Nat /\ Window(p, n) \subseteq avail
  BY <1>1, <1>4, CandidateFree
<1> HIDE DEF n, p
<1>6. TypeOK'
  <2>1. avail' \subseteq Nat /\ last_index' \in Nat
    BY <1>1, <1>4, <1>5 DEF TypeOK
  <2>2. /\ blk' \in [Threads -> Nat \X Nat]
        /\ pc' \in [Threads -> {"idle", "alloc_wait", "alloc_mark", "alloc_held", "free_wait",
                               "free_held", "panic", "assert"}]
    BY <1>1, <1>4, <1>5 DEF TypeOK
  <2> QED
    BY <1>1, <1>2, <2>1, <2>2, CallTypes DEF TypeOK
<1>7. ScanInv' /\ BootInv'
  BY <1>1, <1>3, BootFrame
<1>8. /\ \A u \in Threads : u # t => pc'[u] = pc[u] /\ blk'[u] = blk[u]
      /\ pc'[t] = "alloc_mark" /\ blk'[t] = <<p, n>>
  BY <1>1 DEF TypeOK
<1>9. HoldInv' /\ SinglePagePanicMeansFull'
  BY <1>1, <1>2, <1>8 DEF HoldInv, SinglePagePanicMeansFull
<1>10. MarkInv'
  <2>1. \A u \in Threads : u # t => pc'[u] # "alloc_mark"
    BY <1>2, <1>8 DEF HoldInv
  <2>2. Pages(blk'[t]) = Window(p, n)
    BY <1>8 DEF Pages
  <2> QED
    BY <1>1, <1>5, <2>1, <2>2 DEF MarkInv
<1>11. StatsInv'
  BY <1>1, <1>2, <1>3, <1>8 DEF StatsInv, bvars, ivars
<1>12. EveryPageOnce'
  <2>1. InFlight' = InFlight /\ t \notin InFlight /\ InFlight \subseteq Threads
    BY <1>1, <1>8 DEF InFlight
  <2> QED
    BY <1>1, <1>8, <2>1, PagesFrame
<1> QED
  BY <1>2, <1>6, <1>7, <1>9, <1>10, <1>11, <1>12

\* The run is marked while phys_lock is still held, so it is still free.
LEMMA AllocateMarkIInv ==
    ASSUME IInv, NEW t \in Threads, AllocateMark(t)
    PROVE  IInv'
<1> USE DEF IInv
<1> DEFINE n == blk[t][2]
           W == Pages(blk[t])
<1>1. /\ UNCHANGED bvars /\ pc[t] = "alloc_mark" /\ UNCHANGED lvars
      /\ UNCHANGED <<last_index, used_pages, free_pages, blocks, blk>>
      /\ pc' = [pc EXCEPT ![t] = "alloc_held"]
      /\ avail' = avail \ W
  BY DEF AllocateMark
<1>2. LockInv' /\ inside = {t} /\ inside' = {t}
  <2>1. LockInv'
    BY <1>1 DEF lvars, LockInv, phys_lock!MutexTypeOK, phys_lock!Line
  <2>2. t \in inside
    BY <1>1 DEF HoldInv
  <2>3. \A u \in inside : u = t
    BY <2>2, LineExcludes DEF OneHolder
  <2> QED
    BY <1>1, <2>1, <2>2, <2>3 DEF lvars
<1>3. booted
  BY <1>1 DEF BootInv
<1>4. n \in Nat /\ blk[t][1] \in Nat
  BY DEF TypeOK
<1>5. W \subseteq avail
  BY <1>1 DEF MarkInv
<1>6. IsFiniteSet(W) /\ Cardinality(W) = n
  BY <1>4, WindowPages DEF Pages
<1> HIDE DEF n, W
<1>7. TypeOK'
  <2>1. avail' \subseteq Nat
    BY <1>1 DEF TypeOK
  <2>2. pc' \in [Threads -> {"idle", "alloc_wait", "alloc_mark", "alloc_held", "free_wait",
                            "free_held", "panic", "assert"}]
    BY <1>1 DEF TypeOK
  <2> QED
    BY <1>1, <1>2, <2>1, <2>2, CallTypes DEF TypeOK
<1>8. ScanInv' /\ BootInv' /\ Managed' = Managed /\ booted' = booted
  BY <1>1, <1>3, BootFrame
<1>9. /\ \A u \in Threads : u # t => pc'[u] = pc[u]
      /\ pc'[t] = "alloc_held"
  BY <1>1 DEF TypeOK
<1>10. HoldInv' /\ MarkInv' /\ SinglePagePanicMeansFull'
  <2>1. \A u \in Threads : u # t => pc[u] \notin {"alloc_mark", "panic"}
    BY <1>2 DEF HoldInv
  <2>2. MarkInv'
    BY <1>9, <2>1, NoMark
  <2> QED
    BY <1>1, <1>2, <1>9, <2>1, <2>2 DEF HoldInv, SinglePagePanicMeansFull
<1>11. StatsInv'
  <2>1. Cardinality(avail') = Cardinality(avail) - n /\ Cardinality(avail) \in Nat
    BY <1>1, <1>3, <1>5, <1>6, Accounts, CountAddRemove
  <2>2. free_pages' = Cardinality(avail)
    BY <1>1, <1>2, <1>3 DEF StatsInv
  <2>3. blk'[t][2] = n
    BY <1>1 DEF n
  <2>4. used_pages' + free_pages' = usable_pages'
    BY <1>1, <1>3 DEF StatsInv, bvars, ivars
  <2> QED
    BY <1>2, <1>4, <1>9, <2>1, <2>2, <2>3, <2>4 DEF StatsInv
<1>12. EveryPageOnce'
  <2>1. /\ InFlight' = InFlight \cup {t} /\ t \notin InFlight
        /\ InFlight \subseteq Threads
    BY <1>1, <1>9 DEF InFlight
  <2>2. Pages(blk'[t]) = W /\ \A u \in InFlight : Pages(blk'[u]) = Pages(blk[u])
    BY <1>1 DEF W
  <2>3. UNION {Pages(blk'[u]) : u \in InFlight'} =
            W \cup (UNION {Pages(blk[u]) : u \in InFlight})
    BY <2>1, <2>2
  <2>4. avail' \cup (UNION {Pages(b) : b \in blocks'})
               \cup (UNION {Pages(blk'[u]) : u \in InFlight'}) = Managed'
    BY <1>1, <1>3, <1>5, <1>8, <2>3 DEF EveryPageOnce
  <2>5. /\ \A b \in blocks' : Pages(b) \cap avail' = {}
        /\ \A u \in InFlight' : Pages(blk'[u]) \cap avail' = {}
    BY <1>1, <1>3, <2>1, <2>2 DEF EveryPageOnce
  <2>6. /\ \A b, c \in blocks' : b # c => Pages(b) \cap Pages(c) = {}
        /\ \A u \in InFlight', b \in blocks' : Pages(blk'[u]) \cap Pages(b) = {}
    BY <1>1, <1>3, <1>5, <2>1, <2>2 DEF EveryPageOnce
  <2>7. \A u, v \in InFlight' : u # v => Pages(blk'[u]) \cap Pages(blk'[v]) = {}
    BY <1>3, <1>5, <2>1, <2>2 DEF EveryPageOnce
  <2> QED
    BY <2>4, <2>5, <2>6, <2>7 DEF EveryPageOnce
<1> QED
  BY <1>2, <1>7, <1>8, <1>10, <1>11, <1>12

\* A step that stops a caller holding phys_lock, for lack of memory or on a
\* failed assertion, touches nothing else.
LEMMA StopIInv ==
    ASSUME IInv, NEW t \in Threads, AllocatePanic(t) \/ AllocateAssert(t)
    PROVE  IInv'
<1> USE DEF IInv
<1>1. /\ UNCHANGED bvars /\ pc[t] = "alloc_wait" /\ phys_lock!Enter(t)
      /\ UNCHANGED <<avail, last_index, used_pages, free_pages, blocks, blk>>
      /\ \/ pc' = [pc EXCEPT ![t] = "panic"] /\ Candidates(blk[t][2]) = {}
         \/ pc' = [pc EXCEPT ![t] = "assert"]
  BY DEF AllocatePanic, AllocateAssert
<1>2. LockInv' /\ inside = {} /\ inside' = {t}
  BY <1>1, EnterLock
<1>3. booted
  BY <1>1 DEF BootInv
<1>4. TypeOK'
  BY <1>1, <1>2, CallTypes DEF TypeOK
<1>5. ScanInv' /\ BootInv'
  BY <1>1, <1>3, BootFrame
<1>6. /\ \A u \in Threads : u # t => pc'[u] = pc[u]
      /\ pc'[t] \in {"panic", "assert"}
      /\ pc'[t] = "panic" => Candidates(blk[t][2]) = {}
  BY <1>1 DEF TypeOK
<1>7. HoldInv'
  BY <1>1, <1>2, <1>6 DEF HoldInv
<1>8. SinglePagePanicMeansFull'
  <2>1. \A p \in avail : p < highest_page
    BY <1>3, Accounts
  <2>2. \A u \in Threads : pc[u] # "panic"
    BY <1>2 DEF HoldInv
  <2>3. pc'[t] = "panic" /\ blk[t][2] = 1 => avail = {}
    BY <1>6, <2>1, NoCandidateForOne
  <2> QED
    BY <1>1, <1>6, <2>2, <2>3 DEF SinglePagePanicMeansFull
<1>9. StatsInv'
  BY <1>1, <1>2, <1>3, <1>6 DEF StatsInv, bvars, ivars
<1>10. EveryPageOnce'
  <2>1. InFlight' = InFlight
    BY <1>1, <1>6 DEF InFlight
  <2> QED
    BY <1>1, <2>1, PagesFrame
<1>11. MarkInv'
  <2>1. \A u \in Threads : pc'[u] # "alloc_mark"
    BY <1>2, <1>6 DEF HoldInv
  <2> QED
    BY <2>1, NoMark
<1> QED
  BY <1>2, <1>4, <1>5, <1>7, <1>8, <1>9, <1>10, <1>11

\* The last part of the guarded region counts the block and hands it over.
LEMMA AllocateReturnIInv ==
    ASSUME IInv, NEW t \in Threads, AllocateReturn(t)
    PROVE  IInv'
<1> USE DEF IInv
<1> DEFINE n == blk[t][2]
<1>1. /\ UNCHANGED bvars /\ pc[t] = "alloc_held" /\ phys_lock!Leave(t)
      /\ UNCHANGED <<avail, last_index>>
      /\ used_pages' = used_pages + n /\ free_pages' = free_pages - n
      /\ blocks' = blocks \cup {blk[t]}
      /\ pc' = [pc EXCEPT ![t] = "idle"]
      /\ blk' = [blk EXCEPT ![t] = NoBlock]
  BY DEF AllocateReturn
<1>2. LockInv' /\ inside = {t} /\ inside' = {}
  BY <1>1, LeaveLock
<1>3. booted
  BY <1>1 DEF BootInv
<1>4. /\ n \in Nat /\ blk[t] \in Nat \X Nat
      /\ used_pages \in Nat /\ free_pages \in Nat /\ usable_pages \in Nat
  BY DEF TypeOK
<1>5. /\ used_pages + free_pages = usable_pages
      /\ free_pages = Cardinality(avail) + n /\ Cardinality(avail) \in Nat
  BY <1>1, <1>2, <1>3, Accounts DEF StatsInv
<1> HIDE DEF n
<1>6. TypeOK'
  <2>1. used_pages' \in Nat /\ free_pages' \in Nat /\ blocks' \subseteq Nat \X Nat
    <3>1. used_pages' \in Nat /\ free_pages' \in Nat
      BY <1>1, <1>4, <1>5
    <3>2. blocks \subseteq Nat \X Nat
      BY DEF TypeOK
    <3> QED
      BY <1>1, <1>4, <3>1, <3>2
  <2>2. /\ blk' \in [Threads -> Nat \X Nat]
        /\ pc' \in [Threads -> {"idle", "alloc_wait", "alloc_mark", "alloc_held", "free_wait",
                               "free_held", "panic", "assert"}]
    BY <1>1 DEF TypeOK, NoBlock
  <2> QED
    BY <1>1, <1>2, <2>1, <2>2, CallTypes DEF TypeOK
<1>7. ScanInv' /\ BootInv' /\ Managed' = Managed /\ booted' = booted
  BY <1>1, <1>3, BootFrame
<1>8. /\ \A u \in Threads : u # t => pc'[u] = pc[u] /\ blk'[u] = blk[u]
      /\ pc'[t] = "idle"
  BY <1>1 DEF TypeOK
<1>9. HoldInv' /\ SinglePagePanicMeansFull'
  BY <1>1, <1>2, <1>8 DEF HoldInv, SinglePagePanicMeansFull
<1>10. StatsInv'
  <2>1. free_pages' = Cardinality(avail')
    BY <1>1, <1>4, <1>5
  <2>2. used_pages' + free_pages' = usable_pages'
    BY <1>1, <1>4, <1>5 DEF bvars, ivars
  <2> QED
    BY <1>2, <2>1, <2>2 DEF StatsInv
<1>11. EveryPageOnce'
  <2>1. /\ InFlight' = InFlight \ {t} /\ t \in InFlight
        /\ InFlight \subseteq Threads
    BY <1>1, <1>8 DEF InFlight
  <2>2. \A u \in InFlight' : Pages(blk'[u]) = Pages(blk[u])
    BY <1>8, <2>1
  <2>3. (UNION {Pages(b) : b \in blocks'}) \cup (UNION {Pages(blk'[u]) : u \in InFlight'}) =
        (UNION {Pages(b) : b \in blocks}) \cup (UNION {Pages(blk[u]) : u \in InFlight})
    BY <1>1, <2>1, <2>2
  <2>4. avail' \cup (UNION {Pages(b) : b \in blocks'})
               \cup (UNION {Pages(blk'[u]) : u \in InFlight'}) = Managed'
    BY <1>1, <1>3, <1>7, <2>3 DEF EveryPageOnce
  <2>5. /\ \A b \in blocks' : Pages(b) \cap avail' = {}
        /\ \A u \in InFlight' : Pages(blk'[u]) \cap avail' = {}
    BY <1>1, <1>3, <2>1, <2>2 DEF EveryPageOnce
  <2>6. \A b, c \in blocks' : b # c => Pages(b) \cap Pages(c) = {}
    BY <1>1, <1>3, <2>1 DEF EveryPageOnce
  <2>7. /\ \A u \in InFlight', b \in blocks' : Pages(blk'[u]) \cap Pages(b) = {}
        /\ \A u, v \in InFlight' : u # v => Pages(blk'[u]) \cap Pages(blk'[v]) = {}
    BY <1>1, <1>3, <2>1, <2>2 DEF EveryPageOnce
  <2> QED
    BY <2>4, <2>5, <2>6, <2>7 DEF EveryPageOnce
<1>12. MarkInv'
  <2>1. \A u \in Threads : pc'[u] # "alloc_mark"
    BY <1>2, <1>8 DEF HoldInv
  <2> QED
    BY <2>1, NoMark
<1> QED
  BY <1>2, <1>6, <1>7, <1>9, <1>10, <1>11, <1>12

-----------------------------------------------------------------------------
(* physical_free() *)

\* The caller gives its block up when it calls.
LEMMA FreeCallIInv ==
    ASSUME IInv, NEW t \in Threads, NEW b \in blocks, FreeCall(t, b)
    PROVE  IInv'
<1> USE DEF IInv
<1>1. /\ booted /\ UNCHANGED bvars /\ pc[t] = "idle" /\ phys_lock!Ask(t)
      /\ UNCHANGED <<avail, last_index, used_pages, free_pages>>
      /\ blocks' = blocks \ {b}
      /\ pc' = [pc EXCEPT ![t] = "free_wait"]
      /\ blk' = [blk EXCEPT ![t] = b]
  BY DEF FreeCall
<1>2. /\ LockInv' /\ inside' = inside /\ inside \subseteq Threads /\ t \notin inside
  <2>1. LockInv'
    BY <1>1, AskLock
  <2> QED
    BY <1>1, <2>1 DEF phys_lock!Ask, LockInv, phys_lock!MutexTypeOK, phys_lock!Line
<1>3. TypeOK'
  BY <1>1, <1>2, CallTypes DEF TypeOK
<1>4. ScanInv' /\ BootInv' /\ Managed' = Managed /\ booted' = booted
  BY <1>1, BootFrame
<1>5. /\ \A u \in Threads : u # t => pc'[u] = pc[u] /\ blk'[u] = blk[u]
      /\ pc'[t] = "free_wait" /\ blk'[t] = b
  BY <1>1 DEF TypeOK
<1>6. HoldInv' /\ SinglePagePanicMeansFull'
  BY <1>1, <1>2, <1>5 DEF HoldInv, SinglePagePanicMeansFull
<1>7. StatsInv'
  BY <1>1, <1>2, <1>5 DEF StatsInv, bvars, ivars
<1>8. EveryPageOnce'
  <2>1. /\ InFlight' = InFlight \cup {t} /\ t \notin InFlight
        /\ InFlight \subseteq Threads
    BY <1>1, <1>5 DEF InFlight
  <2>2. /\ \A u \in InFlight : Pages(blk'[u]) = Pages(blk[u])
        /\ Pages(blk'[t]) = Pages(b)
    BY <1>5, <2>1
  <2>3. (UNION {Pages(c) : c \in blocks'}) \cup (UNION {Pages(blk'[u]) : u \in InFlight'}) =
        (UNION {Pages(c) : c \in blocks}) \cup (UNION {Pages(blk[u]) : u \in InFlight})
    BY <1>1, <2>1, <2>2
  <2>4. avail' \cup (UNION {Pages(c) : c \in blocks'})
               \cup (UNION {Pages(blk'[u]) : u \in InFlight'}) = Managed'
    BY <1>1, <1>4, <2>3 DEF EveryPageOnce
  <2>5. /\ \A c \in blocks' : Pages(c) \cap avail' = {}
        /\ \A u \in InFlight' : Pages(blk'[u]) \cap avail' = {}
    BY <1>1, <2>1, <2>2 DEF EveryPageOnce
  <2>6. \A c, d \in blocks' : c # d => Pages(c) \cap Pages(d) = {}
    BY <1>1 DEF EveryPageOnce
  <2>7. /\ \A u \in InFlight', c \in blocks' : Pages(blk'[u]) \cap Pages(c) = {}
        /\ \A u, v \in InFlight' : u # v => Pages(blk'[u]) \cap Pages(blk'[v]) = {}
    BY <1>1, <2>1, <2>2 DEF EveryPageOnce
  <2> QED
    BY <2>4, <2>5, <2>6, <2>7 DEF EveryPageOnce
<1>9. MarkInv'
  BY <1>1, <1>5, MarkFrame
<1> QED
  BY <1>2, <1>3, <1>4, <1>6, <1>7, <1>8, <1>9

\* The first half of the guarded region clears the bits of the block.
LEMMA FreeClearIInv ==
    ASSUME IInv, NEW t \in Threads, FreeClear(t)
    PROVE  IInv'
<1> USE DEF IInv
<1> DEFINE n == blk[t][2]
<1>1. /\ UNCHANGED bvars /\ pc[t] = "free_wait" /\ phys_lock!Enter(t)
      /\ UNCHANGED <<last_index, used_pages, free_pages, blocks, blk>>
      /\ pc' = [pc EXCEPT ![t] = "free_held"]
      /\ avail' = avail \cup Pages(blk[t])
  BY DEF FreeClear
<1>2. LockInv' /\ inside = {} /\ inside' = {t}
  BY <1>1, EnterLock
<1>3. booted
  BY <1>1 DEF BootInv
<1>4. /\ n \in Nat /\ Pages(blk[t]) \subseteq Nat
      /\ IsFiniteSet(Pages(blk[t])) /\ Cardinality(Pages(blk[t])) = n
  BY WindowPages DEF TypeOK, Pages
<1> HIDE DEF n
<1>5. TypeOK'
  <2>1. avail' \subseteq Nat
    BY <1>1, <1>4 DEF TypeOK
  <2>2. pc' \in [Threads -> {"idle", "alloc_wait", "alloc_mark", "alloc_held", "free_wait",
                            "free_held", "panic", "assert"}]
    BY <1>1 DEF TypeOK
  <2> QED
    BY <1>1, <1>2, <2>1, <2>2, CallTypes DEF TypeOK
<1>6. ScanInv' /\ BootInv' /\ Managed' = Managed /\ booted' = booted
  BY <1>1, <1>3, BootFrame
<1>7. /\ \A u \in Threads : u # t => pc'[u] = pc[u]
      /\ pc'[t] = "free_held"
  BY <1>1 DEF TypeOK
<1>8. HoldInv' /\ SinglePagePanicMeansFull'
  BY <1>1, <1>2, <1>7 DEF HoldInv, SinglePagePanicMeansFull
<1>9. /\ t \in InFlight /\ InFlight' = InFlight \ {t}
  BY <1>1, <1>7 DEF InFlight
<1>10. StatsInv'
  <2>1. avail \cap Pages(blk[t]) = {}
    BY <1>3, <1>9 DEF EveryPageOnce
  <2>2. Cardinality(avail') = Cardinality(avail) + n /\ Cardinality(avail) \in Nat
    BY <1>1, <1>3, <1>4, <2>1, Accounts, CountAddRemove
  <2>3. free_pages' = Cardinality(avail) /\ blk'[t][2] = n
    BY <1>1, <1>2, <1>3 DEF StatsInv, n
  <2>4. used_pages' + free_pages' = usable_pages'
    BY <1>1, <1>3 DEF StatsInv, bvars, ivars
  <2> QED
    BY <1>2, <1>4, <1>7, <2>2, <2>3, <2>4 DEF StatsInv
<1>11. EveryPageOnce'
  <2>1. UNION {Pages(blk[u]) : u \in InFlight} =
            Pages(blk[t]) \cup (UNION {Pages(blk'[u]) : u \in InFlight'})
    BY <1>1, <1>9
  <2>2. avail' \cup (UNION {Pages(b) : b \in blocks'})
               \cup (UNION {Pages(blk'[u]) : u \in InFlight'}) = Managed'
    BY <1>1, <1>3, <1>6, <2>1 DEF EveryPageOnce
  <2>3. /\ \A b \in blocks' : Pages(b) \cap avail' = {}
        /\ \A u \in InFlight' : Pages(blk'[u]) \cap avail' = {}
    BY <1>1, <1>3, <1>9 DEF EveryPageOnce
  <2>4. /\ \A b, c \in blocks' : b # c => Pages(b) \cap Pages(c) = {}
        /\ \A u \in InFlight', b \in blocks' : Pages(blk'[u]) \cap Pages(b) = {}
        /\ \A u, v \in InFlight' : u # v => Pages(blk'[u]) \cap Pages(blk'[v]) = {}
    BY <1>1, <1>3, <1>9 DEF EveryPageOnce
  <2> QED
    BY <2>2, <2>3, <2>4 DEF EveryPageOnce
<1>12. MarkInv'
  <2>1. \A u \in Threads : pc'[u] # "alloc_mark"
    BY <1>2, <1>7 DEF HoldInv
  <2> QED
    BY <2>1, NoMark
<1> QED
  BY <1>2, <1>5, <1>6, <1>8, <1>10, <1>11, <1>12

\* The second half of the guarded region counts the block; no counter goes
\* below zero, because the free pages are some of the usable ones.
LEMMA FreeReturnIInv ==
    ASSUME IInv, NEW t \in Threads, FreeReturn(t)
    PROVE  IInv'
<1> USE DEF IInv
<1> DEFINE n == blk[t][2]
<1>1. /\ UNCHANGED bvars /\ pc[t] = "free_held" /\ phys_lock!Leave(t)
      /\ UNCHANGED <<avail, last_index, blocks>>
      /\ used_pages' = used_pages - n /\ free_pages' = free_pages + n
      /\ pc' = [pc EXCEPT ![t] = "idle"]
      /\ blk' = [blk EXCEPT ![t] = NoBlock]
  BY DEF FreeReturn
<1>2. LockInv' /\ inside = {t} /\ inside' = {}
  BY <1>1, LeaveLock
<1>3. booted
  BY <1>1 DEF BootInv
<1>4. /\ n \in Nat /\ used_pages \in Nat /\ free_pages \in Nat
      /\ usable_pages \in Nat
  BY DEF TypeOK
<1>5. /\ used_pages + free_pages = usable_pages
      /\ Cardinality(avail) = free_pages + n /\ Cardinality(avail) \in Nat
  BY <1>1, <1>2, <1>3, Accounts DEF StatsInv
<1>6. Cardinality(avail) <= usable_pages
  BY <1>3, Accounts, FS_Subset
<1> HIDE DEF n
<1>7. TypeOK'
  <2>1. used_pages' \in Nat /\ free_pages' \in Nat
    BY <1>1, <1>4, <1>5, <1>6
  <2>2. /\ blk' \in [Threads -> Nat \X Nat]
        /\ pc' \in [Threads -> {"idle", "alloc_wait", "alloc_mark", "alloc_held", "free_wait",
                               "free_held", "panic", "assert"}]
    BY <1>1 DEF TypeOK, NoBlock
  <2> QED
    BY <1>1, <1>2, <2>1, <2>2, CallTypes DEF TypeOK
<1>8. ScanInv' /\ BootInv' /\ booted' = booted
  BY <1>1, <1>3, BootFrame
<1>9. /\ \A u \in Threads : u # t => pc'[u] = pc[u] /\ blk'[u] = blk[u]
      /\ pc'[t] = "idle"
  BY <1>1 DEF TypeOK
<1>10. HoldInv' /\ SinglePagePanicMeansFull'
  BY <1>1, <1>2, <1>9 DEF HoldInv, SinglePagePanicMeansFull
<1>11. StatsInv'
  <2>1. free_pages' = Cardinality(avail')
    BY <1>1, <1>4, <1>5
  <2>2. used_pages' + free_pages' = usable_pages'
    BY <1>1, <1>4, <1>5 DEF bvars, ivars
  <2> QED
    BY <1>2, <2>1, <2>2 DEF StatsInv
<1>12. EveryPageOnce'
  <2>1. InFlight' = InFlight /\ t \notin InFlight /\ InFlight \subseteq Threads
    BY <1>1, <1>9 DEF InFlight
  <2> QED
    BY <1>1, <1>9, <2>1, PagesFrame
<1>13. MarkInv'
  <2>1. \A u \in Threads : pc'[u] # "alloc_mark"
    BY <1>2, <1>9 DEF HoldInv
  <2> QED
    BY <2>1, NoMark
<1> QED
  BY <1>2, <1>7, <1>8, <1>10, <1>11, <1>12, <1>13

-----------------------------------------------------------------------------
(* The theorems *)

\* Stuttering keeps the invariant.
LEMMA StutterIInv ==
    ASSUME IInv, UNCHANGED vars
    PROVE  IInv'
<1>1. UNCHANGED bvars /\ UNCHANGED <<pc, blk, avail, blocks, asked, ahead, inside>>
  BY DEF vars, bvars, ivars
<1>2. LockInv'
  BY <1>1 DEF IInv, LockInv, phys_lock!MutexTypeOK, phys_lock!Line
<1>3. TypeOK'
  BY <1>1, <1>2, CallTypes DEF IInv, TypeOK, vars
<1>4. ScanInv' /\ UsableMemory' = UsableMemory
  BY <1>1, BootFrame
<1>5. EveryPageOnce'
  <2>1. InFlight' = InFlight
    BY <1>1 DEF InFlight
  <2> QED
    BY <1>1, <2>1, PagesFrame
<1>6. BootInv' /\ HoldInv' /\ StatsInv' /\ SinglePagePanicMeansFull'
  BY <1>4 DEF IInv, BootInv, HoldInv, StatsInv, SinglePagePanicMeansFull, vars
<1>7. MarkInv'
  BY <1>1, MarkFrame DEF IInv
<1> QED
  BY <1>2, <1>3, <1>4, <1>5, <1>6, <1>7 DEF IInv

\* Every step of the memory manager keeps the invariant.
LEMMA NextIInv ==
    ASSUME IInv, [Next]_vars
    PROVE  IInv'
<1>1. CASE UNCHANGED vars
  BY <1>1, StutterIInv
<1>2. CASE ScanEntry
  BY <1>2, ScanEntryIInv
<1>3. CASE Initialize
  BY <1>3, InitializeIInv
<1>4. ASSUME NEW t \in Threads,
             InitializeAssert(t) \/ Call(t) \/ Proceed(t) \/ Halt(t)
      PROVE  IInv'
  <2>1. CASE InitializeAssert(t)
    BY <2>1, InitializeAssertIInv
  <2>2. CASE Call(t)
    BY <2>2, AllocateCallIInv, FreeCallIInv DEF Call
  <2>3. CASE Proceed(t)
    BY <2>3, AllocateScanIInv, AllocateMarkIInv, StopIInv, AllocateReturnIInv, FreeClearIInv,
       FreeReturnIInv DEF Proceed
  <2>4. CASE Halt(t)
    BY <2>4, StutterIInv DEF Halt
  <2> QED
    BY <1>4, <2>1, <2>2, <2>3, <2>4
<1> QED
  BY <1>1, <1>2, <1>3, <1>4 DEF Next

\* The conjunction holds in every reachable state.
THEOREM Invariance == Spec => []IInv
  BY InitIInv, NextIInv, PTL DEF Spec

\* physical_allocate() and physical_free() hand out no page twice, lose none
\* and never touch the bitmap, on any memory map and for any processors.
THEOREM PagesOwnedOnce == Spec => []EveryPageOnce
  BY Invariance, PTL DEF IInv

\* The types of the state; used_pages and free_pages, unsigned in the code,
\* never wrap below zero.
THEOREM CountersNeverWrap == Spec => []TypeOK
  BY Invariance, PTL DEF IInv

\* phys_stats is exact whenever phys_lock is free.
THEOREM StatsExact == Spec => []StatsAgree
<1>1. IInv => StatsAgree
  <2> SUFFICES ASSUME IInv, booted, inside = {}
               PROVE  /\ free_pages = Cardinality(avail)
                      /\ used_pages + free_pages = Cardinality(UsableMemory)
    BY DEF StatsAgree
  <2> QED
    BY Accounts DEF IInv, StatsInv
<1> QED
  BY <1>1, Invariance, PTL

\* A request for one page panics only when no page is free, wherever the
\* previous scan ended.
THEOREM OnePagePanic == Spec => []SinglePagePanicMeansFull
  BY Invariance, PTL DEF IInv
=============================================================================
