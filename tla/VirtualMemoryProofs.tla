------------------------- MODULE VirtualMemoryProofs -------------------------
(***************************************************************************)
(* virtual_allocate() and virtual_free() of kernel/memory/virtual.cpp for  *)
(* every address range, every set of frames and every request size: no     *)
(* mapping is replaced, a frame is taken for every mapped page, freeing    *)
(* gives back a frame of the range's own, and nullptr is returned only     *)
(* after every start was tried.                                            *)
(***************************************************************************)
EXTENDS VirtualMemory, TLAPS, FiniteSetTheorems

Mapped == {v \in Pages : space[v] # None}

\* What frame f has to do with the ranges in the callers' hands.
OwnFrame(f) == f \in taken /\ \A r \in ranges : r[2] > 0 => space[r[1]] # f

\* The scan: the pages of the range seen so far are not mapped, and every
\* earlier start was given up for a page that is or looks mapped.
ScanInv ==
    pc = "scan" =>
        /\ count \in Counts /\ i < count
        /\ start = Base \/ start + count < Limit
        /\ \A v \in start .. (start + i - 1) : MayBeInvalid(v)
        /\ \A s \in Base .. (start - 1) : \E v \in s .. (s + count - 1) : MayBeValid(v)

\* Mapping: the rest of the range is still unmapped, and its first page has a
\* frame of its own.
MapInv ==
    pc = "map" =>
        /\ count \in Counts /\ i < count /\ start + count <= Limit
        /\ \A v \in (start + i) .. (start + count - 1) : space[v] = None
        /\ i > 0 => OwnFrame(space[start])

\* Freeing: the first page of the range is mapped until it is freed.
FreeInv ==
    pc = "free" =>
        /\ count \in Counts /\ i <= count
        /\ i = 0 /\ count > 0 => OwnFrame(space[start])
        /\ i > 0 => space[start] = None

IInv ==
    /\ TypeOK
    /\ IsFiniteSet(taken)
    /\ FramesOwned
    /\ ScanInv
    /\ MapInv
    /\ FreeInv

-----------------------------------------------------------------------------
(* Ranges, pages and frames *)

\* What the assumptions on the constants amount to.
LEMMA Constants ==
    /\ Base \in Nat /\ Limit \in Nat /\ Base < Limit
    /\ Base \in Pages /\ Pages \subseteq Nat /\ IsFiniteSet(Pages)
    /\ \A n \in Counts : n \in Nat /\ n <= Limit
    /\ Memory \subseteq Nat
    /\ None \notin Nat /\ None \notin Frames
<1>1. Base \in Nat /\ Limit \in Nat /\ Base < Limit /\ Memory \subseteq Nat
  BY RangeOK
<1>2. \A n \in Counts : n \in Nat /\ n <= Limit
  BY RangeOK
<1>3. IsFiniteSet(Base .. (Limit - 1))
  BY <1>1, FS_Interval
<1>4. Base \in Pages /\ Pages \subseteq Nat
  BY <1>1 DEF Pages
<1>5. None \notin Nat
  BY DEF None
<1>6. Frames \subseteq Nat
  BY <1>1 DEF Frames
<1> QED
  BY <1>1, <1>2, <1>3, <1>4, <1>5, <1>6 DEF Pages

\* The frame that virtual_allocate() maps for the k-th page of a range.
LEMMA FrameType ==
    ASSUME NEW f \in Memory, NEW k \in Nat, NEW n \in Counts, k < n, TypeOK, start + n <= Limit
    PROVE  f + k \in Frames /\ f + k # None
<1>1. k \in 0 .. Limit - Base - 1
  BY Constants DEF TypeOK, Pages
<1>2. f + k \in Frames
  BY <1>1 DEF Frames
<1> QED
  BY <1>2, Constants

\* What lies in a range that ends at the limit.
LEMMA RangeHolds ==
    ASSUME NEW s \in Pages, NEW n \in Nat, NEW k \in Nat, k < n, s + n <= Limit
    PROVE  s + k \in Pages /\ k \in 0 .. Limit - Base - 1
<1>1. Base \in Nat /\ Limit \in Nat /\ s \in Nat /\ Base <= s
  BY Constants DEF Pages
<1>2. s + k <= Limit - 1 /\ k <= Limit - Base - 1 /\ Base <= s + k
  BY <1>1
<1> QED
  BY <1>1, <1>2 DEF Pages

\* A page of a range that lies below the limit.
LEMMA PageInRange ==
    ASSUME TypeOK, NEW n \in Counts, start + n <= Limit, NEW k \in Nat, k < n
    PROVE  start + k \in Pages /\ start \in Nat
  BY Constants DEF TypeOK, Pages

\* Mapping a page that was not mapped makes one more mapped page.
LEMMA MapCounts ==
    ASSUME TypeOK, NEW v \in Pages, space[v] = None, NEW f, f # None,
           space' = [space EXCEPT ![v] = f]
    PROVE  Cardinality(Mapped') = Cardinality(Mapped) + 1
<1>1. Mapped' = Mapped \cup {v} /\ v \notin Mapped
  BY DEF Mapped, TypeOK
<1>2. IsFiniteSet(Mapped)
  BY Constants, FS_Subset DEF Mapped
<1> QED
  BY <1>1, <1>2, FS_AddElement

\* Unmapping a mapped page makes one less.
LEMMA UnmapCounts ==
    ASSUME TypeOK, NEW v \in Pages, space[v] # None,
           space' = [space EXCEPT ![v] = None]
    PROVE  /\ Cardinality(Mapped') = Cardinality(Mapped) - 1
           /\ Cardinality(Mapped) \in Nat
<1>1. Mapped' = Mapped \ {v} /\ v \in Mapped
  BY DEF Mapped, TypeOK
<1>2. IsFiniteSet(Mapped)
  BY Constants, FS_Subset DEF Mapped
<1> QED
  BY <1>1, <1>2, FS_RemoveElement, FS_CardinalityType

\* The first pages of the ranges are mapped.
LEMMA RangesMapped ==
    ASSUME IInv
    PROVE  \A r \in ranges : r[2] > 0 => r[1] \in Pages /\ space[r[1]] # None
<1>1. SUFFICES ASSUME NEW r \in ranges, r[2] > 0 PROVE r[1] \in Pages /\ space[r[1]] # None
  OBVIOUS
<1>2. space[r[1]] \in Memory
  BY <1>1 DEF IInv, FramesOwned, TypeOK
<1> QED
  BY <1>1, <1>2, Constants DEF IInv, TypeOK

\* A step that changes neither the pagemap, the bitmap nor the ranges.
LEMMA OwnedFrame ==
    ASSUME IInv, UNCHANGED <<space, taken, ranges>>
    PROVE  /\ FramesOwned' /\ IsFiniteSet(taken')
           /\ \A f : OwnFrame(f)' <=> OwnFrame(f)
  BY DEF IInv, FramesOwned, OwnFrame

-----------------------------------------------------------------------------
(* virtual_allocate() *)

\* The initial state satisfies the invariant.
LEMMA InitIInv == Init => IInv
<1> SUFFICES ASSUME Init PROVE IInv
  OBVIOUS
<1>1. TypeOK
  BY Constants DEF Init, TypeOK
<1>2. Mapped = {}
  BY DEF Init, Mapped
<1>3. FramesOwned /\ IsFiniteSet(taken)
  BY <1>2, FS_EmptySet DEF Init, FramesOwned, Mapped
<1> QED
  BY <1>1, <1>3 DEF Init, IInv, ScanInv, MapInv, FreeInv

\* A call starts to scan at the base of the range.
LEMMA AllocateIInv ==
    ASSUME IInv, NEW n \in Counts, Allocate(n)
    PROVE  IInv'
<1> USE DEF IInv
<1>1. TypeOK'
  BY Constants DEF TypeOK, Allocate
<1>2. FramesOwned' /\ IsFiniteSet(taken')
  BY OwnedFrame DEF Allocate
<1>3. ScanInv' /\ MapInv' /\ FreeInv'
  BY Constants DEF Allocate, ScanInv, MapInv, FreeInv
<1> QED
  BY <1>1, <1>2, <1>3

\* An empty range owns nothing.
LEMMA AllocateNothingIInv ==
    ASSUME IInv, NEW n \in Counts, AllocateNothing(n)
    PROVE  IInv'
<1> USE DEF IInv
<1>1. /\ n = 0 /\ pc = "idle" /\ ranges' = ranges \cup {<<Base, n>>}
      /\ UNCHANGED <<space, taken, pc, start, i, count>>
  BY DEF AllocateNothing
<1>2. TypeOK'
  BY <1>1, Constants DEF TypeOK
<1>3. FramesOwned'
  <2>1. \A r \in ranges' : r \in ranges \/ (r[1] = Base /\ r[2] = 0)
    <3> TAKE r \in ranges'
    <3>1. CASE r \notin ranges
      <4>1. r = <<Base, 0>>
        BY <1>1, <3>1
      <4> QED
        BY <4>1
    <3> QED
      BY <3>1
  <2>2. /\ \A r \in ranges' : r[1] + r[2] <= Limit
        /\ \A r \in ranges' : r[2] > 0 => r \in ranges
    BY <2>1, Constants DEF FramesOwned
  <2> QED
    BY <1>1, <2>2 DEF FramesOwned
<1> QED
  BY <1>1, <1>2, <1>3 DEF ScanInv, MapInv, FreeInv

\* One more page of the range is not mapped; after the last, none of it is.
LEMMA ScanFreeIInv ==
    ASSUME IInv, ScanFree
    PROVE  IInv'
<1> USE DEF IInv
<1>1. /\ pc = "scan" /\ MayBeInvalid(start + i)
      /\ UNCHANGED <<space, taken, ranges, start, count>>
      /\ count \in Counts /\ i < count /\ (start = Base \/ start + count < Limit)
      /\ i \in Nat /\ start \in Nat /\ count \in Nat
  BY Constants DEF ScanFree, ScanInv, TypeOK
<1>2. FramesOwned' /\ IsFiniteSet(taken')
  BY <1>1, OwnedFrame
<1>3. \A v \in start .. (start + i) : MayBeInvalid(v)
  BY <1>1 DEF ScanInv
<1>4. CASE i + 1 < count
  <2>1. pc' = "scan" /\ i' = i + 1
    BY <1>1, <1>4 DEF ScanFree
  <2>2. TypeOK'
    BY <1>1, <1>4, <2>1, Constants DEF TypeOK
  <2>3. \A v \in start' .. (start' + i' - 1) : MayBeInvalid(v)'
    BY <1>1, <1>3, <2>1 DEF MayBeInvalid
  <2>4. ScanInv'
    BY <1>1, <1>4, <2>1, <2>3 DEF ScanInv, MayBeValid
  <2> QED
    BY <1>2, <2>1, <2>2, <2>4 DEF MapInv, FreeInv
<1>5. CASE ~(i + 1 < count)
  <2>1. pc' = "map" /\ i' = 0 /\ i + 1 = count
    BY <1>1, <1>5 DEF ScanFree
  <2>2. TypeOK'
    BY <1>1, <2>1, Constants DEF TypeOK
  <2>3. \A v \in (start' + i') .. (start' + count' - 1) : space'[v] = None
    BY <1>1, <1>3, <2>1 DEF MayBeInvalid
  <2>4. MapInv'
    <3>1. start + count <= Limit
      BY <1>1, <2>1, Constants DEF MayBeInvalid, Pages
    <3> QED
      BY <1>1, <2>1, <2>3, <3>1 DEF MapInv
  <2> QED
    BY <1>2, <2>1, <2>2, <2>4 DEF ScanInv, FreeInv
<1> QED
  BY <1>4, <1>5

\* A mapped page rules this start out.
LEMMA ScanUsedIInv ==
    ASSUME IInv, ScanUsed
    PROVE  IInv'
<1> USE DEF IInv
<1>1. /\ pc = "scan" /\ pc' = "scan" /\ MayBeValid(start + i)
      /\ start + 1 < Limit - count /\ start' = start + 1 /\ i' = 0
      /\ UNCHANGED <<space, taken, ranges, count>>
      /\ count \in Counts /\ i < count
      /\ i \in Nat /\ start \in Nat /\ count \in Nat /\ 0 < count
      /\ Base <= start
  BY Constants DEF ScanUsed, ScanInv, TypeOK, Pages
<1>2. FramesOwned' /\ IsFiniteSet(taken')
  BY <1>1, OwnedFrame
<1>3. TypeOK'
  BY <1>1, Constants DEF TypeOK, Pages
<1>4. start + i \in start .. (start + count - 1)
  BY <1>1
<1>5. \A s \in Base .. start : \E v \in s .. (s + count - 1) : MayBeValid(v)
  <2>1. TAKE s \in Base .. start
  <2>2. CASE s = start
    BY <2>2, <1>1, <1>4
  <2>3. CASE s # start
    <3>1. s \in Base .. (start - 1)
      BY <2>1, <2>3, <1>1, Constants
    <3> QED
      BY <3>1, <1>1 DEF ScanInv
  <2> QED
    BY <2>2, <2>3
<1>6. ScanInv'
  <2>1. \A s \in Base .. (start' - 1) : \E v \in s .. (s + count' - 1) : MayBeValid(v)'
    <3>1. start' - 1 = start /\ count' = count /\ space' = space
      BY <1>1
    <3> QED
      BY <1>5, <3>1 DEF MayBeValid
  <2>2. \A v \in start' .. (start' + i' - 1) : MayBeInvalid(v)'
    BY <1>1
  <2> QED
    BY <1>1, <2>1, <2>2, Constants DEF ScanInv
<1> QED
  BY <1>1, <1>2, <1>3, <1>6 DEF MapInv, FreeInv

\* A call that returns leaves an idle processor.
LEMMA ReturnIInv ==
    ASSUME IInv, Return, UNCHANGED <<space, taken, ranges>>
    PROVE  IInv'
<1>1. TypeOK'
  BY Constants DEF IInv, TypeOK, Return
<1> QED
  BY <1>1, OwnedFrame DEF IInv, Return, ScanInv, MapInv, FreeInv

\* physical_allocate() and map_page() for one page of the range.
LEMMA MapNextIInv ==
    ASSUME IInv, MapNext
    PROVE  IInv'
<1> USE DEF IInv
<1>1. /\ pc = "map" /\ count \in Counts /\ i < count /\ start + count <= Limit
      /\ i \in Nat /\ start \in Pages /\ count \in Nat
      /\ \A v \in (start + i) .. (start + count - 1) : space[v] = None
  BY Constants DEF MapNext, MapInv, TypeOK
<1>2. PICK f \in Memory \ taken :
          /\ taken' = taken \cup {f}
          /\ space' = [space EXCEPT ![start + i] = f + i]
  BY DEF MapNext
<1>3. start + i \in Pages /\ start \in Nat
  BY <1>1, PageInRange
<1>4. f + i \in Frames /\ f + i # None
  BY <1>1, <1>2, FrameType
<1>5. space[start + i] = None
  BY <1>1, <1>3
<1>6. /\ space'[start + i] = f + i
      /\ \A v \in Pages : v # start + i => space'[v] = space[v]
  BY <1>2, <1>3 DEF TypeOK
<1>7. /\ space' \in [Pages -> Frames \cup {None}]
      /\ taken' \subseteq Memory /\ IsFiniteSet(taken')
  BY <1>2, <1>3, <1>4, FS_AddElement DEF TypeOK
<1>8. Cardinality(taken') = Cardinality(Mapped')
  <2>1. Cardinality(taken') = Cardinality(taken) + 1
    BY <1>2, FS_AddElement
  <2>2. Cardinality(Mapped') = Cardinality(Mapped) + 1
    BY <1>2, <1>3, <1>4, <1>5, MapCounts
  <2> QED
    BY <2>1, <2>2 DEF FramesOwned, Mapped
<1>9. \A r \in ranges : r[2] > 0 => /\ space'[r[1]] = space[r[1]]
                                     /\ space[r[1]] \in taken
  BY <1>5, <1>6, RangesMapped DEF FramesOwned
<1>10. /\ space'[start] \in taken'
       /\ \A r \in ranges : r[2] > 0 => space'[r[1]] # space'[start]
  <2>1. CASE i = 0
    <3>1. space'[start] = f
      BY <1>1, <1>2, <1>3, <1>6, <2>1, Constants
    <3> QED
      BY <1>2, <1>9, <3>1
  <2>2. CASE i # 0
    <3>1. OwnFrame(space[start]) /\ start # start + i
      BY <1>1, <1>3, <2>2 DEF MapInv
    <3>2. space'[start] = space[start]
      BY <1>1, <1>6, <3>1
    <3> QED
      BY <1>2, <1>9, <3>1, <3>2 DEF OwnFrame
  <2> QED
    BY <2>1, <2>2
<1>11. CASE i + 1 < count
  <2>1. i' = i + 1 /\ UNCHANGED <<pc, start, count, ranges>>
    BY <1>11 DEF MapNext
  <2>2. TypeOK'
    BY <1>1, <1>7, <1>11, <2>1, Constants DEF TypeOK
  <2>3. FramesOwned'
    BY <1>2, <1>8, <1>9, <2>1 DEF FramesOwned, Mapped
  <2>4. \A v \in (start' + i') .. (start' + count' - 1) : space'[v] = None
    <3>1. TAKE v \in (start' + i') .. (start' + count' - 1)
    <3>2. v \in (start + i) .. (start + count - 1) /\ v # start + i /\ v \in Pages
      BY <3>1, <2>1, <1>1, <1>3, Constants DEF Pages
    <3> QED
      BY <3>2, <1>1, <1>6
  <2>5. MapInv'
    BY <1>1, <1>10, <1>11, <2>1, <2>4 DEF MapInv, OwnFrame
  <2> QED
    BY <1>1, <1>7, <2>1, <2>2, <2>3, <2>5 DEF ScanInv, FreeInv
<1>12. CASE ~(i + 1 < count)
  <2>1. ranges' = ranges \cup {<<start, count>>} /\ Return
    BY <1>12 DEF MapNext
  <2>2. TypeOK'
    <3>1. ranges' \subseteq Pages \X Counts
      BY <1>1, <2>1 DEF TypeOK
    <3> QED
      BY <1>7, <2>1, <3>1, Constants DEF TypeOK, Return
  <2>3. FramesOwned'
    <3>1. \A r \in ranges' : r[2] > 0 => space'[r[1]] \in taken'
      BY <1>2, <1>9, <1>10, <2>1
    <3>2. \A r, s \in ranges' : r # s /\ r[2] > 0 /\ s[2] > 0 => space'[r[1]] # space'[s[1]]
      BY <1>9, <1>10, <2>1 DEF FramesOwned
    <3>3. \A r \in ranges' : r[1] + r[2] <= Limit
      BY <1>1, <2>1 DEF FramesOwned
    <3> QED
      BY <1>8, <3>1, <3>2, <3>3 DEF FramesOwned, Mapped
  <2> QED
    BY <1>7, <2>1, <2>2, <2>3 DEF Return, ScanInv, MapInv, FreeInv
<1> QED
  BY <1>11, <1>12

\* physical_allocate() stops the kernel.
LEMMA MapPanicIInv ==
    ASSUME IInv, MapPanic
    PROVE  IInv'
<1>1. TypeOK'
  BY DEF IInv, TypeOK, MapPanic
<1> QED
  BY <1>1, OwnedFrame DEF IInv, MapPanic, ScanInv, MapInv, FreeInv

-----------------------------------------------------------------------------
(* virtual_free() *)

\* The owner gives its range up.
LEMMA FreeIInv ==
    ASSUME IInv, NEW r \in ranges, Free(r)
    PROVE  IInv'
<1> USE DEF IInv
<1>1. /\ ranges' = ranges \ {r} /\ pc' = "free" /\ start' = r[1] /\ i' = 0
      /\ count' = r[2] /\ UNCHANGED <<space, taken>>
  BY DEF Free
<1>2. r[1] \in Pages /\ r[2] \in Counts
  BY DEF TypeOK
<1>3. TypeOK'
  BY <1>1, <1>2, Constants DEF TypeOK
<1>4. FramesOwned' /\ IsFiniteSet(taken')
  BY <1>1 DEF FramesOwned
<1>5. FreeInv'
  BY <1>1, <1>2, Constants DEF FreeInv, OwnFrame, FramesOwned
<1> QED
  BY <1>1, <1>3, <1>4, <1>5 DEF ScanInv, MapInv

\* unmap_page() and physical_free() of the first page of the range.
LEMMA FreeNextIInv ==
    ASSUME IInv, FreeNext
    PROVE  IInv'
<1> USE DEF IInv
<1>1. /\ pc = "free" /\ i < count /\ space[start] # None
      /\ space' = [space EXCEPT ![start] = None]
      /\ taken' = taken \ {space[start]} /\ i' = i + 1
      /\ UNCHANGED <<ranges, pc, start, count>>
      /\ count \in Counts /\ count \in Nat /\ i \in Nat /\ start \in Pages
  BY Constants DEF FreeNext, FreeInv, TypeOK
<1>2. OwnFrame(space[start])
  BY <1>1 DEF FreeInv
<1>3. /\ space'[start] = None
      /\ \A v \in Pages : v # start => space'[v] = space[v]
  BY <1>1 DEF TypeOK
<1>4. TypeOK'
  <2>1. space' \in [Pages -> Frames \cup {None}] /\ taken' \subseteq Memory
    BY <1>1 DEF TypeOK
  <2> QED
    BY <1>1, <2>1, Constants DEF TypeOK
<1>5. FramesOwned' /\ IsFiniteSet(taken')
  <2>1. /\ Cardinality(taken') = Cardinality(taken) - 1
        /\ IsFiniteSet(taken')
    BY <1>1, <1>2, FS_RemoveElement DEF OwnFrame
  <2>2. Cardinality(Mapped') = Cardinality(Mapped) - 1
    BY <1>1, UnmapCounts
  <2>3. \A r \in ranges : r[2] > 0 => /\ space'[r[1]] = space[r[1]]
                                       /\ space[r[1]] # space[start]
    BY <1>2, <1>3, RangesMapped DEF OwnFrame
  <2> QED
    BY <1>1, <2>1, <2>2, <2>3 DEF FramesOwned, Mapped
<1>6. FreeInv'
  BY <1>1, <1>3 DEF FreeInv
<1> QED
  BY <1>1, <1>4, <1>5, <1>6 DEF ScanInv, MapInv

-----------------------------------------------------------------------------
(* The theorems *)

\* Every step keeps the invariant.
LEMMA NextIInv ==
    ASSUME IInv, [Next]_vars
    PROVE  IInv'
<1>1. CASE UNCHANGED vars
  <2>1. TypeOK'
    BY <1>1 DEF IInv, TypeOK, vars
  <2> QED
    BY <1>1, <2>1, OwnedFrame DEF IInv, vars, ScanInv, MapInv, FreeInv, MayBeValid, MayBeInvalid
<1>2. CASE Call
  BY <1>2, AllocateIInv, AllocateNothingIInv, FreeIInv DEF Call
<1>3. CASE Proceed
  <2>1. CASE ScanEnds \/ FreeEnds
    BY <2>1, ReturnIInv DEF ScanEnds, FreeEnds
  <2> QED
    BY <1>3, <2>1, ScanFreeIInv, ScanUsedIInv, MapNextIInv, MapPanicIInv,
       FreeNextIInv DEF Proceed
<1> QED
  BY <1>1, <1>2, <1>3 DEF Next, Halt

\* The conjunction holds in every reachable state.
THEOREM Invariance == Spec => []IInv
  BY InitIInv, NextIInv, PTL DEF Spec

\* The state has its types: no page outside the range is looked at or mapped.
THEOREM VirtualTypes == Spec => []TypeOK
  BY Invariance, PTL DEF IInv

\* One frame is taken for every mapped page, and the first page of every range
\* has a frame that no other range frees.
THEOREM FramesAccounted == Spec => []FramesOwned
  BY Invariance, PTL DEF IInv

\* virtual_allocate() replaces no mapping.
THEOREM MappingsStay == Spec => NeverRemaps
<1>1. ASSUME IInv, [Next]_vars, NEW v \in Pages, space[v] # None
      PROVE  space'[v] \in {space[v], None}
  <2>1. CASE MapNext
    <3>1. PICK f \in Memory \ taken : space' = [space EXCEPT ![start + i] = f + i]
      BY <2>1 DEF MapNext
    <3>2. count \in Counts /\ i < count /\ i \in Nat /\ start + count <= Limit
          /\ count \in Nat
      BY <1>1, <2>1, Constants DEF IInv, TypeOK, MapInv, MapNext
    <3>3. start + i \in Pages /\ start \in Nat
      BY <1>1, <3>2, PageInRange DEF IInv
    <3>4. start + i \in (start + i) .. (start + count - 1)
      BY <3>2, <3>3
    <3>5. space[start + i] = None
      BY <1>1, <2>1, <3>4 DEF IInv, MapInv, MapNext
    <3> QED
      BY <1>1, <3>1, <3>5 DEF IInv, TypeOK
  <2>2. CASE FreeNext
    BY <1>1, <2>2 DEF FreeNext, IInv, TypeOK
  <2>3. CASE UNCHANGED space
    BY <2>3
  <2> QED
    BY <1>1, <2>1, <2>2, <2>3 DEF Next, Call, Proceed, Halt, vars, Allocate,
       AllocateNothing, Free, ScanFree, ScanUsed, ScanEnds, MapPanic, FreeEnds
<1>2. IInv /\ [Next]_vars =>
        [\A v \in Pages : space[v] # None => space'[v] \in {space[v], None}]_vars
  BY <1>1
<1> QED
  BY <1>2, Invariance, PTL DEF Spec, NeverRemaps

\* virtual_allocate() gives up only after every start was ruled out by a page
\* that is mapped or looks so, or by the kernel's image.
THEOREM NullIsHonest == Spec => NullMeansNoRange
<1>1. ASSUME IInv, [Next]_vars, pc = "scan", pc' = "idle",
             NEW s \in {Base} \cup (Base .. (Limit - count - 1))
      PROVE  \E v \in s .. (s + count - 1) : MayBeValid(v)
  <2>1. ScanEnds
    BY <1>1 DEF Next, Call, Proceed, Halt, vars, Allocate, AllocateNothing, Free, ScanFree,
       ScanUsed, MapNext, MapPanic, FreeNext, FreeEnds, Return
  <2>2. /\ count \in Nat /\ i \in Nat /\ i < count /\ start \in Nat /\ s \in Nat
        /\ MayBeValid(start + i) /\ start + 1 >= Limit - count
        /\ Base <= s /\ (s = Base \/ s <= Limit - count - 1) /\ Base <= start
    BY <1>1, <2>1, Constants DEF IInv, TypeOK, ScanInv, ScanEnds, Pages
  <2>3. CASE s < start
    <3>1. s \in Base .. (start - 1)
      BY <2>2, <2>3, Constants
    <3> QED
      BY <1>1, <3>1 DEF IInv, ScanInv
  <2>4. CASE s >= start
    <3>1. s = start
      BY <2>2, <2>4, Constants
    <3>2. start + i \in s .. (s + count - 1)
      BY <2>2, <3>1
    <3> QED
      BY <2>2, <3>2
  <2> QED
    BY <2>2, <2>3, <2>4
<1>2. IInv /\ [Next]_vars =>
        [pc = "scan" /\ pc' = "idle" =>
            \A s \in {Base} \cup (Base .. (Limit - count - 1)) :
                \E v \in s .. (s + count - 1) : MayBeValid(v)]_vars
  BY <1>1
<1> QED
  BY <1>2, Invariance, PTL DEF Spec, NullMeansNoRange

\* What the calls ask of the pagemap next is inside the range.
LEMMA RequestMine ==
    ASSUME TypeOK', MapInv'
    PROVE  pagemap!Mine(Boot, Request')
<1>1. CASE pc' = "map"
  <2> DEFINE fs == {f + i' : f \in Memory \ taken'}
             r == [op |-> "map", page |-> start' + i', frames |-> fs, readable |-> TRUE]
  <2> HIDE DEF fs
  <2>1. /\ count' \in Counts /\ i' < count' /\ i' \in Nat /\ start' + count' <= Limit
        /\ start' \in Pages /\ count' \in Nat
    BY <1>1, Constants DEF MapInv, TypeOK
  <2>2. start' + i' \in Pages /\ i' \in 0 .. Limit - Base - 1
    BY <2>1, RangeHolds
  <2>3. fs \subseteq Frames
    BY <2>2 DEF Frames, fs
  <2>4. Request' = r
    BY <1>1 DEF Request, fs
  <2>5. r \in pagemap!Requests
    BY <2>2, <2>3 DEF pagemap!Requests
  <2> QED
    BY <2>2, <2>3, <2>4, <2>5 DEF pagemap!Mine
<1>2. CASE pc' = "free"
  BY <1>2 DEF Request, pagemap!Mine, pagemap!Requests, TypeOK
<1>3. CASE pc' \notin {"map", "free"}
  BY <1>3 DEF Request, pagemap!Mine, pagemap!NoRequest
<1> QED
  BY <1>1, <1>2, <1>3

\* What the virtual memory manager does to the pagemap is what AddressSpace
\* allows: a step maps the page it has come to, to a frame made of one that is
\* free, or unmaps the page being freed, or leaves every page alone.
THEOREM UsesPageMap == Spec => pagemap!Spec
<1> DEFINE hidden == [v \in Pages |-> None]
           request == [t \in {Boot} |-> Request]
<1>1. Init => pagemap!Init
  BY DEF Init, pagemap!Init, pagemap!NoRequest, Request
<1>2. IInv /\ [Next]_vars => [pagemap!Next]_(pagemap!vars)
  <2> SUFFICES ASSUME IInv, [Next]_vars
               PROVE  pagemap!Next \/ UNCHANGED pagemap!vars
    OBVIOUS
  <2>1. pagemap!GoOn(Boot)
    <3>1. IInv'
      BY NextIInv
    <3>2. pagemap!Mine(Boot, Request')
      BY <3>1, RequestMine DEF IInv
    <3>3. request'[Boot] = Request' /\ request' = [request EXCEPT ![Boot] = Request']
      OBVIOUS
    <3> QED
      BY <3>2, <3>3 DEF pagemap!GoOn
  <2>2. hidden' = hidden /\ hidden = [hidden EXCEPT ![start] = None]
                         /\ hidden = [hidden EXCEPT ![start + i] = None]
    BY DEF IInv, TypeOK
  <2>3. CASE UNCHANGED space
    BY <2>1, <2>2, <2>3 DEF pagemap!Next, pagemap!Ask
  <2>4. CASE MapNext
    <3>1. PICK f \in Memory \ taken : space' = [space EXCEPT ![start + i] = f + i]
      BY <2>4 DEF MapNext
    <3>2. /\ request[Boot].op = "map" /\ request[Boot].page = start + i
          /\ f + i \in request[Boot].frames
      BY <2>4, <3>1 DEF MapNext, Request
    <3>3. pagemap!Put(Boot, f + i, None)
      BY <2>2, <3>1, <3>2 DEF pagemap!Put
    <3>4. pagemap!Map(Boot)
      BY <2>1, <3>2, <3>3 DEF pagemap!Map
    <3> QED
      BY <3>4 DEF pagemap!Next
  <2>5. CASE FreeNext
    <3>1. /\ request[Boot].op = "unmap" /\ request[Boot].page = start
          /\ space' = [space EXCEPT ![start] = None]
      BY <2>5 DEF FreeNext, Request
    <3>2. pagemap!Put(Boot, None, None)
      BY <2>2, <3>1 DEF pagemap!Put
    <3>3. pagemap!Unmap(Boot)
      BY <2>1, <3>1, <3>2 DEF pagemap!Unmap
    <3> QED
      BY <3>3 DEF pagemap!Next
  <2> QED
    BY <2>3, <2>4, <2>5 DEF Next, Call, Proceed, Halt, vars, Allocate, AllocateNothing,
       Free, ScanFree, ScanUsed, ScanEnds, MapPanic, FreeEnds
<1> QED
  BY <1>1, <1>2, Invariance, PTL DEF Spec, pagemap!Spec
=============================================================================
