---------------------------- MODULE BuddyProofs ----------------------------
(***************************************************************************)
(* The buddy tree stays consistent, for trees and arenas of every size and *)
(* whatever addresses are freed; and what the consistent tree means: the   *)
(* marks in it are the blocks the callers own and the slots past the       *)
(* arena, blocks never overlap, a status tells how much room there is, and *)
(* a stray free finds nothing.                                             *)
(***************************************************************************)
EXTENDS Buddy, TLAPS, NaturalsInduction, WellFoundedInduction

\* Callers only own blocks that are positions of the tree.
LiveAreBlocks == live \subseteq {BlockOf(p) : p \in Nodes}

\* TreeConsistent alone is not inductive: a mark or a release is harmless
\* only at a position whose children are free, and that is what the loops
\* that find the position establish.
IInv == TypeOK /\ TreeConsistent /\ LoopInvariant /\ LiveAreBlocks

USE DEF IsLeaf

\* The family relations of tree positions.
LEMMA Family ==
    ASSUME NEW p \in Nodes
    PROVE  /\ p \in Nat /\ p >= 1 /\ LocalOffset(p) \in 1 .. Order
           /\ p # 1 => /\ Parent(p) \in Nodes /\ Parent(p) < p
                       /\ Parent(p) < FirstLeaf
                       /\ p = 2 * Parent(p) \/ p = 2 * Parent(p) + 1
           /\ p < FirstLeaf =>
                 /\ 2 * p \in Nodes /\ 2 * p + 1 \in Nodes
                 /\ DepthOf[p] < Order
                 /\ LocalOffset(2 * p) = LocalOffset(p) - 1
                 /\ LocalOffset(2 * p + 1) = LocalOffset(p) - 1
                 /\ Parent(2 * p) = p /\ Parent(2 * p + 1) = p
<1>1. p \in Nat /\ p >= 1 /\ LocalOffset(p) \in 1 .. Order
  BY TreeOK DEF Nodes, LocalOffset
<1>2. ASSUME p # 1
      PROVE  /\ Parent(p) \in Nodes /\ Parent(p) < p /\ Parent(p) < FirstLeaf
             /\ p = 2 * Parent(p) \/ p = 2 * Parent(p) + 1
  BY <1>1, <1>2, TreeOK DEF Nodes, Parent
<1>3. ASSUME p < FirstLeaf
      PROVE  /\ 2 * p \in Nodes /\ 2 * p + 1 \in Nodes
             /\ Parent(2 * p) = p /\ Parent(2 * p + 1) = p
  BY <1>1, <1>3, TreeOK DEF Nodes, Parent
<1>4. ASSUME p < FirstLeaf
      PROVE  /\ DepthOf[p] < Order
             /\ LocalOffset(2 * p) = LocalOffset(p) - 1
             /\ LocalOffset(2 * p + 1) = LocalOffset(p) - 1
  <2>1. DepthOf[2 * p] = DepthOf[p] + 1 /\ DepthOf[2 * p + 1] = DepthOf[p] + 1
    BY <1>4, TreeOK
  <2>2. DepthOf[p] \in 1 .. Order /\ DepthOf[2 * p] \in 1 .. Order /\ Order \in Nat
    BY <1>3, <1>4, TreeOK
  <2> QED
    BY <2>1, <2>2 DEF LocalOffset
<1> QED
  BY <1>1, <1>2, <1>3, <1>4

\* A free position has free children.
LEMMA FreeBelow ==
    ASSUME TypeOK, NEW p \in Nodes, p < FirstLeaf, NodeConsistent(p), st[p] = 0
    PROVE  st[2 * p] = 0 /\ st[2 * p + 1] = 0
<1>1. st[2 * p] \in Nat /\ st[2 * p + 1] \in Nat
  BY Family DEF TypeOK
<1> QED
  BY <1>1 DEF NodeConsistent, Smaller, Left, Right

\* Setting a position over free children to free or full leaves only its
\* parent to be repaired.
LEMMA WriteConsistent ==
    ASSUME TypeOK, TreeConsistent, pc # "climb",
           NEW p \in Nodes, NEW v \in {0, LocalOffset(p)},
           p < FirstLeaf => st[2 * p] = 0 /\ st[2 * p + 1] = 0,
           Write(p, v)
    PROVE  TreeConsistent' /\ st' \in [Nodes -> 0 .. Order]
           /\ pos' \in Nodes /\ pc' = "climb"
           /\ \A q \in Nodes : st'[q] <= LocalOffset(q)
<1>1. \A q \in Nodes : st'[q] = IF q = p THEN v ELSE st[q]
  BY DEF Write, TypeOK
<1>2. ASSUME NEW q \in Nodes, q < FirstLeaf, ~(p # 1 /\ q = Parent(p))
      PROVE  NodeConsistent(q)'
  <2>1. 2 * q # p /\ 2 * q + 1 # p
    BY <1>2, Family
  <2>2. st'[2 * q] = st[2 * q] /\ st'[2 * q + 1] = st[2 * q + 1]
    BY <1>1, <1>2, <2>1, Family
  <2>3. CASE q = p
    <3>1. st'[q] \in {0, LocalOffset(q)}
      BY <1>1, <2>3
    <3>2. st'[2 * q] = 0 /\ st'[2 * q + 1] = 0
      BY <1>2, <2>2, <2>3
    <3> QED
      BY <3>1, <3>2 DEF NodeConsistent, Left, Right, LocalOffset
  <2>4. CASE q # p
    <3>1. NodeConsistent(q)
      BY <1>2, Family, TreeOK DEF TreeConsistent
    <3>2. st'[q] = st[q]
      BY <1>1, <2>4
    <3> QED
      BY <2>2, <3>1, <3>2 DEF NodeConsistent, Left, Right, LocalOffset, Smaller
  <2> QED
    BY <2>3, <2>4
<1>3. TreeConsistent'
  BY <1>2, Family, TreeOK DEF TreeConsistent, Write
<1>4. v \in 0 .. Order /\ v <= LocalOffset(p)
  BY Family, TreeOK
<1> QED
  BY <1>1, <1>3, <1>4 DEF Write, TypeOK

\* The room test of buddy_tree_find_free picks a child with room.
LEMMA PreferredHasRoom ==
    ASSUME TypeOK, NEW p \in Nodes, p < FirstLeaf, NodeConsistent(p),
           NEW room \in Nat, st[p] <= room + 1
    PROVE  /\ PreferredChild(p, room) \in {2 * p, 2 * p + 1}
           /\ st[PreferredChild(p, room)] <= room
<1>1. st[2 * p] \in Nat /\ st[2 * p + 1] \in Nat /\ st[p] \in Nat
  BY Family DEF TypeOK
<1>2. st[2 * p] <= room \/ st[2 * p + 1] <= room
  BY <1>1 DEF NodeConsistent, Smaller, Left, Right
<1>3. CASE st[2 * p] > room
  BY <1>1, <1>2, <1>3 DEF PreferredChild, Left, Right
<1>4. CASE st[2 * p] <= room /\ st[2 * p + 1] > room
  BY <1>1, <1>4 DEF PreferredChild, Left, Right
<1>5. CASE st[2 * p] <= room /\ st[2 * p + 1] <= room
  BY <1>1, <1>5 DEF PreferredChild, Left, Right
<1> QED
  BY <1>1, <1>3, <1>4, <1>5

\* The initial state.
LEMMA InitIInv == Init => IInv
<1> SUFFICES ASSUME Init PROVE IInv
  OBVIOUS
<1>1. 1 \in Nodes /\ (Slots # FirstLeaf => 3 \in Nodes /\ 1 < FirstLeaf)
  BY TreeOK DEF Nodes
<1>2. TypeOK
  <2>1. call \in [op : Ops, addr : Nat, size : Nat, depth : 1 .. Order,
                  origin : {0} \cup Nodes]
    BY TreeOK DEF Init, NoCall, Ops
  <2>2. \A p \in Nodes : st[p] = 0 /\ 0 <= LocalOffset(p)
    BY Family DEF Init
  <2> QED
    BY <1>1, <2>1, <2>2, TreeOK DEF Init, TypeOK, Statuses, Right
<1>3. TreeConsistent
  <2>1. ASSUME NEW p \in Nodes, p < FirstLeaf PROVE NodeConsistent(p)
    BY <2>1, Family DEF Init, NodeConsistent, Left, Right
  <2> QED
    BY <2>1, TreeOK DEF TreeConsistent, Nodes
<1>4. Slots # FirstLeaf => delta \in 1 .. SizeOf(3)
  BY <1>1, TreeOK, GeometryOK DEF Init
<1>5. LoopInvariant
  BY <1>1, <1>4 DEF Init, LoopInvariant, NoCall, Right
<1>6. LiveAreBlocks
  BY DEF Init, LiveAreBlocks
<1> QED
  BY <1>2, <1>3, <1>5, <1>6 DEF IInv

\* A step that does not write to the tree keeps it consistent.
LEMMA ReadOnly ==
    ASSUME TypeOK, TreeConsistent, UNCHANGED st, pc # "climb"
    PROVE  TreeConsistent'
  BY DEF TreeConsistent, NodeConsistent, Left, Right, Smaller, LocalOffset

\* update_parent_chain repairs one parent and leaves the next one to repair.
LEMMA ClimbConsistent ==
    ASSUME IInv, Climb
    PROVE  IInv'
<1> USE DEF IInv
<1> DEFINE q == Parent(pos)
           v == TargetParent(q)
<1>1. pc = "climb" /\ pos # 1 /\ pos \in Nodes
  BY DEF Climb, ClimbEnds, TypeOK
<1>2. q \in Nodes /\ q < pos /\ q < FirstLeaf /\ q \in Nat /\ pos \in Nat
  BY <1>1, Family
<1>3. v \in 0 .. LocalOffset(q)
  <2>1. 2 * q \in Nodes /\ 2 * q + 1 \in Nodes
    BY <1>2, Family
  <2>2. st[2 * q] \in Nat /\ st[2 * q + 1] \in Nat
        /\ st[2 * q] <= LocalOffset(q) - 1
        /\ LocalOffset(q) \in Nat
    BY <1>2, <2>1, Family DEF TypeOK
  <2> QED
    BY <2>2 DEF TargetParent, Smaller, Left, Right
<1>4. \A p \in Nodes : st'[p] = IF p = q THEN v ELSE st[p]
  BY DEF Climb, TypeOK
<1>5. TypeOK'
  <2>1. v \in 0 .. Order
    BY <1>2, <1>3, Family, TreeOK
  <2>2. st' \in [Nodes -> 0 .. Order]
    BY <2>1 DEF Climb, TypeOK
  <2>3. \A p \in Nodes : st'[p] <= LocalOffset(p)
    BY <1>3, <1>4 DEF TypeOK
  <2> QED
    BY <1>2, <2>2, <2>3 DEF Climb, TypeOK, LocalOffset
<1>6. ASSUME NEW p \in Nodes, p < FirstLeaf, ~(q # 1 /\ p = Parent(q))
      PROVE  NodeConsistent(p)'
  <2>1. 2 * p # q /\ 2 * p + 1 # q
    BY <1>2, <1>6, Family
  <2>2. /\ st'[2 * p] = st[2 * p] /\ st'[2 * p + 1] = st[2 * p + 1]
        /\ st[2 * p] \in Nat /\ st[2 * p + 1] \in Nat
    BY <1>4, <1>6, <2>1, Family DEF TypeOK
  <2>3. CASE p = q
    <3>1. st'[p] = TargetParent(p)
      BY <1>4, <2>3
    <3> QED
      BY <2>2, <3>1 DEF NodeConsistent, TargetParent, Left, Right, Smaller
  <2>4. CASE p # q
    <3>1. NodeConsistent(p)
      BY <1>6, <2>4, Family, TreeOK DEF TreeConsistent
    <3>2. st'[p] = st[p]
      BY <1>4, <2>4
    <3> QED
      BY <2>2, <3>1, <3>2 DEF NodeConsistent, Left, Right, LocalOffset, Smaller
  <2> QED
    BY <2>3, <2>4
<1>7. TreeConsistent'
  BY <1>6, Family, TreeOK DEF TreeConsistent, Climb
<1>8. LoopInvariant'
  <2>1. /\ pc' = "climb" /\ pos' = q /\ next' = next
        /\ delta' = delta /\ call' = call
    BY <1>1 DEF Climb
  <2>2. call.op = "init" /\ delta > 0 =>
           next > 1 /\ next \in Nodes /\ st'[next] = 0 /\ q <= next + 1
           /\ delta \in 1 .. SizeOf(next)
    <3>1. SUFFICES ASSUME call.op = "init", delta > 0
                   PROVE  /\ next > 1 /\ next \in Nodes /\ st'[next] = 0
                          /\ q <= next + 1 /\ delta \in 1 .. SizeOf(next)
      OBVIOUS
    <3>2. /\ next > 1 /\ next \in Nodes /\ st[next] = 0 /\ pos <= next + 1
          /\ delta \in 1 .. SizeOf(next) /\ next \in Nat
      BY <1>1, <3>1, Family DEF LoopInvariant, TypeOK
    <3>3. q < next
      BY <1>1, <1>2, <3>2, Family
    <3> QED
      BY <1>4, <3>2, <3>3, <1>2
  <2>3. call.op = "realloc" =>
           call.origin \in Nodes /\ st'[call.origin] = 0 /\ q <= call.origin
    <3>1. SUFFICES ASSUME call.op = "realloc"
                   PROVE  /\ call.origin \in Nodes /\ st'[call.origin] = 0
                          /\ q <= call.origin
      OBVIOUS
    <3>2. call.origin \in Nodes /\ st[call.origin] = 0 /\ pos <= call.origin
      BY <1>1, <3>1 DEF LoopInvariant
    <3>3. call.origin \in Nat
      BY <3>2, Family
    <3>4. q < call.origin
      BY <1>2, <3>2, <3>3
    <3> QED
      BY <1>2, <1>4, <3>2, <3>3, <3>4
  <2> QED
    BY <2>1, <2>2, <2>3 DEF LoopInvariant, SizeOf, SizeForDepth
<1>9. LiveAreBlocks'
  BY DEF Climb, LiveAreBlocks, BlockOf, AddressOf, SizeOf, SizeForDepth
<1> QED
  BY <1>5, <1>7, <1>8, <1>9

\* Returning from update_parent_chain.
LEMMA ClimbDoneConsistent ==
    ASSUME IInv, ClimbDone
    PROVE  IInv'
<1> USE DEF IInv
<1>1. pc = "climb" /\ st' = st /\ next' = next /\ delta' = delta /\ live' = live
  BY DEF ClimbDone
<1>2. 1 \in Nodes /\ pos' = 1
  BY TreeOK DEF ClimbDone, Nodes
<1>3. TreeConsistent'
  <2>1. ASSUME NEW p \in Nodes, p < FirstLeaf PROVE NodeConsistent(p)
    <3>1. CASE pos # 1 /\ p = Parent(pos)
      <4>1. st[p] = TargetParent(p)
        BY <3>1 DEF ClimbDone, ClimbEnds
      <4>2. st[2 * p] \in Nat /\ st[2 * p + 1] \in Nat
        BY <2>1, Family DEF TypeOK
      <4> QED
        BY <4>1, <4>2 DEF NodeConsistent, TargetParent, Left, Right
    <3>2. CASE ~(pos # 1 /\ p = Parent(pos))
      BY <2>1, <3>2, Family, TreeOK DEF TreeConsistent
    <3> QED
      BY <3>1, <3>2
  <2>2. ASSUME NEW p \in Nodes, p < FirstLeaf PROVE NodeConsistent(p)'
    BY <1>1, <2>1, <2>2 DEF NodeConsistent, Left, Right, Smaller, LocalOffset
  <2> QED
    BY <2>2, TreeOK DEF TreeConsistent, Nodes
<1>4. CASE call.op = "init" /\ delta > 0
  <2>1. pc' = "toggle" /\ call' = call
    BY <1>4 DEF ClimbDone
  <2>2. TypeOK'
    BY <1>1, <1>2, <2>1 DEF TypeOK, Statuses, LocalOffset
  <2>3. LoopInvariant'
    BY <1>1, <1>2, <1>4, <2>1 DEF LoopInvariant, SizeOf, SizeForDepth
  <2> QED
    BY <1>1, <1>3, <2>2, <2>3 DEF LiveAreBlocks, BlockOf, AddressOf, SizeOf, SizeForDepth
<1>5. CASE call.op = "realloc"
  <2>1. pc' = "search" /\ call' = call
    BY <1>5 DEF ClimbDone
  <2>2. TypeOK'
    BY <1>1, <1>2, <2>1 DEF TypeOK, Statuses, LocalOffset
  <2>3. LoopInvariant'
    BY <1>1, <1>2, <1>5, <2>1, TreeOK DEF LoopInvariant, TypeOK
  <2> QED
    BY <1>1, <1>3, <2>2, <2>3 DEF LiveAreBlocks, BlockOf, AddressOf, SizeOf, SizeForDepth
<1>6. CASE ~(call.op = "init" /\ delta > 0) /\ call.op # "realloc"
  <2>1. pc' = "idle" /\ call' = NoCall
    BY <1>6 DEF ClimbDone
  <2>2. TypeOK'
    BY <1>1, <1>2, <2>1, TreeOK DEF TypeOK, Statuses, LocalOffset, NoCall, Ops
  <2>3. LoopInvariant'
    BY <2>1 DEF LoopInvariant
  <2> QED
    BY <1>1, <1>3, <2>2, <2>3 DEF LiveAreBlocks, BlockOf, AddressOf, SizeOf, SizeForDepth
<1> QED
  BY <1>4, <1>5, <1>6

\* The records of calls are well formed.
CallType == [op : Ops, addr : Nat, size : Nat, depth : 1 .. Order,
             origin : {0} \cup Nodes]

LEMMA NoCallType == NoCall \in CallType /\ 1 \in Nodes
  BY TreeOK DEF NoCall, CallType, Ops, Nodes

\* A consistent free position can be marked: mark, from any loop.
LEMMA MarkFree ==
    ASSUME IInv, pc # "climb", NEW p \in Nodes, st[p] = 0, Mark(p)
    PROVE  /\ TreeConsistent' /\ st' \in [Nodes -> 0 .. Order]
           /\ pos' = p /\ pc' = "climb"
           /\ \A q \in Nodes : st'[q] <= LocalOffset(q)
           /\ \A q \in Nodes : q # p => st'[q] = st[q]
<1> USE DEF IInv
<1>1. p < FirstLeaf => st[2 * p] = 0 /\ st[2 * p + 1] = 0
  BY FreeBelow, Family, TreeOK DEF TreeConsistent
<1>2. Write(p, LocalOffset(p))
  BY DEF Mark
<1>3. \A q \in Nodes : q # p => st'[q] = st[q]
  BY <1>2 DEF Write, TypeOK
<1> QED
  BY <1>1, <1>2, <1>3, WriteConsistent DEF Write

\* buddy_toggle_virtual_slots.
LEMMA ToggleConsistent ==
    ASSUME IInv, ToggleHere \/ ToggleDescend \/ ToggleRight
    PROVE  IInv'
<1> USE DEF IInv
<1>1. /\ pc = "toggle" /\ next \in Nodes /\ next > 1 /\ st[next] = 0
      /\ delta \in 1 .. SizeOf(next) /\ next \in Nat /\ SizeOf(next) \in Nat
  BY Family, GeometryOK DEF ToggleHere, ToggleDescend, ToggleRight, LoopInvariant, TypeOK
<1>2. delta # SizeOf(next) => next < FirstLeaf
  BY <1>1, GeometryOK, TreeOK
<1>3. CASE ToggleHere
  <2>1. /\ TreeConsistent' /\ st' \in [Nodes -> 0 .. Order]
        /\ pos' = next /\ pc' = "climb"
        /\ \A q \in Nodes : st'[q] <= LocalOffset(q)
    BY <1>1, <1>3, MarkFree DEF ToggleHere
  <2>2. /\ delta' = 0 /\ next' = next /\ live' = live
        /\ call' = [NoCall EXCEPT !.op = "init"]
    BY <1>3 DEF ToggleHere
  <2>3. call' \in CallType /\ call'.op = "init"
    BY <2>2, NoCallType DEF CallType, Ops
  <2>4. TypeOK'
    BY <1>1, <2>1, <2>2, <2>3 DEF TypeOK, Statuses, LocalOffset, CallType
  <2>5. LoopInvariant'
    BY <2>1, <2>2, <2>3 DEF LoopInvariant
  <2> QED
    BY <2>1, <2>2, <2>4, <2>5 DEF LiveAreBlocks, BlockOf, AddressOf, SizeOf, SizeForDepth
<1>4. CASE ToggleDescend
  <2>1. /\ next < FirstLeaf /\ next' = 2 * next + 1
        /\ UNCHANGED <<st, pc, pos, delta, call, live>>
        /\ delta <= SizeOf(next) \div 2
    BY <1>2, <1>4 DEF ToggleDescend, Right
  <2>2. next' \in Nodes /\ next' > 1 /\ st[next'] = 0
    BY <1>1, <2>1, Family, FreeBelow, TreeOK DEF TreeConsistent
  <2>3. SizeOf(next) = 2 * SizeOf(next') /\ SizeOf(next') \in Nat
    BY <1>1, <2>1, <2>2, GeometryOK
  <2>4. delta \in 1 .. SizeOf(next')
    BY <1>1, <2>1, <2>3
  <2>5. TypeOK'
    BY <2>1, <2>2 DEF TypeOK, LocalOffset
  <2>6. LoopInvariant'
    BY <1>1, <2>1, <2>2, <2>4 DEF LoopInvariant, SizeOf, SizeForDepth
  <2>7. TreeConsistent'
    BY <1>1, <2>1, ReadOnly
  <2> QED
    BY <2>1, <2>5, <2>6, <2>7 DEF LiveAreBlocks, BlockOf, AddressOf, SizeOf, SizeForDepth
<1>5. CASE ToggleRight
  <2>1. /\ next < FirstLeaf /\ next' = 2 * next /\ live' = live
        /\ delta # SizeOf(next) /\ delta > SizeOf(next) \div 2
        /\ delta' = delta - SizeOf(next) \div 2
        /\ call' = [NoCall EXCEPT !.op = "init"]
        /\ Mark(2 * next + 1)
    BY <1>2, <1>5 DEF ToggleRight, Left, Right
  <2>2. /\ 2 * next \in Nodes /\ 2 * next + 1 \in Nodes
        /\ st[2 * next] = 0 /\ st[2 * next + 1] = 0
    BY <1>1, <2>1, Family, FreeBelow, TreeOK DEF TreeConsistent
  <2>3. /\ TreeConsistent' /\ st' \in [Nodes -> 0 .. Order]
        /\ pos' = 2 * next + 1 /\ pc' = "climb"
        /\ \A q \in Nodes : st'[q] <= LocalOffset(q)
        /\ \A q \in Nodes : q # 2 * next + 1 => st'[q] = st[q]
    BY <1>1, <2>1, <2>2, MarkFree
  <2>4. st'[2 * next] = 0
    BY <1>1, <2>2, <2>3
  <2>5. SizeOf(next) = 2 * SizeOf(2 * next) /\ SizeOf(2 * next) \in Nat
    BY <1>1, <2>1, <2>2, GeometryOK
  <2>6. delta' \in 1 .. SizeOf(2 * next)
    BY <1>1, <2>1, <2>5
  <2>7. call' \in CallType /\ call'.op = "init"
    BY <2>1, NoCallType DEF CallType, Ops
  <2>8. TypeOK'
    BY <2>1, <2>2, <2>3, <2>5, <2>6, <2>7 DEF TypeOK, Statuses, LocalOffset, CallType
  <2>9. LoopInvariant'
    BY <1>1, <2>1, <2>3, <2>4, <2>6, <2>7 DEF LoopInvariant, SizeOf, SizeForDepth
  <2> QED
    BY <2>1, <2>3, <2>8, <2>9 DEF LiveAreBlocks, BlockOf, AddressOf, SizeOf, SizeForDepth
<1> QED
  BY <1>3, <1>4, <1>5

\* Going back to "idle" without touching the tree.
LEMMA GiveUp ==
    ASSUME IInv, pc # "climb", pc' = "idle", call' = NoCall,
           UNCHANGED <<st, pos, next, delta, live>>
    PROVE  IInv'
<1> USE DEF IInv
<1>1. TypeOK'
  BY NoCallType DEF TypeOK, Statuses, LocalOffset, CallType
<1>2. LoopInvariant'
  BY DEF LoopInvariant
<1>3. TreeConsistent'
  BY ReadOnly
<1> QED
  BY <1>1, <1>2, <1>3 DEF LiveAreBlocks, BlockOf, AddressOf, SizeOf, SizeForDepth

\* buddy_tree_find_free and what follows it.
LEMMA SearchConsistent ==
    ASSUME IInv, SearchDown \/ SearchFound \/ MallocFails \/ ReallocFails
    PROVE  IInv'
<1> USE DEF IInv
<1>1. /\ pc = "search" /\ pos \in Nodes /\ call \in CallType
      /\ DepthOf[pos] <= call.depth /\ call.depth \in 1 .. Order
      /\ pos # 1 => st[pos] <= call.depth - DepthOf[pos]
      /\ DepthOf[pos] \in Nat /\ DepthOf[pos] >= 1 /\ st[pos] \in Nat
  BY TreeOK DEF SearchDown, SearchFound, MallocFails, ReallocFails, LoopInvariant,
                TypeOK, CallType
<1>2. ~NotFound => st[pos] <= call.depth - DepthOf[pos]
  BY <1>1, TreeOK DEF NotFound
<1>3. CASE SearchDown
  <2> DEFINE room == call.depth - DepthOf[pos] - 1
             child == PreferredChild(pos, room)
  <2>1. /\ UNCHANGED <<st, pc, next, delta, call, live>> /\ pos' = child
        /\ ~NotFound /\ DepthOf[pos] # call.depth
    BY <1>3 DEF SearchDown, Found
  <2>2. pos < FirstLeaf /\ room \in Nat /\ st[pos] <= room + 1
    BY <1>1, <1>2, <2>1, TreeOK, Family
  <2>3. NodeConsistent(pos)
    BY <1>1, <2>2, Family, TreeOK DEF TreeConsistent
  <2>4. child \in {2 * pos, 2 * pos + 1} /\ st[child] <= room
    BY <1>1, <2>2, <2>3, PreferredHasRoom
  <2>5. child \in Nodes /\ DepthOf[child] = DepthOf[pos] + 1 /\ child # 1
    BY <1>1, <2>2, <2>4, Family, TreeOK
  <2>6. TypeOK'
    BY <2>1, <2>5 DEF TypeOK, LocalOffset
  <2>7. LoopInvariant'
    BY <1>1, <2>1, <2>2, <2>4, <2>5 DEF LoopInvariant
  <2>8. TreeConsistent'
    BY <1>1, <2>1, ReadOnly
  <2> QED
    BY <2>1, <2>6, <2>7, <2>8 DEF LiveAreBlocks, BlockOf, AddressOf, SizeOf, SizeForDepth
<1>4. CASE SearchFound
  <2>1. st[pos] = 0
    BY <1>1, <1>2, <1>4 DEF SearchFound, Found
  <2>2. /\ TreeConsistent' /\ st' \in [Nodes -> 0 .. Order]
        /\ pos' = pos /\ pc' = "climb"
        /\ \A q \in Nodes : st'[q] <= LocalOffset(q)
    BY <1>1, <1>4, <2>1, MarkFree DEF SearchFound
  <2>3. call' = [NoCall EXCEPT !.op = "malloc"] /\ UNCHANGED <<next, delta>>
    BY <1>4 DEF SearchFound
  <2>4. call' \in CallType /\ call'.op = "malloc"
    BY <2>3, NoCallType DEF CallType, Ops
  <2>5. TypeOK'
    BY <1>1, <2>2, <2>3, <2>4 DEF TypeOK, Statuses, LocalOffset, CallType
  <2>6. LoopInvariant'
    BY <2>2, <2>4 DEF LoopInvariant
  <2>7. live' \subseteq live \cup {BlockOf(pos)}
    BY <1>4 DEF SearchFound
  <2>8. LiveAreBlocks'
    BY <1>1, <2>7 DEF LiveAreBlocks, BlockOf, AddressOf, SizeOf, SizeForDepth
  <2> QED
    BY <2>2, <2>5, <2>6, <2>8
<1>5. CASE MallocFails
  BY <1>1, <1>5, GiveUp DEF MallocFails
<1>6. CASE ReallocFails
  <2>1. call.origin \in Nodes /\ st[call.origin] = 0
    BY <1>1, <1>6 DEF ReallocFails, LoopInvariant
  <2>2. /\ TreeConsistent' /\ st' \in [Nodes -> 0 .. Order]
        /\ pos' = call.origin /\ pc' = "climb"
        /\ \A q \in Nodes : st'[q] <= LocalOffset(q)
    BY <1>1, <1>6, <2>1, MarkFree DEF ReallocFails
  <2>3. call' = [NoCall EXCEPT !.op = "malloc"] /\ UNCHANGED <<next, delta, live>>
    BY <1>6 DEF ReallocFails
  <2>4. call' \in CallType /\ call'.op = "malloc"
    BY <2>3, NoCallType DEF CallType, Ops
  <2>5. TypeOK'
    BY <2>1, <2>2, <2>3, <2>4 DEF TypeOK, Statuses, LocalOffset, CallType
  <2>6. LoopInvariant'
    BY <2>2, <2>4 DEF LoopInvariant
  <2> QED
    BY <2>2, <2>3, <2>5, <2>6 DEF LiveAreBlocks, BlockOf, AddressOf, SizeOf, SizeForDepth
<1> QED
  BY <1>3, <1>4, <1>5, <1>6

\* position_for_address and what follows it: a full position that was reached
\* through a free child has no used child.
LEMMA LookupConsistent ==
    ASSUME IInv, LookupUp \/ LookupFails \/ ReleaseRefused \/ Release
    PROVE  IInv'
<1> USE DEF IInv
<1>1. /\ pc = "lookup" /\ pos \in Nodes /\ call \in CallType
      /\ pos < FirstLeaf => st[2 * pos] = 0 \/ st[2 * pos + 1] = 0
  BY Family, TreeOK DEF LookupUp, LookupFails, ReleaseRefused, Release,
                        LoopInvariant, TypeOK, CallType, Left, Right
<1>2. CASE LookupUp
  <2>1. /\ UNCHANGED <<st, pc, next, delta, call, live>>
        /\ pos' = Parent(pos) /\ pos # 1 /\ st[pos] = 0
    BY <1>2 DEF LookupUp
  <2>2. /\ Parent(pos) \in Nodes
        /\ pos = 2 * Parent(pos) \/ pos = 2 * Parent(pos) + 1
    BY <1>1, <2>1, Family
  <2>3. st[2 * Parent(pos)] = 0 \/ st[2 * Parent(pos) + 1] = 0
    BY <2>1, <2>2
  <2>4. TypeOK'
    BY <2>1, <2>2 DEF TypeOK, LocalOffset
  <2>5. LoopInvariant'
    BY <1>1, <2>1, <2>3 DEF LoopInvariant, Left, Right
  <2>6. TreeConsistent'
    BY <1>1, <2>1, ReadOnly
  <2> QED
    BY <2>1, <2>4, <2>5, <2>6 DEF LiveAreBlocks, BlockOf, AddressOf, SizeOf, SizeForDepth
<1>3. CASE LookupFails
  BY <1>1, <1>3, GiveUp DEF LookupFails
<1>4. CASE ReleaseRefused
  BY <1>1, <1>4, GiveUp DEF ReleaseRefused
<1>5. CASE Release
  <2>1. /\ st[pos] = LocalOffset(pos) /\ Write(pos, 0)
        /\ call' = [call EXCEPT !.origin = pos]
        /\ UNCHANGED <<next, delta>> /\ live' \subseteq live
    BY <1>5 DEF Release
  <2>2. pos < FirstLeaf => st[2 * pos] = 0 /\ st[2 * pos + 1] = 0
    <3>1. SUFFICES ASSUME pos < FirstLeaf PROVE st[2 * pos] = 0 /\ st[2 * pos + 1] = 0
      OBVIOUS
    <3>2. /\ st[2 * pos] \in Nat /\ st[2 * pos + 1] \in Nat
          /\ LocalOffset(pos) >= 2 /\ LocalOffset(pos) \in Nat
      <4>1. LocalOffset(2 * pos) \in 1 .. Order /\ LocalOffset(2 * pos) = LocalOffset(pos) - 1
            /\ LocalOffset(pos) \in Nat /\ 2 * pos \in Nodes /\ 2 * pos + 1 \in Nodes
        BY <1>1, <3>1, Family
      <4> QED
        BY <4>1, TreeOK DEF TypeOK
    <3>3. NodeConsistent(pos)
      BY <1>1, <3>1, Family, TreeOK DEF TreeConsistent
    <3> QED
      BY <1>1, <2>1, <3>1, <3>2, <3>3 DEF NodeConsistent, Smaller, Left, Right
  <2>3. /\ TreeConsistent' /\ st' \in [Nodes -> 0 .. Order] /\ pc' = "climb"
        /\ \A q \in Nodes : st'[q] <= LocalOffset(q)
    BY <1>1, <2>1, <2>2, WriteConsistent
  <2>4. pos' = pos /\ st'[pos] = 0
    BY <1>1, <2>1 DEF Write, TypeOK
  <2>5. call' \in CallType /\ call'.origin = pos /\ call'.op = call.op
    BY <1>1, <2>1 DEF CallType
  <2>6. TypeOK'
    BY <1>1, <2>1, <2>3, <2>4, <2>5 DEF TypeOK, Statuses, LocalOffset, CallType
  <2>7. call.op # "init"
    BY <1>1 DEF LoopInvariant
  <2>8. LoopInvariant'
    BY <1>1, <2>3, <2>4, <2>5, <2>7, Family DEF LoopInvariant
  <2> QED
    BY <2>1, <2>3, <2>6, <2>8 DEF LiveAreBlocks, BlockOf, AddressOf, SizeOf, SizeForDepth
<1> QED
  BY <1>2, <1>3, <1>4, <1>5

\* Starting a call.
LEMMA CallConsistent ==
    ASSUME IInv, Call
    PROVE  IInv'
<1> USE DEF IInv
<1>1. ASSUME NEW size \in Sizes, Malloc(size) PROVE IInv'
  <2>1. PICK d \in 1 .. Order, n \in Nat :
           /\ call' = [NoCall EXCEPT !.op = "malloc", !.size = n, !.depth = d]
           /\ pc = "idle" /\ pc' = "search" /\ pos' = 1
           /\ UNCHANGED <<st, next, delta, live>>
    BY <1>1, SizesOK DEF Malloc
  <2>2. call' \in CallType /\ call'.op = "malloc" /\ call'.depth = d
    BY <2>1, NoCallType DEF CallType, Ops
  <2>3. TypeOK'
    BY <2>1, <2>2, NoCallType DEF TypeOK, Statuses, LocalOffset, CallType
  <2>4. LoopInvariant'
    BY <2>1, <2>2, TreeOK DEF LoopInvariant
  <2>5. TreeConsistent'
    BY <2>1, ReadOnly
  <2> QED
    BY <2>1, <2>3, <2>4, <2>5 DEF LiveAreBlocks, BlockOf, AddressOf, SizeOf, SizeForDepth
<1>2. ASSUME NEW a \in 0 .. FirstLeaf - 1, StartLookup(a), call' \in CallType,
             call'.op \in {"realloc", "free", "safe_free"}
      PROVE  IInv'
  <2>1. /\ pc = "idle" /\ pc' = "lookup" /\ pos' = FirstLeaf + a
        /\ UNCHANGED <<st, next, delta, live>>
    BY <1>2 DEF StartLookup
  <2>2. FirstLeaf + a \in Nodes /\ FirstLeaf + a >= FirstLeaf
    BY <1>2, TreeOK DEF Nodes
  <2>3. TypeOK'
    BY <1>2, <2>1, <2>2 DEF TypeOK, Statuses, LocalOffset, CallType
  <2>4. LoopInvariant'
    BY <1>2, <2>1, <2>2 DEF LoopInvariant
  <2>5. TreeConsistent'
    BY <2>1, ReadOnly
  <2> QED
    BY <2>1, <2>3, <2>4, <2>5 DEF LiveAreBlocks, BlockOf, AddressOf, SizeOf, SizeForDepth
<1>3. ASSUME NEW b \in live, NEW size \in Sizes, Realloc(b, size) PROVE IInv'
  <2>1. b[1] \in 0 .. FirstLeaf - 1
    BY <1>3, GeometryOK DEF LiveAreBlocks, BlockOf
  <2>2. PICK d \in 1 .. Order :
           call' = [NoCall EXCEPT !.op = "realloc", !.addr = b[1],
                                  !.size = size, !.depth = d]
    BY <1>3 DEF Realloc
  <2>a. b[1] \in Nat /\ size \in Nat
    BY <2>1, SizesOK
  <2>3. call' \in CallType /\ call'.op = "realloc"
    BY <2>2, <2>a, NoCallType DEF CallType, Ops
  <2>4. StartLookup(b[1])
    BY <1>3 DEF Realloc
  <2> QED
    BY <1>2, <2>1, <2>3, <2>4
<1>4. ASSUME NEW a \in 0 .. Slots - 1, Free(a) PROVE IInv'
  <2>1. a \in 0 .. FirstLeaf - 1
    BY TreeOK
  <2>a. a \in Nat
    BY <2>1
  <2>2. call' \in CallType /\ call'.op = "free"
    BY <1>4, <2>a, NoCallType DEF Free, CallType, Ops
  <2> QED
    BY <1>2, <1>4, <2>1, <2>2 DEF Free
<1>5. ASSUME NEW a \in 0 .. Slots - 1, NEW size \in Sizes, SafeFree(a, size) PROVE IInv'
  <2>1. a \in 0 .. FirstLeaf - 1
    BY TreeOK
  <2>a. a \in Nat
    BY <2>1
  <2>b. PICK n \in Nat :
           call' = [NoCall EXCEPT !.op = "safe_free", !.addr = a, !.size = n]
    BY <1>5, SizesOK DEF SafeFree
  <2>2. call' \in CallType /\ call'.op = "safe_free"
    BY <2>a, <2>b, NoCallType DEF CallType, Ops
  <2> QED
    BY <1>2, <1>5, <2>1, <2>2 DEF SafeFree
<1> QED
  BY <1>1, <1>3, <1>4, <1>5 DEF Call

\* The inductive invariant holds in every reachable state.
THEOREM Invariant == Spec => []IInv
<1>1. IInv /\ [Next]_vars => IInv'
  <2> SUFFICES ASSUME IInv, [Next]_vars PROVE IInv'
    OBVIOUS
  <2>1. CASE UNCHANGED vars
    BY <2>1 DEF vars, IInv, TypeOK, TreeConsistent, NodeConsistent, LoopInvariant,
       LiveAreBlocks, LocalOffset, SizeOf, SizeForDepth, BlockOf, AddressOf,
       Smaller, Left, Right, Parent
  <2> QED
    BY <2>1, CallConsistent, ToggleConsistent, ClimbConsistent, ClimbDoneConsistent,
       SearchConsistent, LookupConsistent DEF Next, Proceed
<1> QED
  BY <1>1, InitIInv, PTL DEF Spec

\* TypeOK for every tree: no status grows past its bits.
THEOREM TypeCorrect == Spec => []TypeOK
<1>1. IInv => TypeOK
  BY DEF IInv
<1> QED
  BY <1>1, Invariant, PTL

\* TreeConsistent for every tree, every arena and every sequence of malloc,
\* realloc, free and safe_free, with any address passed to the last two.
THEOREM Consistent == Spec => []TreeConsistent
<1>1. IInv => TreeConsistent
  BY DEF IInv
<1> QED
  BY <1>1, Invariant, PTL

\* LoopInvariant for every tree: the position a search returns is free, and
\* the position a failed realloc marks again still is.
THEOREM Loops == Spec => []LoopInvariant
<1>1. IInv => LoopInvariant
  BY DEF IInv
<1> QED
  BY <1>1, Invariant, PTL

-----------------------------------------------------------------------------
(* What the tree says about the blocks *)

\* Position q is strictly below position p.
Under(q, p) == DepthOf[p] < DepthOf[q] /\ Covers(q) \subseteq Covers(p)

\* A full position over free children: what mark leaves.  A full position
\* over full children says nothing of its own.
Marked(p) ==
    /\ st[p] = LocalOffset(p)
    /\ p < FirstLeaf => st[2 * p] = 0 /\ st[2 * p + 1] = 0

\* No mark above p hides it.
Clear(p) == \A m \in Nodes : Marked(m) => ~Under(p, m)

\* The block a realloc has released and not yet replaced.
Reallocating(p) == pc \in {"climb", "search"} /\ call.op = "realloc" /\ p = call.origin

\* The slots past the arena that are masked so far.
Masked == (Slots + delta) .. (FirstLeaf - 1)

\* Owned blocks lie in the arena and do not overlap.
LiveApart ==
    /\ \A p \in Nodes : BlockOf(p) \in live => Covers(p) \subseteq 0 .. (Slots - 1)
    /\ \A p, q \in Nodes : BlockOf(p) \in live /\ BlockOf(q) \in live /\ p # q =>
          Covers(p) \cap Covers(q) = {}

\* Every owned block is marked, and every mark is an owned block or a mask.
BlocksMarked == \A p \in Nodes : BlockOf(p) \in live => Marked(p) \/ Reallocating(p)
MarksAreBlocks ==
    \A p \in Nodes : Marked(p) => BlockOf(p) \in live \/ Covers(p) \subseteq Masked

\* The masks are as large as they can be.
MasksComplete ==
    \A p \in Nodes : Covers(p) \subseteq Masked =>
        \E m \in Nodes : /\ Marked(m) /\ Covers(m) \subseteq Masked
                         /\ p = m \/ Under(p, m)

\* The toggle works from the end of the arena down to its size, before any
\* call; the loops work where no mark hides what they do.
StageInv ==
    /\ delta > 0 => pc = "toggle" \/ (pc = "climb" /\ call.op = "init")
    /\ pc = "toggle" \/ (pc = "climb" /\ call.op = "init" /\ delta > 0) =>
          /\ live = {} /\ AddressOf(next) + SizeOf(next) = Slots + delta
          /\ AddressOf(Parent(next)) < Slots
    /\ pc = "lookup" => call.addr \in 0 .. (Slots - 1)
    /\ pc \in {"climb", "search"} => Clear(pos)
    /\ pc \in {"climb", "search"} /\ call.op = "realloc" => BlockOf(call.origin) \in live

BlockInv ==
    /\ LiveApart
    /\ BlocksMarked
    /\ MarksAreBlocks
    /\ MasksComplete
    /\ StageInv

-----------------------------------------------------------------------------
(* The geometry of the tree *)

\* A set of positions has a first and a last member: induction down the tree
\* and up.
LEMMA FirstAndLast ==
    ASSUME NEW S, S \subseteq Nodes, S # {}
    PROVE  /\ \E m \in S : \A x \in S : m <= x
           /\ \E m \in S : \A x \in S : x <= m
<1> DEFINE Less == {ss \in Nat \X Nat : ss[1] < ss[2]}
<1>1. IsWellFoundedOn(Less, Nat)
  BY NatLessThanWellFounded, Zenon DEF OpToRel
<1>2. \A T \in SUBSET Nat : T # {} => \E m \in T : \A x \in T : m <= x
  <2>1. TAKE T \in SUBSET Nat
  <2>2. HAVE T # {}
  <2>3. PICK m \in T : \A x \in T : ~(<<x, m>> \in Less)
    <3> HIDE DEF Less
    <3> QED
      BY <1>1, <2>2, WFMin
  <2>4. ASSUME NEW x \in T PROVE m <= x
    <3>1. <<x, m>> \in Nat \X Nat /\ <<x, m>>[1] = x /\ <<x, m>>[2] = m
      OBVIOUS
    <3>2. ~(x < m)
      BY <2>3, <3>1, Zenon
    <3> QED
      BY <3>2
  <2> QED
    BY <2>4
<1>3. S \subseteq Nat /\ \A x \in S : x <= 2 * FirstLeaf
  BY TreeOK DEF Nodes
<1>4. \E m \in S : \A x \in S : m <= x
  BY <1>2, <1>3
<1>5. \E m \in S : \A x \in S : x <= m
  <2> DEFINE T == {2 * FirstLeaf - x : x \in S}
  <2>1. T \subseteq Nat /\ T # {}
    <3>1. \A x \in S : 2 * FirstLeaf - x \in Nat
      BY <1>3, TreeOK
    <3> QED
      BY <3>1
  <2>2. PICK k \in T : \A y \in T : k <= y
    BY <1>2, <2>1
  <2>3. PICK m \in S : k = 2 * FirstLeaf - m
    BY <2>2
  <2>4. ASSUME NEW x \in S PROVE x <= m
    <3>1. 2 * FirstLeaf - x \in T
      OBVIOUS
    <3>2. k <= 2 * FirstLeaf - x
      BY <2>2, <3>1
    <3> QED
      BY <1>3, <2>3, <3>2, TreeOK
  <2> QED
    BY <2>4
<1> QED
  BY <1>4, <1>5

\* What a position covers.
LEMMA CoversIs ==
    ASSUME NEW p \in Nodes
    PROVE  /\ AddressOf(p) \in Nat /\ SizeOf(p) \in Nat /\ SizeOf(p) >= 1
           /\ DepthOf[p] \in Nat /\ DepthOf[p] >= 1
           /\ Covers(p) = AddressOf(p) .. (AddressOf(p) + SizeOf(p) - 1)
           /\ AddressOf(p) \in Covers(p)
<1>1. /\ AddressOf(p) \in Nat /\ SizeOf(p) \in Nat /\ SizeOf(p) >= 1
  BY GeometryOK, TreeOK
<1>2. Covers(p) = AddressOf(p) .. (AddressOf(p) + SizeOf(p) - 1)
  BY DEF Covers, Extent, BlockOf
<1>3. DepthOf[p] \in Nat /\ DepthOf[p] >= 1
  BY TreeOK
<1> QED
  BY <1>1, <1>2, <1>3

\* Children are the halves of their parent.
LEMMA Halves ==
    ASSUME NEW p \in Nodes, p < FirstLeaf
    PROVE  /\ 2 * p \in Nodes /\ 2 * p + 1 \in Nodes
           /\ DepthOf[2 * p] = DepthOf[p] + 1 /\ DepthOf[2 * p + 1] = DepthOf[p] + 1
           /\ Covers(2 * p) \cup Covers(2 * p + 1) = Covers(p)
           /\ Covers(2 * p) \cap Covers(2 * p + 1) = {}
           /\ SizeOf(p) = 2 * SizeOf(2 * p) /\ SizeOf(p) = 2 * SizeOf(2 * p + 1)
<1>1. 2 * p \in Nodes /\ 2 * p + 1 \in Nodes /\ p \in Nat
  BY Family
<1>2. DepthOf[2 * p] = DepthOf[p] + 1 /\ DepthOf[2 * p + 1] = DepthOf[p] + 1
  BY TreeOK
<1>3. /\ SizeOf(p) = 2 * SizeOf(2 * p) /\ SizeOf(p) = 2 * SizeOf(2 * p + 1)
      /\ AddressOf(2 * p) = AddressOf(p)
      /\ AddressOf(2 * p + 1) = AddressOf(p) + SizeOf(2 * p)
  BY GeometryOK
<1> DEFINE a == AddressOf(p)
           h == SizeOf(2 * p)
<1>4. /\ Covers(2 * p) = a .. (a + h - 1)
      /\ Covers(2 * p + 1) = (a + h) .. (a + h + h - 1)
      /\ Covers(p) = a .. (a + 2 * h - 1)
      /\ a \in Nat /\ h \in Nat /\ h >= 1
  BY <1>1, <1>3, CoversIs
<1> HIDE DEF a, h
<1>5. /\ Covers(2 * p) \cup Covers(2 * p + 1) = Covers(p)
      /\ Covers(2 * p) \cap Covers(2 * p + 1) = {}
  BY <1>4
<1> QED
  BY <1>1, <1>2, <1>3, <1>5

\* A position and its parent.
LEMMA ChildOf ==
    ASSUME NEW q \in Nodes, q # 1
    PROVE  /\ Parent(q) \in Nodes /\ Parent(q) < FirstLeaf /\ Parent(q) < q
           /\ q = 2 * Parent(q) \/ q = 2 * Parent(q) + 1
           /\ DepthOf[q] = DepthOf[Parent(q)] + 1
           /\ Covers(q) \subseteq Covers(Parent(q))
           /\ SizeOf(Parent(q)) = 2 * SizeOf(q)
<1>1. /\ Parent(q) \in Nodes /\ Parent(q) < FirstLeaf /\ Parent(q) < q
      /\ q = 2 * Parent(q) \/ q = 2 * Parent(q) + 1
  BY Family
<1>2. CASE q = 2 * Parent(q)
  BY <1>1, <1>2, Halves
<1>3. CASE q = 2 * Parent(q) + 1
  BY <1>1, <1>3, Halves
<1> QED
  BY <1>1, <1>2, <1>3

\* Only the root has its depth.
LEMMA RootDepth ==
    ASSUME NEW q \in Nodes
    PROVE  DepthOf[q] = 1 <=> q = 1
<1>1. q # 1 => DepthOf[q] = DepthOf[Parent(q)] + 1 /\ DepthOf[Parent(q)] >= 1
               /\ DepthOf[Parent(q)] \in Nat
  BY ChildOf, CoversIs
<1> QED
  BY <1>1, TreeOK

\* Two positions of a row do not meet.
LEMMA RowApart ==
    ASSUME NEW p \in Nodes, NEW q \in Nodes, p # q, DepthOf[p] = DepthOf[q]
    PROVE  Covers(p) \cap Covers(q) = {}
<1> DEFINE S == {x \in Nodes : \E y \in Nodes :
                    x # y /\ DepthOf[x] = DepthOf[y] /\ Covers(x) \cap Covers(y) # {}}
<1>1. SUFFICES S = {}
  OBVIOUS
<1>2. SUFFICES ASSUME S # {} PROVE FALSE
  OBVIOUS
<1>3. PICK x \in S : \A z \in S : x <= z
  BY <1>2, FirstAndLast
<1>4. PICK y \in Nodes : x # y /\ DepthOf[x] = DepthOf[y] /\ Covers(x) \cap Covers(y) # {}
  BY <1>3
<1>5. x \in Nodes /\ x # 1 /\ y # 1
  BY <1>3, <1>4, RootDepth
<1> DEFINE a == Parent(x)
           b == Parent(y)
<1>6. /\ a \in Nodes /\ a < x /\ a < FirstLeaf /\ b \in Nodes
      /\ x = 2 * a \/ x = 2 * a + 1
      /\ y = 2 * b \/ y = 2 * b + 1
      /\ DepthOf[x] = DepthOf[a] + 1 /\ DepthOf[y] = DepthOf[b] + 1
      /\ Covers(x) \subseteq Covers(a) /\ Covers(y) \subseteq Covers(b)
      /\ DepthOf[a] \in Nat /\ DepthOf[b] \in Nat /\ a \in Nat /\ x \in Nat
  BY <1>5, ChildOf, CoversIs, Family
<1> HIDE DEF a, b
<1>7. DepthOf[a] = DepthOf[b] /\ Covers(a) \cap Covers(b) # {}
  <2>1. /\ DepthOf[x] = DepthOf[a] + 1 /\ DepthOf[x] = DepthOf[b] + 1
        /\ DepthOf[a] \in Nat /\ DepthOf[b] \in Nat
    BY <1>4, <1>6, Zenon
  <2>2. Covers(a) \cap Covers(b) # {}
    BY <1>4, <1>6, Zenon
  <2> QED
    <3>1. \A u, v \in Nat : \A w : w = u + 1 /\ w = v + 1 => u = v
      OBVIOUS
    <3> QED
      BY <2>1, <2>2, <3>1, Zenon
<1>8. CASE a = b
  <2>1. Covers(2 * a) \cap Covers(2 * a + 1) = {}
    BY <1>6, Halves
  <2> QED
    BY <1>4, <1>6, <1>8, <2>1
<1>9. CASE a # b
  <2>1. a \in S
    BY <1>6, <1>7, <1>9
  <2>2. x <= a
    BY <1>3, <2>1
  <2> QED
    BY <1>6, <2>2
<1> QED
  BY <1>8, <1>9

\* The deeper of two positions that meet lies inside the other.
LEMMA Nested ==
    ASSUME NEW p \in Nodes, NEW q \in Nodes, DepthOf[p] <= DepthOf[q],
           Covers(q) \cap Covers(p) # {}
    PROVE  Covers(q) \subseteq Covers(p)
<1> DEFINE S == {x \in Nodes : /\ DepthOf[p] <= DepthOf[x] /\ Covers(x) \cap Covers(p) # {}
                              /\ ~(Covers(x) \subseteq Covers(p))}
<1>1. SUFFICES S = {}
  OBVIOUS
<1>2. SUFFICES ASSUME S # {} PROVE FALSE
  OBVIOUS
<1>3. PICK x \in S : \A z \in S : x <= z
  BY <1>2, FirstAndLast
<1>4. /\ x \in Nodes /\ x \in Nat /\ DepthOf[p] <= DepthOf[x]
      /\ Covers(x) \cap Covers(p) # {} /\ ~(Covers(x) \subseteq Covers(p))
  BY <1>3, Family
<1>5. /\ DepthOf[p] # DepthOf[x] /\ x # 1 /\ DepthOf[p] \in Nat /\ DepthOf[x] \in Nat
      /\ DepthOf[p] >= 1
  <2>1. x # p
    BY <1>4
  <2>2. DepthOf[p] # DepthOf[x]
    BY <1>4, <2>1, RowApart
  <2>3. DepthOf[p] \in Nat /\ DepthOf[x] \in Nat /\ DepthOf[p] >= 1
    BY <1>4, CoversIs
  <2> QED
    BY <1>4, <2>2, <2>3, RootDepth
<1> DEFINE a == Parent(x)
<1>6. /\ a \in Nodes /\ a < x /\ DepthOf[x] = DepthOf[a] + 1 /\ Covers(x) \subseteq Covers(a)
      /\ DepthOf[a] \in Nat /\ a \in Nat
  BY <1>4, <1>5, ChildOf, CoversIs, Family
<1> HIDE DEF a
<1>7. a \in S
  BY <1>4, <1>5, <1>6
<1>8. x <= a
  BY <1>3, <1>7
<1> QED
  BY <1>4, <1>6, <1>8

\* Positions that meet are one below the other.
LEMMA Meet ==
    ASSUME NEW p \in Nodes, NEW q \in Nodes, Covers(p) \cap Covers(q) # {}
    PROVE  p = q \/ Under(p, q) \/ Under(q, p)
<1>1. DepthOf[p] \in Nat /\ DepthOf[q] \in Nat
  BY CoversIs
<1>2. CASE DepthOf[p] = DepthOf[q]
  BY <1>2, RowApart
<1>3. CASE DepthOf[p] < DepthOf[q]
  BY <1>1, <1>3, Nested DEF Under
<1>4. CASE DepthOf[q] < DepthOf[p]
  BY <1>1, <1>4, Nested DEF Under
<1> QED
  BY <1>1, <1>2, <1>3, <1>4

\* Below p is what hangs from p.
LEMMA UnderParent ==
    ASSUME NEW p \in Nodes, NEW q \in Nodes
    PROVE  /\ Under(q, p) => q # 1 /\ (Parent(q) = p \/ Under(Parent(q), p))
           /\ q # 1 /\ (Parent(q) = p \/ Under(Parent(q), p)) => Under(q, p)
           /\ Under(q, p) => q # p
<1>1. /\ DepthOf[p] \in Nat /\ DepthOf[p] >= 1 /\ DepthOf[q] \in Nat
      /\ AddressOf(q) \in Covers(q)
  BY CoversIs
<1>2. ASSUME q # 1
      PROVE  /\ Parent(q) \in Nodes /\ DepthOf[q] = DepthOf[Parent(q)] + 1
             /\ Covers(q) \subseteq Covers(Parent(q)) /\ DepthOf[Parent(q)] \in Nat
  BY <1>2, ChildOf, CoversIs
<1>3. ASSUME Under(q, p)
      PROVE  q # 1 /\ (Parent(q) = p \/ Under(Parent(q), p))
  <2>1. DepthOf[p] < DepthOf[q] /\ Covers(q) \subseteq Covers(p)
    BY <1>3 DEF Under
  <2>2. q # 1
    BY <1>1, <2>1, RootDepth
  <2>3. /\ DepthOf[p] <= DepthOf[Parent(q)] /\ Covers(Parent(q)) \cap Covers(p) # {}
        /\ Parent(q) \in Nodes
    BY <1>1, <1>2, <2>1, <2>2
  <2>4. CASE DepthOf[p] = DepthOf[Parent(q)]
    BY <2>2, <2>3, <2>4, RowApart
  <2>5. CASE DepthOf[p] # DepthOf[Parent(q)]
    <3>1. Covers(Parent(q)) \subseteq Covers(p)
      BY <2>3, Nested
    <3> QED
      BY <1>1, <1>2, <2>2, <2>3, <2>5, <3>1 DEF Under
  <2> QED
    BY <2>4, <2>5
<1>4. ASSUME q # 1, Parent(q) = p \/ Under(Parent(q), p)
      PROVE  Under(q, p)
  BY <1>1, <1>2, <1>4 DEF Under
<1>5. Under(q, p) => q # p
  BY <1>1 DEF Under
<1> QED
  BY <1>3, <1>4, <1>5

\* What is below a position is smaller.
LEMMA UnderSmaller ==
    ASSUME NEW x \in Nodes, NEW y \in Nodes, Under(x, y)
    PROVE  ~(Covers(y) \subseteq Covers(x))
<1> SUFFICES ASSUME Covers(y) \subseteq Covers(x) PROVE FALSE
  OBVIOUS
<1>1. /\ x # 1 /\ Parent(x) \in Nodes /\ SizeOf(Parent(x)) = 2 * SizeOf(x)
      /\ Covers(Parent(x)) \subseteq Covers(x)
  BY UnderParent, ChildOf DEF Under
<1> DEFINE a == AddressOf(Parent(x))
           b == AddressOf(x)
           s == SizeOf(x)
<1>2. /\ a .. (a + 2 * s - 1) \subseteq b .. (b + s - 1)
      /\ a \in Nat /\ b \in Nat /\ s \in Nat /\ s >= 1
  BY <1>1, CoversIs
<1> HIDE DEF a, b, s
<1>3. a \in a .. (a + 2 * s - 1) /\ a + 2 * s - 1 \in a .. (a + 2 * s - 1)
  BY <1>2
<1> QED
  BY <1>2, <1>3

\* A position has its block for itself.
LEMMA SameBlock ==
    ASSUME NEW p \in Nodes, NEW q \in Nodes, BlockOf(p) = BlockOf(q)
    PROVE  p = q
<1>1. Covers(p) = Covers(q)
  BY DEF Covers, BlockOf
<1>2. Covers(p) \cap Covers(q) # {}
  BY <1>1, CoversIs
<1> QED
  BY <1>1, <1>2, UnderSmaller, Meet

\* Every position lies in the tree.
LEMMA InTree ==
    ASSUME NEW p \in Nodes
    PROVE  Covers(p) \subseteq 0 .. (FirstLeaf - 1) /\ 1 \in Nodes
           /\ ~Under(1, p) /\ (p = 1 \/ Under(p, 1))
<1>1. 1 \in Nodes /\ Covers(1) = 0 .. (FirstLeaf - 1) /\ DepthOf[1] = 1
  <2>1. 1 \in Nodes /\ SizeOf(1) = FirstLeaf /\ AddressOf(1) = 0 /\ DepthOf[1] = 1
    BY NoCallType, GeometryOK, TreeOK
  <2>2. Covers(1) = 0 .. (0 + FirstLeaf - 1)
    BY <2>1, CoversIs
  <2> QED
    BY <2>1, <2>2, TreeOK
<1>2. AddressOf(p) \in Covers(p) /\ AddressOf(p) \in 0 .. (FirstLeaf - 1) /\ DepthOf[p] >= 1
  BY CoversIs, GeometryOK
<1>3. Covers(p) \subseteq Covers(1)
  BY <1>1, <1>2, Nested
<1>4. ~Under(1, p)
  BY <1>1, UnderParent
<1>5. p = 1 \/ Under(p, 1)
  BY <1>1, <1>3, <1>4, CoversIs, Meet
<1> QED
  BY <1>1, <1>3, <1>4, <1>5

-----------------------------------------------------------------------------
(* Marks *)

\* Only the parent being repaired is inconsistent.
LEMMA ConsistentAt ==
    ASSUME TreeConsistent, NEW p \in Nodes, p < FirstLeaf,
           pc # "climb" \/ pos = 1 \/ p # Parent(pos)
    PROVE  NodeConsistent(p)
<1>1. ~(p >= FirstLeaf)
  BY Family, TreeOK
<1> QED
  BY <1>1 DEF TreeConsistent, IsLeaf

\* Below a free position, and below a mark, everything is free.
LEMMA NothingBelow ==
    ASSUME TypeOK, TreeConsistent, pc # "climb", NEW p \in Nodes, st[p] = 0 \/ Marked(p),
           NEW q \in Nodes, Under(q, p)
    PROVE  st[q] = 0
<1> DEFINE S == {x \in Nodes : Under(x, p) /\ st[x] # 0}
<1>1. SUFFICES ASSUME S # {} PROVE FALSE
  OBVIOUS
<1>2. PICK x \in S : \A z \in S : x <= z
  BY <1>1, FirstAndLast
<1>3. x \in Nodes /\ Under(x, p) /\ st[x] # 0 /\ x \in Nat
  BY <1>2, Family
<1> DEFINE a == Parent(x)
<1>4. /\ a = p \/ Under(a, p)
      /\ a \in Nodes /\ a < x /\ a < FirstLeaf /\ a \in Nat
      /\ x = 2 * a \/ x = 2 * a + 1
  <2>1. x # 1 /\ (a = p \/ Under(a, p))
    BY <1>3, UnderParent
  <2>2. a \in Nodes /\ a < x /\ a < FirstLeaf /\ (x = 2 * a \/ x = 2 * a + 1)
    BY <1>3, <2>1, ChildOf
  <2> QED
    BY <2>1, <2>2, Family
<1> HIDE DEF a
<1>5. NodeConsistent(a)
  BY <1>4, ConsistentAt
<1>6. st[a] = 0 => st[x] = 0
  BY <1>4, <1>5, FreeBelow
<1>7. CASE a = p
  BY <1>3, <1>4, <1>6, <1>7 DEF Marked
<1>8. CASE Under(a, p)
  <2>1. a \notin S
    BY <1>2, <1>3, <1>4
  <2> QED
    BY <1>3, <1>4, <1>6, <1>8, <2>1
<1> QED
  BY <1>4, <1>7, <1>8

\* A write changes no mark but the one it is for: the position above it was
\* not full for its own sake.
LEMMA MarksChange ==
    ASSUME TypeOK, NEW w \in Nodes, NEW v \in 0 .. Order, st' = [st EXCEPT ![w] = v],
           Clear(w), w # 1 => NodeConsistent(Parent(w))
    PROVE  /\ \A m \in Nodes : m # w => (Marked(m)' <=> Marked(m))
           /\ Clear(w)'
<1>1. \A q \in Nodes : st'[q] = IF q = w THEN v ELSE st[q]
  BY DEF TypeOK
<1>2. ASSUME NEW m \in Nodes, m # w
      PROVE  Marked(m)' <=> Marked(m)
  <2>1. m \in Nat /\ LocalOffset(m) \in Nat /\ st'[m] = st[m]
    BY <1>1, <1>2, Family
  <2>2. CASE w # 1 /\ Parent(w) = m
    <3>1. /\ m < FirstLeaf /\ (w = 2 * m \/ w = 2 * m + 1)
          /\ 2 * m \in Nodes /\ 2 * m + 1 \in Nodes
          /\ LocalOffset(2 * m) = LocalOffset(m) - 1 /\ LocalOffset(2 * m) >= 1
      BY <2>2, ChildOf, Family
    <3>2. Under(w, m)
      BY <2>2, UnderParent
    <3>3. ~Marked(m)
      BY <3>2 DEF Clear
    <3>4. NodeConsistent(m) /\ st[2 * m] \in Nat /\ st[2 * m + 1] \in Nat
      BY <2>2, <3>1 DEF TypeOK
    <3>5. ASSUME Marked(m)' PROVE FALSE
      <4>1. st[m] = LocalOffset(m) /\ st'[2 * m] = 0 /\ st'[2 * m + 1] = 0
        BY <2>1, <2>2, <3>1, <3>5, ChildOf DEF Marked
      <4>2. st[2 * m] = 0 \/ st[2 * m + 1] = 0
        BY <1>1, <3>1, <4>1, <2>1
      <4>3. CASE st[2 * m] = 0 /\ st[2 * m + 1] = 0
        BY <3>3, <4>1, <4>3 DEF Marked
      <4>4. CASE ~(st[2 * m] = 0 /\ st[2 * m + 1] = 0)
        <5>1. st[m] = 1
          BY <3>4, <4>2, <4>4 DEF NodeConsistent, Smaller, Left, Right
        <5> QED
          BY <2>1, <3>1, <4>1, <5>1
      <4> QED
        BY <4>3, <4>4
    <3> QED
      BY <3>3, <3>5
  <2>3. CASE ~(w # 1 /\ Parent(w) = m)
    <3>1. m < FirstLeaf => 2 * m \in Nodes /\ 2 * m + 1 \in Nodes /\ 2 * m # w /\ 2 * m + 1 # w
      BY <2>1, <2>3, Family
    <3>2. m < FirstLeaf => st'[2 * m] = st[2 * m] /\ st'[2 * m + 1] = st[2 * m + 1]
      BY <1>1, <3>1
    <3> QED
      BY <2>1, <3>2 DEF Marked
  <2> QED
    BY <2>2, <2>3
<1>3. Clear(w)'
  <2>1. ASSUME NEW m \in Nodes, Marked(m)', Under(w, m)
        PROVE  FALSE
    <3>1. m # w
      BY <2>1, UnderParent
    <3> QED
      BY <1>2, <2>1, <3>1 DEF Clear
  <2> QED
    BY <2>1 DEF Clear
<1> QED
  BY <1>2, <1>3

\* A new mark.
LEMMA MarkStep ==
    ASSUME IInv, pc # "climb", NEW w \in Nodes, st[w] = 0, Clear(w), Mark(w)
    PROVE  /\ \A m \in Nodes : Marked(m)' <=> Marked(m) \/ m = w
           /\ Clear(w)' /\ ~Marked(w) /\ pos' = w /\ pc' = "climb"
<1> USE DEF IInv
<1>1. st' = [st EXCEPT ![w] = LocalOffset(w)] /\ pos' = w /\ pc' = "climb"
  BY DEF Mark, Write
<1>2. LocalOffset(w) \in 0 .. Order /\ LocalOffset(w) # 0
  BY Family, TreeOK
<1>3. w # 1 => NodeConsistent(Parent(w))
  BY ChildOf, ConsistentAt
<1>4. Clear(w)' /\ \A m \in Nodes : m # w => (Marked(m)' <=> Marked(m))
  BY <1>1, <1>2, <1>3, MarksChange
<1>5. ~Marked(w)
  BY <1>2 DEF Marked
<1>6. Marked(w)'
  <2>1. w < FirstLeaf => /\ st[2 * w] = 0 /\ st[2 * w + 1] = 0
                         /\ 2 * w \in Nodes /\ 2 * w + 1 \in Nodes /\ 2 * w # w /\ 2 * w + 1 # w
    BY FreeBelow, Family, ConsistentAt
  <2>2. st'[w] = LocalOffset(w)
        /\ (w < FirstLeaf => st'[2 * w] = 0 /\ st'[2 * w + 1] = 0)
    BY <1>1, <2>1 DEF TypeOK
  <2> QED
    BY <2>2 DEF Marked
<1> QED
  BY <1>1, <1>4, <1>5, <1>6

\* A mark taken back.
LEMMA ReleaseStep ==
    ASSUME IInv, pc # "climb", NEW w \in Nodes, Marked(w), Write(w, 0)
    PROVE  /\ \A m \in Nodes : Marked(m)' <=> Marked(m) /\ m # w
           /\ Clear(w)' /\ pos' = w /\ pc' = "climb"
<1> USE DEF IInv
<1>1. st' = [st EXCEPT ![w] = 0] /\ pos' = w /\ pc' = "climb"
  BY DEF Write
<1>2. 0 \in 0 .. Order /\ LocalOffset(w) # 0
  BY Family, TreeOK
<1>3. w # 1 => NodeConsistent(Parent(w))
  BY ChildOf, ConsistentAt
<1>4. Clear(w)
  <2>1. ASSUME NEW m \in Nodes, Marked(m), Under(w, m) PROVE FALSE
    BY <1>2, <2>1, NothingBelow DEF Marked
  <2> QED
    BY <2>1 DEF Clear
<1>5. Clear(w)' /\ \A m \in Nodes : m # w => (Marked(m)' <=> Marked(m))
  BY <1>1, <1>2, <1>3, <1>4, MarksChange
<1>6. ~Marked(w)'
  <2>1. st'[w] = 0
    BY <1>1 DEF TypeOK
  <2> QED
    BY <1>2, <2>1 DEF Marked
<1> QED
  BY <1>1, <1>5, <1>6

\* update_parent_chain changes no mark.
LEMMA ClimbMarks ==
    ASSUME IInv, Clear(pos), Climb
    PROVE  /\ \A m \in Nodes : Marked(m)' <=> Marked(m)
           /\ Clear(pos)'
<1> USE DEF IInv
<1>1. pc = "climb" /\ pos # 1 /\ pos \in Nodes
  BY DEF Climb, ClimbEnds, TypeOK
<1>2. PICK w \in Nodes : w = Parent(pos)
  BY <1>1, ChildOf
<1>3. PICK v : v = TargetParent(w)
  OBVIOUS
<1>4. pos' = w /\ st' = [st EXCEPT ![w] = v]
  BY <1>2, <1>3 DEF Climb
<1>5. /\ w < FirstLeaf /\ w < pos /\ w \in Nat /\ Under(pos, w)
      /\ 2 * w \in Nodes /\ 2 * w + 1 \in Nodes /\ 2 * w # w /\ 2 * w + 1 # w
      /\ LocalOffset(w) \in 1 .. Order
      /\ LocalOffset(2 * w) = LocalOffset(w) - 1 /\ LocalOffset(2 * w + 1) = LocalOffset(w) - 1
  BY <1>1, <1>2, ChildOf, Family, UnderParent
<1>6. v \in 0 .. Order /\ (st[2 * w] = 0 /\ st[2 * w + 1] = 0 => v = 0)
  <2>1. /\ st[2 * w] \in Nat /\ st[2 * w + 1] \in Nat
        /\ st[2 * w] <= LocalOffset(w) - 1 /\ st[2 * w + 1] <= LocalOffset(w) - 1
    BY <1>5 DEF TypeOK
  <2> QED
    BY <1>5, <1>3, <2>1, TreeOK DEF TargetParent, Smaller, Left, Right
<1>7. Clear(w)
  <2>1. ASSUME NEW m \in Nodes, Marked(m), Under(w, m) PROVE FALSE
    <3>1. Under(pos, m)
      BY <1>1, <1>2, <2>1, UnderParent
    <3> QED
      BY <2>1, <3>1 DEF Clear
  <2> QED
    BY <2>1 DEF Clear
<1>8. w # 1 => NodeConsistent(Parent(w))
  <2> SUFFICES ASSUME w # 1 PROVE NodeConsistent(Parent(w))
    OBVIOUS
  <2>1. Parent(w) \in Nodes /\ Parent(w) < FirstLeaf /\ Parent(w) < w
    BY <1>5, ChildOf
  <2>2. Parent(w) # w /\ w = Parent(pos)
    BY <1>2, <1>5, <2>1, Family
  <2> QED
    BY <2>1, <2>2, ConsistentAt
<1>9. Clear(w)' /\ \A m \in Nodes : m # w => (Marked(m)' <=> Marked(m))
  BY <1>4, <1>6, <1>7, <1>8, MarksChange
<1>10. ~Marked(w)
  BY <1>5 DEF Clear
<1>11. ~Marked(w)'
  <2>1. st'[w] = v /\ st'[2 * w] = st[2 * w] /\ st'[2 * w + 1] = st[2 * w + 1]
    BY <1>4, <1>5, <1>6 DEF TypeOK
  <2>2. ASSUME Marked(w)' PROVE FALSE
    <3>1. st'[w] = LocalOffset(w) /\ st'[2 * w] = 0 /\ st'[2 * w + 1] = 0
      BY <1>5, <2>2 DEF Marked
    <3> QED
      BY <1>5, <1>6, <2>1, <3>1
  <2> QED
    BY <2>2
<1> QED
  BY <1>4, <1>9, <1>10, <1>11 DEF Clear

-----------------------------------------------------------------------------
(* The invariant, action by action *)

\* A step that leaves the tree and its owners alone.
LEMMA Quiet ==
    ASSUME BlockInv, UNCHANGED <<st, live, delta>>, StageInv',
           \A p \in Nodes : Reallocating(p) => Reallocating(p)'
    PROVE  BlockInv'
<1> USE DEF BlockInv
<1>1. \A m \in Nodes : Marked(m)' <=> Marked(m)
  BY DEF Marked
<1>2. LiveApart'
  BY DEF LiveApart
<1>3. BlocksMarked'
  BY <1>1 DEF BlocksMarked
<1>4. Masked' = Masked
  BY DEF Masked
<1>5. MarksAreBlocks' /\ MasksComplete'
  BY <1>1, <1>4 DEF MarksAreBlocks, MasksComplete
<1> QED
  BY <1>2, <1>3, <1>5

\* Same marks, same shadows.
LEMMA SameClear ==
    ASSUME UNCHANGED st, NEW p, Clear(p)
    PROVE  Clear(p)'
<1>1. \A m \in Nodes : Marked(m)' <=> Marked(m)
  BY DEF Marked
<1> QED
  BY <1>1 DEF Clear

\* At the start nothing is marked.
LEMMA InitBlockInv == Init => BlockInv
<1> SUFFICES ASSUME Init PROVE BlockInv
  OBVIOUS
<1>1. /\ live = {} /\ delta = FirstLeaf - Slots /\ \A p \in Nodes : st[p] = 0
      /\ pc = IF Slots = FirstLeaf THEN "idle" ELSE "toggle"
      /\ next = IF Slots = FirstLeaf THEN 1 ELSE 3
  BY DEF Init, Right
<1>2. \A p \in Nodes : ~Marked(p)
  BY <1>1, Family DEF Marked
<1>3. LiveApart /\ BlocksMarked /\ MarksAreBlocks
  BY <1>1, <1>2 DEF LiveApart, BlocksMarked, MarksAreBlocks
<1>4. MasksComplete
  <2>1. Masked = {}
    BY <1>1, TreeOK DEF Masked
  <2>2. \A p \in Nodes : Covers(p) # {}
    BY CoversIs
  <2> QED
    BY <2>1, <2>2 DEF MasksComplete
<1>5. StageInv
  <2>1. CASE Slots = FirstLeaf
    BY <1>1, <2>1, TreeOK DEF StageInv
  <2>2. CASE Slots # FirstLeaf
    <3>1. 1 \in Nodes /\ 1 < FirstLeaf /\ 3 \in Nodes /\ Parent(3) = 1
      BY <2>2, TreeOK DEF Nodes, Parent
    <3>2. /\ AddressOf(1) = 0 /\ SizeOf(1) = FirstLeaf
          /\ SizeOf(1) = 2 * SizeOf(2) /\ SizeOf(1) = 2 * SizeOf(3)
          /\ AddressOf(3) = AddressOf(1) + SizeOf(2)
      <4>1. 2 * 1 = 2 /\ 2 * 1 + 1 = 3
        OBVIOUS
      <4> QED
        BY <3>1, <4>1, GeometryOK
    <3>3. 2 \in Nodes
      BY <3>1, TreeOK DEF Nodes
    <3>4. SizeOf(2) \in Nat /\ SizeOf(3) \in Nat
      BY <3>1, <3>3, CoversIs
    <3>5. AddressOf(3) + SizeOf(3) = FirstLeaf
      BY <3>2, <3>4, TreeOK
    <3>6. Slots + delta = FirstLeaf /\ 0 < Slots
      BY <1>1, TreeOK
    <3>7. next = 3 /\ pc = "toggle"
      BY <1>1, <2>2
    <3> QED
      BY <1>1, <3>1, <3>2, <3>5, <3>6, <3>7 DEF StageInv
  <2> QED
    BY <2>1, <2>2
<1> QED
  BY <1>3, <1>4, <1>5 DEF BlockInv

\* buddy_toggle_virtual_slots masks the last slots that are not masked yet,
\* with a position whose parent still reaches into the arena.
LEMMA MaskStep ==
    ASSUME IInv, BlockInv, pc = "toggle", live' = live,
           NEW w \in Nodes, w # 1, st[w] = 0, Mark(w), NEW d \in Nat, delta' = d, d <= delta,
           AddressOf(w) = Slots + d, AddressOf(w) + SizeOf(w) = Slots + delta,
           AddressOf(Parent(w)) < Slots
    PROVE  /\ LiveApart' /\ BlocksMarked' /\ MarksAreBlocks' /\ MasksComplete'
           /\ Clear(w)'
<1> USE DEF BlockInv
<1>1. live = {} /\ live' = {} /\ delta \in Nat /\ Slots \in Nat
  BY TreeOK DEF StageInv, IInv, TypeOK
<1>2. /\ Covers(w) = (Slots + d) .. (Slots + delta - 1)
      /\ AddressOf(w) \in Nat /\ SizeOf(w) \in Nat /\ SizeOf(w) >= 1
  <2>1. /\ AddressOf(w) \in Nat /\ SizeOf(w) \in Nat /\ SizeOf(w) >= 1
        /\ Covers(w) = AddressOf(w) .. (AddressOf(w) + SizeOf(w) - 1)
    BY CoversIs
  <2>2. AddressOf(w) = Slots + d /\ AddressOf(w) + SizeOf(w) - 1 = Slots + delta - 1
    BY <1>1, <2>1
  <2>3. Covers(w) = (Slots + d) .. (Slots + delta - 1)
    BY <2>1, <2>2, Zenon
  <2> QED
    BY <2>1, <2>3
<1>3. Covers(w) \subseteq 0 .. (FirstLeaf - 1)
  BY InTree
<1>4. /\ Masked = (Slots + delta) .. (FirstLeaf - 1)
      /\ Masked' = (Slots + d) .. (FirstLeaf - 1)
  BY DEF Masked
<1>5. Masked \subseteq Masked' /\ Covers(w) \subseteq Masked' /\ Covers(w) \cap Masked = {}
      /\ Covers(w) # {}
  <2>1. Masked \subseteq Masked'
    BY <1>1, <1>4, TreeOK
  <2>2. ASSUME NEW x \in Covers(w) PROVE x \in Masked'
    <3>1. x \in (Slots + d) .. (Slots + delta - 1) /\ x \in 0 .. (FirstLeaf - 1)
      BY <1>2, <1>3
    <3>2. x \in (Slots + d) .. (FirstLeaf - 1)
      BY <1>1, <3>1, TreeOK
    <3> QED
      BY <1>4, <3>2
  <2>3. Covers(w) \cap Masked = {}
    BY <1>1, <1>2, <1>4, TreeOK
  <2>4. Covers(w) # {}
    BY CoversIs
  <2> QED
    BY <2>1, <2>2, <2>3, <2>4
<1>6. ASSUME NEW x \in Masked', x \notin Masked PROVE x \in Covers(w)
  BY <1>1, <1>2, <1>4, <1>6, TreeOK
<1>7. \A m \in Nodes : Marked(m) => Covers(m) \subseteq Masked
  BY <1>1 DEF MarksAreBlocks
<1>8. Clear(w)
  <2>1. ASSUME NEW m \in Nodes, Marked(m), Under(w, m) PROVE FALSE
    BY <1>5, <1>7, <2>1 DEF Under
  <2> QED
    BY <2>1 DEF Clear
<1>9. /\ \A m \in Nodes : Marked(m)' <=> Marked(m) \/ m = w
      /\ Clear(w)'
  BY <1>8, MarkStep
<1>10. LiveApart' /\ BlocksMarked'
  BY <1>1 DEF LiveApart, BlocksMarked
<1>11. MarksAreBlocks'
  BY <1>5, <1>7, <1>9 DEF MarksAreBlocks
<1>12. ASSUME NEW p \in Nodes, Covers(p) \subseteq Masked'
       PROVE  \E m \in Nodes : /\ Marked(m)' /\ Covers(m) \subseteq Masked'
                               /\ p = m \/ Under(p, m)
  <2>1. CASE Covers(p) \cap Covers(w) = {}
    <3>1. Covers(p) \subseteq Masked
      BY <1>6, <1>12, <2>1
    <3>2. PICK m \in Nodes : Marked(m) /\ Covers(m) \subseteq Masked /\ (p = m \/ Under(p, m))
      BY <3>1 DEF MasksComplete
    <3> QED
      BY <1>5, <1>9, <3>2
  <2>2. CASE Covers(p) \cap Covers(w) # {}
    <3>1. ~Under(w, p)
      <4> SUFFICES ASSUME Under(w, p) PROVE FALSE
        OBVIOUS
      <4>1. Parent(w) = p \/ Under(Parent(w), p)
        BY UnderParent
      <4>2. Parent(w) \in Nodes /\ Covers(Parent(w)) \subseteq Covers(p)
        BY <4>1, ChildOf DEF Under
      <4>3. AddressOf(Parent(w)) \in Masked' /\ AddressOf(Parent(w)) \in Nat
        BY <1>12, <4>2, CoversIs
      <4> QED
        BY <1>1, <1>4, <4>3, TreeOK
    <3>2. p = w \/ Under(p, w)
      BY <2>2, <3>1, Meet
    <3> QED
      BY <1>5, <1>9, <3>2
  <2> QED
    BY <2>1, <2>2
<1>13. MasksComplete'
  BY <1>12 DEF MasksComplete
<1> QED
  BY <1>9, <1>10, <1>11, <1>13

\* Masking the slots past the arena, one block at a time from the end.
LEMMA ToggleBlockInv ==
    ASSUME IInv, BlockInv, ToggleHere \/ ToggleDescend \/ ToggleRight
    PROVE  BlockInv'
<1> USE DEF BlockInv
<1>1. /\ pc = "toggle" /\ next \in Nodes /\ next > 1 /\ st[next] = 0 /\ live = {}
      /\ delta \in 1 .. SizeOf(next) /\ AddressOf(next) + SizeOf(next) = Slots + delta
      /\ AddressOf(Parent(next)) < Slots
  BY DEF ToggleHere, ToggleDescend, ToggleRight, LoopInvariant, StageInv, IInv, TypeOK
<1>2. PICK n \in Nodes, d \in Nat : n = next /\ d = delta
  BY <1>1
<1>3. /\ n > 1 /\ n \in Nat /\ st[n] = 0 /\ d \in 1 .. SizeOf(n) /\ n # 1
      /\ AddressOf(n) + SizeOf(n) = Slots + d /\ AddressOf(Parent(n)) < Slots
      /\ AddressOf(n) \in Nat /\ SizeOf(n) \in Nat /\ SizeOf(n) >= 1 /\ Slots \in Nat
  BY <1>1, <1>2, CoversIs, Family, TreeOK
<1>4. d # SizeOf(n) =>
        /\ n < FirstLeaf /\ 2 * n \in Nodes /\ 2 * n + 1 \in Nodes
        /\ Parent(2 * n) = n /\ Parent(2 * n + 1) = n
        /\ SizeOf(n) = 2 * SizeOf(2 * n) /\ SizeOf(n) = 2 * SizeOf(2 * n + 1)
        /\ AddressOf(2 * n) = AddressOf(n)
        /\ AddressOf(2 * n + 1) = AddressOf(n) + SizeOf(2 * n)
        /\ SizeOf(2 * n) \in Nat /\ SizeOf(2 * n) >= 1
        /\ SizeOf(2 * n + 1) \in Nat
        /\ SizeOf(n) \div 2 = SizeOf(2 * n)
        /\ st[2 * n + 1] = 0
  <2> SUFFICES ASSUME d # SizeOf(n)
               PROVE  /\ n < FirstLeaf /\ 2 * n \in Nodes /\ 2 * n + 1 \in Nodes
                      /\ Parent(2 * n) = n /\ Parent(2 * n + 1) = n
                      /\ SizeOf(n) = 2 * SizeOf(2 * n) /\ SizeOf(n) = 2 * SizeOf(2 * n + 1)
                      /\ AddressOf(2 * n) = AddressOf(n)
                      /\ AddressOf(2 * n + 1) = AddressOf(n) + SizeOf(2 * n)
                      /\ SizeOf(2 * n) \in Nat /\ SizeOf(2 * n) >= 1
                      /\ SizeOf(2 * n + 1) \in Nat
                      /\ SizeOf(n) \div 2 = SizeOf(2 * n)
                      /\ st[2 * n + 1] = 0
    OBVIOUS
  <2>1. n < FirstLeaf
    <3>1. n >= FirstLeaf => SizeOf(n) = 1
      BY GeometryOK
    <3> QED
      BY <1>3, <3>1, TreeOK
  <2>2. /\ 2 * n \in Nodes /\ 2 * n + 1 \in Nodes
        /\ Parent(2 * n) = n /\ Parent(2 * n + 1) = n
    BY <2>1, Family
  <2>3. /\ SizeOf(n) = 2 * SizeOf(2 * n) /\ SizeOf(n) = 2 * SizeOf(2 * n + 1)
        /\ AddressOf(2 * n) = AddressOf(n)
        /\ AddressOf(2 * n + 1) = AddressOf(n) + SizeOf(2 * n)
    BY <2>1, GeometryOK
  <2>4. SizeOf(2 * n) \in Nat /\ SizeOf(2 * n) >= 1 /\ SizeOf(2 * n + 1) \in Nat
    BY <2>2, CoversIs
  <2>5. SizeOf(n) \div 2 = SizeOf(2 * n)
    BY <2>3, <2>4
  <2>6. st[2 * n + 1] = 0
    BY <1>1, <1>3, <2>1, FreeBelow, ConsistentAt DEF IInv
  <2> QED
    BY <2>1, <2>2, <2>3, <2>4, <2>5, <2>6
<1>5. CASE ToggleHere
  <2>1. d = SizeOf(n) /\ Mark(n) /\ delta' = 0 /\ next' = n /\ live' = live
        /\ call'.op = "init"
    BY <1>2, <1>5 DEF ToggleHere, NoCall
  <2>2. AddressOf(n) = Slots + 0
    BY <1>3, <2>1
  <2>3. /\ LiveApart' /\ BlocksMarked' /\ MarksAreBlocks' /\ MasksComplete'
        /\ Clear(n)' /\ pos' = n /\ pc' = "climb"
    <3>1. 0 \in Nat /\ 0 <= delta
      BY <1>1, <1>2
    <3> QED
      BY <1>1, <1>2, <1>3, <2>1, <2>2, <3>1, MaskStep DEF Mark, Write
  <2>4. StageInv'
    BY <2>1, <2>3 DEF StageInv, Clear
  <2> QED
    BY <2>3, <2>4
<1>6. CASE ToggleDescend
  <2>1. d # SizeOf(n) /\ d <= SizeOf(n) \div 2 /\ next' = 2 * n + 1
        /\ UNCHANGED <<st, pc, pos, delta, call, live>>
    BY <1>2, <1>6 DEF ToggleDescend, Right
  <2>2. /\ AddressOf(2 * n + 1) + SizeOf(2 * n + 1) = Slots + d
        /\ AddressOf(Parent(2 * n + 1)) < Slots
    BY <1>3, <1>4, <2>1
  <2>3. StageInv'
    BY <1>1, <1>2, <2>1, <2>2 DEF StageInv
  <2> QED
    BY <1>1, <2>1, <2>3, Quiet DEF Reallocating
<1>7. CASE ToggleRight
  <2>1. /\ d # SizeOf(n) /\ d > SizeOf(n) \div 2 /\ Mark(2 * n + 1) /\ live' = live
        /\ delta' = d - SizeOf(n) \div 2 /\ next' = 2 * n /\ call'.op = "init"
    BY <1>2, <1>7 DEF ToggleRight, Right, Left, NoCall
  <2>2. PICK w \in Nodes, e \in Nat : w = 2 * n + 1 /\ e = d - SizeOf(n) \div 2
    BY <1>3, <1>4, <2>1
  <2>3. /\ delta' = e /\ e <= d /\ e > 0 /\ Mark(w) /\ st[w] = 0 /\ w # 1
        /\ AddressOf(w) = Slots + e /\ AddressOf(w) + SizeOf(w) = Slots + d
        /\ AddressOf(Parent(w)) < Slots
    BY <1>3, <1>4, <2>1, <2>2
  <2>4. /\ LiveApart' /\ BlocksMarked' /\ MarksAreBlocks' /\ MasksComplete'
        /\ Clear(w)' /\ pos' = w /\ pc' = "climb"
    BY <1>1, <1>2, <2>1, <2>3, MaskStep DEF Mark, Write
  <2>5. AddressOf(2 * n) + SizeOf(2 * n) = Slots + e /\ AddressOf(Parent(2 * n)) < Slots
    BY <1>3, <1>4, <2>1, <2>2
  <2>6. StageInv'
    BY <1>1, <2>1, <2>3, <2>4, <2>5 DEF StageInv, Clear
  <2> QED
    BY <2>4, <2>6
<1> QED
  BY <1>5, <1>6, <1>7

\* update_parent_chain.
LEMMA ClimbBlockInv ==
    ASSUME IInv, BlockInv, Climb \/ ClimbDone
    PROVE  BlockInv'
<1> USE DEF BlockInv
<1>1. pc = "climb" /\ Clear(pos)
  BY DEF Climb, ClimbDone, StageInv
<1>2. CASE Climb
  <2>1. UNCHANGED <<pc, next, delta, call, live>>
    BY <1>2 DEF Climb
  <2>2. Clear(pos)' /\ \A m \in Nodes : Marked(m)' <=> Marked(m)
    BY <1>1, <1>2, ClimbMarks
  <2>3. Masked' = Masked
    BY <2>1 DEF Masked
  <2>4. LiveApart' /\ BlocksMarked'
    BY <2>1, <2>2 DEF LiveApart, BlocksMarked, Reallocating
  <2>5. MarksAreBlocks' /\ MasksComplete'
    BY <2>1, <2>2, <2>3 DEF MarksAreBlocks, MasksComplete
  <2>6. StageInv'
    BY <2>1, <2>2 DEF StageInv
  <2> QED
    BY <2>4, <2>5, <2>6
<1>3. CASE ClimbDone
  <2>1. UNCHANGED <<st, next, delta, live>> /\ pos' = 1
    BY <1>3 DEF ClimbDone
  <2>2. Clear(1)'
    BY InTree DEF Clear
  <2>3. CASE call.op = "init" /\ delta > 0
    <3>1. pc' = "toggle" /\ call' = call
      BY <1>3, <2>3 DEF ClimbDone
    <3>2. StageInv'
      BY <1>1, <2>1, <2>3, <3>1 DEF StageInv
    <3> QED
      BY <2>1, <2>3, <3>2, Quiet DEF Reallocating
  <2>4. CASE call.op = "realloc"
    <3>1. pc' = "search" /\ call' = call
      BY <1>3, <2>4 DEF ClimbDone
    <3>2. StageInv'
      BY <1>1, <2>1, <2>2, <2>4, <3>1 DEF StageInv
    <3> QED
      BY <2>1, <3>1, <3>2, Quiet DEF Reallocating
  <2>5. CASE ~(call.op = "init" /\ delta > 0) /\ call.op # "realloc"
    <3>1. pc' = "idle"
      BY <1>3, <2>5 DEF ClimbDone
    <3>2. StageInv'
      BY <1>1, <2>1, <2>5, <3>1 DEF StageInv
    <3> QED
      BY <2>1, <2>5, <3>2, Quiet DEF Reallocating
  <2> QED
    BY <2>3, <2>4, <2>5
<1> QED
  BY <1>2, <1>3

\* A free position that no mark hides overlaps nothing that is taken.
LEMMA FreeSpot ==
    ASSUME IInv, BlockInv, pc # "climb", delta = 0, NEW w \in Nodes, st[w] = 0, Clear(w)
    PROVE  /\ \A m \in Nodes : Marked(m) => m # w /\ Covers(m) \cap Covers(w) = {}
           /\ Covers(w) \subseteq 0 .. (Slots - 1)
<1> USE DEF BlockInv
<1>1. ASSUME NEW m \in Nodes, Marked(m)
      PROVE  m # w /\ Covers(m) \cap Covers(w) = {}
  <2>1. st[m] # 0
    BY <1>1, Family DEF Marked
  <2>2. ~Under(m, w)
    BY <2>1, NothingBelow DEF IInv
  <2>3. ~Under(w, m)
    BY <1>1 DEF Clear
  <2> QED
    BY <2>1, <2>2, <2>3, Meet
<1>2. ASSUME NEW x \in Covers(w)
      PROVE  x \in 0 .. (Slots - 1)
  <2>1. x \in 0 .. (FirstLeaf - 1)
    BY InTree
  <2>2. ASSUME x >= Slots PROVE FALSE
    <3>1. PICK p \in Nodes : p = FirstLeaf + x
      BY <2>1, TreeOK DEF Nodes
    <3>2. SizeOf(p) = 1 /\ AddressOf(p) = x
      <4>1. p >= FirstLeaf /\ p - FirstLeaf = x
        BY <2>1, <3>1, TreeOK
      <4> QED
        BY <4>1, GeometryOK
    <3>3. Covers(p) = x .. (x + 1 - 1)
      BY <3>2, CoversIs
    <3>4. Covers(p) = {x}
      BY <2>1, <3>3
    <3>5. Covers(p) \subseteq Masked
      BY <2>1, <2>2, <3>4, TreeOK DEF Masked
    <3>6. PICK m \in Nodes : Marked(m) /\ (p = m \/ Under(p, m))
      BY <3>5 DEF MasksComplete
    <3>7. x \in Covers(m)
      BY <3>4, <3>6 DEF Under
    <3> QED
      BY <1>1, <1>2, <3>6, <3>7
  <2> QED
    BY <2>1, <2>2, TreeOK
<1> QED
  BY <1>1, <1>2

\* buddy_tree_find_free and what follows it.
LEMMA SearchBlockInv ==
    ASSUME IInv, BlockInv, SearchDown \/ SearchFound \/ MallocFails \/ ReallocFails
    PROVE  BlockInv'
<1> USE DEF BlockInv
<1>1. /\ pc = "search" /\ pos \in Nodes /\ call \in CallType /\ Clear(pos)
      /\ delta \in Nat /\ delta = 0
      /\ DepthOf[pos] <= call.depth /\ call.depth \in 1 .. Order
      /\ pos # 1 => st[pos] <= call.depth - DepthOf[pos]
      /\ DepthOf[pos] \in Nat /\ DepthOf[pos] >= 1 /\ st[pos] \in Nat
  <2>1. pc = "search" /\ pos \in Nodes /\ call \in CallType /\ delta \in Nat /\ st[pos] \in Nat
    BY DEF SearchDown, SearchFound, MallocFails, ReallocFails, IInv, TypeOK, CallType
  <2>2. Clear(pos) /\ delta = 0
    BY <2>1 DEF StageInv
  <2> QED
    BY <2>1, <2>2, CoversIs DEF IInv, LoopInvariant, CallType
<1>2. ~NotFound => st[pos] <= call.depth - DepthOf[pos]
  BY <1>1, TreeOK DEF NotFound
<1>3. call.op = "realloc" =>
        /\ call.origin \in Nodes /\ st[call.origin] = 0 /\ BlockOf(call.origin) \in live
  BY <1>1 DEF IInv, LoopInvariant, StageInv
<1>4. CASE SearchDown
  <2>1. /\ UNCHANGED <<st, pc, next, delta, call, live>> /\ ~NotFound
        /\ DepthOf[pos] # call.depth
        /\ pos' = 2 * pos \/ pos' = 2 * pos + 1
    BY <1>4 DEF SearchDown, Found, PreferredChild, Left, Right
  <2>2. pos < FirstLeaf
    BY <1>1, <2>1, TreeOK, Family
  <2>3. PICK c \in Nodes : c = pos' /\ Parent(c) = pos /\ c # 1
    BY <1>1, <2>1, <2>2, Family
  <2>4. ~Marked(pos)
    BY <1>1, <1>2, <2>1, TreeOK DEF Marked, LocalOffset
  <2>5. Clear(c)
    <3>1. ASSUME NEW m \in Nodes, Marked(m), Under(c, m) PROVE FALSE
      <4>1. pos = m \/ Under(pos, m)
        BY <2>3, <3>1, UnderParent
      <4> QED
        BY <1>1, <2>4, <3>1, <4>1 DEF Clear
    <3> QED
      BY <3>1 DEF Clear
  <2>6. Clear(c)'
    BY <2>1, <2>5, SameClear
  <2>7. StageInv'
    BY <1>1, <2>1, <2>3, <2>6 DEF StageInv, Clear
  <2> QED
    BY <2>1, <2>7, Quiet DEF Reallocating
<1>5. CASE SearchFound
  <2>1. /\ ~NotFound /\ DepthOf[pos] = call.depth /\ Mark(pos) /\ UNCHANGED <<next, delta>>
        /\ call'.op = "malloc"
        /\ live' = (live \ (IF call.op = "realloc" THEN {BlockOf(call.origin)} ELSE {}))
                     \cup {BlockOf(pos)}
    BY <1>5 DEF SearchFound, Found, NoCall
  <2>2. PICK w \in Nodes : w = pos
    BY <1>1
  <2>3. PICK own : own = IF call.op = "realloc" THEN {BlockOf(call.origin)} ELSE {}
    OBVIOUS
  <2>4. st[w] = 0 /\ Clear(w) /\ Mark(w) /\ live' = (live \ own) \cup {BlockOf(w)}
    BY <1>1, <1>2, <2>1, <2>2, <2>3
  <2>5. /\ \A m \in Nodes : Marked(m)' <=> Marked(m) \/ m = w
        /\ Clear(w)' /\ pos' = w /\ pc' = "climb"
    BY <1>1, <2>4, MarkStep
  <2>6. /\ \A m \in Nodes : Marked(m) => m # w /\ Covers(m) \cap Covers(w) = {}
        /\ Covers(w) \subseteq 0 .. (Slots - 1)
    BY <1>1, <2>4, FreeSpot
  <2>7. ASSUME NEW p \in Nodes, BlockOf(p) \in live', p # w
        PROVE  BlockOf(p) \in live /\ Marked(p)
    <3>1. BlockOf(p) \in live /\ BlockOf(p) \notin own
      BY <2>4, <2>7, SameBlock
    <3>2. ~Reallocating(p)
      BY <2>3, <3>1 DEF Reallocating
    <3> QED
      BY <3>1, <3>2 DEF BlocksMarked
  <2>8. LiveApart'
    <3>1. ASSUME NEW p \in Nodes, BlockOf(p) \in live'
          PROVE  Covers(p) \subseteq 0 .. (Slots - 1)
      BY <2>6, <2>7, <3>1 DEF LiveApart
    <3>2. ASSUME NEW p \in Nodes, NEW q \in Nodes, BlockOf(p) \in live', BlockOf(q) \in live',
                 p # q
          PROVE  Covers(p) \cap Covers(q) = {}
      <4>1. CASE p # w /\ q # w
        BY <2>7, <3>2, <4>1 DEF LiveApart
      <4>2. CASE p = w
        <5>1. Covers(q) \cap Covers(w) = {}
          BY <2>6, <2>7, <3>2, <4>2
        <5> QED
          BY <4>2, <5>1
      <4>3. CASE q = w
        BY <2>6, <2>7, <3>2, <4>3
      <4> QED
        BY <4>1, <4>2, <4>3
    <3> QED
      BY <3>1, <3>2 DEF LiveApart
  <2>9. BlocksMarked'
    BY <2>5, <2>7 DEF BlocksMarked
  <2>10. Masked' = Masked
    BY <2>1 DEF Masked
  <2>11. MarksAreBlocks'
    <3>1. ASSUME NEW m \in Nodes, Marked(m)'
          PROVE  BlockOf(m) \in live' \/ Covers(m) \subseteq Masked
      <4>1. CASE m = w
        BY <2>4, <4>1
      <4>2. CASE Marked(m)
        <5>1. BlockOf(m) \notin own
          <6>1. st[m] # 0
            BY <4>2, Family DEF Marked
          <6> QED
            BY <1>3, <2>3, <6>1, SameBlock
        <5> QED
          BY <2>4, <4>2, <5>1 DEF MarksAreBlocks
      <4> QED
        BY <2>5, <3>1, <4>1, <4>2
    <3> QED
      BY <2>10, <3>1 DEF MarksAreBlocks
  <2>12. MasksComplete'
    BY <2>5, <2>10 DEF MasksComplete
  <2>13. StageInv'
    BY <1>1, <2>1, <2>5 DEF StageInv, Clear
  <2> QED
    BY <2>8, <2>9, <2>11, <2>12, <2>13
<1>6. CASE MallocFails
  <2>1. /\ UNCHANGED <<st, pos, next, delta, live>> /\ pc' = "idle" /\ call.op = "malloc"
    BY <1>6 DEF MallocFails
  <2>2. StageInv'
    BY <1>1, <2>1 DEF StageInv
  <2> QED
    BY <2>1, <2>2, Quiet DEF Reallocating
<1>7. CASE ReallocFails
  <2>1. /\ call.op = "realloc" /\ Mark(call.origin) /\ call'.op = "malloc"
        /\ UNCHANGED <<next, delta, live>>
    BY <1>7 DEF ReallocFails, NoCall
  <2>2. PICK w \in Nodes : w = call.origin
    BY <1>3, <2>1
  <2>3. st[w] = 0 /\ BlockOf(w) \in live /\ Mark(w)
    BY <1>3, <2>1, <2>2
  <2>4. Clear(w)
    <3>1. ASSUME NEW m \in Nodes, Marked(m), Under(w, m) PROVE FALSE
      <4>1. /\ Covers(w) \subseteq Covers(m) /\ AddressOf(w) \in Covers(w) /\ m # w
            /\ Covers(w) \subseteq 0 .. (Slots - 1)
        BY <2>3, <3>1, CoversIs, UnderParent DEF Under, LiveApart
      <4>2. CASE BlockOf(m) \in live
        BY <2>3, <4>1, <4>2 DEF LiveApart
      <4>3. CASE Covers(m) \subseteq Masked
        <5>1. AddressOf(w) \in Masked /\ AddressOf(w) \in 0 .. (Slots - 1)
          BY <4>1, <4>3
        <5> QED
          BY <1>1, <5>1, TreeOK DEF Masked
      <4> QED
        BY <3>1, <4>2, <4>3 DEF MarksAreBlocks
    <3> QED
      BY <3>1 DEF Clear
  <2>5. /\ \A m \in Nodes : Marked(m)' <=> Marked(m) \/ m = w
        /\ Clear(w)' /\ pos' = w /\ pc' = "climb"
    BY <1>1, <2>3, <2>4, MarkStep
  <2>6. Masked' = Masked
    BY <2>1 DEF Masked
  <2>7. LiveApart'
    BY <2>1 DEF LiveApart
  <2>8. BlocksMarked'
    BY <2>1, <2>2, <2>5 DEF BlocksMarked, Reallocating
  <2>9. MarksAreBlocks'
    BY <2>1, <2>3, <2>5, <2>6 DEF MarksAreBlocks
  <2>10. MasksComplete'
    BY <2>5, <2>6 DEF MasksComplete
  <2>11. StageInv'
    BY <1>1, <2>1, <2>5 DEF StageInv, Clear
  <2> QED
    BY <2>7, <2>8, <2>9, <2>10, <2>11
<1> QED
  BY <1>4, <1>5, <1>6, <1>7

\* position_for_address finds blocks that are owned, and nothing else.
LEMMA LookupFindsBlocks ==
    ASSUME IInv, BlockInv, pc = "lookup", st[pos] = LocalOffset(pos), ~Misses
    PROVE  /\ pos \in Nodes /\ Marked(pos) /\ BlockOf(pos) \in live
           /\ AddressOf(pos) = call.addr
<1> USE DEF BlockInv, IInv
<1>1. pos \in Nodes /\ delta \in Nat /\ delta = 0 /\ call.addr \in 0 .. (Slots - 1)
  BY DEF TypeOK, StageInv
<1>2. st[pos] # 0
  BY <1>1, Family
<1>3. AddressOf(pos) = call.addr
  BY <1>2 DEF Misses
<1>4. Marked(pos)
  <2> SUFFICES ASSUME pos < FirstLeaf PROVE st[2 * pos] = 0 /\ st[2 * pos + 1] = 0
    BY DEF Marked
  <2>1. NodeConsistent(pos)
    BY <1>1, ConsistentAt
  <2>2. ~(pos >= FirstLeaf) /\ LocalOffset(2 * pos) = LocalOffset(pos) - 1
        /\ LocalOffset(pos) \in Nat /\ LocalOffset(2 * pos) \in Nat /\ LocalOffset(2 * pos) >= 1
    BY <1>1, Family, TreeOK
  <2>3. st[2 * pos] = 0 \/ st[2 * pos + 1] = 0
    BY <2>2 DEF LoopInvariant, IsLeaf, Left, Right
  <2>4. st[2 * pos] \in Nat /\ st[2 * pos + 1] \in Nat
    BY <1>1, Family DEF TypeOK
  <2>5. ~(st[2 * pos] = 0 /\ st[2 * pos + 1] = 0) => st[pos] = 1
    BY <2>1, <2>3, <2>4 DEF NodeConsistent, Smaller, Left, Right
  <2> QED
    BY <2>2, <2>5
<1>5. BlockOf(pos) \in live
  <2>1. ~(Covers(pos) \subseteq Masked)
    <3>1. AddressOf(pos) \in Covers(pos)
      BY <1>1, CoversIs
    <3>2. call.addr \notin Masked
      BY <1>1, TreeOK DEF Masked
    <3> QED
      BY <1>3, <3>1, <3>2
  <2> QED
    BY <1>1, <1>4, <2>1 DEF MarksAreBlocks
<1> QED
  BY <1>1, <1>3, <1>4, <1>5

\* position_for_address and its callers.
LEMMA LookupBlockInv ==
    ASSUME IInv, BlockInv, LookupUp \/ LookupFails \/ ReleaseRefused \/ Release
    PROVE  BlockInv'
<1> USE DEF BlockInv
<1>1. /\ pc = "lookup" /\ pos \in Nodes /\ call \in CallType /\ delta \in Nat /\ delta = 0
      /\ call.op \in {"realloc", "free", "safe_free"}
  BY DEF LookupUp, LookupFails, ReleaseRefused, Release, IInv, TypeOK, CallType,
         LoopInvariant, StageInv
<1>2. CASE LookupUp
  <2>1. UNCHANGED <<st, pc, next, delta, call, live>>
    BY <1>2 DEF LookupUp
  <2>2. StageInv'
    BY <1>1, <2>1 DEF StageInv
  <2> QED
    BY <2>1, <2>2, Quiet DEF Reallocating
<1>3. CASE LookupFails \/ ReleaseRefused
  <2>1. UNCHANGED <<st, pos, next, delta, live>> /\ pc' = "idle"
    BY <1>3 DEF LookupFails, ReleaseRefused
  <2>2. StageInv'
    BY <1>1, <2>1 DEF StageInv
  <2> QED
    BY <1>1, <2>1, <2>2, Quiet DEF Reallocating
<1>4. CASE Release
  <2>1. /\ st[pos] = LocalOffset(pos) /\ ~Misses /\ Write(pos, 0)
        /\ live' = IF call.op = "realloc" THEN live ELSE live \ {BlockOf(pos)}
        /\ call' = [call EXCEPT !.origin = pos] /\ UNCHANGED <<next, delta>>
    BY <1>4 DEF Release
  <2>2. Marked(pos) /\ BlockOf(pos) \in live
    BY <1>1, <2>1, LookupFindsBlocks
  <2>3. PICK w \in Nodes : w = pos
    BY <1>1
  <2>4. Marked(w) /\ BlockOf(w) \in live /\ Write(w, 0)
        /\ live' = IF call.op = "realloc" THEN live ELSE live \ {BlockOf(w)}
    BY <2>1, <2>2, <2>3
  <2>5. call'.op = call.op /\ call'.origin = w
    BY <1>1, <2>1, <2>3 DEF CallType
  <2>6. /\ \A m \in Nodes : Marked(m)' <=> Marked(m) /\ m # w
        /\ Clear(w)' /\ pos' = w /\ pc' = "climb"
    BY <1>1, <2>4, ReleaseStep
  <2>7. ASSUME NEW p \in Nodes, BlockOf(p) \in live
        PROVE  Marked(p)
    BY <1>1, <2>7 DEF BlocksMarked, Reallocating
  <2>8. live' \subseteq live
    BY <2>4
  <2>9. LiveApart'
    BY <2>8 DEF LiveApart
  <2>10. BlocksMarked'
    <3>1. ASSUME NEW p \in Nodes, BlockOf(p) \in live'
          PROVE  Marked(p)' \/ Reallocating(p)'
      <4>1. CASE p # w
        BY <2>6, <2>7, <2>8, <3>1, <4>1
      <4>2. CASE p = w
        BY <2>4, <2>5, <2>6, <3>1, <4>2 DEF Reallocating
      <4> QED
        BY <4>1, <4>2
    <3> QED
      BY <3>1 DEF BlocksMarked
  <2>11. Masked' = Masked
    BY <2>1 DEF Masked
  <2>12. MarksAreBlocks'
    <3>1. ASSUME NEW m \in Nodes, Marked(m)'
          PROVE  BlockOf(m) \in live' \/ Covers(m) \subseteq Masked
      <4>1. Marked(m) /\ BlockOf(m) # BlockOf(w)
        BY <2>6, <3>1, SameBlock
      <4> QED
        BY <2>4, <4>1 DEF MarksAreBlocks
    <3> QED
      BY <2>11, <3>1 DEF MarksAreBlocks
  <2>13. MasksComplete'
    <3>1. ~(Covers(w) \subseteq Masked)
      <4>1. AddressOf(w) \in Covers(w) /\ Covers(w) \subseteq 0 .. (Slots - 1)
        BY <2>4, CoversIs DEF LiveApart
      <4>2. AddressOf(w) \notin Masked
        BY <1>1, <4>1, TreeOK DEF Masked
      <4> QED
        BY <4>1, <4>2
    <3> QED
      BY <2>6, <2>11, <3>1 DEF MasksComplete
  <2>14. StageInv'
    BY <1>1, <2>1, <2>4, <2>5, <2>6 DEF StageInv, Clear
  <2> QED
    BY <2>9, <2>10, <2>12, <2>13, <2>14
<1> QED
  BY <1>2, <1>3, <1>4

\* The calls.
LEMMA CallBlockInv ==
    ASSUME IInv, BlockInv, Call
    PROVE  BlockInv'
<1> USE DEF BlockInv
<1>1. pc = "idle" /\ UNCHANGED <<st, next, delta, live>>
  BY DEF Call, Malloc, Realloc, Free, SafeFree, StartLookup
<1>2. delta \in Nat /\ delta = 0
  BY <1>1 DEF IInv, TypeOK, StageInv
<1>3. ASSUME pc' = "search", pos' = 1, call'.op = "malloc"
      PROVE  BlockInv'
  <2>1. Clear(1)'
    BY InTree DEF Clear
  <2>2. StageInv'
    BY <1>1, <1>2, <1>3, <2>1 DEF StageInv
  <2> QED
    BY <1>1, <2>2, Quiet DEF Reallocating
<1>4. ASSUME pc' = "lookup", call'.addr \in 0 .. (Slots - 1)
      PROVE  BlockInv'
  <2>1. StageInv'
    BY <1>1, <1>2, <1>4 DEF StageInv
  <2> QED
    BY <1>1, <2>1, Quiet DEF Reallocating
<1>5. ASSUME NEW size \in Sizes, Malloc(size) PROVE BlockInv'
  <2>1. pc' = "search" /\ pos' = 1 /\ call'.op = "malloc"
    BY <1>5 DEF Malloc, NoCall
  <2> QED
    BY <1>3, <2>1
<1>6. ASSUME NEW b \in live, NEW size \in Sizes, Realloc(b, size) PROVE BlockInv'
  <2>1. pc' = "lookup" /\ call'.addr = b[1]
    BY <1>6 DEF Realloc, StartLookup, NoCall
  <2>2. PICK p \in Nodes : b = BlockOf(p)
    BY DEF IInv, LiveAreBlocks
  <2>3. b[1] = AddressOf(p) /\ AddressOf(p) \in Covers(p) /\ Covers(p) \subseteq 0 .. (Slots - 1)
    <3>1. b[1] = AddressOf(p)
      BY <2>2 DEF BlockOf
    <3> QED
      BY <2>2, <3>1, CoversIs DEF LiveApart
  <2> QED
    BY <1>4, <2>1, <2>3
<1>7. ASSUME NEW a \in 0 .. Slots - 1, Free(a) PROVE BlockInv'
  <2>1. pc' = "lookup" /\ call'.addr = a
    BY <1>7 DEF Free, StartLookup, NoCall
  <2> QED
    BY <1>4, <2>1
<1>8. ASSUME NEW a \in 0 .. Slots - 1, NEW size \in Sizes, SafeFree(a, size) PROVE BlockInv'
  <2>1. pc' = "lookup" /\ call'.addr = a
    BY <1>8 DEF SafeFree, StartLookup, NoCall
  <2> QED
    BY <1>4, <2>1
<1> QED
  BY <1>5, <1>6, <1>7, <1>8 DEF Call

\* Both invariants together are inductive.
THEOREM BlockInvariance == Spec => [](IInv /\ BlockInv)
<1>1. IInv /\ BlockInv /\ [Next]_vars => BlockInv'
  <2> SUFFICES ASSUME IInv, BlockInv, [Next]_vars PROVE BlockInv'
    OBVIOUS
  <2>1. CASE UNCHANGED vars
    <3>1. UNCHANGED <<st, pc, pos, next, delta, call, live>>
      BY <2>1 DEF vars
    <3>2. Clear(pos)' <=> Clear(pos)
      BY <3>1 DEF Clear, Marked
    <3>3. StageInv'
      BY <3>1, <3>2 DEF BlockInv, StageInv
    <3> QED
      BY <3>1, <3>3, Quiet DEF Reallocating
  <2> QED
    BY <2>1, CallBlockInv, ToggleBlockInv, ClimbBlockInv, SearchBlockInv, LookupBlockInv
       DEF Next, Proceed
<1> QED
  BY <1>1, InitBlockInv, Invariant, PTL DEF Spec

-----------------------------------------------------------------------------
(* What a status says *)

\* The way down from x to q.
LEMMA ChildToward ==
    ASSUME NEW x \in Nodes, NEW q \in Nodes, Under(q, x)
    PROVE  x < FirstLeaf /\ \E c \in {2 * x, 2 * x + 1} : q = c \/ Under(q, c)
<1>1. /\ DepthOf[x] < DepthOf[q] /\ Covers(q) \subseteq Covers(x)
      /\ DepthOf[x] \in Nat /\ DepthOf[q] \in 1 .. Order /\ AddressOf(q) \in Covers(q)
      /\ x \in Nat
  BY CoversIs, TreeOK, Family DEF Under
<1>2. x < FirstLeaf
  BY <1>1, TreeOK
<1>3. PICK c \in {2 * x, 2 * x + 1} : AddressOf(q) \in Covers(c)
  BY <1>1, <1>2, Halves
<1>4. c \in Nodes /\ DepthOf[c] = DepthOf[x] + 1
  BY <1>2, <1>3, Halves
<1>5. ~Under(c, q)
  BY <1>1, <1>4 DEF Under
<1> QED
  BY <1>1, <1>2, <1>3, <1>4, <1>5, Meet

\* A position in use has a mark at it or below it.
LEMMA UsedHasMark ==
    ASSUME IInv, pc # "climb", NEW q \in Nodes, st[q] # 0
    PROVE  \E m \in Nodes : Marked(m) /\ (m = q \/ Under(m, q))
<1> DEFINE S == {x \in Nodes : (x = q \/ Under(x, q)) /\ st[x] # 0}
<1>1. PICK x \in S : \A z \in S : z <= x
  <2>1. S # {} /\ S \subseteq Nodes
    OBVIOUS
  <2> QED
    BY <2>1, FirstAndLast
<1>2. /\ x \in Nodes /\ (x = q \/ Under(x, q)) /\ st[x] # 0 /\ x \in Nat /\ x >= 1
      /\ st[x] \in Nat /\ st[x] <= LocalOffset(x)
  BY <1>1, Family DEF IInv, TypeOK
<1>3. CASE x >= FirstLeaf
  <2>1. LocalOffset(x) = 1
    BY <1>2, <1>3, TreeOK DEF LocalOffset
  <2>2. Marked(x)
    BY <1>2, <1>3, <2>1, TreeOK DEF Marked
  <2> QED
    BY <1>2, <2>2
<1>4. CASE x < FirstLeaf
  <2>1. NodeConsistent(x)
    BY <1>2, <1>4, ConsistentAt DEF IInv
  <2>2. ASSUME NEW c \in {2 * x, 2 * x + 1} PROVE st[c] = 0
    <3>1. c \in Nodes /\ c > x /\ c # 1 /\ Parent(c) = x
      BY <1>2, <1>4, Family
    <3>2. Under(c, q)
      BY <1>2, <3>1, UnderParent
    <3>3. c \notin S
      BY <1>1, <1>2, <3>1, Family
    <3> QED
      BY <3>1, <3>2, <3>3
  <2>3. Marked(x)
    BY <1>2, <2>1, <2>2 DEF NodeConsistent, Marked, Left, Right
  <2> QED
    BY <1>2, <2>3
<1> QED
  BY <1>2, <1>3, <1>4, TreeOK

\* Above its status a position has no room: what lies fewer levels down meets
\* a mark.
LEMMA NoRoom ==
    ASSUME IInv, pc # "climb", NEW U, \A m \in Nodes : Marked(m) => Covers(m) \subseteq U,
           NEW p \in Nodes, NEW q \in Nodes, q = p \/ Under(q, p),
           st[p] > DepthOf[q] - DepthOf[p]
    PROVE  Covers(q) \cap U # {}
<1> DEFINE S == {x \in Nodes : (q = x \/ Under(q, x)) /\ st[x] > DepthOf[q] - DepthOf[x]}
<1>1. PICK x \in S : \A z \in S : z <= x
  <2>1. S # {} /\ S \subseteq Nodes
    OBVIOUS
  <2> QED
    BY <2>1, FirstAndLast
<1>2. /\ x \in Nodes /\ (q = x \/ Under(q, x)) /\ st[x] > DepthOf[q] - DepthOf[x]
      /\ x \in Nat /\ x >= 1 /\ st[x] \in Nat /\ DepthOf[x] \in Nat /\ DepthOf[q] \in Nat
  <2>1. x \in Nodes /\ (q = x \/ Under(q, x)) /\ st[x] > DepthOf[q] - DepthOf[x]
    BY <1>1
  <2>2. x \in Nat /\ x >= 1 /\ DepthOf[x] \in Nat /\ DepthOf[q] \in Nat
    BY <2>1, Family, CoversIs
  <2>3. st[x] \in Nat
    BY <2>1 DEF IInv, TypeOK
  <2> QED
    BY <2>1, <2>2, <2>3
<1>3. CASE q = x
  <2>1. PICK m \in Nodes : Marked(m) /\ (m = q \/ Under(m, q))
    BY <1>2, <1>3, UsedHasMark
  <2>2. Covers(m) \subseteq Covers(q) /\ Covers(m) \subseteq U /\ AddressOf(m) \in Covers(m)
    BY <2>1, CoversIs DEF Under
  <2> QED
    BY <2>2
<1>4. CASE Under(q, x)
  <2>1. PICK c \in {2 * x, 2 * x + 1} : q = c \/ Under(q, c)
    BY <1>2, <1>4, ChildToward
  <2>2. /\ x < FirstLeaf /\ c \in Nodes /\ c > x /\ DepthOf[c] = DepthOf[x] + 1
        /\ 2 * x \in Nodes /\ 2 * x + 1 \in Nodes
    <3>1. x < FirstLeaf
      BY <1>2, <1>4, ChildToward
    <3>2. /\ 2 * x \in Nodes /\ 2 * x + 1 \in Nodes
          /\ DepthOf[2 * x] = DepthOf[x] + 1 /\ DepthOf[2 * x + 1] = DepthOf[x] + 1
      BY <1>2, <3>1, Halves
    <3>3. 2 * x > x /\ 2 * x + 1 > x
      BY <1>2
    <3> QED
      BY <2>1, <3>1, <3>2, <3>3
  <2>3. NodeConsistent(x) /\ st[2 * x] \in Nat /\ st[2 * x + 1] \in Nat
    BY <1>2, <2>2, ConsistentAt DEF IInv, TypeOK
  <2>4. CASE st[2 * x] = 0 /\ st[2 * x + 1] = 0
    <3>1. Marked(x)
      <4>1. st[x] # 0
        BY <1>2, <1>4 DEF Under
      <4> QED
        BY <2>3, <2>4, <4>1 DEF NodeConsistent, Marked, Left, Right
    <3>2. Covers(q) \subseteq U /\ AddressOf(q) \in Covers(q)
      BY <1>2, <1>4, <3>1, CoversIs DEF Under
    <3> QED
      BY <3>2
  <2>5. CASE ~(st[2 * x] = 0 /\ st[2 * x + 1] = 0)
    <3>1. st[x] <= st[2 * x] + 1 /\ st[x] <= st[2 * x + 1] + 1
      BY <2>3, <2>5 DEF NodeConsistent, Smaller, Left, Right
    <3>2. st[c] > DepthOf[q] - DepthOf[c]
      BY <1>2, <2>1, <2>2, <2>3, <3>1
    <3>3. c \in S
      BY <2>1, <2>2, <3>2
    <3>4. c <= x
      BY <1>1, <3>3
    <3> QED
      BY <1>2, <2>2, <3>4, Family
  <2> QED
    BY <2>4, <2>5
<1> QED
  BY <1>2, <1>3, <1>4

\* And as many levels down as its status says there is a free position.
LEMMA Room ==
    ASSUME IInv, pc # "climb", NEW p \in Nodes, Clear(p), st[p] < LocalOffset(p)
    PROVE  \E q \in Nodes : /\ q = p \/ Under(q, p)
                            /\ DepthOf[q] = DepthOf[p] + st[p]
                            /\ st[q] = 0 /\ Clear(q)
<1> DEFINE S == {x \in Nodes : /\ x = p \/ Under(x, p)
                              /\ Clear(x) /\ st[x] < LocalOffset(x)
                              /\ DepthOf[x] + st[x] = DepthOf[p] + st[p]}
<1>1. PICK x \in S : \A z \in S : z <= x
  <2>1. S # {} /\ S \subseteq Nodes
    OBVIOUS
  <2> QED
    BY <2>1, FirstAndLast
<1>2. /\ x \in Nodes /\ (x = p \/ Under(x, p)) /\ Clear(x) /\ st[x] < LocalOffset(x)
      /\ DepthOf[x] + st[x] = DepthOf[p] + st[p]
      /\ x \in Nat /\ x >= 1 /\ st[x] \in Nat /\ DepthOf[x] \in Nat
  <2>1. /\ x \in Nodes /\ (x = p \/ Under(x, p)) /\ Clear(x) /\ st[x] < LocalOffset(x)
        /\ DepthOf[x] + st[x] = DepthOf[p] + st[p]
    BY <1>1
  <2>2. x \in Nat /\ x >= 1 /\ DepthOf[x] \in Nat
    BY <2>1, Family, CoversIs
  <2>3. st[x] \in Nat
    BY <2>1 DEF IInv, TypeOK
  <2> QED
    BY <2>1, <2>2, <2>3
<1>3. CASE st[x] = 0
  BY <1>2, <1>3
<1>4. CASE st[x] # 0
  <2>1. x < FirstLeaf
    <3>1. x >= FirstLeaf => LocalOffset(x) = 1
      BY <1>2, TreeOK DEF LocalOffset
    <3> QED
      BY <1>2, <1>4, <3>1, TreeOK
  <2>2. /\ NodeConsistent(x) /\ 2 * x \in Nodes /\ 2 * x + 1 \in Nodes
        /\ st[2 * x] \in Nat /\ st[2 * x + 1] \in Nat
    BY <1>2, <2>1, ConsistentAt, Family DEF IInv, TypeOK
  <2>3. PICK c \in {2 * x, 2 * x + 1} : st[c] = st[x] - 1
    BY <1>2, <1>4, <2>2 DEF NodeConsistent, Smaller, Left, Right
  <2>4. /\ c \in Nodes /\ c > x /\ c # 1 /\ Parent(c) = x /\ DepthOf[c] = DepthOf[x] + 1
        /\ LocalOffset(c) = LocalOffset(x) - 1 /\ LocalOffset(x) \in Nat
    BY <1>2, <2>1, <2>3, Family, Halves
  <2>5. Clear(c)
    <3>1. ASSUME NEW m \in Nodes, Marked(m), Under(c, m) PROVE FALSE
      <4>1. x = m \/ Under(x, m)
        BY <2>4, <3>1, UnderParent
      <4>2. x # m
        BY <1>2, <2>4, <3>1 DEF Marked
      <4> QED
        BY <1>2, <3>1, <4>1, <4>2 DEF Clear
    <3> QED
      BY <3>1 DEF Clear
  <2>6. Under(c, p)
    BY <1>2, <2>4, UnderParent
  <2>7. st[c] < LocalOffset(c) /\ DepthOf[c] + st[c] = DepthOf[p] + st[p]
    BY <1>2, <1>4, <2>3, <2>4
  <2>8. c \in S
    BY <2>4, <2>5, <2>6, <2>7
  <2>9. c <= x
    BY <1>1, <2>8
  <2> QED
    BY <1>2, <2>4, <2>9, Family
<1> QED
  BY <1>3, <1>4

\* Once the slots past the arena are masked, what a mark covers is taken.
LEMMA MarksTake ==
    ASSUME BlockInv, delta = 0, NEW m \in Nodes, Marked(m)
    PROVE  Covers(m) \subseteq Taken
<1>1. Masked = VirtualSlots
  BY TreeOK DEF Masked, VirtualSlots
<1>2. BlockOf(m) \in live => Covers(m) \subseteq UNION {Extent(b) : b \in live}
  BY DEF Covers
<1> QED
  BY <1>1, <1>2 DEF BlockInv, MarksAreBlocks, Taken

\* Between calls a position is shadowed if and only if it lies below a mark.
LEMMA ShadowedBelowMark ==
    ASSUME IInv, BlockInv, pc = "idle", delta = 0, NEW p \in Nodes
    PROVE  Shadowed(p) <=> ~Clear(p)
<1> USE DEF BlockInv
<1>1. Masked = VirtualSlots
  BY TreeOK DEF Masked, VirtualSlots
<1>2. ASSUME Shadowed(p) PROVE ~Clear(p)
  <2>1. p # 1 /\ Parent(p) \in Nodes
    BY <1>2, ChildOf DEF Shadowed
  <2>2. PICK m \in Nodes : Marked(m) /\ (Parent(p) = m \/ Under(Parent(p), m))
    <3>1. CASE Covers(Parent(p)) \subseteq VirtualSlots
      BY <1>1, <2>1, <3>1 DEF MasksComplete
    <3>2. CASE \E b \in live : Covers(Parent(p)) \subseteq Extent(b)
      <4>1. PICK m \in Nodes : BlockOf(m) \in live /\ Covers(Parent(p)) \subseteq Covers(m)
        BY <3>2 DEF IInv, LiveAreBlocks, Covers
      <4>2. Marked(m)
        BY <4>1 DEF BlocksMarked, Reallocating
      <4>3. AddressOf(Parent(p)) \in Covers(Parent(p))
        BY <2>1, CoversIs
      <4>4. ~Under(m, Parent(p))
        BY <2>1, <4>1, UnderSmaller
      <4>5. Parent(p) = m \/ Under(Parent(p), m)
        BY <2>1, <4>1, <4>3, <4>4, Meet
      <4> QED
        BY <4>2, <4>5
    <3> QED
      BY <1>2, <3>1, <3>2 DEF Shadowed
  <2>3. Under(p, m)
    BY <2>1, <2>2, UnderParent
  <2> QED
    BY <2>2, <2>3 DEF Clear
<1>3. ASSUME ~Clear(p) PROVE Shadowed(p)
  <2>1. PICK m \in Nodes : Marked(m) /\ Under(p, m)
    BY <1>3 DEF Clear
  <2>2. p # 1 /\ (Parent(p) = m \/ Under(Parent(p), m))
    BY <2>1, UnderParent
  <2>3. Covers(Parent(p)) \subseteq Covers(m)
    BY <2>2 DEF Under
  <2>4. CASE BlockOf(m) \in live
    BY <2>2, <2>3, <2>4 DEF Shadowed, Covers
  <2>5. CASE Covers(m) \subseteq Masked
    BY <1>1, <2>2, <2>3, <2>5 DEF Shadowed
  <2> QED
    BY <2>1, <2>4, <2>5 DEF MarksAreBlocks
<1> QED
  BY <1>2, <1>3

\* Between calls the status of every position agrees with a recomputation from
\* the blocks in use, whatever sequence of mark, release and early returns of
\* update_parent_chain led there.
THEOREM StatusTellsRoom == Spec => []StatusMeansRoom
<1>1. IInv /\ BlockInv => StatusMeansRoom
  <2> SUFFICES ASSUME IInv, BlockInv, pc = "idle", NEW p \in Nodes
               PROVE  LET down(k) == {q \in Nodes : /\ DepthOf[q] = DepthOf[p] + k
                                                    /\ Covers(q) \subseteq Covers(p) \ Taken}
                      IN  IF Shadowed(p) THEN st[p] = 0
                          ELSE \/ /\ st[p] < LocalOffset(p)
                                  /\ down(st[p]) # {}
                                  /\ \A k \in 0 .. st[p] - 1 : down(k) = {}
                               \/ /\ st[p] = LocalOffset(p)
                                  /\ \A k \in 0 .. st[p] - 1 : down(k) = {}
    BY DEF StatusMeansRoom
  <2> DEFINE down(k) == {q \in Nodes : /\ DepthOf[q] = DepthOf[p] + k
                                       /\ Covers(q) \subseteq Covers(p) \ Taken}
  <2>1. delta = 0 /\ st[p] \in Nat /\ st[p] <= LocalOffset(p)
    BY DEF IInv, TypeOK, BlockInv, StageInv
  <2>2. LocalOffset(p) \in Nat /\ DepthOf[p] \in Nat
    BY Family, CoversIs, TreeOK
  <2>3. CASE Shadowed(p)
    <3>1. PICK m \in Nodes : Marked(m) /\ Under(p, m)
      BY <2>1, <2>3, ShadowedBelowMark DEF Clear
    <3>2. st[p] = 0
      BY <3>1, NothingBelow DEF IInv
    <3> QED
      BY <2>3, <3>2
  <2>4. CASE ~Shadowed(p)
    <3>1. Clear(p)
      BY <2>1, <2>4, ShadowedBelowMark
    <3>2. ASSUME NEW k \in 0 .. st[p] - 1 PROVE down(k) = {}
      <4>1. SUFFICES ASSUME NEW q \in Nodes, DepthOf[q] = DepthOf[p] + k,
                            Covers(q) \subseteq Covers(p) \ Taken
                     PROVE  FALSE
        OBVIOUS
      <4>2. AddressOf(q) \in Covers(q) /\ DepthOf[q] >= DepthOf[p]
        <5>1. k \in Nat
          BY <2>1
        <5>2. DepthOf[q] >= DepthOf[p]
          BY <2>2, <4>1, <5>1
        <5> QED
          BY <5>2, CoversIs
      <4>3. q = p \/ Under(q, p)
        BY <2>2, <4>1, <4>2, RowApart DEF Under
      <4>4. st[p] > DepthOf[q] - DepthOf[p]
        BY <2>1, <2>2, <4>1
      <4>5. Covers(q) \cap Taken # {}
        BY <2>1, <4>3, <4>4, NoRoom, MarksTake
      <4> QED
        BY <4>1, <4>5
    <3>3. ASSUME st[p] < LocalOffset(p) PROVE down(st[p]) # {}
      <4>1. PICK q \in Nodes : /\ q = p \/ Under(q, p)
                               /\ DepthOf[q] = DepthOf[p] + st[p]
                               /\ st[q] = 0 /\ Clear(q)
        BY <3>1, <3>3, Room
      <4>2. /\ \A m \in Nodes : Marked(m) => Covers(m) \cap Covers(q) = {}
            /\ Covers(q) \subseteq 0 .. (Slots - 1)
        BY <2>1, <4>1, FreeSpot
      <4>3. Covers(q) \cap VirtualSlots = {}
        BY <4>2, TreeOK DEF VirtualSlots
      <4>4. ASSUME NEW b \in live PROVE Extent(b) \cap Covers(q) = {}
        <5>1. PICK m \in Nodes : b = BlockOf(m)
          BY DEF IInv, LiveAreBlocks
        <5>2. Marked(m)
          BY <5>1 DEF BlockInv, BlocksMarked, Reallocating
        <5> QED
          BY <4>2, <5>1, <5>2 DEF Covers
      <4>5. Covers(q) \cap Taken = {}
        BY <4>3, <4>4 DEF Taken
      <4>6. Covers(q) \subseteq Covers(p)
        BY <4>1 DEF Under
      <4>7. q \in down(st[p])
        BY <4>1, <4>5, <4>6
      <4> QED
        BY <4>7
    <3> HIDE DEF down
    <3>4. st[p] < LocalOffset(p) \/ st[p] = LocalOffset(p)
      BY <2>1, <2>2
    <3>5. \/ /\ st[p] < LocalOffset(p)
             /\ down(st[p]) # {}
             /\ \A k \in 0 .. st[p] - 1 : down(k) = {}
          \/ /\ st[p] = LocalOffset(p)
             /\ \A k \in 0 .. st[p] - 1 : down(k) = {}
      BY <3>2, <3>3, <3>4
    <3> QED
      BY <2>4, <3>5 DEF down
  <2> QED
    BY <2>3, <2>4
<1> QED
  BY <1>1, BlockInvariance, PTL

\* A double free, or a free of an address no block starts at, releases nothing:
\* position_for_address only ever finds a block some caller owns.
THEOREM StrayFrees == Spec => []StrayFreesMiss
<1>1. IInv /\ BlockInv => StrayFreesMiss
  <2> SUFFICES ASSUME IInv, BlockInv, pc = "lookup", st[pos] = LocalOffset(pos), ~Misses
               PROVE  BlockOf(pos) \in live /\ BlockOf(pos)[1] = call.addr
    BY DEF StrayFreesMiss
  <2>1. BlockOf(pos) \in live /\ AddressOf(pos) = call.addr
    BY LookupFindsBlocks
  <2> QED
    BY <2>1 DEF BlockOf
<1> QED
  BY <1>1, BlockInvariance, PTL

\* buddy_malloc and buddy_realloc report failure only when every aligned block
\* of the size asked for meets one that is in use.
THEOREM NullIsHonest == Spec => []NullMeansNoRoom
<1>1. IInv /\ BlockInv => NullMeansNoRoom
  <2> DEFINE own == IF call.op = "realloc" THEN Covers(call.origin) ELSE {}
  <2> SUFFICES ASSUME IInv, BlockInv, pc = "search", NotFound,
                      NEW q \in Nodes, DepthOf[q] = call.depth
               PROVE  Covers(q) \cap (Taken \ own) # {}
    BY DEF NullMeansNoRoom
  <2>1. delta \in Nat /\ delta = 0 /\ st[1] > call.depth - 1
    BY DEF IInv, TypeOK, BlockInv, StageInv, NotFound
  <2>2. 1 \in Nodes /\ (q = 1 \/ Under(q, 1)) /\ DepthOf[1] = 1
    BY InTree, TreeOK
  <2>3. st[1] > DepthOf[q] - DepthOf[1]
    BY <2>1, <2>2
  <2>4. ASSUME NEW m \in Nodes, Marked(m) PROVE Covers(m) \subseteq Taken \ own
    <3>1. Covers(m) \subseteq Taken
      BY <2>1, <2>4, MarksTake
    <3>2. CASE call.op = "realloc"
      <4>1. /\ call.origin \in Nodes /\ st[call.origin] = 0
            /\ BlockOf(call.origin) \in live
        BY <3>2 DEF IInv, LoopInvariant, BlockInv, StageInv
      <4>2. m # call.origin
        BY <2>4, <4>1, Family DEF Marked
      <4>3. Covers(m) \cap Covers(call.origin) = {}
        <5>1. CASE BlockOf(m) \in live
          BY <4>1, <4>2, <5>1 DEF BlockInv, LiveApart
        <5>2. CASE Covers(m) \subseteq Masked
          <6>1. Covers(call.origin) \subseteq 0 .. (Slots - 1)
            BY <4>1 DEF BlockInv, LiveApart
          <6>2. Masked \cap (0 .. (Slots - 1)) = {}
            BY <2>1, TreeOK DEF Masked
          <6> QED
            BY <5>2, <6>1, <6>2
        <5> QED
          BY <2>4, <5>1, <5>2 DEF BlockInv, MarksAreBlocks
      <4> QED
        BY <3>1, <3>2, <4>3
    <3>3. CASE call.op # "realloc"
      BY <3>1, <3>3
    <3> QED
      BY <3>2, <3>3
  <2> HIDE DEF own
  <2> QED
    BY <2>2, <2>3, <2>4, NoRoom
<1> QED
  BY <1>1, BlockInvariance, PTL

-----------------------------------------------------------------------------
(* The allocator implements BlockAllocator *)

\* Blocks in use are disjoint from a new block at a free position.
LEMMA NewBlockFits ==
    ASSUME IInv, BlockInv, pc = "search", NEW w \in Nodes, st[w] = 0, Clear(w)
    PROVE  /\ BlockOf(w) \in Blocks!Blocks /\ BlockOf(w)[2] >= 1
           /\ \A b \in live : \/ Extent(BlockOf(w)) \cap Extent(b) = {}
                              \/ call.op = "realloc" /\ b = BlockOf(call.origin)
<1>1. delta \in Nat /\ delta = 0
  BY DEF IInv, TypeOK, BlockInv, StageInv
<1>2. /\ \A m \in Nodes : Marked(m) => Covers(m) \cap Covers(w) = {}
      /\ Covers(w) \subseteq 0 .. (Slots - 1)
  BY <1>1, FreeSpot
<1>3. BlockOf(w) \in Blocks!Blocks /\ BlockOf(w)[2] >= 1
  <2> DEFINE a == AddressOf(w)
             n == SizeOf(w)
  <2>1. a \in Nat /\ n \in Nat /\ n >= 1 /\ Covers(w) = a .. (a + n - 1)
    BY CoversIs
  <2>2. BlockOf(w) = <<a, n>>
    BY DEF BlockOf
  <2> HIDE DEF a, n
  <2>3. Slots \in Nat
    BY TreeOK
  <2>4. a \in 0 .. (Slots - 1) /\ a + n - 1 \in 0 .. (Slots - 1)
    BY <1>2, <2>1
  <2>5. a + n <= Slots /\ n \in 1 .. Slots
    BY <2>1, <2>3, <2>4
  <2> QED
    BY <2>2, <2>4, <2>5, <2>1 DEF Blocks!Blocks
<1>4. ASSUME NEW b \in live
      PROVE  \/ Extent(BlockOf(w)) \cap Extent(b) = {}
             \/ call.op = "realloc" /\ b = BlockOf(call.origin)
  <2>1. PICK m \in Nodes : b = BlockOf(m)
    BY DEF IInv, LiveAreBlocks
  <2>2. Marked(m) \/ Reallocating(m)
    BY <2>1 DEF BlockInv, BlocksMarked
  <2>3. CASE Marked(m)
    BY <1>2, <2>1, <2>3 DEF Covers
  <2>4. CASE Reallocating(m)
    BY <2>1, <2>4 DEF Reallocating
  <2> QED
    BY <2>2, <2>3, <2>4
<1> QED
  BY <1>3, <1>4

\* Every step of the tree is a step of the abstract allocator or none at all.
LEMMA StepImplements ==
    ASSUME IInv, BlockInv, [Next]_vars
    PROVE  [Blocks!Next]_live
<1>1. CASE UNCHANGED vars
  BY <1>1 DEF vars
<1>2. CASE Call
  BY <1>2 DEF Call, Malloc, Realloc, Free, SafeFree, StartLookup
<1>3. CASE SearchFound
  <2>1. pc = "search" /\ pos \in Nodes /\ ~NotFound /\ Found /\ Clear(pos)
    BY <1>3 DEF SearchFound, IInv, TypeOK, BlockInv, StageInv
  <2>2. PICK w \in Nodes : w = pos
    BY <2>1
  <2>3. st[w] = 0
    <3>1. /\ st[pos] \in Nat /\ DepthOf[pos] = call.depth /\ DepthOf[1] = 1
          /\ pos # 1 => st[pos] <= call.depth - DepthOf[pos]
          /\ pos = 1 => ~(st[1] > call.depth - 1)
      BY <2>1, TreeOK DEF Found, NotFound, IInv, TypeOK, LoopInvariant
    <3>2. DepthOf[pos] \in Nat
      BY <2>1, CoversIs
    <3> QED
      BY <2>2, <3>1, <3>2
  <2>4. /\ BlockOf(w) \in Blocks!Blocks /\ BlockOf(w)[2] >= 1
        /\ \A b \in live : \/ Extent(BlockOf(w)) \cap Extent(b) = {}
                           \/ call.op = "realloc" /\ b = BlockOf(call.origin)
    BY <2>1, <2>2, <2>3, NewBlockFits
  <2>5. 1 \in 1 .. Slots
    BY TreeOK
  <2>6. CASE call.op = "realloc"
    <3>1. BlockOf(call.origin) \in live
      BY <2>1, <2>6 DEF BlockInv, StageInv
    <3>2. live' = (live \ {BlockOf(call.origin)}) \cup {BlockOf(w)}
      BY <1>3, <2>2, <2>6 DEF SearchFound
    <3>3. Blocks!Apart(BlockOf(w), live \ {BlockOf(call.origin)})
      BY <2>4 DEF Blocks!Apart, Blocks!Extent, Extent
    <3>4. Blocks!Realloc(BlockOf(call.origin), 1)
      BY <2>4, <3>2, <3>3 DEF Blocks!Realloc
    <3> QED
      BY <2>5, <3>1, <3>4 DEF Blocks!Next
  <2>7. CASE call.op # "realloc"
    <3>1. live' = live \cup {BlockOf(w)}
      BY <1>3, <2>2, <2>7 DEF SearchFound
    <3>2. Blocks!Apart(BlockOf(w), live)
      BY <2>4, <2>7 DEF Blocks!Apart, Blocks!Extent, Extent
    <3>3. Blocks!Alloc(1)
      BY <2>4, <3>1, <3>2 DEF Blocks!Alloc
    <3> QED
      BY <2>5, <3>3 DEF Blocks!Next
  <2> QED
    BY <2>6, <2>7
<1>4. CASE Release
  <2>1. BlockOf(pos) \in live
    BY <1>4, LookupFindsBlocks DEF Release
  <2>2. CASE call.op = "realloc"
    BY <1>4, <2>2 DEF Release
  <2>3. CASE call.op # "realloc"
    <3>1. Blocks!Free(BlockOf(pos))
      BY <1>4, <2>3 DEF Release, Blocks!Free
    <3> QED
      BY <2>1, <3>1 DEF Blocks!Next
  <2> QED
    BY <2>2, <2>3
<1>5. CASE Proceed /\ ~SearchFound /\ ~Release
  BY <1>5 DEF Proceed, ToggleHere, ToggleDescend, ToggleRight, Climb, ClimbDone,
         SearchDown, MallocFails, ReallocFails, LookupUp, LookupFails, ReleaseRefused
<1> QED
  BY <1>1, <1>2, <1>3, <1>4, <1>5 DEF Next

\* The tree implements the abstract heap: blocks lie inside the arena and never
\* overlap, a failed realloc leaves the old block in place, and only a free of
\* an owned block gives one up.
THEOREM TreeImplementsBlocks == Spec => ImplementsBlocks
<1>1. Init => Blocks!Init
  BY DEF Init, Blocks!Init
<1> QED
  BY <1>1, StepImplements, BlockInvariance, PTL DEF Spec, ImplementsBlocks, Blocks!Spec
=============================================================================
