---------------------------- MODULE PageMapProofs ----------------------------
(***************************************************************************)
(* The page tables of kernel/arch/amd64/memory/paging.cpp for every number *)
(* of levels, entries, callers, pages and frames and whatever the firmware *)
(* left in physical page 0: the tables form a tree, lookups return what    *)
(* the processor would use where the tables exist, and PageMap implements  *)
(* AddressSpace.                                                           *)
(***************************************************************************)
EXTENDS PageMap, TLAPS, NaturalsInduction, WellFoundedInduction

\* At most one thread is between lock() and unlock().  This is not inductive;
\* that the callers stand in a line is.
OneHolder == \A t, u \in inside : t = u
LockInv == lock!MutexTypeOK /\ lock!Line

\* Who walks the tables holds lock_, and who waits has called lock().
HoldInv ==
    \A t \in Threads : /\ t \in inside <=> pc[t] \in {"walk", "link"}
                       /\ t \in asked <=> pc[t] \in {"wait", "walk", "link"}

\* What get_next_lvl() will hand out holds no entry, and what the firmware left
\* leads nowhere else.
FreshInv == \A f \in TableFrames \ used : tab[f] = EmptyTable
ForeignInv == \A f \in Foreign : \A i \in 0 .. Fan - 1 : tab[f][i].addr \in Foreign

\* The entries of last tables hold frames of the pages' owners.
LeafInv ==
    \A v \in AllPages : /\ EntryOf(v).addr \in Frames \cup {0}
                        /\ EntryOf(v).present => EntryOf(v).addr \in Frames
                        /\ EntryOf(v).addr \in Frames /\ v \in Pages =>
                              FrameOwner[EntryOf(v).addr] = Owner[v]

\* A call in progress works on pages and frames of its caller, on mappings
\* that are still there.
OwnFrame(t, f) == f \in Frames /\ FrameOwner[f] = t
OwnFrames(t, f, n) == \A g \in f .. (f + n - 1) : OwnFrame(t, g)
PagesLeft(t) == call[t].page .. (call[t].page + call[t].n - 1)
CallOK(t) ==
    LET c == call[t]
    IN  /\ c.n >= 1
        /\ Own(t, c.page, c.n)
        /\ c.op # "remap" => c.step = c.op
        /\ c.op = "map" => c.addr \in Nat /\ OwnFrames(t, c.addr, c.n)
        /\ c.op = "setflags" => \A w \in PagesLeft(t) : EntryOf(w).addr # 0
        /\ c.op = "remap" =>
              /\ Own(t, c.to, c.n)
              /\ c.step \in {"lookup", "unmap", "map"}
              /\ c.step # "lookup" => OwnFrame(t, c.addr)
              /\ \A w \in PagesLeft(t) : \/ c.step = "map" /\ w = c.page
                                         \/ Translation(w) # None
CallInv == \A t \in Threads : pc[t] \in {"wait", "walk", "link", "next"} => CallOK(t)

\* A walk is at the table on the processor's way to its page, or in a page of
\* the firmware when there is none, which happens only to walks that allocate
\* none.
WalkOK(t) ==
    LET x == TablesOf(Page(t))[call[t].level]
    IN  /\ IF x = None THEN call[t].table \in Foreign ELSE call[t].table = x
        /\ Allocates(t) => x # None
WalkInv == \A t \in Threads : pc[t] \in {"walk", "link"} => WalkOK(t)

\* The tables of the tree, and those allocated and not yet linked.
InTree(f) == \E v \in AllPages, l \in 1 .. Levels : TablesOf(v)[l] = f
FreshTables == {call[t].fresh : t \in {u \in Threads : pc[u] = "link"}}

\* The table that is about to be linked is empty and in no other place, and
\* the entry that waits for it is still without one.
LinkOK(t) ==
    /\ call[t].fresh \in TableFrames
    /\ ~InTree(call[t].fresh)
    /\ tab[call[t].fresh] = EmptyTable
    /\ call[t].level > 1
    /\ ~Entry(t).present
    /\ Allocates(t)
LinkInv == \A t \in Threads : pc[t] = "link" => LinkOK(t)

IInv ==
    /\ TypeOK
    /\ LockInv
    /\ HoldInv
    /\ TablesFormTree
    /\ FreshInv
    /\ ForeignInv
    /\ LeafInv
    /\ CallInv
    /\ WalkInv
    /\ LinkInv

-----------------------------------------------------------------------------
(* lock_ *)

\* The holder of a lock whose callers stand in a line is alone.
LEMMA LineExcludes ==
    ASSUME LockInv
    PROVE  OneHolder
  BY DEF LockInv, lock!Line, OneHolder

\* A lock nobody called yet.
LEMMA InitLock ==
    ASSUME lock!Init
    PROVE  LockInv
  BY DEF lock!Init, LockInv, lock!Line, lock!MutexTypeOK

\* lock() puts its caller at the end of the line.
LEMMA AskLock ==
    ASSUME LockInv, NEW t \in Threads, lock!Ask(t)
    PROVE  LockInv'
<1> USE DEF LockInv, lock!MutexTypeOK, lock!Ask
<1>1. lock!MutexTypeOK'
  OBVIOUS
<1>2. lock!Line'
  BY DEF lock!Line
<1> QED
  BY <1>1, <1>2

\* lock() returns to the first in the line, when nobody holds the lock.
LEMMA EnterLock ==
    ASSUME LockInv, NEW t \in Threads, lock!Enter(t)
    PROVE  LockInv' /\ inside = {} /\ inside' = {t}
<1> USE DEF LockInv, lock!MutexTypeOK, lock!Enter
<1>1. inside = {}
  BY DEF lock!Line
<1>2. LockInv'
  BY DEF lock!Line
<1> QED
  BY <1>1, <1>2

\* unlock() takes the holder out of the line and leaves nobody inside.
LEMMA LeaveLock ==
    ASSUME LockInv, NEW t \in Threads, lock!Leave(t)
    PROVE  LockInv' /\ inside = {t} /\ inside' = {}
<1> USE DEF LockInv, lock!MutexTypeOK, lock!Leave
<1>1. inside = {t}
  BY LineExcludes DEF OneHolder
<1>2. lock!MutexTypeOK'
  OBVIOUS
<1>3. lock!Line'
  BY <1>1 DEF lock!Line
<1> QED
  BY <1>1, <1>2, <1>3

-----------------------------------------------------------------------------
(* Page numbers *)

\* A non-empty set of naturals has a least element, which Min picks.
LEMMA MinOfNaturals ==
    ASSUME NEW S, S \subseteq Nat, S # {}
    PROVE  Min(S) \in S /\ \A x \in S : Min(S) <= x
<1> DEFINE Less == {ss \in Nat \X Nat : ss[1] < ss[2]}
<1>1. IsWellFoundedOn(Less, Nat)
  BY NatLessThanWellFounded, Zenon DEF OpToRel
<1>2. PICK m \in S : \A x \in S : ~(<<x, m>> \in Less)
  <2> HIDE DEF Less
  <2> QED
    BY <1>1, WFMin
<1>3. ASSUME NEW x \in S PROVE m <= x
  <2>1. <<x, m>> \in Nat \X Nat /\ <<x, m>>[1] = x /\ <<x, m>>[2] = m
    OBVIOUS
  <2>2. <<x, m>> \notin Less
    BY <1>2
  <2>3. ~(x < m)
    BY <2>1, <2>2, Zenon
  <2> QED
    BY <2>3
<1> QED
  BY <1>3 DEF Min

\* The constants, and the values that stand for no frame.
LEMMA Constants ==
    /\ Levels \in Nat /\ Levels >= 1 /\ Fan \in Nat /\ Fan >= 1
    /\ Levels \in 1 .. Levels /\ 1 \in 1 .. Levels
    /\ AllPages \subseteq Nat /\ Pages \subseteq AllPages
    /\ Root \in TableFrames /\ TableFrames \subseteq Nat /\ Frames \subseteq Nat
    /\ TableFrames \cap Frames = {} /\ TableFrames \cap Foreign = {}
    /\ Frames \cap Foreign = {} /\ Foreign \subseteq Nat /\ ZeroPage \in Foreign
    /\ ZeroPage = 0 /\ 0 \in Foreign
    /\ ZeroPage \notin TableFrames /\ ZeroPage \notin Frames /\ 0 \notin Frames
    /\ None \notin TableFrames /\ None \notin Frames /\ None \notin Foreign
    /\ None # 0 /\ None # ZeroPage
    /\ Absent.present = FALSE /\ Absent.addr = 0
<1>1. /\ Levels \in Nat /\ Levels >= 1 /\ Fan \in Nat /\ Fan >= 1
      /\ Pages \subseteq AllPages /\ Root \in TableFrames
      /\ TableFrames \subseteq Nat /\ Frames \subseteq Nat
      /\ TableFrames \cap Frames = {}
  BY PagingOK
<1>2. /\ ZeroPage \in Foreign /\ Foreign \subseteq Nat
      /\ TableFrames \cap Foreign = {} /\ Frames \cap Foreign = {}
  BY FirmwareOK
<1> QED
  BY <1>1, <1>2, PowersOK DEF AllPages, ZeroPage, None, Absent

\* The sizes alone.
LEMMA Sizes ==
    /\ Levels \in Nat /\ Levels >= 1 /\ Fan \in Nat /\ Fan >= 1
    /\ Levels \in 1 .. Levels /\ 1 \in 1 .. Levels
    /\ AllPages \subseteq Nat
  BY Constants

\* GET_PML_ENTRY tells apart the pages below one entry.
LEMMA PrefixSplit ==
    ASSUME NEW v \in Nat, NEW w \in Nat, NEW l \in 1 .. Levels
    PROVE  /\ v \div Fan ^ (l - 1) = w \div Fan ^ (l - 1) <=>
                 v \div Fan ^ l = w \div Fan ^ l /\ Index(v, l) = Index(w, l)
           /\ Index(v, l) \in 0 .. Fan - 1
<1> DEFINE P == Fan ^ (l - 1)
           x == v \div P
           y == w \div P
<1>1. P \in Nat \ {0} /\ Fan ^ l = Fan * P
  BY PowersOK, Sizes
<1>2. Index(v, l) = x % Fan /\ Index(w, l) = y % Fan
  BY DEF Index
<1> HIDE DEF P
<1>3. Fan \in Nat \ {0}
  BY Sizes
<1>4. ASSUME NEW u \in Nat PROVE u \div (Fan * P) = (u \div P) \div Fan
  BY <1>1, <1>3
<1>5. x \in Nat /\ y \in Nat
  BY <1>1
<1>6. v \div Fan ^ l = x \div Fan /\ w \div Fan ^ l = y \div Fan
  BY <1>1, <1>4
<1> HIDE DEF x, y
<1>7. x = y <=> x \div Fan = y \div Fan /\ x % Fan = y % Fan
  BY <1>3, <1>5
<1>8. x % Fan \in 0 .. Fan - 1
  BY <1>3, <1>5
<1> QED
  BY <1>2, <1>6, <1>7, <1>8 DEF x, y, P

\* The top table covers every page, an entry of a last table one.
LEMMA PrefixEnds ==
    ASSUME NEW v \in AllPages, NEW w \in AllPages
    PROVE  /\ v \div Fan ^ Levels = w \div Fan ^ Levels
           /\ v \div Fan ^ 0 = v /\ w \div Fan ^ 0 = w
<1>1. /\ v \in Nat /\ w \in Nat /\ v <= Fan ^ Levels - 1 /\ w <= Fan ^ Levels - 1
      /\ Fan ^ Levels \in Nat \ {0} /\ Fan ^ 0 = 1
  BY PowersOK, Constants DEF AllPages
<1> DEFINE N == Fan ^ Levels
<1>2. N \in Nat /\ v < N /\ w < N
  BY <1>1
<1> HIDE DEF N
<1>3. v \div N = 0 /\ w \div N = 0
  BY <1>1, <1>2
<1> QED
  BY <1>1, <1>3 DEF N

-----------------------------------------------------------------------------
(* The processor's walk *)

\* T holds the tables on the way to page v in the tables tb.
WalkStep(tb, v, T, l) ==
    IF l = Levels THEN Root
    ELSE Target(IF T[l + 1] = None THEN Absent ELSE tb[T[l + 1]][Index(v, l + 1)])
IsWalk(tb, v, T) == T = [l \in 1 .. Levels |-> WalkStep(tb, v, T, l)]

\* There is such a walk, from the top table down.
LEMMA WalkExists ==
    ASSUME NEW tb, NEW v
    PROVE  \E T : IsWalk(tb, v, T)
<1> DEFINE Good(f, k) == /\ f = [l \in 1 .. Levels |-> f[l]]
                         /\ \A l \in 1 .. Levels : l >= k => f[l] = WalkStep(tb, v, f, l)
           S == {j \in Nat : j < Levels /\ ~\E f : Good(f, Levels - j)}
<1>1. ASSUME S # {} PROVE FALSE
  <2>1. PICK m \in S : \A z \in S : m <= z
    BY <1>1, MinOfNaturals
  <2>2. m \in Nat /\ m < Levels /\ ~\E f : Good(f, Levels - m)
    BY <2>1
  <2>3. CASE m = 0
    <3> DEFINE g == [l \in 1 .. Levels |-> Root]
    <3>1. Good(g, Levels - m)
      BY <2>3, Constants DEF WalkStep
    <3> QED
      BY <2>2, <3>1
  <2>4. CASE m # 0
    <3>1. m - 1 \in Nat /\ m - 1 < Levels /\ m - 1 \notin S
      BY <2>1, <2>2, <2>4, Constants
    <3>2. PICK f : Good(f, Levels - (m - 1))
      BY <3>1
    <3> DEFINE k == Levels - m
               g == [l \in 1 .. Levels |-> IF l = k THEN WalkStep(tb, v, f, l) ELSE f[l]]
    <3>3. k \in Nat /\ k >= 1 /\ k < Levels /\ Levels - (m - 1) = k + 1
      BY <2>2, <2>4, Constants
    <3> HIDE DEF k
    <3>4. ASSUME NEW l \in 1 .. Levels, l >= k PROVE g[l] = WalkStep(tb, v, g, l)
      <4>1. l < Levels => l + 1 \in 1 .. Levels /\ g[l + 1] = f[l + 1]
        BY <3>3, <3>4, Constants
      <4>2. WalkStep(tb, v, g, l) = WalkStep(tb, v, f, l)
        BY <4>1, Constants DEF WalkStep
      <4>3. l # k => f[l] = WalkStep(tb, v, f, l)
        BY <3>2, <3>3, <3>4
      <4> QED
        BY <4>2, <4>3
    <3>5. Good(g, k)
      BY <3>4
    <3> QED
      BY <2>2, <3>5 DEF k
  <2> QED
    BY <2>3, <2>4
<1>2. PICK f : Good(f, Levels - (Levels - 1))
  <2>1. Levels - 1 \in Nat /\ Levels - 1 < Levels /\ Levels - 1 \notin S
    BY <1>1, Constants
  <2> QED
    BY <2>1
<1>3. \A l \in 1 .. Levels : f[l] = WalkStep(tb, v, f, l)
  BY <1>2, Constants
<1>4. f = [l \in 1 .. Levels |-> f[l]]
  BY <1>2
<1>5. IsWalk(tb, v, f)
  BY <1>3, <1>4 DEF IsWalk
<1> QED
  BY <1>5

\* And only one.
LEMMA WalkOnly ==
    ASSUME NEW tb, NEW v, NEW T, NEW U, IsWalk(tb, v, T), IsWalk(tb, v, U)
    PROVE  T = U
<1>1. \A l \in 1 .. Levels : T[l] = WalkStep(tb, v, T, l) /\ U[l] = WalkStep(tb, v, U, l)
  BY DEF IsWalk
<1> DEFINE S == {j \in Nat : j < Levels /\ T[Levels - j] # U[Levels - j]}
<1>2. ASSUME S # {} PROVE FALSE
  <2>1. PICK m \in S : \A z \in S : m <= z
    BY <1>2, MinOfNaturals
  <2>2. m \in Nat /\ m < Levels /\ T[Levels - m] # U[Levels - m]
    BY <2>1
  <2>3. m # 0
    BY <1>1, <2>2, Sizes DEF WalkStep
  <2>4. m - 1 \in Nat /\ m - 1 < Levels /\ m - 1 \notin S
    BY <2>1, <2>2, <2>3, Sizes
  <2>5. T[Levels - m + 1] = U[Levels - m + 1]
    BY <2>2, <2>4, Sizes
  <2>6. WalkStep(tb, v, T, Levels - m) = WalkStep(tb, v, U, Levels - m)
    BY <2>5 DEF WalkStep
  <2>7. Levels - m \in 1 .. Levels
    BY <2>2, Sizes
  <2> QED
    BY <1>1, <2>2, <2>6, <2>7
<1>3. \A l \in 1 .. Levels : T[l] = U[l]
  <2> TAKE l \in 1 .. Levels
  <2>1. Levels - l \in Nat /\ Levels - l < Levels /\ Levels - (Levels - l) = l
    BY Sizes
  <2> QED
    BY <1>2, <2>1
<1>4. T = [l \in 1 .. Levels |-> T[l]] /\ U = [l \in 1 .. Levels |-> U[l]]
  BY DEF IsWalk
<1> QED
  BY <1>3, <1>4

\* TablesOf is that walk, before and after a step.
LEMMA WalkIs ==
    ASSUME NEW v
    PROVE  IsWalk(tab, v, TablesOf(v)) /\ IsWalk(tab', v, TablesOf(v)')
<1>1. IsWalk(tab, v, TablesOf(v))
  <2>1. PICK T : IsWalk(tab, v, T)
    BY WalkExists
  <2>2. T = [l \in 1 .. Levels |->
                IF l = Levels THEN Root ELSE Target(EntryIn(T[l + 1], v, l + 1))]
    BY <2>1 DEF IsWalk, WalkStep, EntryIn
  <2>3. TablesOf(v) = [l \in 1 .. Levels |->
                IF l = Levels THEN Root ELSE Target(EntryIn(TablesOf(v)[l + 1], v, l + 1))]
    BY <2>2 DEF TablesOf
  <2> QED
    BY <2>3 DEF IsWalk, WalkStep, EntryIn
<1>2. IsWalk(tab', v, TablesOf(v)')
  <2>1. PICK T : IsWalk(tab', v, T)
    BY WalkExists
  <2>2. T = [l \in 1 .. Levels |->
                IF l = Levels THEN Root
                ELSE Target(IF T[l + 1] = None THEN Absent
                            ELSE tab'[T[l + 1]][Index(v, l + 1)])]
    BY <2>1 DEF IsWalk, WalkStep
  <2>3. TablesOf(v)' = [l \in 1 .. Levels |->
                IF l = Levels THEN Root
                ELSE Target(IF TablesOf(v)'[l + 1] = None THEN Absent
                            ELSE tab'[TablesOf(v)'[l + 1]][Index(v, l + 1)])]
    BY <2>2 DEF TablesOf, EntryIn
  <2> QED
    BY <2>3 DEF IsWalk, WalkStep
<1> QED
  BY <1>1, <1>2

\* The steps of the walk to page v.
LEMMA WalkFacts ==
    ASSUME NEW v
    PROVE  /\ TablesOf(v)[Levels] = Root
           /\ \A l \in 1 .. Levels : l < Levels =>
                 TablesOf(v)[l] = Target(EntryIn(TablesOf(v)[l + 1], v, l + 1))
<1>1. \A l \in 1 .. Levels : TablesOf(v)[l] = WalkStep(tab, v, TablesOf(v), l)
  BY WalkIs DEF IsWalk
<1> QED
  BY <1>1, Constants DEF WalkStep, EntryIn

\* What TablesFormTree says, without the abbreviation.
LEMMA TreeIs ==
    TablesFormTree <=>
        /\ \A v \in AllPages, w \in AllPages, l \in 1 .. Levels, k \in 1 .. Levels :
              TablesOf(v)[l] # None /\ TablesOf(w)[k] # None =>
                 (TablesOf(v)[l] = TablesOf(w)[k] <=> l = k /\ v \div Fan ^ l = w \div Fan ^ l)
        /\ used = ({TablesOf(v)[l] : v \in AllPages, l \in 1 .. Levels} \ {None}) \cup FreshTables
<1> DEFINE T == [v \in AllPages |-> TablesOf(v)]
<1>1. \A v \in AllPages : T[v] = TablesOf(v)
  OBVIOUS
<1>2. {T[v][l] : v \in AllPages, l \in 1 .. Levels}
        = {TablesOf(v)[l] : v \in AllPages, l \in 1 .. Levels}
  BY <1>1
<1> HIDE DEF T
<1> QED
  BY <1>1, <1>2 DEF TablesFormTree, FreshTables, T

\* And the same after a step.
LEMMA TreeIsNext ==
    TablesFormTree' <=>
        /\ \A v \in AllPages, w \in AllPages, l \in 1 .. Levels, k \in 1 .. Levels :
              TablesOf(v)'[l] # None /\ TablesOf(w)'[k] # None =>
                 (TablesOf(v)'[l] = TablesOf(w)'[k] <=> l = k /\ v \div Fan ^ l = w \div Fan ^ l)
        /\ used' = ({TablesOf(v)'[l] : v \in AllPages, l \in 1 .. Levels} \ {None})
                      \cup FreshTables'
<1> DEFINE T == [v \in AllPages |-> TablesOf(v)']
<1>1. \A v \in AllPages : T[v] = TablesOf(v)'
  OBVIOUS
<1>2. {T[v][l] : v \in AllPages, l \in 1 .. Levels}
        = {TablesOf(v)'[l] : v \in AllPages, l \in 1 .. Levels}
  BY <1>1
<1> HIDE DEF T
<1> QED
  BY <1>1, <1>2 DEF TablesFormTree, FreshTables, T

\* A table on a walk is allocated.
LEMMA TableUsed ==
    ASSUME TypeOK, TablesFormTree, NEW v \in AllPages, NEW l \in 1 .. Levels,
           TablesOf(v)[l] # None
    PROVE  TablesOf(v)[l] \in used /\ TablesOf(v)[l] \in TableFrames
<1>1. TablesOf(v)[l] \in used
  BY TreeIs
<1> QED
  BY <1>1 DEF TypeOK

\* Where the tables do not change, nor do the walks.
LEMMA SameTables ==
    ASSUME UNCHANGED tab, NEW v
    PROVE  /\ TablesOf(v)' = TablesOf(v) /\ EntryOf(v)' = EntryOf(v)
           /\ Translation(v)' = Translation(v)
<1>1. IsWalk(tab, v, TablesOf(v)')
  BY WalkIs
<1>2. TablesOf(v)' = TablesOf(v)
  BY <1>1, WalkIs, WalkOnly
<1>3. EntryOf(v)' = EntryOf(v)
  BY <1>2 DEF EntryOf, EntryIn
<1> QED
  BY <1>2, <1>3 DEF Translation

\* Nor do the tree and its entries.
LEMMA SameTree ==
    ASSUME UNCHANGED <<tab, used>>, FreshTables' = FreshTables,
           TablesFormTree, FreshInv, ForeignInv, LeafInv
    PROVE  TablesFormTree' /\ FreshInv' /\ ForeignInv' /\ LeafInv'
<1>1. TablesFormTree'
  <2>1. \A v : TablesOf(v)' = TablesOf(v)
    BY SameTables
  <2>2. {TablesOf(v)'[l] : v \in AllPages, l \in 1 .. Levels}
          = {TablesOf(v)[l] : v \in AllPages, l \in 1 .. Levels}
    BY <2>1
  <2> QED
    BY <2>1, <2>2, TreeIs, TreeIsNext
<1>2. LeafInv'
  BY SameTables DEF LeafInv
<1> QED
  BY <1>1, <1>2 DEF FreshInv, ForeignInv

\* Nor does what is in the tree, or an entry of it.
LEMMA SameLink ==
    ASSUME UNCHANGED tab, NEW t \in Threads, LinkOK(t), call'[t] = call[t]
    PROVE  LinkOK(t)'
<1>1. \A v : TablesOf(v)' = TablesOf(v)
  BY SameTables
<1>2. InTree(call[t].fresh)' <=> InTree(call[t].fresh)
  BY <1>1 DEF InTree
<1> QED
  BY <1>2 DEF LinkOK, Entry, Slot, Page, Allocates

\* The page of a call in progress belongs to the caller.
LEMMA PageOwned ==
    ASSUME IInv, NEW t \in Threads, pc[t] \in {"wait", "walk", "link", "next"}
    PROVE  /\ Page(t) \in Pages /\ Owner[Page(t)] = t /\ Page(t) \in AllPages
           /\ call[t] \in Calls /\ call[t].level \in 1 .. Levels
           /\ Slot(t) \in 0 .. Fan - 1
           /\ CallOK(t)
<1>1. CallOK(t) /\ call[t] \in Calls
  BY DEF IInv, CallInv, TypeOK
<1>2. call[t].page \in Nat /\ call[t].to \in Nat /\ call[t].n \in Nat /\ call[t].n >= 1
      /\ call[t].level \in 1 .. Levels
  BY <1>1 DEF CallOK, Calls
<1>3. ASSUME NEW v \in Nat, Own(t, v, call[t].n)
      PROVE  v \in Pages /\ Owner[v] = t
  <2>1. v \in v .. (v + call[t].n - 1)
    BY <1>2
  <2> QED
    BY <1>3, <2>1 DEF Own
<1>4. Page(t) \in Pages /\ Owner[Page(t)] = t
  BY <1>1, <1>2, <1>3 DEF CallOK, Page
<1>5. Page(t) \in AllPages /\ Page(t) \in Nat
  BY <1>4, Constants
<1>6. Slot(t) \in 0 .. Fan - 1
  BY <1>2, <1>5, PrefixSplit DEF Slot
<1> QED
  BY <1>1, <1>2, <1>4, <1>5, <1>6

\* Where a walk is: at a table, or in a page of the firmware, which leads to
\* others of its kind.
LEMMA AtTable ==
    ASSUME IInv, NEW t \in Threads, pc[t] \in {"walk", "link"}
    PROVE  /\ call[t].table \in TableFrames \cup Foreign
           /\ \/ /\ TablesOf(Page(t))[call[t].level] = None
                 /\ call[t].table \in Foreign /\ ~Allocates(t) /\ Entry(t).addr \in Foreign
              \/ /\ TablesOf(Page(t))[call[t].level] = call[t].table
                 /\ call[t].table \in used /\ call[t].table # None
                 /\ call[t].table \in TableFrames
                 /\ Entry(t) = EntryIn(call[t].table, Page(t), call[t].level)
<1> DEFINE x == TablesOf(Page(t))[call[t].level]
<1>1. /\ IF x = None THEN call[t].table \in Foreign ELSE call[t].table = x
      /\ Allocates(t) => x # None
  BY DEF IInv, WalkInv, WalkOK
<1>2. Page(t) \in AllPages /\ call[t].level \in 1 .. Levels /\ Slot(t) \in 0 .. Fan - 1
  BY PageOwned
<1>3. CASE x = None
  <2>1. Entry(t).addr \in Foreign
    BY <1>1, <1>2, <1>3 DEF IInv, ForeignInv, Entry
  <2> QED
    BY <1>1, <1>3, <2>1
<1>4. CASE x # None
  <2>1. x \in used /\ x \in TableFrames
    BY <1>2, <1>4, TableUsed DEF IInv
  <2> QED
    BY <1>1, <1>4, <2>1 DEF Entry, EntryIn, Slot
<1> QED
  BY <1>3, <1>4

-----------------------------------------------------------------------------
(* What the writes to the tables do to the walks *)

\* Pages below one entry have the same tables down to it.
LEMMA PrefixTable ==
    ASSUME NEW v \in AllPages, NEW w \in AllPages, NEW l \in 1 .. Levels,
           v \div Fan ^ l = w \div Fan ^ l
    PROVE  TablesOf(v)[l] = TablesOf(w)[l]
<1> DEFINE Bad(k) == /\ v \div Fan ^ k = w \div Fan ^ k
                     /\ TablesOf(v)[k] # TablesOf(w)[k]
           S == {j \in Nat : j < Levels /\ Bad(Levels - j)}
<1>1. ASSUME S # {} PROVE FALSE
  <2>1. PICK m \in S : \A z \in S : m <= z
    BY <1>1, MinOfNaturals
  <2>2. m \in Nat /\ m < Levels /\ Bad(Levels - m)
    BY <2>1
  <2>3. m # 0
    BY <2>2, WalkFacts, Constants
  <2> DEFINE k == Levels - m
  <2>4. /\ k \in 1 .. Levels /\ k + 1 \in 1 .. Levels /\ k < Levels /\ (k + 1) - 1 = k
        /\ m - 1 \in Nat /\ m - 1 < Levels /\ ~(m <= m - 1) /\ Levels - (m - 1) = k + 1
    BY <2>2, <2>3, Constants
  <2>5. Bad(k) /\ ~Bad(k + 1)
    <3>1. m - 1 \notin S
      BY <2>1, <2>4
    <3> QED
      BY <2>2, <2>4, <3>1
  <2> HIDE DEF k, S
  <2>6. v \div Fan ^ (k + 1) = w \div Fan ^ (k + 1) /\ Index(v, k + 1) = Index(w, k + 1)
    <3>1. v \in Nat /\ w \in Nat
      BY Constants
    <3>2. v \div Fan ^ ((k + 1) - 1) = w \div Fan ^ ((k + 1) - 1)
      BY <2>4, <2>5
    <3> QED
      BY <2>4, <3>1, <3>2, PrefixSplit
  <2>7. TablesOf(v)[k + 1] = TablesOf(w)[k + 1]
    BY <2>5, <2>6
  <2>8. TablesOf(v)[k] = TablesOf(w)[k]
    BY <2>4, <2>6, <2>7, WalkFacts DEF EntryIn
  <2> QED
    BY <2>5, <2>8
<1>2. Levels - l \in Nat /\ Levels - l < Levels /\ Levels - (Levels - l) = l
  BY Constants
<1> QED
  BY <1>1, <1>2

\* Writing the entry of a last table changes the entry of one page, and no
\* table's place.
LEMMA LeafWrite ==
    ASSUME IInv, NEW t \in Threads, pc[t] = "walk", call[t].level = 1, NEW e,
           tab' = [tab EXCEPT ![call[t].table][Slot(t)] = e], UNCHANGED used
    PROVE  \A v \in AllPages :
               /\ TablesOf(v)' = TablesOf(v)
               /\ EntryOf(v)' = IF v = Page(t) /\ TablesOf(Page(t))[1] # None
                               THEN e ELSE EntryOf(v)
<1>1. /\ Page(t) \in AllPages /\ Page(t) \in Nat /\ Slot(t) \in 0 .. Fan - 1
      /\ Slot(t) = Index(Page(t), 1)
  BY PageOwned, Constants DEF Slot
<1>2. call[t].table \in TableFrames \cup Foreign
  BY AtTable
<1>3. /\ \A f \in TableFrames : \A i \in 0 .. Fan - 1 :
            tab'[f][i] = IF f = call[t].table /\ i = Slot(t) THEN e ELSE tab[f][i]
      /\ tab' = [tab EXCEPT ![call[t].table] = [tab[call[t].table] EXCEPT ![Slot(t)] = e]]
  BY <1>1, <1>2 DEF IInv, TypeOK
<1>4. CASE TablesOf(Page(t))[1] = None
  <2>1. call[t].table \in Foreign /\ call[t].table \notin TableFrames
    BY <1>4, AtTable, Constants
  <2> TAKE v \in AllPages
  <2>2. ASSUME NEW l \in 1 .. Levels, TablesOf(v)[l] # None
        PROVE  tab'[TablesOf(v)[l]][Index(v, l)] = tab[TablesOf(v)[l]][Index(v, l)]
    <3>1. TablesOf(v)[l] \in TableFrames
      BY <2>2, TableUsed DEF IInv
    <3>2. Index(v, l) \in 0 .. Fan - 1
      BY PrefixSplit, Constants
    <3> QED
      BY <1>3, <2>1, <3>1, <3>2
  <2>3. IsWalk(tab', v, TablesOf(v))
    <3>1. ASSUME NEW l \in 1 .. Levels
          PROVE  WalkStep(tab', v, TablesOf(v), l) = WalkStep(tab, v, TablesOf(v), l)
      <4>1. l < Levels => l + 1 \in 1 .. Levels
        BY Constants
      <4> QED
        BY <2>2, <4>1, Constants DEF WalkStep
    <3> QED
      BY <3>1, WalkIs DEF IsWalk
  <2>4. TablesOf(v)' = TablesOf(v)
    BY <2>3, WalkIs, WalkOnly
  <2>5. EntryOf(v)' = EntryOf(v)
    BY <2>2, <2>4, Constants DEF EntryOf, EntryIn
  <2> QED
    BY <1>4, <2>4, <2>5
<1>5. CASE TablesOf(Page(t))[1] # None
  <2>1. TablesOf(Page(t))[1] = call[t].table /\ call[t].table # None
    BY <1>5, AtTable
  <2> TAKE v \in AllPages
  <2>2. ASSUME NEW l \in 1 .. Levels, TablesOf(v)[l] # None
        PROVE  /\ TablesOf(v)[l] \in TableFrames
               /\ TablesOf(v)[l] = call[t].table <=> l = 1 /\ v \div Fan ^ 1 = Page(t) \div Fan ^ 1
    <3>1. TablesOf(v)[l] \in TableFrames
      BY <2>2, TableUsed DEF IInv
    <3> QED
      BY <1>1, <2>1, <2>2, <3>1, TreeIs, Constants DEF IInv
  <2>3. ASSUME NEW l \in 1 .. Levels
        PROVE  Index(v, l) \in 0 .. Fan - 1
    BY PrefixSplit, Constants
  <2>4. IsWalk(tab', v, TablesOf(v))
    <3>1. ASSUME NEW l \in 1 .. Levels
          PROVE  WalkStep(tab', v, TablesOf(v), l) = WalkStep(tab, v, TablesOf(v), l)
      <4>1. CASE l = Levels
        BY <4>1 DEF WalkStep
      <4>2. CASE l < Levels /\ TablesOf(v)[l + 1] = None
        BY <4>2 DEF WalkStep
      <4>3. CASE l < Levels /\ TablesOf(v)[l + 1] # None
        <5>1. l + 1 \in 1 .. Levels /\ l + 1 # 1
          BY <4>3, Constants
        <5>2. TablesOf(v)[l + 1] \in TableFrames /\ TablesOf(v)[l + 1] # call[t].table
          BY <2>2, <4>3, <5>1
        <5>3. tab'[TablesOf(v)[l + 1]][Index(v, l + 1)] = tab[TablesOf(v)[l + 1]][Index(v, l + 1)]
          BY <1>3, <2>3, <5>1, <5>2
        <5> QED
          BY <5>3 DEF WalkStep
      <4> QED
        BY <4>1, <4>2, <4>3, Constants
    <3> QED
      BY <3>1, WalkIs DEF IsWalk
  <2>5. TablesOf(v)' = TablesOf(v)
    BY <2>4, WalkIs, WalkOnly
  <2>6. EntryOf(v)' = IF v = Page(t) /\ TablesOf(Page(t))[1] # None THEN e ELSE EntryOf(v)
    <3>1. CASE TablesOf(v)[1] = None
      BY <1>5, <2>5, <3>1 DEF EntryOf, EntryIn
    <3>2. CASE TablesOf(v)[1] # None
      <4>1. /\ TablesOf(v)[1] \in TableFrames
            /\ TablesOf(v)[1] = call[t].table <=> v \div Fan ^ 1 = Page(t) \div Fan ^ 1
        BY <2>2, <3>2, Constants
      <4>2. v = Page(t) <=> TablesOf(v)[1] = call[t].table /\ Index(v, 1) = Slot(t)
        <5>1. v \div Fan ^ (1 - 1) = Page(t) \div Fan ^ (1 - 1) <=>
                 v \div Fan ^ 1 = Page(t) \div Fan ^ 1 /\ Index(v, 1) = Index(Page(t), 1)
          <6>1. v \in Nat /\ 1 \in 1 .. Levels
            BY Constants
          <6> QED
            BY <1>1, <6>1, PrefixSplit
        <5>2. v \div Fan ^ 0 = v /\ Page(t) \div Fan ^ 0 = Page(t)
          BY <1>1, PrefixEnds
        <5>3. 1 - 1 = 0
          OBVIOUS
        <5> QED
          BY <1>1, <4>1, <5>1, <5>2, <5>3
      <4>3. /\ EntryOf(v)' = tab'[TablesOf(v)[1]][Index(v, 1)]
            /\ EntryOf(v) = tab[TablesOf(v)[1]][Index(v, 1)]
        BY <2>5, <3>2 DEF EntryOf, EntryIn
      <4> QED
        BY <1>3, <1>5, <2>3, <4>1, <4>2, <4>3, Constants
    <3> QED
      BY <3>1, <3>2
  <2> QED
    BY <2>5, <2>6
<1> QED
  BY <1>4, <1>5

\* A new table serves the pages below the entry it was missing in, all of
\* them unmapped, and nothing else changes.
LEMMA TableLinked ==
    ASSUME IInv, NEW t \in Threads, pc[t] = "link", NEW lev \in 1 .. Levels,
           lev = call[t].level, lev > 1, NEW f \in TableFrames, ~InTree(f),
           tab[f] = EmptyTable, ~Entry(t).present, Allocates(t),
           tab' = [tab EXCEPT ![call[t].table][Slot(t)] = [present |-> TRUE, addr |-> f]]
    PROVE  \A v \in AllPages :
               /\ TablesOf(v)' = [l \in 1 .. Levels |->
                     IF l = lev - 1 /\ v \div Fan ^ l = Page(t) \div Fan ^ l
                     THEN f ELSE TablesOf(v)[l]]
               /\ v \div Fan ^ (lev - 1) = Page(t) \div Fan ^ (lev - 1) =>
                     TablesOf(v)[lev - 1] = None
               /\ EntryOf(v)' = EntryOf(v)
<1> DEFINE e == [present |-> TRUE, addr |-> f]
           c == call[t].table
           Same(v, l) == v \div Fan ^ l = Page(t) \div Fan ^ l
<1>1. /\ Page(t) \in AllPages /\ Page(t) \in Nat /\ Slot(t) \in 0 .. Fan - 1
      /\ Slot(t) = Index(Page(t), lev)
  BY PageOwned, Constants DEF Slot
<1>2. /\ TablesOf(Page(t))[lev] = c /\ c \in used /\ c # None /\ c \in TableFrames
      /\ f # c /\ f # None
  <2>1. TablesOf(Page(t))[lev] = c /\ c \in used /\ c # None /\ c \in TableFrames
    BY AtTable
  <2> QED
    BY <1>1, <2>1, Constants DEF InTree
<1>3. \A g \in TableFrames : \A i \in 0 .. Fan - 1 :
          tab'[g][i] = IF g = c /\ i = Slot(t) THEN e ELSE tab[g][i]
  BY <1>1, <1>2 DEF IInv, TypeOK
<1>4. \A i \in 0 .. Fan - 1 : tab[f][i] = Absent
  BY DEF EmptyTable
<1>5. lev - 1 \in 1 .. Levels /\ lev - 1 < Levels /\ lev - 1 + 1 = lev /\ lev \in Nat
  BY Constants
<1> HIDE DEF e, c
<1> TAKE v \in AllPages
<1>6. ASSUME NEW l \in 1 .. Levels
      PROVE  Index(v, l) \in 0 .. Fan - 1
  BY PrefixSplit, Constants
<1>7. ASSUME NEW l \in 1 .. Levels, TablesOf(v)[l] # None
      PROVE  /\ TablesOf(v)[l] \in TableFrames /\ TablesOf(v)[l] # f
             /\ TablesOf(v)[l] = c <=> l = lev /\ Same(v, lev)
  <2>1. TablesOf(v)[l] \in TableFrames /\ TablesOf(v)[l] # f
    BY <1>7, TableUsed DEF IInv, InTree
  <2>2. TablesOf(v)[l] = TablesOf(Page(t))[lev] <=> l = lev /\ v \div Fan ^ l = Page(t) \div Fan ^ l
    BY <1>1, <1>2, <1>7, TreeIs DEF IInv
  <2> QED
    BY <1>2, <2>1, <2>2
<1>8. Same(v, lev - 1) <=> Same(v, lev) /\ Index(v, lev) = Slot(t)
  <2>1. v \in Nat /\ Page(t) \in Nat
    BY <1>1, Sizes
  <2> HIDE DEF Same
  <2> QED
    BY <1>1, <2>1, PrefixSplit DEF Same
<1>9. Same(v, lev) => TablesOf(v)[lev] = c
  BY <1>1, <1>2, PrefixTable
<1>10. ASSUME Same(v, lev - 1) PROVE TablesOf(v)[lev - 1] = None
  <2>1. TablesOf(v)[lev] = c /\ Index(v, lev) = Slot(t)
    BY <1>8, <1>9, <1>10
  <2>2. TablesOf(v)[lev - 1] = Target(EntryIn(TablesOf(v)[lev], v, lev))
    BY <1>5, WalkFacts
  <2>3. EntryIn(TablesOf(v)[lev], v, lev) = Entry(t)
    BY <1>2, <2>1 DEF EntryIn, Entry, c
  <2> QED
    BY <2>2, <2>3 DEF Target
<1> DEFINE F == [l \in 1 .. Levels |-> IF l = lev - 1 /\ Same(v, l) THEN f ELSE TablesOf(v)[l]]
<1>11. IsWalk(tab', v, F)
  <2>1. ASSUME NEW l \in 1 .. Levels
        PROVE  F[l] = WalkStep(tab', v, F, l)
    <3>1. CASE l = Levels
      <4>1. F[l] = TablesOf(v)[l]
        BY <1>5, <3>1
      <4> QED
        BY <3>1, <4>1, WalkFacts DEF WalkStep
    <3>2. CASE l < Levels
      <4>1. l + 1 \in 1 .. Levels /\ l \in Nat /\ l # Levels
        BY <3>2, Constants
      <4>2. TablesOf(v)[l] = Target(EntryIn(TablesOf(v)[l + 1], v, l + 1))
        BY <3>2, WalkFacts
      <4> DEFINE x == F[l + 1]
      <4>3. WalkStep(tab', v, F, l) = Target(IF x = None THEN Absent ELSE tab'[x][Index(v, l + 1)])
        BY <4>1 DEF WalkStep
      <4>4. Index(v, l + 1) \in 0 .. Fan - 1
        BY <1>6, <4>1
      <4>5. CASE l + 1 = lev - 1 /\ Same(v, lev - 1)
        <5>1. x = f /\ TablesOf(v)[l + 1] = None
          BY <1>10, <4>1, <4>5
        <5>2. F[l] = TablesOf(v)[l] /\ TablesOf(v)[l] = None
          <6>1. l # lev - 1
            BY <1>5, <4>1, <4>5
          <6> QED
            BY <4>2, <5>1, <6>1, Constants DEF EntryIn, Target
        <5>3. tab'[f][Index(v, l + 1)] = Absent
          BY <1>2, <1>3, <1>4, <4>4
        <5> QED
          BY <1>2, <4>3, <5>1, <5>2, <5>3, Constants DEF Target
      <4>6. CASE ~(l + 1 = lev - 1 /\ Same(v, lev - 1))
        <5>1. x = TablesOf(v)[l + 1]
          BY <4>1, <4>6
        <5> HIDE DEF x
        <5>2. CASE x = None
          <6>1. ~(l = lev - 1 /\ Same(v, l))
            <7>1. l = lev - 1 => l + 1 = lev
              BY <1>5, <4>1
            <7> QED
              BY <1>2, <1>8, <1>9, <5>1, <5>2, <7>1
          <6>2. F[l] = TablesOf(v)[l]
            BY <6>1
          <6> QED
            BY <4>2, <4>3, <5>1, <5>2, <6>2 DEF EntryIn
        <5>3. CASE x # None
          <6>1. x \in TableFrames /\ (x = c <=> l + 1 = lev /\ Same(v, lev))
            BY <1>7, <4>1, <5>1, <5>3
          <6>2. l + 1 = lev <=> l = lev - 1
            BY <1>5, <4>1
          <6>3. x = c /\ Index(v, l + 1) = Slot(t) <=> l = lev - 1 /\ Same(v, l)
            BY <1>8, <6>1, <6>2
          <6>4. tab'[x][Index(v, l + 1)] =
                    IF l = lev - 1 /\ Same(v, l) THEN e ELSE tab[x][Index(v, l + 1)]
            <7>1. tab'[x][Index(v, l + 1)] =
                      IF x = c /\ Index(v, l + 1) = Slot(t) THEN e ELSE tab[x][Index(v, l + 1)]
              BY <1>3, <4>4, <6>1
            <7> QED
              BY <6>3, <7>1
          <6>5. CASE l = lev - 1 /\ Same(v, l)
            <7>1. F[l] = f
              BY <6>5
            <7>2. Target(e) = f
              BY DEF Target, e
            <7> QED
              BY <4>3, <5>3, <6>4, <6>5, <7>1, <7>2
          <6>6. CASE ~(l = lev - 1 /\ Same(v, l))
            <7>1. F[l] = TablesOf(v)[l]
              BY <6>6
            <7> QED
              BY <4>2, <4>3, <5>1, <5>3, <6>4, <6>6, <7>1 DEF EntryIn
          <6> QED
            BY <6>5, <6>6
        <5> QED
          BY <5>2, <5>3
      <4> QED
        BY <4>5, <4>6
    <3> QED
      BY <3>1, <3>2, Constants
  <2> HIDE DEF F
  <2>2. F = [l \in 1 .. Levels |-> F[l]]
    BY DEF F
  <2> QED
    BY <2>1, <2>2 DEF IsWalk
<1>12. TablesOf(v)' = F
  <2> HIDE DEF F
  <2> QED
    BY <1>11, WalkIs, WalkOnly
<1>13. EntryOf(v)' = EntryOf(v)
  <2>1. /\ EntryOf(v) = IF TablesOf(v)[1] = None THEN Absent ELSE tab[TablesOf(v)[1]][Index(v, 1)]
        /\ EntryOf(v)' = IF F[1] = None THEN Absent ELSE tab'[F[1]][Index(v, 1)]
    BY <1>12 DEF EntryOf, EntryIn
  <2>2. Index(v, 1) \in 0 .. Fan - 1 /\ 1 \in 1 .. Levels
    BY <1>6, Constants
  <2>3. CASE 1 = lev - 1 /\ Same(v, 1)
    <3>1. TablesOf(v)[1] = None /\ F[1] = f
      BY <1>10, <2>2, <2>3
    <3>2. tab'[f][Index(v, 1)] = Absent
      BY <1>2, <1>3, <1>4, <2>2
    <3> QED
      BY <1>2, <2>1, <3>1, <3>2
  <2>4. CASE ~(1 = lev - 1 /\ Same(v, 1))
    <3>1. F[1] = TablesOf(v)[1]
      BY <2>2, <2>4
    <3>2. TablesOf(v)[1] # None => /\ TablesOf(v)[1] \in TableFrames /\ TablesOf(v)[1] # c
      <4>1. 1 # lev
        BY <1>5
      <4> QED
        BY <1>7, <2>2, <4>1
    <3>3. TablesOf(v)[1] # None =>
              tab'[TablesOf(v)[1]][Index(v, 1)] = tab[TablesOf(v)[1]][Index(v, 1)]
      <4> HIDE DEF F
      <4>1. ASSUME NEW g \in TableFrames, g # c, NEW i \in 0 .. Fan - 1
            PROVE  tab'[g][i] = tab[g][i]
        BY <1>3, <4>1, ZenonT(30)
      <4>2. Index(v, 1) \in 0 .. Fan - 1
        BY <2>2
      <4> QED
        BY <3>2, <4>1, <4>2
    <3> HIDE DEF F
    <3> QED
      BY <2>1, <3>1, <3>3
  <2> QED
    BY <2>3, <2>4
<1> QED
  BY <1>10, <1>12, <1>13

-----------------------------------------------------------------------------
(* The steps of a call *)

\* Nobody else walks while lock_ is held.
LEMMA Alone ==
    ASSUME IInv, NEW t \in Threads, pc[t] \in {"walk", "link"}
    PROVE  \A u \in Threads \ {t} : pc[u] \notin {"walk", "link"}
<1>1. OneHolder
  BY LineExcludes DEF IInv
<1> QED
  BY <1>1 DEF IInv, HoldInv, OneHolder

\* What a call in progress relies on is its own.
LEMMA CallKept ==
    ASSUME NEW t \in Threads, CallOK(t), call[t] \in Calls,
           call'[t].op = call[t].op, call'[t].step = call[t].step,
           call'[t].page = call[t].page, call'[t].to = call[t].to,
           call'[t].addr = call[t].addr, call'[t].n = call[t].n,
           \A w \in Pages : Owner[w] = t => EntryOf(w)' = EntryOf(w)
    PROVE  CallOK(t)'
<1>1. \A w \in PagesLeft(t) : w \in Pages /\ Owner[w] = t
  BY DEF CallOK, Own, PagesLeft
<1>2. \A w \in PagesLeft(t) : EntryOf(w)' = EntryOf(w) /\ Translation(w)' = Translation(w)
  BY <1>1 DEF Translation
<1>3. PagesLeft(t)' = PagesLeft(t)
  BY DEF PagesLeft
<1> QED
  BY <1>2, <1>3 DEF CallOK, Own, OwnFrame, OwnFrames

\* A step that leaves the tables alone and is neither in nor at a link.
LEMMA TablesKept ==
    ASSUME IInv, NEW t \in Threads, UNCHANGED <<tab, used>>,
           TypeOK', LockInv', HoldInv',
           \A u \in Threads \ {t} : call'[u] = call[u] /\ pc'[u] = pc[u],
           pc[t] # "link", pc'[t] # "link",
           pc'[t] \in {"wait", "walk", "next"} => CallOK(t)',
           pc'[t] = "walk" => WalkOK(t)'
    PROVE  IInv'
<1>1. TablesFormTree' /\ FreshInv' /\ ForeignInv' /\ LeafInv'
  <2>1. {u \in Threads : pc'[u] = "link"} = {u \in Threads : pc[u] = "link"}
        /\ t \notin {u \in Threads : pc[u] = "link"}
    OBVIOUS
  <2>2. FreshTables' = FreshTables
    BY <2>1 DEF FreshTables
  <2> QED
    BY <2>2, SameTree DEF IInv
<1>2. CallInv'
  <2> SUFFICES ASSUME NEW u \in Threads, pc'[u] \in {"wait", "walk", "link", "next"}
               PROVE  CallOK(u)'
    BY DEF CallInv
  <2>1. CASE u = t
    BY <2>1
  <2>2. CASE u # t
    <3>1. call'[u] = call[u] /\ CallOK(u) /\ call[u] \in Calls
      BY <2>2 DEF IInv, CallInv, TypeOK
    <3> QED
      BY <3>1, CallKept, SameTables
  <2> QED
    BY <2>1, <2>2
<1>3. WalkInv'
  <2> SUFFICES ASSUME NEW u \in Threads, pc'[u] \in {"walk", "link"}
               PROVE  WalkOK(u)'
    BY DEF WalkInv
  <2>1. CASE u = t
    BY <2>1
  <2>2. CASE u # t
    <3>1. call'[u] = call[u] /\ WalkOK(u)
      BY <2>2 DEF IInv, WalkInv
    <3>2. Page(u)' = Page(u) /\ (Allocates(u)' <=> Allocates(u))
      BY <3>1 DEF Page, Allocates
    <3>3. TablesOf(Page(u))' = TablesOf(Page(u))
      <4>1. PICK v : v = Page(u)
        OBVIOUS
      <4> QED
        BY <3>2, <4>1, SameTables
    <3> QED
      BY <3>1, <3>2, <3>3 DEF WalkOK
  <2> QED
    BY <2>1, <2>2
<1>4. LinkInv'
  <2> SUFFICES ASSUME NEW u \in Threads, pc'[u] = "link"
               PROVE  LinkOK(u)'
    BY DEF LinkInv
  <2>1. u # t /\ call'[u] = call[u] /\ pc[u] = "link"
    OBVIOUS
  <2>2. LinkOK(u)
    BY <2>1 DEF IInv, LinkInv
  <2> QED
    BY <2>1, <2>2, SameLink
<1> QED
  BY <1>1, <1>2, <1>3, <1>4 DEF IInv

\* At the start the top table is the only one, and it is empty.
LEMMA InitIInv == Init => IInv
<1> SUFFICES ASSUME Init PROVE IInv
  OBVIOUS
<1>1. /\ tab = [f \in TableFrames \cup Foreign |->
                   IF f \in Foreign THEN Firmware[f] ELSE EmptyTable]
      /\ used = {Root}
      /\ \A t \in Threads : pc[t] = "idle"
      /\ asked = {} /\ inside = {}
  BY DEF Init, lock!Init
<1>2. LockInv
  BY InitLock DEF Init
<1>3. TypeOK
  <2>1. NoCall \in Calls
    BY Constants DEF NoCall, Calls, Steps
  <2>2. EmptyTable \in
           [0 .. Fan - 1 -> [present : BOOLEAN, addr : TableFrames \cup Frames \cup Foreign]]
    BY Constants DEF EmptyTable, Absent
  <2>3. \A f \in Foreign : Firmware[f] \in
           [0 .. Fan - 1 -> [present : BOOLEAN, addr : TableFrames \cup Frames \cup Foreign]]
    <3>1. [present : BOOLEAN, addr : Foreign]
             \subseteq [present : BOOLEAN, addr : TableFrames \cup Frames \cup Foreign]
      OBVIOUS
    <3> QED
      BY <3>1, FirmwareOK
  <2>4. tab \in [TableFrames \cup Foreign ->
           [0 .. Fan - 1 -> [present : BOOLEAN, addr : TableFrames \cup Frames \cup Foreign]]]
    BY <1>1, <2>2, <2>3
  <2> QED
    BY <1>1, <1>2, <2>1, <2>4, Constants
       DEF Init, TypeOK, LockInv, lock!MutexTypeOK
<1> DEFINE F == [l \in 1 .. Levels |-> IF l = Levels THEN Root ELSE None]
<1>4. ASSUME NEW v \in AllPages
      PROVE  TablesOf(v) = F /\ EntryOf(v) = Absent
  <2>1. \A l \in 1 .. Levels : Index(v, l) \in 0 .. Fan - 1
    BY PrefixSplit, Constants
  <2>2. \A l \in 1 .. Levels : tab[Root][Index(v, l)] = Absent
    BY <1>1, <2>1, Constants DEF EmptyTable
  <2>3. ASSUME NEW l \in 1 .. Levels
        PROVE  F[l] = WalkStep(tab, v, F, l)
    <3>1. CASE l = Levels
      BY <3>1 DEF WalkStep
    <3>2. CASE l # Levels
      <4>1. l + 1 \in 1 .. Levels
        BY <3>2, Constants
      <4>2. F[l + 1] = Root \/ F[l + 1] = None
        BY <4>1
      <4>3. (IF F[l + 1] = None THEN Absent ELSE tab[F[l + 1]][Index(v, l + 1)]) = Absent
        BY <2>2, <4>1, <4>2
      <4> QED
        BY <3>2, <4>3, Constants DEF WalkStep, Target
    <3> QED
      BY <3>1, <3>2
  <2>4. TablesOf(v) = F
    <3> HIDE DEF F
    <3>1. F = [l \in 1 .. Levels |-> F[l]]
      BY DEF F
    <3>2. IsWalk(tab, v, F)
      BY <2>3, <3>1 DEF IsWalk
    <3> QED
      BY <3>2, WalkIs, WalkOnly
  <2>5. F[1] = Root \/ F[1] = None
    BY Constants
  <2>6. EntryOf(v) = Absent
    <3> HIDE DEF F
    <3> QED
      BY <2>2, <2>4, <2>5, Constants DEF EntryOf, EntryIn
  <2> QED
    BY <2>4, <2>6
<1>5. TablesFormTree
  <2>1. \A v \in AllPages, l \in 1 .. Levels :
            TablesOf(v)[l] = IF l = Levels THEN Root ELSE None
    BY <1>4
  <2>2. 0 \in AllPages /\ Root # None
    BY Constants, PowersOK DEF AllPages
  <2>3. {TablesOf(v)[l] : v \in AllPages, l \in 1 .. Levels} \ {None} = {Root}
    <3>1. \A v \in AllPages, l \in 1 .. Levels : TablesOf(v)[l] \in {Root, None}
      BY <2>1
    <3>2. Levels \in 1 .. Levels
      BY Constants
    <3>3. TablesOf(0)[Levels] = Root
      BY <2>1, <2>2, <3>2
    <3> DEFINE tables == {TablesOf(v)[l] : v \in AllPages, l \in 1 .. Levels}
    <3>4. Root \in tables
      BY <2>2, <3>2, <3>3
    <3>5. \A x \in tables : x \in {Root, None}
      BY <3>1
    <3> HIDE DEF tables
    <3>6. tables \ {None} = {Root}
      BY <2>2, <3>4, <3>5
    <3> QED
      BY <3>6 DEF tables
  <2>4. \A v, w \in AllPages : v \div Fan ^ Levels = w \div Fan ^ Levels
    BY PrefixEnds
  <2>5. FreshTables = {}
    BY <1>1 DEF FreshTables
  <2> QED
    BY <1>1, <2>1, <2>3, <2>4, <2>5, TreeIs
<1>6. LeafInv
  BY <1>4, Constants DEF LeafInv
<1>7. HoldInv /\ FreshInv /\ CallInv /\ WalkInv /\ LinkInv
  BY <1>1, Constants DEF HoldInv, FreshInv, CallInv, WalkInv, LinkInv
<1>8. ForeignInv
  BY <1>1, FirmwareOK DEF ForeignInv
<1> QED
  BY <1>2, <1>3, <1>5, <1>6, <1>7, <1>8 DEF IInv

\* lock() of a call, from "idle" or between two locked calls.
LEMMA AskIInv ==
    ASSUME IInv, NEW t \in Threads, pc[t] \in {"idle", "next"}, lock!Ask(t),
           pc' = [pc EXCEPT ![t] = "wait"], UNCHANGED <<tab, used, result>>,
           NEW c \in Calls, call' = [call EXCEPT ![t] = c], CallOK(t)'
    PROVE  IInv'
<1>1. LockInv'
  BY AskLock DEF IInv
<1>2. TypeOK'
  BY <1>1 DEF IInv, TypeOK, LockInv, lock!MutexTypeOK
<1>3. HoldInv'
  BY DEF IInv, TypeOK, HoldInv, lock!Ask
<1>4. /\ \A u \in Threads \ {t} : call'[u] = call[u] /\ pc'[u] = pc[u]
      /\ pc'[t] = "wait"
  BY DEF IInv, TypeOK
<1> QED
  BY <1>1, <1>2, <1>3, <1>4, TablesKept

\* Setting one field of a call leaves a call.
LEMMA SetField ==
    ASSUME NEW c \in Calls
    PROVE  /\ \A x \in Steps \cup {"remap"} : [c EXCEPT !.op = x] \in Calls
           /\ \A x \in Steps : [c EXCEPT !.step = x] \in Calls
           /\ \A x \in Nat : [c EXCEPT !.page = x] \in Calls
           /\ \A x \in Nat : [c EXCEPT !.to = x] \in Calls
           /\ \A x \in Frames \cup {None} : [c EXCEPT !.addr = x] \in Calls
           /\ \A x \in Nat : [c EXCEPT !.n = x] \in Calls
           /\ \A x \in BOOLEAN : [c EXCEPT !.readable = x] \in Calls
           /\ \A x \in 1 .. Levels : [c EXCEPT !.level = x] \in Calls
           /\ \A x \in TableFrames \cup Foreign : [c EXCEPT !.table = x] \in Calls
           /\ \A x \in TableFrames \cup {None} : [c EXCEPT !.fresh = x] \in Calls
  BY DEF Calls

\* The calls start with what their callers may ask for.
LEMMA CallIInv ==
    ASSUME IInv, NEW t \in Threads, Call(t)
    PROVE  IInv'
<1>1. NoCall \in Calls /\ Pages \subseteq Nat /\ Frames \subseteq Nat /\ 1 \in Nat /\ 2 \in Nat
  BY Constants DEF NoCall, Calls, Steps
<1>2. ASSUME NEW c \in Calls, Start(t, c), c.n >= 1, Own(t, c.page, c.n),
             c.op # "remap" => c.step = c.op,
             c.op = "map" => c.addr \in Nat /\ OwnFrames(t, c.addr, c.n),
             c.op = "setflags" => \A w \in c.page .. (c.page + c.n - 1) : EntryOf(w).addr # 0,
             c.op = "remap" => /\ Own(t, c.to, c.n) /\ c.step = "lookup"
                               /\ \A w \in c.page .. (c.page + c.n - 1) : Translation(w) # None
      PROVE  IInv'
  <2>1. /\ pc[t] = "idle" /\ lock!Ask(t) /\ pc' = [pc EXCEPT ![t] = "wait"]
        /\ UNCHANGED <<tab, used, result>> /\ call' = [call EXCEPT ![t] = c]
    BY <1>2 DEF Start
  <2>2. call'[t] = c
    BY <2>1 DEF IInv, TypeOK
  <2>3. \A w : EntryOf(w)' = EntryOf(w) /\ Translation(w)' = Translation(w)
    BY <2>1, SameTables
  <2>4. PagesLeft(t)' = c.page .. (c.page + c.n - 1)
    BY <2>2 DEF PagesLeft
  <2>5. CallOK(t)'
    BY <1>2, <2>2, <2>3, <2>4 DEF CallOK, Own, OwnFrame, OwnFrames
  <2> QED
    BY <2>1, <2>5, AskIInv
<1>3. ASSUME NEW v \in Pages, NEW n \in 1 .. 2, NEW f \in Frames, MapPages(t, v, f, n)
      PROVE  IInv'
  <2> DEFINE c == [NoCall EXCEPT !.op = "map", !.step = "map", !.page = v, !.addr = f, !.n = n]
  <2>1. /\ c \in Calls /\ c.op = "map" /\ c.step = "map" /\ c.page = v /\ c.addr = f /\ c.n = n
    <3> DEFINE c1 == [NoCall EXCEPT !.op = "map"]
               c2 == [c1 EXCEPT !.step = "map"]
               c3 == [c2 EXCEPT !.page = v]
               c4 == [c3 EXCEPT !.addr = f]
               c5 == [c4 EXCEPT !.n = n]
    <3>1. v \in Nat /\ n \in Nat /\ NoCall \in Calls
      BY <1>1
    <3>2. c = c5
      OBVIOUS
    <3>3. c.op = "map" /\ c.step = "map" /\ c.page = v /\ c.addr = f /\ c.n = n
      BY DEF NoCall
    <3> HIDE DEF c, c1, c2, c3, c4, c5
    <3>4. c1 \in Calls
      BY <3>1, SetField DEF c1, Steps
    <3>5. c2 \in Calls
      BY <3>1, <3>4, SetField DEF c2, Steps
    <3>6. c3 \in Calls
      BY <3>1, <3>5, SetField DEF c3, Steps
    <3>7. c4 \in Calls
      BY <3>1, <3>6, SetField DEF c4, Steps
    <3>8. c5 \in Calls
      BY <3>1, <3>7, SetField DEF c5, Steps
    <3> QED
      BY <3>2, <3>3, <3>8
  <2>2. Own(t, v, n) /\ OwnFrames(t, f, n) /\ Start(t, c) /\ f \in Nat
    BY <1>1, <1>3 DEF MapPages, OwnFrames, OwnFrame
  <2> HIDE DEF c
  <2> QED
    BY <1>2, <2>1, <2>2
<1>4. ASSUME NEW v \in Pages, NEW n \in 1 .. 2, UnmapPages(t, v, n)
      PROVE  IInv'
  <2> DEFINE c == [NoCall EXCEPT !.op = "unmap", !.step = "unmap", !.page = v, !.n = n]
  <2>1. c \in Calls /\ c.op = "unmap" /\ c.step = "unmap" /\ c.page = v /\ c.n = n
    <3> DEFINE c1 == [NoCall EXCEPT !.op = "unmap"]
               c2 == [c1 EXCEPT !.step = "unmap"]
               c3 == [c2 EXCEPT !.page = v]
               c4 == [c3 EXCEPT !.n = n]
    <3>1. v \in Nat /\ n \in Nat /\ NoCall \in Calls
      BY <1>1
    <3>2. c = c4
      OBVIOUS
    <3>3. c.op = "unmap" /\ c.step = "unmap" /\ c.page = v /\ c.n = n
      BY DEF NoCall
    <3> HIDE DEF c, c1, c2, c3, c4
    <3>4. c1 \in Calls
      BY <3>1, SetField DEF c1, Steps
    <3>5. c2 \in Calls
      BY <3>1, <3>4, SetField DEF c2, Steps
    <3>6. c3 \in Calls
      BY <3>1, <3>5, SetField DEF c3, Steps
    <3>7. c4 \in Calls
      BY <3>1, <3>6, SetField DEF c4, Steps
    <3> QED
      BY <3>2, <3>3, <3>7
  <2>2. Own(t, v, n) /\ Start(t, c)
    BY <1>4 DEF UnmapPages
  <2> HIDE DEF c
  <2> QED
    BY <1>2, <2>1, <2>2
<1>5. ASSUME NEW v \in Pages, NEW n \in 1 .. 2, NEW r \in BOOLEAN, SetFlagsPages(t, v, n, r)
      PROVE  IInv'
  <2> DEFINE c == [NoCall EXCEPT !.op = "setflags", !.step = "setflags", !.page = v,
                                 !.n = n, !.readable = r]
  <2>1. c \in Calls /\ c.op = "setflags" /\ c.step = "setflags" /\ c.page = v /\ c.n = n
    <3> DEFINE c1 == [NoCall EXCEPT !.op = "setflags"]
               c2 == [c1 EXCEPT !.step = "setflags"]
               c3 == [c2 EXCEPT !.page = v]
               c4 == [c3 EXCEPT !.n = n]
               c5 == [c4 EXCEPT !.readable = r]
    <3>1. v \in Nat /\ n \in Nat /\ NoCall \in Calls
      BY <1>1
    <3>2. c = c5
      OBVIOUS
    <3>3. c.op = "setflags" /\ c.step = "setflags" /\ c.page = v /\ c.n = n /\ c.readable = r
      BY DEF NoCall
    <3> HIDE DEF c, c1, c2, c3, c4, c5
    <3>4. c1 \in Calls
      BY <3>1, SetField DEF c1, Steps
    <3>5. c2 \in Calls
      BY <3>1, <3>4, SetField DEF c2, Steps
    <3>6. c3 \in Calls
      BY <3>1, <3>5, SetField DEF c3, Steps
    <3>7. c4 \in Calls
      BY <3>1, <3>6, SetField DEF c4, Steps
    <3>8. c5 \in Calls
      BY <3>1, <3>7, SetField DEF c5, Steps
    <3> QED
      BY <3>2, <3>3, <3>8
  <2>2. /\ Own(t, v, n) /\ Start(t, c)
        /\ \A w \in v .. (v + n - 1) : EntryOf(w).addr # 0
    BY <1>5 DEF SetFlagsPages
  <2> HIDE DEF c
  <2> QED
    BY <1>2, <2>1, <2>2
<1>6. ASSUME NEW v \in Pages, NEW w \in Pages, NEW n \in 1 .. 2, RemapPages(t, v, w, n)
      PROVE  IInv'
  <2> DEFINE c == [NoCall EXCEPT !.op = "remap", !.step = "lookup", !.page = v,
                                 !.to = w, !.n = n]
  <2>1. /\ c \in Calls /\ c.op = "remap" /\ c.step = "lookup" /\ c.page = v /\ c.to = w
        /\ c.n = n
    <3> DEFINE c1 == [NoCall EXCEPT !.op = "remap"]
               c2 == [c1 EXCEPT !.step = "lookup"]
               c3 == [c2 EXCEPT !.page = v]
               c4 == [c3 EXCEPT !.to = w]
               c5 == [c4 EXCEPT !.n = n]
    <3>1. v \in Nat /\ w \in Nat /\ n \in Nat /\ NoCall \in Calls
      BY <1>1
    <3>2. c = c5
      OBVIOUS
    <3>3. c.op = "remap" /\ c.step = "lookup" /\ c.page = v /\ c.to = w /\ c.n = n
      BY DEF NoCall
    <3> HIDE DEF c, c1, c2, c3, c4, c5
    <3>4. c1 \in Calls
      BY <3>1, SetField DEF c1, Steps
    <3>5. c2 \in Calls
      BY <3>1, <3>4, SetField DEF c2, Steps
    <3>6. c3 \in Calls
      BY <3>1, <3>5, SetField DEF c3, Steps
    <3>7. c4 \in Calls
      BY <3>1, <3>6, SetField DEF c4, Steps
    <3>8. c5 \in Calls
      BY <3>1, <3>7, SetField DEF c5, Steps
    <3> QED
      BY <3>2, <3>3, <3>8
  <2>2. /\ Own(t, v, n) /\ Own(t, w, n) /\ Start(t, c)
        /\ \A x \in v .. (v + n - 1) : Translation(x) # None
    BY <1>6 DEF RemapPages
  <2> HIDE DEF c
  <2> QED
    BY <1>2, <2>1, <2>2
<1>7. ASSUME NEW v \in Pages, Lookup(t, v)
      PROVE  IInv'
  <2> DEFINE c == [NoCall EXCEPT !.page = v, !.n = 1]
  <2>1. c \in Calls /\ c.op = "lookup" /\ c.step = "lookup" /\ c.page = v /\ c.n = 1
    BY <1>1 DEF NoCall, Calls, Steps
  <2>2. Own(t, v, 1) /\ Start(t, c)
    BY <1>7 DEF Lookup
  <2> HIDE DEF c
  <2> QED
    BY <1>2, <2>1, <2>2
<1> QED
  BY <1>3, <1>4, <1>5, <1>6, <1>7 DEF Call

\* The caller gets its result.
LEMMA ReturnIInv ==
    ASSUME IInv, NEW t \in Threads, Return(t)
    PROVE  IInv'
<1>1. /\ pc[t] = "return" /\ pc' = [pc EXCEPT ![t] = "idle"]
      /\ call' = [call EXCEPT ![t] = NoCall] /\ result' = [result EXCEPT ![t] = SYSTEM_OK]
      /\ UNCHANGED <<tab, used>> /\ UNCHANGED lvars
  BY DEF Return
<1>2. NoCall \in Calls
  BY Constants DEF NoCall, Calls, Steps
<1>3. LockInv'
  BY <1>1 DEF IInv, lvars, LockInv, lock!MutexTypeOK, lock!Line
<1>4. TypeOK'
  BY <1>1, <1>2, <1>3 DEF IInv, TypeOK, LockInv, lock!MutexTypeOK
<1>5. HoldInv'
  BY <1>1 DEF IInv, TypeOK, HoldInv, lvars
<1>6. /\ \A u \in Threads \ {t} : call'[u] = call[u] /\ pc'[u] = pc[u]
      /\ pc'[t] = "idle"
  BY <1>1 DEF IInv, TypeOK
<1> QED
  BY <1>1, <1>3, <1>4, <1>5, <1>6, TablesKept

\* The next locked call of a remap or a loop over pages.
LEMMA ResumeIInv ==
    ASSUME IInv, NEW t \in Threads, Resume(t)
    PROVE  IInv'
<1>1. /\ pc[t] = "next" /\ lock!Ask(t) /\ pc' = [pc EXCEPT ![t] = "wait"]
      /\ UNCHANGED <<tab, used, call, result>>
  BY DEF Resume
<1>2. PICK c \in Calls : c = call[t]
  BY DEF IInv, TypeOK
<1>3. call' = [call EXCEPT ![t] = c]
  BY <1>1, <1>2 DEF IInv, TypeOK
<1>4. CallOK(t) /\ call[t] \in Calls
  BY <1>1 DEF IInv, CallInv, TypeOK
<1>5. CallOK(t)'
  BY <1>1, <1>4, CallKept, SameTables
<1> QED
  BY <1>1, <1>3, <1>5, AskIInv

\* A walk goes to a table, with or without a fresh one in hand.
Moves(t, l, f, g) ==
    \/ call' = [call EXCEPT ![t].level = l, ![t].table = f, ![t].fresh = g]
    \/ g = call[t].fresh /\ call' = [call EXCEPT ![t].level = l, ![t].table = f]
    \/ /\ l = call[t].level /\ f = call[t].table
       /\ call' = [call EXCEPT ![t].fresh = g]

\* The rest of the call stays as it is.
SameCall(t) ==
    /\ call'[t].op = call[t].op /\ call'[t].step = call[t].step
    /\ call'[t].page = call[t].page /\ call'[t].to = call[t].to
    /\ call'[t].addr = call[t].addr /\ call'[t].n = call[t].n
    /\ call'[t].readable = call[t].readable
    /\ Page(t)' = Page(t) /\ (Allocates(t)' <=> Allocates(t))

LEMMA WalkMoves ==
    ASSUME TypeOK, NEW t \in Threads, NEW l \in 1 .. Levels,
           NEW f \in TableFrames \cup Foreign, NEW g \in TableFrames \cup {None},
           Moves(t, l, f, g)
    PROVE  /\ call' \in [Threads -> Calls]
           /\ \A u \in Threads \ {t} : call'[u] = call[u]
           /\ call'[t].level = l /\ call'[t].table = f /\ call'[t].fresh = g
           /\ SameCall(t)
<1>1. call[t] \in Calls /\ call \in [Threads -> Calls]
  BY DEF TypeOK
<1> DEFINE c1 == [call[t] EXCEPT !.level = l]
           c2 == [c1 EXCEPT !.table = f]
           c3 == [c2 EXCEPT !.fresh = g]
<1>2. call' = [call EXCEPT ![t] = c3]
  <2>1. CASE call' = [call EXCEPT ![t].level = l, ![t].table = f, ![t].fresh = g]
    BY <1>1, <2>1
  <2>2. CASE g = call[t].fresh /\ call' = [call EXCEPT ![t].level = l, ![t].table = f]
    <3>1. c2.fresh = g /\ c3 = c2
      BY <1>1, <2>2 DEF Calls
    <3> QED
      BY <1>1, <2>2, <3>1
  <2>3. CASE /\ l = call[t].level /\ f = call[t].table
             /\ call' = [call EXCEPT ![t].fresh = g]
    <3>1. c1 = call[t]
      BY <1>1, <2>3 DEF Calls
    <3>2. c2 = call[t]
      BY <1>1, <2>3, <3>1 DEF Calls
    <3> QED
      BY <1>1, <2>3, <3>2
  <2> QED
    BY <2>1, <2>2, <2>3 DEF Moves
<1>3. /\ c3.level = l /\ c3.table = f /\ c3.fresh = g
      /\ c3.op = call[t].op /\ c3.step = call[t].step
      /\ c3.page = call[t].page /\ c3.to = call[t].to
      /\ c3.addr = call[t].addr /\ c3.n = call[t].n
      /\ c3.readable = call[t].readable
  BY <1>1 DEF Calls
<1> HIDE DEF c1, c2, c3
<1>4. c1 \in Calls
  BY <1>1, SetField DEF c1
<1>5. c2 \in Calls
  BY <1>4, SetField DEF c2
<1>6. c3 \in Calls
  BY <1>5, SetField DEF c3
<1>7. call'[t] = c3 /\ \A u \in Threads \ {t} : call'[u] = call[u]
  BY <1>1, <1>2
<1>8. call' \in [Threads -> Calls]
  BY <1>1, <1>2, <1>6
<1> QED
  BY <1>3, <1>7, <1>8 DEF Page, Allocates, SameCall

\* lock() returns and the walk starts at the top table.
LEMMA EnterIInv ==
    ASSUME IInv, NEW t \in Threads, Enter(t)
    PROVE  IInv' /\ SameCall(t)
<1>1. /\ pc[t] = "wait" /\ lock!Enter(t) /\ pc' = [pc EXCEPT ![t] = "walk"]
      /\ call' = [call EXCEPT ![t].level = Levels, ![t].table = Root]
      /\ UNCHANGED <<tab, used, result>>
  BY DEF Enter
<1>2. /\ call' \in [Threads -> Calls]
      /\ \A u \in Threads \ {t} : call'[u] = call[u]
      /\ call'[t].level = Levels /\ call'[t].table = Root
      /\ SameCall(t)
  <2>1. Levels \in 1 .. Levels /\ Root \in TableFrames \cup Foreign
    BY Constants
  <2>2. TypeOK
    BY DEF IInv
  <2>3. PICK g \in TableFrames \cup {None} : g = call[t].fresh
    BY DEF IInv, TypeOK, Calls
  <2>4. Moves(t, Levels, Root, g)
    BY <1>1, <2>3 DEF Moves
  <2> QED
    BY <2>1, <2>2, <2>4, WalkMoves
<1>3. LockInv' /\ inside = {} /\ inside' = {t}
  BY <1>1, EnterLock DEF IInv
<1>4. TypeOK'
  BY <1>1, <1>2, <1>3 DEF IInv, TypeOK, LockInv, lock!MutexTypeOK
<1>5. HoldInv'
  BY <1>1, <1>3 DEF IInv, TypeOK, HoldInv, lock!Enter
<1>6. /\ \A u \in Threads \ {t} : call'[u] = call[u] /\ pc'[u] = pc[u]
      /\ pc'[t] = "walk"
  BY <1>1, <1>2 DEF IInv, TypeOK
<1>7. CallOK(t)'
  <2>1. CallOK(t) /\ call[t] \in Calls
    BY <1>1 DEF IInv, CallInv, TypeOK
  <2> QED
    BY <1>1, <1>2, <2>1, CallKept, SameTables DEF SameCall
<1>8. WalkOK(t)'
  <2>1. \A v : TablesOf(v)'[Levels] = Root
    BY <1>1, SameTables, WalkFacts
  <2> QED
    BY <1>2, <2>1, Constants DEF WalkOK, SameCall
<1> QED
  BY <1>1, <1>2, <1>3, <1>4, <1>5, <1>6, <1>7, <1>8, TablesKept

\* One get_next_lvl() that writes nothing.
LEMMA DescendIInv ==
    ASSUME IInv, NEW t \in Threads, Follow(t) \/ NoTable(t)
    PROVE  IInv' /\ SameCall(t)
<1>1. pc[t] = "walk" /\ call[t].level > 1
  BY DEF Follow, NoTable, Descend
<1>2. /\ Page(t) \in AllPages /\ call[t].level \in 1 .. Levels
  BY <1>1, PageOwned
<1>3. PICK lev \in 1 .. Levels : lev = call[t].level
  BY <1>2
<1>4. lev - 1 \in 1 .. Levels /\ lev - 1 < Levels /\ lev - 1 + 1 = lev
  BY <1>1, <1>3, Constants
<1> DEFINE x == TablesOf(Page(t))[lev - 1]
           y == TablesOf(Page(t))[lev]
<1>5. x = Target(EntryIn(y, Page(t), lev))
  BY <1>4, WalkFacts
<1>6. x # None => x \in TableFrames
  BY <1>2, <1>4, TableUsed DEF IInv
<1>7. /\ y = None => ~Allocates(t) /\ Entry(t).addr \in Foreign /\ x = None
      /\ y # None => x = Target(Entry(t))
  <2>1. y = None => x = None
    BY <1>5, Constants DEF EntryIn, Target
  <2> QED
    BY <1>1, <1>3, <1>5, <2>1, AtTable
<1> HIDE DEF x, y
<1>8. PICK f \in TableFrames \cup Foreign :
          /\ IF x = None THEN f \in Foreign ELSE f = x
          /\ Allocates(t) => x # None
          /\ Descend(t, f) /\ UNCHANGED <<tab, used>>
  <2>1. CASE Follow(t)
    <3>1. Entry(t).present /\ Descend(t, Entry(t).addr) /\ UNCHANGED <<tab, used>>
      BY <2>1 DEF Follow
    <3>2. CASE y = None
      BY <1>7, <3>1, <3>2
    <3>3. CASE y # None
      <4>1. x = Entry(t).addr
        BY <1>7, <3>1, <3>3 DEF Target
      <4>2. Entry(t).addr # None
        <5>1. /\ call[t].table \in TableFrames \cup Foreign /\ Slot(t) \in 0 .. Fan - 1
          BY <1>1, AtTable, PageOwned
        <5>2. tab[call[t].table] \in
                 [0 .. Fan - 1 -> [present : BOOLEAN, addr : TableFrames \cup Frames \cup Foreign]]
          BY <5>1 DEF IInv, TypeOK
        <5>3. Entry(t) \in [present : BOOLEAN, addr : TableFrames \cup Frames \cup Foreign]
          BY <5>1, <5>2 DEF Entry
        <5> QED
          BY <5>3, Constants
      <4> QED
        BY <1>6, <3>1, <4>1, <4>2
    <3> QED
      BY <3>2, <3>3
  <2>2. CASE NoTable(t)
    <3>1. /\ ~Entry(t).present /\ ~Allocates(t) /\ Descend(t, ZeroPage)
          /\ UNCHANGED <<tab, used>>
      BY <2>2 DEF NoTable
    <3>2. x = None
      BY <1>7, <3>1 DEF Target
    <3> QED
      BY <3>1, <3>2, Constants
  <2> QED
    BY <2>1, <2>2
<1>9. /\ call' = [call EXCEPT ![t].level = lev - 1, ![t].table = f]
      /\ UNCHANGED <<pc, result>> /\ UNCHANGED lvars
  BY <1>3, <1>8 DEF Descend
<1>10. /\ call' \in [Threads -> Calls]
       /\ \A u \in Threads \ {t} : call'[u] = call[u]
       /\ call'[t].level = lev - 1 /\ call'[t].table = f
       /\ SameCall(t)
  <2>1. TypeOK
    BY DEF IInv
  <2>2. PICK g \in TableFrames \cup {None} : g = call[t].fresh
    BY DEF IInv, TypeOK, Calls
  <2>3. Moves(t, lev - 1, f, g)
    BY <1>9, <2>2 DEF Moves
  <2> QED
    BY <1>4, <2>1, <2>3, WalkMoves
<1>11. LockInv'
  BY <1>9 DEF IInv, lvars, LockInv, lock!MutexTypeOK, lock!Line
<1>12. TypeOK'
  BY <1>8, <1>9, <1>10, <1>11 DEF IInv, TypeOK, LockInv, lock!MutexTypeOK
<1>13. HoldInv'
  BY <1>9 DEF IInv, HoldInv, lvars
<1>14. CallOK(t)'
  <2>1. CallOK(t) /\ call[t] \in Calls
    BY <1>1, PageOwned
  <2> QED
    BY <1>8, <1>10, <2>1, CallKept, SameTables DEF SameCall
<1>15. WalkOK(t)'
  <2>1. PICK v : v = Page(t)
    OBVIOUS
  <2>2. TablesOf(Page(t))' = TablesOf(Page(t))
    BY <1>8, <1>10, <2>1, SameTables DEF SameCall
  <2> QED
    BY <1>8, <1>10, <2>2 DEF WalkOK, SameCall, x
<1> QED
  BY <1>1, <1>8, <1>9, <1>10, <1>11, <1>12, <1>13, <1>14, <1>15, TablesKept

\* get_next_lvl() allocates a table.
LEMMA AllocateIInv ==
    ASSUME IInv, NEW t \in Threads, AllocateTable(t)
    PROVE  IInv' /\ SameCall(t) /\ UNCHANGED tab
<1>1. /\ pc[t] = "walk" /\ call[t].level > 1 /\ ~Entry(t).present /\ Allocates(t)
      /\ UNCHANGED <<tab, result>> /\ UNCHANGED lvars /\ pc' = [pc EXCEPT ![t] = "link"]
  BY DEF AllocateTable
<1>2. PICK f \in TableFrames : f = Min(TableFrames \ used) /\ f \notin used
  <2>1. TableFrames \ used # {} /\ TableFrames \ used \subseteq Nat
    BY Constants DEF AllocateTable
  <2> QED
    BY <2>1, MinOfNaturals
<1>3. used' = used \cup {f} /\ call' = [call EXCEPT ![t].fresh = f]
  BY <1>2 DEF AllocateTable
<1>4. /\ call' \in [Threads -> Calls]
      /\ \A u \in Threads \ {t} : call'[u] = call[u]
      /\ call'[t].level = call[t].level /\ call'[t].table = call[t].table
      /\ call'[t].fresh = f /\ SameCall(t)
  <2>1. TypeOK /\ call[t] \in Calls
    BY DEF IInv, TypeOK
  <2>2. PICK l \in 1 .. Levels, g \in TableFrames \cup Foreign :
            l = call[t].level /\ g = call[t].table
    BY <2>1 DEF Calls
  <2>3. Moves(t, l, g, f) /\ f \in TableFrames \cup {None}
    BY <1>3, <2>2 DEF Moves
  <2> QED
    BY <2>1, <2>2, <2>3, WalkMoves
<1>5. LockInv'
  BY <1>1 DEF IInv, lvars, LockInv, lock!MutexTypeOK, lock!Line
<1>6. TypeOK'
  BY <1>1, <1>3, <1>4, <1>5 DEF IInv, TypeOK, LockInv, lock!MutexTypeOK
<1>7. pc'[t] = "link" /\ \A u \in Threads \ {t} : pc'[u] = pc[u] /\ pc[u] \notin {"walk", "link"}
  BY <1>1, Alone DEF IInv, TypeOK
<1>8. HoldInv'
  BY <1>1, <1>7 DEF IInv, HoldInv, lvars
<1>9. \A v : TablesOf(v)' = TablesOf(v) /\ EntryOf(v)' = EntryOf(v)
  BY <1>1, SameTables
<1>10. TablesFormTree'
  <2>1. FreshTables = {} /\ FreshTables' = {f}
    <3>1. /\ {u \in Threads : pc[u] = "link"} = {}
          /\ {u \in Threads : pc'[u] = "link"} = {t}
      BY <1>1, <1>7
    <3> QED
      BY <1>4, <3>1 DEF FreshTables
  <2>2. {TablesOf(v)'[l] : v \in AllPages, l \in 1 .. Levels}
          = {TablesOf(v)[l] : v \in AllPages, l \in 1 .. Levels}
    BY <1>9
  <2>3. /\ \A v \in AllPages, w \in AllPages, l \in 1 .. Levels, k \in 1 .. Levels :
              TablesOf(v)[l] # None /\ TablesOf(w)[k] # None =>
                 (TablesOf(v)[l] = TablesOf(w)[k] <=> l = k /\ v \div Fan ^ l = w \div Fan ^ l)
        /\ used = ({TablesOf(v)[l] : v \in AllPages, l \in 1 .. Levels} \ {None}) \cup FreshTables
    BY TreeIs DEF IInv
  <2> DEFINE A == {TablesOf(v)[l] : v \in AllPages, l \in 1 .. Levels}
             B == {TablesOf(v)'[l] : v \in AllPages, l \in 1 .. Levels}
  <2>4. used' = (B \ {None}) \cup FreshTables'
    <3>1. A = B
      BY <2>2
    <3>2. used = (A \ {None}) \cup FreshTables
      <4>1. TablesFormTree
        BY DEF IInv
      <4> QED
        BY <4>1 DEF TablesFormTree, FreshTables
    <3> HIDE DEF A, B
    <3> QED
      BY <1>3, <2>1, <3>1, <3>2
  <2> QED
    BY <1>9, <2>3, <2>4, TreeIsNext
<1>11. FreshInv' /\ ForeignInv' /\ LeafInv'
  BY <1>1, <1>3, <1>9 DEF IInv, FreshInv, ForeignInv, LeafInv
<1>12. CallInv'
  <2> SUFFICES ASSUME NEW u \in Threads, pc'[u] \in {"wait", "walk", "link", "next"}
               PROVE  CallOK(u)'
    BY DEF CallInv
  <2>1. CallOK(u) /\ call[u] \in Calls
    BY <1>1, <1>7 DEF IInv, CallInv, TypeOK
  <2>2. /\ call'[u].op = call[u].op /\ call'[u].step = call[u].step
        /\ call'[u].page = call[u].page /\ call'[u].to = call[u].to
        /\ call'[u].addr = call[u].addr /\ call'[u].n = call[u].n
    BY <1>4 DEF SameCall
  <2> QED
    BY <1>9, <2>1, <2>2, CallKept
<1>13. WalkInv'
  <2> SUFFICES ASSUME NEW u \in Threads, pc'[u] \in {"walk", "link"}
               PROVE  WalkOK(u)'
    BY DEF WalkInv
  <2>1. u = t /\ WalkOK(t)
    BY <1>1, <1>7 DEF IInv, WalkInv
  <2>2. PICK v : v = Page(t)
    OBVIOUS
  <2>3. TablesOf(Page(t))' = TablesOf(Page(t))
    BY <1>4, <1>9, <2>2 DEF SameCall
  <2> QED
    BY <1>4, <2>1, <2>3 DEF WalkOK, SameCall
<1>14. LinkInv'
  <2> SUFFICES ASSUME NEW u \in Threads, pc'[u] = "link"
               PROVE  LinkOK(u)'
    BY DEF LinkInv
  <2>1. u = t
    BY <1>7
  <2>2. ~InTree(f)'
    <3>1. ASSUME NEW v \in AllPages, NEW l \in 1 .. Levels, TablesOf(v)[l] = f PROVE FALSE
      BY <1>2, <3>1, TableUsed, Constants DEF IInv
    <3> QED
      BY <1>9, <3>1 DEF InTree
  <2>3. tab'[f] = EmptyTable
    BY <1>1, <1>2 DEF IInv, FreshInv
  <2>4. Entry(t)' = Entry(t)
    BY <1>1, <1>4 DEF Entry, Slot, SameCall
  <2> QED
    BY <1>1, <1>4, <2>1, <2>2, <2>3, <2>4 DEF LinkOK, SameCall, InTree
<1> QED
  BY <1>1, <1>4, <1>5, <1>6, <1>8, <1>10, <1>11, <1>12, <1>13, <1>14 DEF IInv

\* And links it.
LEMMA LinkIInv ==
    ASSUME IInv, NEW t \in Threads, LinkTable(t)
    PROVE  /\ IInv' /\ SameCall(t)
           /\ \A v \in AllPages : EntryOf(v)' = EntryOf(v)
<1>1. /\ pc[t] = "link" /\ call[t].level > 1 /\ ~Entry(t).present /\ Allocates(t)
      /\ call[t].fresh \in TableFrames /\ ~InTree(call[t].fresh)
      /\ tab[call[t].fresh] = EmptyTable
  BY DEF LinkTable, IInv, LinkInv, LinkOK
<1>2. /\ Page(t) \in AllPages /\ call[t].level \in 1 .. Levels /\ Slot(t) \in 0 .. Fan - 1
  BY <1>1, PageOwned
<1>3. PICK lev \in 1 .. Levels : lev = call[t].level
  BY <1>2
<1>4. PICK f \in TableFrames : f = call[t].fresh /\ ~InTree(f) /\ tab[f] = EmptyTable
  BY <1>1
<1>5. /\ tab' = [tab EXCEPT ![call[t].table][Slot(t)] = [present |-> TRUE, addr |-> f]]
      /\ call' = [call EXCEPT ![t].level = lev - 1, ![t].table = f, ![t].fresh = None]
      /\ pc' = [pc EXCEPT ![t] = "walk"]
      /\ UNCHANGED <<used, result>> /\ UNCHANGED lvars
  BY <1>3, <1>4 DEF LinkTable
<1>6. /\ pc'[t] = "walk" /\ \A u \in Threads \ {t} : pc'[u] = pc[u] /\ pc[u] \notin {"walk", "link"}
  BY <1>1, <1>5, Alone DEF IInv, TypeOK
<1>7. lev - 1 \in 1 .. Levels /\ lev - 1 < Levels /\ lev - 1 + 1 = lev /\ lev > 1
  BY <1>1, <1>3, Constants
<1>8. \A v \in AllPages :
          /\ TablesOf(v)' = [l \in 1 .. Levels |->
                IF l = lev - 1 /\ v \div Fan ^ l = Page(t) \div Fan ^ l
                THEN f ELSE TablesOf(v)[l]]
          /\ v \div Fan ^ (lev - 1) = Page(t) \div Fan ^ (lev - 1) =>
                TablesOf(v)[lev - 1] = None
          /\ EntryOf(v)' = EntryOf(v)
  BY <1>1, <1>3, <1>4, <1>5, <1>7, TableLinked
<1>9. \A v \in AllPages : \A l \in 1 .. Levels :
          TablesOf(v)'[l] = IF l = lev - 1 /\ v \div Fan ^ l = Page(t) \div Fan ^ l
                            THEN f ELSE TablesOf(v)[l]
  BY <1>8
<1>10. /\ call' \in [Threads -> Calls]
       /\ \A u \in Threads \ {t} : call'[u] = call[u]
       /\ call'[t].level = lev - 1 /\ call'[t].table = f
       /\ SameCall(t)
  <2>1. TypeOK /\ f \in TableFrames \cup Foreign
    BY <1>4 DEF IInv
  <2>2. PICK g \in TableFrames \cup {None} : g = None
    OBVIOUS
  <2>3. Moves(t, lev - 1, f, g)
    BY <1>5, <2>2 DEF Moves
  <2> QED
    BY <1>7, <2>1, <2>3, WalkMoves
<1>11. /\ call[t].table \in used /\ call[t].table \in TableFrames /\ f # None
       /\ used \subseteq TableFrames
  BY <1>1, AtTable, Constants DEF IInv, TypeOK
<1>12. LockInv'
  BY <1>5 DEF IInv, lvars, LockInv, lock!MutexTypeOK, lock!Line
<1>13. TypeOK'
  <2>1. [present |-> TRUE, addr |-> f]
           \in [present : BOOLEAN, addr : TableFrames \cup Frames \cup Foreign]
    BY <1>4
  <2>2. tab' \in [TableFrames \cup Foreign ->
                    [0 .. Fan - 1 ->
                       [present : BOOLEAN, addr : TableFrames \cup Frames \cup Foreign]]]
    <3>1. PICK e \in [present : BOOLEAN, addr : TableFrames \cup Frames \cup Foreign] :
              e = [present |-> TRUE, addr |-> f]
      BY <2>1
    <3>2. tab' = [tab EXCEPT ![call[t].table][Slot(t)] = e]
      BY <1>5, <3>1
    <3> QED
      BY <1>2, <1>11, <3>2 DEF IInv, TypeOK
  <2> QED
    BY <1>5, <1>10, <1>12, <2>2
       DEF IInv, TypeOK, LockInv, lock!MutexTypeOK
<1>14. HoldInv'
  BY <1>1, <1>5, <1>6 DEF IInv, HoldInv, lvars
<1>15. TablesFormTree'
  <2>1. ASSUME NEW v \in AllPages, NEW l \in 1 .. Levels,
               TablesOf(v)[l] # None
        PROVE  TablesOf(v)'[l] = TablesOf(v)[l] /\ TablesOf(v)[l] # f
    <3>1. TablesOf(v)[l] # f
      BY <1>4 DEF InTree
    <3>2. ~(l = lev - 1 /\ v \div Fan ^ l = Page(t) \div Fan ^ l)
      BY <1>8, <2>1
    <3> QED
      BY <1>9, <3>1, <3>2
  <2>2. ASSUME NEW v \in AllPages, NEW l \in 1 .. Levels
        PROVE  /\ TablesOf(v)'[l] = f <=> l = lev - 1 /\ v \div Fan ^ l = Page(t) \div Fan ^ l
               /\ TablesOf(v)'[l] # f => TablesOf(v)'[l] = TablesOf(v)[l]
    BY <1>9, <1>11, <2>1
  <2>3. ASSUME NEW v \in AllPages, NEW w \in AllPages, NEW l \in 1 .. Levels, NEW k \in 1 .. Levels,
               TablesOf(v)'[l] # None, TablesOf(w)'[k] # None
        PROVE  TablesOf(v)'[l] = TablesOf(w)'[k] <=> l = k /\ v \div Fan ^ l = w \div Fan ^ l
    <3>1. CASE TablesOf(v)'[l] = f /\ TablesOf(w)'[k] = f
      BY <2>2, <3>1
    <3>2. CASE TablesOf(v)'[l] = f /\ TablesOf(w)'[k] # f
      BY <2>2, <3>2
    <3>3. CASE TablesOf(v)'[l] # f /\ TablesOf(w)'[k] = f
      BY <2>2, <3>3
    <3>4. CASE TablesOf(v)'[l] # f /\ TablesOf(w)'[k] # f
      BY <2>2, <2>3, <3>4, TreeIs DEF IInv
    <3> QED
      BY <3>1, <3>2, <3>3, <3>4
  <2>4. FreshTables = {f} /\ FreshTables' = {}
    <3>1. /\ {u \in Threads : pc[u] = "link"} = {t}
          /\ {u \in Threads : pc'[u] = "link"} = {}
      BY <1>1, <1>6
    <3> QED
      BY <1>4, <3>1 DEF FreshTables
  <2>5. used' = ({TablesOf(v)'[l] : v \in AllPages, l \in 1 .. Levels} \ {None})
                   \cup FreshTables'
    <3>1. used = ({TablesOf(v)[l] : v \in AllPages, l \in 1 .. Levels} \ {None}) \cup {f}
      BY <2>4, TreeIs DEF IInv
    <3>2. ASSUME NEW g \in used'
          PROVE  \E v \in AllPages, l \in 1 .. Levels : g = TablesOf(v)'[l] /\ g # None
      <4>1. CASE g = f
        BY <1>2, <1>7, <1>11, <2>2, <4>1
      <4>2. CASE g # f
        <5>1. PICK v \in AllPages, l \in 1 .. Levels : g = TablesOf(v)[l] /\ g # None
          BY <1>5, <3>1, <4>2
        <5> QED
          BY <2>1, <5>1
      <4> QED
        BY <4>1, <4>2
    <3>3. ASSUME NEW v \in AllPages, NEW l \in 1 .. Levels, TablesOf(v)'[l] # None
          PROVE  TablesOf(v)'[l] \in used'
      BY <1>5, <2>2, <3>1, <3>3
    <3> QED
      BY <2>4, <3>2, <3>3
  <2> QED
    BY <2>3, <2>5, TreeIsNext
<1>16. FreshInv'
  <2>1. ASSUME NEW g \in TableFrames, g \notin used' PROVE tab'[g] = EmptyTable
    <3>1. g # call[t].table /\ g \notin used
      BY <1>5, <1>11, <2>1
    <3>2. tab'[g] = tab[g]
      BY <1>5, <3>1 DEF IInv, TypeOK
    <3> QED
      BY <3>1, <3>2 DEF IInv, FreshInv
  <2> QED
    BY <2>1 DEF FreshInv
<1>17. ForeignInv'
  <2>1. \A g \in Foreign : g # call[t].table
    BY <1>11, Constants
  <2>2. \A g \in Foreign : tab'[g] = tab[g]
    BY <1>5, <2>1 DEF IInv, TypeOK
  <2> QED
    BY <2>2 DEF IInv, ForeignInv
<1>18. LeafInv'
  BY <1>8 DEF IInv, LeafInv
<1>19. CallInv'
  <2> SUFFICES ASSUME NEW u \in Threads, pc'[u] \in {"wait", "walk", "link", "next"}
               PROVE  CallOK(u)'
    BY DEF CallInv
  <2>1. CallOK(u) /\ call[u] \in Calls
    BY <1>1, <1>6 DEF IInv, CallInv, TypeOK
  <2>2. \A w \in Pages : EntryOf(w)' = EntryOf(w)
    BY <1>8, Constants
  <2>3. /\ call'[u].op = call[u].op /\ call'[u].step = call[u].step
        /\ call'[u].page = call[u].page /\ call'[u].to = call[u].to
        /\ call'[u].addr = call[u].addr /\ call'[u].n = call[u].n
    BY <1>10 DEF SameCall
  <2> QED
    BY <2>1, <2>2, <2>3, CallKept
<1>20. WalkInv' /\ LinkInv'
  <2>1. TablesOf(Page(t))'[lev - 1] = f
    <3>1. PICK v \in AllPages : v = Page(t)
      BY <1>2
    <3>2. TablesOf(v)'[lev - 1] = f
      BY <1>7, <1>9, <3>1
    <3> QED
      BY <1>10, <3>1, <3>2 DEF SameCall
  <2>2. WalkOK(t)'
    BY <1>10, <1>11, <2>1 DEF WalkOK
  <2>3. \A u \in Threads : pc'[u] \in {"walk", "link"} => u = t /\ pc'[u] = "walk"
    BY <1>6
  <2> QED
    BY <2>2, <2>3 DEF WalkInv, LinkInv
<1> QED
  BY <1>8, <1>10, <1>12, <1>13, <1>14, <1>15, <1>16, <1>17, <1>18, <1>19, <1>20 DEF IInv

\* What a locked call leaves to do is again a call on the caller's own pages.
LEMMA ContinueCall ==
    ASSUME IInv, NEW t \in Threads, pc[t] = "walk", Continue(t), NEW value,
           result'[t] = value,
           call[t].op = "remap" /\ call[t].step = "lookup" => value \in Frames
    PROVE  /\ call' \in [Threads -> Calls]
           /\ pc' = [pc EXCEPT ![t] = "next"] \/ pc' = [pc EXCEPT ![t] = "return"]
           /\ \A u \in Threads \ {t} : call'[u] = call[u]
           /\ pc'[t] = "next" =>
                 \/ /\ call[t].op = "remap" /\ call[t].step # "map"
                    /\ call'[t].op = "remap"
                    /\ call'[t].step = IF call[t].step = "lookup" THEN "unmap" ELSE "map"
                    /\ call'[t].addr = IF call[t].step = "lookup" THEN value ELSE call[t].addr
                    /\ call'[t].page = call[t].page /\ call'[t].to = call[t].to
                    /\ call'[t].n = call[t].n
                 \/ /\ call[t].op # "remap" \/ call[t].step = "map"
                    /\ call[t].n > 1
                    /\ call'[t].op = call[t].op
                    /\ call'[t].step = IF call[t].op = "remap" THEN "lookup" ELSE call[t].op
                    /\ call'[t].page = call[t].page + 1 /\ call'[t].to = call[t].to + 1
                    /\ call'[t].n = call[t].n - 1
                    /\ call'[t].addr = IF call[t].op = "map" THEN call[t].addr + 1
                                                             ELSE call[t].addr
<1>1. /\ call \in [Threads -> Calls]
      /\ pc \in [Threads -> {"idle", "wait", "walk", "link", "next", "return"}]
      /\ call[t] \in Calls /\ CallOK(t)
  BY PageOwned DEF IInv, TypeOK
<1>2. PICK c \in Calls : c = call[t]
  BY <1>1
<1>3. /\ c.op \in Steps \cup {"remap"} /\ c.step \in Steps /\ c.page \in Nat /\ c.to \in Nat
      /\ c.addr \in Frames \cup {None} /\ c.n \in Nat /\ c.n >= 1
  BY <1>1, <1>2 DEF Calls, CallOK
<1>4. CASE c.op = "remap" /\ c.step # "map"
  <2> DEFINE s == IF c.step = "lookup" THEN "unmap" ELSE "map"
             a == IF c.step = "lookup" THEN value ELSE c.addr
             c1 == [c EXCEPT !.step = s]
             c2 == [c1 EXCEPT !.addr = a]
  <2>1. pc' = [pc EXCEPT ![t] = "next"] /\ call' = [call EXCEPT ![t].step = s, ![t].addr = a]
    BY <1>2, <1>4 DEF Continue
  <2>2. call' = [call EXCEPT ![t] = c2]
    <3> HIDE DEF s, a
    <3> QED
      BY <1>1, <1>2, <2>1
  <2>3. s \in Steps /\ a \in Frames \cup {None}
    BY <1>2, <1>3, <1>4 DEF Steps
  <2> HIDE DEF s, a
  <2>4. /\ c2.op = c.op /\ c2.step = s /\ c2.addr = a
        /\ c2.page = c.page /\ c2.to = c.to /\ c2.n = c.n
    BY DEF Calls
  <2> HIDE DEF c1, c2
  <2>5. c1 \in Calls
    BY <2>3, SetField DEF c1
  <2>6. c2 \in Calls
    BY <2>3, <2>5, SetField DEF c2
  <2>7. /\ call' \in [Threads -> Calls] /\ call'[t] = c2
        /\ \A u \in Threads \ {t} : call'[u] = call[u]
    BY <1>1, <2>2, <2>6
  <2> QED
    BY <1>2, <1>4, <2>1, <2>4, <2>7 DEF s, a
<1>5. CASE (c.op # "remap" \/ c.step = "map") /\ c.n > 1
  <2> DEFINE s == IF c.op = "remap" THEN "lookup" ELSE c.op
             a == IF c.op = "map" THEN c.addr + 1 ELSE c.addr
             c1 == [c EXCEPT !.step = s]
             c2 == [c1 EXCEPT !.page = c.page + 1]
             c3 == [c2 EXCEPT !.to = c.to + 1]
             c4 == [c3 EXCEPT !.n = c.n - 1]
             c5 == [c4 EXCEPT !.addr = a]
  <2>1. /\ pc' = [pc EXCEPT ![t] = "next"]
        /\ call' = [call EXCEPT ![t].step = s, ![t].page = c.page + 1, ![t].to = c.to + 1,
                                ![t].n = c.n - 1, ![t].addr = a]
    BY <1>2, <1>5 DEF Continue
  <2>2. call' = [call EXCEPT ![t] = c5]
    <3> HIDE DEF s, a
    <3> QED
      BY <1>1, <1>2, <2>1
  <2>3. /\ s \in Steps /\ a \in Frames \cup {None}
        /\ c.page + 1 \in Nat /\ c.to + 1 \in Nat /\ c.n - 1 \in Nat
    <3>1. s \in Steps /\ c.page + 1 \in Nat /\ c.to + 1 \in Nat /\ c.n - 1 \in Nat
      BY <1>3, <1>5 DEF Steps
    <3>2. c.op = "map" => c.addr \in Nat /\ c.addr .. (c.addr + c.n - 1) \subseteq Frames
      BY <1>1, <1>2 DEF CallOK, OwnFrames, OwnFrame
    <3>3. c.op = "map" => c.addr + 1 \in c.addr .. (c.addr + c.n - 1)
      BY <1>3, <1>5, <3>2
    <3> QED
      BY <1>3, <3>1, <3>2, <3>3
  <2> HIDE DEF s, a
  <2>4. /\ c5.op = c.op /\ c5.step = s /\ c5.addr = a
        /\ c5.page = c.page + 1 /\ c5.to = c.to + 1 /\ c5.n = c.n - 1
    BY ZenonT(30) DEF Calls
  <2> HIDE DEF c1, c2, c3, c4, c5
  <2>5. c1 \in Calls
    BY <2>3, SetField DEF c1
  <2>6. c2 \in Calls
    BY <2>3, <2>5, SetField DEF c2
  <2>7. c3 \in Calls
    BY <2>3, <2>6, SetField DEF c3
  <2>8. c4 \in Calls
    BY <2>3, <2>7, SetField DEF c4
  <2>9. c5 \in Calls
    BY <2>3, <2>8, SetField DEF c5
  <2>10. /\ call' \in [Threads -> Calls] /\ call'[t] = c5
         /\ \A u \in Threads \ {t} : call'[u] = call[u]
    BY <1>1, <2>2, <2>9
  <2> QED
    <3>1. /\ call'[t].op = call[t].op /\ call'[t].page = call[t].page + 1
          /\ call'[t].to = call[t].to + 1 /\ call'[t].n = call[t].n - 1
          /\ call'[t].step = s /\ call'[t].addr = a
      BY <1>2, <2>4, <2>10
    <3>2. /\ s = IF call[t].op = "remap" THEN "lookup" ELSE call[t].op
          /\ a = IF call[t].op = "map" THEN call[t].addr + 1 ELSE call[t].addr
      BY <1>2 DEF s, a
    <3>3. (call[t].op # "remap" \/ call[t].step = "map") /\ call[t].n > 1
      BY <1>2, <1>5
    <3> QED
      BY <2>1, <2>10, <3>1, <3>2, <3>3
<1>6. CASE (c.op # "remap" \/ c.step = "map") /\ ~(c.n > 1)
  <2>1. pc' = [pc EXCEPT ![t] = "return"] /\ call' = call
    BY <1>2, <1>6 DEF Continue
  <2>2. pc'[t] = "return"
    BY <1>1, <2>1
  <2> QED
    BY <1>1, <2>1, <2>2
<1> QED
  BY <1>4, <1>5, <1>6

\* An entry that may be written where a locked call's walk ends.
LeafOK(t, e) ==
    IF TablesOf(Page(t))[1] = None THEN e.addr \in Foreign
    ELSE /\ e.addr \in Frames \cup {0}
         /\ e.present => e.addr \in Frames
         /\ e.addr \in Frames => OwnFrame(t, e.addr)

\* The entry is written and the guard ends.
LEMMA FinishIInv ==
    ASSUME IInv, NEW t \in Threads, pc[t] = "walk", call[t].level = 1,
           NEW e \in [present : BOOLEAN, addr : Frames \cup Foreign], NEW value,
           Finish(t, e, value), value \in Frames \cup Foreign \cup {None, SYSTEM_OK},
           LeafOK(t, e),
           call[t].step = "map" => e.present,
           call[t].step = "lookup" /\ TablesOf(Page(t))[1] # None =>
              e = EntryOf(Page(t)) /\ value = Translation(Page(t))
    PROVE  /\ IInv'
           /\ \A v \in AllPages : EntryOf(v)' = IF v = Page(t) /\ TablesOf(Page(t))[1] # None
                                                THEN e ELSE EntryOf(v)
<1>1. /\ tab' = [tab EXCEPT ![call[t].table][Slot(t)] = e]
      /\ result' = [result EXCEPT ![t] = value] /\ lock!Leave(t) /\ Continue(t)
      /\ UNCHANGED used
  BY DEF Finish
<1>2. /\ Page(t) \in Pages /\ Owner[Page(t)] = t /\ Page(t) \in AllPages
      /\ call[t] \in Calls /\ Slot(t) \in 0 .. Fan - 1 /\ CallOK(t)
  BY PageOwned
<1>3. \A v \in AllPages : /\ TablesOf(v)' = TablesOf(v)
                          /\ EntryOf(v)' = IF v = Page(t) /\ TablesOf(Page(t))[1] # None
                                          THEN e ELSE EntryOf(v)
  BY <1>1, LeafWrite
<1>4. \A v \in AllPages : v # Page(t) => Translation(v)' = Translation(v)
  BY <1>3 DEF Translation
<1>5. /\ call[t].table \in TableFrames \cup Foreign
      /\ \/ call[t].table \in used /\ call[t].table \in TableFrames
         \/ call[t].table \in Foreign /\ e.addr \in Foreign
      /\ Allocates(t) => TablesOf(Page(t))[1] # None
  BY AtTable DEF LeafOK
<1>6. ASSUME NEW v \in AllPages, Translation(v) # None
      PROVE  /\ Translation(v) \in Frames /\ TablesOf(v)[1] # None
             /\ v \in Pages => FrameOwner[Translation(v)] = Owner[v]
  BY <1>6, Constants DEF IInv, LeafInv, Translation, Target, EntryOf, EntryIn
<1>7. /\ result'[t] = value
      /\ call[t].op = "remap" /\ call[t].step = "lookup" => OwnFrame(t, value)
  <2>1. result'[t] = value
    BY <1>1 DEF IInv, TypeOK
  <2>2. ASSUME call[t].op = "remap", call[t].step = "lookup"
        PROVE  OwnFrame(t, value)
    <3>1. Page(t) = call[t].page /\ call[t].page \in PagesLeft(t)
      BY <1>2, <2>2 DEF Page, PagesLeft, CallOK, Calls
    <3>2. Translation(Page(t)) # None
      BY <1>2, <2>2, <3>1 DEF CallOK
    <3> QED
      BY <1>2, <1>6, <2>2, <3>2 DEF OwnFrame
  <2> QED
    BY <2>1, <2>2
<1>8. LockInv' /\ inside = {t} /\ inside' = {}
  BY <1>1, LeaveLock DEF IInv
<1>9. /\ call' \in [Threads -> Calls]
      /\ pc' = [pc EXCEPT ![t] = "next"] \/ pc' = [pc EXCEPT ![t] = "return"]
      /\ \A u \in Threads \ {t} : call'[u] = call[u]
  BY <1>1, <1>7, ContinueCall DEF OwnFrame
<1>10. TypeOK'
  <2>1. e \in [present : BOOLEAN, addr : TableFrames \cup Frames \cup Foreign]
    OBVIOUS
  <2>2. tab' \in [TableFrames \cup Foreign ->
                    [0 .. Fan - 1 ->
                       [present : BOOLEAN, addr : TableFrames \cup Frames \cup Foreign]]]
    BY <1>1, <1>2, <1>5, <2>1 DEF IInv, TypeOK
  <2>3. pc' \in [Threads -> {"idle", "wait", "walk", "link", "next", "return"}]
    BY <1>9 DEF IInv, TypeOK
  <2>4. result' \in [Threads -> Frames \cup Foreign \cup {None, SYSTEM_OK}]
    BY <1>1 DEF IInv, TypeOK
  <2> QED
    BY <1>1, <1>8, <1>9, <2>2, <2>3, <2>4
       DEF IInv, TypeOK, LockInv, lock!MutexTypeOK
<1>11. /\ pc'[t] \in {"next", "return"}
       /\ \A u \in Threads \ {t} : pc'[u] = pc[u] /\ pc[u] \notin {"walk", "link"}
  BY <1>9, Alone DEF IInv, TypeOK
<1>12. HoldInv'
  <2>1. asked' = asked \ {t}
    BY <1>1 DEF lock!Leave
  <2> QED
    BY <1>8, <1>11, <2>1 DEF IInv, HoldInv
<1>13. TablesFormTree'
  <2>1. {TablesOf(v)'[l] : v \in AllPages, l \in 1 .. Levels}
          = {TablesOf(v)[l] : v \in AllPages, l \in 1 .. Levels}
    BY <1>3
  <2>2. /\ \A v \in AllPages, w \in AllPages, l \in 1 .. Levels, k \in 1 .. Levels :
              TablesOf(v)[l] # None /\ TablesOf(w)[k] # None =>
                 (TablesOf(v)[l] = TablesOf(w)[k] <=> l = k /\ v \div Fan ^ l = w \div Fan ^ l)
        /\ used = ({TablesOf(v)[l] : v \in AllPages, l \in 1 .. Levels} \ {None}) \cup FreshTables
    BY TreeIs DEF IInv
  <2>3. FreshTables = {} /\ FreshTables' = {}
    <3>1. {u \in Threads : pc[u] = "link"} = {} /\ {u \in Threads : pc'[u] = "link"} = {}
      BY <1>11
    <3> QED
      BY <3>1 DEF FreshTables
  <2> QED
    BY <1>1, <1>3, <2>1, <2>2, <2>3, TreeIsNext
<1>14. FreshInv' /\ ForeignInv'
  <2>1. ASSUME NEW g \in TableFrames, g \notin used' PROVE tab'[g] = EmptyTable
    <3>1. g \notin used /\ tab[g] = EmptyTable
      BY <1>1, <2>1 DEF IInv, FreshInv
    <3>2. g # call[t].table
      BY <1>5, <3>1, Constants
    <3> QED
      BY <1>1, <3>1, <3>2 DEF IInv, TypeOK
  <2>2. ASSUME NEW g \in Foreign, NEW k \in 0 .. Fan - 1 PROVE tab'[g][k].addr \in Foreign
    <3>1. tab[g][k].addr \in Foreign
      BY DEF IInv, ForeignInv
    <3>2. tab'[g][k] = IF g = call[t].table /\ k = Slot(t) THEN e ELSE tab[g][k]
      BY <1>1, <1>2, <1>5 DEF IInv, TypeOK
    <3> QED
      BY <1>5, <3>1, <3>2, Constants
  <2> QED
    BY <2>1, <2>2 DEF FreshInv, ForeignInv
<1>15. LeafInv'
  <2>1. ASSUME NEW v \in AllPages, v = Page(t), TablesOf(Page(t))[1] # None
        PROVE  /\ e.addr \in Frames \cup {0}
               /\ e.present => e.addr \in Frames
               /\ e.addr \in Frames => FrameOwner[e.addr] = Owner[v]
    BY <1>2, <2>1 DEF LeafOK, OwnFrame
  <2> QED
    BY <1>3, <2>1 DEF IInv, LeafInv
<1>16. ASSUME pc'[t] = "next" PROVE CallOK(t)'
  <2> DEFINE c == call[t]
             d == call'[t]
  <2>1. /\ c.page \in Nat /\ c.to \in Nat /\ c.n \in Nat /\ c.n >= 1
        /\ c.step \in Steps /\ c.op \in Steps \cup {"remap"}
    BY <1>2 DEF Calls, CallOK
  <2>2. /\ Own(t, c.page, c.n)
        /\ c.op # "remap" => c.step = c.op
        /\ c.op = "map" => c.addr \in Nat /\ OwnFrames(t, c.addr, c.n)
        /\ c.op = "setflags" => \A w \in PagesLeft(t) : EntryOf(w).addr # 0
        /\ c.op = "remap" =>
              /\ Own(t, c.to, c.n)
              /\ c.step \in {"lookup", "unmap", "map"}
              /\ c.step # "lookup" => OwnFrame(t, c.addr)
              /\ \A w \in PagesLeft(t) : \/ c.step = "map" /\ w = c.page
                                         \/ Translation(w) # None
    BY <1>2 DEF CallOK
  <2>3. \A w \in PagesLeft(t) : w \in AllPages
    BY <2>2, Constants DEF Own, PagesLeft
  <2>4. PagesLeft(t) = c.page .. (c.page + c.n - 1) /\ PagesLeft(t)' = d.page .. (d.page + d.n - 1)
    BY DEF PagesLeft
  <2>5. CASE /\ c.op = "remap" /\ c.step # "map"
             /\ d.op = "remap"
             /\ d.step = IF c.step = "lookup" THEN "unmap" ELSE "map"
             /\ d.addr = IF c.step = "lookup" THEN value ELSE c.addr
             /\ d.page = c.page /\ d.to = c.to /\ d.n = c.n
    <3>1. Page(t) = c.page
      BY <2>5 DEF Page
    <3>2. c.page \in PagesLeft(t)
      BY <2>1, <2>4
    <3>3. c.step = "lookup" => OwnFrame(t, value)
      BY <1>7, <2>5
    <3>4. OwnFrame(t, d.addr)
      BY <2>2, <2>5, <3>3
    <3>5. \A w \in PagesLeft(t) : w # c.page => Translation(w)' # None
      BY <1>4, <2>2, <2>3, <2>5, <3>1
    <3>6. c.step = "lookup" => Translation(c.page)' # None
      <4>1. c.step = "lookup" => EntryOf(c.page)' = EntryOf(c.page)
        <5>1. PICK v \in AllPages : v = c.page
          BY <1>2, <3>1
        <5>2. TablesOf(v)[1] # None
          BY <1>6, <2>2, <2>5, <3>2, <5>1
        <5> QED
          BY <1>2, <1>3, <2>5, <3>1, <5>1, <5>2
      <4>2. c.step = "lookup" => Translation(c.page)' = Translation(c.page)
        BY <4>1 DEF Translation
      <4> QED
        BY <2>2, <2>5, <3>2, <4>2
    <3>7. \A w \in PagesLeft(t) : (d.step = "map" /\ w = d.page) \/ Translation(w)' # None
      BY <2>2, <2>5, <3>5, <3>6
    <3> HIDE DEF c, d
    <3>8. PagesLeft(t)' = PagesLeft(t)
      BY <2>4, <2>5
    <3>9. d.step \in {"lookup", "unmap", "map"}
      BY <2>5
    <3> QED
      BY <2>1, <2>2, <2>5, <3>4, <3>7, <3>8, <3>9 DEF CallOK, d, Own, OwnFrame
  <2>6. CASE /\ c.op # "remap" \/ c.step = "map"
             /\ c.n > 1
             /\ d.op = c.op
             /\ d.step = IF c.op = "remap" THEN "lookup" ELSE c.op
             /\ d.page = c.page + 1 /\ d.to = c.to + 1
             /\ d.n = c.n - 1
             /\ d.addr = IF c.op = "map" THEN c.addr + 1 ELSE c.addr
    <3>1. d.n >= 1 /\ d.page + d.n = c.page + c.n /\ d.to + d.n = c.to + c.n
      BY <2>1, <2>6
    <3>2. Own(t, d.page, d.n) /\ (c.op = "remap" => Own(t, d.to, d.n))
      <4>1. ASSUME NEW x \in Nat, Own(t, x, c.n) PROVE Own(t, x + 1, c.n - 1)
        BY <2>1, <2>6, <4>1 DEF Own
      <4> QED
        BY <2>1, <2>2, <2>6, <4>1
    <3>3. PagesLeft(t)' \subseteq PagesLeft(t) \ {c.page}
      <4>1. PICK x \in Nat, n \in Nat : x = c.page /\ n = c.n
        BY <2>1
      <4>2. /\ PagesLeft(t) = x .. (x + n - 1)
            /\ PagesLeft(t)' = (x + 1) .. (x + 1 + (n - 1) - 1)
        BY <2>4, <2>6, <4>1
      <4>3. (x + 1) .. (x + 1 + (n - 1) - 1) \subseteq (x .. (x + n - 1)) \ {x}
        OBVIOUS
      <4> QED
        BY <4>1, <4>2, <4>3
    <3>4. c.op = "map" => d.addr \in Nat /\ OwnFrames(t, d.addr, d.n)
      <4>1. ASSUME c.op = "map" PROVE d.addr \in Nat /\ OwnFrames(t, d.addr, d.n)
        <5>1. c.addr \in Nat /\ d.addr = c.addr + 1
          BY <2>2, <2>6, <4>1
        <5>2. d.addr .. (d.addr + d.n - 1) \subseteq c.addr .. (c.addr + c.n - 1)
          BY <2>1, <2>6, <5>1
        <5> QED
          BY <2>2, <4>1, <5>1, <5>2 DEF OwnFrames
      <4> QED
        BY <4>1
    <3>5. c.op = "setflags" => \A w \in PagesLeft(t)' : EntryOf(w)'.addr # 0
      <4>1. c.op = "setflags" => Page(t) = c.page
        BY DEF Page
      <4> QED
        BY <1>3, <2>2, <2>3, <3>3, <4>1
    <3>6. c.op = "remap" => \A w \in PagesLeft(t)' : Translation(w)' # None
      <4>1. SUFFICES ASSUME c.op = "remap", NEW w \in PagesLeft(t)' PROVE Translation(w)' # None
        OBVIOUS
      <4>2. w \in PagesLeft(t) /\ w # c.page /\ w \in AllPages /\ Translation(w) # None
        BY <2>2, <2>3, <3>3, <4>1
      <4>3. CASE w # Page(t)
        BY <1>4, <4>2, <4>3
      <4>4. CASE w = Page(t)
        <5>1. TablesOf(Page(t))[1] # None
          BY <1>5, <2>6, <4>1 DEF Allocates
        <5>2. EntryOf(w)' = e /\ e.present /\ e.addr \in Frames
          BY <1>3, <2>6, <4>1, <4>2, <4>4, <5>1 DEF LeafOK
        <5> QED
          BY <5>2, Constants DEF Translation, Target
      <4> QED
        BY <4>3, <4>4
    <3>7. /\ d.op # "remap" => d.step = d.op
          /\ d.op = "remap" => d.step = "lookup"
      BY <2>6
    <3> HIDE DEF c
    <3> QED
      BY <2>6, <3>1, <3>2, <3>4, <3>5, <3>6, <3>7 DEF CallOK, d, Own, OwnFrames, OwnFrame
  <2>7. \/ /\ c.op = "remap" /\ c.step # "map"
           /\ d.op = "remap"
           /\ d.step = IF c.step = "lookup" THEN "unmap" ELSE "map"
           /\ d.addr = IF c.step = "lookup" THEN value ELSE c.addr
           /\ d.page = c.page /\ d.to = c.to /\ d.n = c.n
        \/ /\ c.op # "remap" \/ c.step = "map"
           /\ c.n > 1
           /\ d.op = c.op
           /\ d.step = IF c.op = "remap" THEN "lookup" ELSE c.op
           /\ d.page = c.page + 1 /\ d.to = c.to + 1
           /\ d.n = c.n - 1
           /\ d.addr = IF c.op = "map" THEN c.addr + 1 ELSE c.addr
    BY <1>1, <1>7, <1>16, ContinueCall DEF OwnFrame
  <2> QED
    BY <2>5, <2>6, <2>7
<1>17. CallInv'
  <2> SUFFICES ASSUME NEW u \in Threads, pc'[u] \in {"wait", "walk", "link", "next"}
               PROVE  CallOK(u)'
    BY DEF CallInv
  <2>1. CASE u = t
    BY <1>11, <1>16, <2>1
  <2>2. CASE u # t
    <3>1. call'[u] = call[u] /\ CallOK(u) /\ call[u] \in Calls
      BY <1>9, <1>11, <2>2 DEF IInv, CallInv, TypeOK
    <3>2. \A w \in Pages : Owner[w] = u => EntryOf(w)' = EntryOf(w)
      BY <1>2, <1>3, <2>2, Constants
    <3> QED
      BY <3>1, <3>2, CallKept
  <2> QED
    BY <2>1, <2>2
<1>18. WalkInv' /\ LinkInv'
  BY <1>11 DEF WalkInv, LinkInv
<1> QED
  BY <1>3, <1>8, <1>10, <1>12, <1>13, <1>14, <1>15, <1>17, <1>18 DEF IInv

\* The value a walk reads is the processor's, where there is one.
LEMMA EntryRead ==
    ASSUME IInv, NEW t \in Threads, pc[t] = "walk", call[t].level = 1
    PROVE  /\ Page(t) \in AllPages
           /\ Entry(t) \in [present : BOOLEAN, addr : Frames \cup Foreign]
           /\ LeafOK(t, Entry(t))
           /\ TablesOf(Page(t))[1] # None => Entry(t) = EntryOf(Page(t))
           /\ TablesOf(Page(t))[1] = None => EntryOf(Page(t)) = Absent
<1>1. Page(t) \in AllPages /\ Slot(t) \in 0 .. Fan - 1 /\ Page(t) \in Pages /\ Owner[Page(t)] = t
  BY PageOwned
<1>2. /\ TablesOf(Page(t))[1] # None => Entry(t) = EntryOf(Page(t))
      /\ TablesOf(Page(t))[1] = None => EntryOf(Page(t)) = Absent /\ Entry(t).addr \in Foreign
  BY AtTable DEF EntryOf, EntryIn
<1>3. call[t].table \in TableFrames \cup Foreign
  BY AtTable
<1>4. tab[call[t].table] \in
         [0 .. Fan - 1 -> [present : BOOLEAN, addr : TableFrames \cup Frames \cup Foreign]]
  BY <1>3 DEF IInv, TypeOK
<1>5. Entry(t) \in [present : BOOLEAN, addr : TableFrames \cup Frames \cup Foreign]
  BY <1>1, <1>4 DEF Entry
<1>6. /\ EntryOf(Page(t)).addr \in Frames \cup {0}
      /\ (EntryOf(Page(t)).present => EntryOf(Page(t)).addr \in Frames)
      /\ EntryOf(Page(t)).addr \in Frames => OwnFrame(t, EntryOf(Page(t)).addr)
  BY <1>1 DEF IInv, LeafInv, OwnFrame
<1>7. LeafOK(t, Entry(t))
  BY <1>2, <1>6 DEF LeafOK
<1>8. Entry(t).addr \in Frames \cup Foreign
  BY <1>2, <1>6, Constants
<1> QED
  BY <1>1, <1>2, <1>5, <1>7, <1>8

\* What a locked call leaves in the entry of its page.
Served(t) ==
    IF call[t].step = "map" THEN [present |-> TRUE, addr |-> call[t].addr]
    ELSE IF call[t].step = "unmap" THEN Absent
    ELSE IF call[t].step = "setflags"
         THEN [present |-> call[t].readable, addr |-> EntryOf(Page(t)).addr]
    ELSE EntryOf(Page(t))

\* map_page(), unmap_page(), setflags_page() and virtual_to_physical(): each
\* writes the entry of its page, and writes back what it read where it only
\* reads.
LEMMA LockedCalls ==
    ASSUME IInv, NEW t \in Threads,
           MapPage(t) \/ UnmapPage(t) \/ SetFlagsPage(t) \/ VirtualToPhysical(t)
    PROVE  /\ IInv'
           /\ \A v \in AllPages : EntryOf(v)' = IF v = Page(t) THEN Served(t) ELSE EntryOf(v)
           /\ call[t].step = "map" => OwnFrame(t, call[t].addr)
           /\ call[t].step = "setflags" => EntryOf(Page(t)).addr \in Frames
           /\ AtEntry(t, "lookup") =>
                 IF TablesOf(Page(t))[1] # None
                 THEN result'[t] = Translation(Page(t))
                 ELSE result'[t] \in Foreign \cup {None}
<1>1. pc[t] = "walk" /\ call[t].level = 1
  BY DEF MapPage, UnmapPage, SetFlagsPage, VirtualToPhysical, AtEntry
<1>2. CallOK(t) /\ call[t] \in Calls /\ Page(t) \in AllPages
  BY <1>1, PageOwned
<1>3. /\ Entry(t) \in [present : BOOLEAN, addr : Frames \cup Foreign]
      /\ LeafOK(t, Entry(t))
      /\ TablesOf(Page(t))[1] # None => Entry(t) = EntryOf(Page(t))
      /\ TablesOf(Page(t))[1] = None => EntryOf(Page(t)) = Absent
  BY <1>1, EntryRead
<1>4. Allocates(t) => TablesOf(Page(t))[1] # None
  BY <1>1, AtTable
<1>5. result \in [Threads -> Frames \cup Foreign \cup {None, SYSTEM_OK}]
  BY DEF IInv, TypeOK
<1>6. CASE MapPage(t)
  <2> DEFINE e == [present |-> TRUE, addr |-> call[t].addr]
  <2>1. AtEntry(t, "map") /\ Finish(t, e, SYSTEM_OK) /\ call[t].step = "map"
    BY <1>6 DEF MapPage, AtEntry
  <2>2. OwnFrame(t, call[t].addr)
    <3>1. call[t].op = "map" => call[t].addr \in call[t].addr .. (call[t].addr + call[t].n - 1)
      BY <1>2 DEF CallOK, Calls
    <3> QED
      BY <1>2, <2>1, <3>1 DEF CallOK, OwnFrames
  <2>3. TablesOf(Page(t))[1] # None
    BY <1>4, <2>1 DEF Allocates
  <2>4. /\ e \in [present : BOOLEAN, addr : Frames \cup Foreign] /\ e.present
        /\ LeafOK(t, e) /\ e = Served(t)
    BY <2>1, <2>2, <2>3 DEF LeafOK, Served, OwnFrame
  <2> HIDE DEF e
  <2>5. /\ IInv'
        /\ \A v \in AllPages : EntryOf(v)' = IF v = Page(t) /\ TablesOf(Page(t))[1] # None
                                             THEN e ELSE EntryOf(v)
    <3>1. PICK g \in [present : BOOLEAN, addr : Frames \cup Foreign] : g = e
      BY <2>4
    <3> QED
      BY <1>1, <2>1, <2>3, <2>4, <3>1, FinishIInv
  <2> QED
    BY <1>2, <2>1, <2>2, <2>3, <2>4, <2>5 DEF AtEntry
<1>7. CASE UnmapPage(t)
  <2>1. AtEntry(t, "unmap") /\ Finish(t, Absent, SYSTEM_OK) /\ call[t].step = "unmap"
    BY <1>7 DEF UnmapPage, AtEntry
  <2>2. Absent \in [present : BOOLEAN, addr : Frames \cup Foreign] /\ LeafOK(t, Absent)
    BY Constants DEF Absent, LeafOK
  <2>3. /\ IInv'
        /\ \A v \in AllPages : EntryOf(v)' = IF v = Page(t) /\ TablesOf(Page(t))[1] # None
                                             THEN Absent ELSE EntryOf(v)
    BY <1>1, <2>1, <2>2, FinishIInv
  <2>4. Served(t) = Absent
    BY <2>1 DEF Served
  <2> QED
    BY <1>2, <1>3, <2>1, <2>3, <2>4 DEF AtEntry
<1>8. CASE SetFlagsPage(t)
  <2> DEFINE e == [present |-> call[t].readable, addr |-> Entry(t).addr]
  <2>1. AtEntry(t, "setflags") /\ Finish(t, e, SYSTEM_OK) /\ call[t].step = "setflags"
    BY <1>8 DEF SetFlagsPage, AtEntry
  <2>2. TablesOf(Page(t))[1] # None /\ Entry(t) = EntryOf(Page(t))
    BY <1>3, <1>4, <2>1 DEF Allocates
  <2>3. Entry(t).addr \in Frames /\ OwnFrame(t, Entry(t).addr)
    <3>1. call[t].op = "setflags"
      BY <1>2, <2>1 DEF CallOK
    <3>2. call[t].page \in PagesLeft(t) /\ Page(t) = call[t].page
      BY <1>2, <2>1, <3>1 DEF CallOK, Calls, PagesLeft, Page
    <3>3. EntryOf(Page(t)).addr # 0
      BY <1>2, <3>1, <3>2 DEF CallOK
    <3> QED
      BY <1>3, <2>2, <3>3 DEF LeafOK
  <2>4. /\ e \in [present : BOOLEAN, addr : Frames \cup Foreign]
        /\ LeafOK(t, e) /\ e = Served(t)
    BY <1>2, <2>1, <2>2, <2>3 DEF Calls, LeafOK, Served
  <2> HIDE DEF e
  <2>5. /\ IInv'
        /\ \A v \in AllPages : EntryOf(v)' = IF v = Page(t) /\ TablesOf(Page(t))[1] # None
                                             THEN e ELSE EntryOf(v)
    <3>1. PICK g \in [present : BOOLEAN, addr : Frames \cup Foreign] : g = e
      BY <2>4
    <3> QED
      BY <1>1, <2>1, <2>4, <3>1, FinishIInv
  <2> QED
    BY <1>2, <2>1, <2>2, <2>3, <2>4, <2>5 DEF AtEntry
<1>9. CASE VirtualToPhysical(t)
  <2> DEFINE r == IF Entry(t).present THEN Entry(t).addr ELSE None
  <2>1. AtEntry(t, "lookup") /\ Finish(t, Entry(t), r) /\ call[t].step = "lookup"
    BY <1>9 DEF VirtualToPhysical, AtEntry
  <2>2. /\ r \in Frames \cup Foreign \cup {None}
        /\ TablesOf(Page(t))[1] # None => r = Translation(Page(t))
        /\ TablesOf(Page(t))[1] = None => r \in Foreign \cup {None}
    BY <1>3 DEF Translation, Target, LeafOK
  <2> HIDE DEF r
  <2>3. PICK e \in [present : BOOLEAN, addr : Frames \cup Foreign],
             x \in Frames \cup Foreign \cup {None} :
            e = Entry(t) /\ x = r
    BY <1>3, <2>2
  <2>4. Finish(t, e, x) /\ result'[t] = x
    BY <1>5, <2>1, <2>3 DEF Finish
  <2>5. /\ IInv'
        /\ \A v \in AllPages : EntryOf(v)' = IF v = Page(t) /\ TablesOf(Page(t))[1] # None
                                             THEN e ELSE EntryOf(v)
    <3>1. LeafOK(t, e)
      BY <1>3, <2>3
    <3>2. TablesOf(Page(t))[1] # None => e = EntryOf(Page(t)) /\ x = Translation(Page(t))
      BY <1>3, <2>2, <2>3
    <3> QED
      BY <1>1, <2>1, <2>4, <3>1, <3>2, FinishIInv
  <2>6. Served(t) = EntryOf(Page(t))
    BY <2>1 DEF Served
  <2>7. \A v \in AllPages : EntryOf(v)' = IF v = Page(t) THEN Served(t) ELSE EntryOf(v)
    BY <1>3, <2>3, <2>5, <2>6
  <2> QED
    BY <2>1, <2>2, <2>3, <2>4, <2>5, <2>7
<1> QED
  BY <1>6, <1>7, <1>8, <1>9

\* Every step keeps the invariant.
LEMMA NextIInv ==
    ASSUME IInv, [Next]_vars
    PROVE  IInv'
<1>1. CASE UNCHANGED vars
  <2>1. UNCHANGED <<tab, used, pc, call, result, asked, ahead, inside>>
    BY <1>1 DEF vars
  <2>2. TypeOK' /\ LockInv' /\ HoldInv'
    BY <2>1 DEF IInv, TypeOK, HoldInv, LockInv, lock!MutexTypeOK, lock!Line,
                lock!MutexTypeOK
  <2>3. TablesFormTree' /\ FreshInv' /\ ForeignInv' /\ LeafInv'
    <3>1. FreshTables' = FreshTables
      BY <2>1 DEF FreshTables
    <3> QED
      BY <2>1, <3>1, SameTree DEF IInv
  <2>4. CallInv'
    BY <2>1, CallKept, SameTables DEF IInv, CallInv, TypeOK
  <2>5. WalkInv'
    <3>1. \A v : TablesOf(v)' = TablesOf(v)
      BY <2>1, SameTables
    <3> QED
      BY <2>1, <3>1 DEF IInv, WalkInv, WalkOK, Page, Allocates
  <2>6. LinkInv'
    BY <2>1, SameLink DEF IInv, LinkInv
  <2> QED
    BY <2>2, <2>3, <2>4, <2>5, <2>6 DEF IInv
<1>2. ASSUME NEW t \in Threads, Call(t) PROVE IInv'
  BY <1>2, CallIInv
<1>3. ASSUME NEW t \in Threads, Proceed(t) PROVE IInv'
  BY <1>3, EnterIInv, DescendIInv, AllocateIInv, LinkIInv, LockedCalls, ResumeIInv, ReturnIInv
     DEF Proceed
<1> QED
  BY <1>1, <1>2, <1>3 DEF Next

\* The invariant of the page tables.
THEOREM Invariance == Spec => []IInv
<1> QED
  BY InitIInv, NextIInv, PTL DEF Spec

\* A lookup returns a frame, -1 or a page of the firmware, never a table, and
\* calls keep their types.
THEOREM PageMapTypes == Spec => []TypeOK
<1>1. IInv => TypeOK
  BY DEF IInv
<1> QED
  BY <1>1, Invariance, PTL

\* Whatever the callers map, unmap and move at once, the tables form a tree
\* over the pages and every table allocated is in it or about to be.
THEOREM TablesStayTree == Spec => []TablesFormTree
<1>1. IInv => TablesFormTree
  BY DEF IInv
<1> QED
  BY <1>1, Invariance, PTL

\* virtual_to_physical() returns what the processor would use where the tables
\* of the page exist; where one is missing it returns -1 or what physical page
\* 0 leads to, whatever the firmware left there.
THEOREM LookupsExact == Spec => LookupsAgree
<1> DEFINE Right(t) == IF TablesOf(Page(t))[1] # None
                       THEN result'[t] = Translation(Page(t))
                       ELSE result'[t] \in Foreign \cup {None}
<1>1. ASSUME IInv, [Next]_vars, NEW t \in Threads, AtEntry(t, "lookup"), pc'[t] # "walk"
      PROVE  Right(t)
  <2> HIDE DEF Right
  <2>1. pc[t] = "walk" /\ call[t].level = 1 /\ call[t].step = "lookup"
    BY <1>1 DEF AtEntry
  <2>2. pc \in [Threads -> {"idle", "wait", "walk", "link", "next", "return"}]
    BY <1>1 DEF IInv, TypeOK
  <2>3. CASE UNCHANGED vars
    BY <1>1, <2>1, <2>3 DEF vars
  <2>4. ASSUME NEW u \in Threads, Call(u) PROVE FALSE
    <3>1. pc[u] = "idle" /\ pc' = [pc EXCEPT ![u] = "wait"]
      BY <2>4 DEF Call, MapPages, UnmapPages, SetFlagsPages, RemapPages, Lookup, Start
    <3> QED
      BY <1>1, <2>1, <2>2, <3>1
  <2>5. ASSUME NEW u \in Threads, Enter(u) \/ Resume(u) \/ Return(u) \/ LinkTable(u) PROVE FALSE
    <3>1. pc[u] # "walk" /\ \E x : pc' = [pc EXCEPT ![u] = x]
      BY <2>5 DEF Enter, Resume, Return, LinkTable
    <3> QED
      BY <1>1, <2>1, <2>2, <3>1
  <2>6. ASSUME NEW u \in Threads, Follow(u) \/ NoTable(u) PROVE FALSE
    <3>1. pc' = pc
      BY <2>6 DEF Follow, NoTable, Descend
    <3> QED
      BY <1>1, <2>1, <3>1
  <2>7. ASSUME NEW u \in Threads, AllocateTable(u) PROVE FALSE
    <3>1. pc[u] = "walk" /\ call[u].level > 1
      BY <2>7 DEF AllocateTable
    <3>2. u = t
      BY <1>1, <2>1, <3>1, Alone
    <3> QED
      BY <2>1, <3>1, <3>2
  <2>8. ASSUME NEW u \in Threads,
               MapPage(u) \/ UnmapPage(u) \/ SetFlagsPage(u) \/ VirtualToPhysical(u)
        PROVE  Right(t)
    <3>1. pc[u] = "walk"
      BY <2>8 DEF MapPage, UnmapPage, SetFlagsPage, VirtualToPhysical, AtEntry
    <3>2. u = t
      BY <1>1, <2>1, <3>1, Alone
    <3> QED
      BY <1>1, <2>8, <3>2, LockedCalls DEF Right
  <2> QED
    BY <1>1, <2>3, <2>4, <2>5, <2>6, <2>7, <2>8 DEF Next, Proceed
<1>2. IInv /\ [Next]_vars => [\A t \in Threads :
                                 AtEntry(t, "lookup") /\ pc'[t] # "walk" =>
                                     IF TablesOf(Page(t))[1] # None
                                     THEN result'[t] = Translation(Page(t))
                                     ELSE result'[t] \in Foreign \cup {None}]_vars
  BY <1>1
<1> QED
  BY <1>2, Invariance, PTL DEF Spec, LookupsAgree

-----------------------------------------------------------------------------
(* PageMap implements AddressSpace *)

\* The part of CallOK that is about the call alone.
CallMine(t, c) ==
    /\ c.n >= 1
    /\ Own(t, c.page, c.n)
    /\ c.op # "remap" => c.step = c.op
    /\ c.op = "map" => c.addr \in Nat /\ OwnFrames(t, c.addr, c.n)
    /\ c.op = "remap" => Own(t, c.to, c.n) /\ (c.step # "lookup" => OwnFrame(t, c.addr))

\* What such a call asks for at page v is its caller's to ask.
LEMMA CallAsks ==
    ASSUME NEW t \in Threads, NEW c \in Calls, CallMine(t, c), NEW v,
           v = IF c.op = "remap" /\ c.step = "map" THEN c.to ELSE c.page
    PROVE  Mapped!Mine(t, [op |-> c.step, page |-> v, frames |-> {c.addr} \ {None},
                           readable |-> c.readable])
<1> DEFINE fs == {c.addr} \ {None}
           r == [op |-> c.step, page |-> v, frames |-> fs, readable |-> c.readable]
<1>1. v \in Pages /\ Owner[v] = t
  <2>1. c.page \in c.page .. (c.page + c.n - 1) /\ c.to \in c.to .. (c.to + c.n - 1)
    BY DEF CallMine, Calls
  <2> QED
    BY <2>1 DEF CallMine, Own
<1>2. /\ c.step \in {"map", "unmap", "setflags", "lookup"}
      /\ fs \in SUBSET Frames /\ c.readable \in BOOLEAN
  BY DEF Calls, Steps
<1>3. c.step = "map" => OwnFrame(t, c.addr)
  <2>1. c.op = "map" => c.addr \in c.addr .. (c.addr + c.n - 1)
    BY DEF CallMine, Calls
  <2> QED
    BY <2>1 DEF CallMine, OwnFrames
<1>4. c.step = "map" => \A f \in fs : FrameOwner[f] = t
  BY <1>3 DEF OwnFrame
<1> HIDE DEF fs
<1>5. r \in Mapped!Requests
  BY <1>1, <1>2 DEF Mapped!Requests, Pages, Frames
<1>6. Owner[r.page] = t /\ (r.op = "map" => \A f \in r.frames : FrameOwner[f] = t)
  BY <1>1, <1>4
<1> QED
  BY <1>5, <1>6 DEF Mapped!Mine, fs

\* So is what a call in progress asks for after a step.
LEMMA RequestMine ==
    ASSUME IInv', NEW t \in Threads
    PROVE  Mapped!Mine(t, Request(t)')
<1>1. CASE pc'[t] \in {"wait", "walk", "link", "next"}
  <2>1. call'[t] \in Calls
    BY DEF IInv, TypeOK
  <2>2. CallOK(t)'
    BY <1>1 DEF IInv, CallInv
  <2>3. CallMine(t, call'[t])
    BY <2>2 DEF CallOK, CallMine
  <2>4. Page(t)' = IF call'[t].op = "remap" /\ call'[t].step = "map"
                   THEN call'[t].to ELSE call'[t].page
    BY DEF Page
  <2>5. Request(t)' = [op |-> call'[t].step, page |-> Page(t)',
                       frames |-> {call'[t].addr} \ {None}, readable |-> call'[t].readable]
    BY <1>1 DEF Request
  <2> QED
    BY <2>1, <2>3, <2>4, <2>5, CallAsks
<1>2. CASE pc'[t] \notin {"wait", "walk", "link", "next"}
  BY <1>2 DEF Request, Mapped!Mine, Mapped!NoRequest
<1> QED
  BY <1>1, <1>2

\* The request of a caller does not change while it waits and walks.
LEMMA RequestSame ==
    ASSUME NEW t \in Threads, SameCall(t),
           pc[t] \in {"wait", "walk", "link", "next"}, pc'[t] \in {"wait", "walk", "link", "next"}
    PROVE  Request(t)' = Request(t)
  BY DEF Request, SameCall

\* Every step serves one caller at the page it asked for, or leaves the pages
\* alone.
LEMMA StepImplements ==
    ASSUME IInv, [Next]_vars
    PROVE  [Mapped!Next]_(Mapped!vars)
<1> DEFINE space == [v \in AllPages |-> Translation(v)]
           hidden == [v \in AllPages |-> Behind(EntryOf(v))]
           request == [t \in Threads |-> Request(t)]
<1>1. IInv'
  BY NextIInv
<1>2. \A t \in Threads : Mapped!Mine(t, Request(t)')
  BY <1>1, RequestMine
<1>3. ASSUME \A v \in AllPages : EntryOf(v)' = EntryOf(v)
      PROVE  space' = space /\ hidden' = hidden
  BY <1>3 DEF Translation
<1>4. ASSUME UNCHANGED tab
      PROVE  space' = space /\ hidden' = hidden
  BY <1>3, <1>4, SameTables
<1>5. ASSUME NEW t \in Threads,
             \A u \in Threads \ {t} : call'[u] = call[u] /\ pc'[u] = pc[u]
      PROVE  Mapped!GoOn(t)
  <2>1. \A u \in Threads \ {t} : Request(u)' = Request(u)
    BY <1>5 DEF Request, Page
  <2>2. request' = [request EXCEPT ![t] = Request(t)']
    BY <2>1
  <2>3. request'[t] = Request(t)'
    OBVIOUS
  <2> QED
    BY <1>2, <2>2, <2>3 DEF Mapped!GoOn
<1>6. CASE UNCHANGED vars
  <2>1. request' = request
    BY <1>6 DEF vars, Request, Page
  <2> QED
    BY <1>4, <1>6, <2>1 DEF vars, Mapped!vars
<1>7. ASSUME NEW t \in Threads, Call(t) \/ Return(t) PROVE Mapped!Next
  <2>1. UNCHANGED tab /\ \A u \in Threads \ {t} : call'[u] = call[u] /\ pc'[u] = pc[u]
    BY <1>7 DEF Call, MapPages, UnmapPages, SetFlagsPages, RemapPages, Lookup, Start, Return,
                IInv, TypeOK
  <2>2. Mapped!Ask(t)
    BY <1>4, <1>5, <2>1 DEF Mapped!Ask
  <2> QED
    BY <2>2 DEF Mapped!Next
<1>8. ASSUME NEW t \in Threads,
             Enter(t) \/ Resume(t) \/ Follow(t) \/ NoTable(t) \/ AllocateTable(t) \/ LinkTable(t)
      PROVE  UNCHANGED Mapped!vars
  <2>1. \A v \in AllPages : EntryOf(v)' = EntryOf(v)
    <3>1. CASE LinkTable(t)
      BY <3>1, LinkIInv
    <3>2. CASE UNCHANGED tab
      BY <3>2, SameTables
    <3> QED
      BY <1>8, <3>1, <3>2 DEF Enter, Resume, Follow, NoTable, Descend, AllocateTable
  <2>2. SameCall(t) /\ \A u \in Threads \ {t} : call'[u] = call[u]
    <3>1. call \in [Threads -> Calls]
      BY DEF IInv, TypeOK
    <3>2. \A u \in Threads \ {t} : call'[u] = call[u]
      BY <1>8, <3>1 DEF Enter, Resume, Follow, NoTable, Descend, AllocateTable, LinkTable
    <3>3. SameCall(t)
      <4>1. CASE Enter(t)
        BY <4>1, EnterIInv
      <4>2. CASE Resume(t)
        BY <4>2 DEF Resume, SameCall, Page, Allocates
      <4> QED
        BY <1>8, <4>1, <4>2, DescendIInv, AllocateIInv, LinkIInv
    <3> QED
      BY <3>2, <3>3
  <2>3. /\ pc[t] \in {"wait", "walk", "link", "next"} /\ pc'[t] \in {"wait", "walk", "link", "next"}
        /\ \A u \in Threads \ {t} : pc'[u] = pc[u]
    BY <1>8 DEF Enter, Resume, Follow, NoTable, Descend, AllocateTable, LinkTable, IInv, TypeOK
  <2>4. \A u \in Threads : Request(u)' = Request(u)
    <3>1. Request(t)' = Request(t)
      BY <2>2, <2>3, RequestSame
    <3>2. \A u \in Threads \ {t} : Request(u)' = Request(u)
      BY <2>2, <2>3 DEF Request, Page
    <3> QED
      BY <3>1, <3>2
  <2>5. request' = request
    BY <2>4
  <2> QED
    BY <1>3, <2>1, <2>5 DEF Mapped!vars
<1>9. ASSUME NEW t \in Threads,
             MapPage(t) \/ UnmapPage(t) \/ SetFlagsPage(t) \/ VirtualToPhysical(t)
      PROVE  Mapped!Next
  <2>1. pc[t] = "walk" /\ call[t].level = 1
    BY <1>9 DEF MapPage, UnmapPage, SetFlagsPage, VirtualToPhysical, AtEntry
  <2>2. PICK p \in AllPages : p = Page(t)
    BY <2>1, PageOwned
  <2>3. /\ \A v \in AllPages : EntryOf(v)' = IF v = p THEN Served(t) ELSE EntryOf(v)
        /\ call[t].step = "map" => OwnFrame(t, call[t].addr)
        /\ call[t].step = "setflags" => EntryOf(p).addr \in Frames
    BY <1>9, <2>2, LockedCalls
  <2>4. /\ space' = [space EXCEPT ![p] = Target(Served(t))]
        /\ hidden' = [hidden EXCEPT ![p] = Behind(Served(t))]
    BY <2>3 DEF Translation
  <2>5. Mapped!GoOn(t)
    <3>1. \A u \in Threads \ {t} : call'[u] = call[u] /\ pc'[u] = pc[u]
      BY <1>9 DEF MapPage, UnmapPage, SetFlagsPage, VirtualToPhysical, Finish, Continue,
                  IInv, TypeOK
    <3> QED
      BY <1>5, <3>1
  <2>6. /\ request[t] = Request(t) /\ request[t].op = call[t].step /\ request[t].page = p
        /\ request[t].frames = {call[t].addr} \ {None}
        /\ request[t].readable = call[t].readable
    BY <2>1, <2>2 DEF Request
  <2>7. call[t].step \in {"map", "unmap", "setflags", "lookup"} /\ call[t].readable \in BOOLEAN
    BY DEF IInv, TypeOK, Calls, Steps
  <2> HIDE DEF space, hidden, request
  <2>8. CASE call[t].step = "map"
    <3>1. Served(t).present /\ Served(t).addr = call[t].addr /\ call[t].addr \in Frames
      BY <2>3, <2>8 DEF Served, OwnFrame
    <3>2. Target(Served(t)) = call[t].addr /\ Behind(Served(t)) = None
      BY <3>1 DEF Target, Behind
    <3>3. call[t].addr \in request[t].frames
      BY <2>6, <3>1, Constants
    <3>4. Mapped!Put(t, call[t].addr, None)
      BY <2>4, <2>6, <3>2 DEF Mapped!Put, space, hidden, request
    <3>5. Mapped!Map(t)
      BY <2>5, <2>6, <2>8, <3>3, <3>4 DEF Mapped!Map, request
    <3> QED
      BY <3>5 DEF Mapped!Next
  <2>9. CASE call[t].step = "unmap"
    <3>1. Target(Served(t)) = None /\ Behind(Served(t)) = None
      BY <2>9 DEF Served, Absent, Target, Behind
    <3>2. Mapped!Put(t, None, None)
      BY <2>4, <2>6, <3>1 DEF Mapped!Put, space, hidden, request
    <3>3. Mapped!Unmap(t)
      BY <2>5, <2>6, <2>9, <3>2 DEF Mapped!Unmap, request
    <3> QED
      BY <3>3 DEF Mapped!Next
  <2>10. CASE call[t].step = "setflags"
    <3> DEFINE f == EntryOf(p).addr
    <3>1. /\ f \in Frames /\ f # 0 /\ f # None
          /\ Served(t).present = call[t].readable /\ Served(t).addr = f
      BY <2>2, <2>3, <2>10, Constants DEF Served
    <3>2. space[p] = Target(EntryOf(p)) /\ hidden[p] = Behind(EntryOf(p))
      BY DEF space, hidden, Translation
    <3>3. f \in {space[request[t].page], hidden[request[t].page]} \ {None}
      BY <2>6, <3>1, <3>2 DEF Target, Behind
    <3>4. /\ call[t].readable => Target(Served(t)) = f /\ Behind(Served(t)) = None
          /\ ~call[t].readable => Target(Served(t)) = None /\ Behind(Served(t)) = f
      BY <3>1 DEF Target, Behind
    <3> HIDE DEF f
    <3>5. IF request[t].readable THEN Mapped!Put(t, f, None) ELSE Mapped!Put(t, None, f)
      BY <2>4, <2>6, <3>4 DEF Mapped!Put, space, hidden, request
    <3>6. Mapped!SetFlags(t)
      BY <2>5, <2>6, <2>10, <3>3, <3>5 DEF Mapped!SetFlags, space, hidden, request
    <3> QED
      BY <3>6 DEF Mapped!Next
  <2>11. CASE call[t].step = "lookup"
    <3>1. Served(t) = EntryOf(p)
      BY <2>2, <2>11 DEF Served
    <3>2. \A v \in AllPages : EntryOf(v)' = EntryOf(v)
      BY <2>3, <3>1
    <3>3. Mapped!Ask(t)
      BY <1>3, <2>5, <3>2 DEF Mapped!Ask, space, hidden, request
    <3> QED
      BY <3>3 DEF Mapped!Next
  <2> QED
    BY <2>7, <2>8, <2>9, <2>10, <2>11
<1> HIDE DEF space, hidden, request
<1> QED
  BY <1>6, <1>7, <1>8, <1>9 DEF Next, Proceed

\* At the start nothing is mapped and nobody asks for anything.
LEMMA InitImplements == Init => Mapped!Init
<1> SUFFICES ASSUME Init PROVE Mapped!Init
  OBVIOUS
<1>1. ASSUME NEW v \in AllPages PROVE Translation(v) = None /\ Behind(EntryOf(v)) = None
  <2>1. IInv
    BY InitIInv
  <2>2. EntryOf(v) = Absent
    <3>1. CASE TablesOf(v)[1] = None
      BY <3>1 DEF EntryOf, EntryIn
    <3>2. CASE TablesOf(v)[1] # None
      <4>1. TablesOf(v)[1] \in TableFrames
        BY <2>1, <3>2, TableUsed, Constants DEF IInv
      <4>2. Index(v, 1) \in 0 .. Fan - 1
        BY PrefixSplit, Constants
      <4>3. tab[TablesOf(v)[1]] = EmptyTable
        BY <4>1, Constants DEF Init
      <4> QED
        BY <3>2, <4>2, <4>3 DEF EntryOf, EntryIn, EmptyTable
    <3> QED
      BY <3>1, <3>2
  <2> QED
    BY <2>2, Constants DEF Translation, Target, Behind
<1>2. ASSUME NEW t \in Threads PROVE Request(t) = Mapped!NoRequest
  BY DEF Init, Request, Mapped!NoRequest
<1> QED
  BY <1>1, <1>2 DEF Mapped!Init

\* The page tables implement the abstract address space: at any moment of any
\* interleaving, the entry that changes is that of the page a call in progress
\* was made for by the page's owner; it gets the frame the call gave, which is
\* the caller's own, or none, and a change of flags keeps its frame.
THEOREM TablesImplementSpace == Spec => ImplementsAddressSpace
<1> QED
  BY InitImplements, StepImplements, Invariance, PTL
     DEF Spec, ImplementsAddressSpace, Mapped!Spec
==============================================================================
