------------------------------ MODULE PageMap ------------------------------
(***************************************************************************)
(* memory::PageMap of kernel/arch/amd64/memory/paging.cpp: the page tables *)
(* of the kernel and the calls that change them under PageMap::lock_.      *)
(*                                                                         *)
(* The kernel maps everything with 4 KiB pages (virtual.cpp:23-24), and so *)
(* do the callers here: page_size is PAGE_SIZE and no entry is large.      *)
(* Addresses are page and frame numbers; an entry is its present bit and   *)
(* its address.  Root is the table below a top-level entry of the upper    *)
(* half, which initialize(true) allocates for good.                        *)
(*                                                                         *)
(* get_next_lvl() returns to_higher_half(ret), which is never nullptr:     *)
(* where there is no table and none is to be allocated, the walk goes on   *)
(* in physical page 0, which holds what the firmware left there.           *)
(***************************************************************************)
EXTENDS Integers, FiniteSets, FiniteSetsExt

CONSTANTS Threads,      \* callers
          Levels,       \* levels of tables below the top level
          Fan,          \* entries per table (512)
          TableFrames,  \* frames physical_allocate() hands out for tables
          Root,         \* the first of them
          Owner,        \* the thread that owns each page it may map
          FrameOwner,   \* the thread that owns each frame it may map
          Firmware      \* what the firmware left in the physical pages, page 0
                        \* among them, that nobody here was given

Pages == DOMAIN Owner
Frames == DOMAIN FrameOwner
Foreign == DOMAIN Firmware
AllPages == 0 .. (Fan ^ Levels - 1)
None == -1

\* An error_t, told apart from frames.
SYSTEM_OK == -2

\* Physical page 0, what to_higher_half(nullptr) points to.
ZeroPage == 0

ASSUME PagingOK ==
    /\ Levels \in Nat \ {0} /\ Fan \in Nat \ {0}
    /\ Pages \subseteq AllPages /\ \A v \in Pages : Owner[v] \in Threads
    /\ Root \in TableFrames
    /\ TableFrames \subseteq Nat /\ Frames \subseteq Nat
    /\ TableFrames \cap Frames = {}

\* Read as a table, a page of the firmware has entries that look present or
\* not and lead to pages of the firmware; none looks large.
ASSUME FirmwareOK ==
    /\ ZeroPage \in Foreign /\ Foreign \subseteq Nat
    /\ Foreign \cap (TableFrames \cup Frames) = {}
    /\ \A f \in Foreign : Firmware[f] \in [0 .. Fan - 1 -> [present : BOOLEAN, addr : Foreign]]

\* What the powers of Fan are, up to the span of the top table.
ASSUME PowersOK ==
    /\ Fan ^ 0 = 1
    /\ \A l \in 1 .. Levels : Fan ^ l \in Nat \ {0} /\ Fan ^ l = Fan * Fan ^ (l - 1)

VARIABLES tab,        \* the entries of every table, and of the firmware's pages
          used,       \* tables allocated
          pc,         \* where each caller is
          call,       \* its call
          result,     \* what its last locked call returned
          asked, ahead, inside      \* lock_

vars == <<tab, used, pc, call, result, asked, ahead, inside>>
lvars == <<asked, ahead, inside>>

lock == INSTANCE Mutex

Absent == [present |-> FALSE, addr |-> 0]
EmptyTable == [i \in 0 .. Fan - 1 |-> Absent]

\* `op` is the API call, `step` the locked call it is at, `page` .. `page`+n-1
\* the pages left, `to` and `addr` the target page and frame, `readable`
\* whether the flags include MAP_READ; `level` and `table` are the walk's, and
\* `fresh` is the table it has allocated and not yet linked.
Steps == {"map", "unmap", "setflags", "lookup"}
Calls == [op : Steps \cup {"remap"}, step : Steps, page : Nat, to : Nat,
          addr : Frames \cup {None}, n : Nat, readable : BOOLEAN,
          level : 1 .. Levels, table : TableFrames \cup Foreign,
          fresh : TableFrames \cup {None}]

NoCall == [op |-> "lookup", step |-> "lookup", page |-> 0, to |-> 0, addr |-> None,
           n |-> 0, readable |-> TRUE, level |-> Levels, table |-> Root, fresh |-> None]

\* Types; a lookup returns a frame, -1 or a page of the firmware, never a table.
TypeOK ==
    /\ tab \in [TableFrames \cup Foreign ->
                  [0 .. Fan - 1 -> [present : BOOLEAN, addr : TableFrames \cup Frames \cup Foreign]]]
    /\ used \subseteq TableFrames
    /\ pc \in [Threads -> {"idle", "wait", "walk", "link", "next", "return"}]
    /\ call \in [Threads -> Calls]
    /\ result \in [Threads -> Frames \cup Foreign \cup {None, SYSTEM_OK}]
    /\ lock!MutexTypeOK

Init ==
    /\ tab = [f \in TableFrames \cup Foreign |->
                 IF f \in Foreign THEN Firmware[f] ELSE EmptyTable]
    /\ used = {Root}
    /\ pc = [t \in Threads |-> "idle"]
    /\ call = [t \in Threads |-> NoCall]
    /\ result = [t \in Threads |-> SYSTEM_OK]
    /\ lock!Init

\* GET_PML_ENTRY.
Index(v, l) == (v \div Fan ^ (l - 1)) % Fan

\* The page the locked call works on, and the entry its walk is at.
Page(t) ==
    IF call[t].op = "remap" /\ call[t].step = "map" THEN call[t].to ELSE call[t].page
Slot(t) == Index(Page(t), call[t].level)
Entry(t) == tab[call[t].table][Slot(t)]

\* The steps that call virtual_to_entry() with allocate.
Allocates(t) == call[t].step \in {"map", "setflags"}

-----------------------------------------------------------------------------
(* virtual_to_entry(), one get_next_lvl() at a time, with lock_ held *)

Enter_NoLock(t) ==
    /\ pc[t] = "wait"
    /\ inside' = inside \cup {t}
    /\ pc' = [pc EXCEPT ![t] = "walk"]
    /\ call' = [call EXCEPT ![t].level = Levels, ![t].table = Root]
    /\ UNCHANGED <<tab, used, result, asked, ahead>>
Enter(t) ==
    /\ pc[t] = "wait"
    /\ lock!Enter(t)
    /\ pc' = [pc EXCEPT ![t] = "walk"]
    /\ call' = [call EXCEPT ![t].level = Levels, ![t].table = Root]
    /\ UNCHANGED <<tab, used, result>>

Descend(t, f) ==
    /\ pc[t] = "walk"
    /\ call[t].level > 1
    /\ call' = [call EXCEPT ![t].level = @ - 1, ![t].table = f]
    /\ UNCHANGED <<pc, result, lvars>>

Follow(t) ==
    /\ Entry(t).present
    /\ Descend(t, Entry(t).addr)
    /\ UNCHANGED <<tab, used>>

\* The entry is tested and a table allocated.  physical_allocate() panics, and
\* the machine stops, when no frame is left.
AllocateTable(t) ==
    LET f == Min(TableFrames \ used)
    IN  /\ pc[t] = "walk"
        /\ call[t].level > 1
        /\ ~Entry(t).present
        /\ Allocates(t)
        /\ TableFrames \ used # {}
        /\ used' = used \cup {f}
        /\ pc' = [pc EXCEPT ![t] = "link"]
        /\ call' = [call EXCEPT ![t].fresh = f]
        /\ UNCHANGED <<tab, result, lvars>>

\* The entry is set, whatever it holds by now.
LinkTable(t) ==
    /\ pc[t] = "link"
    /\ tab' = [tab EXCEPT ![call[t].table][Slot(t)] =
                             [present |-> TRUE, addr |-> call[t].fresh]]
    /\ call' = [call EXCEPT ![t].level = @ - 1, ![t].table = call[t].fresh,
                            ![t].fresh = None]
    /\ pc' = [pc EXCEPT ![t] = "walk"]
    /\ UNCHANGED <<used, result, lvars>>

NoTable(t) ==
    /\ ~Entry(t).present
    /\ ~Allocates(t)
    /\ Descend(t, ZeroPage)
    /\ UNCHANGED <<tab, used>>

-----------------------------------------------------------------------------
(* The locked calls, from the entry to the end of the guard *)

\* The next locked call of a remap, the next page of a loop, or the end.
Continue_Addr(t) ==
    LET c == call[t]
        last == c.op # "remap" \/ c.step = "map"
    IN  IF ~last
        THEN /\ pc' = [pc EXCEPT ![t] = "next"]
             /\ call' = [call EXCEPT
                    ![t].step = IF c.step = "lookup" THEN "unmap" ELSE "map",
                    ![t].addr = IF c.step = "lookup" THEN result'[t] ELSE c.addr]
        ELSE IF c.n > 1
        THEN /\ pc' = [pc EXCEPT ![t] = "next"]
             /\ call' = [call EXCEPT
                    ![t].step = IF c.op = "remap" THEN "lookup" ELSE c.op,
                    ![t].page = c.page + 1, ![t].to = c.to + 1, ![t].n = c.n - 1,
                    ![t].addr = c.addr + 1]
        ELSE /\ pc' = [pc EXCEPT ![t] = "return"]
             /\ UNCHANGED call
Continue(t) ==
    LET c == call[t]
        last == c.op # "remap" \/ c.step = "map"
    IN  IF ~last
        THEN /\ pc' = [pc EXCEPT ![t] = "next"]
             /\ call' = [call EXCEPT
                    ![t].step = IF c.step = "lookup" THEN "unmap" ELSE "map",
                    ![t].addr = IF c.step = "lookup" THEN result'[t] ELSE c.addr]
        ELSE IF c.n > 1
        THEN /\ pc' = [pc EXCEPT ![t] = "next"]
             /\ call' = [call EXCEPT
                    ![t].step = IF c.op = "remap" THEN "lookup" ELSE c.op,
                    ![t].page = c.page + 1, ![t].to = c.to + 1, ![t].n = c.n - 1,
                    ![t].addr = IF c.op = "map" THEN c.addr + 1 ELSE c.addr]
        ELSE /\ pc' = [pc EXCEPT ![t] = "return"]
             /\ UNCHANGED call

\* The walk of a call of kind `step` is at its last table.
AtEntry(t, step) == pc[t] = "walk" /\ call[t].level = 1 /\ call[t].step = step

Finish_NoUnlock(t, entry, value) ==
    /\ tab' = [tab EXCEPT ![call[t].table][Slot(t)] = entry]
    /\ result' = [result EXCEPT ![t] = value]
    /\ Continue(t)
    /\ UNCHANGED <<used, lvars>>
Finish(t, entry, value) ==
    /\ tab' = [tab EXCEPT ![call[t].table][Slot(t)] = entry]
    /\ result' = [result EXCEPT ![t] = value]
    /\ lock!Leave(t)
    /\ Continue(t)
    /\ UNCHANGED used

\* map_page(): the entry is written anew.
MapPage(t) ==
    /\ AtEntry(t, "map")
    /\ Finish(t, [present |-> TRUE, addr |-> call[t].addr], SYSTEM_OK)

\* unmap_page().
UnmapPage(t) ==
    /\ AtEntry(t, "unmap")
    /\ Finish(t, Absent, SYSTEM_OK)

\* setflags_page(): the address is kept.
SetFlagsPage_Reset(t) ==
    /\ AtEntry(t, "setflags")
    /\ Finish(t, [present |-> call[t].readable, addr |-> 0], SYSTEM_OK)
SetFlagsPage(t) ==
    /\ AtEntry(t, "setflags")
    /\ Finish(t, [present |-> call[t].readable, addr |-> Entry(t).addr], SYSTEM_OK)

\* virtual_to_physical().
VirtualToPhysical_Address(t) ==
    /\ AtEntry(t, "lookup")
    /\ Finish(t, Entry(t), Entry(t).addr)
VirtualToPhysical(t) ==
    /\ AtEntry(t, "lookup")
    /\ Finish(t, Entry(t), IF Entry(t).present THEN Entry(t).addr ELSE None)

\* The caller gets its result.
Return(t) ==
    /\ pc[t] = "return"
    /\ pc' = [pc EXCEPT ![t] = "idle"]
    /\ call' = [call EXCEPT ![t] = NoCall]
    /\ result' = [result EXCEPT ![t] = SYSTEM_OK]
    /\ UNCHANGED <<tab, used, lvars>>

\* The next locked call of remap_page() or of a *_pages() loop.
Resume(t) ==
    /\ pc[t] = "next"
    /\ lock!Ask(t)
    /\ pc' = [pc EXCEPT ![t] = "wait"]
    /\ UNCHANGED <<tab, used, call, result>>

-----------------------------------------------------------------------------
(* The calls; map_page() and the other single-page calls are n = 1 *)

\* The table of each level on the processor's walk to page v, and the frame it
\* ends at.
EntryIn(f, v, l) == IF f = None THEN Absent ELSE tab[f][Index(v, l)]
Target(e) == IF e.present THEN e.addr ELSE None
TablesOf(v) ==
    LET T[l \in 1 .. Levels] ==
            IF l = Levels THEN Root ELSE Target(EntryIn(T[l + 1], v, l + 1))
    IN  T
EntryOf(v) == EntryIn(TablesOf(v)[1], v, 1)
Translation(v) == Target(EntryOf(v))

Own(t, v, n) == \A w \in v .. (v + n - 1) : w \in Pages /\ Owner[w] = t

Start(t, c) ==
    /\ pc[t] = "idle"
    /\ lock!Ask(t)
    /\ pc' = [pc EXCEPT ![t] = "wait"]
    /\ call' = [call EXCEPT ![t] = c]
    /\ UNCHANGED <<tab, used, result>>

MapPages(t, v, f, n) ==
    /\ Own(t, v, n)
    /\ \A g \in f .. (f + n - 1) : g \in Frames /\ FrameOwner[g] = t
    /\ Start(t, [NoCall EXCEPT !.op = "map", !.step = "map", !.page = v,
                               !.addr = f, !.n = n])

UnmapPages(t, v, n) ==
    /\ Own(t, v, n)
    /\ Start(t, [NoCall EXCEPT !.op = "unmap", !.step = "unmap", !.page = v, !.n = n])

\* Callers change the flags of pages they mapped.
SetFlagsPages(t, v, n, readable) ==
    /\ Own(t, v, n)
    /\ \A w \in v .. (v + n - 1) : EntryOf(w).addr # 0
    /\ Start(t, [NoCall EXCEPT !.op = "setflags", !.step = "setflags", !.page = v,
                               !.n = n, !.readable = readable])

\* And move pages that are mapped elsewhere.
RemapPages(t, v, w, n) ==
    /\ v # w /\ Own(t, v, n) /\ Own(t, w, n)
    /\ \A x \in v .. (v + n - 1) : Translation(x) # None
    /\ Start(t, [NoCall EXCEPT !.op = "remap", !.step = "lookup", !.page = v,
                               !.to = w, !.n = n])

Lookup(t, v) ==
    /\ Own(t, v, 1)
    /\ Start(t, [NoCall EXCEPT !.page = v, !.n = 1])

Call(t) ==
    \/ \E v \in Pages, n \in 1 .. 2 : \E f \in Frames : MapPages(t, v, f, n)
    \/ \E v \in Pages, n \in 1 .. 2 : UnmapPages(t, v, n)
    \/ \E v \in Pages, n \in 1 .. 2, r \in BOOLEAN : SetFlagsPages(t, v, n, r)
    \/ \E v, w \in Pages, n \in 1 .. 2 : RemapPages(t, v, w, n)
    \/ \E v \in Pages : Lookup(t, v)

Proceed(t) ==
    \/ Enter(t) \/ Follow(t) \/ AllocateTable(t) \/ LinkTable(t) \/ NoTable(t)
    \/ MapPage(t) \/ UnmapPage(t) \/ SetFlagsPage(t) \/ VirtualToPhysical(t)
    \/ Resume(t) \/ Return(t)

Next == \E t \in Threads : Call(t) \/ Proceed(t)

Spec == Init /\ [][Next]_vars

\* A processor inside a call keeps executing.
FairSpec == Spec /\ \A t \in Threads : WF_vars(Proceed(t))

-----------------------------------------------------------------------------
\* The tables form a tree over the pages: two pages share a table exactly when
\* it covers both, no table serves at two levels, and every table allocated is
\* in the tree or about to be linked by the call that allocated it.
\* (get_next_lvl, called by two threads for pages below the same missing table.)
TablesFormTree ==
    LET T == [v \in AllPages |-> TablesOf(v)]
        fresh == {call[t].fresh : t \in {u \in Threads : pc[u] = "link"}}
    IN  /\ \A v, w \in AllPages, l, k \in 1 .. Levels :
              T[v][l] # None /\ T[w][k] # None =>
                 (T[v][l] = T[w][k] <=> l = k /\ v \div Fan ^ l = w \div Fan ^ l)
        /\ used = ({T[v][l] : v \in AllPages, l \in 1 .. Levels} \ {None}) \cup fresh

\* virtual_to_physical() returns the frame the processor would use, and -1 for
\* a page without one, where the page's tables exist.  Where one is missing the
\* walk continues in physical page 0 and the result is -1 or an address found
\* in the firmware's pages: a page that is not mapped may look mapped, but
\* never to a frame or a table.
LookupsAgree ==
    [][\A t \in Threads :
          AtEntry(t, "lookup") /\ pc'[t] # "walk" =>
              IF TablesOf(Page(t))[1] # None
              THEN result'[t] = Translation(Page(t))
              ELSE result'[t] \in Foreign \cup {None}]_vars

\* Every call returns.
CallsReturn == \A t \in Threads : pc[t] # "idle" ~> pc[t] = "idle"

\* PageMap implements AddressSpace: at every moment of every interleaving, an
\* entry changes only when the call of its page's owner is served, to the frame
\* that call gave, to none, or, when only flags change, keeping its frame.
Request(t) ==
    IF pc[t] \in {"wait", "walk", "link", "next"}
    THEN [op |-> call[t].step, page |-> Page(t), frames |-> {call[t].addr} \ {None},
          readable |-> call[t].readable]
    ELSE [op |-> "none", page |-> None, frames |-> {}, readable |-> TRUE]
Behind(e) == IF e.present \/ e.addr = 0 THEN None ELSE e.addr
Mapped == INSTANCE AddressSpace WITH
    Callers <- Threads, Pages <- AllPages,
    space <- [v \in AllPages |-> Translation(v)],
    hidden <- [v \in AllPages |-> Behind(EntryOf(v))],
    request <- [t \in Threads |-> Request(t)]
ImplementsAddressSpace == Mapped!Spec
=============================================================================
