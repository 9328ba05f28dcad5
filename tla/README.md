# A TLA+ model of the Phoebe kernel's core

Phoebe is a small amd64 kernel: C++ code under `kernel/`, a freestanding C library under `libc/`, booted by
Limine. This directory holds TLA+ modules for the parts that carry its state, the TLC configurations that
model-check them, and TLAPS proofs, for every value of the constants, about the lock, physical memory, the buddy
allocator, the page tables, virtual memory and the console. `PROJECT.json` lists the runs, the source lines behind every definition, the hazards the properties
are aimed at, and the findings.

Run from this directory: `tlc -workers 2 -config MCBuddy.cfg MCBuddy`, `tlapm BuddyProofs.tla`.

## 1. Inventory of the system

| component | source | state | operations |
|---|---|---|---|
| ticket lock | `kernel/include/lock.hpp` | `next_ticket_`, `serving_ticket_` | `lock`, `unlock`, `try_lock`, `is_locked`; `ScopedLock` |
| physical memory | `kernel/memory/physical.cpp`, `include/libs/bitmap.hpp` | bitmap, `bitmap_last_index`, `phys_stats`, `phys_lock` | `physical_initialize`, `physical_allocate`, `physical_free`, `physical_get_status` |
| buddy allocator | `kernel/memory/buddy_alloc.h` | tree of statuses in a bitset, memory size, order | init, embed, malloc, calloc, realloc, free, safe_free, reserve, walk, resize, queries |
| heap | `kernel/memory/heap.cpp` | the buddy allocator, `heap_lock` | `heap_init`, `heap_malloc`, `heap_calloc`, `heap_realloc`, `heap_free` |
| page tables | `kernel/arch/amd64/memory/paging.cpp` | the tables below `top_lvl_`, `lock_` | `virtual_to_physical`, map, unmap, setflags, remap (a page or many), `load`, `save` |
| virtual memory | `kernel/memory/virtual.cpp` | the current `PageMap` | `virtual_initialize`, `virtual_allocate`, `virtual_free` |
| UART, streams, logger | `kernel/arch/amd64/drivers`, `kernel/logger.cpp` | the registers of a 16550, `stdout`, `stderr` | initialise and self test, write a character, log, panic |
| boot, CPU tables, handlers | `kernel/main.cpp`, `kernel/arch/amd64/cpu`, `kernel/libs/trace.c` | GDT, IDT, interrupt flag | set up at boot; every handler prints and stops |
| C library | `libc/` | none beyond its arguments | print, string, memory and number functions |

Interactions. Every lock in the kernel is a ticket lock taken through a `ScopedLock`. `heap_init` asks
`virtual_allocate` for the heap's range; that takes frames from `physical_allocate` and maps them with
`PageMap::map_page`, which takes frames for missing tables from `physical_allocate` too, with `lock_` held. The
heap then runs the buddy allocator inside that range under `heap_lock`. `log_panik` prints and stops the processor
whatever it holds. Everything printed goes character by character through `uart::putc`, which an exception or an
interrupt can come between. There are no messages and no persistence: what is hard is concurrency on shared tables,
in-place algorithms over bits and words, interruption of the driver, and boundaries.

What makes each part correct:

* lock: exclusion, first come first served, no release lost although `unlock` tests and increments in several
  operations, no starvation, all across the wrap of the counters;
* physical memory: every managed page is free or in exactly one block, the statistics agree, a panic means that
  memory is really exhausted, the bitmap has a bit for every page;
* buddy allocator: the incrementally maintained statuses stand for the blocks in use, stray frees have no effect,
  NULL means no room, the loops end, blocks never overlap, and a resize loses nothing;
* page tables: the tables form a tree whatever two processors build at the same time, a call changes the
  translation of its page only, a lookup tells what the processor would use;
* virtual memory: a range handed out was unmapped, every frame has an owner, nothing is mapped over;
* console: output on a working line is complete and in order, a panic is printed to its end, no wait is for ever;
* C library: the word loops, the unrolled comparison, the overflow tests and the format interpreter do what the
  plain definition of the function says.

## 2. Modules

| module | models | composes |
|---|---|---|
| `Mutex` | what a lock promises: exclusion and service in order of request | - |
| `TicketLock` | `lock::TicketLock`, one step per atomic operation, with the discipline of `ScopedLock` | implements `Mutex` |
| `PhysicalMemory` | `physical_initialize/allocate/free` with the bitmap | uses `Mutex` as `phys_lock` |
| `BlockAllocator` | what a heap promises: disjoint blocks inside the arena | - |
| `Buddy` | init, malloc, calloc, realloc, free, safe_free, one step per iteration of a tree loop | implements `BlockAllocator` |
| `BuddyBits` | the statuses in the bitset, the moves of bits | - |
| `BuddyResize` | `buddy_resize`, range reservations, `buddy_walk` and the arena queries on the bits | extends `BuddyBits` |
| `AddressSpace` | what page tables promise: a map from pages to frames that changes one page at a time | - |
| `PageMap` | `memory::PageMap` on 4 KiB pages, one step per table of a walk | uses `Mutex` as `lock_`, implements `AddressSpace` |
| `VirtualMemory` | `virtual_allocate` and `virtual_free`, one step per iteration | uses `AddressSpace` as the page map |
| `Console` | the kernel from its entry to its halt on the serial line: driver, streams, logger, CPU set-up, handlers, with the device | - |
| `Loops` | the repetition of a loop's body, and where a search stops | - |
| `MemoryFunctions` | `memcpy`, `memmove`, `memset`, `memcmp` with their word loops | extends `Loops` |
| `StringFunctions` | `strlen` ... `strncmp` | extends `MemoryFunctions` |
| `NumberParsing` | `strtol`, `strtoul`, `strtoll`, `strtoull`, `atoi`, `atol`, `atoll`, `atou` | extends `Loops` |
| `Printing` | `vsnprintf`: the format interpreter and the printing of integers | extends `NumberParsing` |
| `Libc` | calls of these functions, and what their callers rely on | extends the four above |
| `TicketLockProofs`, `PhysicalMemoryProofs`, `PageMapProofs`, `VirtualMemoryProofs`, `ConsoleProofs` | theorems | extend their components |
| `BuddyProofs` | theorems: the tree is consistent; what the tree says about the blocks | extends `Buddy` |
| `BuddyResizeProofs` | theorems: the bits stand for the blocks through every call and resize; the queries are right | extends `BuddyResize` |
| `LibcProofs` | theorems: the copies of the C library copy, its comparisons compare, its numbers are read right and plain printed numbers read back | extends `Libc` |
| `MC*` | constants for TLC | extend one component |

So the layers meet at abstract specifications: a component above uses the abstract module of the one below, and
the one below is shown to implement it.

Definitions named `X_Something` stand next to `X` and are plausible mistakes in the code `X` models (a dropped
guard, a missing reset, a wrong bound). No specification uses them; replacing `X` by one of them makes the property
`PROJECT.json` pairs it with fail, which shows that the property depends on that code.

### How state and actions correspond to the code

**TicketLock.** `next_ticket` and `serving_ticket` are the two atomics modulo `Modulus` (2^64 in the kernel).
`FetchAdd` is the `fetch_add` of `lock`, `SpinEnter` the last iteration of its loop; `LoadServing`/`LoadNext` are
the two loads of `is_locked`, which `try_lock` and `unlock` call; `UnlockLoad` and `UnlockStore` are the two
operations of the increment in `unlock`. Relaxed loads return the current value in the model. That is sound for
`serving_ticket_`, which only the holder writes; for the loads of `try_lock` and the waiters an older value only
delays or refuses, which other interleavings do as well. `Forget` drops the locals when a guard has ended.

**PhysicalMemory.** Addresses are page numbers, `avail` is the set of free bits. `ScanEntry` is one turn of
the first loop of `physical_initialize`, which counts the usable pages and finds the highest; `Initialize` is the rest
of that function (one processor, before anything else): it places the bitmap in the first usable
entry that is large enough, fills it and frees the other usable pages, with the code's truncating division for the
size and its byte count in the `memset`. A call waits for `phys_lock`, works on the bitmap (`AllocateScan` finds the
run and moves `bitmap_last_index`, `AllocateMark` sets its bits; `FreeClear`) and then on the counters
(`AllocateReturn`, `FreeReturn`). Without the lock two scans find the same run before either marks it. `Candidates` is the scan from
`bitmap_last_index` and the second scan after it. Failed assertions and panics are states that hold the lock and
stay (`Halt`).

**Buddy.** `st` is the status of every position, `live` the blocks callers own. `pc` says which loop runs: masking
the missing slots at init (`Toggle*`), the parent chain (`Climb`), the search (`SearchDown`), the lookup of an
address (`LookupUp`). `Free` and `SafeFree` take any slot of the arena, not only blocks: the kernel trusts its
callers, the allocator does not. `Realloc` takes blocks the caller owns: `buddy_realloc` goes on after a release that was
refused, which its comment calls "a bug in caller", and would mark a partly used position if the search then fails
(lines 945-952). What the run and the theorems say of every sequence of calls is said of these callers. The allocator's calls run one at a time, as `heap_lock` makes them. Addresses and
sizes count slots of `alignment` bytes, so the tests of unaligned addresses are not modelled.

**BuddyBits, BuddyResize.** The bitset is the set of the bits that are set; ranges replace the byte masks, and the
memoised `size_for_order` table is its formula. The rows are moved one after the other in one bitset, as the code
does, with its ranges as they are written (one bit too many to the right, a trailing clear at a fixed place to the
left). `malloc` takes any free position, since `Buddy` has the choice. `ReserveRange` and `ReleaseRange` mark and
release slot by slot at the deepest positions; a release leaves slots alone that belong to larger blocks, as
`buddy_tree_release` does. `BuddyWalk` is the sequence of blocks the callback of `buddy_walk` is given. The loops
(`update_parent_chain`, `buddy_toggle_virtual_slots`, the moves of rows, the walk) are functions of the number of turns,
each turn an operator of its own (`ChainTurn`, `VirtualTurn`, `WalkTurn`); the bound on the turns is part of what is
proved.

**PageMap.** A table is a function from indices to entries, an entry its present bit and its frame. A call waits
for `lock_` (`Enter`), walks (`Follow`, `AllocateTable` and `LinkTable`, `NoTable`) and does its work on the last entry
(`MapPage`, ...) as it drops the lock. `Continue` and `Resume` are the loops of the `*_pages` calls and the three
parts of `remap_page`, each with the lock of its own. Where a table is missing and none is to be allocated, the
walk continues in physical page 0, because `to_higher_half(nullptr)` is not null. Page 0 holds what the firmware left there (`Firmware`), walks follow
its entries, and `unmap_page` clears one. `FirmwareOK` assumes that such entries lead to pages of the firmware and that none
looks large; were there one that leads to a frame of the kernel, an unmap of a page without tables would clear memory in use.
`AllocateTable` tests the entry and takes a frame, `LinkTable` writes the entry: the race this would be without `lock_` can
happen in the model (`Enter_NoLock`). Callers map with `MAP_READ`, use pages and frames of their own, and change the
flags of or move pages they mapped. `physical_allocate` gives zeroed frames for tables; a walk that finds no frame left
stays where it is, as the panic of `physical_allocate` would have it. What implements `AddressSpace` is the translation, the
frame kept behind a page that is not readable, and the call of each thread: in `AddressSpace` only the call of the page's
owner changes a page, only to the frame that it gives, and a change of flags keeps the frame.

**VirtualMemory.** `space` is the page map, `taken` the frames in use. `MapNext` takes a frame and maps the page to
that frame plus `i`, as line 154 does; `FreeNext` never advances the address, as line 190 does not. A request may be
empty or larger than the range. The scan reads the entries of pages without tables in physical page 0, so a page that is not
mapped may look mapped (`Ghosts`), each time or not; from `limit` on the kernel's image is mapped. A multiplication or
subtraction that wraps the address space is left out (`RangeOK`).

**Console.** `cpu.todo` is what the kernel has still to do: pieces to print and instructions. `kernel_main` is that
sequence for the start, `log_panik` and the handlers replace it, because none of them returns. A piece stands for the
text of one `fprintf` or `fputs`; it is printed by `PutWait` (the loop that reads the line status) and `PutWrite`, and
`Raise` can come before, between and after them. `uart` is the device: latch, FIFO, loopback and receive buffer, as
the firmware left it or absent. `InitializeWrite` and `InitializeTest` are the register accesses of
`uart::initialize` one by one. `owed` and `line` are history: what was written to a working device and has not left
it, and the last piece the other end received. One processor runs; the kernel starts no other.

**Libc and its modules.** The functions keep no state, so a call is one action that leaves its result, and the
properties compare it with a definition that knows neither words nor alignment. Addresses are numbers modulo `SIZE`,
a word is a function of its bytes, and every loop of a function is the repetition of its body (`Loop`), one turn per
iteration, or the first place where it stops (`First`). Integers have the width their constants give (`ULONG_MAX`, `UINT_MAX`, ...), text is a sequence of
character codes, and a format is interpreted position by position, so that an end inside a specification is seen.

## 3. Runs

| run | expects | shows |
|---|---|---|
| `ticket_lock` | pass | exclusion, the outstanding tickets are the window between the counters and the holder's reads stay true (`TicketsInOrder`), every call returns, and `TicketLock` implements the fair `Mutex` |
| `physical_memory` | pass | every page once, statistics agree, a single-page panic means no page is free, calls return or the kernel stopped |
| `physical_boot_memset` | violation | finding 1 |
| `physical_false_panic` | violation | finding 2 |
| `buddy` | pass | statuses within their bits, the allocator's own consistency check at every loop step, loop invariants, statuses stand for the blocks, stray frees miss, NULL means no room, calls return, and `Buddy` implements `BlockAllocator` |
| `buddy_resize` | pass | the bits stand for the blocks through growth and resizes within an order, single-bit tests agree with counts, `buddy_walk` visits the blocks in use, each once and in order, and no free slot, `buddy_is_free` and `buddy_is_empty` overlook no block but in the last slot of a power of two, and `buddy_is_full` and `buddy_arena_free_size` are exact |
| `buddy_shrink` | violation | finding 3 |
| `page_map` | pass | tables form a tree, lookups are exact where the page's tables exist and otherwise give -1 or an address of the firmware, calls return, and `PageMap` implements `AddressSpace`: a call changes the translation of its own page only, to the frame it was given, and a change of flags keeps the frame |
| `virtual_memory` | pass | no mapping is replaced, frames taken and pages mapped agree at every step, no range reaches behind `limit`, nullptr means that every start the loop tries was ruled out, for requests of no page up to more than fit; calls return or the kernel stopped |
| `virtual_memory_frames` | violation | finding 4 |
| `libc` | pass | copies write exactly the bytes they should, with the values from before the call, `memset` these and exactly `Overrun` more, and `memcpy` and `memmove` read no word outside their operands' words (`CopiesAgree`); `memcmp` and `strncmp` answer by the first difference (`ComparesAgree`); numbers are the value of the digits behind white space, sign and `0x`, or the limit, the place where the digits begin being defined by the form of the text and not by the functions' steps (`NumbersAgree`, `Begins`); `snprintf` prints what the C standard asks for (`PrintsAgree`) |
| `console` | pass | with a device that passed its self test all output leaves in order and readable, a panic ends with its last line sent and the processor halted with interrupts off, and the kernel gets to its halt whatever the device |

### Findings

1. `physical.cpp:72` fills the bitmap with a number of bytes that is its number of bits: eight times too many.
2. `physical.cpp:160` rescans only up to the old position; a free run across it is missed and the kernel panics
   with memory left. A single page is never missed (`SinglePagePanicMeansFull`).
3. `buddy_alloc.h:2404` clears bits counted from the start of the bitset; shrinking an arena of four slots or more
   by an order marks blocks in use as free. The kernel does not call `buddy_resize` today.
4. `virtual.cpp:154` maps every page but the first of a range to a frame that was not allocated for it.

Seen while modelling and not given a run of its own; the models do as the code does, and the properties say so or are stated
around it:

* `physical.cpp:58` divides before it aligns up: if the top of memory is a few pages past a multiple of 32768
  pages, the last pages have no bit and `assert(__index < this->size_)` fails. One memory map of `physical_memory`
  has such a page and ends in `Halt`.
* `paging.cpp:187` never returns null, so the null tests behind it are dead, and lookups and unmaps of a page without a
  table walk on in physical page 0, whatever the firmware left there. Unmapping such a page clears an entry of that memory
  and reports success; `virtual_to_physical` may return an address for a page that has none (`LookupsAgree`), and
  `virtual_allocate` may take a free page for a used one (`Ghosts`).
* `virtual_free` frees only the first page of a range.
* `buddy_walk` visits the slots in use only: the comment at `buddy_alloc.h:150` says "free and allocated slots", and the
  callback takes an `allocated` flag that is always 1 (lines 1145 and 1159). `QueriesAgree` says what the code does, and
  the comment is wrong.
* `buddy_is_free` does not test the last slot of a power of two and says free whatever is in it, and with an odd number of
  slots it answers no for an empty arena (`QueriesAgree` says the first and is one-sided because of the second).
* `buddy_realloc` of a pointer that is no block ignores the refused release (line 945) and may mark a partly used position.
* `memset.c:28` decrements `len`, which is assigned afterwards, where `length` is meant: a fill of eight bytes or more
  from an unaligned address writes up to seven bytes too many; so does `strncpy` when it pads (`CopiesAgree`
  says exactly how many, `Overrun`: the bytes before the first word boundary). Apart from `strncpy`, the callers in src/ fill
  from aligned addresses.
* `strcmp.c:14` compares a byte of one string with the byte before it of the other and returns 0 or 1, so only "equal"
  can be relied on (`ComparesAgree`); `strnlen` can return `maxlen + 1`.
* `strtol("0x", ...)` leaves `*endptr` at the start.
* `print.c`: `%#.0b` of 0 prints `0b`; a NULL string prints padding only; digits, zeros and sign beyond
  `INTEGER_BUFFER_SIZE` characters are dropped (`FitsIntegerBuffer`); a format that ends in a flag, a digit or `I16` is
  read past its terminator (`PrintsAgree` names the characters). `putc.c:17` does not stop at the end of the buffer; the
  buffer of the model is always large enough.
* `uart.cpp:40` writes the FIFO control register where the interrupt enable register is meant; `uart.cpp:61` reads the
  test byte back without waiting, and `drivers.cpp:33` ignores the failure, so the console can stay silent in
  loopback mode. `OutputInOrder` and `PanicPrinted` therefore speak of a device that passed its test, `KernelHalts` of
  every device.
* `idt.cpp:84` compares the error code with the vector of a page fault, so the dump of a page fault appears with other
  exceptions and practically never with its own; `idt.cpp:104` falls through and the breakpoint gate gets privilege 0.

### Bounds, and why they are enough

* `ticket_lock`: three threads and four tickets. With a modulus one above the number of threads the counters
  wrap constantly and the window gets as full as it can; three threads give a holder, a waiter and a newcomer.
* `physical_memory`: two processors, requests of one and two pages, four memory maps: with holes, with a first
  entry that the bitmap fills, with the highest page just past what the bitmap covers. A page has two bytes, so a
  page of bitmap covers 16 pages and the rounding cases happen.
* `buddy`: a tree of eight leaves with three slots missing, so that masking takes several marks of different
  sizes; sizes of 0, 1, 2, 3 and 5 slots, the last always too large. Seven slots of eight (50342 states) and nine
  of sixteen (124520 states, sizes 0, 1, 3, 5) pass as well.
* `buddy_resize`: arenas of two to seven slots, orders two to four, growth by zero, one and two orders, ranges of one
  to three slots.
  Callers here do not shrink the order of the tree, which `buddy_shrink` is about.
* `page_map`: two levels of two entries; pages 0 and 1 of two threads share a last table, pages 1 and 2 of one
  thread do not, so ranges of two pages cross tables. There are frames for every table, and the entry of physical page 0 for
  pages 0 and 1 looks present and leads on. More levels repeat the same step. The mutants are caught by single pages and by the
  calls of two threads; that a loop of `map_pages` keeps frames and pages in step is what the proof says for every size.
* `virtual_memory`: five pages and three frames, ranges of no, one and two pages and of one more than the range has: both
  the range and the memory run out. The last page may look mapped without being so.
* `console`: every state in which the firmware can leave the device, a FIFO of two characters, and two exceptions
  inside each other; more exceptions repeat the replacement of `cpu.todo`.
* `libc`: words of four bytes. The lengths go past two turns of the unrolled loop of `memcmp` and past the threshold,
  with an odd and an even number of words; source and destination take every alignment and overlap by every
  distance. Integers are small, so that numerals of few digits pass every limit on both sides, and the formats
  combine all flags with widths and precisions below, at and above the length of the number.

### Fairness

Weak fairness of the steps inside a call, per processor: the kernel has no scheduler, a processor inside a call
runs until it returns or halts. Calls themselves are never assumed to be made. `TicketLock` in addition assumes
that a guard ends (a panic inside a guard is the business of the modules that can panic). Waiting for a lock needs
no strong fairness, because the lock is served in order: `Refinement` proves the order, the run `ticket_lock` checks
the liveness, and the modules that take a lock use `Mutex`. After a panic or a failed assertion
with the lock held the others wait for ever, and `CallsReturn` says so. `Console` assumes that the device sends what it
holds and that the processor goes on; exceptions, interrupts and panics are never assumed to happen.

## 4. Theorems

Eight modules hold theorems, most of the form `Spec => ...`, some about the operators the models are built from, for every value of the constants. Nothing is assumed but
the named assumptions on constants, and in `BuddyResizeProofs` the hypothesis `KeepsOrder`; TLC evaluates them in the
runs. Every inductive invariant was checked by TLC on
the instance of its component's run before it was proved.

**TicketLockProofs**, for any finite set of threads and any modulus above their number (`ThreadsFinite`,
`TicketsSuffice`). The inductive invariant is `TypeOK /\ TicketWindow /\ HolderReadsAreFresh`. Exclusion alone is not
inductive: that the holder is the only one follows from its ticket being the one served and all outstanding tickets
being different, and that in turn needs the counters to be exactly as far apart as there are outstanding tickets
(`TicketWindow`), or the wrap could bring a ticket round again. `HolderReadsAreFresh` is needed because `unlock`
writes what it read earlier. From it: `TypeCorrect`, `Exclusion`, `InOrder`, `Releases` (the early return of `unlock` is never
taken by a holder) and `Refinement` (`TicketLock` implements `Mutex`, its safety part).

**PhysicalMemoryProofs**, for any memory map that ascends without overlap, leaves page 0 alone and has usable memory
(`MemMapsOK`, what Limine guarantees), any page size, processors and request sizes. `EveryPageOnce` and
`SinglePagePanicMeansFull` are in the invariant themselves. The others they need: `ScanInv` (the loop over
the memory map has counted exactly the pages it went through, else `free_pages` starts wrong), `BootInv` and `HoldInv`
(who works on the bitmap is alone with it), `MarkInv` (the run a scan found is still free when its bits are set) and
`StatsInv`, since between the change of the bitmap and the change of
the counters the two differ by the block in hand. That `phys_lock` has one holder is not inductive either; that its
callers stand in a line is (`LockInv`, here and in `PageMapProofs`). From it: `PagesOwnedOnce`, `CountersNeverWrap`, `StatsExact`,
`OnePagePanic`.

**BuddyProofs**, for any tree and arena (`TreeOK`, `GeometryOK`, `SizesOK`: the tree is complete and the arena
fills more than half of it). The invariant is `TypeOK /\ TreeConsistent /\ LoopInvariant /\ LiveAreBlocks`.
`TreeConsistent` is the check the allocator itself performs (`buddy_tree_check_invariant`); in the middle of a
climb it fails at exactly one position, and `LoopInvariant` says what each loop relies on: the search has room below
it, the lookup comes from a free child, the mask's next position is free. From it: `Invariant`, `TypeCorrect`,
`Consistent`, `Loops`.

The second half of the module says what a consistent tree means. A position is `Marked` when it is full over free
children. `BlockInv` adds that owned blocks lie apart in the arena, that marks are the owned
blocks and the masks of the missing slots, no more and no less, and that no mark hides what a loop in progress works
on. A realloc is the hard case: between its release and its new block the old one is owned and not marked. From it:
`StatusTellsRoom` (each status is the recomputation from the blocks; by induction up the tree, as the least
counterexample), `StrayFrees`, `NullIsHonest` and the refinement `TreeImplementsBlocks`.

**BuddyResizeProofs**, for an arena of any size, any sizes of blocks and ranges, and any set of resizes that satisfy
`KeepsOrder` (`ResizesOK`). `KeepsOrder` is a hypothesis of the theorems, and TLC evaluates it for the resizes of the
run `buddy_resize`. It leaves out two kinds of resize for which the theorems do not hold: a tree that shrinks by an order loses its
blocks (the run `buddy_shrink`), and `buddy_is_free` does not look at the last slot of an arena of a power of two, so that
giving back this slot alone would drop a block in it. The argument has three layers.

* Bits and statuses. `Holds(bits, order, S)`: every field is a run of `S[p]` ones. Fields do not overlap
  (`FieldsApart`, from the recursion of `size_for_order`), so a write changes one status (`WriteIs`) and both ways to
  test a status agree (`ReadIs`, `CompareIs`).
* Statuses and marks. `Sound(order, S, M)`: a status is full over unused children at a mark, and follows from its
  children elsewhere. Each loop is shown to keep a loop invariant and to end within its turns: `update_parent_chain` with
  its early return (`ChainIs`), the mask of the missing slots (`ToggleVirtualSlotsIs`), the reservation of a range
  (`ToggleRangeIs`), the move of the rows, one bit too many at a time (`GrowRowIs`), and growth by several orders
  (`TreeGrowIs`).
* Marks and blocks. `TreeInv`, the inductive invariant, says that the tree has the order of the arena, that every block has
  a position inside it, and that the statuses are sound for the positions of the blocks and of the missing slots. The
  properties are not inductive themselves: `BitsMatchBlocks` says what each status is, but a step changes a status from
  those next to it, and only soundness relates them.

From it: `TypeCorrect`, `CompareReads`, `BitsTellBlocks` (a status leaves exactly the room there is, by induction on the
tree), `BlocksSurvive` and `QueriesTrue`. The last needs the walk: at each turn it has found the blocks that begin before its
position, in order, and stands inside no block (`WalkTurnIs`), and it is over after at most as many turns as slots times
rows (`TurnsAre`).

**PageMapProofs**, for any number of levels, entries per table, callers, pages and frames (`PagingOK`) and any contents
of the firmware's pages that lead to no other (`FirmwareOK`). `TablesFormTree`
is in the invariant itself; the rest says who holds `lock_`, that frames not yet handed out hold no entry (`FreshInv`), that
the firmware's pages still lead to no other (`ForeignInv`), that last tables hold frames of their pages' owners (`LeafInv`),
what a call in progress may rely on between two of its locked parts (`CallInv`), that a walk is at the table the processor
would be at, or in a page of the firmware when there is none, which never happens to a walk that allocates (`WalkInv`), and that
a table between its allocation and its link is in no other place while the entry that waits for it stays empty (`LinkInv`),
which is what `lock_` is for. `WalkInv` is why a lookup is right where there are tables, although its
null tests are dead. From it: `PageMapTypes`, `TablesStayTree`, `LookupsExact` and the refinement
`TablesImplementSpace`: linking a new table changes no translation, and the work on the last
entry changes the one of the page the call was made for.

**VirtualMemoryProofs**, for any range, memory and request sizes (`RangeOK`). The invariant is `FramesOwned` with what
the three loops have done so far: the scan has seen unmapped pages only, none of them behind `limit`, and given up every earlier start for a page that is or looks mapped (`ScanInv`),
the rest of a range being mapped is unmapped and its first page has a frame of its own (`MapInv`), a free gives its
frame back once (`FreeInv`). From it: `VirtualTypes`, `FramesAccounted`, the action properties `MappingsStay` and
`NullIsHonest`, and `UsesPageMap`: each step is one `AddressSpace` allows, which is what composing it with `PageMap`
needs.

**ConsoleProofs**, for any FIFO depth, stack depth and number of exceptions (`ConsoleAssumption`). The invariant follows
the device through its programming (`Programmed`), and after it says that a transmitter that was seen empty is empty
(`RunInv`; only the device removes characters, and a handler that prints in between starts with a read of its own) and
that the history is what the device holds (`WorkingInv`). Whatever the processor has to do ends in its only halt. From
it: `ConsoleTypes`, `InOrder`.

**LibcProofs**, for every size of a word and of the address space (`MemoryFunctionsAssumption`) and for callers that pass
blocks of at most half of the address space, strings outside the room of their copies and the word behind it, and a base of 0 or 2 to 36
(`CallersAssumption`, what C asks of them, and operands of `memcmp` laid out apart). `CopiesRight` is an invariant of single calls, so the induction is over the turns of their loops. A copy in
progress is `Carried`: the bytes `lo .. hi - 1` are moved, no other byte is changed, and every word read so far touches the
source. What makes a turn preserve it is that the bytes still to be read are the original ones: forwards because no byte of the
source lies behind a byte already written (`FwdSafe`), backwards the mirror image (`BwdSafe`), and the one unsigned
comparison of `memmove` chooses the safe direction (`FarIsFwdSafe`, `NearIsBwdSafe`). The loops across the grid of the
copy carry a word from one pair to the next; its bytes are original even where its memory has been overwritten by then
(`Kept`). `memset` fills what it should and, as it counts the bytes before the first word boundary twice, so many bytes
more (`OverrunIs`, `MemsetFills`); `strncpy` inherits that where it pads (`PaddedLength`). The string functions come down to where their texts end (`StrlenIs`, `StrnlenIs`) and to what `memcpy` and `memset` do.

`ComparesRight` rests on `MemcmpRight`, which speaks of any memory and any two operands, overlapping or not. A comparison
has found the first difference or none so far (`Compared`), and this adds up over the bytes before the first word, the
words and the bytes behind them (`ComparedAlong`, `ComparedLonger`). The loop over words is unrolled four times and
entered in the middle, with the pointers moved back and the count rounded up to suit: its turns still read the
words one after the other (`AtTurnIs`), and the count reaches zero behind the last pair of words and no earlier (`LastTurn`).
The words merged from two are the words at the operand's address (`MergedIs`), and the word at each end, though it
passes the operand, holds a byte of it. `strncmp` stops at the first difference or where both texts end (`StrncmpIs`).

`NumbersRight` first shows that `Prefix`, which follows the code, finds the place where the digits begin by the form of
the text (`PrefixBegins`). It compares the loops over digits with the values of the digits read so far, computed without a limit
(`Values`). These only grow, so the digits whose value fits are the first ones (`LastThatFits`), and the loop is
at every turn in the state that this last place gives (`StateAt`): the test against `cutoff` and `cutlim` is the comparison
with the limit (`NextDigit`), and digits behind an overflow are skipped without a change. `atou` has no test and wraps.

`UnsignedReadsBack` and `SignedReadsBack` join the two halves of the library: what `print_integer` prints without prefix,
plus sign or padding, in any base from 2 to 36, `strtoul` and `strtol` read back to the end of the text, `LONG_MIN`
included. The quotients the printing loop goes through (`Quotients`), read from the last one back, are the values of the
digits read so far (`SpelledValue`). The hypothesis that the digits leave room in the buffer is the code's limit: `%b` of a
64-bit number has more digits than the 32 characters of `INTEGER_BUFFER_SIZE`, and loses the first of them.

The powers in `GeometryOK` (`Buddy`) and `PowersOK` (`PageMap`) are arithmetic the provers do not know; they are
assumptions, true of every tree and fan-out, and TLC evaluates them. `BuddyBits` defines its
powers, and the facts about them are proved. Induction is done with least counterexamples; in `BuddyResizeProofs` it
gives the existence of every repetition of a step (`Repeat`), and so what the recursive functions of the model compute.

What proving changed in the models. `PhysicalMemory` had the totals of the memory map as one expression; the loop that
computes them is now an action. `PageMap` let a walk allocate when no frame was left; it now waits, as the panic would
make it. `VirtualMemory` named too few frames for the pages that line 154 maps past the allocated ones, and did
not say that the range is not empty. `BuddyResize` had its loops as recursive operators, and the missing slots as
a set of positions; they are functions of the turns now, and the loop over the missing slots is the code's. The functions
of the C library were recursive operators too, and what their callers must respect was only in the constants of the run. `Console` did not say that the test byte of `uart::initialize` is a byte.

Model-checked only:

* liveness: the five `CallsReturn`, the fairness part of `ImplementsFairMutex`, `PanicPrinted` and `KernelHalts`; the
  prover does not do fairness;
* trees that shrink (`TreeShrink`): the theorems leave them out, as the code loses blocks there;
* `PrintsAgree`: the digits of a number are proved (`UnsignedReadsBack`, `SignedReadsBack`), its layout and the format
  interpreter around it are not; a proof would need the argument of `LibcProofs` for each loop of the interpreter.

## 5. Not modelled

Large pages and the flag bits of entries; `load`/`save` and the TLB; `destroy_level`; `virtual_initialize`; page
contents; `physical_get_status`; embedding, fragmentation and change tracking of the buddy allocator; `heap_lock`
around it and `heap_init`; the unused constructors of `ScopedLock`; the encoding of the descriptors of GDT and IDT; CPUID
and the registers; the style of the logger; `errno`; `abs`, `div` and the character classes nothing else uses; writes
of `snprintf` past its buffer (see `PROJECT.json`, "components", for each part).

## 6. Plan

1. Heap: `heap_lock` with the allocator for several processors, `heap_init` over `VirtualMemory`; the embedded
   arena's offsets and `buddy_resize_embedded`.
2. `PageMap` with large pages: splitting (it takes `lock_` twice), the page-size flags that alias, `destroy_level`.
3. Proofs: the layout of printed numbers and the format interpreter of the C library, in the way of `LibcProofs`.
