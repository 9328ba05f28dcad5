-------------------------- MODULE MCPhysicalMemory --------------------------
(***************************************************************************)
(* Memory maps for TLC.  A page has 2 bytes, so that one page of bitmap    *)
(* covers 16 pages of memory (32768 in the kernel).                        *)
(***************************************************************************)
EXTENDS PhysicalMemory

Region(b, n, ty) == [base |-> b, length |-> n, type |-> ty]

\* Memory with a hole, bitmap in the first usable entry; and a first usable
\* entry the bitmap fills completely, with a run at the very end.
SmallMaps == {
    << Region(0, 1, "other"), Region(1, 3, Usable), Region(4, 2, "other"),
       Region(6, 3, Usable), Region(9, 1, "other") >>,
    << Region(0, 2, "other"), Region(2, 1, Usable), Region(5, 2, Usable),
       Region(8, 2, Usable) >> }

\* The highest usable page is one past a multiple of 8 * PAGE_SIZE: in the
\* first map it belongs to the allocator, in the second to the bitmap.
TruncatedMaps == {
    << Region(0, 1, "other"), Region(1, 2, Usable), Region(3, 12, "other"),
       Region(15, 2, Usable) >>,
    << Region(0, 1, "other"), Region(1, 1, Usable), Region(2, 29, "other"),
       Region(31, 2, Usable) >> }

AllMaps == SmallMaps \cup TruncatedMaps
=============================================================================
