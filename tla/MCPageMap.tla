----------------------------- MODULE MCPageMap -----------------------------
(***************************************************************************)
(* PageMap for TLC: two levels of two entries.  Pages 0 and 1, of two      *)
(* threads, share a last table; pages 1 and 2, of one thread, do not.      *)
(* The firmware left in physical page 0 an entry that looks present.       *)
(***************************************************************************)
EXTENDS PageMap

CONSTANTS t1, t2

MCOwner == [v \in 0 .. 2 |-> IF v = 0 THEN t2 ELSE t1]
MCFrameOwner == [f \in 6 .. 7 |-> IF f = 7 THEN t2 ELSE t1]
MCFirmware == [f \in {0, 9} |->
    [i \in 0 .. Fan - 1 |-> [present |-> f = 0 /\ i = 0, addr |-> 9]]]
=============================================================================
