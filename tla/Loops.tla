------------------------------- MODULE Loops -------------------------------
(***************************************************************************)
(* The loops of the C library.  Loop repeats a body: Turn(state, k) is     *)
(* what its k-th turn makes of the state, and a loop that leaves early is  *)
(* one whose turns change nothing once it has reached its end.  First is   *)
(* where a loop that changes nothing but its counter stops.                *)
(***************************************************************************)
EXTENDS Integers

Loop(Turn(_, _), start, n) ==
  LET after[k \in 0 .. n] == IF k = 0 THEN start ELSE Turn(after[k - 1], k)
  IN  after[n]

First(from, to, Stop(_)) ==
  CHOOSE i \in from .. to : Stop(i) /\ \A j \in from .. i - 1 : ~ Stop(j)
============================================================================
