------------------------------ MODULE MCBuddy ------------------------------
(***************************************************************************)
(* Buddy for TLC, on trees of eight leaves.                                *)
(***************************************************************************)
EXTENDS Buddy

MCDepthOf == [p \in 1 .. 15 |-> CHOOSE d \in 1 .. 4 : 2 ^ (d - 1) <= p /\ p < 2 ^ d]
=============================================================================
