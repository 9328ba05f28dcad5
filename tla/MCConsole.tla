----------------------------- MODULE MCConsole -----------------------------
(***************************************************************************)
(* Three frames of a stack that is cut at two, a FIFO of two characters,   *)
(* and up to two exceptions, one inside the other's handler.               *)
(***************************************************************************)
EXTENDS Console
=============================================================================
