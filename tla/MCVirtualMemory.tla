-------------------------- MODULE MCVirtualMemory --------------------------
(***************************************************************************)
(* VirtualMemory for TLC.                                                  *)
(***************************************************************************)
EXTENDS VirtualMemory
=============================================================================
