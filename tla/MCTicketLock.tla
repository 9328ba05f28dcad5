--------------------------- MODULE MCTicketLock ---------------------------
(***************************************************************************)
(* TicketLock for TLC: three threads and four tickets, so that the         *)
(* counters wrap after two rounds of service.                              *)
(***************************************************************************)
EXTENDS TicketLock
=============================================================================
