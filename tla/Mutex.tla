------------------------------- MODULE Mutex -------------------------------
(***************************************************************************)
(* What a lock::mutex promises its clients (kernel/include/lock.hpp), with *)
(* no ticket in sight: at most one holder, and service in the order in     *)
(* which lock() was called.  TicketLock implements this specification; the *)
(* components that own a lock (phys_lock, heap_lock, PageMap::lock_) are   *)
(* modelled on top of it.                                                  *)
(***************************************************************************)
EXTENDS FiniteSets

CONSTANT Threads

\* `asked` are the threads that called lock() and have not yet released the
\* lock, `ahead[t]` those of them that called it before t, and `inside` the
\* threads whose lock() returned.
VARIABLES asked, ahead, inside

mvars == <<asked, ahead, inside>>

MutexTypeOK ==
    /\ asked \in SUBSET Threads
    /\ ahead \in [Threads -> SUBSET Threads]
    /\ inside \in SUBSET Threads

Init ==
    /\ asked = {}
    /\ ahead = [t \in Threads |-> {}]
    /\ inside = {}

\* lock() takes its place behind everyone who asked before.
Ask(t) ==
    /\ t \notin asked
    /\ asked' = asked \cup {t}
    /\ ahead' = [ahead EXCEPT ![t] = asked]
    /\ UNCHANGED inside

\* lock() returns once everyone ahead has released.
Enter(t) ==
    /\ t \in asked \ inside
    /\ ahead[t] = {}
    /\ inside' = inside \cup {t}
    /\ UNCHANGED <<asked, ahead>>

\* unlock() by the holder.
Leave(t) ==
    /\ t \in inside
    /\ asked' = asked \ {t}
    /\ inside' = inside \ {t}
    /\ ahead' = [u \in Threads |-> ahead[u] \ {t}]

\* Those who asked stand in a line: of two of them one is ahead of the other,
\* nobody is ahead of himself, and nobody is ahead of a holder.
Line ==
    /\ inside \subseteq asked
    /\ \A t \in asked : ahead[t] \subseteq asked \ {t}
    /\ \A t, u \in asked : t # u => t \in ahead[u] \/ u \in ahead[t]
    /\ \A t \in inside : ahead[t] = {}

Next == \E t \in Threads : Ask(t) \/ Enter(t) \/ Leave(t)

Spec == Init /\ [][Next]_mvars

\* Nobody waits for ever, provided holders leave and enabled threads run.
FairSpec ==
    Spec /\ \A t \in Threads : WF_mvars(Enter(t)) /\ WF_mvars(Leave(t))
=============================================================================
