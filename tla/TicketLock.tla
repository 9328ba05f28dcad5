----------------------------- MODULE TicketLock -----------------------------
(***************************************************************************)
(* lock::TicketLock of kernel/include/lock.hpp at the granularity of its   *)
(* atomic operations, and the client discipline of lock::ScopedLock: every *)
(* thread that locked through a guard unlocks exactly once, when the guard *)
(* goes out of scope.                                                      *)
(*                                                                         *)
(* Tickets are size_t and wrap; Modulus stands for 2^64.  The relaxed      *)
(* loads are modelled as loads of the current value: the only counter a    *)
(* holder reads and then writes, serving_ticket_, is written by nobody     *)
(* else while it holds, and the waiters' acquire load only has to see the  *)
(* release store eventually.                                               *)
(***************************************************************************)
EXTENDS Naturals, FiniteSets

CONSTANTS Threads,      \* the callers
          Modulus       \* number of distinct tickets

ASSUME ThreadsFinite == IsFiniteSet(Threads)

\* 2^64 tickets and far fewer processors.
ASSUME TicketsSuffice == Modulus \in Nat /\ Cardinality(Threads) < Modulus

VARIABLES next_ticket,      \* next_ticket_
          serving_ticket,   \* serving_ticket_
          pc,               \* where each thread is in the class
          ticket,           \* `ticket` of lock()
          current           \* `current` of is_locked() and unlock()

vars == <<next_ticket, serving_ticket, pc, ticket, current>>

Tickets == 0 .. Modulus - 1

\* "idle": outside; "try_next": is_locked() of try_lock(), second load;
\* "try_take": try_lock() about to call lock(); "spin": the loop of lock();
\* "cs": the guarded region; "unlock_next": is_locked() of unlock(), second
\* load; "unlock_load", "unlock_store": the two statements of unlock().
PCs == {"idle", "try_next", "try_take", "spin", "cs",
        "unlock_next", "unlock_load", "unlock_store"}

\* Types; both counters stay size_t values when they are incremented at the wrap.
TypeOK ==
    /\ next_ticket \in Tickets
    /\ serving_ticket \in Tickets
    /\ pc \in [Threads -> PCs]
    /\ ticket \in [Threads -> Tickets]
    /\ current \in [Threads -> Tickets]

Init ==
    /\ next_ticket = 0
    /\ serving_ticket = 0
    /\ pc = [t \in Threads |-> "idle"]
    /\ ticket = [t \in Threads |-> 0]
    /\ current = [t \in Threads |-> 0]

\* x + 1 in size_t.
Inc_NoWrap(x) == x + 1
Inc(x) == IF x = Modulus - 1 THEN 0 ELSE x + 1

\* next_ticket_.fetch_add(1): the ticket is drawn and the queue grows in one
\* atomic operation.
FetchAdd(t) ==
    /\ ticket' = [ticket EXCEPT ![t] = next_ticket]
    /\ pc' = [pc EXCEPT ![t] = "spin"]
    /\ next_ticket' = Inc(next_ticket)
    /\ UNCHANGED <<serving_ticket, current>>

\* lock(), called by a guard's constructor.
Lock(t) == pc[t] = "idle" /\ FetchAdd(t)

\* The load that ends the spin.  A load of another value only pauses.
SpinEnter_Barging(t) ==
    /\ pc[t] = "spin"
    /\ \/ ticket[t] = serving_ticket
       \/ \A u \in Threads : pc[u] \in {"idle", "try_next", "try_take", "spin"}
    /\ pc' = [pc EXCEPT ![t] = "cs"]
    /\ UNCHANGED <<next_ticket, serving_ticket, ticket, current>>
SpinEnter(t) ==
    /\ pc[t] = "spin"
    /\ serving_ticket = ticket[t]
    /\ pc' = [pc EXCEPT ![t] = "cs"]
    /\ UNCHANGED <<next_ticket, serving_ticket, ticket, current>>

\* is_locked(), first load.
LoadServing(t, from, to) ==
    /\ pc[t] = from
    /\ current' = [current EXCEPT ![t] = serving_ticket]
    /\ pc' = [pc EXCEPT ![t] = to]
    /\ UNCHANGED <<next_ticket, serving_ticket, ticket>>

\* is_locked(), second load and comparison; its local goes out of scope.
LoadNext(t, from, locked, free) ==
    /\ pc[t] = from
    /\ pc' = [pc EXCEPT ![t] = IF current[t] # next_ticket THEN locked ELSE free]
    /\ current' = [current EXCEPT ![t] = 0]
    /\ UNCHANGED <<next_ticket, serving_ticket, ticket>>

\* try_lock(): is_locked(), then lock() or return false.  lock() may still
\* wait: another thread may have drawn a ticket in between.
TryLock(t) == LoadServing(t, "idle", "try_next")
TryLockTest(t) == LoadNext(t, "try_next", "idle", "try_take")
TryLockTake_NoWait(t) ==
    /\ pc[t] = "try_take"
    /\ ticket' = [ticket EXCEPT ![t] = next_ticket]
    /\ next_ticket' = Inc(next_ticket)
    /\ pc' = [pc EXCEPT ![t] = "cs"]
    /\ UNCHANGED <<serving_ticket, current>>
TryLockTake(t) == pc[t] = "try_take" /\ FetchAdd(t)

\* The locals of a finished lock() ... unlock() pair are gone.
Forget(t) ==
    /\ pc' = [pc EXCEPT ![t] = "idle"]
    /\ ticket' = [ticket EXCEPT ![t] = 0]
    /\ current' = [current EXCEPT ![t] = 0]
    /\ UNCHANGED next_ticket

\* unlock(), called by the guard's destructor: the is_locked() test, the
\* early return when it says no, then the load and the store.
Unlock(t) == LoadServing(t, "cs", "unlock_next")
UnlockTest(t) == LoadNext(t, "unlock_next", "unlock_load", "idle")
UnlockLoad(t) == LoadServing(t, "unlock_load", "unlock_store")
UnlockStore_NoIncrement(t) ==
    /\ pc[t] = "unlock_store"
    /\ serving_ticket' = current[t]
    /\ Forget(t)
UnlockStore(t) ==
    /\ pc[t] = "unlock_store"
    /\ serving_ticket' = Inc(current[t])
    /\ Forget(t)

\* The steps a thread inside the class takes without deciding anything.
Proceed(t) ==
    \/ SpinEnter(t)
    \/ TryLockTest(t)
    \/ TryLockTake(t)
    \/ UnlockTest(t)
    \/ UnlockLoad(t)
    \/ UnlockStore(t)

Next == \E t \in Threads : Lock(t) \/ TryLock(t) \/ Unlock(t) \/ Proceed(t)

Spec == Init /\ [][Next]_vars

\* A spinning processor keeps executing, and guarded regions end: no
\* guarded region of the kernel waits for anything but another lock.
FairSpec ==
    Spec /\ \A t \in Threads : WF_vars(Unlock(t) \/ Proceed(t))

-----------------------------------------------------------------------------
\* The guarded region lasts until the store in unlock().
Holding == {"cs", "unlock_next", "unlock_load", "unlock_store"}

\* Threads that hold a ticket not yet served to the end.
Outstanding == {t \in Threads : pc[t] \in Holding \cup {"spin"}}

\* How many increments of serving_ticket_ away ticket x is, round the wrap.
Dist(x) ==
    IF x >= serving_ticket THEN x - serving_ticket
                           ELSE x - serving_ticket + Modulus

\* At most one thread is between the return of lock() and the store of
\* unlock().
MutualExclusion ==
    \A t, u \in Threads : pc[t] \in Holding /\ pc[u] \in Holding => t = u

\* The two counters are exactly as far apart as there are tickets drawn and
\* not served, the outstanding tickets are different and lie between the
\* counters, and the holder's is the one being served: no ticket is lost,
\* skipped or served twice, across the wrap of size_t too.
TicketWindow ==
    /\ Dist(next_ticket) = Cardinality(Outstanding)
    /\ \A t \in Outstanding : Dist(ticket[t]) < Dist(next_ticket)
    /\ \A t, u \in Outstanding : t # u => ticket[t] # ticket[u]
    /\ \A t \in Threads : pc[t] \in Holding => ticket[t] = serving_ticket

\* What a holder read of serving_ticket_ in unlock() is still its value: the
\* load and the store of unlock() need not be one atomic operation.
HolderReadsAreFresh ==
    \A t \in Threads :
        pc[t] \in {"unlock_next", "unlock_store"} => current[t] = serving_ticket

\* The tickets are a queue without gaps around the wrap of size_t, and the
\* holder's unlock(), two separate accesses, advances it by exactly one.
TicketsInOrder == TicketWindow /\ HolderReadsAreFresh

\* unlock()'s early return (lock.hpp:41) is never taken by a holder: a guard
\* that goes out of scope always passes the lock on, although is_locked()
\* reads the two counters at different moments.
UnlockReleases ==
    [][\A t \in Threads :
          pc[t] \in Holding /\ pc'[t] = "idle" => serving_ticket' # serving_ticket]_vars

\* lock() and try_lock() always return.
CallsReturn ==
    \A t \in Threads :
        pc[t] \in {"try_next", "try_take", "spin"} ~> pc[t] \in {"idle", "cs"}

\* The outstanding threads that will be served before t.
Ahead == [t \in Threads |->
            IF t \in Outstanding
            THEN {u \in Outstanding : Dist(ticket[u]) < Dist(ticket[t])}
            ELSE {}]

Served == INSTANCE Mutex WITH
    asked  <- Outstanding,
    ahead  <- Ahead,
    inside <- {t \in Threads : pc[t] \in Holding}

\* TicketLock implements Mutex: lock() calls are served one at a time and in
\* the order of their fetch_add.
ImplementsMutex == Served!Spec

\* The same with its liveness: every lock() returns and every guard ends.
ImplementsFairMutex == Served!FairSpec
=============================================================================
