-------------------------- MODULE TicketLockProofs --------------------------
(***************************************************************************)
(* Mutual exclusion of TicketLock for every finite set of threads and      *)
(* every number of tickets larger than it, wrap-around included.           *)
(***************************************************************************)
EXTENDS TicketLock, TLAPS, FiniteSetTheorems

\* MutualExclusion is not inductive: it rests on the outstanding tickets
\* being different and lying between the counters (TicketWindow), which rests
\* on unlock() storing one more than the ticket being served.
IInv == TypeOK /\ TicketWindow /\ HolderReadsAreFresh

\* Counting outstanding threads makes sense, and there are always fewer of
\* them than tickets.
LEMMA OutstandingCount ==
    /\ IsFiniteSet(Outstanding)
    /\ Cardinality(Outstanding) \in Nat
    /\ Cardinality(Outstanding) <= Cardinality(Threads)
    /\ Cardinality(Threads) \in Nat
    /\ \A t \in Threads \ Outstanding :
          Cardinality(Outstanding) + 1 <= Cardinality(Threads)
<1>1. Outstanding \subseteq Threads
  BY DEF Outstanding
<1>2. IsFiniteSet(Outstanding) /\ Cardinality(Outstanding) <= Cardinality(Threads)
  BY <1>1, ThreadsFinite, FS_Subset
<1>3. Cardinality(Outstanding) \in Nat /\ Cardinality(Threads) \in Nat
  BY <1>2, ThreadsFinite, FS_CardinalityType
<1>4. ASSUME NEW t \in Threads \ Outstanding
      PROVE  Cardinality(Outstanding) + 1 <= Cardinality(Threads)
  <2>1. Cardinality(Outstanding \cup {t}) = Cardinality(Outstanding) + 1
    BY <1>2, <1>4, FS_AddElement
  <2>2. Outstanding \cup {t} \subseteq Threads
    BY <1>1, <1>4
  <2>3. Cardinality(Outstanding \cup {t}) <= Cardinality(Threads)
    BY <2>2, ThreadsFinite, FS_Subset
  <2> QED
    BY <2>1, <2>3
<1> QED
  BY <1>2, <1>3, <1>4

\* Incrementing a ticket stays in size_t.
LEMMA IncType ==
    ASSUME NEW x \in Tickets
    PROVE  Inc(x) \in Tickets
  BY TicketsSuffice DEF Inc, Tickets

\* The initial state satisfies the invariant.
LEMMA InitIInv == Init => IInv
<1> SUFFICES ASSUME Init PROVE IInv
  OBVIOUS
<1>1. Modulus \in Nat /\ 0 < Modulus
  BY OutstandingCount, TicketsSuffice
<1>2. TypeOK
  BY <1>1 DEF Init, TypeOK, Tickets, PCs
<1>3. Outstanding = {}
  BY DEF Init, Outstanding, Holding
<1>4. Cardinality(Outstanding) = 0
  BY <1>3, FS_EmptySet
<1>5. TicketWindow
  BY <1>1, <1>3, <1>4 DEF Init, TicketWindow, Dist, Holding
<1>6. HolderReadsAreFresh
  BY DEF Init, HolderReadsAreFresh
<1> QED
  BY <1>2, <1>5, <1>6 DEF IInv

\* A step that leaves the counters, the tickets and the set of outstanding
\* threads alone keeps the window, if it lets nobody in out of turn.
LEMMA WindowFrame ==
    ASSUME IInv,
           UNCHANGED <<next_ticket, serving_ticket, ticket>>,
           Outstanding' = Outstanding,
           \A t \in Threads : pc'[t] \in Holding => ticket[t] = serving_ticket
    PROVE  TicketWindow'
<1>1. /\ Dist(next_ticket)' = Dist(next_ticket)
      /\ \A t \in Threads : Dist(ticket[t])' = Dist(ticket[t])
  BY DEF Dist
<1>2. Holding' = Holding /\ Outstanding \subseteq Threads
  BY DEF Holding, Outstanding
<1> QED
  BY <1>1, <1>2 DEF IInv, TicketWindow

\* fetch_add hands out a ticket nobody holds, and the window grows by one.
LEMMA FetchAddWindow ==
    ASSUME IInv, NEW t \in Threads, t \notin Outstanding, FetchAdd(t)
    PROVE  TypeOK' /\ TicketWindow' /\ HolderReadsAreFresh'
<1> USE DEF IInv
<1>1. TypeOK'
  BY IncType DEF TypeOK, FetchAdd, PCs
<1>2. Outstanding' = Outstanding \cup {t}
  BY DEF Outstanding, FetchAdd, TypeOK, Holding
<1>3. Cardinality(Outstanding)' = Cardinality(Outstanding) + 1
  BY <1>2, OutstandingCount, FS_AddElement
<1>4. Dist(next_ticket) + 1 < Modulus
  BY OutstandingCount, TicketsSuffice DEF TicketWindow
<1>5. Dist(next_ticket)' = Dist(next_ticket) + 1
  BY <1>4, TicketsSuffice DEF Dist, FetchAdd, Inc, TypeOK, Tickets
<1>6. \A u \in Threads : u # t => ticket'[u] = ticket[u]
  BY DEF FetchAdd, TypeOK
<1>7. ticket'[t] = next_ticket
  BY DEF FetchAdd, TypeOK
<1>8. \A u \in Outstanding : Dist(ticket[u])' = Dist(ticket[u])
  BY <1>6 DEF Dist, FetchAdd, Outstanding
<1>9. Dist(ticket[t])' = Dist(next_ticket)
  BY <1>7 DEF Dist, FetchAdd
<1>10. \A u \in Outstanding : Dist(ticket[u]) \in Int /\ Dist(next_ticket) \in Int
  BY TicketsSuffice DEF Dist, TypeOK, Tickets, Outstanding
<1>11. \A u \in Outstanding' : Dist(ticket[u])' < Dist(next_ticket)'
  <2>1. TAKE u \in Outstanding'
  <2>2. CASE u = t
    BY <2>2, <1>5, <1>9, TicketsSuffice DEF Dist, TypeOK, Tickets
  <2>3. CASE u \in Outstanding
    BY <2>3, <1>5, <1>8, <1>10 DEF TicketWindow
  <2> QED
    BY <2>1, <2>2, <2>3, <1>2
<1>12. \A u, v \in Outstanding' : u # v => ticket'[u] # ticket'[v]
  <2>1. \A u \in Outstanding : ticket[u] # next_ticket
    BY <1>10 DEF TicketWindow
  <2>2. \A u \in Outstanding : u # t /\ u \in Threads
    BY DEF Outstanding
  <2> QED
    BY <2>1, <2>2, <1>2, <1>6, <1>7 DEF TicketWindow
<1>13. \A u \in Threads : pc'[u] \in Holding => ticket'[u] = serving_ticket'
  BY <1>6 DEF TicketWindow, FetchAdd, TypeOK, Holding
<1>14. TicketWindow'
  BY <1>3, <1>5, <1>11, <1>12, <1>13 DEF TicketWindow, Holding
<1>15. HolderReadsAreFresh'
  BY DEF HolderReadsAreFresh, FetchAdd, TypeOK
<1> QED
  BY <1>1, <1>14, <1>15

\* The store of unlock() serves exactly the next ticket.
LEMMA UnlockStoreWindow ==
    ASSUME IInv, NEW t \in Threads, UnlockStore(t)
    PROVE  TypeOK' /\ TicketWindow' /\ HolderReadsAreFresh'
<1> USE DEF IInv
<1>1. serving_ticket' = Inc(serving_ticket)
  BY DEF UnlockStore, HolderReadsAreFresh
<1>2. TypeOK'
  BY IncType, <1>1, TicketsSuffice DEF TypeOK, UnlockStore, Forget, PCs, Tickets
<1>3. t \in Outstanding /\ ticket[t] = serving_ticket
  BY DEF UnlockStore, Outstanding, TicketWindow, Holding
<1>4. Outstanding' = Outstanding \ {t}
  BY DEF Outstanding, UnlockStore, Forget, TypeOK, Holding
<1>5. Cardinality(Outstanding)' = Cardinality(Outstanding) - 1
  BY <1>3, <1>4, OutstandingCount, FS_RemoveElement
<1>6. \A x \in Tickets : x # serving_ticket => Dist(x)' = Dist(x) - 1
  BY <1>1, TicketsSuffice DEF Dist, Inc, TypeOK, Tickets
<1>7. next_ticket' = next_ticket /\ next_ticket # serving_ticket
  <2>1. 0 < Dist(next_ticket)
    BY <1>3, TicketsSuffice DEF TicketWindow, Dist, TypeOK, Tickets
  <2> QED
    BY <2>1 DEF Dist, UnlockStore, Forget, TypeOK, Tickets
<1>8. Dist(next_ticket)' = Dist(next_ticket) - 1
  BY <1>6, <1>7 DEF TypeOK, Dist
<1>9. \A u \in Outstanding' : /\ u \in Outstanding /\ u # t /\ u \in Threads
                              /\ ticket'[u] = ticket[u]
                              /\ ticket[u] # serving_ticket
  BY <1>3, <1>4 DEF TicketWindow, UnlockStore, Forget, TypeOK, Outstanding
<1>10. \A u \in Outstanding' : Dist(ticket[u])' = Dist(ticket[u]) - 1
  <2>1. TAKE u \in Outstanding'
  <2>2. ticket[u] \in Tickets /\ ticket[u] # serving_ticket /\ ticket'[u] = ticket[u]
    BY <1>9, <2>1 DEF TypeOK
  <2> QED
    BY <2>2, <1>6 DEF Dist
<1>11. \A u \in Outstanding' : Dist(ticket[u])' < Dist(next_ticket)'
  <2>1. TAKE u \in Outstanding'
  <2>2. Dist(ticket[u]) \in Int /\ Dist(next_ticket) \in Int
    BY <1>9, <2>1, TicketsSuffice DEF Dist, TypeOK, Tickets
  <2> QED
    BY <2>1, <2>2, <1>8, <1>9, <1>10 DEF TicketWindow
<1>12. \A u, v \in Outstanding' : u # v => ticket'[u] # ticket'[v]
  BY <1>9 DEF TicketWindow
<1>13. \A u \in Threads : pc'[u] \notin Holding
  <2>1. TAKE u \in Threads
  <2>2. CASE u = t
    BY <2>2 DEF UnlockStore, Forget, TypeOK, Holding
  <2>3. CASE u # t
    <3>1. pc[u] \notin Holding
      BY <1>3, <2>3 DEF TicketWindow, Outstanding
    <3> QED
      BY <2>3, <3>1 DEF UnlockStore, Forget, TypeOK
  <2> QED
    BY <2>2, <2>3
<1>14. TicketWindow'
  BY <1>5, <1>8, <1>11, <1>12, <1>13 DEF TicketWindow, Holding
<1>15. HolderReadsAreFresh'
  BY <1>13 DEF HolderReadsAreFresh, Holding
<1> QED
  BY <1>2, <1>14, <1>15

\* Every step keeps the invariant.
LEMMA NextIInv == IInv /\ [Next]_vars => IInv'
<1> SUFFICES ASSUME IInv, [Next]_vars PROVE IInv'
  OBVIOUS
<1> USE DEF IInv
<1>1. ASSUME NEW t \in Threads, Lock(t) PROVE IInv'
  BY <1>1, FetchAddWindow DEF Lock, Outstanding, Holding
<1>2. ASSUME NEW t \in Threads, TryLockTake(t) PROVE IInv'
  BY <1>2, FetchAddWindow DEF TryLockTake, Outstanding, Holding
<1>3. ASSUME NEW t \in Threads, UnlockStore(t) PROVE IInv'
  BY <1>3, UnlockStoreWindow
<1>4. ASSUME NEW t \in Threads, SpinEnter(t) PROVE IInv'
  <2>1. TypeOK' /\ HolderReadsAreFresh'
    BY <1>4 DEF SpinEnter, TypeOK, PCs, HolderReadsAreFresh
  <2>2. Outstanding' = Outstanding
    BY <1>4 DEF SpinEnter, Outstanding, Holding, TypeOK
  <2>3. \A u \in Threads : pc'[u] \in Holding => ticket[u] = serving_ticket
    BY <1>4 DEF SpinEnter, TicketWindow, TypeOK
  <2> QED
    BY <1>4, <2>1, <2>2, <2>3, WindowFrame DEF SpinEnter
<1>5. ASSUME NEW t \in Threads, NEW from \in PCs, NEW to \in PCs,
             LoadServing(t, from, to),
             from \in Holding <=> to \in Holding,
             from # "spin", to # "spin"
      PROVE  IInv'
  <2>1. TypeOK' /\ HolderReadsAreFresh'
    BY <1>5 DEF LoadServing, TypeOK, HolderReadsAreFresh
  <2>2. Outstanding' = Outstanding
    BY <1>5 DEF LoadServing, Outstanding, Holding, TypeOK
  <2>3. \A u \in Threads : pc'[u] \in Holding => ticket[u] = serving_ticket
    BY <1>5 DEF LoadServing, TicketWindow, TypeOK
  <2> QED
    BY <1>5, <2>1, <2>2, <2>3, WindowFrame DEF LoadServing
<1>6. ASSUME NEW t \in Threads, TryLockTest(t) PROVE IInv'
  <2>1. TypeOK' /\ HolderReadsAreFresh'
    <3>1. 0 \in Tickets
      BY OutstandingCount, TicketsSuffice DEF Tickets
    <3> QED
      BY <1>6, <3>1 DEF TryLockTest, LoadNext, TypeOK, PCs, HolderReadsAreFresh
  <2>2. Outstanding' = Outstanding
    BY <1>6 DEF TryLockTest, LoadNext, Outstanding, Holding, TypeOK
  <2>3. \A u \in Threads : pc'[u] \in Holding => ticket[u] = serving_ticket
    BY <1>6 DEF TryLockTest, LoadNext, TicketWindow, TypeOK, Holding
  <2> QED
    BY <1>6, <2>1, <2>2, <2>3, WindowFrame DEF TryLockTest, LoadNext
<1>7. ASSUME NEW t \in Threads, UnlockTest(t) PROVE IInv'
  <2>1. t \in Outstanding /\ ticket[t] = serving_ticket /\ current[t] = serving_ticket
    BY <1>7 DEF UnlockTest, LoadNext, Outstanding, TicketWindow, Holding,
                HolderReadsAreFresh
  <2>2. current[t] # next_ticket
    BY <2>1, TicketsSuffice DEF TicketWindow, Dist, TypeOK, Tickets
  <2>3. pc' = [pc EXCEPT ![t] = "unlock_load"]
    BY <1>7, <2>2 DEF UnlockTest, LoadNext
  <2>4. TypeOK' /\ HolderReadsAreFresh'
    <3>1. 0 \in Tickets
      BY OutstandingCount, TicketsSuffice DEF Tickets
    <3> QED
      BY <1>7, <2>3, <3>1 DEF UnlockTest, LoadNext, TypeOK, PCs, HolderReadsAreFresh
  <2>5. Outstanding' = Outstanding
    BY <1>7, <2>3 DEF UnlockTest, LoadNext, Outstanding, Holding, TypeOK
  <2>6. \A u \in Threads : pc'[u] \in Holding => ticket[u] = serving_ticket
    BY <2>1, <2>3 DEF TicketWindow, TypeOK
  <2> QED
    BY <1>7, <2>4, <2>5, <2>6, WindowFrame DEF UnlockTest, LoadNext
<1>8. CASE UNCHANGED vars
  BY <1>8 DEF vars, TypeOK, TicketWindow, HolderReadsAreFresh, Outstanding,
              Holding, Dist
<1>9. ASSUME NEW t \in Threads, TryLock(t) \/ Unlock(t) \/ UnlockLoad(t) PROVE IInv'
  BY <1>5, <1>9 DEF TryLock, Unlock, UnlockLoad, PCs, Holding
<1> QED
  BY <1>1, <1>2, <1>3, <1>4, <1>6, <1>7, <1>8, <1>9 DEF Next, Proceed

\* The inductive invariant holds in every reachable state.
THEOREM Invariant == Spec => []IInv
  BY InitIInv, NextIInv, PTL DEF Spec

\* TypeOK for every finite set of threads: the counters and the registers of
\* TicketLock stay within size_t.
THEOREM TypeCorrect == Spec => []TypeOK
<1>1. IInv => TypeOK
  BY DEF IInv
<1> QED
  BY Invariant, <1>1, PTL

\* TicketsInOrder for every finite set of threads: the counters of TicketLock
\* delimit the tickets drawn and not served.
THEOREM InOrder == Spec => []TicketsInOrder
<1>1. IInv => TicketsInOrder
  BY DEF IInv, TicketsInOrder
<1> QED
  BY Invariant, <1>1, PTL

\* MutualExclusion for every finite set of threads: two holders would have
\* the same ticket.
THEOREM Exclusion == Spec => []MutualExclusion
<1>1. IInv => MutualExclusion
  BY DEF IInv, TicketWindow, MutualExclusion, Outstanding
<1> QED
  BY Invariant, <1>1, PTL

\* UnlockReleases for every finite set of threads: a holder never takes the
\* early return of unlock(), because as long as it holds a ticket the two
\* counters differ by between one and Cardinality(Threads), modulo 2^64.
THEOREM Releases == Spec => UnlockReleases
<1>1. ASSUME IInv, [Next]_vars, NEW t \in Threads,
             pc[t] \in Holding, pc'[t] = "idle"
      PROVE  serving_ticket' # serving_ticket
  <2>1. ticket[t] = serving_ticket /\ t \in Outstanding
    BY <1>1 DEF IInv, TicketWindow, Outstanding
  <2>2. PICK u \in Threads : Lock(u) \/ TryLock(u) \/ Unlock(u) \/ Proceed(u)
    BY <1>1 DEF Next, vars, Holding
  <2>3. u = t
    BY <1>1, <2>2 DEF Lock, TryLock, Unlock, Proceed, SpinEnter, TryLockTest,
       TryLockTake, UnlockTest, UnlockLoad, UnlockStore, FetchAdd, LoadServing,
       LoadNext, Forget, IInv, TypeOK, Holding
  <2>6. next_ticket # serving_ticket
    BY <1>1, <2>1, TicketsSuffice DEF IInv, TicketWindow, Dist, TypeOK, Tickets
  <2>4. CASE UnlockStore(u)
    <3>1. serving_ticket' = Inc(serving_ticket)
      BY <1>1, <2>3, <2>4 DEF UnlockStore, IInv, HolderReadsAreFresh
    <3> QED
      BY <1>1, <2>6, <3>1, TicketsSuffice DEF IInv, Inc, TypeOK, Tickets
  <2>5. CASE UnlockTest(u)
    <3>1. current[t] # next_ticket
      BY <1>1, <2>6, <2>3, <2>5 DEF UnlockTest, LoadNext, IInv, HolderReadsAreFresh
    <3> QED
      BY <1>1, <2>3, <2>5, <3>1 DEF UnlockTest, LoadNext, IInv, TypeOK
  <2> QED
    BY <1>1, <2>2, <2>3, <2>4, <2>5 DEF Lock, TryLock, Unlock, Proceed,
       SpinEnter, TryLockTest, TryLockTake, UnlockLoad, FetchAdd, LoadServing,
       LoadNext, IInv, TypeOK, Holding
<1>2. IInv /\ [Next]_vars =>
        [\A t \in Threads :
           pc[t] \in Holding /\ pc'[t] = "idle" => serving_ticket' # serving_ticket]_vars
  BY <1>1
<1> QED
  BY Invariant, <1>2, PTL DEF Spec, UnlockReleases

\* Distances are natural numbers; zero is the ticket being served.
LEMMA DistType ==
    ASSUME TypeOK, NEW x \in Tickets
    PROVE  Dist(x) \in Nat /\ (x = serving_ticket => Dist(x) = 0)
  BY TicketsSuffice DEF Dist, TypeOK, Tickets

\* fetch_add is the abstract Ask.
LEMMA FetchAddAsks ==
    ASSUME IInv, NEW t \in Threads, t \notin Outstanding, FetchAdd(t)
    PROVE  Served!Ask(t)
<1> USE DEF IInv
<1>1. Outstanding' = Outstanding \cup {t}
  BY DEF Outstanding, FetchAdd, TypeOK, Holding
<1>2. \A u \in Outstanding : /\ u \in Threads /\ u # t
                              /\ ticket'[u] = ticket[u]
                              /\ Dist(ticket[u]) \in Nat
                              /\ Dist(ticket[u]) < Dist(next_ticket)
  BY DistType DEF Outstanding, FetchAdd, TypeOK, TicketWindow
<1>3. ticket'[t] = next_ticket /\ Dist(next_ticket) \in Nat
  BY DistType DEF FetchAdd, TypeOK
<1>4. \A u \in Outstanding : Dist(ticket[u])' = Dist(ticket[u])
  BY <1>2 DEF Dist, FetchAdd
<1>5. Dist(ticket[t])' = Dist(next_ticket)
  BY <1>3 DEF Dist, FetchAdd
<1>6. Ahead'[t] = Outstanding
  <2>1. Ahead'[t] = {u \in Outstanding' : Dist(ticket[u])' < Dist(ticket[t])'}
    BY <1>1 DEF Ahead
  <2> QED
    BY <2>1, <1>1, <1>2, <1>3, <1>4, <1>5
<1>7. \A u \in Threads : u # t => Ahead'[u] = Ahead[u]
  <2>1. SUFFICES ASSUME NEW u \in Threads, u # t PROVE Ahead'[u] = Ahead[u]
    OBVIOUS
  <2>2. CASE u \in Outstanding
    <3>1. Ahead'[u] = {v \in Outstanding' : Dist(ticket[v])' < Dist(ticket[u])'}
      BY <1>1, <2>2 DEF Ahead
    <3>2. ~(Dist(ticket[t])' < Dist(ticket[u])')
      BY <1>2, <1>3, <1>4, <1>5, <2>2
    <3> QED
      BY <3>1, <3>2, <1>1, <1>4, <2>2 DEF Ahead
  <2>3. CASE u \notin Outstanding
    BY <2>1, <2>3, <1>1 DEF Ahead
  <2> QED
    BY <2>2, <2>3
<1>8. Ahead' = [Ahead EXCEPT ![t] = Outstanding]
  BY <1>6, <1>7 DEF Ahead
<1>9. {u \in Threads : pc[u] \in Holding}' = {u \in Threads : pc[u] \in Holding}
  BY DEF FetchAdd, TypeOK, Holding, Outstanding
<1> QED
  BY <1>1, <1>8, <1>9 DEF Served!Ask

\* The load that ends the spin is the abstract Enter.
LEMMA SpinEnters ==
    ASSUME IInv, NEW t \in Threads, SpinEnter(t)
    PROVE  Served!Enter(t)
<1> USE DEF IInv
<1>1. Outstanding' = Outstanding /\ t \in Outstanding
  BY DEF SpinEnter, Outstanding, Holding, TypeOK
<1>2. \A u \in Outstanding : Dist(ticket[u]) \in Nat
  BY DistType DEF Outstanding, TypeOK
<1>3. Dist(ticket[t]) = 0
  BY DistType DEF SpinEnter, TypeOK
<1>4. Ahead[t] = {}
  BY <1>1, <1>2, <1>3 DEF Ahead
<1>5. Ahead' = Ahead
  BY <1>1 DEF Ahead, Dist, SpinEnter
<1>6. {u \in Threads : pc[u] \in Holding}' =
         {u \in Threads : pc[u] \in Holding} \cup {t}
  BY DEF SpinEnter, TypeOK, Holding
<1>7. t \notin {u \in Threads : pc[u] \in Holding}
  BY DEF SpinEnter, Holding
<1> QED
  BY <1>1, <1>4, <1>5, <1>6, <1>7 DEF Served!Enter

\* The store of unlock() is the abstract Leave.
LEMMA UnlockLeaves ==
    ASSUME IInv, NEW t \in Threads, UnlockStore(t)
    PROVE  Served!Leave(t)
<1> USE DEF IInv
<1>1. serving_ticket' = Inc(serving_ticket)
  BY DEF UnlockStore, HolderReadsAreFresh
<1>2. t \in Outstanding /\ ticket[t] = serving_ticket
  BY DEF UnlockStore, Outstanding, TicketWindow, Holding
<1>3. Outstanding' = Outstanding \ {t}
  BY DEF Outstanding, UnlockStore, Forget, TypeOK, Holding
<1>4. \A x \in Tickets : x # serving_ticket => Dist(x)' = Dist(x) - 1
  BY <1>1, TicketsSuffice DEF Dist, Inc, TypeOK, Tickets
<1>5. \A u \in Outstanding : /\ ticket[u] \in Tickets
                              /\ Dist(ticket[u]) \in Nat
  BY DistType DEF Outstanding, TypeOK
<1>6. \A u \in Outstanding : u # t => Dist(ticket[u])' = Dist(ticket[u]) - 1
  <2>1. SUFFICES ASSUME NEW u \in Outstanding, u # t
                 PROVE  Dist(ticket[u])' = Dist(ticket[u]) - 1
    OBVIOUS
  <2>2. ticket[u] # serving_ticket /\ ticket'[u] = ticket[u]
    BY <1>2, <2>1 DEF TicketWindow, UnlockStore, Forget, TypeOK, Outstanding
  <2> QED
    BY <2>2, <1>4, <1>5 DEF Dist
<1>7. Dist(ticket[t]) = 0
  BY <1>2, DistType DEF TypeOK
<1>8. \A u \in Threads : Ahead'[u] = Ahead[u] \ {t}
  <2>1. SUFFICES ASSUME NEW u \in Threads PROVE Ahead'[u] = Ahead[u] \ {t}
    OBVIOUS
  <2>2. CASE u \in Outstanding'
    <3>1. u \in Outstanding /\ u # t
      BY <1>3, <2>2
    <3>2. Ahead'[u] = {v \in Outstanding' : Dist(ticket[v])' < Dist(ticket[u])'}
      BY <2>2 DEF Ahead
    <3>3. \A v \in Outstanding' :
             Dist(ticket[v])' < Dist(ticket[u])' <=> Dist(ticket[v]) < Dist(ticket[u])
      BY <3>1, <1>3, <1>5, <1>6
    <3>4. Ahead[u] = {v \in Outstanding : Dist(ticket[v]) < Dist(ticket[u])}
      BY <3>1 DEF Ahead
    <3> QED
      BY <3>2, <3>3, <3>4, <1>3
  <2>3. CASE u = t
    <3>1. Ahead[t] = {}
      BY <1>2, <1>5, <1>7 DEF Ahead
    <3>2. Ahead'[t] = {}
      BY <1>3 DEF Ahead
    <3> QED
      BY <2>3, <3>1, <3>2
  <2>4. CASE u \notin Outstanding
    BY <2>1, <2>4, <1>3 DEF Ahead
  <2> QED
    BY <2>2, <2>3, <2>4, <1>3
<1>9. Ahead' = [u \in Threads |-> Ahead[u] \ {t}]
  BY <1>8 DEF Ahead
<1>10. {u \in Threads : pc[u] \in Holding}' =
          {u \in Threads : pc[u] \in Holding} \ {t}
  BY DEF UnlockStore, Forget, TypeOK, Holding
<1>11. t \in {u \in Threads : pc[u] \in Holding}
  BY DEF UnlockStore, Holding
<1> QED
  BY <1>3, <1>9, <1>10, <1>11 DEF Served!Leave

\* Every other step is invisible to the clients of the lock.
LEMMA InvisibleStep ==
    ASSUME UNCHANGED <<serving_ticket, ticket>>,
           \A t \in Threads : /\ pc'[t] \in Holding <=> pc[t] \in Holding
                              /\ pc'[t] = "spin" <=> pc[t] = "spin"
    PROVE  UNCHANGED Served!mvars
<1>1. Outstanding' = Outstanding
  BY DEF Outstanding, Holding
<1>2. Ahead' = Ahead
  BY <1>1 DEF Ahead, Dist
<1>3. {u \in Threads : pc[u] \in Holding}' = {u \in Threads : pc[u] \in Holding}
  BY DEF Holding
<1> QED
  BY <1>1, <1>2, <1>3 DEF Served!mvars

\* ImplementsMutex for every finite set of threads: TicketLock refines the
\* first-come first-served lock of module Mutex.
THEOREM Refinement == Spec => ImplementsMutex
<1>1. Init => Served!Init
  BY DEF Init, Served!Init, Outstanding, Ahead, Holding
<1>2. ASSUME IInv, [Next]_vars PROVE [Served!Next]_(Served!mvars)
  <2> USE <1>2
  <2>1. ASSUME NEW t \in Threads, Lock(t) \/ TryLockTake(t) PROVE Served!Next
    BY <2>1, FetchAddAsks DEF Lock, TryLockTake, Outstanding, Holding, Served!Next
  <2>2. ASSUME NEW t \in Threads, SpinEnter(t) PROVE Served!Next
    BY <2>2, SpinEnters DEF Served!Next
  <2>3. ASSUME NEW t \in Threads, UnlockStore(t) PROVE Served!Next
    BY <2>3, UnlockLeaves DEF Served!Next
  <2>4. ASSUME NEW t \in Threads, TryLock(t) \/ Unlock(t) \/ UnlockLoad(t)
        PROVE  UNCHANGED Served!mvars
    BY <2>4, InvisibleStep
       DEF TryLock, Unlock, UnlockLoad, LoadServing, IInv, TypeOK, Holding
  <2>5. ASSUME NEW t \in Threads, TryLockTest(t) PROVE UNCHANGED Served!mvars
    BY <2>5, InvisibleStep DEF TryLockTest, LoadNext, IInv, TypeOK, Holding
  <2>6. ASSUME NEW t \in Threads, UnlockTest(t) PROVE UNCHANGED Served!mvars
    <3>1. current[t] # next_ticket
      <4>1. t \in Outstanding
        BY <2>6 DEF UnlockTest, LoadNext, Outstanding, Holding
      <4>2. next_ticket # serving_ticket
        BY <4>1, TicketsSuffice DEF IInv, TicketWindow, Dist, TypeOK, Tickets, Outstanding
      <4> QED
        BY <2>6, <4>2 DEF UnlockTest, LoadNext, IInv, HolderReadsAreFresh
    <3> QED
      BY <2>6, <3>1, InvisibleStep DEF UnlockTest, LoadNext, IInv, TypeOK, Holding
  <2>7. CASE UNCHANGED vars
    BY <2>7, InvisibleStep DEF vars
  <2> QED
    BY <2>1, <2>2, <2>3, <2>4, <2>5, <2>6, <2>7 DEF Next, Proceed
<1> QED
  BY <1>1, <1>2, Invariant, PTL DEF Spec, ImplementsMutex, Served!Spec
=============================================================================
