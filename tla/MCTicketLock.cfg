SPECIFICATION FairSpec
CONSTANTS
    Threads = {t1, t2, t3}
    Modulus = 4
INVARIANTS
    TypeOK
    MutualExclusion
    TicketsInOrder
PROPERTIES
    CallsReturn
    ImplementsFairMutex
