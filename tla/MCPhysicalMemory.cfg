SPECIFICATION FairSpec
CONSTANTS
    Threads = {t1, t2}
    PAGE_SIZE = 2
    MemMaps <- AllMaps
    Counts = {1, 2}
INVARIANTS
    TypeOK
    EveryPageOnce
    StatsAgree
    SinglePagePanicMeansFull
PROPERTY
    CallsReturn
