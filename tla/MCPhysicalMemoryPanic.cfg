SPECIFICATION Spec
CONSTANTS
    Threads = {t1, t2}
    PAGE_SIZE = 2
    MemMaps <- SmallMaps
    Counts = {1, 2}
INVARIANT
    PanicMeansNoRun
