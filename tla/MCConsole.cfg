SPECIFICATION Spec
CONSTANTS
    FIFO_DEPTH = 2
    Frames = 3
    STACKTRACE_MAX = 2
    MaxRaised = 2
    NoByte = NoByte
INVARIANTS
    TypeOK
    OutputInOrder
PROPERTIES
    PanicPrinted
    KernelHalts
\* The kernel halts.
CHECK_DEADLOCK FALSE
