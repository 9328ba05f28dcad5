SPECIFICATION FairSpec
CONSTANTS
    t1 = t1
    t2 = t2
    Threads = {t1, t2}
    Levels = 2
    Fan = 2
    TableFrames = {1, 2, 3}
    Root = 1
    Owner <- MCOwner
    FrameOwner <- MCFrameOwner
    Firmware <- MCFirmware
INVARIANTS
    TypeOK
    TablesFormTree
PROPERTIES
    LookupsAgree
    CallsReturn
    ImplementsAddressSpace
