SPECIFICATION FairSpec
CONSTANTS
    Slots = 5
    FirstLeaf = 8
    Order = 4
    DepthOf <- MCDepthOf
    Sizes = {0, 1, 2, 3, 5}
INVARIANTS
    TypeOK
    TreeConsistent
    LoopInvariant
    StatusMeansRoom
    StrayFreesMiss
    NullMeansNoRoom
PROPERTIES
    CallsReturn
    ImplementsBlocks
