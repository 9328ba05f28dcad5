SPECIFICATION Spec
CONSTANTS
    Slots = 2
    Sizes = {1, 2, 4}
    Ranges = {1, 2, 3}
    Resizes <- MCGrowing
INVARIANTS
    TypeOK
    CompareAgreesWithRead
    BitsMatchBlocks
    QueriesAgree
