SPECIFICATION FairSpec
CONSTANTS
    Base = 3
    Limit = 8
    Memory = {1, 2, 3}
    Counts = {0, 1, 2, 6}
    Ghosts = {7}
INVARIANT
    MappedFramesAreTaken
