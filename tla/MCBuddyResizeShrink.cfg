SPECIFICATION Spec
CONSTANTS
    Slots = 8
    Sizes = {1, 2, 4}
    Ranges = {1, 2, 3}
    Resizes <- MCShrinking
INVARIANT
    BlocksSurviveResize
