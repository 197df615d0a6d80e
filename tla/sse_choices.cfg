SPECIFICATION Spec
CONSTANTS
    MaxHoldback = 6
    Lookbehind = 6
    Indices = {0, 1}
    MaxText = 3
    MaxChunk = 2
    LateChunks = {}
INVARIANT EachChoiceWhole
CHECK_DEADLOCK FALSE
