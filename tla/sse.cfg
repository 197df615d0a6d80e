SPECIFICATION Spec
CONSTANTS
    MaxHoldback = 6
    Lookbehind = 6
    Indices = {0}
    MaxText = 7
    MaxChunk = 2
    LateChunks <- MCLate
INVARIANTS TypeOK RedactedAsWhole HeldForAMatch EndsComplete
CHECK_DEADLOCK FALSE
