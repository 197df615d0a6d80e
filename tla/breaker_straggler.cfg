SPECIFICATION Spec
CONSTANTS
    Requests = {r1, r2, r3}
    Threshold = 2
    RecoveryTime = 3
    AttemptTimeout = 2
SYMMETRY RequestSymmetry
PROPERTY StaysOpen
