SPECIFICATION Spec
CONSTANTS
    Requests = {r1, r2}
    Keys = {k1}
    Limit = 2
    Window = 0
    Estimates <- OneToken
    MaxOverrun = 0
    Workers = 2
    MaxTime = 1
    MaxStepBack = 0
    Threshold = 1
    RecoveryTime = 2
    AttemptTimeout = 1
    TotalDeadline = 2
    MaxCancels = 1
SYMMETRY RequestSymmetry
INVARIANT CancelledGivesBack
