SPECIFICATION HttpSpec
CONSTANTS
    Requests = {r1, r2}
    Keys = {k1}
    Limit = 1
    Window = 0
    Estimates <- OneToken
    MaxOverrun = 0
    Workers = 1
    MaxTime = 1
    MaxStepBack = 0
    Threshold = 1
    RecoveryTime = 1
    AttemptTimeout = 1
    TotalDeadline <- Unlimited
    MaxCancels = 1
INVARIANT StatusTrue
PROPERTY EveryCallAnswered
