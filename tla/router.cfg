SPECIFICATION Spec
CONSTANTS
    Requests = {r1, r2}
    Keys = {k1}
    Limit = 1
    Window = 0
    Estimates <- OneToken
    MaxOverrun = 0
    Workers = 2
    MaxTime = 2
    MaxStepBack = 0
    Threshold = 1
    RecoveryTime = 1
    AttemptTimeout = 2
    TotalDeadline = 2
    MaxCancels = 1
SYMMETRY RequestSymmetry
INVARIANTS TypeOK ChargedIffAnswered AnswerExplained AttemptsCapped SlotInRoute
