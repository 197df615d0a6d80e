SPECIFICATION Spec
CONSTANTS
    Requests = {r1, r2}
    Keys = {k1, k2}
    Limit = 2
    Window = 1
    Estimates <- SomeEstimates
    MaxOverrun = 1
    Workers = 2
    MaxTime = 3
    MaxStepBack = 0
SYMMETRY RequestSymmetry
INVARIANTS TypeOK WindowBound IInv LedgerAgrees GrantedOnce RetryHelps
PROPERTIES HoldsSurvive KeepsBudget
