SPECIFICATION Spec
CONSTANTS
    Requests = {r1, r2, r3}
    Keys = {k1, k2}
    Limit = 1
    Window = 1
    Estimates <- UnitEstimate
    MaxOverrun = 0
    Workers = 2
    MaxTime = 4
    MaxStepBack = 0
SYMMETRY RequestSymmetry
INVARIANT RollingCharge
