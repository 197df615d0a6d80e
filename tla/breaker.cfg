SPECIFICATION FairSpec
CONSTANTS
    Requests = {r1, r2, r3, r4}
    Threshold = 3
    RecoveryTime = 4
    AttemptTimeout = 3
INVARIANTS TypeOK SlotOwned ProbeAlone IInv
PROPERTIES ClosesOnceHealthy SlotReturned
