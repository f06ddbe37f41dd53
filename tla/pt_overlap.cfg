CONSTANTS
    Runs = {r1}
    Workers = {w1, w2}
    Pods = {p1}
    NoWorker = NoWorker
    NoPod = NoPod
    MaxUploadAttempts = 3
    MaxConcurrency = 1
    MaxStops = 0
    MaxLockLosses = 1
    MaxDbFaults = 0
    MaxLoopFaults = 1
    AttemptCap = 3
CHECK_DEADLOCK FALSE
SYMMETRY Symmetry
SPECIFICATION Spec
INVARIANTS DeletionIsEarned  
