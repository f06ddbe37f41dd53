CONSTANTS
    Runs = {r1}
    Workers = {w1, w2}
    Pods = {p1}
    NoWorker = NoWorker
    NoPod = NoPod
    MaxUploadAttempts = 3
    MaxConcurrency = 1
    MaxStops = 1
    MaxLockLosses = 0
    MaxDbFaults = 1
    MaxLoopFaults = 0
    AttemptCap = 4
SPECIFICATION FairSpec
PROPERTIES  CompletesRequests
CHECK_DEADLOCK FALSE
