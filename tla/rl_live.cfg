CONSTANTS
    Pods = {p1}
    NoPod = NoPod
    Monitor = Monitor
    Handlers = {h1}
    MaxRestarts = 1
    MaxStops = 1
    MaxDeaths = 1
    MaxRefusals = 1
    MaxDuplicates = 1
    MaxMishaps = 1
    MaxEvents = 2
SPECIFICATION FairSpec
INVARIANTS ClosedRunsAreRequested
PROPERTIES EveryRunEnds 
CHECK_DEADLOCK FALSE
