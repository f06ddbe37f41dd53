CONSTANTS
    Pods = {p1, p2}
    NoPod = NoPod
    Monitor = Monitor
    Handlers = {h1}
    MaxRestarts = 1
    MaxStops = 0
    MaxDeaths = 0
    MaxRefusals = 0
    MaxDuplicates = 0
    MaxMishaps = 0
    MaxEvents = 0
SYMMETRY Symmetry
SPECIFICATION Spec
INVARIANTS OrphansHaveACause
CONSTRAINT Unrepointed
CHECK_DEADLOCK FALSE
