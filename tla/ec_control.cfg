CONSTANTS
    NumExecs = 3
    NumGpus = 2
    NoExec = NoExec
    NoGpu = NoGpu
    NumStages = 2
    MaxIterations <- TwoAndOne
    NumWorkers = 2
    NumSeeds = 1
    MaxTerminations = 1
    MaxSkips = 1
    MaxTimeouts = 1
    MaxFaults = 1
    MaxEvents = 1
SPECIFICATION FairSpec
INVARIANTS GpusAreExclusive AckedMeansFeedback SkipIsPrompt
PROPERTIES ExperimentEnds
CHECK_DEADLOCK FALSE
