CONSTANTS
    MaxIterations = 2
    MaxMetric = 2
    MaxFaults = 1
    MaxRetries = 2
    MaxRounds = 1
    MaxKills = 1
    MaxResumes = 1
SPECIFICATION FairSpec
INVARIANTS BestIsKept OutcomeHasACause PapersHaveACause 
PROPERTIES LaunchesEnd
CHECK_DEADLOCK FALSE
