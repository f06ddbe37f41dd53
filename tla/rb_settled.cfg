CONSTANTS
    MaxPods = 2
    MaxHolds = 2
    MaxRetries = 3
    MaxFaults = 2
    MaxCrashes = 1
    MaxOutages = 1
SPECIFICATION FairSpec
INVARIANTS SettlementIsExact
PROPERTIES SettledIsFinal 
CHECK_DEADLOCK FALSE
