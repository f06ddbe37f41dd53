CONSTANTS
    MaxPods = 2
    MaxHolds = 1
    MaxRetries = 1
    MaxFaults = 0
    MaxCrashes = 0
    MaxOutages = 0
SPECIFICATION BillingSpec
INVARIANTS EveryPodIsCharged
CHECK_DEADLOCK FALSE
