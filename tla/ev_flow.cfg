CONSTANTS
    Processes = {w1, w2}
    None = None
    Scenarios <- MCScenarios
    QueueSize = 1
    MaxAttempts = 2
SPECIFICATION FairSpec
INVARIANTS StateFollowsTimeline GhostsHaveACause LossesHaveACause ViewIsComplete OnlyLateEventsLeak
PROPERTIES QueuesDrain
CHECK_DEADLOCK FALSE
