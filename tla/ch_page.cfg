CONSTANTS
    Requests = {q1, q2}
    Tabs = {t1}
    None = None
    MaxFaults = 1
    MaxLeaves = 1
SPECIFICATION Spec
INVARIANTS  DoubleRepliesHaveACause EmptyReplyHasACause
PROPERTIES PollingEnds
CHECK_DEADLOCK FALSE
