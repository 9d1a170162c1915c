SPECIFICATION FairSpec
CONSTANTS
    p = p
    c = c
    Jobs = {p, c}
    Parents <- Chain
    Workers = {w1, w2}
    None = None
    Capacity = 2
    MaxRetries = 2
    MaxCalls = 1
    MaxUser = 1
    MaxFault = 0
PROPERTIES
    ReadyJobsStart
CHECK_DEADLOCK FALSE
