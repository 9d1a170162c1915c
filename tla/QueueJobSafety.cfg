SPECIFICATION FairSpec
CONSTANTS
    p = p
    c = c
    Jobs = {p, c}
    Parents <- Chain
    Workers = {w1, w2}
    None = None
    Capacity = 1
    MaxRetries = 1
    MaxCalls = 2
    MaxUser = 1
    MaxFault = 1
INVARIANTS
    NotStranded
    MutualExclusion
    EffectsOnce
    CapacityRespected
PROPERTIES
    ParentsFirst
    JobRuns
CHECK_DEADLOCK FALSE
