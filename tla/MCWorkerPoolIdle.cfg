CONSTANTS
    o1 = o1
    o2 = o2
    o3 = o3
    o4 = o4
    w1 = w1
    w2 = w2
    None = None
    Ops = {o1, o2}
    Clients = {c1}
    Runners = {w1, w2}
    Concurrent = {}
    Priority <- MCPriority
    Counts = {}
    InitialCount = 1
    Flags = {}
    PoolSize = 2
    DetachCanFail = FALSE
SPECIFICATION FairSpec
PROPERTIES EveryOperationRuns
CHECK_DEADLOCK FALSE
