CONSTANTS
    o1 = o1
    o2 = o2
    o3 = o3
    e1 = e1
    e2 = e2
    None = None
    Ops = {o1, o2, o3}
    Clients = {c1}
    Runners = {e1, e2, o3}
    Concurrent = {o3}
    Priority <- MCPriority
    Counts <- MCCounts
    InitialCount <- DefaultCount
    Flags = {TRUE, FALSE}
    PoolSize = 2
SPECIFICATION HandoffFairSpec
INVARIANTS OnOneWay
PROPERTIES HandoffImplements EveryOperationRuns
