CONSTANTS
    o1 = o1
    o2 = o2
    o3 = o3
    o4 = o4
    w1 = w1
    w2 = w2
    None = None
    Ops = {o1, o2, o3, o4}
    Clients = {c1, c2}
    Runners = {w1, w2, o4}
    Concurrent = {o4}
    Priority <- MCPriority
    Counts <- MCCounts
    InitialCount <- DefaultCount
    Flags = {TRUE, FALSE}
    PoolSize = 2
    DetachCanFail = TRUE
SPECIFICATION Spec
INVARIANTS TypeOK OnePlace SlotsCounted WorkSignalled ThreadsCounted
PROPERTIES FirstComeFirstServed ImplementsBoundedExecutor
SYMMETRY MCSymmetry
