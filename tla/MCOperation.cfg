\* Dependencies are given and taken away before an operation is in a queue, and
\* an operation is added before its dependencies or after they have been told.
SPECIFICATION FairSpec
CONSTANTS
    a = a
    b = b
    c = c
    Ops = {a, b, c}
    Clients = {c1}
    Runners = {r1, r2}
    Edges <- Diamond
    LateAddition = FALSE
    AddWhileRunning = FALSE
    Cancellable = {b, c}
    WaitedFor = {c}
    Queue = Queue
    None = None
INVARIANTS FinishedHasRun ReleasedLast NoLostWakeup
PROPERTIES StartsAfterDependencies EveryOperationFinishes WaitersReturn
CHECK_DEADLOCK FALSE
