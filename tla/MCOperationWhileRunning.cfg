\* An operation is added to the queue while its dependency is run.
SPECIFICATION FairSpec
CONSTANTS
    a = a
    b = b
    c = c
    Ops = {a, b}
    Clients = {c1}
    Runners = {r1}
    Edges <- Pair
    LateAddition = FALSE
    AddWhileRunning = TRUE
    Cancellable = {}
    WaitedFor = {a}
    Queue = Queue
    None = None
PROPERTIES WaitersReturn
CHECK_DEADLOCK FALSE
