\* Three threads, two values, every call.
SPECIFICATION FairSpec
CONSTANTS
    Threads = {t1, t2, t3}
    Conditions = {idle, work}
    Initial = idle
    Any = Any
    None = None
INVARIANTS NoSleeperForgotten
PROPERTIES ImplementsConditionalLock WaitersServed DatedCallsReturn
