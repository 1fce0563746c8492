SPECIFICATION FairSpec
CONSTANTS
    p1 = p1
    p2 = p2
    p3 = p3
    own = own
    m1 = m1
    m2 = m2
    Source = Source
    None = None
    Performs = {p1, p2, p3, own}
    Local = {own}
    Modes = {m1, m2}
    Inputs = {m1}
    ModesOf <- MCModesOf
    Order <- MCOrder
    PipeSize = 2
    MaxDepth = 2
INVARIANTS
    InOnePlace
    HandedAreSignalled
PROPERTIES
    OrderKept
    CallersReleased
CHECK_DEADLOCK FALSE
