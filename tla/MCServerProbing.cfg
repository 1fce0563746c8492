SPECIFICATION FairSpec
CONSTANTS
    a = a
    b = b
    c = c
    Hosts = {a, b, c}
    Nets <- MCNets
    Config <- MCConfig
    NoProbe = {b, c}
    Interval = 1
    Expiry = 1
    MaxCrashes = 1
INVARIANTS
    ListInOrder
PROPERTIES
    NoFalseDrop
    LiveAreFound
    DeadAreForgotten
