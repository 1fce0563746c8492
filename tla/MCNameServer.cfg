SPECIFICATION Spec
CONSTANTS
    h1 = h1
    h2 = h2
    c1 = c1
    c2 = c2
    None = None
    Hosts = {h1, h2}
    Clients = {c1, c2}
    HostOf <- MCHostOf
    Calls <- MCCalls
    Known <- MCKnown
    Names = {1, 2}
    Ports = {0, 1, 2}
    Types <- MCTypes
    Sockets <- MCSockets
    ShortHosts = {h1}
    Descs = {1, 2}
    Conns = {1, 2}
    ReqSize = 2
    MaxCalls <- MCMaxCalls
    MaxFaults = 1
    Writes = {1, 2}
INVARIANTS
    TypeOK
    NamesAreFound
    TablesAgree
    AnswersAreTrue
PROPERTIES
    LiveNamesStay
