CONSTANTS
    g1 = g1
    c1 = c1
    c2 = c2
    Gameds <- OneGamed
    Strays = {}
    Clients <- TwoClients
    NoConn = NoConn
    MaxSend = 2
    MaxFaults = 1
    MaxFds = 2
SPECIFICATION LoopSpec
INVARIANTS
    LoopIntact
    OutputIsPolled
PROPERTIES
    Progress
    GatedFairSpec
CHECK_DEADLOCK FALSE
