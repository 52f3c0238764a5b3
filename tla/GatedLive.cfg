CONSTANTS
    g1 = g1
    g2 = g2
    s1 = s1
    c1 = c1
    c2 = c2
    Gameds <- OneGamed
    Strays <- OneStray
    Clients <- OneClient
    NoConn = NoConn
    MaxSend = 2
    MaxFaults = 0
    MaxFds = 4
SPECIFICATION FairSpec
PROPERTIES
    AuthLeadsToService
    InterLossStopsGated
    ServiceLiveSpec
CHECK_DEADLOCK FALSE
