CONSTANTS
    g1 = g1
    g2 = g2
    s1 = s1
    c1 = c1
    c2 = c2
    Gameds <- OneGamed
    Strays <- OneStray
    Clients <- OneClient
    NoConn = NoConn
    MaxSend = 1
    MaxFaults = 0
    MaxFds = 3
SPECIFICATION Spec
INVARIANTS
    RpcAssertionHolds
CHECK_DEADLOCK FALSE
