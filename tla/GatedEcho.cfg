CONSTANTS
    g1 = g1
    g2 = g2
    s1 = s1
    c1 = c1
    c2 = c2
    Gameds <- OneGamed
    Strays <- OneStray
    Clients <- TwoClients
    NoConn = NoConn
    MaxSend = 2
    MaxFaults = 1
    MaxFds = 3
SYMMETRY ClientSymmetry
SPECIFICATION Spec
INVARIANTS
    EchoIntegrity
PROPERTIES
    ServiceSpec
CHECK_DEADLOCK FALSE
