CONSTANTS
    g1 = g1
    g2 = g2
    s1 = s1
    c1 = c1
    c2 = c2
    Gameds <- TwoGameds
    Strays <- OneStray
    Clients <- OneClient
    NoConn = NoConn
    MaxSend = 1
    MaxFaults = 1
    MaxFds = 3
SYMMETRY GamedSymmetry
SPECIFICATION Spec
INVARIANTS
    TypeOK
    ServiceIffAuthenticated
    ClientNeverGamed
    ServiceAfterGamed
PROPERTIES
    InterDataEndsOpenService
    LoopExitHasInterCause
CHECK_DEADLOCK FALSE
