CONSTANTS
    g1 = g1
    g2 = g2
    c1 = c1
    Gameds <- TwoGameds
    Strays <- None
    Clients <- OneClient
    NoConn = NoConn
    MaxSend = 0
    MaxFaults = 1
    MaxFds = 2
    NonStringKeys <- None
    LuaGlobals <- Globals
    INT_MAX = 127
    Files <- SomeFiles
    Addresses <- SomeAddresses
    Argvs <- SomeArgvs
SPECIFICATION FairServerSpec
INVARIANTS
    ServerTypeOK
    ServiceAfterStartup
PROPERTIES
    QueuedPacketServed
    GamedFollowsGated
    GatedFollowsGamed
CHECK_DEADLOCK FALSE
