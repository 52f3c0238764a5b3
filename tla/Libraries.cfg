CONSTANTS
    h1 = h1
    h2 = h2
    e1 = e1
    e2 = e2
    e3 = e3
    p1 = p1
    p2 = p2
    Heads <- TwoHeads
    Entries <- ThreeEntries
    Wild = Wild
    Producers <- TwoProducers
    TASK_QUEUE_SIZE = 3
    MaxCalls = 2
    ThreadNum = 2
    Nobody = Nobody
    Texts <- ShortTexts
    Other = Other
    NonStringKeys <- Unnamed
    LuaGlobals <- Globals
    INT_MAX = 127
    Files <- SomeFiles
    Keys <- SomeKeys
    MIN_BUFFER_SIZE = 4
    ChainSize = 1
    MaxRead = 5
    ReadVecs = 2
    PacketSize = 2
    MaxBytes = 5
    MaxOom = 1
SPECIFICATION LibSpec
INVARIANTS
    ListsIntact
    SafeLoopMeetsAll
    RingIsAccepted
    AtoiIsValue
    OutcomeOfFile
    ReadyConfigReadable
    ChainsIntact
PROPERTIES
    ListSeqSpec
    QueueSpec
    StreamSpec
    EveryCallReturns
CHECK_DEADLOCK FALSE
