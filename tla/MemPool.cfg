CONSTANTS
    ElemSize = 2
    ElemNums = {2, 4, 10}
    Addresses <- SomeAddresses
    MaxBlocks = 4
    MaxFaults = 1
SPECIFICATION Spec
INVARIANTS
    TypeOK
    FreeChainIntact
    ForeignMemoryCauses
PROPERTIES
    AllocatorSpec
CHECK_DEADLOCK FALSE
