CONSTANTS
    ElemSize = 2
    ElemNums = {10}
    Addresses <- SomeAddresses
    MaxBlocks = 4
    MaxFaults = 0
SPECIFICATION Spec
INVARIANTS
    OwnMemoryOnly
CHECK_DEADLOCK FALSE
