CONSTANTS
    ElemSize = 2
    ElemNums = {4}
    Addresses <- SomeAddresses
    MaxBlocks = 4
    MaxFaults = 1
SPECIFICATION Spec
PROPERTIES
    FreeFindsBlock
CHECK_DEADLOCK FALSE
