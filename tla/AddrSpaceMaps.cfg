SPECIFICATION Spec
CONSTANTS
    PageSize = 4
    MinAddr = 4
    MaxAddr = 28
    BrkBase = 12
    BrkMax = 8
    StackSize = 4
    UserArg <- UserArgs
    HostMayFail = TRUE
INVARIANTS
    TypeOK
    BrkRegionReserved
    HeapMapped
    MapsKnown
PROPERTIES
    AlignedBrkConfined
CHECK_DEADLOCK FALSE
