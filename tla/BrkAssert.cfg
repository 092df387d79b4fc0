SPECIFICATION Spec
CONSTANTS
    PageSize = 4
    MinAddr = 4
    MaxAddr = 28
    BrkBase = 8
    BrkMax = 8
    StackSize = 4
    UserArg <- UserArgs
    HostMayFail = FALSE
INVARIANTS
    BrkAssertHolds
CHECK_DEADLOCK FALSE
