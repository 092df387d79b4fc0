SPECIFICATION Spec
CONSTANTS
    WORD = 64
    PageSize = 2
    Base = 8
    MinAddr = 10
    MaxAddr = 32
    CODEMAX = 8
    BrkMax = 4
    StackSize = 2
    Images <- MCImages
    NoImage = NoImage
INVARIANTS
    TypeOK
    PartsApart
    StartsSpace
    SegmentsMapped
CHECK_DEADLOCK FALSE
