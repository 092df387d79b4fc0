SPECIFICATION Spec
CONSTANTS
    t1 = t1
    t2 = t2
    Thread <- Threads2
    Size = 3
    MaxLen = 2
    MaxVec = 2
    Offsets <- MCOffsets
    MaxOffset = 4
    Errno = 5
    EBADF = 9
    SerialPread = TRUE
INVARIANTS
    TypeOK
    StreamExact
    CountsReported
    PreadPositional
SYMMETRY Symmetric
CHECK_DEADLOCK FALSE
