SPECIFICATION Spec
CONSTANTS
    StackTop = 3000000
    StackSize = 2097152
    ARG_BLOCK = 4096
    ARGC_MAX = 1024
    ARGV_MAX = 1024
    Word = 8
    AuxCount = 19
    Argvs <- MCArgvs
INVARIANTS
    TypeOK
    GuestSeesArguments
    WritesInBlocks
CHECK_DEADLOCK FALSE
