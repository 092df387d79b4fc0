SPECIFICATION FairSpec
CONSTANTS
    main = main
    t1 = t1
    t2 = t2
    NULL = NULL
    Thread <- Threads3
    Word <- Words
    CtidOf <- Ctid
    PtidOf <- Ptid
    Flags <- AllFlags
    TidAddress <- OwnWord
INVARIANTS
    TypeOK
    JoinSafe
    NoLostWakeup
PROPERTIES
    JoinReturns
CHECK_DEADLOCK FALSE
