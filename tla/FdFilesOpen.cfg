SPECIFICATION Spec
CONSTANTS
    t1 = t1
    t2 = t2
    d1 = d1
    d2 = d2
    fstdin = fstdin
    fstdout = fstdout
    fstderr = fstderr
    NULL = NULL
    SIZE_MAX = 4
    Thread <- Threads2
    File <- FilesDirs
    Dir <- Dirs2
    NOFILE = 4
    MallocMayFail = TRUE
    SerialOpens = FALSE
    QuietCloses = FALSE
    SerialCwd = TRUE
INVARIANTS
    TypeOK
    ReferencedLive
SYMMETRY Symmetric
