SPECIFICATION Spec
CONSTANTS
    Hosts = {h1, h2}
    Ctxs = {c1, c2}
    NULL = NULL
    Vals = {0, 1}
    Zero = 0
    MaxNest = 2
SYMMETRY Symmetric
INVARIANTS
    GuestOwnsThread
PROPERTIES
    ActsAsProcessor
CHECK_DEADLOCK FALSE
