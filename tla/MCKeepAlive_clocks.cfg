CONSTANTS
    Operations = {o1, o2}
    Timeouts = {0, 2, 5}
    KEEP_ALIVE_INTERVAL = 10
    ACTUAL_INTERVAL = 4
    PING_TIMEOUT = 2
    MAX_BLOCK = 3
    FOREVER = 6
    MAX_LAG = 1
SPECIFICATION Spec
SYMMETRY OperationSymmetry
INVARIANTS
    OperationsEndInTime
    SilenceIsBounded
PROPERTIES
    NothingEndsEarly
