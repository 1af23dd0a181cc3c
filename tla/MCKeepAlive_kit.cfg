CONSTANTS
    Operations = {o1}
    Timeouts = {2}
    KEEP_ALIVE_INTERVAL = 2
    ACTUAL_INTERVAL = 6
    PING_TIMEOUT = 2
    MAX_BLOCK = 3
    FOREVER = 6
    MAX_LAG = 0
SPECIFICATION Spec
INVARIANTS
    ServerHearsInTime
