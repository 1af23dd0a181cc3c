CONSTANTS
    TICK_RATE_HZ = 2
    TICK_RANGE = 8192
    Periods <- TwoPeriods
    ACK_WAIT = 2
    MAX_ACTIVE = 12
    MAX_EARLIER = 2
SPECIFICATION FairSpec
INVARIANTS
    StatusIsEarned
PROPERTIES
    NeverOversleeps
    RoundsGoOn
