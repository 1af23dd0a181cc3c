CONSTANTS
    i0 = i0
    i1 = i1
    i2 = i2
    Images = {i0, i1, i2}
    Factory = i0
    Version <- MCVersion
    BlocksOf <- MCBlocksOf
    b1 = b1
    b2 = b2
    Blocks = {b1, b2}
    NoData = nodata
    ENABLE_DEFAULT_START = FALSE
    ENABLE_ERASE_INVALID = TRUE
    Jobs = {i1, i2}
    CustomJobs = {}
    NoJob = nojob
    OTA_NUM_MSG_Q_ENTRIES = 1
    OTA_MAX_STREAM_REQUEST_MOMENTUM = 1
    Verdicts = {"Accepted", "Rejected"}
    Faults = {"publish", "subscribe", "unsubscribe", "malloc", "write", "erase", "verify", "header", "trailer", "lost", "duplicate", "power", "cancel"}
    MAX_EVENTS = 1
SPECIFICATION FairSpec
CHECK_DEADLOCK FALSE
INVARIANTS
    BitmapMatchesFlash
    NoMessageStranded
PROPERTIES
    NewImageIsAuthentic
    SucceededMeansCommitted
    ProbationIsOnce
    TransferEnds
    ProbationEnds
