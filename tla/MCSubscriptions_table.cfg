SPECIFICATION Spec
CONSTANTS
    Filters <- MCFilters
    SimpleFilters <- MCSimpleFilters
    Unstorable <- MCUnstorable
    Topics <- MCTopics
    MatchedBy <- MCMatchedBy
    NoFilter = NoFilter
    MAX_SUBSCRIPTIONS = 2
    MAX_PARALLEL_OPS = 2
    MAX_REQUESTS = 4
    MAX_MESSAGES = 3
    Overlap = FALSE
INVARIANTS
    CountIsExact
    OneEntryPerFilter
    ToldIsTrue
PROPERTIES
    MessagesReachSubscribers
CHECK_DEADLOCK FALSE
