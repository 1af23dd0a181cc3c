SPECIFICATION MatchSpec
CONSTANTS
    TopicStrings <- MCTopics
    FilterStrings <- MCFilters
INVARIANTS
    FiltersMeanWhatTheySay
CHECK_DEADLOCK FALSE
