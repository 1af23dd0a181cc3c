CONSTANTS
    a = a
    b = b
    Tasks = {t1, t2}
    NoTask = none
    Things = {a, b}
    NoThing = nothing
    Calls <- MCCalls
    shadowconfigMAX_THINGS_WITH_CALLBACKS = 1
    Faults = {"mqtt", "lost", "other", "duplicate"}
    MAX_EVENTS = 1
    MAX_CALLS = 2
    MAX_INBOX = 2
SPECIFICATION FairSpec
CHECK_DEADLOCK FALSE
INVARIANTS
    CleanBetweenOperations
    AnswerIsOwn
    BuffersAreHandedOver
PROPERTIES
    OwnAnswerIsNotNotified
    EveryCallReturns
