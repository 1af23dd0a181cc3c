CONSTANTS
    Tasks = {t1, t2}
    NoTask = none
    NoSocket = nosocket
    CREATEABLE_SOCKETS = 2
    BYTEQ_SIZE = 2
    RECV_LENGTH = 2
    MAX_BYTES = 2
SPECIFICATION Spec
SYMMETRY AlikeTasks
INVARIANTS
    SendsToItsPeer
