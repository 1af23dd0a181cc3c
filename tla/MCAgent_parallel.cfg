CONSTANTS
    Tasks = {t1, t2}
    MqttTask = mqtt
    NoTask = none
    MAX_BROKERS = 1
    MAX_PARALLEL_OPS = 2
    NUM_BUFFERS = 2
    MESSAGE_IDENTIFIER_MAX = 4
    UsedOps = {"Connect", "Disconnect", "Subscribe"}
    ForeignAt = {"ready", "enqueue", "wait"}
SPECIFICATION Spec
SYMMETRY TaskSymmetry
INVARIANTS
    NothingStale
    SlotsMatchTx
    BufferConservation
    SocketMatchesState
    NeverHalted
PROPERTIES
    WaitingIsServedOnce
    ConnectFailureMeansClosed
    ImplementsCalls
