CONSTANTS
    Tasks = {t1}
    MqttTask = mqtt
    NoTask = none
    MAX_BROKERS = 1
    MAX_PARALLEL_OPS = 1
    NUM_BUFFERS = 2
    MESSAGE_IDENTIFIER_MAX = 4
    UsedOps = {"Connect", "Disconnect", "Subscribe", "Unsubscribe", "Publish0", "Publish1"}
    ForeignAt = {"ready"}
SPECIFICATION FairSpec
PROPERTIES
    EveryCallReturns
