CONSTANTS
    Connections <- MCConnections
    Sent <- MCSent
    Stream <- MCStream
    Start <- MCStart
    RX_BUFFER_SIZE = 9
    BUFFER_SIZE = 7
    NUM_BUFFERS = 2
SPECIFICATION Spec
PROPERTIES
    HandlesEveryPacket
