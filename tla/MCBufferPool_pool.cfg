CONSTANTS
    Tasks = {t1, t2, t3}
    NoTask = none
    NUM_BUFFERS = 3
    BUFFER_SIZE = 2
    Lengths = {1, 2, 3}
SPECIFICATION PoolSpec
SYMMETRY TaskSymmetry
INVARIANTS InUseIffHeld FailureIsJustified
