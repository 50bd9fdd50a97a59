\* A plain HTTP connection, or a CONNECT tunnel, without a transformation.
SPECIFICATION Spec
CONSTANTS
    Cap = 5
    Reserve = 1
    ReadSize = 2
    ChunkOverhead = 1
    EndChunk = 1
    HeaderOverhead = 1
    MaxLine = 1
    LineSize = 2
    PipeCap = 2
    Transforms = FALSE
    Tunnels = {FALSE, TRUE}
    InitialRequests <- SomeRequests
    ClientBytes = 6
    OriginBytes = 6
    SocketCap = 5
INVARIANTS
    NoStrandedBytes
    PausedIsResumed
PROPERTY
    KilledForAReason
CHECK_DEADLOCK FALSE
