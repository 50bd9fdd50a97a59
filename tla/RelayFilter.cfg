\* A connection whose responses may be transformed.
SPECIFICATION Spec
CONSTANTS
    Cap = 6
    Reserve = 3
    ReadSize = 2
    ChunkOverhead = 1
    EndChunk = 1
    HeaderOverhead = 2
    MaxLine = 2
    LineSize = 2
    PipeCap = 2
    Transforms = TRUE
    Tunnels = {FALSE}
    InitialRequests <- SomeRequests
    ClientBytes = 2
    OriginBytes = 5
    SocketCap = 5
INVARIANTS
    TypeOK
    MustCloseIsWatched
    ClosedIsDraining
    NothingLeaks
    OneEndChunk
PROPERTY
    LossHasCause
CHECK_DEADLOCK FALSE
