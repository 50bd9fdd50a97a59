\* A second read of the origin before the client took the first; no encoding overhead at all.
SPECIFICATION Spec
CONSTANTS
    Cap = 5
    Reserve = 1
    ReadSize = 2
    ChunkOverhead = 0
    EndChunk = 0
    HeaderOverhead = 0
    MaxLine = 1
    LineSize = 2
    PipeCap = 2
    Transforms = FALSE
    Tunnels = {FALSE}
    InitialRequests <- SomeRequests
    ClientBytes = 6
    OriginBytes = 6
    SocketCap = 5
INVARIANT
    NothingLost
CHECK_DEADLOCK FALSE
