\* Liveness of a plain connection.
SPECIFICATION FairSpec
CONSTANTS
    Cap = 3
    Reserve = 1
    ReadSize = 2
    ChunkOverhead = 1
    EndChunk = 1
    HeaderOverhead = 1
    MaxLine = 1
    LineSize = 2
    PipeCap = 2
    Transforms = FALSE
    Tunnels = {FALSE}
    InitialRequests = {1}
    ClientBytes = 2
    OriginBytes = 2
    SocketCap = 2
PROPERTIES
    EndsAfterOriginCloses
    EndsAfterClientCloses
CHECK_DEADLOCK FALSE
