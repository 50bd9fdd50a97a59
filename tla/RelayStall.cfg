\* A transformed response larger than the response buffer.
SPECIFICATION FairSpec
CONSTANTS
    Cap = 3
    Reserve = 1
    ReadSize = 2
    ChunkOverhead = 1
    EndChunk = 1
    HeaderOverhead = 1
    MaxLine = 1
    LineSize = 2
    PipeCap = 2
    Transforms = TRUE
    Tunnels = {FALSE}
    InitialRequests = {1}
    ClientBytes = 0
    OriginBytes = 4
    SocketCap = 2
PROPERTY
    PausedOriginResumes
CHECK_DEADLOCK FALSE
