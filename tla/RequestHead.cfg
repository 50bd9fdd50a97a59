\* The heads of requests, in all pieces.
SPECIFICATION FairSpec
CONSTANTS
    Heads <- MCHeads
    BufferSpace = 12
    LineSize = 3
INVARIANTS
    TypeOK
    HeadIsKept
    TunnelIsClean
PROPERTIES
    PromptIsActedOn
    HungUpIsKilled
CHECK_DEADLOCK FALSE
