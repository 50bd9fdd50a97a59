\* Two clients, two requests each.
SPECIFICATION FairSpec
CONSTANTS
    c1 = c1
    c2 = c2
    Clients <- MCClients
    None = None
    Users <- MCUsers
    Requests <- MCRequests
    Asks <- MCAsks
    Counts <- MCCounts
    BufferSpace = 7
    PieceSize = 2
    Quitters = {c1}
    NameSize = 2
    ArgumentSize = 3
    FieldSize = 2
    ErrorSize = 1
    AnswerSize = 1
INVARIANT InStep
PROPERTIES ImplementsService Answered
CHECK_DEADLOCK FALSE
