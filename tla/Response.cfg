\* Responses in all pieces; every short list of media types.
SPECIFICATION Spec
CONSTANTS
    Cases <- MCCases
    ContentTypes <- MCContentTypes
    ReadSize = 2
    HexLine = 3
    PipeCap = 2
INVARIANTS
    BodyIsKept
    EndMeansWhole
    AllIsDelivered
    TransformedByType
CHECK_DEADLOCK FALSE
