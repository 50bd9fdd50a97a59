\* A ring of four slots: every position, wrap and content.
SPECIFICATION Spec
CONSTANTS
    nl = nl
    nul = nul
    BufferSize = 4
    Byte <- MCByte
    Newline = nl
    Null = nul
INVARIANTS
    TypeOK
    PeekInside
PROPERTY
    ImplementsQueue
