\* Four clients, three descriptors, two connections at a time.
SPECIFICATION Spec
CONSTANTS
    c1 = c1
    c2 = c2
    c3 = c3
    c4 = c4
    Free = Free
    None = None
    Conns <- MCConns
    Fds = {1, 2, 3}
    max_connections = 2
SYMMETRY Clients
INVARIANTS
    TypeOK
    CountIsExact
    LimitKept
    FreedByThreadsOnly
    DescriptorsOwned
    NoBadDescriptor
    NoDanglingItem
CHECK_DEADLOCK FALSE
