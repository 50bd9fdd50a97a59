\* A resolution that fails before its handler has returned.
SPECIFICATION Spec
CONSTANTS
    c1 = c1
    c2 = c2
    c3 = c3
    c4 = c4
    Free = Free
    None = None
    Conns <- MCConns
    Fds = {1, 2, 3}
    max_connections = 2
SYMMETRY Clients
INVARIANT
    HandlersAreAlone
CHECK_DEADLOCK FALSE
