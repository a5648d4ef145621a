SPECIFICATION Spec
CONSTANTS
    c1 = c1
    c2 = c2
    a1 = a1
    a2 = a2
    Pieces = {0}
    Conns <- MCConns
    Addrs <- MCAddrs
    ColdStart = 1
    PoolSize = 2
    MaxEvents = 2
    MaxAvail = 2
SYMMETRY Symmetry
INVARIANTS
    TypeOK
    MissingIsCandidate
    AvailabilityExact
CHECK_DEADLOCK FALSE
