SPECIFICATION Spec
CONSTANTS
    h1 = h1
    h2 = h2
    Hashes <- MCHashes
    Scenarios = {{"exit"}, {"magnets"}}
    MaxCommands = 2
    MaxEnds = 1
SYMMETRY Symmetry
INVARIANTS
    TypeOK
    Settled
    Remembered
    RemovedStaysRemoved
CHECK_DEADLOCK FALSE
