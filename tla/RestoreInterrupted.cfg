SPECIFICATION Spec
CONSTANTS
    h1 = h1
    h2 = h2
    Hashes <- MCHashes
    Scenarios = {{"exit"}}
    MaxCommands = 0
    MaxEnds = 1
SYMMETRY Symmetry
INVARIANTS
    SessionSurvives
CHECK_DEADLOCK FALSE
