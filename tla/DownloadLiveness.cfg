SPECIFICATION FairSpec
CONSTANTS
    q1 = q1
    q2 = q2
    PieceCount = 2
    BlocksPerPiece = 1
    Peers <- MCPeers
    SkippedPieces = {1}
    Sequential = FALSE
    MaxRequests = 2
    MaxParallel = 2
    EndgameLimit = 2
    CancelCap = 1
    FaultKinds = {"close","badBlock","staleEntry"}
    MaxFaults = 1
    MaxEvents = 2
INVARIANTS
    EndgameCancelled
PROPERTIES
    Completes
    ImplementsLifecycle
CHECK_DEADLOCK FALSE
