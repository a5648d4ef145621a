SPECIFICATION Spec
CONSTANTS
    q1 = q1
    q2 = q2
    PieceCount = 1
    BlocksPerPiece = 2
    Peers <- MCPeers
    SkippedPieces = {}
    Sequential = FALSE
    MaxRequests = 2
    MaxParallel = 2
    EndgameLimit = 1
    CancelCap = 2
    FaultKinds = {"badBlock"}
    MaxFaults = 1
    MaxEvents = 2
SYMMETRY Symmetry
INVARIANTS
    OwnedIsVerified
CHECK_DEADLOCK FALSE
