SPECIFICATION FairSpec
CONSTANTS
    q1 = q1
    q2 = q2
    PieceCount = 2
    BlocksPerPiece = 1
    Peers <- OnePeer
    SkippedPieces = {}
    Sequential = FALSE
    MaxRequests = 2
    MaxParallel = 2
    EndgameLimit = 1
    CancelCap = 2
    FaultKinds = {"close"}
    MaxFaults = 1
    MaxEvents = 2
PROPERTIES
    ExpiredRedownloaded
CHECK_DEADLOCK FALSE
