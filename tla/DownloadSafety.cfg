SPECIFICATION Spec
CONSTANTS
    q1 = q1
    q2 = q2
    PieceCount = 1
    BlocksPerPiece = 2
    Peers <- MCPeers
    SkippedPieces = {}
    Sequential = FALSE
    MaxRequests = 2
    MaxParallel = 2
    EndgameLimit = 1
    CancelCap = 2
    FaultKinds = {"choke","reject","close","late","writeError","verifyError"}
    MaxFaults = 2
    MaxEvents = 2
SYMMETRY Symmetry
INVARIANTS
    TypeOK
    OneVerifier
    ReceivedIsWritten
    NoPieceStuck
    PipelineBounded
CHECK_DEADLOCK FALSE
