SPECIFICATION OutsideSpec
SYMMETRY Alike
CONSTANTS
    TorrentFiles = {f1, f2}
    FeedItems = {i1, i2}
    Rules = {r1}
    Matching <- MCMatching
    FeedScenarios <- MCFeedScenarios
    MaxFeedChanges = 1
    MaxFeedLives = 2
    UdpMaxRetries = 2
    TransactionIds = {1, 2}
    MaxDuplicated = 1
    DhtNodes = {n1, n2, n3}
    LookupTasks = {t1}
    DhtScenarios = {"online", "offline", "tokens"}
    K = 2
    FailLimit = 2
    MaxPending = 2
    Tids = {q1, q2}
    MaxIterations = 2
    MaxLookups = 2
    MaxRotations = 2
    MaxUnasked <- MCUnasked
INVARIANTS
    OutsideTypeOK
    FeedsKept
    AnswersOwn
    TableKept
CHECK_DEADLOCK FALSE
