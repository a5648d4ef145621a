SPECIFICATION StorageSpec
SYMMETRY Alike
CONSTANTS
    DiskTasks = {w1, w2}
    DiskFiles = {"f", "g"}
    DiskBlocks = {"a", "b"}
    SpanFiles <- MCSpanFiles
    MaxHandles = 2
    MaxDiskOps = 3
    FileCount = 3
    FileLengths = {0, 1, 2, 3}
    PieceLengths = {1, 2, 3}
    HashCounts = {1, 4}
    CacheTasks = {w1, w2}
    BlockCount = 2
    MaxCacheOps = 8
    CacheKeys = {k1, k2, k3}
    CacheUsers = {w1, w2}
    Capacity = 2
    MaxCacheCalls = 6
    BudgetUsers = {w1, w2, w3}
    BudgetLimit = 3
    MaxBudgetCalls = 6
    Connections = {w1, w2}
    BlockSizes = {1, 3}
    BucketSize = 2
    MaxTime = 5
    MaxLimitChanges = 1
    QueueFiles = {0, 1}
    Offsets = {0, 1}
    WriteSizes = {1, 2}
    Workers = 2
    QueueLength = 3
    BatchSize = 2
    MaxWrites = 3
INVARIANTS
    StorageTypeOK
    WritesAreRead
    SpansCover
    
    MemoryCounted
    BudgetKept
    RateBounded
    LastWriteWins
CHECK_DEADLOCK FALSE
