SPECIFICATION Spec
CONSTANTS
    Torrents = {1, 2}
    Limits <- MCLimits
    InitialLimits <- MCInitialLimits
    Scenarios <- MCScenarios
    MaxCommands = 2
INVARIANTS
    TypeOK
    DownloadsBounded
    SlotsUsed
    PauseHolds
    LoopRuns
    CompletionFitting
CHECK_DEADLOCK FALSE
