SPECIFICATION Spec
CONSTANTS
    Torrents = {1}
    Limits <- MCLimits
    InitialLimits <- MCInitialLimits
    Scenarios <- OldData
    MaxCommands = 2
INVARIANT OldDataSilent
CHECK_DEADLOCK FALSE
