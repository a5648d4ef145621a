SPECIFICATION FairSpec
CONSTANTS
    a1 = a1
    a2 = a2
    b1 = b1
    OutAddrs <- MCOut
    InAddrs <- MCIn
    Slots = {1,2}
    Loops = {1,2}
    MaxPeers = 2
    MaxHalfOpen = 2
    MaxGlobal = 2
    ConnectionSpeed = 1
    MaxUnchoked = 1
    MaxRetries = 1
    Scenarios = {{"incoming", "interest"}, {"pause", "resume", "incoming"}, {"remove", "add", "complete"},
        {"interest", "complete", "noSeed", "leaveOnComplete"},
        {"interest", "complete", "moveOnComplete", "pause"}}
    MaxCommands = 2
    MaxEvents = 0
INVARIANTS
    TypeOK
    HalfOpenAccounted
    NoGhostPeer
    UploadSlots
    TableExact
    OneRunLoop
PROPERTIES
    HalfOpenReleased
CHECK_DEADLOCK FALSE
