SPECIFICATION SyncSpec
CONSTANTS
    c1 = c1
    Browsers = {c1}
    Slots = {1, 2}
    Hubs <- SmallHubs
    MaxTasks = 3
    MaxChan = 1
    MaxAge = 2
    MaxActs = 2
INVARIANT ViewConverges
CHECK_DEADLOCK FALSE
