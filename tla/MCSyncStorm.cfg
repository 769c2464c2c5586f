SPECIFICATION FairSpec
CONSTANTS
    c1 = c1
    Browsers = {c1}
    Slots = {1, 2}
    Hubs <- RunningHub
    MaxTasks = 3
    MaxChan = 9
    MaxAge = 9
    MaxActs = 0
PROPERTY Settles
CHECK_DEADLOCK FALSE
