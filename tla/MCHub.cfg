SPECIFICATION FairSpec
CONSTANTS
    t1 = t1
    t2 = t2
    Tasks <- MCTasks
    Slots <- MCSlots
    Ncos <- MCNcos
    InitialTunings <- MCTunings
    Modes = {ssb, ft8}
    AutoMode = auto
    AutoSlots = {1}
    Free = Free
    None = None
    MaxCommands = 4
    Failures = TRUE
INVARIANTS
    TypeOK
    OneOwner
    InSync
    MuteKept
    AutoOnTuning
    StoppedIsQuiet
    PumpFollowsSession
PROPERTIES
    OtherSlotsUndisturbed
    CommandsFinish
CHECK_DEADLOCK FALSE
