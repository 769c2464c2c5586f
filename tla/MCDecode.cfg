SPECIFICATION FairSpec
CONSTANTS
    SlotTicks = 3
    Cap = 4
    BurstTicks = 1
    Ncos <- MCNcos
    Offsets <- MCOffsets
    Nco = 10
    Offset = 1
    Tuners = {t1, t2}
    None = None
    Jumps <- MCJumps
    MaxClock = 12
    MaxUpsets = 2
INVARIANTS
    TypeOK
    EachSlotOnce
    SpotAsHeard
PROPERTIES
    StopEnds
CHECK_DEADLOCK FALSE
