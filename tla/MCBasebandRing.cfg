\* Two demod threads on a ring of 3 slots; chunks up to 5 samples, so a push
\* can be longer than the ring; 9 samples wrap the storage three times.
CONSTANTS
    r1 = r1
    r2 = r2
    Readers <- TwoReaders
    Cap = 3
    MaxChunk = 5
    MaxRead = 2
    MaxPushed = 9
SPECIFICATION FairSpec
INVARIANTS
    TypeOK
    Accounted
    WindowIntact
PROPERTIES
    CatchesUp
    StreamSpec
CHECK_DEADLOCK FALSE
