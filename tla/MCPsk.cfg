SPECIFICATION FairSpec
CONSTANTS
    Calls <- MCCalls
    Upper <- MCUpper
    RecordBytes <- MCRecordBytes
    Frequencies <- MCFrequencies
    ReceiverBytes = 32
    DescriptorBytes = 112
    MaxPayload = 204
    DedupTtl = 2
    CachePrune = 2
    MaxPending = 2
    Descriptors = 1
    MaxSpots = 3
    MaxElapsed = 3
    MaxFailures = 1
INVARIANTS
    TypeOK
    InOrderOnce
    Respaced
    CollectorReads
PROPERTIES
    QueueDrains
CHECK_DEADLOCK FALSE
