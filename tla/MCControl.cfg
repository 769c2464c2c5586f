\* Two clients, two slots, two commands, one command frame in flight.
\* Deadlock: every task may be gone.
CONSTANTS
    c1 = c1
    c2 = c2
    none = none
    Clients <- TwoClients
    Slots <- TwoSlots
    Freqs <- OneFreq
    Gains <- TwoGains
    DefaultGain = 20
    Masks <- TwoMasks
    NoClient = none
    MaxCommands = 2
    MaxInFlight = 1
SPECIFICATION FairSpec
INVARIANTS
    TypeOK
    EmptyOnlyWhileTuning
    CommittedCount
    RegistersAgree
PROPERTIES
    RetuneKeepsRing
    Settles
    PumpExits
CHECK_DEADLOCK FALSE
