CONSTANTS
  StartNco = 2
  TopNco = 4
  Modes = 2
  MaxEdges = 4
  MaxPresses = 1
  MaxLoss = 1
  MaxFlight = 4
SPECIFICATION Spec
INVARIANTS TypeOK KnobCounted PeerIsBoard
PROPERTY ComesUp
CHECK_DEADLOCK FALSE
