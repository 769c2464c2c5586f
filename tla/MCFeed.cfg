SPECIFICATION Spec
CONSTANTS
  p1 = p1
  p2 = p2
  Clients <- Pages
  Cap = 2
  WireCap = 1
  MaxRev = 2
  MaxCrashes = 1
  MaxCuts = 1
SYMMETRY Symmetry
INVARIANT LastWordArrives
CHECK_DEADLOCK FALSE
