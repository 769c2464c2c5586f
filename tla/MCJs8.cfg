SPECIFICATION Js8Spec
CONSTANTS
    Modes <- MCModes
    Margin = 50
    Rearm = 150
    Kept = 6000
    Dedup = 4500
    Gaps <- MCGaps
    Bins = {b1, b2}
    Phases <- MCPhases
    MaxTotal = 6200
SYMMETRY MCSymmetry
INVARIANTS
    CycleDecoded
    OneRowThenAnother
CHECK_DEADLOCK FALSE
