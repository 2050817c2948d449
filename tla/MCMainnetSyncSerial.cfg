CONSTANTS
    Runs = {a, b, c, d}
    NoRun = NoRun
    Unowned = Unowned
    Torn = Torn
    MaxHeight = 2
    MaxFaults = 3
    MaxManual = 1
    MaxOverlap = 1
    ClearAfterSync = FALSE
    Earlier = a
    Histories = {"kept"}
SPECIFICATION Spec
SYMMETRY RunSymmetry
INVARIANTS RestoredTogether TornIsMarked
CHECK_DEADLOCK FALSE
