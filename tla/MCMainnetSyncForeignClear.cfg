CONSTANTS
    Runs = {a, b, c}
    NoRun = NoRun
    Unowned = Unowned
    Torn = Torn
    MaxHeight = 2
    MaxFaults = 1
    MaxManual = 0
    MaxOverlap = 2
    ClearAfterSync = TRUE
    Earlier = a
    Histories = {"cleared"}
SPECIFICATION Spec
SYMMETRY RunSymmetry
INVARIANT ClearOnlyRestorable
CHECK_DEADLOCK FALSE
