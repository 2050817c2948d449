CONSTANTS
    Runs = {a, b, c}
    NoRun = NoRun
    Unowned = Unowned
    Torn = Torn
    MaxHeight = 2
    MaxFaults = 2
    MaxManual = 0
    MaxOverlap = 2
    ClearAfterSync = TRUE
    Earlier = a
    Histories = {"nothing", "cleared", "kept"}
SPECIFICATION Spec
SYMMETRY RunSymmetry
INVARIANTS WorkOwnsDataset LeftLockedOnlyAfterKill QueuedJobSeesOwnData FreshOnlyOnEmptyArchive OneFaultLosesNothing
CHECK_DEADLOCK FALSE
