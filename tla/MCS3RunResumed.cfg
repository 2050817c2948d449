CONSTANTS
    full = full
    resume = resume
    NoCommand = NoCommand
    Commands = {full, resume}
    FullRuns = {full}
    Order <- Chain
    Deps <- ChainDeps
    Selected <- ChainSelected
    MaxFaults = 2
SPECIFICATION Spec
INVARIANTS OneJobPerStage OwnMarkersOnly DoneIsSeen CompletedIsWhole
CHECK_DEADLOCK FALSE
