CONSTANTS
    full = full
    resume = resume
    NoCommand = NoCommand
    Commands = {full}
    FullRuns = {full}
    Order <- Fork
    Deps <- ForkDeps
    Selected <- ForkSelected
    MaxFaults = 1
SPECIFICATION FairSpec
PROPERTY CommandEnds
CHECK_DEADLOCK FALSE
