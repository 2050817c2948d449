CONSTANTS
    Procs = {1, 2, 3}
    Casts <- MCCasts
    MaxUid = 2
    Rounds = 1
    MaxFaults = 1
SPECIFICATION RunSpec
INVARIANTS RunIsOwn NoOrphans ReportHolds
PROPERTY RunEnds
CHECK_DEADLOCK FALSE
