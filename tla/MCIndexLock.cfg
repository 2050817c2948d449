CONSTANTS
    Writers = {w1, w2}
    Readers = {r1}
    WriterDir = WriterDir
    Absent = Absent
    Empty = Empty
SPECIFICATION FairSpec
INVARIANTS ExclusionUnlessRobbed NoEntryLeftBehind
PROPERTIES LockCallEnds ImplementsSharedLock
CHECK_DEADLOCK FALSE
