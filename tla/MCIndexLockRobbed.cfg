CONSTANTS
    Writers = {w1, w2, w3}
    Readers = {}
    WriterDir = WriterDir
    Absent = Absent
    Empty = Empty
SPECIFICATION Spec
INVARIANT Exclusion
CHECK_DEADLOCK FALSE
