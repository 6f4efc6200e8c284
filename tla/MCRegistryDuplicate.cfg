CONSTANTS
    Procs = {p1, p2}
    Writers = {w1, w2}
    Refs = {r1}
    None = None
    ChanCap = 1
    MaxChunks = 1
SPECIFICATION Spec
CHECK_DEADLOCK FALSE
INVARIANT OneIngestionPerRef
