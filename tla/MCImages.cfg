SPECIFICATION MCSpec
CONSTANTS
    d1 = d1
    d2 = d2
    N = 2
    DiffIDs = {d1, d2}
    Diff <- LayerDiff
    Workers = {w1, w2}
    ExWorlds <- MCExWorlds
    MaxClock = 2
    NoTime = NoTime
    CvWorlds <- MCCvWorlds
    SemSize = 1
    NoMap = NoMap
INVARIANTS ChainOrder NilMeansAll LayersFaithful ExportsSound ConversionsSound
PROPERTIES ImagesEnd
CHECK_DEADLOCK FALSE
