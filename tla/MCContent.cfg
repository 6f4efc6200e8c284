CONSTANTS
    Procs = {p1, p2}
    Writers = {w1}
    Refs = {r1}
    None = None
    ChanCap = 2
    MaxChunks = 3
    Askers = {a1, a2}
    Remote = Remote
    MaxVersion = 2
    Ttl = 1
    RetryMax = 2
    BlobSize = 1
    Getters = {g1, g2, g3}
    MaxEntries = 3
    MaxGets = 1
    None0 = None0
    Want = 2
    MaxWrites = 3
    Updaters = {u1, u2}
SPECIFICATION MCSpec
CHECK_DEADLOCK FALSE
INVARIANTS LocalFaithful CommitOnce CommittedUntracked StoresSound
PROPERTIES NoWriteAfterLocalCommit ContentEnds
