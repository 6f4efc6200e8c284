SPECIFICATION MCSpec
CONSTANTS
    e1 = e1 e2 = e2 e3 = e3 v1 = v1 v2 = v2 base = base mid = mid upperLayer = upperLayer file1 = file1 file2 = file2
    h1 = h1 h2 = h2 r1 = r1 r2 = r2 wr1 = wr1 wr2 = wr2 c1 = c1 c2 = c2 i1 = i1 i2 = i2
    Events = {e1, e2, e3}
    EventWorlds <- MCEventWorlds
    Layers = {base, mid, upperLayer}
    Paths = {file1, file2}
    LayerFile <- MCLayerFile
    Registered = {base, mid, upperLayer}
    Workers = 2
    EventBuf = 1
    ShardCap = 2
    NoOwner = NoOwner
    WalKeys <- MCWalKeys
    WalHashes = {h1, h2}
    WalWriters = {wr1, wr2}
    WalCap = 1
    CompactAt = 2
    MaxLog = 3
    Deleted = Deleted Unknown = Unknown NoJob = NoJob
    StatFiles <- MCStatFiles
    InodeOf <- MCInode
    StatValues = {TRUE, FALSE}
    StatCap = 2
    StatCallers = {c1, c2}
    NoStat = NoStat
    MaxChanges = 1
    OpInputs <- MCInputs
    NoHash = NoHash
    FsWorlds <- MCFsWorlds
    FsPipes <- MCPipes
    FsWorkers = 2
    OutBuf = 1
    ErrBuf = 1
    MaxBatch = 2
    Stacks <- MCStacks
    MountSets <- MCMountSets
    SnapTrees <- MCTrees
    OvWorkers = {ow1, ow2}
    OvKeys = {k1}
    MergedDirs = {d1, d2}
    NoLayer = NoLayer
    NoKey = NoKey
    NoInfo = NoInfo
    MaxMounts = 2
    BufLen = 1
    MinSegment = 2
    SegWorkers = 2
    LargeFile = 3
    DsWorlds <- MCDsWorlds
    ExcBuf = 1
    ComBuf = 1
    HashWorkers = 2
    ExcWorkers = 1
    ComWorkers = 1
    DpWorlds <- MCDpWorlds
    JobBuf = 1
    DpWorkers = 2
    DbWorlds <- MCDbWorlds
    Parallelism = 1
    BrWorlds <- MCBrWorlds
    RingEntries = 2
    PsPaths <- MCPsPaths
    PsBytes = {0, 1}
    PsMaxLen = 4
INVARIANTS EngineSound CachesSound TreesExact WatchSound EntriesAccounted
PROPERTIES RemovesAsMeant PrunesAsMeant CallsEnd
CHECK_DEADLOCK FALSE
