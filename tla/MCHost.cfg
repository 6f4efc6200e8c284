SPECIFICATION MCSpec
CONSTANTS
    Clients = {c1, c2}
    Filler = filler Cleaner = cleaner Closer = closer
    NS = {n1, n2, n3}
    c1 = c1 n3 = n3
    NoNS = NoNS
    TargetSize = 1
    Grace = 1
    r1 = r1 r2 = r2 o1 = o1
    CgroupRecs = {r1, r2}
    OpRecs = {o1}
    SysSampler = sys
    Samplers = {r1, r2, sys}
    Subs = {r1, r2, o1}
    SamplerOf <- MCSamplerOf
    NsOf <- MCNsOf
    MaxSamples = 2
    MaxTime = 5
    NoRec = NoRec
    StatWorlds <- Worlds
    U32 = 4 U64 = 8 Nanos = 3
    Bad = Bad MaxText = MaxText Absent = Absent Unreadable = Unreadable
    Unsupported = Unsupported Nil = Nil Err = Err
    RootProcs = {p1, p2, p3}
    RootControllers = {cpu, memory}
INVARIANTS SoleOwner PoolAccounts RecordsSound StatsSound
PROPERTIES ClosedHistoryFinal HostCloses
CHECK_DEADLOCK FALSE
