CONSTANTS
    N = 3
    Resilient <- LastResilient
    MaxChunks = 2
    MaxCloses = 1
    CsWorlds <- MCCsWorlds
    CsClients = {c1, c2}
    CsDigests = {1, 2}
    MaxCalls = 2
    FhLayers = {"base", "mid", "top", "third"}
    NoLayerID = NoLayerID
    FhPaths <- MCPaths
    FhContents = {"one", "two"}
    NoData = NoData
    FhCallers = {1, 2, 3, 4}
    FhWorkers = {1, 2}
    FhBuffer = 1
    FhCapacity = 1
    FhScripts <- MCScripts
    TreeSizes = {1, 2, 3, 4, 5, 8}
    Branching = {2, 3}
    LlbPrograms <- MCLlbPrograms
    LlbSources <- MCLlbSources
    LlbMounts <- MCLlbMounts
    GtWorlds <- MCGtWorlds
    GtWaits = {1, 2}
    GtAnswers <- MCGtAnswers
SPECIFICATION MCSpec
CHECK_DEADLOCK FALSE
INVARIANTS WritersAgree OneStore HashesSound SessionsSound NobodyStuck GraphsAndTreesSound GatesDecide
PROPERTIES CommitsWhatWasWritten
