SPECIFICATION Spec
CONSTANTS
    f1 = f1 f2 = f2 c1 = c1 c2 = c2 t1 = t1
    Fetchers = {f1, f2}
    GitRemotes = {"r"}
    GitCommits = {c1, c2}
    GitTags = {t1}
    GitSigned = {c2, t1}
    NoObj = NoObj
    GitCalls <- MCGitCalls
    GitParents <- MCParents
    GitTagTarget <- MCTarget
    MaxPushes = 1
    h1 = h1 h2 = h2 good = good other = other bad = bad big = big
    HttpCallers = {h1, h2}
    HttpLinks = 2
    HttpBodies = {good, other, bad, big}
    HttpSize <- MCSize
    HttpEntries <- MCEntries
    HttpCalls <- MCHttpCalls
    HttpHosts = {"origin", "mirror"}
    MaxBodyChunks = 1
    MaxFetches = 1
    MaxHops = 2
    AllowHTTP = FALSE
    NoBody = NoBody
INVARIANTS GitSound HttpSound
PROPERTIES SourcesReturn
CHECK_DEADLOCK FALSE
