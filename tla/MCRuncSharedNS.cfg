CONSTANTS
    Runs = {r1, r2, r3}
    Execs = {}
    Ids = {i1, i2}
    NS = {n1, n2}
    None = None
    Monitored = TRUE
SPECIFICATION Spec
CHECK_DEADLOCK FALSE
INVARIANT NamespaceExclusive
