SPECIFICATION MCSpec
CONSTANTS
    Runs = {r1, r2}
    Execs = {e1}
    Ids = {i1}
    NS = {n1}
    None = None
    Monitored = TRUE
    Tty = TRUE
    Stdin = TRUE
INVARIANTS RunsSound ProcessSound
PROPERTIES ExecutorEnds
CHECK_DEADLOCK FALSE
