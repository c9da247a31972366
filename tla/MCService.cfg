\* A server with two connections and two waiters, and two pools.
SPECIFICATION Spec
CHECK_DEADLOCK FALSE
CONSTANTS
    c1 = c1
    c2 = c2
    Conns = {c1, c2}
    m = m
    w = w
    Closers = {m, w}
    Main = m
    Starts = {TRUE, FALSE}
    j1 = j1
    j2 = j2
    Jobs = {j1, j2}
    MaxPools = 2
    MaxInterrupts = 1
INVARIANTS
    WaitClosedMeansQuiet
    TeardownComplete
PROPERTIES
    CloseEnds
