SPECIFICATION WatchedSpec
CHECK_DEADLOCK FALSE
CONSTANTS
    Threads = {t1}
    Soon = {c1}
    Ops = {o1}
    Streams = {o1}
    Wake = Wake
    Expired = Expired
    Removed = Removed
    Nobody = Nobody
    Loop = Loop
    None = None
    BufLen = 2
    MaxRecords = 1
    Faults = {"submit", "sq_full", "copy", "grow", "signal", "interrupt"}
    MaxFaults = 1
PROPERTIES
    StopEndsTheRun
