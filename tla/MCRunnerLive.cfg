SPECIFICATION FairSpec
CHECK_DEADLOCK FALSE
CONSTANTS
    Threads = {t1}
    Soon = {c1, c2}
    Ops = {o1}
    Streams = {o1}
    Wake = Wake
    Expired = Expired
    Removed = Removed
    Nobody = Nobody
    Loop = Loop
    None = None
    BufLen = 8
    MaxRecords = 1
    Faults = {}
    MaxFaults = 0
PROPERTIES
    ScheduledCallbackRuns
    ReadyQueuesAreFifo
INVARIANT ParkIsNotCutShort
