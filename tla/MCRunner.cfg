SPECIFICATION Spec
SYMMETRY Symmetry
CHECK_DEADLOCK FALSE
CONSTANTS
    Threads = {t1}
    Soon = {c1}
    Ops = {o1, o2}
    Streams = {o1, o2}
    Wake = Wake
    Expired = Expired
    Removed = Removed
    Nobody = Nobody
    Loop = Loop
    None = None
    BufLen = 8
    MaxRecords = 2
    Faults = {"submit", "sq_full", "interrupt"}
    MaxFaults = 1
INVARIANTS
    WakeupNotLost
    
    
