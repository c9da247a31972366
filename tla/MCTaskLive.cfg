SPECIFICATION FairSpec
CONSTANTS
    Tasks = {t1, t2}
    Futures = {}
    Listeners = {l1}
    None = None
    MaxCancels = 1
    Fatal = TRUE
PROPERTIES
    WaiterIsWoken
    ListenersAreCalled
CHECK_DEADLOCK FALSE
