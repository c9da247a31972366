SPECIFICATION Spec
CONSTANTS
    Tasks = {t1, t2}
    Futures = {f1, f2}
    Listeners = {}
    None = None
    MaxCancels = 2
    Fatal = FALSE
SYMMETRY Symmetry
INVARIANTS
    OneWakeUp
PROPERTIES
    CancellationNotLost
    NoUnrequestedCancellation
CHECK_DEADLOCK FALSE
