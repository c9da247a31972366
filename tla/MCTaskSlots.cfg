SPECIFICATION Spec
CONSTANTS
    Ops = {o1, o3, o4, o5}
    Bare = {o4}
    Linked = {o3}
    ClearAtHarvest = {o1, o3, o5}
    NoOp = NoOp
    NoTask = NoTask
    Sets = {s1, s2}
    TotalTasksItems = 3
    MaxRefused = 1
SYMMETRY Symmetry
INVARIANTS
    CompletionFindsItsCallback
    ReservedSlotsExact
    
    
PROPERTY SetPutAsideOnlyWhenFull
CHECK_DEADLOCK FALSE
