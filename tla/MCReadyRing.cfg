SPECIFICATION Spec
CONSTANTS
    Callbacks = {c1, c2}
    NoCallback = NoCallback
    InitCapacity = 2
    MaxCapacity = 8
    MaxIndex = 9
    Width = 4
INVARIANTS
    TraverseSeesEveryPending
    CapacityArithmetic
PROPERTY ImplementsFifo
