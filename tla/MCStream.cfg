SPECIFICATION Spec
CONSTANTS
    MaxChunks = 2
    MaxBytes = 2
    Payloads <- MCPayloads
    Limits <- MCLimits
    OthersFirst = FALSE
INVARIANTS
    ReadingIsArmed
    
    BytesInOrder
    PausedOnlyWhileFull
    CloseFlushes
    LostOnce
