SPECIFICATION Spec
CONSTANTS
    Kinds = {"start_tls", "client", "server", "unix_client", "unix_server"}
    High = 1
    Low = 0
    MaxBytes = 4
    MaxData = 1
    Partial = TRUE
INVARIANTS
    NothingDropped
    CloseNotifyIsLast
    BufferedWaitsForResume
    
CHECK_DEADLOCK FALSE
PROPERTIES
    OpenEnds
    ShutdownEnds
