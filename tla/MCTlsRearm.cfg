SPECIFICATION Spec
CONSTANTS
    Kinds = {"client"}
    High = 1
    Low = 0
    MaxBytes = 4
    MaxData = 1
    Partial = FALSE
PROPERTIES
    ReadSideRearms
CHECK_DEADLOCK FALSE
