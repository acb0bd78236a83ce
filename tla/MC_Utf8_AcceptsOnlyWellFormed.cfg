CONSTANTS
    Bytes <- MCBytes
    MaxBytes = 4
    Sources <- MCSources
    NoSource = NoSource
    NoResult = NoResult
SPECIFICATION Spec
INVARIANT
    AcceptsOnlyWellFormed
CHECK_DEADLOCK FALSE
