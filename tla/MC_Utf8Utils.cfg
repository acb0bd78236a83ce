CONSTANTS
    Bytes <- MCBytes
    MaxBytes = 4
    Sources <- MCSources
    NoSource = NoSource
    NoResult = NoResult
SPECIFICATION Spec
INVARIANTS
    TypeOK
    EncoderMatchesReference
    DecodedInRange
CHECK_DEADLOCK FALSE
