CONSTANTS
    CommandNames <- MCCommandNames
    MIN_ARG_COUNT = 2
    OptionNames <- MCOptionNames
    Values <- MCValues
    MaxArgs = 4
    UNLIMITED_COUNT = 100
    NoResult = NoResult
    NoCommand = NoCommand
    NoExit = NoExit
SPECIFICATION Spec
INVARIANTS
    TypeOK
    ExitCodeContract
CHECK_DEADLOCK FALSE
