CONSTANTS
    OptionNames <- MCOptionNames
    Values <- MCValues
    Parsers <- MCParsers
    MaxArgs = 4
    UNLIMITED_COUNT <- MCUnlimited
    NoResult = NoResult
SPECIFICATION Spec
INVARIANTS
    TypeOK
    ValidResultServesRequired
    ExecutorSpecsValid
PROPERTIES
    ParseRefinesAbstract
CHECK_DEADLOCK FALSE
