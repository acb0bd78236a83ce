CONSTANTS
    OptionNames <- MCOptionNames
    Values <- MCValues
    Parsers <- MCParsersWithBadCounts
    MaxArgs = 4
    UNLIMITED_COUNT <- MCUnlimited
    NoResult = NoResult
SPECIFICATION Spec
INVARIANT
    ValidResultRespectsCounts
CHECK_DEADLOCK FALSE
