CONSTANTS
    u1 = u1
    u2 = u2
    NoWordProperty = NoWordProperty
    NoResult = NoResult
    CodePoint <- MCCodePoint
    MAX_WORD_LENGTH <- MCMaxWordLength
    Words <- MCWords
    Unigram <- MCUnigram
    AttributeMaps <- MCAttributeMaps
    MaxCalls = 3
SPECIFICATION Spec
SYMMETRY MCSymmetry
INVARIANT
    LookupInBounds
CHECK_DEADLOCK FALSE
