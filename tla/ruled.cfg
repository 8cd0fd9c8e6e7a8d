SPECIFICATION Spec
CONSTANTS
    Event <- MCEvents
    SourceType = "_source_type"
    Lower <- MCLower
    Patterns <- MCPatterns
    SelName <- MCSelNames
    Comparison <- MCComparisons
    DottedParts <- MCDottedParts
    OctetBits = 1
    OctetCount = 4
    Detection <- MCDetection
    Logsource <- MCLogsource
    FreeLength = 2
    MaxLength = 7
    LateNames <- MCLateNames
INVARIANTS
    SigmaMeansWhatItSays
    SuppressionDropsWhatItSays
CHECK_DEADLOCK FALSE
