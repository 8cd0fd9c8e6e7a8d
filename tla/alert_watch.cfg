SPECIFICATION FairSpec
CONSTANTS
    File = {f}
    CorrelatedFile = {}
    Level <- MCLevel
    Threshold = "high"
    MaxLines = 2
    MaxRestarts = 1
    MaxTruncated = 1
INVARIANTS
    TypeOK
    OffsetCoversHandled
    DuplicatesHaveACause
PROPERTIES
    EveryAlertIsSettled
CHECK_DEADLOCK FALSE
