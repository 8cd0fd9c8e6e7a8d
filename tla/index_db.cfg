SPECIFICATION Spec
CONSTANTS
    Hour <- MCHour
    MaxLines <- MCMaxLines
    Malformed = {2}
    BatchSize = 2
    MaxCommands = 1
    MaxTroubles = 1
INVARIANTS
    NothingMissing
    RowsPointAtTheirLine
    UnattendedIsRollback
CHECK_DEADLOCK FALSE
