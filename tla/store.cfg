SPECIFICATION Spec
CONSTANTS
    Writer = {a, b}
    LineUnits <- MCLineUnits
    MaxNow = 1
    Days = {0, 1}
    MaxRetention = 1
    MaxKills = 1
SYMMETRY MCWriters
INVARIANTS
    StoredLinesStay
    RefusedForAReason
    RetentionTakesTheOld
    TailIsFaithful
CHECK_DEADLOCK FALSE
