SPECIFICATION Spec
CONSTANTS
    Rule = {r}
    NoRule = NoRule
    Analyst = {a, b}
    HourLength = 2
    Days = {0, 1}
    MaxNow = 2
    MaxAlerts = 2
    MaxAcks = 2
    MaxRetention = 1
    MaxTroubles = 1
SYMMETRY MCAnalysts
INVARIANTS
    NewAlertsAreShown
    
CHECK_DEADLOCK FALSE
