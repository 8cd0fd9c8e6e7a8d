SPECIFICATION Spec
CONSTANTS
    fail = fail
    login = login
    x = x
    y = y
    ip = ip
    user = user
    Rules <- MCRules
    Field = {ip, user}
    RuleId = {fail, login}
    JoinValue = {x, y}
    Absent = Absent
    Empty = Empty
    NoRuleId = NoRuleId
    NoChain = NoChain
    Alert <- MCAlert
    EvictPeriod = 3
    ClockStep <- MCClockStep
    MaxFeeds = 4
    MaxTime = 2
INVARIANTS
    TypeOK
    NoSatisfiedChainWaits
    ReportsWithinWindow
    NoSharedEvidence
    ChainIsReplay
    ReportIsReplay
PROPERTIES
    Isolation
CHECK_DEADLOCK FALSE
