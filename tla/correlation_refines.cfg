SPECIFICATION Spec
CONSTANTS
    fail = fail
    login = login
    x = x
    y = y
    ip = ip
    user = user
    Rules <- MCRules
    Field = {ip, user}
    RuleId = {fail, login}
    JoinValue = {x, y}
    Absent = Absent
    Empty = Empty
    NoRuleId = NoRuleId
    NoChain = NoChain
    Alert <- MCAlertMore
    EvictPeriod = 3
    ClockStep = {1}
    MaxFeeds = 4
    MaxTime = 3
INVARIANTS
    StaleChainsAreEvicted
PROPERTIES
    EvictionIsInvisible
CHECK_DEADLOCK FALSE
