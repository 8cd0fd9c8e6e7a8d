SPECIFICATION Spec
CONSTANTS
    TicksPerSecond = 2
    SecondsPerMinute = 2
    MinutesPerHour = 2
    Kind <- MCKinds
    SourceType = "_source_type"
    EventType = "event_type"
    Leaf <- MCLeaf
    Clause <- MCClause
    Lower <- MCLower
    AsciiLower <- MCAsciiLower
    Rank <- MCRank
    Config <- MCConfig
    Moments = {3, 4, 7, 8}
    Rules = {"r", "s"}
    Sizes <- MCSizes
    MaxBehind = 1
    Queries <- MCQueries
    Caps = {{}, {1}}
    Spans <- MCSpans
    Epochs <- MCEpochs
    Intervals = {1, 2}
    Windows <- MCWindows
    SparkInterval = 2
INVARIANTS
    SearchIsExact
    AlertsAnswerLikeSearch
    TrendShowsEveryEvent
    DigestAddsUp
    IncompleteBucketsAreReal
    StormsKeepEveryUnit
CHECK_DEADLOCK FALSE
