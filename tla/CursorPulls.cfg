SPECIFICATION PullsSpec
CONSTANTS
    w1 = w1
    w2 = w2
    k1 = k1
    k2 = k2
    Streams = {"admin", "code_analytics", "openai_usage", "openai_costs", "openai_audit", "vertex_usage", "vertex_costs"}
    Pullers = {w1, w2}
    Keys = {k1, k2}
    OnEmbeddings = {k2}
    NoKey = NoKey
    NoCursor = NoCursor
    DayLength = 2
    Lookback <- OneDayBack
    RestatementDays = 1
    FreshnessLag = 1
    BackfillDays = 2
    ChunkDays = 1
    PageCap = 1
    StartTime = 1
    MaxTime <- ShortClocks
    MaxReports = 2
    MaxPullFailures = 1
INVARIANTS
    PullsTypeOK
    BehindCursor
    SettledAmounts
SYMMETRY WorkerSymmetry
