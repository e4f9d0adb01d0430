SPECIFICATION Spec
CONSTANTS
    Tenant = t1
    Body = body
    GenesisHash = GenesisHash
    GenesisPrevBytes = GenesisPrevBytes
    NoRow = NoRow
    NoMessage = NoMessage
    Workers = {w1, w2}
    Events = {e1, e2}
    MaxTime = 0
    PerPage = 1
    MaxPages = 1
    MaxRetries = 0
    MaxFailures = 0
INVARIANTS
    LoggedMeansPersisted
CHECK_DEADLOCK FALSE
