SPECIFICATION FairSpec
CONSTANTS
    Tenant = t1
    Body = body
    GenesisHash = GenesisHash
    GenesisPrevBytes = GenesisPrevBytes
    NoRow = NoRow
    NoMessage = NoMessage
    Workers = {w1, w2}
    Events = {e1}
    MaxTime = 2
    PerPage = 1
    MaxPages = 1
    MaxRetries = 1
    MaxFailures = 1
INVARIANTS
    TypeOK
    ActivitiesAccounted
    EventsAccounted
    MeterTracksChain
PROPERTIES
    ImplementsChain
    EverythingDecided
CHECK_DEADLOCK FALSE
