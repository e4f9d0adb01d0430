SPECIFICATION FairSpec
CONSTANTS
    t1 = t1
    t2 = t2
    m1 = m1
    m2 = m2
    Tenants = {t1, t2}
    Counters <- TwoTenants
    Billed = {t1}
    Workers = {w1, w2}
    NoTenant = NoTenant
    MaxCount = 3
    MaxFailures = 1
INVARIANTS
    TypeOK
    RetryBacked
    BilledOrQueued
PROPERTIES
    ImplementsLedger
    CountsLeave
CHECK_DEADLOCK FALSE
