SPECIFICATION FairSpec
CONSTANTS
    t1 = t1
    t2 = t2
    m1 = m1
    m2 = m2
    Tenants = {t1}
    Counters <- OneTenant
    Billed = {t1}
    Workers = {w1, w2}
    NoTenant = NoTenant
    MaxCount = 4
    MaxFailures = 0
PROPERTIES
    FlushEnds
CHECK_DEADLOCK FALSE
