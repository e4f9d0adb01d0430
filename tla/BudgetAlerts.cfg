SPECIFICATION Spec
CONSTANTS
    w1 = w1
    w2 = w2
    month = month
    day = day
    Budgets = {month, day}
    ScopeValues = {"workspace"}
    TenantScope = "tenant"
    Scope <- MCScope
    PeriodLength <- MCLength
    Routed = {month}
    MonthLength = 3
    Names = {"n"}
    Caps = {2, 3}
    Levels = {50, 100}
    TrailingDays = 3
    MinDays = 2
    Workers = {w1, w2}
    MaxDay = 1
    MaxUsage = 3
    MaxFaults = 1
INVARIANTS
    TypeOK
    AlertsOnce
    RowsExplained
SYMMETRY WorkerSymmetry
