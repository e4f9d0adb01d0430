SPECIFICATION FairChainSpec
CONSTANTS
    t1 = t1
    t2 = t2
    k1 = k1
    k2 = k2
    k3 = k3
    c1 = c1
    c2 = c2
    Requests <- MCRequests
    Tenants = {t1, t2}
    Keys = {k1, k2, k3}
    Contents = {c1, c2}
    Writers = {w1, w2}
    GenesisHash = GenesisHash
    GenesisPrevBytes = GenesisPrevBytes
    NoRow = NoRow
INVARIANTS
    TypeOK
    ChainIntegrity
    SnapshotsVerify
    TamperEvident
PROPERTIES
    ImplementsLog
    AppendSettles
