SPECIFICATION Spec
CONSTANTS
    c1 = c1
    c2 = c2
    u1 = u1
    a1 = a1
    a2 = a2
    Clients = {c1, c2}
    Users = {u1}
    Attempts = {a1, a2}
    Nobody = Nobody
    MaxKeys = 2
    MaxBridged = 1
    MaxPairs = 2
    MaxFaults = 1
    CacheSize = 1
INVARIANTS
    TypeOK
    TokensDescend
    OneShot
SYMMETRY SignInSymmetry
