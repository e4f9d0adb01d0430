SPECIFICATION Spec
CONSTANTS
    u1 = u1
    p1 = p1
    p2 = p2
    Users = {u1}
    Procs = {p1, p2}
    VendorKeys = {"openai"}
    Agendas <- MCAgendas
    MaxTenants = 3
    MaxKeys = 3
    MaxTasks = 3
    MaxBlobs = 1
INVARIANTS
    TypeOK
    TenantsWhole
    KeysKept
SYMMETRY VaultSymmetry
