CONSTANTS
    Requests = {r1, r2, r3}
    Initially = Initially
    None = None
    t1 = t1
    t2 = t2
    b1 = b1
    b2 = b2
    d1 = d1
    d2 = d2
    root = root
    admin2 = admin2
    agent = agent
    Tenants = {t1, t2}
    Bots = {b1, b2}
    Dids = {d1}
    Users = {root, admin2, agent}
    SeedBot = b1
    SeedDid = d1
    EnvAdmin = root
    TenantOf <- MCTenantOf
    UserTenant <- MCUserTenant
    MaxBoots = 2
SPECIFICATION Spec
SYMMETRY MCSymmetry
INVARIANT AdminRemains
CHECK_DEADLOCK FALSE
