SPECIFICATION Spec
CONSTANTS
    acme = acme
    beta = beta
    NoRow = NoRow
    AnyRepository = AnyRepository
    Tenant = {t1, t2}
    Name = {acme, beta}
    Registry = {g1, g2}
    Repository = {r1, r2}
    Key = {k1, k2, k3}
    Caller = {c1}
    TTL = 1
    Leeway = 1
    MaxTime = 0
    MaxTokens = 0
    MaxTargets = 2
    Asked = {"read"}
    Path <- MCPath
    Access <- MCAccess
SYMMETRY Symmetries
CHECK_DEADLOCK FALSE
INVARIANT
    ScopesConsistent
PROPERTY
    KeysNeverWiden
