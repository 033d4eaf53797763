SPECIFICATION MCSpec
CONSTANTS
    seeder = seeder
    stranger = stranger
    own = own
    elsewhere = elsewhere
    org = org
    User = {seeder, stranger}
    Tenant = {own, elsewhere, org}
    NoTenant = NoTenant
    Personal <- MCPersonal
    Tokens <- MCTokens
    Seeder = seeder
    Request = {q1}
    Seed = {s1, s2}
    MaxChanges = 1
    Handler = {h1, h2}
    MaxConns = 2
    MaxAge = 1
    MaxTime = 2
    MaxPushes = 2
    MaxKeys = 1
\* The registry may be gone, and everybody at rest.
CHECK_DEADLOCK FALSE
INVARIANTS
    TenancyTypeOK
    OnboardedWithRegistry
    SeedKeepsItsPromise
    PoolTypeOK
    ConnectionsAccounted
    SizeIsRecent
PROPERTIES
    SeedsSucceed
    SizesNeverGoBack
    EveryoneIsAnswered
