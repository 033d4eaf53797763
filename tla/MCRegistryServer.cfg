SPECIFICATION ServerSpec
CONSTANTS
    g1 = g1
    g2 = g2
    r1 = r1
    r2 = r2
    base = base
    image1 = image1
    image2 = image2
    index = index
    acme = acme
    NoDigest = NoDigest
    NoTag = NoTag
    Registry = {g1, g2}
    Repo = {r1, r2}
    Tag = {t1}
    Blob = {base}
    Manifest = {image1, image2, index}
    Request = {q1, q2}
    Dropper = {x1}
    Tenant = {acme}
    MaxRequests = 4
    RegistryOf <- MCRegistryOf
    TenantOf <- MCTenantOf
    BlobRefs <- MCBlobRefs
    ChildRefs <- MCChildRefs
    Subject <- MCSubject
\* The clients stop asking in the end.
CHECK_DEADLOCK FALSE
SYMMETRY Interchangeable
INVARIANTS
    NoCircularWait
    ServerTypeOK
    WholeUnlessDisturbed
    TidyUnlessDisturbed
    BillFollowsHoldings
PROPERTIES
    CatalogUnlessDisturbed
    BlobRefinement
