SPECIFICATION Spec
CONSTANTS
    g1 = g1
    g2 = g2
    r1 = r1
    r2 = r2
    base = base
    top = top
    image1 = image1
    image2 = image2
    index = index
    referrer = referrer
    NoDigest = NoDigest
    NoTag = NoTag
    Registry = {g1}
    Repo = {r1}
    Tag = {t1}
    Blob = {base, top}
    Manifest = {image1, referrer}
    RegistryOf <- MCRegistryOf
    BlobRefs <- MCBlobRefs
    ChildRefs <- MCChildRefs
    Subject <- MCSubject
PROPERTY
    DeleteTakesOnlyChildren
