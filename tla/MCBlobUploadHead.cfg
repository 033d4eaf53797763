SPECIFICATION Spec
CONSTANTS
    short = short
    long = long
    x = x
    acme = acme
    NoContent = NoContent
    NoSize = NoSize
    NoUpload = NoUpload
    NoBlob = NoBlob
    NoRange = NoRange
    Request = {q1}
    Upload = {u1}
    Repo = {r1}
    Blob = {short, long}
    Chunk = {x}
    MaxFile = 2
    SerialSessions = TRUE
    TenantOf <- MCTenantOf
    Content <- MCContent
    Body <- MCBody
INVARIANT
    UploadedBlobsAreFound
CHECK_DEADLOCK FALSE
