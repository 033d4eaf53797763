SPECIFICATION Spec
CONSTANTS
    short = short
    long = long
    x = x
    acme = acme
    NoContent = NoContent
    NoSize = NoSize
    NoUpload = NoUpload
    NoBlob = NoBlob
    NoRange = NoRange
    Request = {q1, q2}
    Upload = {u1, u2}
    Repo = {r1}
    Blob = {short, long}
    Chunk = {x}
    MaxFile = 2
    SerialSessions = TRUE
    TenantOf <- MCTenantOf
    Content <- MCContent
    Body <- MCBody
\* Uploads run out: with all used and all handlers idle nothing need happen.
CHECK_DEADLOCK FALSE
SYMMETRY Interchangeable
INVARIANTS
    TypeOK
    StoredMatchesDigest
    RowsAreStored
    AnsweredBlobsAreStored
    BilledBlobsAreStored
    AppendedWhereNamed
PROPERTIES
    FilesOutliveNoCopy
    UploadRefinement
