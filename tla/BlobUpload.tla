----------------------------- MODULE BlobUpload -----------------------------
(***************************************************************************)
(* Blob uploads: the session files under DATA_DIR/uploads, the R2 bucket,  *)
(* the objects rows of blobs, and the HTTP handlers that move a blob from  *)
(* one to the next.  Handlers run concurrently, one goroutine a request;   *)
(* each access to a file, to R2 or to the database is a step, and each may *)
(* fail.  A request refused before it changed anything is no step.         *)
(***************************************************************************)
EXTENDS Naturals, Sequences

CONSTANTS
    Request,        \* handlers that may run at a time
    Upload,         \* upload uuids
    Repo,
    TenantOf,       \* the tenant of a repository's registry
    Blob,           \* digests
    Content,        \* the bytes whose SHA-256 a digest is
    Chunk,          \* what io.Copy appends at a time
    Body,           \* request bodies that clients send
    MaxFile,        \* bound: no body is sent that makes a file longer
    SerialSessions, \* clients send a session's requests one after the other
    NoContent,      \* no file, no R2 object
    NoSize,         \* no objects row
    NoUpload,       \* a mount has no session
    NoBlob,         \* a PATCH names no digest
    NoRange         \* no Content-Range header

\* A digest stands for one content; the sentinels are no values.
ASSUME ContentAssumption ==
    /\ MaxFile \in Nat
    /\ SerialSessions \in BOOLEAN
    /\ Body \subseteq Seq(Chunk)
    /\ Content \in [Blob -> Seq(Chunk)]
    /\ \A b, c \in Blob : Content[b] = Content[c] => b = c
    /\ NoBlob \notin Blob /\ NoUpload \notin Upload /\ NoSize \notin Nat
    /\ NoRange \notin Nat /\ NoContent \notin Seq(Chunk)

VARIABLES
    sessions,    \* what became of each uuid
    files,       \* upload files
    store,       \* R2, by digest
    rows,        \* objects.size_bytes, by digest
    repoObjects, \* repository_objects, blobs only
    billed,      \* positive storage-bytes events, a <<tenant, digest>> each
    requests,    \* the state of each handler
    answered     \* history: <<repository, digest>> answered 201 Created

vars == <<sessions, files, store, rows, repoObjects, billed, requests, answered>>

Idle == [step |-> "idle"]

Steps == {"write", "owner", "row", "drop", "store", "unlink", "track", "emit"}

\* The type invariant.
TypeOK ==
    /\ sessions \in [Upload -> {"unused", "private", "offered"}]
    /\ files \in [Upload -> Seq(Chunk) \cup {NoContent}]
    /\ store \in [Blob -> Seq(Chunk) \cup {NoContent}]
    /\ rows \in [Blob -> Nat \cup {NoSize}]
    /\ repoObjects \in [Repo -> SUBSET Blob]
    /\ billed \in SUBSET ({TenantOf[r] : r \in Repo} \X Blob)
    /\ answered \in SUBSET (Repo \X Blob)
    /\ DOMAIN requests = Request
    /\ \A q \in Request : requests[q] # Idle =>
          requests[q] \in
             [step: Steps, repo: Repo, upload: Upload \cup {NoUpload},
              digest: Blob \cup {NoBlob}, range: Nat \cup {NoRange},
              body: Seq(Chunk), sent: Nat, charge: BOOLEAN, size: Nat]

Init ==
    /\ sessions = [u \in Upload |-> "unused"]
    /\ files = [u \in Upload |-> NoContent]
    /\ store = [b \in Blob |-> NoContent]
    /\ rows = [b \in Blob |-> NoSize]
    /\ repoObjects = [r \in Repo |-> {}]
    /\ billed = {}
    /\ requests = [q \in Request |-> Idle]
    /\ answered = {}

-----------------------------------------------------------------------------
(* A request arrives *)

Begin(q, step, r, u, d, range, body, size) ==
    /\ requests[q] = Idle
    /\ requests' = [requests EXCEPT ![q] =
                      [step |-> step, repo |-> r, upload |-> u, digest |-> d,
                       range |-> range, body |-> body, sent |-> 0,
                       charge |-> FALSE, size |-> size]]

\* A new uuid with an empty file; only an offered one is told to the client.
CreateUpload(u, session) ==
    /\ sessions[u] = "unused"
    /\ sessions' = [sessions EXCEPT ![u] = session]
    /\ files' = [files EXCEPT ![u] = <<>>]

\* What a client may send requests about.
Addressable(u) ==
    /\ sessions[u] = "offered"
    /\ SerialSessions => \A q \in Request :
          requests[q] # Idle => requests[q].upload # u

\* POST, and a mount of a digest that R2 does not have.
StartBlobUpload(q, u) ==
    /\ requests[q] = Idle
    /\ CreateUpload(u, "offered")
    /\ UNCHANGED <<store, rows, repoObjects, billed, requests, answered>>

\* Mutant: Content-Range is not looked at.
RangeIgnored(range, u) == TRUE

\* A Content-Range must start where the file ends now.
RangeAccepted(range, u) == range = NoRange \/ range = Len(files[u])

\* PATCH and PUT read the size, check the range, and then open the file to append;
\* a file gone by then is answered 404, as if it had been gone before.
AcceptBody(q, r, u, d, range, body) ==
    /\ Addressable(u)
    /\ files[u] # NoContent
    /\ RangeAccepted(range, u)
    /\ Len(files[u]) + Len(body) =< MaxFile
    /\ Begin(q, "write", r, u, d, range, body, 0)
    /\ UNCHANGED <<sessions, files, store, rows, repoObjects, billed, answered>>

PatchBlobUpload(q, r, u, range, body) == AcceptBody(q, r, u, NoBlob, range, body)

FinalizeBlobUpload(q, r, u, d, range, body) == AcceptBody(q, r, u, d, range, body)

MonolithicBlobUpload(q, r, u, d, body) ==
    /\ CreateUpload(u, "private")
    /\ Len(body) =< MaxFile
    /\ Begin(q, "write", r, u, d, NoRange, body, 0)
    /\ UNCHANGED <<store, rows, repoObjects, billed, answered>>

MountBlob(q, r, d) ==
    /\ store[d] # NoContent
    /\ Begin(q, "track", r, NoUpload, d, NoRange, <<>>, Len(store[d]))
    /\ UNCHANGED <<sessions, files, store, rows, repoObjects, billed, answered>>

-----------------------------------------------------------------------------
(* The steps of a handler *)

At(q, step) == requests[q].step = step

Goto(q, step) == requests' = [requests EXCEPT ![q].step = step]

\* The answer, of whatever status, ends the request.
Reply(q) == requests' = [requests EXCEPT ![q] = Idle]

\* O_APPEND: a chunk lands at the end the file then has, and nowhere once the
\* file is unlinked.
WriteChunk(q) ==
    LET rq == requests[q]
        u  == rq.upload
    IN  /\ At(q, "write")
        /\ rq.sent < Len(rq.body)
        /\ files' = IF files[u] = NoContent THEN files
                    ELSE [files EXCEPT ![u] = Append(@, rq.body[rq.sent + 1])]
        /\ requests' = [requests EXCEPT ![q].sent = @ + 1]
        /\ UNCHANGED <<sessions, store, rows, repoObjects, billed, answered>>

Written(q) == At(q, "write") /\ requests[q].sent = Len(requests[q].body)

\* 202 with the new size.
PatchDone(q) ==
    /\ Written(q)
    /\ requests[q].digest = NoBlob
    /\ Reply(q)
    /\ UNCHANGED <<sessions, files, store, rows, repoObjects, billed, answered>>

\* Mutant: a failed put goes unnoticed.
RequestFailsUnnoticed(q) ==
    /\ requests[q].step \in {"write", "store"}
    /\ IF At(q, "store") THEN Goto(q, "unlink") ELSE Reply(q)
    /\ UNCHANGED <<sessions, files, store, rows, repoObjects, billed, answered>>

\* The body breaks off, a disk read or the R2 put fails: 500, and nothing is undone.
RequestFails(q) ==
    /\ requests[q].step \in {"write", "store"}
    /\ Reply(q)
    /\ UNCHANGED <<sessions, files, store, rows, repoObjects, billed, answered>>

\* Mutant: the digest of the query is taken on trust.
DigestTrusted(u, d) == files[u] # NoContent

\* The file is there and is what the digest says: else 404 or 400.
DigestMatches(u, d) == files[u] = Content[d]

\* completeBlobUpload, which is not passed the range and the body, begins.
HashUpload(q) ==
    /\ Written(q)
    /\ requests[q].digest # NoBlob
    /\ IF DigestMatches(requests[q].upload, requests[q].digest)
       THEN requests' = [requests EXCEPT ![q].step = "owner", ![q].range = NoRange,
                                         ![q].body = <<>>, ![q].sent = 0]
       ELSE Reply(q)
    /\ UNCHANGED <<sessions, files, store, rows, repoObjects, billed, answered>>

TenantHasBlob(t, b) == \E r \in Repo : TenantOf[r] = t /\ b \in repoObjects[r]

\* An error counts as not having the blob.
CheckOwner(q) ==
    /\ At(q, "owner")
    /\ \E charge \in {TRUE, ~TenantHasBlob(TenantOf[requests[q].repo], requests[q].digest)} :
          requests' = [requests EXCEPT ![q].charge = charge, ![q].step = "row"]
    /\ UNCHANGED <<sessions, files, store, rows, repoObjects, billed, answered>>

\* Mutant: ErrNotFound is not told from a row.
ReadRowUnchecked(q) ==
    /\ At(q, "row")
    /\ requests' = [requests EXCEPT ![q].step = "drop", ![q].size = rows[requests[q].digest]]
    /\ UNCHANGED <<sessions, files, store, rows, repoObjects, billed, answered>>

\* trackedRegistryBlobSize: with a row there is nothing to store.
ReadRow(q) ==
    LET size == rows[requests[q].digest]
    IN  /\ At(q, "row")
        /\ IF size = NoSize THEN Goto(q, "store")
           ELSE requests' = [requests EXCEPT ![q].step = "drop", ![q].size = size]
        /\ UNCHANGED <<sessions, files, store, rows, repoObjects, billed, answered>>

\* Mutant: an error counts as a row.
RowUnreadableIsARow(q) ==
    /\ At(q, "row")
    /\ Goto(q, "drop")
    /\ UNCHANGED <<sessions, files, store, rows, repoObjects, billed, answered>>

\* An error counts as no row.
RowUnreadable(q) ==
    /\ At(q, "row")
    /\ Goto(q, "store")
    /\ UNCHANGED <<sessions, files, store, rows, repoObjects, billed, answered>>

\* DeleteUpload, whose error is dropped.
DropUpload(q) ==
    /\ At(q, "drop")
    /\ files' \in {files, [files EXCEPT ![requests[q].upload] = NoContent]}
    /\ Goto(q, "track")
    /\ UNCHANGED <<sessions, store, rows, repoObjects, billed, answered>>

\* StoreBlobFromUpload opens the file again, and puts what is in it now.
StoreBlob(q) ==
    LET content == files[requests[q].upload]
    IN  /\ At(q, "store")
        /\ IF content = NoContent THEN Reply(q) /\ UNCHANGED store
           ELSE /\ store' = [store EXCEPT ![requests[q].digest] = content]
                /\ requests' = [requests EXCEPT ![q].step = "unlink",
                                                ![q].size = Len(content)]
        /\ UNCHANGED <<sessions, files, rows, repoObjects, billed, answered>>

\* DeleteUpload, whose error here is a 500.
RemoveUpload(q) ==
    /\ At(q, "unlink")
    /\ \/ files' = [files EXCEPT ![requests[q].upload] = NoContent] /\ Goto(q, "track")
       \/ UNCHANGED files /\ Reply(q)
    /\ UNCHANGED <<sessions, store, rows, repoObjects, billed, answered>>

\* UpsertObjectBlob overwrites the size; an error is logged and the upload goes on.
TrackBlob(q) ==
    /\ At(q, "track")
    /\ rows' \in {rows, [rows EXCEPT ![requests[q].digest] = requests[q].size]}
    /\ Goto(q, "emit")
    /\ UNCHANGED <<sessions, files, store, repoObjects, billed, answered>>

\* emitUsageEvent swallows its errors; then 201 Created.
EmitAndReply(q) ==
    LET rq == requests[q]
    IN  /\ At(q, "emit")
        /\ billed' \in {billed} \cup
              (IF rq.charge THEN {billed \cup {<<TenantOf[rq.repo], rq.digest>>}} ELSE {})
        /\ answered' = answered \cup {<<rq.repo, rq.digest>>}
        /\ Reply(q)
        /\ UNCHANGED <<sessions, files, store, rows, repoObjects>>

-----------------------------------------------------------------------------
(* What surrounds the uploads *)

\* A manifest naming the blob is pushed: R2 must have it, its row is refreshed.
IndexBlob(r, b) ==
    /\ store[b] # NoContent
    /\ rows' = [rows EXCEPT ![b] = Len(store[b])]
    /\ repoObjects' = [repoObjects EXCEPT ![r] = @ \cup {b}]
    /\ UNCHANGED <<sessions, files, store, billed, requests, answered>>

\* The last manifest naming the blob is deleted.
ReleaseBlob(r, b) ==
    /\ b \in repoObjects[r]
    /\ repoObjects' = [repoObjects EXCEPT ![r] = @ \ {b}]
    /\ UNCHANGED <<sessions, files, store, rows, billed, requests, answered>>

\* The process restarts: its handlers are gone, the volume and the rest stay.
Restart ==
    /\ \E q \in Request : requests[q] # Idle
    /\ requests' = [q \in Request |-> Idle]
    /\ UNCHANGED <<sessions, files, store, rows, repoObjects, billed, answered>>

-----------------------------------------------------------------------------

Arrive(q) ==
    \/ \E u \in Upload : StartBlobUpload(q, u)
    \/ \E r \in Repo, u \in Upload, body \in Body, range \in 0..MaxFile \cup {NoRange} :
          \/ PatchBlobUpload(q, r, u, range, body)
          \/ \E d \in Blob : FinalizeBlobUpload(q, r, u, d, range, body)
    \/ \E r \in Repo, u \in Upload, d \in Blob, body \in Body :
          MonolithicBlobUpload(q, r, u, d, body)
    \/ \E r \in Repo, d \in Blob : MountBlob(q, r, d)

Handle(q) ==
    \/ WriteChunk(q) \/ PatchDone(q) \/ HashUpload(q)
    \/ CheckOwner(q) \/ ReadRow(q) \/ RowUnreadable(q) \/ DropUpload(q)
    \/ StoreBlob(q) \/ RemoveUpload(q) \/ TrackBlob(q) \/ EmitAndReply(q)
    \/ RequestFails(q)

Next ==
    \/ \E q \in Request : Arrive(q) \/ Handle(q)
    \/ \E r \in Repo, b \in Blob : IndexBlob(r, b) \/ ReleaseBlob(r, b)
    \/ Restart

Spec == Init /\ [][Next]_vars

-----------------------------------------------------------------------------
(* Properties *)

\* R2 keeps under a digest the content with that digest, whatever fails and
\* whoever else uploads it: so long as clients use a session serially.
StoredMatchesDigest ==
    \A b \in Blob : store[b] \in {Content[b], NoContent}

\* An objects row promises that R2 has the blob (a later upload of it is dropped
\* on that promise) and gives the size that HEAD reports for what GET sends.
RowsAreStored ==
    \A b \in Blob : rows[b] # NoSize => store[b] # NoContent /\ rows[b] = Len(store[b])

\* 201 Created is only said of a blob that GET then finds, from then on.
AnsweredBlobsAreStored ==
    \A r \in Repo, b \in Blob : <<r, b>> \in answered => store[b] = Content[b]

\* Nobody is charged for storing what was not stored.
BilledBlobsAreStored ==
    \A r \in Repo, b \in Blob : <<TenantOf[r], b>> \in billed => store[b] = Content[b]

\* A chunked body that named its offset is appended at that offset: after a
\* broken-off PATCH the bytes that did arrive are not overlooked.
AppendedWhereNamed ==
    \A q \in Request : At(q, "write") =>
        LET rq == requests[q]
        IN  rq.range # NoRange /\ files[rq.upload] # NoContent =>
               SubSeq(files[rq.upload], rq.range + 1, Len(files[rq.upload]))
                  = SubSeq(rq.body, 1, rq.sent)

\* No uploaded bytes are thrown away: a file goes only when R2 holds its content.
FilesOutliveNoCopy ==
    [][\A u \in Upload : files[u] # NoContent /\ files'[u] = NoContent =>
          \E b \in Blob : store[b] = files[u]]_vars

\* What the manifest handlers and the pulls see of the uploads.
Store == INSTANCE BlobStore WITH
    stored <- {b \in Blob : store[b] # NoContent},
    tracked <- {b \in Blob : rows[b] # NoSize},
    listed <- repoObjects

\* Seen so, uploads keep what RegistryServer and the pulls rely on, however they are
\* interleaved, broken off or answered: R2 and the rows lose nothing, and no row and no
\* repository is ahead of R2.
UploadRefinement == Store!StoreSpec

\* What the upload test expects (not so: see the README): HEAD in a repository
\* finds the blob whose upload to that repository was answered 201.
UploadedBlobsAreFound ==
    \A r \in Repo, b \in Blob : <<r, b>> \in answered => b \in repoObjects[r]

=============================================================================
