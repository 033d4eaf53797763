-------------------------- MODULE BlobUploadProofs --------------------------
(***************************************************************************)
(* What BlobUpload promises of R2, the objects rows and the files, for any *)
(* number of handlers, sessions, repositories, blobs and contents: so long *)
(* as clients use each session serially, and what of it whatever they do.  *)
(***************************************************************************)
EXTENDS BlobUpload, SequenceTheorems, TLAPS

-----------------------------------------------------------------------------
(* The strengthened invariant *)

\* What a request is while it is handled.
Busy == [step: Steps, repo: Repo, upload: Upload \cup {NoUpload},
         digest: Blob \cup {NoBlob}, range: Nat \cup {NoRange},
         body: Seq(Chunk), sent: Nat, charge: BOOLEAN, size: Nat]

\* After its body a request is about a blob; until the file is gone it has a session.
Named(q) ==
    /\ requests[q].step \in Steps \ {"write"} => requests[q].digest \in Blob
    /\ requests[q].step \in Steps \ {"track", "emit"} => requests[q].upload \in Upload

\* Every session that is in use has been created, and one request uses it.
OneRequestASession ==
    \A q \in Request : requests[q] # Idle /\ requests[q].upload \in Upload =>
        /\ sessions[requests[q].upload] # "unused"
        /\ \A p \in Request :
              requests[p] # Idle /\ requests[p].upload = requests[q].upload => p = q

\* A file that was hashed is what its digest says until it is removed.
FileHashed(q) ==
    requests[q].step \in {"owner", "row", "drop", "store", "unlink"} =>
        files[requests[q].upload] = Content[requests[q].digest]

\* What a handler records is in R2, with that size.
BlobKept(q) ==
    requests[q].step \in {"drop", "unlink", "track", "emit"} =>
        /\ store[requests[q].digest] = Content[requests[q].digest]
        /\ requests[q].size = Len(Content[requests[q].digest])

Tidy(q) == FileHashed(q) /\ BlobKept(q)

RowsKept ==
    \A b \in Blob : rows[b] # NoSize => store[b] = Content[b] /\ rows[b] = Len(Content[b])

BilledKept == \A e \in billed : store[e[2]] = Content[e[2]]

Promises ==
    /\ StoredMatchesDigest
    /\ RowsKept
    /\ AnsweredBlobsAreStored
    /\ BilledKept
    /\ \A q \in Request : Tidy(q)

-----------------------------------------------------------------------------
(* Requests *)

\* The request of q after a step, and those of the others.
LEMMA RequestAfter ==
    ASSUME TypeOK, NEW q \in Request, NEW w, requests' = [requests EXCEPT ![q] = w]
    PROVE  /\ DOMAIN requests' = Request
           /\ requests'[q] = w
           /\ \A p \in Request : p # q => requests'[p] = requests[p]
  BY DEF TypeOK

\* A request that is handled has all its fields, and its step is not "idle".
LEMMA BusyRequest ==
    ASSUME TypeOK, NEW q \in Request
    PROVE  /\ requests[q] # Idle => requests[q] \in Busy
           /\ requests[q].step # "idle" => requests[q] # Idle
           /\ requests[q] # Idle => requests[q].step \in Steps
  BY DEF TypeOK, Busy, Idle

\* The same when only the step is new.
LEMMA GotoAfter ==
    ASSUME TypeOK, NEW q \in Request, requests[q] # Idle, NEW s \in Steps, Goto(q, s)
    PROVE  /\ DOMAIN requests' = Request
           /\ requests'[q] \in Busy /\ requests'[q].step = s
           /\ requests'[q].upload = requests[q].upload
           /\ requests'[q].digest = requests[q].digest
           /\ requests'[q].repo = requests[q].repo
           /\ requests'[q].size = requests[q].size
           /\ \A p \in Request : p # q => requests'[p] = requests[p]
<1> DEFINE w == [requests[q] EXCEPT !.step = s]
<1>1. requests' = [requests EXCEPT ![q] = w]
  BY DEF Goto
<1>2. requests[q] \in Busy
  BY BusyRequest
<1>3. /\ w \in Busy /\ w.step = s /\ w.upload = requests[q].upload
      /\ w.digest = requests[q].digest /\ w.repo = requests[q].repo
      /\ w.size = requests[q].size
  BY <1>2 DEF Busy
<1> HIDE DEF w
<1> QED
  BY <1>1, <1>3, RequestAfter

\* The same when the size is noted besides.
LEMMA SizeAfter ==
    ASSUME TypeOK, NEW q \in Request, requests[q] # Idle, NEW s \in Steps, NEW n \in Nat,
           requests' = [requests EXCEPT ![q].step = s, ![q].size = n]
    PROVE  /\ DOMAIN requests' = Request
           /\ requests'[q] \in Busy /\ requests'[q].step = s /\ requests'[q].size = n
           /\ requests'[q].upload = requests[q].upload
           /\ requests'[q].digest = requests[q].digest
           /\ \A p \in Request : p # q => requests'[p] = requests[p]
<1> DEFINE w == [requests[q] EXCEPT !.step = s, !.size = n]
<1>1. requests' = [requests EXCEPT ![q] = w]
  OBVIOUS
<1>2. requests[q] \in Busy
  BY BusyRequest
<1>3. /\ w \in Busy /\ w.step = s /\ w.upload = requests[q].upload
      /\ w.digest = requests[q].digest /\ w.size = n
  BY <1>2 DEF Busy
<1> HIDE DEF w
<1> QED
  BY <1>1, <1>3, RequestAfter

\* The same when the request is answered.
LEMMA ReplyAfter ==
    ASSUME TypeOK, NEW q \in Request, Reply(q)
    PROVE  /\ DOMAIN requests' = Request
           /\ requests'[q] = Idle
           /\ \A p \in Request : p # q => requests'[p] = requests[p]
  BY RequestAfter DEF Reply

\* The same for the three steps that note something else.
LEMMA NotedAfter ==
    ASSUME TypeOK, NEW q \in Request, requests[q] # Idle,
           WriteChunk(q) \/ HashUpload(q) \/ CheckOwner(q)
    PROVE  /\ DOMAIN requests' = Request
           /\ \A p \in Request : p # q => requests'[p] = requests[p]
           /\ requests'[q] # Idle =>
                 /\ requests'[q] \in Busy
                 /\ requests'[q].upload = requests[q].upload
                 /\ requests'[q].digest = requests[q].digest
           /\ WriteChunk(q) => requests'[q] # Idle /\ requests'[q].step = "write"
           /\ HashUpload(q) => \/ requests'[q] = Idle
                               \/ /\ requests'[q].step = "owner"
                                  /\ DigestMatches(requests[q].upload, requests[q].digest)
           /\ CheckOwner(q) => requests'[q].step = "row"
<1> DEFINE sent == [requests[q] EXCEPT !.sent = @ + 1]
           hashed == [requests[q] EXCEPT !.step = "owner", !.range = NoRange,
                                         !.body = <<>>, !.sent = 0]
           owned(charge) == [requests[q] EXCEPT !.charge = charge, !.step = "row"]
<1>1. requests[q] \in Busy
  BY BusyRequest
<1>2. CASE WriteChunk(q)
  <2>1. requests' = [requests EXCEPT ![q] = sent] /\ requests[q].step = "write"
    BY <1>2 DEF WriteChunk, At
  <2>2. /\ sent \in Busy /\ sent.step = requests[q].step
        /\ sent.upload = requests[q].upload /\ sent.digest = requests[q].digest
    BY <1>1 DEF Busy
  <2>3. sent # Idle
    BY <2>1, <2>2 DEF Idle
  <2>4. ~HashUpload(q) /\ ~CheckOwner(q)
    <3>1. requests[q].sent < Len(requests[q].body)
      BY <1>2 DEF WriteChunk
    <3>2. requests[q].sent \in Nat /\ Len(requests[q].body) \in Nat
      BY <1>1 DEF Busy
    <3>3. requests[q].sent # Len(requests[q].body)
      BY <3>1, <3>2
    <3>4. ~HashUpload(q)
      BY <3>3 DEF HashUpload, Written
    <3>5. ~CheckOwner(q)
      BY <2>1 DEF CheckOwner, At
    <3> QED
      BY <3>4, <3>5
  <2> HIDE DEF sent
  <2> QED
    BY <2>1, <2>2, <2>3, <2>4, RequestAfter
<1>3. CASE HashUpload(q)
  <2>0. requests[q].step = "write" /\ ~CheckOwner(q)
    BY <1>3 DEF HashUpload, Written, CheckOwner, At
  <2>4. ~WriteChunk(q)
    BY <1>3, <1>1 DEF WriteChunk, HashUpload, Written, At, Busy
  <2>1. CASE Reply(q)
    BY <2>0, <2>1, <2>4, ReplyAfter
  <2>2. CASE /\ requests' = [requests EXCEPT ![q] = hashed]
             /\ DigestMatches(requests[q].upload, requests[q].digest)
    <3>0. <<>> \in Seq(Chunk)
      OBVIOUS
    <3>1. /\ hashed \in Busy /\ hashed.step = "owner"
          /\ hashed.upload = requests[q].upload /\ hashed.digest = requests[q].digest
      BY <1>1, <3>0 DEF Busy, Steps
    <3> HIDE DEF hashed
    <3> QED
      BY <2>0, <2>2, <2>4, <3>1, RequestAfter
  <2> QED
    BY <1>3, <2>1, <2>2 DEF HashUpload
<1>4. CASE CheckOwner(q)
  <2>0. TenantHasBlob(TenantOf[requests[q].repo], requests[q].digest) \in BOOLEAN
    BY DEF TenantHasBlob
  <2>1. PICK charge \in BOOLEAN : requests' = [requests EXCEPT ![q] = owned(charge)]
    BY <1>4, <2>0 DEF CheckOwner
  <2>2. /\ owned(charge) \in Busy /\ owned(charge).step = "row"
        /\ owned(charge).upload = requests[q].upload
        /\ owned(charge).digest = requests[q].digest
    BY <1>1 DEF Busy, Steps
  <2>3. ~WriteChunk(q) /\ ~HashUpload(q)
    BY <1>4 DEF WriteChunk, HashUpload, Written, CheckOwner, At
  <2> HIDE DEF owned
  <2> QED
    BY <2>1, <2>2, <2>3, RequestAfter
<1> QED
  BY <1>2, <1>3, <1>4

-----------------------------------------------------------------------------
(* Types *)

RequestsOK ==
    /\ DOMAIN requests = Request
    /\ \A q \in Request : (requests[q] # Idle => requests[q] \in Busy) /\ Named(q)

\* One request at a time changes, and to one that is well formed.
LEMMA RequestsKept ==
    ASSUME RequestsOK, NEW q \in Request, DOMAIN requests' = Request,
           \A p \in Request : p # q => requests'[p] = requests[p],
           requests'[q] # Idle => requests'[q] \in Busy /\ Named(q)'
    PROVE  RequestsOK'
  BY DEF RequestsOK, Named, Idle, Steps

\* A request that arrives is well formed.
LEMMA ArriveKept ==
    ASSUME TypeOK, RequestsOK, NEW q \in Request, Arrive(q)
    PROVE  RequestsOK'
<1>0. <<>> \in Seq(Chunk) /\ \A b \in Body : b \in Seq(Chunk)
  BY ContentAssumption
<1>1. CASE \E u \in Upload : StartBlobUpload(q, u)
  BY <1>1 DEF StartBlobUpload, RequestsOK, Named
<1>2. ASSUME DOMAIN requests' = Request, requests'[q] \in Busy,
             \A p \in Request : p # q => requests'[p] = requests[p],
             \/ requests'[q].step = "write" /\ requests'[q].upload \in Upload
             \/ requests'[q].step = "track" /\ requests'[q].digest \in Blob
      PROVE  RequestsOK'
  BY <1>2, RequestsKept DEF Named
<1>3. ASSUME NEW r \in Repo, NEW u \in Upload, NEW body \in Body, NEW range, NEW d,
             range \in 0..MaxFile \cup {NoRange}, d \in Blob \cup {NoBlob},
             AcceptBody(q, r, u, d, range, body)
      PROVE  RequestsOK'
  <2> DEFINE w == [step |-> "write", repo |-> r, upload |-> u, digest |-> d,
                   range |-> range, body |-> body, sent |-> 0, charge |-> FALSE, size |-> 0]
  <2>1. requests' = [requests EXCEPT ![q] = w]
    BY <1>3 DEF AcceptBody, Begin
  <2>2. range \in Nat \cup {NoRange}
    BY <1>3, ContentAssumption
  <2>3. w \in Busy /\ w.step = "write" /\ w.upload \in Upload
    BY <1>0, <1>3, <2>2 DEF Busy, Steps
  <2> HIDE DEF w
  <2> QED
    BY <1>2, <2>1, <2>3, RequestAfter
<1>4. ASSUME NEW r \in Repo, NEW u \in Upload, NEW body \in Body, NEW d \in Blob,
             MonolithicBlobUpload(q, r, u, d, body)
      PROVE  RequestsOK'
  <2> DEFINE w == [step |-> "write", repo |-> r, upload |-> u, digest |-> d,
                   range |-> NoRange, body |-> body, sent |-> 0, charge |-> FALSE, size |-> 0]
  <2>1. requests' = [requests EXCEPT ![q] = w]
    BY <1>4 DEF MonolithicBlobUpload, Begin
  <2>2. w \in Busy /\ w.step = "write" /\ w.upload \in Upload
    BY <1>0 DEF Busy, Steps
  <2> HIDE DEF w
  <2> QED
    BY <1>2, <2>1, <2>2, RequestAfter
<1>5. ASSUME NEW r \in Repo, NEW d \in Blob, MountBlob(q, r, d)
      PROVE  RequestsOK'
  <2> DEFINE w == [step |-> "track", repo |-> r, upload |-> NoUpload, digest |-> d,
                   range |-> NoRange, body |-> <<>>, sent |-> 0, charge |-> FALSE, size |-> Len(store[d])]
  <2>1. requests' = [requests EXCEPT ![q] = w]
    BY <1>5 DEF MountBlob, Begin
  <2>2. store[d] \in Seq(Chunk)
    BY <1>5 DEF MountBlob, TypeOK
  <2>3. Len(store[d]) \in Nat
    BY <2>2
  <2>4. w \in Busy /\ w.step = "track" /\ w.digest \in Blob
    BY <1>0, <2>3 DEF Busy, Steps
  <2> HIDE DEF w
  <2> QED
    BY <1>2, <2>1, <2>4, RequestAfter
<1> QED
  BY <1>1, <1>3, <1>4, <1>5 DEF Arrive, PatchBlobUpload, FinalizeBlobUpload

\* What the steps of a handler do to requests: they change one of them, and of that
\* neither the session nor the digest.
LEMMA HandleAfter ==
    ASSUME TypeOK, RequestsOK, NEW q \in Request, Handle(q)
    PROVE  /\ requests[q] # Idle
           /\ DOMAIN requests' = Request
           /\ \A p \in Request : p # q => requests'[p] = requests[p]
           /\ requests'[q] # Idle => /\ requests'[q] \in Busy
                                     /\ requests'[q].upload = requests[q].upload
                                     /\ requests'[q].digest = requests[q].digest
<1> DEFINE Result == /\ DOMAIN requests' = Request
                     /\ \A p \in Request : p # q => requests'[p] = requests[p]
                     /\ requests'[q] # Idle => /\ requests'[q] \in Busy
                                               /\ requests'[q].upload = requests[q].upload
                                               /\ requests'[q].digest = requests[q].digest
<1> USE DEF At
<1>0. requests[q] # Idle
  <2>1. requests[q].step # "idle"
    BY DEF Handle, WriteChunk, PatchDone, HashUpload, CheckOwner, ReadRow, RowUnreadable,
           DropUpload, StoreBlob, RemoveUpload, TrackBlob, EmitAndReply, RequestFails, Written
  <2> QED
    BY <2>1, BusyRequest
<1>1. CASE WriteChunk(q) \/ HashUpload(q) \/ CheckOwner(q)
  <2>1. WriteChunk(q) => Result
    BY <1>0, NotedAfter
  <2>2. HashUpload(q) => Result
    BY <1>0, NotedAfter
  <2>3. CheckOwner(q) => Result
    BY <1>0, NotedAfter
  <2> QED
    BY <1>0, <1>1, <2>1, <2>2, <2>3
<1>2. CASE Reply(q)
  BY <1>0, <1>2, ReplyAfter
<1>3. ASSUME NEW s \in Steps, Goto(q, s)
      PROVE  Result
  BY <1>0, <1>3, GotoAfter
<1>4. ASSUME NEW s \in Steps, NEW n \in Nat,
             requests' = [requests EXCEPT ![q].step = s, ![q].size = n]
      PROVE  Result
  BY <1>0, <1>4, SizeAfter
<1> HIDE DEF Result
<1>5. CASE ReadRow(q)
  <2>1. requests[q].digest \in Blob
    BY <1>5 DEF ReadRow, RequestsOK, Named, Steps
  <2>2. rows[requests[q].digest] # NoSize => rows[requests[q].digest] \in Nat
    BY <2>1 DEF TypeOK
  <2>3. rows[requests[q].digest] = NoSize => Goto(q, "store")
    BY <1>5 DEF ReadRow
  <2>4. rows[requests[q].digest] # NoSize => Result
    BY <1>4, <1>5, <2>2 DEF ReadRow, Steps
  <2>5. rows[requests[q].digest] = NoSize => Result
    BY <1>3, <2>3 DEF Steps
  <2> QED
    BY <1>0, <2>4, <2>5 DEF Result
<1>6. CASE StoreBlob(q)
  <2>1. requests[q].upload \in Upload
    BY <1>6 DEF StoreBlob, RequestsOK, Named, Steps
  <2>2. files[requests[q].upload] # NoContent => files[requests[q].upload] \in Seq(Chunk)
    BY <2>1 DEF TypeOK
  <2>3. files[requests[q].upload] # NoContent => Len(files[requests[q].upload]) \in Nat
    BY <2>2
  <2>4. files[requests[q].upload] = NoContent => Result
    BY <1>2, <1>6 DEF StoreBlob, Result
  <2>5. files[requests[q].upload] # NoContent => Result
    BY <1>4, <1>6, <2>3 DEF StoreBlob, Steps
  <2> QED
    BY <1>0, <2>4, <2>5 DEF Result
<1>7. CASE RowUnreadable(q) \/ DropUpload(q) \/ RemoveUpload(q) \/ TrackBlob(q)
  <2>1. Reply(q) \/ \E s \in Steps : Goto(q, s)
    BY <1>7 DEF RowUnreadable, DropUpload, RemoveUpload, TrackBlob, Steps
  <2> QED
    BY <1>0, <1>2, <1>3, <2>1 DEF Result
<1>8. CASE PatchDone(q) \/ EmitAndReply(q) \/ RequestFails(q)
  BY <1>0, <1>2, <1>8 DEF PatchDone, EmitAndReply, RequestFails, Result
<1> QED
  BY <1>0, <1>1, <1>5, <1>6, <1>7, <1>8 DEF Handle, Result

\* A request that goes on stays well formed.
LEMMA HandleKept ==
    ASSUME TypeOK, RequestsOK, NEW q \in Request, Handle(q)
    PROVE  RequestsOK'
<1> USE DEF At
<1>0. requests[q] # Idle /\ requests[q] \in Busy /\ requests[q].step \in Steps
  <2>1. requests[q].step # "idle"
    BY DEF Handle, WriteChunk, PatchDone, HashUpload, CheckOwner, ReadRow, RowUnreadable,
           DropUpload, StoreBlob, RemoveUpload, TrackBlob, EmitAndReply, RequestFails, Written
  <2> QED
    BY <2>1, BusyRequest
<1>1. ASSUME DOMAIN requests' = Request,
             \A p \in Request : p # q => requests'[p] = requests[p],
             requests'[q] \in Busy,
             requests'[q].upload = requests[q].upload, requests'[q].digest = requests[q].digest,
             requests'[q].step = "write" \/ requests[q].step # "write" \/ requests[q].digest \in Blob,
             requests'[q].step \in {"track", "emit"} \/ requests[q].step \notin {"track", "emit"}
      PROVE  RequestsOK'
  <2>1. Named(q)
    BY DEF RequestsOK
  <2>2. Named(q)'
    BY <1>0, <1>1, <2>1 DEF Named
  <2> QED
    BY <1>1, <2>2, RequestsKept
<1>2. CASE HashUpload(q)
  <2>1. requests[q].digest \in Blob /\ requests[q].step = "write"
    BY <1>0, <1>2 DEF HashUpload, Busy, Written
  <2>2. CASE requests'[q] = Idle
    BY <1>0, <1>2, <2>2, NotedAfter, RequestsKept
  <2>3. CASE requests'[q] # Idle
    BY <1>0, <1>1, <1>2, <2>1, <2>3, NotedAfter
  <2> QED
    BY <2>2, <2>3
<1>3. CASE WriteChunk(q) \/ CheckOwner(q)
  <2>1. \/ requests[q].step = "write" /\ WriteChunk(q)
        \/ requests[q].step = "owner" /\ CheckOwner(q)
    BY <1>3 DEF WriteChunk, CheckOwner
  <2>2. requests'[q] # Idle
    BY <1>0, <2>1, NotedAfter DEF Idle
  <2> QED
    BY <1>0, <1>1, <2>1, <2>2, NotedAfter
<1>4. CASE Reply(q)
  BY <1>4, ReplyAfter, RequestsKept
<1>5. ASSUME NEW s \in Steps, Goto(q, s), requests[q].step # "write",
             s \in {"track", "emit"} \/ requests[q].step \notin {"track", "emit"}
      PROVE  RequestsOK'
  BY <1>0, <1>1, <1>5, GotoAfter
<1>6. ASSUME NEW s \in Steps, NEW n \in Nat, requests[q].step \notin {"write", "track", "emit"},
             requests' = [requests EXCEPT ![q].step = s, ![q].size = n]
      PROVE  RequestsOK'
  BY <1>0, <1>1, <1>6, SizeAfter
<1>7. CASE ReadRow(q)
  <2>1. requests[q].digest \in Blob /\ requests[q].step = "row"
    BY <1>7 DEF ReadRow, RequestsOK, Named, Steps
  <2>2. rows[requests[q].digest] # NoSize => rows[requests[q].digest] \in Nat
    BY <2>1 DEF TypeOK
  <2>3. CASE rows[requests[q].digest] = NoSize
    BY <1>5, <1>7, <2>1, <2>3 DEF ReadRow, Steps
  <2>4. CASE rows[requests[q].digest] # NoSize
    BY <1>6, <1>7, <2>1, <2>2, <2>4 DEF ReadRow, Steps
  <2> QED
    BY <2>3, <2>4
<1>8. CASE StoreBlob(q)
  <2>1. requests[q].upload \in Upload /\ requests[q].step = "store"
    BY <1>8 DEF StoreBlob, RequestsOK, Named, Steps
  <2>2. CASE files[requests[q].upload] = NoContent
    BY <1>4, <1>8, <2>2 DEF StoreBlob
  <2>3. CASE files[requests[q].upload] # NoContent
    <3>1. files[requests[q].upload] \in Seq(Chunk)
      BY <2>1, <2>3 DEF TypeOK
    <3>2. Len(files[requests[q].upload]) \in Nat /\ "unlink" \in Steps
      BY <3>1 DEF Steps
    <3> QED
      BY <1>6, <1>8, <2>1, <2>3, <3>2 DEF StoreBlob
  <2> QED
    BY <2>2, <2>3
<1>9. CASE RowUnreadable(q) \/ DropUpload(q) \/ RemoveUpload(q) \/ TrackBlob(q)
  BY <1>4, <1>5, <1>9 DEF RowUnreadable, DropUpload, RemoveUpload, TrackBlob, Steps
<1>10. CASE PatchDone(q) \/ EmitAndReply(q) \/ RequestFails(q)
  BY <1>4, <1>10 DEF PatchDone, EmitAndReply, RequestFails
<1> QED
  BY <1>2, <1>3, <1>7, <1>8, <1>9, <1>10 DEF Handle

\* TypeOK is what it says of the requests and what it says of the rest.
WorldOK ==
    /\ sessions \in [Upload -> {"unused", "private", "offered"}]
    /\ files \in [Upload -> Seq(Chunk) \cup {NoContent}]
    /\ store \in [Blob -> Seq(Chunk) \cup {NoContent}]
    /\ rows \in [Blob -> Nat \cup {NoSize}]
    /\ repoObjects \in [Repo -> SUBSET Blob]
    /\ billed \in SUBSET ({TenantOf[r] : r \in Repo} \X Blob)
    /\ answered \in SUBSET (Repo \X Blob)

\* What the two say together.
LEMMA TypeParts == WorldOK /\ RequestsOK => TypeOK
  BY DEF WorldOK, RequestsOK, TypeOK, Busy

\* Every step keeps types.
LEMMA TypeStep == TypeOK /\ RequestsOK /\ [Next]_vars => TypeOK' /\ RequestsOK'
<1> SUFFICES ASSUME TypeOK, RequestsOK, [Next]_vars
             PROVE  WorldOK' /\ RequestsOK'
  BY DEF WorldOK, RequestsOK, TypeOK, Busy
<1>0. WorldOK
  BY DEF TypeOK, WorldOK
<1>1. ASSUME NEW q \in Request, Arrive(q)
      PROVE  WorldOK' /\ RequestsOK'
  <2>1. UNCHANGED <<store, rows, repoObjects, billed, answered>>
    BY <1>1 DEF Arrive, StartBlobUpload, PatchBlobUpload, FinalizeBlobUpload, AcceptBody,
                MonolithicBlobUpload, MountBlob
  <2>2. \/ UNCHANGED <<sessions, files>>
        \/ \E u \in Upload, session \in {"private", "offered"} : CreateUpload(u, session)
    BY <1>1 DEF Arrive, StartBlobUpload, PatchBlobUpload, FinalizeBlobUpload, AcceptBody,
                MonolithicBlobUpload, MountBlob
  <2>3. <<>> \in Seq(Chunk)
    OBVIOUS
  <2>4. ASSUME NEW u \in Upload, NEW session \in {"private", "offered"},
               CreateUpload(u, session)
        PROVE  WorldOK'
    <3>1. /\ sessions' \in [Upload -> {"unused", "private", "offered"}]
          /\ files' \in [Upload -> Seq(Chunk) \cup {NoContent}]
      BY <1>0, <2>3, <2>4 DEF CreateUpload, WorldOK
    <3> QED
      BY <1>0, <2>1, <3>1 DEF WorldOK
  <2>5. ASSUME UNCHANGED <<sessions, files>>
        PROVE  WorldOK'
    BY <1>0, <2>1, <2>5 DEF WorldOK
  <2> QED
    BY <1>1, <2>2, <2>4, <2>5, ArriveKept
<1>2. ASSUME NEW q \in Request, Handle(q)
      PROVE  WorldOK' /\ RequestsOK'
  <2>0. requests[q].step # "idle" => requests[q] \in Busy /\ Named(q)
    BY BusyRequest DEF RequestsOK
  <2>1. CASE WriteChunk(q)
    <3>1. requests[q].step = "write" /\ requests[q].sent < Len(requests[q].body)
      BY <2>1 DEF WriteChunk, At
    <3>2. /\ requests[q].upload \in Upload /\ requests[q].body \in Seq(Chunk)
          /\ requests[q].sent \in Nat
      BY <2>0, <3>1 DEF Busy, Named, Steps
    <3>3. requests[q].body[requests[q].sent + 1] \in Chunk
      BY <3>1, <3>2
    <3>4. \A f \in Seq(Chunk) : Append(f, requests[q].body[requests[q].sent + 1]) \in Seq(Chunk)
      BY <3>3
    <3>5. files' \in [Upload -> Seq(Chunk) \cup {NoContent}]
      BY <1>0, <2>1, <3>2, <3>4 DEF WriteChunk, WorldOK
    <3> QED
      BY <1>0, <1>2, <2>1, <3>5, HandleKept DEF WriteChunk, WorldOK
  <2>2. CASE DropUpload(q) \/ RemoveUpload(q)
    <3>1. files' \in [Upload -> Seq(Chunk) \cup {NoContent}]
      BY <1>0, <2>2 DEF DropUpload, RemoveUpload, WorldOK
    <3> QED
      BY <1>0, <1>2, <2>2, <3>1, HandleKept DEF DropUpload, RemoveUpload, WorldOK
  <2>3. CASE StoreBlob(q)
    <3>1. requests[q].upload \in Upload
      BY <2>0, <2>3 DEF StoreBlob, At, Named, Steps
    <3>2. store' \in [Blob -> Seq(Chunk) \cup {NoContent}]
      BY <1>0, <2>3, <3>1 DEF StoreBlob, WorldOK
    <3> QED
      BY <1>0, <1>2, <2>3, <3>2, HandleKept DEF StoreBlob, WorldOK
  <2>4. CASE TrackBlob(q)
    <3>1. requests[q].size \in Nat
      BY <2>0, <2>4 DEF TrackBlob, At, Busy
    <3>2. rows' \in [Blob -> Nat \cup {NoSize}]
      BY <1>0, <2>4, <3>1 DEF TrackBlob, WorldOK
    <3> QED
      BY <1>0, <1>2, <2>4, <3>2, HandleKept DEF TrackBlob, WorldOK
  <2>5. CASE EmitAndReply(q)
    <3>1. requests[q].repo \in Repo /\ requests[q].digest \in Blob
      BY <2>0, <2>5 DEF EmitAndReply, At, Busy, Named, Steps
    <3>2. billed' \in SUBSET ({TenantOf[r] : r \in Repo} \X Blob)
      BY <1>0, <2>5, <3>1 DEF EmitAndReply, WorldOK
    <3>3. answered' \in SUBSET (Repo \X Blob)
      BY <1>0, <2>5, <3>1 DEF EmitAndReply, WorldOK
    <3> QED
      BY <1>0, <1>2, <2>5, <3>2, <3>3, HandleKept DEF EmitAndReply, WorldOK
  <2>6. CASE \/ PatchDone(q) \/ HashUpload(q) \/ CheckOwner(q) \/ ReadRow(q)
             \/ RowUnreadable(q) \/ RequestFails(q)
    <3>1. UNCHANGED <<sessions, files, store, rows, repoObjects, billed, answered>>
      BY <2>6 DEF PatchDone, HashUpload, CheckOwner, ReadRow, RowUnreadable, RequestFails
    <3> QED
      BY <1>0, <1>2, <3>1, HandleKept DEF WorldOK
  <2> QED
    BY <1>2, <2>1, <2>2, <2>3, <2>4, <2>5, <2>6 DEF Handle
<1>3. ASSUME NEW r \in Repo, NEW b \in Blob, IndexBlob(r, b)
      PROVE  WorldOK' /\ RequestsOK'
  <2>1. store[b] \in Seq(Chunk)
    BY <1>0, <1>3 DEF IndexBlob, WorldOK
  <2>2. Len(store[b]) \in Nat
    BY <2>1
  <2>3. rows' \in [Blob -> Nat \cup {NoSize}] /\ repoObjects' \in [Repo -> SUBSET Blob]
    BY <1>0, <1>3, <2>2 DEF IndexBlob, WorldOK
  <2> QED
    BY <1>0, <1>3, <2>3 DEF IndexBlob, WorldOK, RequestsOK, Named
<1>4. ASSUME NEW r \in Repo, NEW b \in Blob, ReleaseBlob(r, b)
      PROVE  WorldOK' /\ RequestsOK'
  <2>1. repoObjects' \in [Repo -> SUBSET Blob]
    BY <1>0, <1>4 DEF ReleaseBlob, WorldOK
  <2> QED
    BY <1>0, <1>4, <2>1 DEF ReleaseBlob, WorldOK, RequestsOK, Named
<1>5. CASE Restart
  BY <1>0, <1>5 DEF Restart, WorldOK, RequestsOK, Named, Idle, Steps
<1>6. CASE UNCHANGED vars
  BY <1>0, <1>6 DEF vars, WorldOK, RequestsOK, Named
<1> QED
  BY <1>1, <1>2, <1>3, <1>4, <1>5, <1>6 DEF Next

\* The type invariant holds, however clients use their sessions.
THEOREM TypeCorrect == Spec => [](TypeOK /\ RequestsOK)
<1>1. Init => WorldOK /\ RequestsOK
  <2>1. <<>> \in Seq(Chunk)
    OBVIOUS
  <2> QED
    BY <2>1 DEF Init, WorldOK, RequestsOK, Named, Idle, Steps
<1>2. Init => TypeOK /\ RequestsOK
  BY <1>1, TypeParts
<1> QED
  BY <1>2, TypeStep, PTL DEF Spec

-----------------------------------------------------------------------------
(* Sessions *)

\* A session is free for the next request only when the one before is answered.
LEMMA SessionStep ==
    ASSUME SerialSessions
    PROVE  TypeOK /\ RequestsOK /\ OneRequestASession /\ [Next]_vars => OneRequestASession'
<1> SUFFICES ASSUME TypeOK, RequestsOK, OneRequestASession, [Next]_vars
             PROVE  OneRequestASession'
  OBVIOUS
<1>1. ASSUME NEW q \in Request, \A p \in Request : p # q => requests'[p] = requests[p],
             \A u \in Upload : sessions[u] # "unused" => sessions'[u] # "unused",
             requests'[q] # Idle /\ requests'[q].upload \in Upload =>
                \/ requests[q] # Idle /\ requests'[q].upload = requests[q].upload
                \/ /\ sessions'[requests'[q].upload] # "unused"
                   /\ \A p \in Request : p # q /\ requests[p] # Idle =>
                         requests[p].upload # requests'[q].upload
      PROVE  OneRequestASession'
  BY <1>1 DEF OneRequestASession
<1>2. ASSUME NEW q \in Request, Arrive(q)
      PROVE  OneRequestASession'
  <2>1. CASE \E u \in Upload : StartBlobUpload(q, u)
    BY <2>1 DEF StartBlobUpload, CreateUpload, OneRequestASession, TypeOK
  <2>2. ASSUME NEW r \in Repo, NEW u \in Upload, NEW body, NEW range, NEW d,
               AcceptBody(q, r, u, d, range, body)
        PROVE  OneRequestASession'
    <3> DEFINE w == [step |-> "write", repo |-> r, upload |-> u, digest |-> d,
                     range |-> range, body |-> body, sent |-> 0, charge |-> FALSE, size |-> 0]
    <3>1. requests' = [requests EXCEPT ![q] = w] /\ w.upload = u
      BY <2>2 DEF AcceptBody, Begin
    <3>2. /\ sessions' = sessions /\ sessions[u] = "offered"
          /\ \A p \in Request : requests[p] # Idle => requests[p].upload # u
      BY <2>2 DEF AcceptBody, Addressable
    <3> HIDE DEF w
    <3>3. requests'[q] = w /\ \A p \in Request : p # q => requests'[p] = requests[p]
      BY <3>1, RequestAfter
    <3> QED
      BY <1>1, <3>1, <3>2, <3>3
  <2>3. ASSUME NEW r \in Repo, NEW u \in Upload, NEW body, NEW d,
               MonolithicBlobUpload(q, r, u, d, body)
        PROVE  OneRequestASession'
    <3> DEFINE w == [step |-> "write", repo |-> r, upload |-> u, digest |-> d,
                     range |-> NoRange, body |-> body, sent |-> 0, charge |-> FALSE, size |-> 0]
    <3>1. requests' = [requests EXCEPT ![q] = w] /\ w.upload = u
      BY <2>3 DEF MonolithicBlobUpload, Begin
    <3>2. /\ sessions[u] = "unused" /\ sessions'[u] = "private"
          /\ \A v \in Upload : v # u => sessions'[v] = sessions[v]
      BY <2>3 DEF MonolithicBlobUpload, CreateUpload, TypeOK
    <3>3. \A p \in Request : requests[p] # Idle => requests[p].upload # u
      BY <3>2 DEF OneRequestASession
    <3> HIDE DEF w
    <3>4. requests'[q] = w /\ \A p \in Request : p # q => requests'[p] = requests[p]
      BY <3>1, RequestAfter
    <3> QED
      BY <1>1, <3>1, <3>2, <3>3, <3>4
  <2>4. ASSUME NEW r \in Repo, NEW d \in Blob, MountBlob(q, r, d)
        PROVE  OneRequestASession'
    <3> DEFINE w == [step |-> "track", repo |-> r, upload |-> NoUpload, digest |-> d,
                     range |-> NoRange, body |-> <<>>, sent |-> 0, charge |-> FALSE,
                     size |-> Len(store[d])]
    <3>1. /\ requests' = [requests EXCEPT ![q] = w] /\ w.upload = NoUpload
          /\ sessions' = sessions
      BY <2>4 DEF MountBlob, Begin
    <3>2. NoUpload \notin Upload
      BY ContentAssumption
    <3> HIDE DEF w
    <3>3. requests'[q] = w /\ \A p \in Request : p # q => requests'[p] = requests[p]
      BY <3>1, RequestAfter
    <3> QED
      BY <1>1, <3>1, <3>2, <3>3
  <2> QED
    BY <1>2, <2>1, <2>2, <2>3, <2>4 DEF Arrive, PatchBlobUpload, FinalizeBlobUpload
<1>3. ASSUME NEW q \in Request, Handle(q)
      PROVE  OneRequestASession'
  <2>1. sessions' = sessions
    BY <1>3 DEF Handle, WriteChunk, PatchDone, HashUpload, CheckOwner, ReadRow, RowUnreadable,
                DropUpload, StoreBlob, RemoveUpload, TrackBlob, EmitAndReply, RequestFails
  <2>2. requests[q] # Idle
    <3>1. requests[q].step # "idle"
      BY <1>3 DEF Handle, WriteChunk, PatchDone, HashUpload, CheckOwner, ReadRow,
                  RowUnreadable, DropUpload, StoreBlob, RemoveUpload, TrackBlob, EmitAndReply,
                  RequestFails, Written, At
    <3> QED
      BY <3>1, BusyRequest
  <2>3. /\ \A p \in Request : p # q => requests'[p] = requests[p]
        /\ requests'[q] # Idle => requests'[q].upload = requests[q].upload
    BY <1>3, <2>2, HandleAfter
  <2> QED
    BY <1>1, <2>1, <2>2, <2>3
<1>4. CASE Restart
  BY <1>4 DEF Restart, OneRequestASession
<1>5. CASE UNCHANGED <<sessions, requests>>
  BY <1>5 DEF OneRequestASession
<1> QED
  BY <1>2, <1>3, <1>4, <1>5 DEF Next, IndexBlob, ReleaseBlob, vars

-----------------------------------------------------------------------------
(* What is stored *)

\* No sentinel is the content of a blob.
LEMMA ContentIsContent == \A b \in Blob : Content[b] \in Seq(Chunk) /\ Content[b] # NoContent
  BY ContentAssumption

\* What a step of one handler does to files and R2 does not disturb the others.
LEMMA TidyKept ==
    ASSUME TypeOK, RequestsOK, OneRequestASession, Promises, NEW q \in Request,
           \A p \in Request : p # q => requests'[p] = requests[p],
           \A b \in Blob : store'[b] = store[b] \/ store'[b] = Content[b],
           \A u \in Upload : \/ files'[u] = files[u]
                             \/ sessions[u] = "unused"
                             \/ requests[q] # Idle /\ requests[q].upload = u,
           Tidy(q)'
    PROVE  \A p \in Request : Tidy(p)'
<1> SUFFICES ASSUME NEW p \in Request, p # q
             PROVE  Tidy(p)'
  OBVIOUS
<1>1. requests'[p] = requests[p] /\ Tidy(p) /\ Named(p)
  BY DEF Promises, RequestsOK
<1>2. FileHashed(p)'
  <2> SUFFICES ASSUME requests[p].step \in {"owner", "row", "drop", "store", "unlink"}
               PROVE  files'[requests[p].upload] = Content[requests[p].digest]
    BY <1>1 DEF FileHashed
  <2>1. requests[p] # Idle /\ requests[p].upload \in Upload
    BY <1>1 DEF Idle, Named, Steps
  <2>2. /\ sessions[requests[p].upload] # "unused"
        /\ ~(requests[q] # Idle /\ requests[q].upload = requests[p].upload)
    BY <2>1 DEF OneRequestASession
  <2> QED
    BY <1>1, <2>1, <2>2 DEF Tidy, FileHashed
<1>3. BlobKept(p)'
  BY <1>1 DEF Tidy, BlobKept, Named, Steps
<1> QED
  BY <1>2, <1>3 DEF Tidy

\* R2 and what is recorded of it stay in step.
LEMMA PromisesStep ==
    /\ TypeOK /\ RequestsOK /\ OneRequestASession /\ Promises /\ [Next]_vars
    => Promises'
<1> SUFFICES ASSUME TypeOK, RequestsOK, OneRequestASession, Promises, [Next]_vars
             PROVE  Promises'
  OBVIOUS
<1> USE DEF At
<1> DEFINE Recorded == /\ StoredMatchesDigest /\ RowsKept
                       /\ AnsweredBlobsAreStored /\ BilledKept
<1>1. ASSUME UNCHANGED <<store, rows, billed, answered>>
      PROVE  Recorded'
  BY <1>1 DEF Promises, StoredMatchesDigest, RowsKept, AnsweredBlobsAreStored, BilledKept
<1>2. ASSUME NEW q \in Request, Arrive(q)
      PROVE  Promises'
  <2>1. UNCHANGED <<store, rows, billed, answered>>
    BY <1>2 DEF Arrive, StartBlobUpload, PatchBlobUpload, FinalizeBlobUpload, AcceptBody,
                MonolithicBlobUpload, MountBlob
  <2>2. \A u \in Upload : files'[u] = files[u] \/ sessions[u] = "unused"
    BY <1>2 DEF Arrive, StartBlobUpload, PatchBlobUpload, FinalizeBlobUpload, AcceptBody,
                MonolithicBlobUpload, MountBlob, CreateUpload, TypeOK
  <2>3. /\ \A p \in Request : p # q => requests'[p] = requests[p]
        /\ Tidy(q)'
    <3>1. CASE UNCHANGED requests /\ requests[q] = Idle
      BY <3>1 DEF Tidy, FileHashed, BlobKept, Idle
    <3>2. ASSUME NEW r, NEW u, NEW d, NEW range, NEW body,
                 Begin(q, "write", r, u, d, range, body, 0)
          PROVE  /\ \A p \in Request : p # q => requests'[p] = requests[p]
                 /\ Tidy(q)'
      <4> DEFINE w == [step |-> "write", repo |-> r, upload |-> u, digest |-> d,
                       range |-> range, body |-> body, sent |-> 0, charge |-> FALSE, size |-> 0]
      <4>1. requests' = [requests EXCEPT ![q] = w] /\ w.step = "write"
        BY <3>2 DEF Begin
      <4> HIDE DEF w
      <4> QED
        BY <4>1, RequestAfter DEF Tidy, FileHashed, BlobKept
    <3>3. ASSUME NEW r \in Repo, NEW d \in Blob, MountBlob(q, r, d)
          PROVE  /\ \A p \in Request : p # q => requests'[p] = requests[p]
                 /\ Tidy(q)'
      <4> DEFINE w == [step |-> "track", repo |-> r, upload |-> NoUpload, digest |-> d,
                       range |-> NoRange, body |-> <<>>, sent |-> 0, charge |-> FALSE,
                       size |-> Len(store[d])]
      <4>1. /\ requests' = [requests EXCEPT ![q] = w] /\ w.step = "track" /\ w.digest = d
            /\ w.size = Len(store[d])
        BY <3>3 DEF MountBlob, Begin
      <4>2. store[d] = Content[d] /\ store' = store
        BY <3>3 DEF MountBlob, Promises, StoredMatchesDigest
      <4> HIDE DEF w
      <4> QED
        BY <4>1, <4>2, RequestAfter DEF Tidy, FileHashed, BlobKept
    <3> QED
      BY <1>2, <3>1, <3>2, <3>3
      DEF Arrive, StartBlobUpload, PatchBlobUpload, FinalizeBlobUpload, AcceptBody,
          MonolithicBlobUpload
  <2> QED
    BY <1>1, <2>1, <2>2, <2>3, TidyKept DEF Promises
<1>3. ASSUME NEW q \in Request, Handle(q)
      PROVE  Promises'
  <2> DEFINE d == requests[q].digest
             u == requests[q].upload
  <2>0. /\ requests[q] # Idle
        /\ \A p \in Request : p # q => requests'[p] = requests[p]
        /\ requests'[q] # Idle => /\ requests'[q] \in Busy
                                  /\ requests'[q].upload = u
                                  /\ requests'[q].digest = d
    BY <1>3, HandleAfter
  <2>1. Tidy(q) /\ Named(q)
    BY DEF Promises, RequestsOK
  <2>2. /\ requests[q].step \in Steps \ {"write"} => d \in Blob
        /\ requests[q].step \in Steps \ {"track", "emit"} => u \in Upload
    BY <2>1 DEF Named
  <2>3. requests'[q] = Idle => Tidy(q)'
    BY DEF Tidy, FileHashed, BlobKept, Idle
  <2>4. ASSUME Tidy(q)', UNCHANGED <<store, rows, billed, answered>>,
               \A v \in Upload : files'[v] = files[v] \/ v = u
        PROVE  Promises'
    BY <1>1, <2>0, <2>4, TidyKept DEF Promises
  <2> HIDE DEF d, u
  <2>5. CASE WriteChunk(q)
    <3>1. requests'[q].step = "write"
      BY <2>0, <2>5, NotedAfter
    <3>2. \A v \in Upload : files'[v] = files[v] \/ v = u
      BY <2>5 DEF WriteChunk, TypeOK, u
    <3> QED
      BY <2>4, <2>5, <3>1, <3>2 DEF WriteChunk, Tidy, FileHashed, BlobKept
  <2>6. CASE HashUpload(q)
    <3>1. CASE requests'[q] = Idle
      BY <2>3, <2>4, <2>6, <3>1 DEF HashUpload
    <3>2. CASE requests'[q] # Idle
      <4>1. requests'[q].step = "owner" /\ files[u] = Content[d]
        BY <2>0, <2>6, <3>2, NotedAfter DEF DigestMatches, u, d
      <4> QED
        BY <2>0, <2>4, <2>6, <3>2, <4>1 DEF HashUpload, Tidy, FileHashed, BlobKept
    <3> QED
      BY <3>1, <3>2
  <2>7. CASE CheckOwner(q)
    <3>1. requests'[q].step = "row" /\ files[u] = Content[d]
      BY <2>0, <2>1, <2>7, NotedAfter DEF CheckOwner, Tidy, FileHashed, u, d
    <3>2. requests'[q] # Idle
      BY <3>1 DEF Idle
    <3> QED
      BY <2>0, <2>4, <2>7, <3>1, <3>2 DEF CheckOwner, Tidy, FileHashed, BlobKept
  <2>8. CASE ReadRow(q)
    <3>1. requests[q].step = "row" /\ d \in Blob /\ files[u] = Content[d]
      BY <2>1, <2>2, <2>8 DEF ReadRow, Tidy, FileHashed, Steps, u, d
    <3>2. CASE rows[d] = NoSize
      <4>1. Goto(q, "store")
        BY <2>8, <3>2 DEF ReadRow, d
      <4>2. requests'[q].step = "store" /\ requests'[q] # Idle
        BY <2>0, <4>1, GotoAfter DEF Steps, Idle
      <4> QED
        BY <2>0, <2>4, <2>8, <3>1, <4>2 DEF ReadRow, Tidy, FileHashed, BlobKept
    <3>3. CASE rows[d] # NoSize
      <4>1. rows[d] \in Nat /\ store[d] = Content[d] /\ rows[d] = Len(Content[d])
        BY <3>1, <3>3 DEF TypeOK, Promises, RowsKept
      <4>2. requests' = [requests EXCEPT ![q].step = "drop", ![q].size = rows[d]]
        BY <2>8, <3>3 DEF ReadRow, d
      <4>3. requests'[q].step = "drop" /\ requests'[q].size = rows[d] /\ requests'[q] # Idle
        <5> DEFINE w == [requests[q] EXCEPT !.step = "drop", !.size = rows[d]]
        <5>1. requests' = [requests EXCEPT ![q] = w]
          BY <4>2
        <5>2. w.step = "drop" /\ w.size = rows[d]
          BY <2>0, BusyRequest DEF Busy
        <5> HIDE DEF w
        <5>3. requests'[q] = w
          BY <5>1, RequestAfter
        <5> QED
          BY <5>2, <5>3 DEF Idle
      <4> QED
        BY <2>0, <2>4, <2>8, <3>1, <4>1, <4>3 DEF ReadRow, Tidy, FileHashed, BlobKept
    <3> QED
      BY <3>2, <3>3
  <2>9. CASE RowUnreadable(q)
    <3>1. requests[q].step = "row" /\ Goto(q, "store") /\ files[u] = Content[d]
      BY <2>1, <2>9 DEF RowUnreadable, Tidy, FileHashed, u, d
    <3>2. requests'[q].step = "store" /\ requests'[q] # Idle
      BY <2>0, <3>1, GotoAfter DEF Steps, Idle
    <3> QED
      BY <2>0, <2>4, <2>9, <3>1, <3>2 DEF RowUnreadable, Tidy, FileHashed, BlobKept
  <2>10. CASE DropUpload(q) \/ RemoveUpload(q)
    <3>1. /\ requests[q].step \in {"drop", "unlink"}
          /\ \A v \in Upload : files'[v] = files[v] \/ v = u
      BY <2>10 DEF DropUpload, RemoveUpload, TypeOK, u
    <3>2. CASE Reply(q)
      BY <2>3, <2>4, <2>10, <3>1, <3>2, ReplyAfter DEF DropUpload, RemoveUpload
    <3>3. CASE Goto(q, "track")
      <4>1. /\ requests'[q].step = "track" /\ requests'[q].size = requests[q].size
            /\ requests'[q] # Idle
        BY <2>0, <3>3, GotoAfter DEF Steps, Idle
      <4>2. store[d] = Content[d] /\ requests[q].size = Len(Content[d])
        BY <2>1, <3>1 DEF Tidy, BlobKept, d
      <4> QED
        BY <2>0, <2>4, <2>10, <3>1, <4>1, <4>2
        DEF DropUpload, RemoveUpload, Tidy, FileHashed, BlobKept
    <3> QED
      BY <2>10, <3>2, <3>3 DEF DropUpload, RemoveUpload
  <2>11. CASE StoreBlob(q)
    <3>1. requests[q].step = "store" /\ d \in Blob /\ files[u] = Content[d]
      BY <2>1, <2>2, <2>11 DEF StoreBlob, Tidy, FileHashed, Steps, d, u
    <3>2. Content[d] # NoContent /\ Len(Content[d]) \in Nat
      BY <3>1, ContentIsContent
    <3>3. /\ store' = [store EXCEPT ![d] = Content[d]]
          /\ requests' = [requests EXCEPT ![q].step = "unlink", ![q].size = Len(Content[d])]
          /\ UNCHANGED <<files, rows, billed, answered>>
      BY <2>11, <3>1, <3>2 DEF StoreBlob, d, u
    <3>4. /\ requests'[q].step = "unlink" /\ requests'[q].size = Len(Content[d])
          /\ requests'[q] # Idle
      <4> DEFINE w == [requests[q] EXCEPT !.step = "unlink", !.size = Len(Content[d])]
      <4>1. requests' = [requests EXCEPT ![q] = w]
        BY <3>3
      <4>2. w.step = "unlink" /\ w.size = Len(Content[d])
        BY <2>0, BusyRequest DEF Busy
      <4> HIDE DEF w
      <4>3. requests'[q] = w
        BY <4>1, RequestAfter
      <4> QED
        BY <4>2, <4>3 DEF Idle
    <3>5. \A b \in Blob : store'[b] = IF b = d THEN Content[d] ELSE store[b]
      BY <3>3 DEF TypeOK
    <3>6. Tidy(q)'
      BY <2>0, <3>1, <3>3, <3>4, <3>5 DEF Tidy, FileHashed, BlobKept
    <3>7. \A p \in Request : Tidy(p)'
      BY <2>0, <3>3, <3>5, <3>6, TidyKept
    <3>8. \A e \in billed : e[2] \in Blob
      BY DEF TypeOK
    <3> QED
      BY <3>3, <3>5, <3>7, <3>8
      DEF Promises, StoredMatchesDigest, RowsKept, AnsweredBlobsAreStored, BilledKept
  <2>12. CASE TrackBlob(q)
    <3>1. /\ requests[q].step = "track" /\ Goto(q, "emit") /\ d \in Blob
          /\ store[d] = Content[d] /\ requests[q].size = Len(Content[d])
          /\ UNCHANGED <<files, store, billed, answered>>
      BY <2>1, <2>2, <2>12 DEF TrackBlob, Tidy, BlobKept, Steps, d
    <3>2. /\ requests'[q].step = "emit" /\ requests'[q].size = requests[q].size
          /\ requests'[q] # Idle
      BY <2>0, <3>1, GotoAfter DEF Steps, Idle
    <3>3. Tidy(q)'
      BY <2>0, <3>1, <3>2 DEF Tidy, FileHashed, BlobKept
    <3>4. \A p \in Request : Tidy(p)'
      BY <2>0, <3>1, <3>3, TidyKept
    <3>5. \A b \in Blob : rows'[b] = rows[b] \/ (b = d /\ rows'[b] = requests[q].size)
      <4>1. rows \in [Blob -> Nat \cup {NoSize}]
        BY DEF TypeOK
      <4>2. rows' = rows \/ rows' = [rows EXCEPT ![d] = requests[q].size]
        BY <2>12 DEF TrackBlob, d
      <4> QED
        BY <3>1, <4>1, <4>2
    <3> QED
      BY <3>1, <3>4, <3>5
      DEF Promises, StoredMatchesDigest, RowsKept, AnsweredBlobsAreStored, BilledKept
  <2>13. CASE EmitAndReply(q)
    <3>1. /\ Reply(q) /\ d \in Blob /\ store[d] = Content[d]
          /\ UNCHANGED <<files, store, rows>>
      BY <2>1, <2>2, <2>13 DEF EmitAndReply, Tidy, BlobKept, Steps, d
    <3>2. \A p \in Request : Tidy(p)'
      BY <2>0, <2>3, <3>1, ReplyAfter, TidyKept
    <3>3. /\ \A e \in billed' : e \in billed \/ e = <<TenantOf[requests[q].repo], d>>
          /\ \A e \in answered' : e \in answered \/ e = <<requests[q].repo, d>>
      BY <2>13 DEF EmitAndReply, d
    <3>4. BilledKept'
      BY <3>1, <3>3 DEF Promises, BilledKept
    <3>5. AnsweredBlobsAreStored'
      BY <3>1, <3>3 DEF Promises, AnsweredBlobsAreStored
    <3> QED
      BY <3>1, <3>2, <3>4, <3>5 DEF Promises, StoredMatchesDigest, RowsKept
  <2>14. CASE PatchDone(q) \/ RequestFails(q)
    <3>1. Reply(q) /\ UNCHANGED <<files, store, rows, billed, answered>>
      BY <2>14 DEF PatchDone, RequestFails
    <3> QED
      BY <2>3, <2>4, <3>1, ReplyAfter
  <2> QED
    BY <1>3, <2>5, <2>6, <2>7, <2>8, <2>9, <2>10, <2>11, <2>12, <2>13, <2>14 DEF Handle
<1>4. ASSUME NEW r \in Repo, NEW b \in Blob, IndexBlob(r, b)
      PROVE  Promises'
  <2>1. /\ store[b] = Content[b]
        /\ UNCHANGED <<sessions, files, store, billed, requests, answered>>
    BY <1>4 DEF IndexBlob, Promises, StoredMatchesDigest
  <2>2. \A c \in Blob : rows'[c] = rows[c] \/ (c = b /\ rows'[c] = Len(store[b]))
    <3>1. rows \in [Blob -> Nat \cup {NoSize}]
      BY DEF TypeOK
    <3>2. rows' = [rows EXCEPT ![b] = Len(store[b])]
      BY <1>4 DEF IndexBlob
    <3> QED
      BY <3>1, <3>2
  <2> QED
    BY <2>1, <2>2
    DEF Promises, StoredMatchesDigest, RowsKept, AnsweredBlobsAreStored, BilledKept,
        Tidy, FileHashed, BlobKept
<1>5. CASE Restart
  BY <1>1, <1>5 DEF Restart, Promises, Tidy, FileHashed, BlobKept, Idle
<1>6. CASE UNCHANGED <<files, store, rows, billed, requests, answered>>
  BY <1>1, <1>6 DEF Promises, Tidy, FileHashed, BlobKept
<1> QED
  BY <1>2, <1>3, <1>4, <1>5, <1>6 DEF Next, ReleaseBlob, vars

\* All of it holds from the beginning.
LEMMA PromisesKept ==
    ASSUME SerialSessions
    PROVE  Spec => [](TypeOK /\ RequestsOK /\ OneRequestASession /\ Promises)
<1>1. Init => OneRequestASession /\ Promises
  BY DEF Init, OneRequestASession, Promises, StoredMatchesDigest, RowsKept,
         AnsweredBlobsAreStored, BilledKept, Tidy, FileHashed, BlobKept, Idle
<1> QED
  BY <1>1, TypeCorrect, SessionStep, PromisesStep, PTL DEF Spec

\* R2 keeps under a digest nothing but the content with that digest.
THEOREM StoreIsSound ==
    ASSUME SerialSessions
    PROVE  Spec => []StoredMatchesDigest
<1>1. Promises => StoredMatchesDigest
  BY DEF Promises
<1> QED
  BY <1>1, PromisesKept, PTL

\* An objects row promises that R2 has the blob, and tells its size.
THEOREM RowsAreSound ==
    ASSUME SerialSessions
    PROVE  Spec => []RowsAreStored
<1>1. Promises => RowsAreStored
  BY ContentIsContent DEF Promises, RowsKept, RowsAreStored
<1> QED
  BY <1>1, PromisesKept, PTL

\* What was answered 201 Created is there to be pulled.
THEOREM AnswersAreSound ==
    ASSUME SerialSessions
    PROVE  Spec => []AnsweredBlobsAreStored
<1>1. Promises => AnsweredBlobsAreStored
  BY DEF Promises
<1> QED
  BY <1>1, PromisesKept, PTL

\* What was charged is there.
THEOREM BillsAreSound ==
    ASSUME SerialSessions
    PROVE  Spec => []BilledBlobsAreStored
<1>1. Promises => BilledBlobsAreStored
  BY DEF Promises, BilledKept, BilledBlobsAreStored
<1> QED
  BY <1>1, PromisesKept, PTL

\* A session file goes only when R2 has what was in it.
THEOREM FilesAreNotLost ==
    ASSUME SerialSessions
    PROVE  Spec => FilesOutliveNoCopy
<1> DEFINE Kept == \A u \in Upload : files[u] # NoContent /\ files'[u] = NoContent =>
                      \E b \in Blob : store[b] = files[u]
<1>1. TypeOK /\ RequestsOK /\ Promises /\ [Next]_vars => Kept
  <2> SUFFICES ASSUME TypeOK, RequestsOK, Promises, [Next]_vars, NEW u \in Upload,
                      files[u] # NoContent, files'[u] = NoContent
               PROVE  \E b \in Blob : store[b] = files[u]
    OBVIOUS
  <2>1. ASSUME NEW v \in Upload, files' = [files EXCEPT ![v] = <<>>]
        PROVE  FALSE
    <3>1. <<>> \in Seq(Chunk)
      OBVIOUS
    <3>2. <<>> # NoContent
      BY <3>1, ContentAssumption
    <3> QED
      BY <2>1, <3>2 DEF TypeOK
  <2>2. ASSUME NEW q \in Request, WriteChunk(q)
        PROVE  FALSE
    <3>1. /\ requests[q].step = "write"
          /\ requests[q].sent < Len(requests[q].body)
          /\ files' = IF files[requests[q].upload] = NoContent THEN files
                      ELSE [files EXCEPT ![requests[q].upload] =
                              Append(@, requests[q].body[requests[q].sent + 1])]
      BY <2>2 DEF WriteChunk, At
    <3>2. /\ requests[q].upload \in Upload /\ requests[q].body \in Seq(Chunk)
          /\ requests[q].sent \in Nat
      BY <3>1, BusyRequest DEF RequestsOK, Named, Busy, Steps
    <3>3. requests[q].body[requests[q].sent + 1] \in Chunk
      BY <3>1, <3>2
    <3>4. \A f \in Seq(Chunk) :
             Append(f, requests[q].body[requests[q].sent + 1]) \in Seq(Chunk)
      BY <3>3
    <3>5. files \in [Upload -> Seq(Chunk) \cup {NoContent}] /\ NoContent \notin Seq(Chunk)
      BY ContentAssumption DEF TypeOK
    <3> QED
      BY <3>1, <3>2, <3>4, <3>5
  <2>3. \E q \in Request : DropUpload(q) \/ RemoveUpload(q)
    <3> SUFFICES ASSUME \A q \in Request : ~DropUpload(q) /\ ~RemoveUpload(q)
                 PROVE  FALSE
      OBVIOUS
    <3>1. files' # files
      OBVIOUS
    <3>2. ASSUME NEW q \in Request, Arrive(q)
          PROVE  \E v \in Upload : files' = [files EXCEPT ![v] = <<>>]
      BY <3>1, <3>2
      DEF Arrive, StartBlobUpload, PatchBlobUpload, FinalizeBlobUpload, AcceptBody,
          MonolithicBlobUpload, MountBlob, CreateUpload
    <3>3. ASSUME NEW q \in Request, Handle(q)
          PROVE  WriteChunk(q)
      BY <3>1, <3>3
      DEF Handle, PatchDone, HashUpload, CheckOwner, ReadRow, RowUnreadable, StoreBlob,
          TrackBlob, EmitAndReply, RequestFails
    <3>4. \E q \in Request : Arrive(q) \/ Handle(q)
      BY <3>1 DEF Next, vars, IndexBlob, ReleaseBlob, Restart
    <3> QED
      BY <2>1, <2>2, <3>2, <3>3, <3>4
  <2>4. PICK q \in Request : DropUpload(q) \/ RemoveUpload(q)
    BY <2>3
  <2>5. requests[q].step \in {"drop", "unlink"} /\ requests[q].upload = u
    BY <2>4 DEF DropUpload, RemoveUpload, At, TypeOK
  <2>6. requests[q].digest \in Blob
    BY <2>5 DEF RequestsOK, Named, Steps
  <2> QED
    BY <2>5, <2>6 DEF Promises, Tidy, FileHashed, BlobKept
<1>2. TypeOK /\ RequestsOK /\ Promises /\ [Next]_vars => [Kept]_vars
  BY <1>1
<1> QED
  BY <1>2, PromisesKept, PTL DEF Spec, FilesOutliveNoCopy

-----------------------------------------------------------------------------
(* What arrives lands where it was named *)

\* While a body with a range arrives, the file ends with what came of it.
Appended(q) ==
    LET rq == requests[q]
        f  == files[requests[q].upload]
    IN  At(q, "write") /\ rq.range # NoRange /\ f # NoContent =>
            /\ rq.sent =< Len(rq.body)
            /\ Len(f) = rq.range + rq.sent
            /\ \A i \in 1..rq.sent : f[rq.range + i] = rq.body[i]

\* It does so for everybody.
AllAppended == \A q \in Request : Appended(q)

\* A file that ends so ends with what was sent.
LEMMA EndsWithSent ==
    ASSUME NEW f \in Seq(Chunk), NEW body \in Seq(Chunk), NEW range \in Nat, NEW sent \in Nat,
           sent =< Len(body), Len(f) = range + sent,
           \A i \in 1..sent : f[range + i] = body[i]
    PROVE  SubSeq(f, range + 1, Len(f)) = SubSeq(body, 1, sent)
<1> DEFINE s == SubSeq(f, range + 1, Len(f))
           t == SubSeq(body, 1, sent)
<1>1. /\ Len(f) \in Nat /\ \A i \in 1..Len(f) : f[i] \in Chunk
      /\ Len(body) \in Nat /\ \A i \in 1..Len(body) : body[i] \in Chunk
  BY LenProperties
<1>2. /\ s \in Seq(Chunk) /\ Len(s) = sent
      /\ \A i \in 1..sent : s[i] = f[range + 1 + i - 1]
  <2>1. \A i \in (range + 1)..Len(f) : f[i] \in Chunk
    BY <1>1
  <2>2. /\ s \in Seq(Chunk)
        /\ Len(s) = IF range + 1 <= Len(f) THEN Len(f) - (range + 1) + 1 ELSE 0
        /\ \A i \in 1 .. Len(f) - (range + 1) + 1 : s[i] = f[range + 1 + i - 1]
    BY <1>1, <2>1, SubSeqProperties
  <2> HIDE DEF s
  <2> QED
    BY <2>2
<1>3. /\ t \in Seq(Chunk) /\ Len(t) = sent
      /\ \A i \in 1..sent : t[i] = body[1 + i - 1]
  <2>1. \A i \in 1..sent : body[i] \in Chunk
    BY <1>1
  <2>2. /\ t \in Seq(Chunk)
        /\ Len(t) = IF 1 <= sent THEN sent - 1 + 1 ELSE 0
        /\ \A i \in 1 .. sent - 1 + 1 : t[i] = body[1 + i - 1]
    BY <2>1, SubSeqProperties
  <2> HIDE DEF t
  <2> QED
    BY <2>2
<1> HIDE DEF s, t
<1>4. \A i \in 1..sent : s[i] = t[i]
  <2> TAKE i \in 1..sent
  <2>1. s[i] = f[range + 1 + i - 1] /\ t[i] = body[1 + i - 1] /\ f[range + i] = body[i]
    BY <1>2, <1>3
  <2>2. range + 1 + i - 1 = range + i /\ 1 + i - 1 = i
    OBVIOUS
  <2> QED
    BY <2>1, <2>2
<1>5. s = t
  BY <1>2, <1>3, <1>4, SeqEqual
<1> QED
  BY <1>5 DEF s, t

\* A step of one handler does not disturb what the others append.
LEMMA AppendedKept ==
    ASSUME TypeOK, RequestsOK, OneRequestASession, \A p \in Request : Appended(p),
           NEW q \in Request, \A p \in Request : p # q => requests'[p] = requests[p],
           \A u \in Upload : \/ files'[u] = files[u]
                             \/ sessions[u] = "unused"
                             \/ requests[q] # Idle /\ requests[q].upload = u,
           Appended(q)'
    PROVE  \A p \in Request : Appended(p)'
<1> SUFFICES ASSUME NEW p \in Request, p # q, At(p, "write") PROVE Appended(p)'
  BY DEF Appended, At
<1>1. requests[p] # Idle /\ requests[p].upload \in Upload
  BY DEF RequestsOK, Named, Steps, Idle, At
<1>2. /\ sessions[requests[p].upload] # "unused"
      /\ ~(requests[q] # Idle /\ requests[q].upload = requests[p].upload)
  BY <1>1 DEF OneRequestASession
<1>3. files'[requests[p].upload] = files[requests[p].upload]
  BY <1>1, <1>2
<1> QED
  BY <1>3 DEF Appended, At

\* A body is accepted where the file ends, and each chunk goes there.
LEMMA AppendedStep ==
    /\ TypeOK /\ RequestsOK /\ OneRequestASession /\ AllAppended /\ [Next]_vars
    => AllAppended'
<1> SUFFICES ASSUME TypeOK, RequestsOK, OneRequestASession, \A q \in Request : Appended(q),
                    [Next]_vars
             PROVE  \A q \in Request : Appended(q)'
  BY DEF AllAppended
<1>1. ASSUME NEW q \in Request, Arrive(q) PROVE \A p \in Request : Appended(p)'
  <2>1. \A u \in Upload : files'[u] = files[u] \/ sessions[u] = "unused"
    BY <1>1 DEF Arrive, StartBlobUpload, PatchBlobUpload, FinalizeBlobUpload, AcceptBody,
                MonolithicBlobUpload, MountBlob, CreateUpload, TypeOK
  <2>2. ASSUME NEW step, NEW r, NEW u, NEW d, NEW range, NEW body, NEW size,
               Begin(q, step, r, u, d, range, body, size),
               step = "write" /\ range # NoRange =>
                  body \in Seq(Chunk) /\ range \in Nat /\ files'[u] = files[u]
                     /\ range = Len(files[u])
        PROVE  \A p \in Request : Appended(p)'
    <3> DEFINE w == [step |-> step, repo |-> r, upload |-> u, digest |-> d, range |-> range,
                     body |-> body, sent |-> 0, charge |-> FALSE, size |-> size]
    <3>1. /\ requests' = [requests EXCEPT ![q] = w] /\ w.step = step /\ w.upload = u
          /\ w.range = range /\ w.body = body /\ w.sent = 0
      BY <2>2 DEF Begin
    <3> HIDE DEF w
    <3>2. requests'[q] = w /\ \A p \in Request : p # q => requests'[p] = requests[p]
      BY <3>1, RequestAfter
    <3>3. body \in Seq(Chunk) => Len(body) \in Nat
      OBVIOUS
    <3>4. Appended(q)'
      BY <2>2, <3>1, <3>2, <3>3 DEF Appended, At
    <3> QED
      BY <2>1, <3>2, <3>4, AppendedKept
  <2>3. CASE \E u \in Upload : StartBlobUpload(q, u)
    <3>1. UNCHANGED requests /\ requests[q] = Idle
      BY <2>3 DEF StartBlobUpload
    <3>2. Appended(q)'
      BY <3>1 DEF Appended, At, Idle
    <3> QED
      BY <2>1, <3>1, <3>2, AppendedKept
  <2>4. ASSUME NEW r \in Repo, NEW u \in Upload, NEW d, NEW body \in Body,
               NEW range \in 0..MaxFile \cup {NoRange}, AcceptBody(q, r, u, d, range, body)
        PROVE  \A p \in Request : Appended(p)'
    <3>1. Begin(q, "write", r, u, d, range, body, 0) /\ files' = files
      BY <2>4 DEF AcceptBody
    <3>2. body \in Seq(Chunk) /\ (range # NoRange => range \in Nat /\ range = Len(files[u]))
      BY <2>4, ContentAssumption DEF AcceptBody, RangeAccepted
    <3> QED
      BY <2>2, <3>1, <3>2
  <2>5. ASSUME NEW r \in Repo, NEW u \in Upload, NEW d \in Blob, NEW body \in Body,
               MonolithicBlobUpload(q, r, u, d, body)
        PROVE  \A p \in Request : Appended(p)'
    BY <2>2, <2>5 DEF MonolithicBlobUpload
  <2>6. ASSUME NEW r \in Repo, NEW d \in Blob, MountBlob(q, r, d)
        PROVE  \A p \in Request : Appended(p)'
    <3>1. Begin(q, "track", r, NoUpload, d, NoRange, <<>>, Len(store[d]))
      BY <2>6 DEF MountBlob
    <3>2. PICK n : n = Len(store[d])
      OBVIOUS
    <3>3. Begin(q, "track", r, NoUpload, d, NoRange, <<>>, n)
      BY <3>1, <3>2
    <3> QED
      BY <2>2, <3>3
  <2> QED
    BY <1>1, <2>3, <2>4, <2>5, <2>6 DEF Arrive, PatchBlobUpload, FinalizeBlobUpload
<1>2. ASSUME NEW q \in Request, Handle(q) PROVE \A p \in Request : Appended(p)'
  <2>1. /\ requests[q] # Idle
        /\ \A p \in Request : p # q => requests'[p] = requests[p]
    BY <1>2, HandleAfter
  <2>2. \A u \in Upload : files'[u] = files[u] \/ (requests[q] # Idle /\ requests[q].upload = u)
    BY <1>2, <2>1 DEF Handle, WriteChunk, PatchDone, HashUpload, CheckOwner, ReadRow,
       RowUnreadable, DropUpload, StoreBlob, RemoveUpload, TrackBlob, EmitAndReply, RequestFails,
       TypeOK
  <2>3. CASE WriteChunk(q)
    <3> DEFINE w == [requests[q] EXCEPT !.sent = @ + 1]
               u == requests[q].upload
               n == requests[q].sent
               c == requests[q].body[requests[q].sent + 1]
    <3>1. requests[q] \in Busy /\ u \in Upload /\ At(q, "write")
      BY <2>1, <2>3, BusyRequest DEF WriteChunk, RequestsOK, Named, Steps, At
    <3>2. /\ requests' = [requests EXCEPT ![q] = w] /\ w.upload = u /\ w.sent = n + 1
          /\ w.range = requests[q].range /\ w.body = requests[q].body
      BY <2>3, <3>1 DEF WriteChunk, Busy
    <3> HIDE DEF w
    <3>3. requests'[q] = w
      BY <3>2, RequestAfter
    <3>4. /\ n \in Nat /\ requests[q].body \in Seq(Chunk) /\ n < Len(requests[q].body)
          /\ requests[q].range \in Nat \cup {NoRange}
      BY <2>3, <3>1 DEF WriteChunk, Busy
    <3>5. c \in Chunk /\ Len(requests[q].body) \in Nat
      BY <3>4
    <3>6. files[u] # NoContent => files[u] \in Seq(Chunk) /\ files'[u] = Append(files[u], c)
      BY <2>3, <3>1 DEF WriteChunk, TypeOK
    <3>7. files[u] = NoContent => files'[u] = NoContent
      BY <2>3 DEF WriteChunk
    <3>8. Appended(q)'
      <4> SUFFICES ASSUME requests[q].range # NoRange, files[u] # NoContent
                   PROVE  Appended(q)'
        BY <3>2, <3>3, <3>7 DEF Appended, At
      <4>1. /\ Len(files[u]) = requests[q].range + n
            /\ \A i \in 1..n : files[u][requests[q].range + i] = requests[q].body[i]
        BY <3>1 DEF Appended
      <4>2. /\ Len(files'[u]) = Len(files[u]) + 1
            /\ \A i \in 1..Len(files[u]) : files'[u][i] = files[u][i]
            /\ files'[u][Len(files[u]) + 1] = c
        BY <3>5, <3>6, AppendProperties
      <4>3. ASSUME NEW i \in 1..(n + 1)
            PROVE  files'[u][requests[q].range + i] = requests[q].body[i]
        <5>1. CASE i \in 1..n
          <6> DEFINE start == requests[q].range
          <6>0. start \in Nat /\ n \in Nat /\ Len(files[u]) = start + n
            BY <3>4, <4>1
          <6> HIDE DEF start, n
          <6>1. start + i \in 1..Len(files[u])
            BY <5>1, <6>0
          <6> USE DEF start, n
          <6>2. files'[u][requests[q].range + i] = files[u][requests[q].range + i]
            BY <4>2, <6>1
          <6>3. files[u][requests[q].range + i] = requests[q].body[i]
            BY <4>1, <5>1
          <6> QED
            BY <6>2, <6>3
        <5>2. CASE i = n + 1
          <6>1. requests[q].range + i = Len(files[u]) + 1
            BY <3>4, <4>1, <5>2
          <6> QED
            BY <4>2, <5>2, <6>1
        <5> QED
          BY <3>4, <5>1, <5>2
      <4>4. n + 1 =< Len(requests[q].body)
        BY <3>4, <3>5
      <4>5. Len(files'[u]) = requests[q].range + (n + 1)
        BY <3>4, <4>1, <4>2
      <4>6. /\ requests'[q].upload = u /\ requests'[q].sent = n + 1
            /\ requests'[q].range = requests[q].range
            /\ requests'[q].body = requests[q].body
        BY <3>2, <3>3
      <4> HIDE DEF u, n
      <4> QED
        BY <4>3, <4>4, <4>5, <4>6 DEF Appended
    <3> QED
      BY <2>1, <2>2, <3>8, AppendedKept
  <2>4. CASE ~WriteChunk(q)
    <3>1. ASSUME NEW s \in Steps \ {"write"}, Goto(q, s) PROVE requests'[q].step # "write"
      BY <2>1, <3>1, GotoAfter
    <3>2. ASSUME Reply(q) PROVE requests'[q].step # "write"
      BY <3>2, ReplyAfter DEF Idle
    <3>3. ASSUME NEW s \in Steps \ {"write"}, NEW n,
                 requests' = [requests EXCEPT ![q].step = s, ![q].size = n]
          PROVE  requests'[q].step # "write"
      <4> DEFINE w == [requests[q] EXCEPT !.step = s, !.size = n]
      <4>1. requests' = [requests EXCEPT ![q] = w]
        BY <3>3
      <4>2. w.step = s
        BY <2>1, BusyRequest DEF Busy
      <4> HIDE DEF w
      <4> QED
        BY <4>1, <4>2, RequestAfter
    <3>4. CASE HashUpload(q)
      <4>1. requests'[q] = Idle \/ requests'[q].step = "owner"
        BY <2>1, <3>4, NotedAfter
      <4> QED
        BY <2>1, <2>2, <4>1, AppendedKept DEF Appended, At, Idle
    <3>5. CASE CheckOwner(q)
      <4>1. requests'[q].step = "row"
        BY <2>1, <3>5, NotedAfter
      <4> QED
        BY <2>1, <2>2, <4>1, AppendedKept DEF Appended, At
    <3>6. CASE ReadRow(q) \/ StoreBlob(q)
      <4>1. requests'[q].step # "write"
        <5>1. CASE ReadRow(q)
          BY <3>1, <3>3, <5>1 DEF ReadRow, Steps
        <5>2. CASE StoreBlob(q)
          BY <3>2, <3>3, <5>2 DEF StoreBlob, Steps
        <5> QED
          BY <3>6, <5>1, <5>2
      <4> QED
        BY <2>1, <2>2, <4>1, AppendedKept DEF Appended, At
    <3>7. CASE \/ PatchDone(q) \/ EmitAndReply(q) \/ RequestFails(q)
               \/ RowUnreadable(q) \/ DropUpload(q) \/ RemoveUpload(q) \/ TrackBlob(q)
      <4>1. Reply(q) \/ \E s \in Steps \ {"write"} : Goto(q, s)
        BY <3>7 DEF PatchDone, EmitAndReply, RequestFails, RowUnreadable, DropUpload,
           RemoveUpload, TrackBlob, Steps
      <4>2. requests'[q].step # "write"
        BY <3>1, <3>2, <4>1
      <4> QED
        BY <2>1, <2>2, <4>2, AppendedKept DEF Appended, At
    <3> QED
      BY <1>2, <2>4, <3>4, <3>5, <3>6, <3>7 DEF Handle
  <2> QED
    BY <2>3, <2>4
<1>3. CASE Restart
  BY <1>3 DEF Restart, Appended, At, Idle
<1>4. CASE UNCHANGED <<files, requests>>
  BY <1>4 DEF Appended, At
<1> QED
  BY <1>1, <1>2, <1>3, <1>4 DEF Next, IndexBlob, ReleaseBlob, vars

\* A chunked body that named its offset is appended at that offset, for bodies and files
\* of any length: after a broken-off PATCH the bytes that did arrive are not overlooked.
THEOREM ChunksLandWhereNamed ==
    ASSUME SerialSessions
    PROVE  Spec => []AppendedWhereNamed
<1>1. Init => AllAppended
  BY DEF Init, AllAppended, Appended, At, Idle
<1>2. TypeOK /\ RequestsOK /\ AllAppended => AppendedWhereNamed
  <2> SUFFICES ASSUME TypeOK, RequestsOK, NEW q \in Request, Appended(q), At(q, "write"),
                      requests[q].range # NoRange, files[requests[q].upload] # NoContent
               PROVE  SubSeq(files[requests[q].upload], requests[q].range + 1,
                             Len(files[requests[q].upload]))
                         = SubSeq(requests[q].body, 1, requests[q].sent)
    BY DEF AppendedWhereNamed, AllAppended
  <2> DEFINE f == files[requests[q].upload]
             body == requests[q].body
             start == requests[q].range
             sent == requests[q].sent
  <2>1. requests[q] \in Busy /\ requests[q].upload \in Upload
    BY BusyRequest DEF RequestsOK, Named, Steps, At
  <2>2. f \in Seq(Chunk) /\ body \in Seq(Chunk) /\ start \in Nat /\ sent \in Nat
    BY <2>1 DEF TypeOK, Busy
  <2>3. /\ sent =< Len(body) /\ Len(f) = start + sent
        /\ \A i \in 1..sent : f[start + i] = body[i]
    BY DEF Appended
  <2> HIDE DEF f, body, start, sent
  <2>4. SubSeq(f, start + 1, Len(f)) = SubSeq(body, 1, sent)
    BY <2>2, <2>3, EndsWithSent
  <2> QED
    BY <2>4 DEF f, body, start, sent
<1> QED
  BY <1>1, <1>2, AppendedStep, PromisesKept, PTL DEF Spec

-----------------------------------------------------------------------------
(* However clients use their sessions *)

BeginsWith(s, c) == Len(c) =< Len(s) /\ \A i \in 1..Len(c) : s[i] = c[i]

\* A session that a request uses has been created.
SessionsCreated ==
    \A q \in Request : requests[q] # Idle /\ requests[q].upload \in Upload =>
        sessions[requests[q].upload] # "unused"

\* What was hashed may have grown since, or be gone.
FileBegins(q) ==
    requests[q].step \in {"owner", "row", "store"} =>
        \/ files[requests[q].upload] = NoContent
        \/ BeginsWith(files[requests[q].upload], Content[requests[q].digest])

\* What a handler records is in R2.
BlobThere(q) ==
    requests[q].step \in {"drop", "unlink", "track", "emit"} =>
        store[requests[q].digest] # NoContent

Sure(q) == FileBegins(q) /\ BlobThere(q)

\* What R2 has under a digest begins with the content that has it.
StoredBeginsRight ==
    \A b \in Blob : store[b] # NoContent => BeginsWith(store[b], Content[b])

\* R2 has all that the tables, the answers and the bills say it has.
RecordedIsStored ==
    /\ \A b \in Blob : rows[b] # NoSize => store[b] # NoContent
    /\ \A r \in Repo : \A b \in repoObjects[r] : rows[b] # NoSize
    /\ \A e \in answered : store[e[2]] # NoContent
    /\ \A e \in billed : store[e[2]] # NoContent

AllSure == SessionsCreated /\ \A q \in Request : Sure(q)

Remains == StoredBeginsRight /\ RecordedIsStored /\ AllSure

\* A chunk more changes nothing of how a file begins.
LEMMA StillBeginsWith ==
    ASSUME NEW s \in Seq(Chunk), NEW c \in Seq(Chunk), NEW x \in Chunk, BeginsWith(s, c)
    PROVE  BeginsWith(Append(s, x), c)
<1>1. /\ Len(s) \in Nat /\ Len(c) \in Nat
      /\ Len(Append(s, x)) = Len(s) + 1
      /\ \A i \in 1..Len(s) : Append(s, x)[i] = s[i]
  BY AppendProperties, LenProperties
<1> QED
  BY <1>1 DEF BeginsWith

\* What one step may do to a file that is in use.
FileGoesOn(u) ==
    \/ files'[u] = files[u]
    \/ files'[u] = NoContent
    \/ files[u] # NoContent /\ \E x \in Chunk : files'[u] = Append(files[u], x)

\* How a file begins stays so until it is gone.
LEMMA FileStillBegins ==
    ASSUME TypeOK, NEW u \in Upload, NEW b \in Blob, FileGoesOn(u),
           files[u] = NoContent \/ BeginsWith(files[u], Content[b])
    PROVE  files'[u] = NoContent \/ BeginsWith(files'[u], Content[b])
<1>1. files[u] # NoContent => files[u] \in Seq(Chunk)
  BY DEF TypeOK
<1> QED
  BY <1>1, ContentIsContent, StillBeginsWith DEF FileGoesOn

\* What a step of one handler does to files and R2 leaves the others what they rely on.
LEMMA SureKept ==
    ASSUME TypeOK, RequestsOK, AllSure, NEW q \in Request,
           \A p \in Request : p # q => requests'[p] = requests[p],
           \A b \in Blob : store[b] # NoContent => store'[b] # NoContent,
           \A u \in Upload : sessions[u] = "unused" \/ FileGoesOn(u),
           Sure(q)'
    PROVE  \A p \in Request : Sure(p)'
<1> SUFFICES ASSUME NEW p \in Request, p # q
             PROVE  Sure(p)'
  OBVIOUS
<1>1. requests'[p] = requests[p] /\ Sure(p) /\ Named(p)
  BY DEF AllSure, RequestsOK
<1>2. FileBegins(p)'
  <2> SUFFICES ASSUME requests[p].step \in {"owner", "row", "store"}
               PROVE  \/ files'[requests[p].upload] = NoContent
                      \/ BeginsWith(files'[requests[p].upload], Content[requests[p].digest])
    BY <1>1 DEF FileBegins
  <2>1. /\ requests[p] # Idle /\ requests[p].upload \in Upload
        /\ requests[p].digest \in Blob
    BY <1>1 DEF Idle, Named, Steps
  <2>2. FileGoesOn(requests[p].upload)
    BY <2>1 DEF AllSure, SessionsCreated
  <2>3. \/ files[requests[p].upload] = NoContent
        \/ BeginsWith(files[requests[p].upload], Content[requests[p].digest])
    BY <1>1 DEF Sure, FileBegins
  <2> QED
    BY <2>1, <2>2, <2>3, FileStillBegins
<1>3. BlobThere(p)'
  BY <1>1 DEF Sure, BlobThere, Named, Steps
<1> QED
  BY <1>2, <1>3 DEF Sure

\* A session in use stays created.
LEMMA CreatedKept ==
    ASSUME SessionsCreated, NEW q \in Request,
           \A p \in Request : p # q => requests'[p] = requests[p],
           \A u \in Upload : sessions[u] # "unused" => sessions'[u] # "unused",
           requests'[q] # Idle /\ requests'[q].upload \in Upload =>
              \/ requests[q] # Idle /\ requests'[q].upload = requests[q].upload
              \/ sessions'[requests'[q].upload] # "unused"
    PROVE  SessionsCreated'
  BY DEF SessionsCreated

\* Chunks are appended to files; nothing else is written to them.
LEMMA FilesGoOn ==
    ASSUME TypeOK, RequestsOK, [Next]_vars
    PROVE  \A u \in Upload : sessions[u] = "unused" \/ FileGoesOn(u)
<1> SUFFICES ASSUME NEW u \in Upload, sessions[u] # "unused"
             PROVE  FileGoesOn(u)
  OBVIOUS
<1>1. ASSUME NEW q \in Request, WriteChunk(q)
      PROVE  FileGoesOn(u)
  <2> DEFINE v == requests[q].upload
             x == requests[q].body[requests[q].sent + 1]
  <2>1. requests[q] \in Busy /\ v \in Upload
    BY <1>1, BusyRequest DEF WriteChunk, At, RequestsOK, Named, Steps, Idle
  <2>2. x \in Chunk
    <3>1. /\ requests[q].body \in Seq(Chunk) /\ requests[q].sent \in Nat
          /\ requests[q].sent < Len(requests[q].body)
      BY <1>1, <2>1 DEF Busy, WriteChunk
    <3>2. \A i \in 1..Len(requests[q].body) : requests[q].body[i] \in Chunk
      BY <3>1, LenProperties
    <3>3. requests[q].sent + 1 \in 1..Len(requests[q].body)
      BY <3>1, LenProperties
    <3> QED
      BY <3>2, <3>3
  <2>3. files' = IF files[v] = NoContent THEN files
                 ELSE [files EXCEPT ![v] = Append(files[v], x)]
    BY <1>1 DEF WriteChunk
  <2> HIDE DEF v, x
  <2> QED
    BY <2>1, <2>2, <2>3 DEF FileGoesOn, TypeOK
<1>2. ASSUME NEW q \in Request, DropUpload(q) \/ RemoveUpload(q)
      PROVE  FileGoesOn(u)
  BY <1>2 DEF DropUpload, RemoveUpload, FileGoesOn, TypeOK
<1>3. ASSUME NEW v \in Upload, NEW session, CreateUpload(v, session)
      PROVE  FileGoesOn(u)
  BY <1>3 DEF CreateUpload, FileGoesOn, TypeOK
<1>4. CASE UNCHANGED files
  BY <1>4 DEF FileGoesOn
<1>5. ASSUME NEW q \in Request, Arrive(q)
      PROVE  FileGoesOn(u)
  BY <1>3, <1>4, <1>5 DEF Arrive, StartBlobUpload, PatchBlobUpload, FinalizeBlobUpload,
     AcceptBody, MonolithicBlobUpload, MountBlob
<1>6. ASSUME NEW q \in Request, Handle(q)
      PROVE  FileGoesOn(u)
  BY <1>1, <1>2, <1>4, <1>6 DEF Handle, PatchDone, HashUpload, CheckOwner, ReadRow,
     RowUnreadable, StoreBlob, TrackBlob, EmitAndReply, RequestFails
<1> QED
  BY <1>4, <1>5, <1>6 DEF Next, IndexBlob, ReleaseBlob, Restart, vars

\* Which sessions requests use, and that these have been created.
LEMMA CreatedStep ==
    ASSUME TypeOK, RequestsOK, SessionsCreated, [Next]_vars
    PROVE  SessionsCreated'
<1>1. ASSUME NEW q \in Request, Arrive(q)
      PROVE  SessionsCreated'
  <2>1. CASE \E u \in Upload : StartBlobUpload(q, u)
    BY <2>1 DEF StartBlobUpload, CreateUpload, SessionsCreated, TypeOK
  <2>2. ASSUME NEW r \in Repo, NEW u \in Upload, NEW body, NEW range, NEW d,
               AcceptBody(q, r, u, d, range, body)
        PROVE  SessionsCreated'
    <3> DEFINE w == [step |-> "write", repo |-> r, upload |-> u, digest |-> d,
                     range |-> range, body |-> body, sent |-> 0, charge |-> FALSE, size |-> 0]
    <3>1. /\ requests' = [requests EXCEPT ![q] = w] /\ w.upload = u
          /\ sessions' = sessions /\ sessions[u] = "offered"
      BY <2>2 DEF AcceptBody, Begin, Addressable
    <3> HIDE DEF w
    <3>2. requests'[q] = w /\ \A p \in Request : p # q => requests'[p] = requests[p]
      BY <3>1, RequestAfter
    <3> QED
      BY <3>1, <3>2, CreatedKept
  <2>3. ASSUME NEW r \in Repo, NEW u \in Upload, NEW body, NEW d,
               MonolithicBlobUpload(q, r, u, d, body)
        PROVE  SessionsCreated'
    <3> DEFINE w == [step |-> "write", repo |-> r, upload |-> u, digest |-> d,
                     range |-> NoRange, body |-> body, sent |-> 0, charge |-> FALSE, size |-> 0]
    <3>1. /\ requests' = [requests EXCEPT ![q] = w] /\ w.upload = u
          /\ sessions'[u] = "private"
          /\ \A v \in Upload : v # u => sessions'[v] = sessions[v]
      BY <2>3 DEF MonolithicBlobUpload, CreateUpload, Begin, TypeOK
    <3> HIDE DEF w
    <3>2. requests'[q] = w /\ \A p \in Request : p # q => requests'[p] = requests[p]
      BY <3>1, RequestAfter
    <3> QED
      BY <3>1, <3>2, CreatedKept
  <2>4. ASSUME NEW r \in Repo, NEW d \in Blob, MountBlob(q, r, d)
        PROVE  SessionsCreated'
    <3> DEFINE w == [step |-> "track", repo |-> r, upload |-> NoUpload, digest |-> d,
                     range |-> NoRange, body |-> <<>>, sent |-> 0, charge |-> FALSE,
                     size |-> Len(store[d])]
    <3>1. /\ requests' = [requests EXCEPT ![q] = w] /\ w.upload = NoUpload
          /\ sessions' = sessions /\ NoUpload \notin Upload
      BY <2>4, ContentAssumption DEF MountBlob, Begin
    <3> HIDE DEF w
    <3>2. requests'[q] = w /\ \A p \in Request : p # q => requests'[p] = requests[p]
      BY <3>1, RequestAfter
    <3> QED
      BY <3>1, <3>2, CreatedKept
  <2> QED
    BY <1>1, <2>1, <2>2, <2>3, <2>4 DEF Arrive, PatchBlobUpload, FinalizeBlobUpload
<1>2. ASSUME NEW q \in Request, Handle(q)
      PROVE  SessionsCreated'
  <2>1. sessions' = sessions
    BY <1>2 DEF Handle, WriteChunk, PatchDone, HashUpload, CheckOwner, ReadRow, RowUnreadable,
                DropUpload, StoreBlob, RemoveUpload, TrackBlob, EmitAndReply, RequestFails
  <2> QED
    BY <1>2, <2>1, HandleAfter, CreatedKept
<1>3. CASE Restart
  BY <1>3 DEF Restart, SessionsCreated
<1>4. CASE UNCHANGED <<sessions, requests>>
  BY <1>4 DEF SessionsCreated
<1> QED
  BY <1>1, <1>2, <1>3, <1>4 DEF Next, IndexBlob, ReleaseBlob, vars

\* The blobs that R2 has and those with a row.
InStore == {b \in Blob : store[b] # NoContent}
WithRow == {b \in Blob : rows[b] # NoSize}

\* Every step adds what it may add to R2 and the rows, and no more.
LEMMA StoreStep ==
    ASSUME TypeOK, RequestsOK, Remains, [Next]_vars
    PROVE  [Store!StoreNext]_Store!storeVars
<1> USE DEF At
<1>1. CASE UNCHANGED <<store, rows, repoObjects>>
  BY <1>1 DEF Store!storeVars
<1>2. ASSUME NEW q \in Request, StoreBlob(q)
      PROVE  [Store!StoreNext]_Store!storeVars
  <2> DEFINE d == requests[q].digest
             u == requests[q].upload
  <2>1. d \in Blob /\ u \in Upload
    BY <1>2 DEF StoreBlob, RequestsOK, Named, Steps
  <2>2. UNCHANGED <<rows, repoObjects>>
    BY <1>2 DEF StoreBlob
  <2>3. CASE files[u] = NoContent
    BY <1>1, <1>2, <2>2, <2>3 DEF StoreBlob
  <2>4. CASE files[u] # NoContent
    <3>1. store' = [store EXCEPT ![d] = files[u]]
      BY <1>2, <2>4 DEF StoreBlob
    <3>2. InStore' = InStore \cup {d} /\ WithRow' = WithRow
      BY <2>1, <2>2, <2>4, <3>1 DEF InStore, WithRow, TypeOK
    <3>3. PICK b \in Blob : b = d
      BY <2>1
    <3>4. Store!Add(b)
      BY <2>2, <3>2, <3>3 DEF Store!Add, InStore, WithRow
    <3> QED
      BY <3>4 DEF Store!StoreNext
  <2> QED
    BY <2>3, <2>4
<1>3. ASSUME NEW q \in Request, TrackBlob(q)
      PROVE  [Store!StoreNext]_Store!storeVars
  <2> DEFINE d == requests[q].digest
  <2>1. requests[q] \in Busy /\ d \in Blob /\ store[d] # NoContent
    <3>1. requests[q].step = "track" /\ Sure(q)
      BY <1>3 DEF TrackBlob, Remains, AllSure
    <3> QED
      BY <3>1, BusyRequest DEF RequestsOK, Named, Steps, Sure, BlobThere
  <2>2. /\ rows' \in {rows, [rows EXCEPT ![d] = requests[q].size]}
        /\ UNCHANGED <<store, repoObjects>>
    BY <1>3 DEF TrackBlob
  <2>3. requests[q].size # NoSize
    BY <2>1, ContentAssumption DEF Busy
  <2>4. InStore' = InStore \cup {d} /\ WithRow' \in {WithRow, WithRow \cup {d}}
    BY <2>1, <2>2, <2>3 DEF InStore, WithRow, TypeOK
  <2>5. PICK b \in Blob : b = d
    BY <2>1
  <2>6. Store!Add(b)
    BY <2>2, <2>4, <2>5 DEF Store!Add, InStore, WithRow
  <2> QED
    BY <2>6 DEF Store!StoreNext
<1>4. ASSUME NEW r \in Repo, NEW b \in Blob, IndexBlob(r, b)
      PROVE  [Store!StoreNext]_Store!storeVars
  <2>1. Len(store[b]) \in Nat
    <3>1. store[b] \in Seq(Chunk)
      BY <1>4 DEF IndexBlob, TypeOK
    <3> QED
      BY <3>1, LenProperties
  <2>2. Len(store[b]) # NoSize
    BY <2>1, ContentAssumption
  <2>3. {b} \subseteq InStore /\ InStore' = InStore /\ WithRow' = WithRow \cup {b}
    BY <1>4, <2>2 DEF IndexBlob, InStore, WithRow, TypeOK
  <2>4. Store!List(r, {b})
    BY <1>4, <2>3 DEF IndexBlob, Store!List, InStore, WithRow
  <2> QED
    BY <2>4 DEF Store!StoreNext
<1>5. ASSUME NEW r \in Repo, NEW b \in Blob, ReleaseBlob(r, b)
      PROVE  [Store!StoreNext]_Store!storeVars
  <2>1. repoObjects' = [repoObjects EXCEPT ![r] = @ \ {b}] /\ UNCHANGED <<store, rows>>
    BY <1>5 DEF ReleaseBlob
  <2>2. /\ repoObjects' \in [Repo -> SUBSET Blob]
        /\ \A s \in Repo : repoObjects'[s] \subseteq repoObjects[s]
    BY <2>1 DEF TypeOK
  <2> QED
    BY <2>1, <2>2 DEF Store!StoreNext, Store!Release
<1>6. ASSUME NEW q \in Request, Handle(q)
      PROVE  [Store!StoreNext]_Store!storeVars
  BY <1>1, <1>2, <1>3, <1>6 DEF Handle, WriteChunk, PatchDone, HashUpload, CheckOwner,
     ReadRow, RowUnreadable, DropUpload, RemoveUpload, EmitAndReply, RequestFails
<1>7. ASSUME NEW q \in Request, Arrive(q)
      PROVE  [Store!StoreNext]_Store!storeVars
  BY <1>1, <1>7 DEF Arrive, StartBlobUpload, PatchBlobUpload, FinalizeBlobUpload, AcceptBody,
     MonolithicBlobUpload, MountBlob
<1> QED
  BY <1>1, <1>4, <1>5, <1>6, <1>7 DEF Next, Restart, vars

\* Requests that arrive have nothing yet to be sure of, except a mount of its blob.
LEMMA SureArrival ==
    ASSUME TypeOK, RequestsOK, NEW q \in Request, Arrive(q)
    PROVE  /\ \A p \in Request : p # q => requests'[p] = requests[p]
           /\ Sure(q)'
<1>1. CASE UNCHANGED requests /\ requests[q] = Idle
  BY <1>1 DEF Sure, FileBegins, BlobThere, Idle
<1>2. ASSUME NEW r, NEW u, NEW d, NEW range, NEW body,
             Begin(q, "write", r, u, d, range, body, 0)
      PROVE  /\ \A p \in Request : p # q => requests'[p] = requests[p]
             /\ Sure(q)'
  <2> DEFINE w == [step |-> "write", repo |-> r, upload |-> u, digest |-> d,
                   range |-> range, body |-> body, sent |-> 0, charge |-> FALSE, size |-> 0]
  <2>1. requests' = [requests EXCEPT ![q] = w] /\ w.step = "write"
    BY <1>2 DEF Begin
  <2> HIDE DEF w
  <2> QED
    BY <2>1, RequestAfter DEF Sure, FileBegins, BlobThere
<1>3. ASSUME NEW r \in Repo, NEW d \in Blob, MountBlob(q, r, d)
      PROVE  /\ \A p \in Request : p # q => requests'[p] = requests[p]
             /\ Sure(q)'
  <2> DEFINE w == [step |-> "track", repo |-> r, upload |-> NoUpload, digest |-> d,
                   range |-> NoRange, body |-> <<>>, sent |-> 0, charge |-> FALSE,
                   size |-> Len(store[d])]
  <2>1. /\ requests' = [requests EXCEPT ![q] = w] /\ w.step = "track" /\ w.digest = d
        /\ store[d] # NoContent /\ store' = store
    BY <1>3 DEF MountBlob, Begin
  <2> HIDE DEF w
  <2> QED
    BY <2>1, RequestAfter DEF Sure, FileBegins, BlobThere
<1> QED
  BY <1>1, <1>2, <1>3
  DEF Arrive, StartBlobUpload, PatchBlobUpload, FinalizeBlobUpload, AcceptBody,
      MonolithicBlobUpload

\* A handler stays sure of what it relies on, or finds out.
LEMMA SureStep ==
    ASSUME TypeOK, RequestsOK, Remains, NEW q \in Request, Handle(q)
    PROVE  Sure(q)'
<1> USE DEF At
<1> DEFINE d == requests[q].digest
           u == requests[q].upload
<1>0. /\ requests[q] # Idle /\ requests[q] \in Busy
      /\ requests'[q] # Idle => /\ requests'[q].upload = u
                                /\ requests'[q].digest = d
  BY HandleAfter, BusyRequest
<1>1. Sure(q) /\ Named(q)
  BY DEF Remains, AllSure, RequestsOK
<1>2. /\ requests[q].step \in Steps \ {"write"} => d \in Blob
      /\ requests[q].step \in Steps \ {"track", "emit"} => u \in Upload
  BY <1>1 DEF Named
<1>3. requests'[q] = Idle => Sure(q)'
  BY DEF Sure, FileBegins, BlobThere, Idle
<1>4. Reply(q) => Sure(q)'
  BY <1>3, ReplyAfter
<1> HIDE DEF d, u
<1>5. CASE WriteChunk(q)
  <2>1. requests'[q].step = "write"
    BY <1>0, <1>5, NotedAfter
  <2> QED
    BY <2>1 DEF Sure, FileBegins, BlobThere
<1>6. CASE HashUpload(q)
  <2>1. CASE requests'[q] = Idle
    BY <1>3, <2>1
  <2>2. CASE requests'[q] # Idle
    <3>1. requests'[q].step = "owner" /\ files[u] = Content[d] /\ files' = files
      BY <1>0, <1>6, <2>2, NotedAfter DEF DigestMatches, HashUpload, u, d
    <3>2. BeginsWith(Content[d], Content[d])
      <4>1. d \in Blob
        BY <1>0, <1>6 DEF HashUpload, Busy, d
      <4>2. Len(Content[d]) \in Nat
        BY <4>1, ContentIsContent, LenProperties
      <4> QED
        BY <4>2 DEF BeginsWith
    <3> QED
      BY <1>0, <2>2, <3>1, <3>2, SMTT(30) DEF Sure, FileBegins, BlobThere
  <2> QED
    BY <2>1, <2>2
<1>7. CASE CheckOwner(q)
  <2>1. /\ requests[q].step = "owner" /\ requests'[q].step = "row" /\ files' = files
    BY <1>0, <1>7, NotedAfter DEF CheckOwner
  <2>2. requests'[q] # Idle
    BY <2>1 DEF Idle
  <2> QED
    BY <1>0, <1>1, <2>1, <2>2 DEF Sure, FileBegins, BlobThere, u, d
<1>8. CASE ReadRow(q)
  <2>1. requests[q].step = "row" /\ UNCHANGED <<files, store>> /\ d \in Blob
    BY <1>2, <1>8 DEF ReadRow, Steps
  <2>2. CASE rows[d] = NoSize
    <3>1. requests'[q].step = "store" /\ requests'[q] # Idle
      BY <1>0, <1>8, <2>2, GotoAfter DEF ReadRow, Steps, Idle, d
    <3> QED
      BY <1>0, <1>1, <2>1, <3>1 DEF Sure, FileBegins, BlobThere, u, d
  <2>3. CASE rows[d] # NoSize
    <3>1. rows[d] \in Nat /\ store[d] # NoContent
      BY <2>1, <2>3 DEF TypeOK, Remains, RecordedIsStored
    <3>2. requests' = [requests EXCEPT ![q].step = "drop", ![q].size = rows[d]]
      BY <1>8, <2>3 DEF ReadRow, d
    <3>3. requests'[q].step = "drop" /\ requests'[q] # Idle
      <4>1. PICK n \in Nat : n = rows[d]
        BY <3>1
      <4>2. requests' = [requests EXCEPT ![q].step = "drop", ![q].size = n]
        BY <3>2, <4>1, SMTT(30)
      <4>3. requests'[q].step = "drop"
        BY <1>0, <4>2, SizeAfter DEF Steps
      <4> QED
        BY <4>3 DEF Idle
    <3> QED
      BY <1>0, <2>1, <3>1, <3>3 DEF Sure, FileBegins, BlobThere
  <2> QED
    BY <2>2, <2>3
<1>9. CASE RowUnreadable(q)
  <2>1. /\ requests[q].step = "row" /\ UNCHANGED <<files, store>>
        /\ requests'[q].step = "store" /\ requests'[q] # Idle
    BY <1>0, <1>9, GotoAfter DEF RowUnreadable, Steps, Idle
  <2> QED
    BY <1>0, <1>1, <2>1 DEF Sure, FileBegins, BlobThere, u, d
<1>10. CASE DropUpload(q) \/ RemoveUpload(q) \/ TrackBlob(q)
  <2>1. /\ requests[q].step \in {"drop", "unlink", "track"} /\ store' = store
    BY <1>10 DEF DropUpload, RemoveUpload, TrackBlob
  <2>2. CASE Reply(q)
    BY <1>4, <2>2
  <2>3. CASE \E s \in {"track", "emit"} : Goto(q, s)
    <3>1. requests'[q].step \in {"track", "emit"} /\ requests'[q] # Idle
      BY <1>0, <2>3, GotoAfter DEF Steps, Idle
    <3> QED
      BY <1>0, <1>1, <2>1, <3>1 DEF Sure, FileBegins, BlobThere, d
  <2> QED
    BY <1>10, <2>2, <2>3 DEF DropUpload, RemoveUpload, TrackBlob
<1>11. CASE StoreBlob(q)
  <2>1. u \in Upload /\ d \in Blob
    BY <1>2, <1>11 DEF StoreBlob, Steps
  <2>2. CASE files[u] = NoContent
    BY <1>4, <1>11, <2>2 DEF StoreBlob, u
  <2>3. CASE files[u] # NoContent
    <3>1. files[u] \in Seq(Chunk)
      BY <2>1, <2>3 DEF TypeOK
    <3>2. Len(files[u]) \in Nat
      BY <3>1, LenProperties
    <3>3. /\ requests' = [requests EXCEPT ![q].step = "unlink", ![q].size = Len(files[u])]
          /\ store' = [store EXCEPT ![d] = files[u]]
      BY <1>11, <2>3 DEF StoreBlob, u, d
    <3>4. requests'[q].step = "unlink" /\ requests'[q] # Idle
      <4>1. PICK n \in Nat : n = Len(files[u])
        BY <3>2
      <4>2. requests' = [requests EXCEPT ![q].step = "unlink", ![q].size = n]
        BY <3>3, <4>1, SMTT(30)
      <4>3. requests'[q].step = "unlink"
        BY <1>0, <4>2, SizeAfter DEF Steps
      <4> QED
        BY <4>3 DEF Idle
    <3>5. store'[d] # NoContent
      BY <2>1, <2>3, <3>3 DEF TypeOK
    <3> QED
      BY <1>0, <3>4, <3>5 DEF Sure, FileBegins, BlobThere
  <2> QED
    BY <2>2, <2>3
<1>12. CASE PatchDone(q) \/ EmitAndReply(q) \/ RequestFails(q)
  BY <1>4, <1>12 DEF PatchDone, EmitAndReply, RequestFails
<1> QED
  BY <1>5, <1>6, <1>7, <1>8, <1>9, <1>10, <1>11, <1>12 DEF Handle

\* What is put to R2 begins with the content that has its digest.
LEMMA BeginsStep ==
    ASSUME TypeOK, RequestsOK, Remains, [Next]_vars
    PROVE  /\ StoredBeginsRight'
           /\ \A b \in Blob : store[b] # NoContent => store'[b] # NoContent
<1>1. ASSUME NEW q \in Request, StoreBlob(q)
      PROVE  /\ StoredBeginsRight'
             /\ \A b \in Blob : store[b] # NoContent => store'[b] # NoContent
  <2> DEFINE d == requests[q].digest
             u == requests[q].upload
  <2>1. requests[q].step = "store" /\ d \in Blob /\ u \in Upload
    BY <1>1 DEF StoreBlob, At, RequestsOK, Named, Steps
  <2>2. files[u] = NoContent \/ BeginsWith(files[u], Content[d])
    BY <2>1 DEF Remains, AllSure, Sure, FileBegins
  <2>3. store' = IF files[u] = NoContent THEN store ELSE [store EXCEPT ![d] = files[u]]
    BY <1>1 DEF StoreBlob
  <2> HIDE DEF d, u
  <2> QED
    BY <2>1, <2>2, <2>3 DEF TypeOK, Remains, StoredBeginsRight
<1>2. CASE UNCHANGED store
  BY <1>2 DEF Remains, StoredBeginsRight
<1>3. ASSUME NEW q \in Request, Handle(q)
      PROVE  UNCHANGED store \/ StoreBlob(q)
  BY <1>3 DEF Handle, WriteChunk, PatchDone, HashUpload, CheckOwner, ReadRow, RowUnreadable,
     DropUpload, RemoveUpload, TrackBlob, EmitAndReply, RequestFails
<1>4. ASSUME NEW q \in Request, Arrive(q)
      PROVE  UNCHANGED store
  BY <1>4 DEF Arrive, StartBlobUpload, PatchBlobUpload, FinalizeBlobUpload, AcceptBody,
     MonolithicBlobUpload, MountBlob
<1> QED
  BY <1>1, <1>2, <1>3, <1>4 DEF Next, IndexBlob, ReleaseBlob, Restart, vars

\* Nothing is recorded, answered or charged before R2 has it.
LEMMA RecordedStep ==
    ASSUME TypeOK, RequestsOK, Remains, [Next]_vars,
           \A b \in Blob : store[b] # NoContent => store'[b] # NoContent
    PROVE  RecordedIsStored'
<1>0. /\ RecordedIsStored
      /\ \A e \in answered : e[2] \in Blob
      /\ \A e \in billed : e[2] \in Blob
      /\ \A r \in Repo : repoObjects[r] \subseteq Blob
  BY DEF Remains, TypeOK
<1>1. CASE UNCHANGED <<rows, repoObjects, answered, billed>>
  BY <1>0, <1>1 DEF RecordedIsStored
<1>2. ASSUME NEW q \in Request, TrackBlob(q) \/ EmitAndReply(q)
      PROVE  RecordedIsStored'
  <2> DEFINE d == requests[q].digest
             t == TenantOf[requests[q].repo]
             n == requests[q].size
  <2>1. /\ requests[q] \in Busy /\ requests[q].step \in {"track", "emit"}
        /\ Sure(q) /\ Named(q)
    BY <1>2, BusyRequest DEF TrackBlob, EmitAndReply, At, Remains, AllSure, RequestsOK, Idle
  <2>2. d \in Blob /\ store[d] # NoContent /\ n # NoSize
    BY <2>1, ContentAssumption DEF Named, Sure, BlobThere, Steps, Busy
  <2>3. CASE TrackBlob(q)
    <3>1. /\ rows' \in {rows, [rows EXCEPT ![d] = n]}
          /\ UNCHANGED <<store, repoObjects, answered, billed>>
      BY <2>3 DEF TrackBlob
    <3> HIDE DEF d, n
    <3>2. \A b \in Blob : rows'[b] = rows[b] \/ (b = d /\ rows'[b] # NoSize)
      BY <2>2, <3>1 DEF TypeOK
    <3> QED
      BY <1>0, <2>2, <3>1, <3>2 DEF RecordedIsStored
  <2>4. CASE EmitAndReply(q)
    <3>1. /\ \A e \in billed' : e \in billed \/ e = <<t, d>>
          /\ \A e \in answered' : e \in answered \/ e = <<requests[q].repo, d>>
          /\ UNCHANGED <<store, rows, repoObjects>>
      BY <2>4 DEF EmitAndReply
    <3> HIDE DEF d, t
    <3> QED
      BY <1>0, <2>2, <3>1 DEF RecordedIsStored
  <2> QED
    BY <1>2, <2>3, <2>4
<1>3. ASSUME NEW r \in Repo, NEW b \in Blob, IndexBlob(r, b)
      PROVE  RecordedIsStored'
  <2>1. Len(store[b]) # NoSize
    <3>1. store[b] \in Seq(Chunk)
      BY <1>3 DEF IndexBlob, TypeOK
    <3> QED
      BY <3>1, LenProperties, ContentAssumption
  <2>2. /\ store[b] # NoContent
        /\ rows' = [rows EXCEPT ![b] = Len(store[b])]
        /\ repoObjects' = [repoObjects EXCEPT ![r] = @ \cup {b}]
        /\ UNCHANGED <<store, answered, billed>>
    BY <1>3 DEF IndexBlob
  <2>3. /\ \A c \in Blob : rows'[c] = rows[c] \/ (c = b /\ rows'[c] # NoSize)
        /\ rows'[b] # NoSize
        /\ \A s \in Repo : \A c \in repoObjects'[s] : c \in repoObjects[s] \/ c = b
    BY <2>1, <2>2 DEF TypeOK
  <2> QED
    BY <1>0, <2>2, <2>3 DEF RecordedIsStored
<1>4. ASSUME NEW r \in Repo, NEW b \in Blob, ReleaseBlob(r, b)
      PROVE  RecordedIsStored'
  <2>1. /\ \A s \in Repo : repoObjects'[s] \subseteq repoObjects[s]
        /\ UNCHANGED <<store, rows, answered, billed>>
    BY <1>4, SMTT(30) DEF ReleaseBlob, TypeOK
  <2> QED
    BY <1>0, <2>1 DEF RecordedIsStored
<1>5. ASSUME NEW q \in Request, Handle(q)
      PROVE  RecordedIsStored'
  BY <1>1, <1>2, <1>5 DEF Handle, WriteChunk, PatchDone, HashUpload, CheckOwner, ReadRow,
     RowUnreadable, DropUpload, StoreBlob, RemoveUpload, RequestFails
<1>6. ASSUME NEW q \in Request, Arrive(q)
      PROVE  RecordedIsStored'
  BY <1>1, <1>6 DEF Arrive, StartBlobUpload, PatchBlobUpload, FinalizeBlobUpload, AcceptBody,
     MonolithicBlobUpload, MountBlob
<1> QED
  BY <1>1, <1>3, <1>4, <1>5, <1>6 DEF Next, Restart, vars

\* All that holds without SerialSessions is inductive.
LEMMA RemainsStep == TypeOK /\ RequestsOK /\ Remains /\ [Next]_vars => Remains'
<1> SUFFICES ASSUME TypeOK, RequestsOK, Remains, [Next]_vars
             PROVE  Remains'
  OBVIOUS
<1>1. /\ StoredBeginsRight' /\ RecordedIsStored' /\ SessionsCreated'
      /\ \A b \in Blob : store[b] # NoContent => store'[b] # NoContent
      /\ \A u \in Upload : sessions[u] = "unused" \/ FileGoesOn(u)
  BY BeginsStep, RecordedStep, CreatedStep, FilesGoOn DEF Remains, AllSure
<1>2. \A q \in Request : Sure(q)'
  <2>1. ASSUME NEW q \in Request, Arrive(q)
        PROVE  \A p \in Request : Sure(p)'
    BY <1>1, <2>1, SureArrival, SureKept DEF Remains
  <2>2. ASSUME NEW q \in Request, Handle(q)
        PROVE  \A p \in Request : Sure(p)'
    BY <1>1, <2>2, SureStep, HandleAfter, SureKept DEF Remains
  <2>3. CASE Restart
    BY <2>3 DEF Restart, Sure, FileBegins, BlobThere, Idle
  <2>4. CASE UNCHANGED <<files, store, requests>>
    BY <2>4 DEF Remains, AllSure, Sure, FileBegins, BlobThere
  <2> QED
    BY <2>1, <2>2, <2>3, <2>4 DEF Next, IndexBlob, ReleaseBlob, vars
<1> QED
  BY <1>1, <1>2 DEF Remains, AllSure

\* So it holds from the beginning, whatever clients do.
LEMMA RemainsKept == Spec => [](TypeOK /\ RequestsOK /\ Remains)
<1>1. Init => Remains
  BY DEF Init, Remains, StoredBeginsRight, RecordedIsStored, AllSure, SessionsCreated, Sure,
         FileBegins, BlobThere, Idle
<1> QED
  BY <1>1, TypeCorrect, RemainsStep, PTL DEF Spec

\* A client that breaks the rule of one request at a time can make R2 keep too much under
\* a digest, but nothing else: what is there begins with the content that has the digest.
THEOREM StoreBeginsRight == Spec => []StoredBeginsRight
<1>1. Remains => StoredBeginsRight
  BY DEF Remains
<1> QED
  BY <1>1, RemainsKept, PTL

\* Whatever clients do, R2 has what rows, repositories, 201 answers and bills speak of.
THEOREM RecordsAreSound == Spec => []RecordedIsStored
<1>1. Remains => RecordedIsStored
  BY DEF Remains
<1> QED
  BY <1>1, RemainsKept, PTL

\* Whatever clients do, uploads are an implementation of BlobStore, which is what the
\* manifest handlers and the pulls may rely on.
THEOREM UploadsRefine == Spec => UploadRefinement
<1>1. Init => Store!StoreInit
  BY DEF Init, Store!StoreInit
<1>2. TypeOK /\ RequestsOK /\ Remains /\ [Next]_vars => [Store!StoreNext]_Store!storeVars
  BY StoreStep
<1> QED
  BY <1>1, <1>2, RemainsKept, PTL DEF Spec, UploadRefinement, Store!StoreSpec

=============================================================================
