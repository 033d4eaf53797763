--------------------------- MODULE RegistryServer ---------------------------
(***************************************************************************)
(* The manifest handlers over the tables of ManifestStore, and what they   *)
(* and the uploads write to the ledger.  ManifestStore takes a method of   *)
(* internal/db as one step; here its statements are steps, interleaved as  *)
(* READ COMMITTED interleaves them.  The tables hold what is committed;    *)
(* what an open transaction has inserted or deleted is in its handler, and *)
(* such rows are locked.  A statement that waits for a lock reads what is  *)
(* committed when it goes on.                                              *)
(***************************************************************************)
EXTENDS ManifestStore, Integers

CONSTANTS
    Request,     \* handlers of manifests and blobs that may run at a time
    Dropper,     \* handlers that drop a repository or a registry
    Tenant,
    TenantOf,    \* the tenant of a registry
    MaxRequests  \* bound: requests of clients

ASSUME ServerAssumption ==
    /\ TenantOf \in [Registry -> Tenant]
    /\ MaxRequests \in Nat
    /\ IsFiniteSet(Request)
    /\ Request \cap Dropper = {}

\* A digest is a hash of the body: bodies do not refer to each other in a circle.
ASSUME HashesAssumption ==
    \A S \in SUBSET Manifest : S # {} /\ IsFiniteSet(S) =>
        \E m \in S : (Refs(m) \cup {Subject[m]}) \cap S = {}

VARIABLES
    stored,    \* the blobs that R2 has
    requests,  \* what each handler is doing
    drops,     \* what each Dropper has deleted and not committed
    ledger,    \* the storage-bytes balance of a tenant, by blob, in units of its size
    asked,     \* requests so far
    overlaps,  \* history: {r, s}, a delete in r ran together with a push or delete in s
    awaited,   \* history: <<tenant, blob>> charged and not yet in any of its repositories
    excused    \* history: <<tenant, blob>> whose balance went wrong in a known way

serverVars == <<vars, stored, requests, drops, ledger, asked, overlaps, awaited, excused>>

Idle == [step |-> "idle"]

NotDropping == [registry |-> {}, repos |-> {}, tags |-> {}, rows |-> {}]

PutSteps == {"track", "children", "insert"}
DeleteSteps == {"guard", "present", "untag", "delete", "sweep", "blobs", "tenants", "leave"}

\* The type invariant.
ServerTypeOK ==
    /\ TypeOK
    /\ stored \in SUBSET Blob
    /\ ledger \in [Tenant -> [Blob -> Int]]
    /\ asked \in 0..MaxRequests
    /\ overlaps \in SUBSET {{r, s} : r, s \in Repo}
    /\ awaited \in SUBSET (Tenant \X Blob)
    /\ excused \in SUBSET (Tenant \X Blob)
    /\ DOMAIN requests = Request
    /\ \A q \in Request : requests[q] # Idle =>
          requests[q] \in
             [step: PutSteps \cup DeleteSteps \cup {"credit", "owner", "store"},
              repo: Repo, digest: Digest, tag: Tag \cup {NoTag},
              todo: SUBSET Digest, rows: SUBSET Digest, untag: SUBSET Tag,
              charge: BOOLEAN]
    /\ drops \in [Dropper -> [registry: SUBSET Registry, repos: SUBSET Repo,
                             tags: SUBSET (Repo \X Tag), rows: SUBSET (Repo \X Digest)]]

\* Registries are there with nothing pushed to them; their tenant may have uploaded.
ServerInit ==
    /\ registries = Registry
    /\ repositories = {}
    /\ bodies = {}
    /\ graph = {}
    /\ subjects = {}
    /\ repoObjects = [r \in Repo |-> {}]
    /\ tags = [r \in Repo |-> [t \in Tag |-> NoDigest]]
    /\ awaited \in SUBSET (Tenant \X Blob)
    /\ stored = {b \in Blob : \E t \in Tenant : <<t, b>> \in awaited}
    /\ objects = [d \in Digest |-> IF d \in stored THEN "blob" ELSE "absent"]
    /\ ledger = [t \in Tenant |-> [b \in Blob |-> IF <<t, b>> \in awaited THEN 1 ELSE 0]]
    /\ requests = [q \in Request |-> Idle]
    /\ drops = [x \in Dropper |-> NotDropping]
    /\ asked = 0
    /\ overlaps = {}
    /\ excused = {}

-----------------------------------------------------------------------------
(* Handlers and their transactions *)

At(q, step) == requests[q].step = step
Putting(q) == requests[q].step \in PutSteps
Deleting(q) == requests[q].step \in DeleteSteps

\* resolveRegistryIDForRepo finds the registry; else 403 and nothing happens.
Begin(q, step, r, d, t, todo) ==
    /\ requests[q] = Idle
    /\ asked < MaxRequests
    /\ asked' = asked + 1
    /\ RegistryOf[r] \in registries
    /\ requests' = [requests EXCEPT ![q] =
          [step |-> step, repo |-> r, digest |-> d, tag |-> t, todo |-> todo,
           rows |-> {}, untag |-> {}, charge |-> FALSE]]

Goto(q, step) == requests' = [requests EXCEPT ![q].step = step]

\* The answer ends the request; a transaction not committed rolls back.
Reply(q) == requests' = [requests EXCEPT ![q] = Idle]

\* A push transaction of repository r holds its row from its first statement on.
PushOpen(r) == \E p \in Request : At(p, "insert") /\ requests[p].repo = r

\* What open transactions have deleted of r and not committed.
RowsGoing(r) ==
    UNION {requests[p].rows : p \in {p \in Request : Deleting(p) /\ requests[p].repo = r}}
       \cup {d \in Digest : \E x \in Dropper : <<r, d>> \in drops[x].rows}
TagsGoing(r) ==
    UNION {requests[p].untag : p \in {p \in Request : Deleting(p) /\ requests[p].repo = r}}
       \cup {t \in Tag : \E x \in Dropper : <<r, t>> \in drops[x].tags}

\* Nobody has the row of r itself.
RepositoryFree(r) == ~PushOpen(r) /\ \A x \in Dropper : r \notin drops[x].repos

RegistryGoing(g) == \E x \in Dropper : g \in drops[x].registry

TenantOfRepo(r) == TenantOf[RegistryOf[r]]

\* The query of TenantHasBlob, and of tenantOrphanCmd, without the rows out of repository x.
HeldWithout(t, b, x, out) ==
    \E r \in Repo : TenantOfRepo(r) = t /\ b \in repoObjects[r] \ (IF r = x THEN out ELSE {})

TenantHasBlob(t, b) == \E r \in Repo : TenantOfRepo(r) = t /\ b \in repoObjects[r]

\* Pairs of repositories for which a delete that starts in r overlaps now.
DeleteOverlaps(r) == {{r, requests[p].repo} : p \in {p \in Request : Putting(p) \/ Deleting(p)}}
PutOverlaps(r) == {{r, requests[p].repo} : p \in {p \in Request : Deleting(p)}}

-----------------------------------------------------------------------------
(* PUT of a manifest *)

\* Mutant: the blobs are not looked for.
PutManifestUnchecked(q, r, m, t) ==
    /\ IF BlobRefs[m] = {} THEN Begin(q, "children", r, m, t, ChildRefs[m])
       ELSE Begin(q, "track", r, m, t, BlobRefs[m])
    /\ overlaps' = overlaps \cup PutOverlaps(r)
    /\ UNCHANGED <<vars, stored, ledger, awaited, excused>>

\* BlobSize finds every blob that m names in R2; else 400.
PutManifest(q, r, m, t) ==
    /\ BlobRefs[m] \subseteq stored
    /\ IF BlobRefs[m] = {} THEN Begin(q, "children", r, m, t, ChildRefs[m])
       ELSE Begin(q, "track", r, m, t, BlobRefs[m])
    /\ overlaps' = overlaps \cup PutOverlaps(r)
    /\ UNCHANGED <<vars, stored, ledger, awaited, excused>>

TrackBlob(q, b) ==
    LET rq == requests[q]
    IN  /\ At(q, "track")
        /\ b \in rq.todo
        /\ UpsertObjectBlob(b)
        /\ requests' = IF rq.todo # {b} THEN [requests EXCEPT ![q].todo = @ \ {b}]
                       ELSE [requests EXCEPT ![q].step = "children",
                                             ![q].todo = ChildRefs[rq.digest]]
        /\ UNCHANGED <<stored, ledger, asked, overlaps, awaited, excused>>

\* Mutant: children may be anywhere.
ChildKnownAnywhere(r, c) == c \in bodies

\* HasManifestDigestInRepository.
ChildKnown(r, c) == c \in repoObjects[r]

\* With the blobs tracked, one query a child; one that is missing is answered 400.
CheckChild(q, c) ==
    /\ At(q, "children")
    /\ c \in requests[q].todo
    /\ IF ChildKnown(requests[q].repo, c)
       THEN requests' = [requests EXCEPT ![q].todo = @ \ {c}]
       ELSE Reply(q)
    /\ UNCHANGED <<vars, stored, ledger, asked, overlaps, awaited, excused>>

Checked(q) == At(q, "children") /\ requests[q].todo = {}

\* A row that is there is left alone and not locked; one being deleted is waited for.
InsertRow(q, d, todo) ==
    LET r == requests[q].repo
    IN  /\ d \notin RowsGoing(r)
        /\ requests' = [requests EXCEPT ![q].step = "insert", ![q].todo = todo,
                                        ![q].rows = @ \cup ({d} \ repoObjects[r])]
        /\ UNCHANGED <<vars, stored, ledger, asked, overlaps, awaited, excused>>

\* The rows of the repository and of the object are locked against other pushes of
\* either and drops; a new repository also needs its registry's row to stay.  Then the
\* manifest is inserted into repository_objects.
BeginUpsert(q) ==
    LET rq == requests[q]
    IN  /\ Checked(q)
        /\ RegistryOf[rq.repo] \in registries
        /\ RepositoryFree(rq.repo)
        /\ rq.repo \in repositories \/ ~RegistryGoing(RegistryOf[rq.repo])
        /\ \A p \in Request : At(p, "insert") => requests[p].digest # rq.digest
        /\ InsertRow(q, rq.digest, BlobRefs[rq.digest])

\* The foreign key to the registry fails: 500.
RegistryGone(q) ==
    /\ Checked(q)
    /\ RegistryOf[requests[q].repo] \notin registries
    /\ Reply(q)
    /\ UNCHANGED <<vars, stored, ledger, asked, overlaps, awaited, excused>>

InsertBlob(q, b) ==
    /\ At(q, "insert")
    /\ b \in requests[q].todo
    /\ InsertRow(q, b, requests[q].todo \ {b})

\* What t comes to hold without having been charged: pushed on a mount, on another
\* tenant's upload, or on an upload that was not charged because t still held it.  Or
\* it is charged once more: an upload has found that t does not have it, and goes on.
Miscounted(t, B) ==
    {<<t, b>> : b \in {b \in B :
        /\ ~TenantHasBlob(t, b)
        /\ \/ <<t, b>> \notin awaited
           \/ \E p \in Request : /\ At(p, "store") /\ requests[p].charge
                                 /\ requests[p].digest = b
                                 /\ TenantOfRepo(requests[p].repo) = t}}

\* Tag, graph rows and commit; 201.
CommitUpsert(q) ==
    LET rq == requests[q]
        r  == rq.repo
        m  == rq.digest
        t  == TenantOfRepo(r)
    IN  /\ At(q, "insert")
        /\ rq.todo = {}
        /\ rq.tag \notin TagsGoing(r)
        /\ repositories' = repositories \cup {r}
        /\ objects' = [objects EXCEPT ![m] = IF @ = "absent" THEN ObjectType(m) ELSE @]
        /\ bodies' = bodies \cup {m}
        /\ repoObjects' = [repoObjects EXCEPT ![r] = @ \cup rq.rows]
        /\ tags' = [tags EXCEPT ![r] =
                      [u \in Tag |-> IF u = rq.tag THEN m ELSE tags[r][u]]]
        /\ graph' = graph \cup Edges(m) \cup SubjectEdges(m)
        /\ subjects' = subjects \cup SubjectEdges(m)
        /\ excused' = excused \cup Miscounted(t, rq.rows \cap Blob)
        /\ awaited' = awaited \ {<<t, b>> : b \in rq.rows}
        /\ Reply(q)
        /\ UNCHANGED <<registries, stored, ledger, asked, overlaps>>

-----------------------------------------------------------------------------
(* DELETE of a manifest *)

DeleteManifest(q, r, d) ==
    /\ Begin(q, "guard", r, d, NoTag, {})
    /\ overlaps' = overlaps \cup DeleteOverlaps(r)
    /\ UNCHANGED <<vars, stored, ledger, awaited, excused>>

\* No repository: 404.  A parent: 409.
GuardDelete(q) ==
    LET rq == requests[q]
    IN  /\ At(q, "guard")
        /\ IF rq.repo \in repositories /\ ~HasParent(rq.repo, rq.digest)
           THEN Goto(q, "present") ELSE Reply(q)
        /\ UNCHANGED <<vars, stored, ledger, asked, overlaps, awaited, excused>>

\* Not present: 404.
CheckPresent(q) ==
    /\ At(q, "present")
    /\ IF requests[q].digest \in repoObjects[requests[q].repo]
       THEN Goto(q, "untag") ELSE Reply(q)
    /\ UNCHANGED <<vars, stored, ledger, asked, overlaps, awaited, excused>>

DeleteTags(q) ==
    LET r == requests[q].repo
        U == {t \in Tag : tags[r][t] = requests[q].digest}
    IN  /\ At(q, "untag")
        /\ U \cap TagsGoing(r) = {}
        /\ requests' = [requests EXCEPT ![q].step = "delete", ![q].untag = U]
        /\ UNCHANGED <<vars, stored, ledger, asked, overlaps, awaited, excused>>

\* Another delete may have been faster; this one goes on all the same.
DeleteRow(q) ==
    LET rq == requests[q]
    IN  /\ At(q, "delete")
        /\ rq.digest \notin RowsGoing(rq.repo)
        /\ requests' = [requests EXCEPT ![q].step = "sweep",
                                        ![q].rows = {rq.digest} \cap repoObjects[rq.repo]]
        /\ UNCHANGED <<vars, stored, ledger, asked, overlaps, awaited, excused>>

\* One of the two sweeps: its statement deletes rows, and the next one follows.
Sweep(q, step, swept, next) ==
    /\ At(q, step)
    /\ swept \cap (RowsGoing(requests[q].repo) \ requests[q].rows) = {}
    /\ requests' = [requests EXCEPT ![q].step = next, ![q].rows = @ \cup swept,
                                    ![q].todo = swept]
    /\ UNCHANGED <<vars, stored, ledger, asked, overlaps, awaited, excused>>

\* A manifest that a push brought back keeps its children.
ChildrenToSweep(q) ==
    LET rq == requests[q]
    IN  IF rq.digest \in repoObjects[rq.repo] \ rq.rows THEN {}
        ELSE OrphanChildManifests(rq.repo, rq.digest)

SweepChildren(q) == Sweep(q, "sweep", ChildrenToSweep(q), "blobs")

\* Mutant: the blobs of the children that were swept stay.
SweepOwnBlobs(q) ==
    LET rq == requests[q]
        B  == OrphanBlobs({rq.digest}, repoObjects[rq.repo] \ rq.rows)
    IN  Sweep(q, "blobs", B, IF B = {} THEN "leave" ELSE "tenants")

BlobsToSweep(q) ==
    LET rq == requests[q]
    IN  OrphanBlobs({rq.digest} \cup rq.rows, repoObjects[rq.repo] \ rq.rows)

SweepBlobs(q) ==
    Sweep(q, "blobs", BlobsToSweep(q), IF BlobsToSweep(q) = {} THEN "leave" ELSE "tenants")

\* Mutant: what left this repository is credited, wherever else the tenant has it.
OrphanedHere(t, r, gone) == gone

\* tenantOrphanCmd: of the blobs that left, those the tenant has nowhere else.
OrphanedAtTenant(t, r, gone) == {b \in gone : ~HeldWithout(t, b, r, gone)}

FindTenantOrphans(q) ==
    LET rq == requests[q]
    IN  /\ At(q, "tenants")
        /\ requests' = [requests EXCEPT ![q].step = "leave",
              ![q].todo = OrphanedAtTenant(TenantOfRepo(rq.repo), rq.repo, rq.todo)]
        /\ UNCHANGED <<vars, stored, ledger, asked, overlaps, awaited, excused>>

\* Without blobs to credit it is 202 at once.
CommitDelete(q) ==
    LET rq == requests[q]
        r  == rq.repo
    IN  /\ At(q, "leave")
        /\ repoObjects' = [repoObjects EXCEPT ![r] = @ \ rq.rows]
        /\ tags' = [tags EXCEPT ![r] =
                      [t \in Tag |-> IF t \in rq.untag THEN NoDigest ELSE tags[r][t]]]
        /\ IF rq.todo = {} THEN Reply(q) ELSE Goto(q, "credit")
        /\ UNCHANGED <<registries, repositories, objects, bodies, graph, subjects,
                       stored, ledger, asked, overlaps, awaited, excused>>

\* The foreign key of an event of repository r waits for a drop of its registry.
EventAllowed(r) == RegistryOf[r] \in registries /\ ~RegistryGoing(RegistryOf[r])

\* emitUsageEvent: an event that cannot be inserted is logged and lost.
Emit(r, t, b, value) ==
    \/ /\ EventAllowed(r)
       /\ ledger' = [ledger EXCEPT ![t][b] = @ + value] /\ UNCHANGED excused
    \/ excused' = excused \cup {<<t, b>>} /\ UNCHANGED ledger

\* One event after another, then 202.
EmitCredit(q, b) ==
    /\ At(q, "credit")
    /\ b \in requests[q].todo
    /\ Emit(requests[q].repo, TenantOfRepo(requests[q].repo), b, -1)
    /\ IF requests[q].todo = {b} THEN Reply(q)
       ELSE requests' = [requests EXCEPT ![q].todo = @ \ {b}]
    /\ UNCHANGED <<vars, stored, asked, overlaps, awaited>>

-----------------------------------------------------------------------------
(* Uploads, as far as the tables and the ledger are concerned *)

UploadBlob(q, r, b) ==
    /\ Begin(q, "owner", r, b, NoTag, {})
    /\ UNCHANGED <<vars, stored, ledger, overlaps, awaited, excused>>

\* Mutant: only the repository of the upload counts.
MustChargeHere(r, b) == b \notin repoObjects[r]

\* TenantHasBlob, and the charge follows.
MustCharge(r, b) == ~TenantHasBlob(TenantOfRepo(r), b)

SetCharge(q, charge) ==
    requests' = [requests EXCEPT ![q].step = "store", ![q].charge = charge]

\* Two queries whose errors are ignored: without the tenant there is no charge; without
\* an answer from TenantHasBlob there is one, even if the tenant has the blob.
CheckOwner(q) ==
    LET r == requests[q].repo
        b == requests[q].digest
        t == TenantOfRepo(r)
    IN  /\ At(q, "owner")
        /\ UNCHANGED <<vars, stored, ledger, asked, overlaps, awaited>>
        /\ \/ SetCharge(q, FALSE) /\ UNCHANGED excused
           \/ /\ RegistryOf[r] \in registries
              /\ SetCharge(q, MustCharge(r, b)) /\ UNCHANGED excused
           \/ /\ RegistryOf[r] \in registries
              /\ SetCharge(q, TRUE)
              /\ excused' = IF TenantHasBlob(t, b) THEN excused \cup {<<t, b>>} ELSE excused

\* The blob is in R2 and has its row; the tenant is charged, once more if an upload
\* of the same blob was charged before; 201.
CompleteUpload(q) ==
    LET b == requests[q].digest
        r == requests[q].repo
        t == TenantOfRepo(r)
    IN  /\ At(q, "store")
        /\ stored' = stored \cup {b}
        /\ UpsertObjectBlob(b)
        /\ IF ~requests[q].charge THEN UNCHANGED <<ledger, awaited, excused>>
           ELSE \/ /\ EventAllowed(r)
                   /\ ledger' = [ledger EXCEPT ![t][b] = @ + 1]
                   /\ awaited' = awaited \cup {<<t, b>>}
                   /\ excused' = IF <<t, b>> \in awaited THEN excused \cup {<<t, b>>} ELSE excused
                \/ excused' = excused \cup {<<t, b>>} /\ UNCHANGED <<ledger, awaited>>
        /\ Reply(q)
        /\ UNCHANGED <<asked, overlaps>>

-----------------------------------------------------------------------------
(* What surrounds the handlers *)

\* Another tenant uploads the blob to the bucket they share.
UploadElsewhere(b) ==
    /\ b \notin stored
    /\ asked < MaxRequests
    /\ asked' = asked + 1
    /\ stored' = stored \cup {b}
    /\ UpsertObjectBlob(b)
    /\ UNCHANGED <<requests, ledger, overlaps, awaited, excused>>

\* DELETE of a tag: one statement, which waits for a delete that has the row.
Untag(r, t) ==
    /\ DeleteManifestReference(r, t)
    /\ t \notin TagsGoing(r)
    /\ UNCHANGED <<stored, requests, ledger, asked, overlaps, awaited, excused>>

\* Blobs that their tenant has in R and nowhere else: no event says that they go.
HeldOnlyIn(R) ==
    {x \in Tenant \X Blob :
        /\ TenantHasBlob(x[1], x[2])
        /\ \A r \in Repo \ R : TenantOfRepo(r) = x[1] => x[2] \notin repoObjects[r]}

\* What the commit that drops R does to the histories.
Drop(R) ==
    /\ overlaps' = overlaps \cup UNION {DeleteOverlaps(r) : r \in R}
    /\ excused' = excused \cup HeldOnlyIn(R)
    /\ UNCHANGED <<stored, requests, ledger, asked, awaited>>

\* A handler ends with an error at any point: an open transaction rolls back, and
\* events not yet inserted never are.
Fail(q) ==
    LET rq == requests[q]
        t  == TenantOfRepo(rq.repo)
    IN  /\ rq # Idle
        /\ excused' = IF At(q, "credit") THEN excused \cup {<<t, b>> : b \in rq.todo} ELSE excused
        /\ Reply(q)
        /\ UNCHANGED <<vars, stored, ledger, asked, overlaps, awaited>>

-----------------------------------------------------------------------------
(* DELETE of a repository or a registry: one statement and its cascade, row by row *)

\* Its first row is waited for with nothing in hand.
BeginDrop(x, G, R) ==
    /\ drops[x] = NotDropping
    /\ asked < MaxRequests
    /\ asked' = asked + 1
    /\ drops' = [drops EXCEPT ![x].registry = G, ![x].repos = R]
    /\ UNCHANGED <<vars, stored, requests, ledger, overlaps, awaited, excused>>

DropRepository(x, r) ==
    /\ r \in repositories
    /\ RepositoryFree(r)
    /\ BeginDrop(x, {}, {r})

\* A push that inserts a repository holds the row of its registry.
DropRegistry(x, g) ==
    /\ g \in registries
    /\ ~RegistryGoing(g)
    /\ \A r \in Repo : RegistryOf[r] = g /\ PushOpen(r) => r \in repositories
    /\ BeginDrop(x, {g}, {})

\* The repositories of a registry that are still to be taken: before anything in them.
Unlocked(x) == {r \in repositories : RegistryOf[r] \in drops[x].registry} \ drops[x].repos

Take(x, repos, tgs, rows) ==
    /\ drops' = [drops EXCEPT ![x].repos = @ \cup repos, ![x].tags = @ \cup tgs,
                              ![x].rows = @ \cup rows]
    /\ UNCHANGED <<vars, stored, requests, ledger, asked, overlaps, awaited, excused>>

CascadeRepository(x, r) ==
    /\ r \in Unlocked(x)
    /\ RepositoryFree(r)
    /\ Take(x, {r}, {}, {})

CascadeTag(x, r, t) ==
    /\ Unlocked(x) = {}
    /\ r \in drops[x].repos
    /\ tags[r][t] # NoDigest
    /\ t \notin TagsGoing(r)
    /\ Take(x, {}, {<<r, t>>}, {})

\* Whether x has all the tags of r.
TagsTaken(x, r) == \A t \in Tag : tags[r][t] = NoDigest \/ <<r, t>> \in drops[x].tags

CascadeRow(x, r, d) ==
    /\ Unlocked(x) = {}
    /\ r \in drops[x].repos
    /\ TagsTaken(x, r)
    /\ d \in repoObjects[r] \ RowsGoing(r)
    /\ Take(x, {}, {}, {<<r, d>>})

CommitDrop(x) ==
    LET w == drops[x]
    IN  /\ w # NotDropping
        /\ Unlocked(x) = {}
        /\ \A r \in w.repos : TagsTaken(x, r) /\ \A d \in repoObjects[r] : <<r, d>> \in w.rows
        /\ \/ \E g \in w.registry :
                 DeleteRegistryByIDAndOrg(g) /\ Drop({r \in Repo : RegistryOf[r] = g})
           \/ /\ w.registry = {}
              /\ \E r \in w.repos : DeleteRepositoryByIDAndRegistryID(r) /\ Drop({r})
        /\ drops' = [drops EXCEPT ![x] = NotDropping]

\* Also when PostgreSQL ends it because it waits in a circle.
RollBackDrop(x) ==
    /\ drops[x] # NotDropping
    /\ drops' = [drops EXCEPT ![x] = NotDropping]
    /\ UNCHANGED <<vars, stored, requests, ledger, asked, overlaps, awaited, excused>>

-----------------------------------------------------------------------------

Arrive(q) ==
    \/ \E r \in Repo, m \in Manifest, t \in Tag \cup {NoTag} : PutManifest(q, r, m, t)
    \/ \E r \in Repo, d \in Manifest : DeleteManifest(q, r, d)
    \/ \E r \in Repo, b \in Blob : UploadBlob(q, r, b)

Handle(q) ==
    \/ \E b \in Blob : TrackBlob(q, b) \/ InsertBlob(q, b) \/ EmitCredit(q, b)
    \/ \E c \in Digest : CheckChild(q, c)
    \/ BeginUpsert(q) \/ RegistryGone(q) \/ CommitUpsert(q)
    \/ GuardDelete(q) \/ CheckPresent(q) \/ DeleteTags(q) \/ DeleteRow(q)
    \/ SweepChildren(q) \/ SweepBlobs(q) \/ FindTenantOrphans(q) \/ CommitDelete(q)
    \/ CheckOwner(q) \/ CompleteUpload(q)

HandlersNext ==
    \/ \E q \in Request : Arrive(q) \/ Handle(q) \/ Fail(q)
    \/ \E b \in Blob : UploadElsewhere(b)
    \/ \E r \in Repo, t \in Tag : Untag(r, t)

DropNext(x) ==
    \/ \E g \in Registry : DropRegistry(x, g)
    \/ \E r \in Repo :
          \/ DropRepository(x, r) \/ CascadeRepository(x, r)
          \/ \E t \in Tag : CascadeTag(x, r, t)
          \/ \E d \in Digest : CascadeRow(x, r, d)
    \/ CommitDrop(x) \/ RollBackDrop(x)

ServerNext == (HandlersNext /\ UNCHANGED drops) \/ \E x \in Dropper : DropNext(x)

ServerSpec == ServerInit /\ [][ServerNext]_serverVars

-----------------------------------------------------------------------------
(* Properties *)

\* The other half of what BlobUpload shows of the uploads: with the statements of pushes
\* and deletes apart as well, R2, the rows of blobs and the repositories' lists do what
\* either side may rely on.
Store == INSTANCE BlobStore WITH
    tracked <- {b \in Blob : objects[b] # "absent"},
    listed  <- [r \in Repo |-> repoObjects[r] \cap Blob]

BlobRefinement == Store!StoreSpec

\* Repositories in which no delete ran together with another push or delete.
Undisturbed == {r \in Repo : {r} \notin overlaps}

\* Handlers that overlap in other repositories, and pushes that overlap in this one,
\* do no harm: what a repository then does is what RepoCatalog allows.
CatalogUnlessDisturbed ==
    [][Catalog!CatalogNext \/ \E r \in Repo \ Undisturbed' :
          repoObjects'[r] # repoObjects[r] \/ tags'[r] # tags[r]]_<<repoObjects, tags>>

\* An index is there with the children that PUT found when it was pushed, and each
\* manifest with its blobs.
WholeUnlessDisturbed ==
    \A r \in Undisturbed : \A m \in repoObjects[r] \cap Manifest :
        Refs(m) \ {Subject[m]} \subseteq repoObjects[r]

\* Nothing is stranded, neither blobs nor tags.
TidyUnlessDisturbed ==
    \A r \in Undisturbed :
        /\ \A b \in repoObjects[r] \cap Blob : Referenced(b, repoObjects[r] \cap Manifest)
        /\ \A t \in Tag : tags[r][t] \in Digest /\ ~Referenced(tags[r][t], Digest)
              => tags[r][t] \in repoObjects[r]

\* Handlers that have still to credit t with b.
Crediting(t, b) ==
    {q \in Request : /\ At(q, "credit")
                     /\ b \in requests[q].todo
                     /\ TenantOfRepo(requests[q].repo) = t}

\* A tenant pays for a blob, once, exactly while it has it or has uploaded it to have
\* it: unless one of the things in excused happened, or a delete overlapped.
BillFollowsHoldings ==
    \A t \in Tenant, b \in Blob :
        \/ <<t, b>> \in excused
        \/ \E r, s \in Repo : {r, s} \in overlaps /\ TenantOfRepo(r) = t
        \/ ledger[t][b] = Cardinality(Crediting(t, b))
                             + IF TenantHasBlob(t, b) \/ <<t, b>> \in awaited THEN 1 ELSE 0

\* What the next statement of q inserts or deletes, and therefore waits for.
NeedsRows(q) ==
    LET rq == requests[q]
    IN  CASE Checked(q) \/ At(q, "delete") -> {rq.digest}
          [] At(q, "insert") -> rq.todo
          [] At(q, "sweep") -> ChildrenToSweep(q) \ rq.rows
          [] At(q, "blobs") -> BlobsToSweep(q) \ rq.rows
          [] OTHER -> {}

NeedsTags(q) ==
    LET rq == requests[q]
    IN  CASE At(q, "insert") /\ rq.todo = {} -> {rq.tag}
          [] At(q, "untag") -> {t \in Tag : tags[rq.repo][t] = rq.digest}
          [] OTHER -> {}

\* q waits for the transaction of p to end: p has deleted what q needs, or pushes to
\* the repository that q is about to lock, or the manifest.
WaitsForHandler(q, p) ==
    \/ /\ Deleting(p)
       /\ \/ NeedsRows(q) \cap requests[p].rows # {}
          \/ NeedsTags(q) \cap requests[p].untag # {}
       /\ requests[p].repo = requests[q].repo
    \/ /\ Checked(q)
       /\ At(p, "insert")
       /\ requests[p].repo = requests[q].repo \/ requests[p].digest = requests[q].digest

\* q waits for the drop x: it has taken what q needs, or the repository, or the registry
\* that a new repository or a usage event refers to.
WaitsForDrop(q, x) ==
    LET rq == requests[q]
    IN  \/ \E d \in NeedsRows(q) : <<rq.repo, d>> \in drops[x].rows
        \/ \E t \in NeedsTags(q) : <<rq.repo, t>> \in drops[x].tags
        \/ Checked(q) /\ rq.repo \in drops[x].repos
        \/ /\ \/ Checked(q) /\ rq.repo \notin repositories
              \/ At(q, "credit")
              \/ At(q, "store") /\ rq.charge
           /\ RegistryOf[rq.repo] \in drops[x].registry

\* The drop x waits for the push p into a repository that it has yet to take, or for
\* the delete p that has taken something of a repository in its hands.
DropWaitsFor(x, p) ==
    \/ At(p, "insert") /\ requests[p].repo \in Unlocked(x)
    \/ /\ Deleting(p)
       /\ Unlocked(x) = {} /\ requests[p].repo \in drops[x].repos
       /\ requests[p].rows # {} \/ requests[p].untag # {}

\* a waits for the transaction of b to end.
WaitsFor(a, b) ==
    \/ a \in Request /\ b \in Request /\ WaitsForHandler(a, b)
    \/ a \in Request /\ b \in Dropper /\ WaitsForDrop(a, b)
    \/ a \in Dropper /\ b \in Request /\ DropWaitsFor(a, b)
    \/ a \in Dropper /\ b \in Dropper /\ Unlocked(a) \cap drops[b].repos # {}

\* Only a drop and the deletes of manifests in a repository that it drops, of which one
\* waits for it and it for one, ever wait for each other in a circle, until PostgreSQL
\* ends one with an error: pushes, uploads, and deletes without a drop never do.
NoCircularWait ==
    \A W \in SUBSET (Request \cup Dropper) :
        W # {} /\ (\A a \in W : \E b \in W : WaitsFor(a, b)) =>
            \E x \in W \cap Dropper, p, q \in W \cap Request :
                /\ Deleting(p) /\ Deleting(q)
                /\ requests[p].repo = requests[q].repo /\ requests[p].repo \in drops[x].repos
                /\ WaitsFor(x, p) /\ WaitsFor(q, x)

=============================================================================
