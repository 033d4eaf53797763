# A verification of bin2

bin2 is a multi-tenant OCI registry: a Go API (`internal/server`, `internal/db`)
over PostgreSQL and an R2 bucket, a Cloudflare worker that serves pulls
(`pull/src/index.ts`), and a web UI. This directory models its core in TLA+,
checks the models with TLC, and proves the main ones with TLAPS.

    tlc -workers 2 -config MCManifestStore.cfg MCManifestStore
    tlapm ManifestStoreProofs.tla

`PROJECT.json` lists the components, the runs, what every definition models
(file and lines), the hazards and the properties that cover them, the findings
and the theorems.

## 1. Inventory

| component | state | operations | talks to |
|---|---|---|---|
| Manifest index (`internal/db/registry_gc.go`, `registries.go`, `repositories.go`, schema) | `registries`, `repositories`, `objects`, `graph`, `repository_objects`, `tags` | one transaction per method: push, untag, delete by digest, create and drop registries and repositories | called by all handlers |
| Blob uploads (`registryv2_blob_handlers.go`, `registryv2_storage_r2.go`) | session files under `DATA_DIR/uploads`, R2 objects | POST, PATCH, PUT, monolithic POST, mount, HEAD, GET | index (objects rows), ledger |
| Manifest handlers (`registryv2_manifest_handlers.go`, referrers, tags) | none of their own | PUT, GET, HEAD, DELETE, referrers and tag lists | index, R2 (existence of blobs), ledger |
| Usage ledger and summary (`usage.go`, `usage_summary.go`, `usage_handlers.go`) | `usage_events` | emit, ingest, list, monthly summary | written by all handlers and by the pull worker |
| Tokens and authorization (`registryv2_token.go`, `registryv2_auth.go`) | none: signed tokens held by clients | issue, verify, required scope of a request, lookup of its registry | API keys and their scopes, registries by name |
| Tenants, users, keys, registries (`users.go`, `apikey.go`, `registry_handlers.go`, `apikey_handlers.go`) | `tenants`, `users`, `api_keys`, `api_key_scopes`, cached registry size | sign-in, onboarding, keys, registries, size of a registry | index, ledger (never, on deletion) |
| Database access (`runtime.go`, `db.go`) | the connections of a pool | taken and given back by every query and transaction | all of `internal/db` |
| Pull worker | none | GET and HEAD of blobs and manifests, usage post | tokens, R2, usage ingest |
| Init job, seed (`cmd/init`) | none of their own | migrations, bucket cleaning; a user, a registry and a key for end-to-end tests, by an init container of every API pod | database, R2 |
| Key encryption, JWT keys, wiring, UI | configuration | none that changes registry state | all of them |

What is hard here. Handlers run concurrently, one goroutine a request, and a
handler is a sequence of separate accesses to the file system, R2 and the
database: nothing spans two of them. PostgreSQL runs at READ COMMITTED, where a
transaction is a sequence of statements each with its own view. Errors after a point
are logged and passed over. Repository membership of a blob is implied by manifests, and recomputed by
each delete from a graph whose rows are never removed. The bill is a running sum
of events inserted beside the changes they account for, and it is read query by
query while events arrive. What makes each part correct is stated with its module
below; the hazards are listed at their lines in `PROJECT.json`.

## 2. Modules

| module | what it is | models |
|---|---|---|
| `ManifestStore` | the tables of the manifest index, one action per method of `internal/db` that writes them | `registry_gc.go`, `registries.go`, `repositories.go`, schema |
| `RepoCatalog` | what a repository promises to clients, with no tables | abstract specification of `ManifestStore` |
| `ManifestStoreProofs` | the theorems about `ManifestStore` | |
| `RegistryServer` | the manifest handlers and their transactions, statement by statement over the tables of `ManifestStore`; what they and uploads write to the ledger | `registryv2_manifest_handlers.go`, `registry_gc.go`, `completeBlobUpload` |
| `RegistryServerProofs`, `RegistryBillingProofs` | the theorems about `RegistryServer`: what clients see, and what tenants are billed | |
| `BlobUpload` | sessions, R2, objects rows, and the upload handlers step by step | `registryv2_blob_handlers.go`, `registryv2_storage_r2.go`, parts of `registryv2_gc_index.go` |
| `BlobUploadProofs` | the theorems about `BlobUpload` | |
| `BlobStore` | what the registry's parts may rely on about blobs: R2, the objects rows, the repositories' lists | abstract specification of `BlobUpload` and of `RegistryServer` |
| `UsageSummary` | the event ledger and the monthly summary | `usage.go`, `usage_summary.go`, `usageSummaryHandler` |
| `UsageSummaryProofs` | the theorems about `UsageSummary` | |
| `TokenAuth` | registries, keys and scopes as tables; the token service, and the API and the worker that trust its tokens | `registryv2_token.go`, `registryv2_auth.go`, `apikey_handlers.go`, `apikey.go`, `registry_handlers.go`, `pull/src/index.ts` |
| `TokenAuthProofs` | the theorems about `TokenAuth` | |
| `Tenancy` | tenants, users, one registry name and its keys; the dashboard's handlers and the seed, statement by statement | `users.go`, `auth.go`, `seed_e2e.go`, `registry_handlers.go`, `apikey.go` |
| `TenancyProofs` | the theorems about `Tenancy` | |
| `ConnectionPool` | the pool, and the handlers that hold a connection over several statements | `runtime.go`, `GetRegistryReferencedBlobBytesCached`, `ListAPIKeysByUser`, `AddAPIKey` |
| `ConnectionPoolProofs` | the theorems about `ConnectionPool` | |
| `MC*` | instances for TLC | |

`RegistryServer` extends `ManifestStore`: tables, operators and the abstract catalogue
are the same, transactions are taken apart. `MCAccounts` runs `Tenancy` and
`ConnectionPool`, which share no variable, one at a time. The others meet only in
tables that one of them writes, and each models the other side by what it does to those
(`IndexBlob` and `ReleaseBlob` in `BlobUpload`, `UploadBlob` in `RegistryServer`, the
inserts in `UsageSummary`). Where uploads and manifest handlers meet, in R2, the objects
rows and `repository_objects`, `BlobStore` says what each may take from the other: a blob
once stored stays, a row is never ahead of R2 and never goes, and what a repository lists
is stored. Both modules implement it, the uploads with the manifest handlers as its `List`
and `Release`, the manifest handlers with the uploads as its `Add`. A pull, which reads
the list and then R2, needs no more.

### ManifestStore

The state is the tables. `objects[d]` is the type column, or "absent" when there
is no row; `bodies` are the rows that carry a manifest body; `graph` is the set of
`<<parent, child>>` rows and `subjects` those with `is_subject`; `repoObjects` and
`tags` are keyed by repository. A digest fixes a body, so what a manifest names
(`BlobRefs`, `ChildRefs`, `Subject`) is a constant. Sizes, timestamps, positions
and media types decide nothing here and are left out.

Each action is a whole transaction. `UpsertManifest` fails a foreign key, and so
does nothing, when the registry or a referenced object is gone; it writes the
subject edge only if the subject has a row by then. `DeleteManifestByDigestInRepository`
is the five statements in their order: the guard on parents that are not subject
edges, the tags of the digest, the digest, the child manifests that nothing left
in the repository refers to (`OrphanChildManifests`), and the blobs of what was
deleted that nothing left refers to (`OrphanBlobs`). The checks that the HTTP
handler makes before `UpsertManifest` are not part of it: more pushes are possible
in the model than through the handler, and the properties hold of them too.
`ListUnreferencedObjectDigests` and `DeleteObject` have no caller, so objects,
bodies and graph rows only grow.

Assumed: no digest is stored both as a blob and as a manifest (`KindsAssumption`).
The code does not rule it out. When it happens the type column keeps the first
writer's value, an upload of the bytes counts as stored because a row is there
(`registryv2_blob_handlers.go:288`), and the model's invariants no longer speak
about the code.

Run `manifest_store` (two registries with one repository each, two tag names, two
layers, two images sharing one layer, an index over both, a referrer of the first):
every order of the transactions, 44,204 states up to symmetry of the tags and of the
registries with their repositories.

- `PresentManifestsHaveBlobs`, `SurvivorsKeepReferences`: no delete takes what a
  manifest that stays needs. An image that shares a layer with a deleted one, an
  index whose child is deleted by way of another index, a referrer.
- `NoStrandedBlobs`: the other direction; a blob whose last manifest is gone is let go.
- `RootTagsResolve`: a tag resolves by digest unless its manifest was at some time
  the child or subject of another (see the findings for those).
- `CatalogRefinement`: `RepoCatalog`, with `images` and `available` the two halves
  of `repository_objects`, is implemented. Its `Remove` takes nothing but the
  manifest, what it names and the blobs that those name, and of these only what
  nothing that stays needs.

Two repositories in different registries are the least with which a repository
deleted on its own, a registry cascading to its repository, and rows shared through
`objects` and `graph` differ; two images and one index are the least with which a
layer and a child are shared, two tags the least of which a delete could miss one.

### RegistryServer

The tables hold what is committed. A handler (`requests[q]`) is at a step, and what its
open transaction has deleted or inserted is in its record (`rows`, `untag`) and locked;
commit moves it to the tables. A push checks that R2 has its blobs, gives them objects
rows, checks its children one query each, and opens a transaction that holds the rows of
its repository and of its object to the end. A delete is its statements: guard, presence,
tags, row, children, blobs, tenant-wide orphans, commit; then one usage event per
orphan. A statement that needs a row which an open transaction has deleted waits, and
then reads what is committed when it goes on. An upload asks `TenantHasBlob`, and later
stores and charges; of what `BlobUpload` knows of it, R2's blobs are enough here. The two
lookups before the charge ignore their errors (`CheckOwner`): without the tenant there is
no charge, without an answer from `TenantHasBlob` there is one. Any handler may end
anywhere (`Fail`), and any event may be lost (`Emit`).

The deletion of a repository or a registry is one statement, and its cascade takes row
after row: the registry, its repositories, their tags, their `repository_objects`
(`CascadeRepository`, `CascadeTag`, `CascadeRow`; `drops[x]` holds what it has taken).
Each is waited for with the others in hand, until `CommitDrop`, or `RollBackDrop` with an
error, PostgreSQL's end of a deadlock among them. The order of the rows of one kind is
left open.

Three history variables say where the promises end. `overlaps` holds the pairs of
repositories for which a delete ran together with a push or a delete; `excused` the
blobs of a tenant whose balance went wrong in one of the ways below; `awaited` what was
charged and is not yet in a repository.

Run `registry_server` (one tenant with two registries of one repository each, one layer,
two images of it, an index over one of them, two handlers and a drop at a time, four
requests, 403,252 states up to symmetry):

- `CatalogUnlessDisturbed`: `RepoCatalog`, of which `ManifestStore` with whole
  transactions is an implementation, is implemented with transactions in pieces too,
  step by step in every repository in which no delete overlapped. Concurrent pushes of
  one repository, and anything at all in another one, do no harm.
- `WholeUnlessDisturbed`, `TidyUnlessDisturbed`: there, an index has the children that
  PUT saw and a manifest its blobs; no blob is stranded and no root tag dangles.
- `BillFollowsHoldings`: the balance is one for each blob that the tenant has in any of
  its repositories or has uploaded to have it, plus what handlers are about to credit.
- `NoCircularWait`: `WaitsFor` is the relation that PostgreSQL's deadlock detection looks
  for circles in. Every circle has a drop in it and deletes of manifests in a repository
  that it drops. That one does come up: the delete has its manifest's row and goes on to
  its blobs, the drop has come by a blob first. PostgreSQL then ends one of the two with an
  error. Pushes, uploads and deletes without a drop never wait in a circle.
- `BlobRefinement`: the statements implement `BlobStore`.

What the model showed not to hold, and the properties therefore exclude:

- A push and a delete in one repository at the same time. Between the statement with
  which the delete looks for blobs that nothing refers to and its commit, the push finds
  the layer's row still there; after the commit the new manifest is there without its
  layer. In other orders tags or blobs are left behind. The upsert
  of the repository's row locks pushes against each other; deletes do not take that row.
- Two deletes at once: neither sees what the other takes, so shared children or layers
  stay, and a blob whose last two uses go at once is never credited.
- A drop and a delete in the repository that it drops, as under `NoCircularWait`.
- The balance: a blob that came by a mount, or with a manifest that names another
  tenant's upload, is never charged and yet credited when it goes; two uploads before
  the first manifest are charged twice; an upload while the tenant still has the blob is
  not charged, though a delete may take the blob before the manifest comes; one whose
  lookup of the tenant fails is not charged, one whose lookup of the blob fails is charged
  again; a lost event is lost, as is every event of a registry that is gone; deletion of
  repositories and registries credits nothing. The negative balance that follows from the
  first of these makes `calculateUsagePeriodSummary` refuse every later summary.

Two handlers are the least that interleave; the third would wait for one of the two or
find what they left. Four requests are an upload, a push, a second push and a delete.
The clients stop asking in the end, hence `CHECK_DEADLOCK FALSE`. One statement of a
handler, such as a sweep, takes its locks at once, and so do the first two of a push, the
upsert of the repository's row and of the object's. Digests are hashes of bodies, so
bodies do not refer to each other in a circle (`HashesAssumption`); `NoCircularWait` rests
on it. Registries are not made again here.

### BlobUpload

`files[u]` is the session file, `store` is R2, `rows` is `objects.size_bytes`,
`requests[q]` is a running handler: its step and its local variables. A step is one
access: append a chunk, hash the file, `TenantHasBlob`, read the row, put, unlink,
upsert the row, emit and answer. At each, the failures the code distinguishes are
alternatives: a body that breaks off leaves what arrived, a failed row read counts
as no row, an unlink that fails is ignored in one place and a 500 in another, a row
that cannot be written and an event that cannot be inserted are passed over. A
restart (`Restart`) drops the handlers and keeps files, R2 and tables. Contents are
sequences of chunks, and a digest stands for one content. The open of `AppendUpload`
is taken together with the size read before it: a file that disappears in between is
answered 404 either way. Manifest pushes and deletes appear as what they do to blobs
(`IndexBlob`, `ReleaseBlob`). push-op-count events are left out.

`SerialSessions` says that clients send the requests of one session one after the
other, and no earlier one is still running in the server. The OCI protocol asks this
of clients; the server does not enforce it, and a client that gives up on a PATCH
and retries it breaks it unknowingly. Under it, run `blob_upload` (two handlers, two
sessions, two blobs of which one is a prefix of the other, files of at most two
chunks, 427,306 states up to symmetry):

- `StoredMatchesDigest`: R2 never holds other bytes under a digest.
- `RowsAreStored`: an objects row, on the strength of which later uploads are
  dropped unread, is never ahead of R2, and its size is the object's.
- `AnsweredBlobsAreStored`, `BilledBlobsAreStored`: neither a 201 nor a charge
  without the blob.
- `AppendedWhereNamed`: a chunk with a Content-Range is at the offset it named,
  after any broken-off one.
- `FilesOutliveNoCopy`: a session file goes only when R2 has its content.
- `UploadRefinement`: the handlers implement `BlobStore`. The refinement does not look at
  contents and needs no `SerialSessions`: its theorem is proved without.

Two handlers are needed for the races on one digest, two sessions because each is
serial, two chunks for a body that breaks off in the middle. The run may stop when
all uuids are used and no handler runs, hence `CHECK_DEADLOCK FALSE`.

### UsageSummary

Time is a counter. An insert begins (`InsertUsageEvents` fixes `created_at`) and
commits or rolls back later. A summary takes the as-of when it is asked for, and then
reads counts, opening balance and deltas in separate steps; `Accrual` is the loop of
`calculateUsagePeriodSummary`, `PeriodValid` and `Opened` what it refuses before it. Months have equal length. `late` records that a row
older than the as-of became visible while the summary ran, `settled` that the month
was over and all inserts begun in it had ended when the summary was asked for; both
are history, used by the properties only. One clock is assumed: a skew between the
API's and PostgreSQL's acts like a late row. `InOrder` is the `ORDER BY` of
`ListUsageMetricDeltas`: the sequence of the instants that increases.

Run `usage_summary` (three events of +1, -1 byte or one push, months of two instants,
five instants, 607,459 states up to symmetry):

- `SummaryIsIntegral`: the area is the sum of the balance over the instants of the
  period, computed here by definition and there by the walk over grouped deltas.
- `RefusedOnlyIfNegative`: refused if and only if the balance was negative at some
  instant; events of one instant may come in any order.
- `ReportsAreFinal`: settled months do not change.
- `BalanceCarriesOver`: one month's closing balance is the next one's opening.

Three events are the least that give two rows at one instant and one elsewhere; five
instants give two months with a boundary and an instant of a third.

### TokenAuth

`registries`, `repositories`, `keys` and `scopes` are tables; a row deleted stays in
the model as dead, because tokens and handlers may still hold its id, and `revoked`
keeps with the time what left `api_key_scopes`. `revoked` and a token's `key`,
`registry` and `asked` are history, read by the properties only: the signed claims
hold the namespace, the grants and the times. A path is its namespace and its leaf,
as `registryNamespace` and `repoLeaf` cut it; a bare name is its own leaf.

A handler (`callers[c]`) is what a request holds between two queries. A key with chosen
scopes is resolved one scope at a time, each ensuring its repository
(`ResolveRegistryScope`, `ResolveRepositoryScope`), and inserted in one transaction
whose foreign keys refuse what went in between (`InsertAPIKey`). A token is asked for
(key and scopes: `authenticateRegistryBasic`; the scopes are not empty only if the key is
still there, so the two queries are one step), its registry read (`NameRegistry`), and
signed. A request is let through by the middleware and `ensureRepoAuthorized`, which
read nothing but the token and the clock, and finds its registry by name in a later
step; a manifest push then makes the repository. The worker lets pulls through by the
same rule and posts its namespace, which the ingest endpoint looks up
(`resolveRegistryIDForRepo` again). A handler may end at any point. Cryptography is
taken to work: a token is what the service signed, and the management API's tenant is
the caller's. `last_used_at`, which nothing decides on, is left out. One clock is assumed, the leeway standing for the skew.

Run `token_auth` (two tenants, two names, two registries, one repository with a path
and a bare path beside it, two keys, one handler, one token, a clock of three instants
with TTL and leeway of one each, 1,195,118 states up to symmetry):

- `GrantsAreRecent`: revocation does not reach a token, so the promise is the weaker
  one that what is let through is within TTL and leeway of the token's issue and rests
  on a scope of that key, for that registry, path and action, which the tables held at
  or after the moment the token was asked for.
- `ActsOnScopedRegistry`: the registry is known by id in the key's scopes, by name in
  the token, by id again where the request acts. While the key's registry is there the
  two ids are equal. After it is deleted and its name taken again they differ for as
  long as its last token is valid; neither code nor docs say what should happen then,
  and the property leaves it open.

One handler is enough there: requests share nothing but the tables and the tokens, and
the steps of management transactions interleave with it. One token is enough because no
action reads two. Three instants let a token be used before, at and after the end of its
life, with a scope revoked before, at and after its asking.

Run `key_scopes` (three keys, two registries, two repositories, up to two scopes a key,
no tokens, 288,791 states up to symmetry):

- `ScopesConsistent`: no scope without its live key, registry and repository, the
  repository in the registry, one row a target.
- `KeysNeverWiden`: what a key may do only shrinks. A scope goes with its repository, and
  a repository or registry made again under a name gives nothing to old keys.

Keys of more than one registry occur in this run and in the proofs, not in `token_auth`.

### Tenancy

`tenantOf` is `users.tenant_id`. The user of a token and the tenant that it names are
put there by every request (`GetOrCreateUser` in `authMiddleware`), so `tenantOf` moves
under a request that is being handled, while the request keeps the tenant and the
onboarded flag that it was given. One registry name and the keys that have the name or
the prefix of the seed's are enough for the seed to meet all it distinguishes; ids are
counted, so that a registry or key made again is another one. A key's `secret` is the
configured one if it decrypts, with the configured encryption key, to the configured
key; a run that finds its prefix with any other ends (`FindKey`). Each run of the seed
(`seeds[s]`) is at one of its statements. `strayed` records that a tenant was left
unmarked, or marked for another's registry, `promised` that a run has succeeded.

Run `accounts`, first half (a seeded user who signs in to a tenant of its own and to an
organization, a second user who may own the prefix, one dashboard request at a time, two
runs of the seed, one change by the dashboard, a restart or an error besides the runs'
own ones, every initial state that earlier configurations may have left, keys of the
prefix with another secret included):

- `OnboardedWithRegistry`: a tenant is marked if and only if a registry was made for it,
  by whichever of the two, or is about to be.
- `SeedKeepsItsPromise`: the key that a successful run announced stays, with its scope,
  until a user removes it or the registry; other runs never take it.
- `SeedsSucceed`: every run succeeds in the end, again and again, so the API starts,
  unless the prefix is taken (`PrefixTaken`).

Limits that the model showed: an organization switch between `authMiddleware` and
`SetUserOnboarded` marks the wrong tenant, and an error there leaves the right one
unmarked for good, because the retry meets 409; a run that still works for a registry
which was since removed and made again may take the key of the new one, until it is run
again (`OnlyFor`); a key of the prefix that is another user's, or has another secret, or
was written with another encryption key, stops the seed and with it the API for as long
as nobody removes it.

Fairness: `WF` of the steps of each run, because a deployment's init container is run
again until it succeeds and nothing in it waits. Nothing is assumed of the dashboard;
`MaxChanges` bounds how often it interferes, and one such change may come at any point
of either run. Two runs are the least that disturb each other.

### ConnectionPool

`taken` are the connections that are out, by handler; `handlers[h]` is at a statement. A
query outside a transaction needs a free connection at that moment; a transaction and an
open result set keep theirs. The size of a registry is known by the number of pushes
that made it, so that its age can be compared; `replacedAt` keeps when that was. The
clock of PostgreSQL and that of the API are taken as one. A push's key-share lock on the
registry row, which conflicts with `FOR UPDATE` only while a push is in its transaction,
is left out.

Run `accounts`, second half (two handlers, two connections, one key, two pushes, three
instants, a lifetime of one): 272,189 states together with the first half.

- `ConnectionsAccounted`: whatever a handler ends with, it has given back what it took.
- `SizeIsRecent`: a size that is answered was true when the request came or less than
  the lifetime before. `SizesNeverGoBack`: the cache never goes back to an older sum.
- `EveryoneIsAnswered`: every request ends, unless as many key lists as there are
  connections each wait for one more. This does happen: `ListAPIKeysByUser` asks for
  scopes while its rows are open, and then only clients that give up free the pool.

Fairness: `SF` of each handler's next step. `WF` would not do, since the step is
disabled while others have the connections or the row; pgxpool and PostgreSQL's row
locks serve those who wait in order. Nothing is assumed of clients that might give up.
Two connections and two handlers are the least with which a jam and a wait that is no
jam differ; three instants let a size be fresh, become stale, and be computed again.

No other run states fairness: uploads, pushes and tokens promise nothing that needs a
step to be taken in the end, and nothing in them waits for another handler.

## 3. Findings

Five runs check what a test or a comment of the repository says, and fail.

- `index_delete` / `TagsResolve`. Push an image with a tag, push an index that lists
  it, delete the index: the image leaves the repository, its tag stays. The tag then
  resolves and the digest it resolves to does not.
- `referrer_delete` / `DeleteTakesOnlyChildren`. Push an image by digest or with a tag,
  push a referrer of it (signature, SBOM), delete the referrer: the image goes too. The
  sweep of children selects subject edges as well, which the guard above it leaves out.
- `upload_overlap` / `StoredMatchesDigest`. With two requests in one session, a PATCH
  that appends between the hash and the second open of the file: R2 stores other bytes
  under the digest.
- `head_after_upload` / `UploadedBlobsAreFound`. HEAD of a blob answers 404 between its
  201 and the push of a manifest that names it; `tests/e2e/blob_upload_protocol.sh`
  expects 200.
- `key_registries` / `KeysHaveOneRegistry`. A key can be created with scopes in two
  registries, which `registryv2_auth.go:123` says it cannot. Its tokens are all for the
  registry that comes first, in an order that the code leaves open.

## 4. Proofs

`ManifestStoreProofs` proves, for any sets of registries, repositories, tags and
digests and any references between them, under the three assumptions of
`ManifestStore` and no other:

| theorem | of |
|---|---|
| `TypeCorrect` | `TypeOK` |
| `BlobsPresent` | `PresentManifestsHaveBlobs` |
| `NoBlobStranded` | `NoStrandedBlobs` |
| `RootTags` | `RootTagsResolve` |
| `SurvivorsKeep` | `SurvivorsKeepReferences` |
| `Refinement` | `CatalogRefinement` |

The argument. `TypeOK` is inductive by itself. None of the others is: that a delete
keeps a layer rests on the surviving manifest's graph rows being there, and nothing in
`PresentManifestsHaveBlobs` says so. `IndexConsistent` does: every body has its edges
and every edge the body it comes from (and leads to what that body refers to), a subject row names the parent's subject, types follow kinds,
and repositories list only digests with a row. It is inductive with `TypeOK`
(`Consistent`). The lemmas about a delete then rest on it alone: `DeleteEffect` names
what it leaves (`Left`), `DeleteKeepsPins` that this contains all that its manifests
pin, `DeleteStrandsNoBlob` and `DeleteKeepsRoots` the like for blobs and roots. The
invariants are combined from these, one step per action; `SurvivorsKeep` and
`Refinement` prove one step of the specification under `TypeOK` and `IndexConsistent`
and conclude with temporal logic. In `Refinement`, `DeleteRemoves` gives the witnesses
for `Catalog!Remove`, and actions that change neither `repository_objects` nor tags
are stutters.

`TokenAuthProofs` proves, for any sets of tenants, registries, repositories, keys and
handlers, any TTL, leeway, access lists and values of the bounds, under `TokenAssumption`
and `RowAssumption` (sentinels are no ids and no rows, paths have one or two parts):

| theorem | of |
|---|---|
| `TypeCorrect` | `TypeOK` |
| `GrantsRecent` | `GrantsAreRecent` |
| `ScopesAreConsistent` | `ScopesConsistent` |
| `NeverWiden` | `KeysNeverWiden` |
| `ActsOnScoped` | `ActsOnScopedRegistry` |

The argument. `StepKeeps` says what no step undoes: rows keep their names and do not
come back to life, what leaves `api_key_scopes` leaves a trace of that time, the clock
does not go back. Each property then has an inductive invariant of its own. `GrantInv`
follows a grant back through the token to the rows the handler had read and to the
table; a row once held covers later what it covered then, because names stay
(`CoverStays`). `ScopeInv` adds to `ScopesConsistent` what it needs of the targets that
handlers are still resolving. `NameInv` says that live names are unique, that the name in
a token is the one its registry has or had, and that requests stay in the namespace of
their token; that the registry found is the right one follows, and stays so because a
dead registry does not revive. `NeverWiden` is proved of one step, from `TypeOK` and
`ScopeInv`. `HandlerMoves`, `ResolvingMoves`, `NewTokens`, `NewRows` and `RegistryMoves`
name, for a part of the state, the actions that change it, so that the invariants are
proved by cases over these alone.

`BlobUploadProofs` proves, for any number of handlers, sessions, repositories, blobs and
chunks and any contents of the blobs, under the assumptions of `BlobUpload`:

| theorem | of | if |
|---|---|---|
| `TypeCorrect` | `TypeOK` | |
| `StoreIsSound` | `StoredMatchesDigest` | `SerialSessions` |
| `RowsAreSound` | `RowsAreStored` | `SerialSessions` |
| `AnswersAreSound` | `AnsweredBlobsAreStored` | `SerialSessions` |
| `BillsAreSound` | `BilledBlobsAreStored` | `SerialSessions` |
| `FilesAreNotLost` | `FilesOutliveNoCopy` | `SerialSessions` |
| `ChunksLandWhereNamed` | `AppendedWhereNamed` | `SerialSessions` |
| `UploadsRefine` | `UploadRefinement` | |
| `StoreBeginsRight` | (R2 holds under a digest at least its content) | |
| `RecordsAreSound` | (rows, lists, 201 answers and bills are of blobs in R2) | |

The argument. That R2 is right rests on what a handler believes between two accesses:
that the file it hashed is still what it was (`FileHashed`), and that the blob it is
about to record is in R2 with that size (`BlobKept`). The first is true because no other
request is in that session (`OneRequestASession`), the second because what is in R2
under a digest is only ever overwritten with the same. `Promises` joins the two with the
properties, for rows and bills strengthened to name the content; it is inductive with
`TypeOK`, `RequestsOK` (which step has a digest, which a session) and
`OneRequestASession`. `SessionStep` and `PromisesStep` have one step per action, and
`FilesAreNotLost` is proved of one step from the three. `ChunksLandWhereNamed` has an
invariant of its own, `Appended`: while a body that named its offset arrives, the file is
as long as that offset and what was sent of the body together, and ends with what was
sent. Appending one chunk keeps it, and the other requests do not touch that file because
one request uses a session (`AppendedKept`); `EndsWithSent` turns the two facts, length
and positions, into the equation of sequences that the property states.

The last three say what is left when clients do overlap their requests, as in the run
`upload_overlap`. What was hashed may then have grown, or be gone, but still begins with
what was hashed (`FileBegins`), because a session file is only ever appended to or removed
(`FilesGoOn`); so what is put to R2 begins with the content of its digest (`BeginsStep`), and a
handler that is past its put still records a blob that is there (`BlobThere`). `Remains`
joins the two, is inductive with `TypeOK` and `RequestsOK`, and `UploadsRefine` is proved of
one step from it: `StoreStep` gives for each action what it adds to R2 and to the rows.

`ConnectionPoolProofs` proves, for any number of handlers, connections, keys, pushes and
any lifetime, under `PoolAssumption`:

| theorem | of |
|---|---|
| `TypeCorrect` | `PoolTypeOK` |
| `ConnectionsAreAccounted` | `ConnectionsAccounted` |
| `SizeRecent` | `SizeIsRecent` |
| `SizesNeverBack` | `SizesNeverGoBack` |
| `NobodyStandsStill` | (the safety half of `EveryoneIsAnswered`) |

The argument. Who holds connections follows from the steps alone, so
`ConnectionsAccounted` is inductive with the types. For the sizes the invariant adds
that at most one handler is past the row lock, that the sum it has read is at least the
cached one, and that the cached size was true at some moment not before the time it is
stamped with; a request that finds the cache fresh has begun no earlier than that lifetime
allows. `NobodyStandsStill` says that while a request is under way somebody's next step has
its guards true (`CanProceed` writes them out), unless the pool is `Jammed`. If nobody can go
on, no connection is free and nobody is past the row lock, so every connection is held by a
key list that wants a second one (`AllStuck`); that there are then as many such lists as
connections is counted with the cardinality theorems of the library. That a step which stays
possible is taken in the end is fairness, and stays with TLC.

`TenancyProofs` proves, for any number of users, tenants, requests, runs of the seed and
changes, under `TenancyAssumption`:

| theorem | of |
|---|---|
| `TypeCorrect` | `TenancyTypeOK` |
| `PromiseHolds` | `SeedKeepsItsPromise` |
| `OnboardedHolds` | `OnboardedWithRegistry` |

The argument. `Consistent` adds to the types what a request or a run has been told and
still relies on (`RequestKnows`, `SeedKnows`): that the tenant it was given is marked,
that the tenant of its registry has had one, that the key it is to replace is the
configured one with another name or scope, and that those it is to clear have another
prefix. `Stays` says what no step undoes, from which this stays true of everybody who
does not move: marks stay, ids are not used again, and a key only ever loses its scope.
For `PromiseHolds` the invariant adds that every run that is not over works for the
registry that is there (`OneRegistry`), so that the promised key is neither one to
replace nor one to clear. For `OnboardedHolds`, `StillMarking` says of a step that who
was to mark a tenant still is, or has done it, or is known to have missed it.

`RegistryServerProofs` and `RegistryBillingProofs` prove, for any number of handlers,
tenants, registries, repositories, tags and digests, any references between manifests
and any number of requests, under the assumptions of `ManifestStore` and
`ServerAssumption` (whose `IsFiniteSet(Request)`, finitely many handlers at a time, only
`NoDeadlock`, `Billing` and `BalancesBounded` need), and `NoDeadlock` under
`HashesAssumption`:

| theorem | of |
|---|---|
| `ServerTypeCorrect` | `ServerTypeOK` |
| `Whole` | `WholeUnlessDisturbed` |
| `Tidy` | `TidyUnlessDisturbed` |
| `CatalogKept` | `CatalogUnlessDisturbed` |
| `NoDeadlock` | `NoCircularWait` |
| `EveryStepAdvances` | (no step of a handler repeats itself or goes back) |
| `ServerKeepsBlobs` | `BlobRefinement` |
| `PullsFindBytes` | (what a repository lists or a tag names, PostgreSQL or R2 has the bytes of) |
| `TablesAgree` | (`IndexConsistent`, for interleaved statements) |
| `Billing` | `BillFollowsHoldings` |
| `BalancesBounded` | (no negative balance and no double bill, but for the named cases) |

The argument. Each property speaks of the tables, and each handler acts on what it read
some statements ago; the invariant therefore says of every step what the handler that is
there knows. `PutKnows` and `OtherKnows` are about what never goes (bodies, objects
rows). `PutHolds` and `DeleteHolds` are about one repository, if it is undisturbed: the
children found are there, what is not yet in `rows` is in `todo`; no manifest that stays
pins what the delete has taken, and once the blobs are swept all that stay have a
manifest that stays. `Alone` is why this survives the steps of others: a handler that
runs beside a delete has put the pair of repositories in `overlaps`. `Grow` and `Spares`
say what no step does: objects, graph rows and overlaps only grow, and a step leaves a
handler of an undisturbed repository its rows. `HandlersHold`, `TablesHold` and
`GoodHolds` combine one lemma per action. `CatalogKept` is then proved of one step, from
the witnesses that `PutHolds` and `DeleteHolds` give at commit for `Catalog!Push` and
`Catalog!Remove`.

`NoDeadlock` takes any set of handlers and drops each of which waits for one of the set.
`CirclesEnd` looks at deletes that wait for handlers only. Those past their sweeps wait
for nobody. Those that sweep blobs need blobs, and these are taken only by the former
(`Taken` says what a delete has taken by each step). Those that sweep children wait for
the digest of another such delete, which their own digest refers to (`IndexConsistent`);
as digests do not refer in a circle, there are none. Then nobody is left who has a row
that a `DeleteRow` needs, and then nobody with a tag. So in a circle, for every delete some
delete in the same repository waits for a drop, which then has all its repositories, this
one among them (`OneWaitsForDrop`), and waits for a delete in one of
them (`DropWaitsForDelete`); of that one's repository some delete waits for a drop in turn,
the same one, since no two drops have the same repository. A circle without a delete there
is not (`CirclesHaveDeletes`): open pushes then wait for nobody, drops only for those, and
the rest for both. Both rest on `DropsOK`: drops hold disjoint things, take tags and rows
only with all repositories in hand, and no repository in which a push is open.

`EveryStepAdvances` is about the end of a request, without fairness: the steps are ordered
(`Follows`), and a step answers, goes to a later one, or stays and has one digest less to
treat (`Onward`, one lemma per kind of request).

`ServerKeepsBlobs`, `PullsFindBytes` and `TablesAgree` hold of every order, overlapping deletes
included: what an overlap breaks is what a repository lists, never what the lists rest on.
`BlobsThere` is the invariant: R2 has each blob with an objects row, and each that a push is
about to give one. Nothing takes bytes or rows away, so a push that commits long after it
asked R2 still lists what is there (`EveryStepStores`, by cases over the steps named in
`StoreStep`).

For the bill, an upload that is about to charge either is excused or its tenant does not
have the blob (`Charges`; it is kept because what a tenant comes to hold under such an
upload is excused). `BillInv` then strengthens the property: what is awaited is not held yet
(`NotYet`), the blobs among a delete's rows are those of its last sweep (`RowsKnown`),
and at commit its `todo` are exactly those that the tenant will then have nowhere
(`LeaveKnows`). The last is read over all repositories of the tenant, so it lasts
only if nobody changes any of them: `NothingChanges` proves this of a tenant none of
whose deletes overlapped (`Apart`). A commit moves one from the holdings to those that
credit, an event one from these to the ledger. `BalancesBounded` reads off what the
equation means for one blob of one tenant: the balance is at least zero, and with no credit
under way it is one or zero.

`UsageSummaryProofs` proves, for any events, values, number of instants and length of
months, under `UsageAssumption` alone:

| theorem | of |
|---|---|
| `Typed` | `TypeOK` |
| `WalkIntegrates` | (any balance, see below) |
| `Integral` | `SummaryIsIntegral` |
| `RefusedRightly` | `RefusedOnlyIfNegative` |
| `CarriesOver` | `BalanceCarriesOver` |
| `ReportsFinal` | `ReportsAreFinal` |

The argument has two halves. The first is about data, with no state in it. Sums and sorted
sequences need induction, which the provers do not instantiate for a formula; it is
therefore stated for the *set* of the numbers or finite sets that have the property
(`NumberInduction`, `SetInduction`), from the well-foundedness theorems of the library. By
it `RoundsEnd` shows that the recursion in the fold behind `SumFunction` has a solution,
`SumExists` and `SumFunctionIs` that it is the sum (`IsSum`: nothing over the empty set,
and one element can be taken out at a time), `SumOfParts` and `SumOfConstant` what a sum
over a union and over a constant is, `InOrderLists` that `InOrder` lists a finite set, and
`AccrualLoops` that the loop of `calculateUsagePeriodSummary` does what its body does, round
after round. `WalkIntegrates` is then an induction along this loop: for any balance over time
that changes only at the deltas and by them (`Balance`), the walk ends with the last balance,
with the sum of the balances over the instants of the period, and with an error exactly if
one of them was negative. Its invariant is `Walked`; `BalanceStays` says that nothing changes
between two deltas, `StretchArea` that the rectangle between them is the sum over its
instants. `QueriesBalance` shows that the opening balance and the grouped deltas that the
queries return describe `BytesAt`, and `SummaryIs` joins the two.

The second half is about interleavings. `UsageInv` says that rows are typed and finitely
many though ids are not (`LedgerOK`), that a request that is not late has read at each step
what its queries would return now (`RequestCurrent`, `ReadsNow`), that a month a request
found settled still is (`RequestSettled`), and that each report is what its month reports
now (`ReportsCurrent`). It is inductive because rows older than an instant stay as they are
unless the commit of such a row makes the request late (`RowsKept`, `QueriesStep`), and
because in a settled month no such row is open and new ones are dated now (`SettledStep`).
Every property then follows for the rows as they are now: `Integral` and `RefusedRightly`
from `SummaryIs`, `ReportsFinal` because two reports of a month are both `ReportOf` it, and
`CarriesOver` because the balance at the last instant of a month is the sum of the rows
before the next one.

Only model-checked: the two liveness properties (`SeedsSucceed`; `EveryoneIsAnswered`,
whose safety half is `NobodyStandsStill`), because the prover has neither `ENABLED` nor
fairness. Every other property of a passing run is a theorem.

## 5. Not modelled, and what could come next

1. Digests that are stored both as a blob and as a manifest (`KindsAssumption`).
2. The unused collection of objects (`ListUnreferencedObjectDigests`, `DeleteObject`):
   it has no caller, so there is no order of its steps to check.
3. The pull worker's reads, and the proxying of manifests to the API; both change
   nothing. Migrations and the cleaning of the bucket, which run alone.

Left out for good: cryptographic primitives and key formats, HTTP and JSON parsing,
name syntax, pagination, money arithmetic and formatting, the UI, and start-up code:
they keep no state that the properties speak about. `organizations.go` has no callers.
Session files of abandoned uploads are never removed by the code; there is no bound to
check.
