--------------------------- MODULE ManifestStore ---------------------------
(***************************************************************************)
(* The registry index of bin2: the PostgreSQL tables that internal/db      *)
(* keeps for manifests, blobs, repositories and tags, with one action per  *)
(* exported method that writes them.  Each method runs in one transaction, *)
(* modelled here as one step; RegistryServer takes them apart.             *)
(***************************************************************************)
EXTENDS FiniteSets

CONSTANTS
    Registry,   \* registry names (rows are unique by name, ids never reused)
    Repo,       \* repositories, each a (registry, name) pair
    RegistryOf, \* the registry of a repository
    Tag,        \* tag names
    Blob,       \* digests of configs and layers, uploaded through /blobs/
    Manifest,   \* digests of manifests and indexes, pushed through /manifests/
    BlobRefs,   \* config and layers a manifest names
    ChildRefs,  \* manifests an index names
    Subject,    \* subject a manifest names, or NoDigest
    NoDigest,   \* no subject, no tag row
    NoTag       \* a push by digest alone

Digest == Blob \cup Manifest

\* What a body says is fixed by its digest.
ASSUME BodiesAssumption ==
    /\ BlobRefs \in [Manifest -> SUBSET Blob]
    /\ ChildRefs \in [Manifest -> SUBSET Digest]
    /\ Subject \in [Manifest -> Digest \cup {NoDigest}]
    /\ NoDigest \notin Digest

\* No client stores the same bytes both as a blob and as a manifest; the README
\* says what the object type does when one does.
ASSUME KindsAssumption == Blob \cap Manifest = {}

ASSUME NamesAssumption ==
    /\ RegistryOf \in [Repo -> Registry]
    /\ NoTag \notin Tag

VARIABLES
    registries,   \* rows of registries
    repositories, \* rows of repositories
    objects,      \* objects.type by digest, "absent" when there is no row
    bodies,       \* the objects whose body column is set
    graph,        \* <<parent_digest, child_digest>> rows of graph
    subjects,     \* the rows of graph with is_subject
    repoObjects,  \* repository_objects, by repository
    tags          \* tags, by repository and name

vars == <<registries, repositories, objects, bodies, graph, subjects,
          repoObjects, tags>>

ManifestTypes == {"manifest", "manifest_index"}
ObjectTypes == ManifestTypes \cup {"blob"}

\* The type invariant: every column keeps to its domain.
TypeOK ==
    /\ registries \in SUBSET Registry
    /\ repositories \in SUBSET Repo
    /\ objects \in [Digest -> ObjectTypes \cup {"absent"}]
    /\ bodies \in SUBSET Manifest
    /\ graph \in SUBSET (Digest \X Digest)
    /\ subjects \in SUBSET graph
    /\ repoObjects \in [Repo -> SUBSET Digest]
    /\ tags \in [Repo -> [Tag -> Manifest \cup {NoDigest}]]

Init ==
    /\ registries = {}
    /\ repositories = {}
    /\ objects = [d \in Digest |-> "absent"]
    /\ bodies = {}
    /\ graph = {}
    /\ subjects = {}
    /\ repoObjects = [r \in Repo |-> {}]
    /\ tags = [r \in Repo |-> [t \in Tag |-> NoDigest]]

-----------------------------------------------------------------------------
(* Registries and repositories *)

AddRegistry(g) ==
    /\ g \notin registries
    /\ registries' = registries \cup {g}
    /\ UNCHANGED <<repositories, objects, bodies, graph, subjects,
                   repoObjects, tags>>

\* ON DELETE CASCADE from repositories to repository_objects and tags.
DropRepositories(R) ==
    /\ repositories' = repositories \ R
    /\ repoObjects' = [r \in Repo |-> IF r \in R THEN {} ELSE repoObjects[r]]
    /\ tags' = [r \in Repo |->
                  IF r \in R THEN [t \in Tag |-> NoDigest] ELSE tags[r]]
    /\ UNCHANGED <<objects, bodies, graph, subjects>>

DeleteRegistryByIDAndOrg(g) ==
    /\ g \in registries
    /\ registries' = registries \ {g}
    /\ DropRepositories({r \in Repo : RegistryOf[r] = g})

EnsureRegistryRepository(r) ==
    /\ RegistryOf[r] \in registries
    /\ repositories' = repositories \cup {r}
    /\ UNCHANGED <<registries, objects, bodies, graph, subjects,
                   repoObjects, tags>>

DeleteRepositoryByIDAndRegistryID(r) ==
    /\ r \in repositories
    /\ DropRepositories({r})
    /\ UNCHANGED registries

-----------------------------------------------------------------------------
(* Pushes *)

UpsertObjectBlob(b) ==
    /\ objects' = [objects EXCEPT ![b] = IF @ = "absent" THEN "blob" ELSE @]
    /\ UNCHANGED <<registries, repositories, bodies, graph, subjects,
                   repoObjects, tags>>

Refs(m) == BlobRefs[m] \cup ChildRefs[m]

\* Mutant: an object that arrives without a type.
ObjectTypeUnset(m) == ""

ObjectType(m) == IF ChildRefs[m] = {} THEN "manifest" ELSE "manifest_index"

Edges(m) == {<<m, d>> : d \in Refs(m)}

\* Mutant: a subject row whether or not there is a subject.
SubjectEdgesUnchecked(m) == {<<m, Subject[m]>>}

\* The subject edge exists only if the subject has an objects row by now.
SubjectEdges(m) ==
    {<<m, s>> : s \in {d \in Digest : d = Subject[m] /\ objects[d] # "absent"}}

\* A row whose registry or whose referenced objects are missing fails a foreign
\* key, and the whole transaction rolls back.
UpsertManifest(r, m, t) ==
    /\ RegistryOf[r] \in registries
    /\ \A d \in Refs(m) : objects[d] # "absent"
    /\ repositories' = repositories \cup {r}
    /\ objects' = [objects EXCEPT ![m] = IF @ = "absent" THEN ObjectType(m) ELSE @]
    /\ bodies' = bodies \cup {m}
    /\ repoObjects' = [repoObjects EXCEPT ![r] = @ \cup {m} \cup BlobRefs[m]]
    /\ tags' = [tags EXCEPT ![r] =
                  [u \in Tag |-> IF u = t THEN m ELSE tags[r][u]]]
    /\ graph' = graph \cup Edges(m) \cup SubjectEdges(m)
    /\ subjects' = subjects \cup SubjectEdges(m)
    /\ UNCHANGED registries

-----------------------------------------------------------------------------
(* Deletes *)

DeleteManifestReference(r, t) ==
    /\ r \in repositories
    /\ tags[r][t] # NoDigest
    /\ tags' = [tags EXCEPT ![r][t] = NoDigest]
    /\ UNCHANGED <<registries, repositories, objects, bodies, graph, subjects,
                   repoObjects>>

\* Mutant: the parent check left out.
HasParentUnchecked(r, d) == FALSE

\* Refused with ErrManifestHasParent.
HasParent(r, d) == \E p \in repoObjects[r] : <<p, d>> \in graph \ subjects

\* d has a parent row, of either kind, among the digests of S.
Referenced(d, S) == \E p \in S : <<p, d>> \in graph

\* Mutant: children go even when another index of the repository lists them.
OrphanChildManifestsOfAnyIndex(r, d) ==
    {c \in repoObjects[r] \ {d} : <<d, c>> \in graph /\ objects[c] \in ManifestTypes}

\* Mutant: what refers to d goes as well as what it refers to.
OrphanRelatives(r, d) ==
    LET present == repoObjects[r] \ {d}
    IN  {c \in present : /\ {<<d, c>>, <<c, d>>} \cap graph # {}
                         /\ objects[c] \in ManifestTypes
                         /\ ~Referenced(c, present)}

\* The children of d typed as manifests that nothing left in the repository refers to.
OrphanChildManifests(r, d) ==
    LET present == repoObjects[r] \ {d}
    IN  {c \in present : /\ <<d, c>> \in graph
                         /\ objects[c] \in ManifestTypes
                         /\ ~Referenced(c, present)}

\* Mutant: shared layers go with the first image deleted.
OrphanBlobsShared(deleted, kept) ==
    {b \in kept : objects[b] = "blob" /\ Referenced(b, deleted)}

\* Mutant: parents count wherever they are, not only in this repository.
OrphanBlobsAnywhere(deleted, kept) ==
    {b \in kept : /\ objects[b] = "blob"
                  /\ Referenced(b, deleted)
                  /\ ~Referenced(b, Digest)}

\* The blobs of the deleted manifests that nothing in kept refers to.
OrphanBlobs(deleted, kept) ==
    {b \in kept : /\ objects[b] = "blob"
                  /\ Referenced(b, deleted)
                  /\ ~Referenced(b, kept)}

\* Mutant: of several tags at the digest, one is removed.
TagsWithoutOne(r, d) ==
    LET its == {t \in Tag : tags[r][t] = d}
    IN  [t \in Tag |-> IF its # {} /\ t = CHOOSE u \in its : TRUE THEN NoDigest ELSE tags[r][t]]

\* All tags pointing at the digest are removed.
TagsWithout(r, d) ==
    [t \in Tag |-> IF tags[r][t] = d THEN NoDigest ELSE tags[r][t]]

DeleteManifestByDigestInRepository(r, d) ==
    /\ r \in repositories
    /\ ~HasParent(r, d)
    /\ d \in repoObjects[r]
    /\ tags' = [tags EXCEPT ![r] = TagsWithout(r, d)]
    /\ LET deleted == {d} \cup OrphanChildManifests(r, d)
           kept    == repoObjects[r] \ deleted
       IN  repoObjects' = [repoObjects EXCEPT ![r] =
                             kept \ OrphanBlobs(deleted, kept)]
    /\ UNCHANGED <<registries, repositories, objects, bodies, graph, subjects>>

-----------------------------------------------------------------------------

Next ==
    \/ \E g \in Registry : AddRegistry(g) \/ DeleteRegistryByIDAndOrg(g)
    \/ \E r \in Repo : \/ EnsureRegistryRepository(r)
                       \/ DeleteRepositoryByIDAndRegistryID(r)
    \/ \E b \in Blob : UpsertObjectBlob(b)
    \/ \E r \in Repo, m \in Manifest, t \in Tag \cup {NoTag} :
          UpsertManifest(r, m, t)
    \/ \E r \in Repo, t \in Tag : DeleteManifestReference(r, t)
    \/ \E r \in Repo, d \in Digest : DeleteManifestByDigestInRepository(r, d)

Spec == Init /\ [][Next]_vars

-----------------------------------------------------------------------------
(* Properties *)

\* What a pushed manifest refers to by rows that are not subject rows.
Pins(m) == Refs(m) \ {Subject[m]}

\* A manifest that is present in a repository has its config and layers there
\* too: HEAD of each answers 200 as long as the manifest can be pulled, whatever
\* other manifests sharing those layers were deleted in between.
PresentManifestsHaveBlobs ==
    \A r \in Repo : \A m \in repoObjects[r] \cap Manifest :
        BlobRefs[m] \cap Pins(m) \subseteq repoObjects[r]

\* A blob row outlives no manifest: every blob of a repository is a child of a
\* manifest present there, so deleting the last one releases the storage.
NoStrandedBlobs ==
    \A r \in Repo : \A b \in repoObjects[r] \cap Blob :
        Referenced(b, repoObjects[r] \cap Manifest)

\* A tag whose manifest no index and no referrer ever pointed at resolves, by tag
\* and by the digest that HEAD of the tag returns.
RootTagsResolve ==
    \A r \in Repo, t \in Tag :
        tags[r][t] \in Digest /\ ~Referenced(tags[r][t], Digest)
            => tags[r][t] \in repoObjects[r]

\* No delete takes from a repository anything that a manifest staying in it pins.
SurvivorsKeepReferences ==
    [][\A r \in Repo : \A m \in repoObjects[r] \cap repoObjects'[r] \cap Manifest :
          Pins(m) \cap repoObjects[r] \subseteq repoObjects'[r]]_vars

\* The tables implement the catalogue clients see.
Catalog == INSTANCE RepoCatalog WITH
    images    <- [r \in Repo |-> repoObjects[r] \cap Manifest],
    available <- [r \in Repo |-> repoObjects[r] \cap Blob],
    names     <- tags

CatalogRefinement == Catalog!CatalogSpec

\* Why the properties above hold: bodies, types and graph rows agree, and
\* repository_objects lists only digests that have an objects row.
IndexConsistent ==
    /\ \A m \in bodies : Edges(m) \subseteq graph
    /\ \A p \in Digest, c \in Digest : <<p, c>> \in graph => p \in bodies /\ c \in Refs(p) \cup {Subject[p]}
    /\ \A p \in Digest, c \in Digest : <<p, c>> \in subjects => c = Subject[p]
    /\ \A m \in Manifest : objects[m] # "blob" /\ (objects[m] = "absent" <=> m \notin bodies)
    /\ \A b \in Blob : objects[b] \in {"blob", "absent"}
    /\ \A r \in Repo : \A d \in repoObjects[r] : objects[d] # "absent"

\* What the round-trip test expects of every tag (not so: see the README): the
\* digest that HEAD of a tag returns is itself found by HEAD.
TagsResolve ==
    \A r \in Repo, t \in Tag :
        tags[r][t] \in Digest => tags[r][t] \in repoObjects[r]

\* What the delete transaction's comments expect of it (not so: see the README):
\* deleting a manifest takes with it manifests it lists as children, and no other.
DeleteTakesOnlyChildren ==
    [][\A r \in Repo, d \in Manifest :
          DeleteManifestByDigestInRepository(r, d) =>
             (repoObjects[r] \ repoObjects'[r]) \cap Manifest
                \subseteq {d} \cup ChildRefs[d]]_vars

=============================================================================
