------------------------ MODULE ManifestStoreProofs ------------------------
(***************************************************************************)
(* Proofs about ManifestStore, for every set of repositories, tags, blobs  *)
(* and manifests and whatever the manifests refer to.                      *)
(***************************************************************************)
EXTENDS ManifestStore, TLAPS

USE DEF Digest, ManifestTypes, ObjectTypes

\* What the delete transaction leaves in the repository.
Deleted(r, d) == {d} \cup OrphanChildManifests(r, d)
Kept(r, d) == repoObjects[r] \ Deleted(r, d)
Left(r, d) == Kept(r, d) \ OrphanBlobs(Deleted(r, d), Kept(r, d))

-----------------------------------------------------------------------------
(* Type correctness *)

\* Every column keeps to its domain under every method of internal/db.
THEOREM TypeCorrect == Spec => []TypeOK
<1>1. Init => TypeOK
  BY DEF Init, TypeOK
<1>2. TypeOK /\ [Next]_vars => TypeOK'
  <2> SUFFICES ASSUME TypeOK, [Next]_vars PROVE TypeOK'
    OBVIOUS
  <2> USE DEF TypeOK
  <2>1. ASSUME NEW g \in Registry, AddRegistry(g) PROVE TypeOK'
    BY <2>1 DEF AddRegistry
  <2>2. ASSUME NEW g \in Registry, DeleteRegistryByIDAndOrg(g) PROVE TypeOK'
    BY <2>2 DEF DeleteRegistryByIDAndOrg, DropRepositories
  <2>3. ASSUME NEW r \in Repo, EnsureRegistryRepository(r) PROVE TypeOK'
    BY <2>3 DEF EnsureRegistryRepository
  <2>4. ASSUME NEW r \in Repo, DeleteRepositoryByIDAndRegistryID(r) PROVE TypeOK'
    BY <2>4 DEF DeleteRepositoryByIDAndRegistryID, DropRepositories
  <2>5. ASSUME NEW b \in Blob, UpsertObjectBlob(b) PROVE TypeOK'
    BY <2>5 DEF UpsertObjectBlob
  <2>6. ASSUME NEW r \in Repo, NEW m \in Manifest, NEW t \in Tag \cup {NoTag},
               UpsertManifest(r, m, t)
        PROVE TypeOK'
    <3>1. BlobRefs[m] \subseteq Blob /\ Refs(m) \subseteq Digest
      BY BodiesAssumption DEF Refs
    <3>2. Edges(m) \subseteq Digest \X Digest /\ SubjectEdges(m) \subseteq Digest \X Digest
      BY <3>1 DEF Edges, SubjectEdges
    <3>3. ObjectType(m) \in ManifestTypes
      BY DEF ObjectType
    <3>4. objects' \in [Digest -> ObjectTypes \cup {"absent"}]
      BY <2>6, <3>3 DEF UpsertManifest
    <3>5. tags' \in [Repo -> [Tag -> Manifest \cup {NoDigest}]]
      BY <2>6 DEF UpsertManifest
    <3>6. repoObjects' \in [Repo -> SUBSET Digest]
      BY <2>6, <3>1 DEF UpsertManifest
    <3>7. graph' \in SUBSET (Digest \X Digest) /\ subjects' \in SUBSET graph'
      BY <2>6, <3>2 DEF UpsertManifest
    <3>8. QED
      BY <2>6, <3>4, <3>5, <3>6, <3>7 DEF UpsertManifest
  <2>7. ASSUME NEW r \in Repo, NEW t \in Tag, DeleteManifestReference(r, t)
        PROVE TypeOK'
    BY <2>7 DEF DeleteManifestReference
  <2>8. ASSUME NEW r \in Repo, NEW d \in Digest, DeleteManifestByDigestInRepository(r, d)
        PROVE TypeOK'
    <3>1. tags' \in [Repo -> [Tag -> Manifest \cup {NoDigest}]]
      BY <2>8 DEF DeleteManifestByDigestInRepository, TagsWithout
    <3>2. repoObjects' = [repoObjects EXCEPT ![r] = Left(r, d)]
      BY <2>8 DEF DeleteManifestByDigestInRepository, Left, Kept, Deleted
    <3>3. Left(r, d) \subseteq Digest
      BY DEF Left, Kept
    <3>4. repoObjects' \in [Repo -> SUBSET Digest]
      BY <3>2, <3>3
    <3>5. QED
      BY <2>8, <3>1, <3>4 DEF DeleteManifestByDigestInRepository
  <2>9. CASE UNCHANGED vars
    BY <2>9 DEF vars
  <2>10. QED
    BY <2>1, <2>2, <2>3, <2>4, <2>5, <2>6, <2>7, <2>8, <2>9 DEF Next
<1>3. QED
  BY <1>1, <1>2, PTL DEF Spec

-----------------------------------------------------------------------------
(* The columns agree *)

\* The delete transaction only shrinks repository_objects, and leaves the
\* columns that IndexConsistent relates alone.
LEMMA DeleteEffect ==
    ASSUME TypeOK, NEW r \in Repo, NEW d \in Digest,
           DeleteManifestByDigestInRepository(r, d)
    PROVE  /\ repoObjects' = [repoObjects EXCEPT ![r] = Left(r, d)]
           /\ Left(r, d) \subseteq repoObjects[r]
           /\ UNCHANGED <<objects, bodies, graph, subjects>>
BY DEF DeleteManifestByDigestInRepository, Left, Kept, Deleted, TypeOK

\* What a push changes.
LEMMA UpsertEffect ==
    ASSUME TypeOK, NEW r \in Repo, NEW m \in Manifest, NEW t \in Tag \cup {NoTag},
           UpsertManifest(r, m, t)
    PROVE  /\ bodies' = bodies \cup {m}
           /\ repoObjects' = [repoObjects EXCEPT ![r] = @ \cup {m} \cup BlobRefs[m]]
           /\ graph' = graph \cup Edges(m) \cup SubjectEdges(m)
           /\ subjects' = subjects \cup SubjectEdges(m)
           /\ objects'[m] = IF objects[m] = "absent" THEN ObjectType(m) ELSE objects[m]
           /\ ObjectType(m) \in ManifestTypes
           /\ \A d \in Digest \ {m} : objects'[d] = objects[d]
           /\ \A b \in BlobRefs[m] : objects[b] # "absent"
           /\ BlobRefs[m] \subseteq Blob
BY BodiesAssumption DEF UpsertManifest, TypeOK, ObjectType, Refs

LEMMA Consistent == Spec => []IndexConsistent
<1>1. Init => IndexConsistent
  BY KindsAssumption DEF Init, IndexConsistent
<1>2. TypeOK /\ IndexConsistent /\ [Next]_vars => IndexConsistent'
  <2> SUFFICES ASSUME TypeOK, IndexConsistent, [Next]_vars PROVE IndexConsistent'
    OBVIOUS
  <2>1. ASSUME NEW g \in Registry, AddRegistry(g) PROVE IndexConsistent'
    BY <2>1 DEF AddRegistry, IndexConsistent, Edges
  <2>2. ASSUME NEW g \in Registry, DeleteRegistryByIDAndOrg(g) PROVE IndexConsistent'
    BY <2>2 DEF DeleteRegistryByIDAndOrg, DropRepositories, IndexConsistent, Edges
  <2>3. ASSUME NEW r \in Repo, EnsureRegistryRepository(r) PROVE IndexConsistent'
    BY <2>3 DEF EnsureRegistryRepository, IndexConsistent, Edges
  <2>4. ASSUME NEW r \in Repo, DeleteRepositoryByIDAndRegistryID(r) PROVE IndexConsistent'
    BY <2>4 DEF DeleteRepositoryByIDAndRegistryID, DropRepositories, IndexConsistent, Edges
  <2>5. ASSUME NEW b \in Blob, UpsertObjectBlob(b) PROVE IndexConsistent'
    BY <2>5, KindsAssumption DEF UpsertObjectBlob, IndexConsistent, Edges, TypeOK
  <2>6. ASSUME NEW r \in Repo, NEW m \in Manifest, NEW t \in Tag \cup {NoTag},
               UpsertManifest(r, m, t)
        PROVE IndexConsistent'
    <3>1. \A n \in bodies' : Edges(n) \subseteq graph'
      BY <2>6, UpsertEffect DEF IndexConsistent
    <3>2. \A p \in Digest, c \in Digest :
             <<p, c>> \in graph' => p \in bodies' /\ c \in Refs(p) \cup {Subject[p]}
      BY <2>6, UpsertEffect DEF IndexConsistent, Edges, SubjectEdges
    <3>3. \A p \in Digest, c \in Digest : <<p, c>> \in subjects' => c = Subject[p]
      BY <2>6, UpsertEffect DEF IndexConsistent, SubjectEdges
    <3>4. \A n \in Manifest : /\ objects'[n] # "blob"
                              /\ objects'[n] = "absent" <=> n \notin bodies'
      BY <2>6, UpsertEffect DEF IndexConsistent
    <3>5. \A b \in Blob : objects'[b] \in {"blob", "absent"}
      BY <2>6, UpsertEffect, KindsAssumption DEF IndexConsistent
    <3>6. \A q \in Repo : \A d \in repoObjects'[q] : objects'[d] # "absent"
      <4> SUFFICES ASSUME NEW q \in Repo, NEW d \in repoObjects'[q]
                   PROVE  objects'[d] # "absent"
        OBVIOUS
      <4>1. d \in repoObjects[q] \/ d = m \/ d \in BlobRefs[m]
        BY <2>6, UpsertEffect DEF TypeOK
      <4>2. objects[d] # "absent" \/ d = m
        BY <2>6, <4>1, UpsertEffect DEF IndexConsistent
      <4>3. d \in Digest
        BY <2>6, <4>1, UpsertEffect DEF TypeOK
      <4>4. QED
        BY <2>6, <4>2, <4>3, UpsertEffect
    <3>7. QED
      BY <3>1, <3>2, <3>3, <3>4, <3>5, <3>6 DEF IndexConsistent, Edges, Refs
  <2>7. ASSUME NEW r \in Repo, NEW t \in Tag, DeleteManifestReference(r, t)
        PROVE IndexConsistent'
    BY <2>7 DEF DeleteManifestReference, IndexConsistent, Edges
  <2>8. ASSUME NEW r \in Repo, NEW d \in Digest, DeleteManifestByDigestInRepository(r, d)
        PROVE IndexConsistent'
    <3>1. \A x \in Repo : repoObjects'[x] \subseteq repoObjects[x]
      BY <2>8, DeleteEffect DEF TypeOK
    <3> QED
      BY <2>8, <3>1, DeleteEffect DEF IndexConsistent, Edges
  <2>9. CASE UNCHANGED vars
    BY <2>9 DEF vars, IndexConsistent, Edges
  <2>10. QED
    BY <2>1, <2>2, <2>3, <2>4, <2>5, <2>6, <2>7, <2>8, <2>9 DEF Next
<1>3. QED
  BY <1>1, <1>2, TypeCorrect, PTL DEF Spec

-----------------------------------------------------------------------------
(* What a delete leaves *)

\* What a manifest that stays pins is not taken: not the digest deleted (the
\* parent check), not an orphan child, not an orphan blob.
LEMMA DeleteKeepsPins ==
    ASSUME TypeOK, IndexConsistent, NEW r \in Repo, NEW d \in Digest,
           DeleteManifestByDigestInRepository(r, d),
           NEW m \in Left(r, d) \cap Manifest, NEW c \in repoObjects[r] \cap Pins(m)
    PROVE  c \in Left(r, d)
<1>1. m \in bodies /\ m \in repoObjects[r] /\ m # d /\ c \in Digest
  BY DEF Left, Kept, Deleted, IndexConsistent, TypeOK
<1>2. <<m, c>> \in graph \ subjects
  BY <1>1 DEF Pins, IndexConsistent, Edges
<1>3. c # d
  BY <1>1, <1>2 DEF DeleteManifestByDigestInRepository, HasParent
<1>4. c \notin OrphanChildManifests(r, d)
  BY <1>1, <1>2 DEF OrphanChildManifests, Referenced
<1>5. c \in Kept(r, d) /\ m \in Kept(r, d)
  BY <1>3, <1>4 DEF Left, Kept, Deleted
<1>6. c \notin OrphanBlobs(Deleted(r, d), Kept(r, d))
  BY <1>2, <1>5 DEF OrphanBlobs, Referenced
<1>7. QED
  BY <1>5, <1>6 DEF Left

\* A blob that stays still has a parent that stays.
LEMMA DeleteStrandsNoBlob ==
    ASSUME TypeOK, IndexConsistent, NoStrandedBlobs, NEW r \in Repo, NEW d \in Digest,
           DeleteManifestByDigestInRepository(r, d), NEW b \in Left(r, d) \cap Blob
    PROVE  \E p \in Left(r, d) \cap Manifest : <<p, b>> \in graph
<1>1. b \in repoObjects[r] /\ b \in Kept(r, d)
  BY DEF Left, Kept
<1>2. objects[b] = "blob"
  BY <1>1 DEF IndexConsistent
<1>3. PICK p \in repoObjects[r] \cap Manifest : <<p, b>> \in graph
  BY <1>1 DEF NoStrandedBlobs, Referenced
<1>4. CASE p \in Kept(r, d)
  <2>1. p \notin OrphanBlobs(Deleted(r, d), Kept(r, d))
    BY <1>3 DEF OrphanBlobs, IndexConsistent
  <2>2. QED
    BY <1>3, <1>4, <2>1 DEF Left
<1>5. CASE p \in Deleted(r, d)
  <2>1. Referenced(b, Deleted(r, d))
    BY <1>3, <1>5 DEF Referenced
  <2>2. Referenced(b, Kept(r, d))
    BY <1>1, <1>2, <2>1 DEF Left, OrphanBlobs
  <2>3. PICK q \in Kept(r, d) : <<q, b>> \in graph
    BY <2>2 DEF Referenced
  <2>4. q \in Manifest /\ objects[q] # "blob"
    BY <2>3 DEF IndexConsistent, TypeOK, Kept
  <2>5. QED
    BY <2>3, <2>4 DEF Left, OrphanBlobs
<1>6. QED
  BY <1>3, <1>4, <1>5 DEF Kept

-----------------------------------------------------------------------------
(* Safety *)

\* In every repository, the config and layers of a present manifest are present.
THEOREM BlobsPresent == Spec => []PresentManifestsHaveBlobs
<1>1. Init => PresentManifestsHaveBlobs
  BY DEF Init, PresentManifestsHaveBlobs
<1>2. /\ TypeOK /\ IndexConsistent /\ PresentManifestsHaveBlobs
      /\ [Next]_vars
      => PresentManifestsHaveBlobs'
  <2> SUFFICES ASSUME TypeOK, IndexConsistent, PresentManifestsHaveBlobs, [Next]_vars
               PROVE  PresentManifestsHaveBlobs'
    OBVIOUS
  <2> USE DEF PresentManifestsHaveBlobs
  <2>1. ASSUME NEW g \in Registry, AddRegistry(g) PROVE PresentManifestsHaveBlobs'
    BY <2>1 DEF AddRegistry, Pins, Refs
  <2>2. ASSUME NEW R \in SUBSET Repo, DropRepositories(R)
        PROVE  PresentManifestsHaveBlobs'
    BY <2>2 DEF DropRepositories, Pins, Refs
  <2>3. ASSUME NEW r \in Repo, EnsureRegistryRepository(r)
        PROVE  PresentManifestsHaveBlobs'
    BY <2>3 DEF EnsureRegistryRepository, Pins, Refs
  <2>4. ASSUME NEW b \in Blob, UpsertObjectBlob(b) PROVE PresentManifestsHaveBlobs'
    BY <2>4 DEF UpsertObjectBlob, Pins, Refs
  <2>5. ASSUME NEW r \in Repo, NEW m \in Manifest, NEW t \in Tag \cup {NoTag},
               UpsertManifest(r, m, t)
        PROVE  PresentManifestsHaveBlobs'
    <3>1. repoObjects' = [repoObjects EXCEPT ![r] = @ \cup {m} \cup BlobRefs[m]]
          /\ BlobRefs[m] \subseteq Blob
      BY <2>5, UpsertEffect
    <3>2. ASSUME NEW q \in Repo, NEW n \in repoObjects'[q] \cap Manifest,
                 NEW b \in BlobRefs[n] \cap Pins(n)
          PROVE  b \in repoObjects'[q]
      <4>1. n \in repoObjects[q] \/ (n = m /\ q = r)
        BY <3>1, <3>2, KindsAssumption DEF TypeOK
      <4>2. CASE n \in repoObjects[q]
        BY <3>1, <3>2, <4>2 DEF TypeOK
      <4>3. CASE n = m /\ q = r
        BY <3>1, <3>2, <4>3 DEF TypeOK
      <4>4. QED
        BY <4>1, <4>2, <4>3
    <3>3. QED
      BY <3>2 DEF Pins, Refs
  <2>6. ASSUME NEW r \in Repo, NEW t \in Tag, DeleteManifestReference(r, t)
        PROVE  PresentManifestsHaveBlobs'
    BY <2>6 DEF DeleteManifestReference, Pins, Refs
  <2>7. ASSUME NEW r \in Repo, NEW d \in Digest, DeleteManifestByDigestInRepository(r, d)
        PROVE  PresentManifestsHaveBlobs'
    <3>1. repoObjects' = [repoObjects EXCEPT ![r] = Left(r, d)]
          /\ Left(r, d) \subseteq repoObjects[r]
      BY <2>7, DeleteEffect
    <3>2. ASSUME NEW q \in Repo, NEW n \in repoObjects'[q] \cap Manifest,
                 NEW b \in BlobRefs[n] \cap Pins(n)
          PROVE  b \in repoObjects'[q]
      <4>1. CASE q = r
        BY <2>7, <3>1, <3>2, <4>1, DeleteKeepsPins DEF TypeOK
      <4>2. CASE q # r
        BY <3>1, <3>2, <4>2 DEF TypeOK
      <4>3. QED
        BY <4>1, <4>2
    <3>3. QED
      BY <3>2 DEF Pins, Refs
  <2>8. CASE UNCHANGED vars
    BY <2>8 DEF vars, Pins, Refs
  <2>9. QED
    BY <2>1, <2>2, <2>3, <2>4, <2>5, <2>6, <2>7, <2>8
    DEF Next, DeleteRegistryByIDAndOrg, DeleteRepositoryByIDAndRegistryID
<1>3. QED
  BY <1>1, <1>2, TypeCorrect, Consistent, PTL DEF Spec

\* In every repository, each blob row has a present manifest as its parent.
THEOREM NoBlobStranded == Spec => []NoStrandedBlobs
<1>1. Init => NoStrandedBlobs
  BY DEF Init, NoStrandedBlobs
<1>2. TypeOK /\ IndexConsistent /\ NoStrandedBlobs /\ [Next]_vars => NoStrandedBlobs'
  <2> SUFFICES ASSUME TypeOK, IndexConsistent, NoStrandedBlobs, [Next]_vars
               PROVE  NoStrandedBlobs'
    OBVIOUS
  <2>1. ASSUME NEW g \in Registry, AddRegistry(g) PROVE NoStrandedBlobs'
    BY <2>1 DEF AddRegistry, NoStrandedBlobs, Referenced
  <2>2. ASSUME NEW R \in SUBSET Repo, DropRepositories(R) PROVE NoStrandedBlobs'
    BY <2>2 DEF DropRepositories, NoStrandedBlobs, Referenced
  <2>3. ASSUME NEW r \in Repo, EnsureRegistryRepository(r) PROVE NoStrandedBlobs'
    BY <2>3 DEF EnsureRegistryRepository, NoStrandedBlobs, Referenced
  <2>4. ASSUME NEW b \in Blob, UpsertObjectBlob(b) PROVE NoStrandedBlobs'
    BY <2>4 DEF UpsertObjectBlob, NoStrandedBlobs, Referenced
  <2>5. ASSUME NEW r \in Repo, NEW m \in Manifest, NEW t \in Tag \cup {NoTag},
               UpsertManifest(r, m, t)
        PROVE  NoStrandedBlobs'
    <3> SUFFICES ASSUME NEW q \in Repo, NEW b \in repoObjects'[q] \cap Blob
                 PROVE  \E p \in repoObjects'[q] \cap Manifest : <<p, b>> \in graph'
      BY DEF NoStrandedBlobs, Referenced
    <3>1. /\ repoObjects' = [repoObjects EXCEPT ![r] = @ \cup {m} \cup BlobRefs[m]]
          /\ graph \subseteq graph' /\ Edges(m) \subseteq graph'
      BY <2>5, UpsertEffect
    <3>2. CASE b \in repoObjects[q]
      BY <3>1, <3>2 DEF NoStrandedBlobs, Referenced, TypeOK
    <3>3. CASE b \notin repoObjects[q]
      <4>1. q = r /\ b \in BlobRefs[m]
        BY <3>1, <3>3, KindsAssumption DEF TypeOK
      <4>2. <<m, b>> \in graph' /\ m \in repoObjects'[r]
        BY <3>1, <4>1 DEF Edges, Refs, TypeOK
      <4>3. QED
        BY <4>1, <4>2
    <3>4. QED
      BY <3>2, <3>3
  <2>6. ASSUME NEW r \in Repo, NEW t \in Tag, DeleteManifestReference(r, t)
        PROVE  NoStrandedBlobs'
    BY <2>6 DEF DeleteManifestReference, NoStrandedBlobs, Referenced
  <2>7. ASSUME NEW r \in Repo, NEW d \in Digest, DeleteManifestByDigestInRepository(r, d)
        PROVE  NoStrandedBlobs'
    <3> SUFFICES ASSUME NEW q \in Repo, NEW b \in repoObjects'[q] \cap Blob
                 PROVE  \E p \in repoObjects'[q] \cap Manifest : <<p, b>> \in graph'
      BY DEF NoStrandedBlobs, Referenced
    <3>1. repoObjects' = [repoObjects EXCEPT ![r] = Left(r, d)] /\ graph' = graph
      BY <2>7, DeleteEffect
    <3>2. CASE q = r
      BY <2>7, <3>1, <3>2, DeleteStrandsNoBlob DEF TypeOK
    <3>3. CASE q # r
      BY <3>1, <3>3 DEF NoStrandedBlobs, Referenced, TypeOK
    <3>4. QED
      BY <3>2, <3>3
  <2>8. CASE UNCHANGED vars
    BY <2>8 DEF vars, NoStrandedBlobs, Referenced
  <2>9. QED
    BY <2>1, <2>2, <2>3, <2>4, <2>5, <2>6, <2>7, <2>8
    DEF Next, DeleteRegistryByIDAndOrg, DeleteRepositoryByIDAndRegistryID
<1>3. QED
  BY <1>1, <1>2, TypeCorrect, Consistent, PTL DEF Spec

\* A delete leaves every digest without a parent row where it is, but the one deleted.
LEMMA DeleteKeepsRoots ==
    ASSUME NEW r \in Repo, NEW d \in Digest, TypeOK,
           NEW c \in repoObjects[r], c # d, ~Referenced(c, Digest)
    PROVE  c \in Left(r, d)
BY DEF Left, Kept, Deleted, OrphanChildManifests, OrphanBlobs, Referenced, TypeOK

\* The tag of a manifest nothing ever pointed at resolves, by tag and by digest.
THEOREM RootTags == Spec => []RootTagsResolve
<1>1. Init => RootTagsResolve
  BY BodiesAssumption DEF Init, RootTagsResolve
<1>2. TypeOK /\ RootTagsResolve /\ [Next]_vars => RootTagsResolve'
  <2> SUFFICES ASSUME TypeOK, RootTagsResolve, [Next]_vars PROVE RootTagsResolve'
    OBVIOUS
  <2>1. ASSUME NEW g \in Registry, AddRegistry(g) PROVE RootTagsResolve'
    BY <2>1 DEF AddRegistry, RootTagsResolve, Referenced
  <2>2. ASSUME NEW R \in SUBSET Repo, DropRepositories(R) PROVE RootTagsResolve'
    BY <2>2, BodiesAssumption DEF DropRepositories, RootTagsResolve, Referenced
  <2>3. ASSUME NEW r \in Repo, EnsureRegistryRepository(r) PROVE RootTagsResolve'
    BY <2>3 DEF EnsureRegistryRepository, RootTagsResolve, Referenced
  <2>4. ASSUME NEW b \in Blob, UpsertObjectBlob(b) PROVE RootTagsResolve'
    BY <2>4 DEF UpsertObjectBlob, RootTagsResolve, Referenced
  <2>5. ASSUME NEW r \in Repo, NEW m \in Manifest, NEW t \in Tag \cup {NoTag},
               UpsertManifest(r, m, t)
        PROVE  RootTagsResolve'
    <3> SUFFICES ASSUME NEW q \in Repo, NEW u \in Tag,
                        tags'[q][u] \in Digest,
                        \A p \in Digest : <<p, tags'[q][u]>> \notin graph'
                 PROVE  tags'[q][u] \in repoObjects'[q]
      BY DEF RootTagsResolve, Referenced
    <3>1. /\ repoObjects' = [repoObjects EXCEPT ![r] = @ \cup {m} \cup BlobRefs[m]]
          /\ graph \subseteq graph'
      BY <2>5, UpsertEffect
    <3>2. tags'[q][u] = tags[q][u] \/ (q = r /\ tags'[q][u] = m)
      BY <2>5 DEF UpsertManifest, TypeOK
    <3>3. CASE tags'[q][u] = tags[q][u]
      BY <3>1, <3>3 DEF RootTagsResolve, Referenced, TypeOK
    <3>4. CASE q = r /\ tags'[q][u] = m
      BY <3>1, <3>4 DEF TypeOK
    <3>5. QED
      BY <3>2, <3>3, <3>4
  <2>6. ASSUME NEW r \in Repo, NEW t \in Tag, DeleteManifestReference(r, t)
        PROVE  RootTagsResolve'
    <3>1. \A q \in Repo, u \in Tag :
             tags'[q][u] \in Digest => tags'[q][u] = tags[q][u]
      BY <2>6, BodiesAssumption DEF DeleteManifestReference, TypeOK
    <3>2. QED
      BY <2>6, <3>1 DEF DeleteManifestReference, RootTagsResolve, Referenced
  <2>7. ASSUME NEW r \in Repo, NEW d \in Digest, DeleteManifestByDigestInRepository(r, d)
        PROVE  RootTagsResolve'
    <3> SUFFICES ASSUME NEW q \in Repo, NEW u \in Tag,
                        tags'[q][u] \in Digest,
                        \A p \in Digest : <<p, tags'[q][u]>> \notin graph'
                 PROVE  tags'[q][u] \in repoObjects'[q]
      BY DEF RootTagsResolve, Referenced
    <3>1. repoObjects' = [repoObjects EXCEPT ![r] = Left(r, d)] /\ graph' = graph
      BY <2>7, DeleteEffect
    <3>2. tags'[q][u] = tags[q][u] /\ (q = r => tags[q][u] # d)
      BY <2>7, BodiesAssumption
      DEF DeleteManifestByDigestInRepository, TagsWithout, TypeOK
    <3>3. tags[q][u] \in repoObjects[q] /\ ~Referenced(tags[q][u], Digest)
      BY <3>1, <3>2 DEF RootTagsResolve, Referenced
    <3>4. CASE q = r
      BY <3>1, <3>2, <3>3, <3>4, DeleteKeepsRoots DEF TypeOK
    <3>5. CASE q # r
      BY <3>1, <3>2, <3>3, <3>5 DEF TypeOK
    <3>6. QED
      BY <3>4, <3>5
  <2>8. CASE UNCHANGED vars
    BY <2>8 DEF vars, RootTagsResolve, Referenced
  <2>9. QED
    BY <2>1, <2>2, <2>3, <2>4, <2>5, <2>6, <2>7, <2>8
    DEF Next, DeleteRegistryByIDAndOrg, DeleteRepositoryByIDAndRegistryID
<1>3. QED
  BY <1>1, <1>2, TypeCorrect, PTL DEF Spec

\* No step takes from a repository what a manifest staying in it pins.
THEOREM SurvivorsKeep == Spec => SurvivorsKeepReferences
<1> DEFINE Keep == \A r \in Repo : \A m \in repoObjects[r] \cap repoObjects'[r] \cap Manifest :
                     Pins(m) \cap repoObjects[r] \subseteq repoObjects'[r]
<1>1. TypeOK /\ IndexConsistent /\ [Next]_vars => [Keep]_vars
  <2> SUFFICES ASSUME TypeOK, IndexConsistent, Next,
                      NEW q \in Repo,
                      NEW n \in repoObjects[q] \cap repoObjects'[q] \cap Manifest,
                      NEW c \in Pins(n) \cap repoObjects[q]
               PROVE  c \in repoObjects'[q]
    OBVIOUS
  <2>1. ASSUME NEW R \in SUBSET Repo, DropRepositories(R) PROVE c \in repoObjects'[q]
    BY <2>1 DEF DropRepositories
  <2>2. ASSUME NEW r \in Repo, NEW m \in Manifest, NEW t \in Tag \cup {NoTag},
               UpsertManifest(r, m, t)
        PROVE  c \in repoObjects'[q]
    BY <2>2, UpsertEffect DEF TypeOK
  <2>3. ASSUME NEW r \in Repo, NEW d \in Digest, DeleteManifestByDigestInRepository(r, d)
        PROVE  c \in repoObjects'[q]
    <3>1. repoObjects' = [repoObjects EXCEPT ![r] = Left(r, d)]
      BY <2>3, DeleteEffect
    <3>2. CASE q = r
      BY <2>3, <3>1, <3>2, DeleteKeepsPins DEF TypeOK
    <3>3. CASE q # r
      BY <3>1, <3>3 DEF TypeOK
    <3>4. QED
      BY <3>2, <3>3
  <2>4. CASE UNCHANGED repoObjects
    BY <2>4
  <2>5. QED
    BY <2>1, <2>2, <2>3, <2>4
    DEF Next, DeleteRegistryByIDAndOrg, DeleteRepositoryByIDAndRegistryID, AddRegistry,
        EnsureRegistryRepository, UpsertObjectBlob, DeleteManifestReference
<1>2. QED
  BY <1>1, TypeCorrect, Consistent, PTL DEF Spec, SurvivorsKeepReferences

-----------------------------------------------------------------------------
(* The catalogue is implemented *)

\* The client's view of repoObjects.
Images == [r \in Repo |-> repoObjects[r] \cap Manifest]
Available == [r \in Repo |-> repoObjects[r] \cap Blob]

\* What has a parent row among the digests of S is named by a manifest of S.
LEMMA ReferencedNamed ==
    ASSUME TypeOK, IndexConsistent, NEW S, NEW c, Referenced(c, S)
    PROVE  c \in Catalog!Named(S)
<1>1. PICK e \in S : <<e, c>> \in graph
  BY DEF Referenced
<1>2. e \in Digest /\ c \in Digest
  BY <1>1 DEF TypeOK
<1>3. e \in Manifest /\ c \in BlobRefs[e] \cup ChildRefs[e] \cup {Subject[e]}
  BY <1>1, <1>2 DEF IndexConsistent, TypeOK, Refs
<1> QED
  BY <1>1, <1>3 DEF Catalog!Named

\* A delete is the removal of its digest, with what it takes along.
LEMMA DeleteRemoves ==
    ASSUME TypeOK, IndexConsistent, NEW r \in Repo, NEW d \in Digest,
           DeleteManifestByDigestInRepository(r, d)
    PROVE  Catalog!Remove(r, d)
<1> DEFINE Stay == Left(r, d) \cap Manifest
           Keep == Left(r, d) \cap Blob
<1>1. /\ repoObjects' = [repoObjects EXCEPT ![r] = Left(r, d)]
      /\ Left(r, d) \subseteq repoObjects[r]
  BY DeleteEffect
<1>2. Stay \in SUBSET Images[r] /\ Keep \in SUBSET Available[r]
  BY <1>1 DEF Images, Available
<1>3. d \notin Stay \cup Keep
  BY DEF Left, Kept, Deleted
<1>4. \A m \in Stay : Pins(m) \cap (Images[r] \cup Available[r]) \subseteq Stay \cup Keep
  <2> SUFFICES ASSUME NEW m \in Stay,
                      NEW c \in Pins(m) \cap (Images[r] \cup Available[r])
               PROVE  c \in Stay \cup Keep
    OBVIOUS
  <2>1. m \in Left(r, d) \cap Manifest /\ c \in repoObjects[r] \cap Pins(m) /\ c \in Digest
    BY DEF Images, Available
  <2>2. c \in Left(r, d)
    BY <2>1, DeleteKeepsPins
  <2>3. QED
    BY <2>1, <2>2
<1>5. Images' = [Images EXCEPT ![r] = Stay]
  BY <1>1 DEF Images, TypeOK
<1>6. Available' = [Available EXCEPT ![r] = Keep]
  BY <1>1 DEF Available, TypeOK
<1>7. tags' = [tags EXCEPT ![r] =
                 [t \in Tag |-> IF tags[r][t] = d THEN NoDigest ELSE tags[r][t]]]
  BY DEF DeleteManifestByDigestInRepository, TagsWithout
<1>8. Images[r] \ Stay \subseteq {d} \cup Catalog!Named({d})
  <2> SUFFICES ASSUME NEW m \in repoObjects[r] \cap Manifest, m \notin Left(r, d), m # d
               PROVE  m \in Catalog!Named({d})
    BY DEF Images
  <2>1. objects[m] # "blob"
    BY DEF IndexConsistent
  <2>2. m \in OrphanChildManifests(r, d)
    BY <2>1 DEF Left, Kept, Deleted, OrphanBlobs
  <2>3. Referenced(m, {d})
    BY <2>2 DEF OrphanChildManifests, Referenced
  <2> QED
    BY <2>3, ReferencedNamed
<1>9. Available[r] \ Keep \subseteq {d} \cup Catalog!Named({d} \cup (Images[r] \ Stay))
  <2> SUFFICES ASSUME NEW b \in repoObjects[r] \cap Blob, b \notin Left(r, d), b # d
               PROVE  b \in Catalog!Named({d} \cup (Images[r] \ Stay))
    BY DEF Available
  <2>1. b \in OrphanBlobs(Deleted(r, d), Kept(r, d))
    <3>1. objects[b] \in {"blob", "absent"}
      BY DEF IndexConsistent
    <3>2. b \notin OrphanChildManifests(r, d)
      BY <3>1 DEF OrphanChildManifests, ManifestTypes
    <3> QED
      BY <3>2 DEF Left, Kept, Deleted
  <2>2. Referenced(b, Deleted(r, d))
    BY <2>1 DEF OrphanBlobs
  <2>3. PICK e \in Deleted(r, d) : <<e, b>> \in graph
    BY <2>2 DEF Referenced
  <2>4. e \in Manifest
    BY <2>3 DEF IndexConsistent, TypeOK
  <2>5. e = d \/ e \in Images[r] \ Stay
    BY <2>3, <2>4 DEF Deleted, OrphanChildManifests, Images, Left, Kept
  <2>6. Referenced(b, {d} \cup (Images[r] \ Stay))
    BY <2>3, <2>5 DEF Referenced
  <2> QED
    BY <2>6, ReferencedNamed
<1> HIDE DEF Stay, Keep
<1>10. \E stay \in SUBSET Images[r], keep \in SUBSET Available[r] :
         /\ Images' = [Images EXCEPT ![r] = stay]
         /\ Available' = [Available EXCEPT ![r] = keep]
         /\ d \notin stay \cup keep
         /\ Images[r] \ stay \subseteq {d} \cup Catalog!Named({d})
         /\ Available[r] \ keep \subseteq {d} \cup Catalog!Named({d} \cup (Images[r] \ stay))
         /\ \A m \in stay : Pins(m) \cap (Images[r] \cup Available[r])
                               \subseteq stay \cup keep
  BY <1>2, <1>3, <1>4, <1>5, <1>6, <1>8, <1>9, Zenon
<1>11. QED
  BY <1>7, <1>10, Zenon
  DEF Catalog!Remove, Catalog!Needs, Images, Available, Pins, Refs

\* Every behaviour of the tables is, seen by clients, one of the catalogue.
THEOREM Refinement == Spec => CatalogRefinement
<1>1. Init => Catalog!CatalogInit
  BY DEF Init, Catalog!CatalogInit
<1>2. TypeOK /\ IndexConsistent /\ [Next]_vars
        => [Catalog!CatalogNext]_(Catalog!catalogVars)
  <2> SUFFICES ASSUME TypeOK, IndexConsistent, [Next]_vars
               PROVE  Catalog!CatalogNext \/ UNCHANGED <<Images, Available, tags>>
    BY DEF Catalog!catalogVars, Images, Available
  <2>1. ASSUME NEW R \in SUBSET Repo, DropRepositories(R) PROVE Catalog!Drop(R)
    BY <2>1 DEF DropRepositories, Catalog!Drop, Images, Available
  <2>2. ASSUME NEW r \in Repo, NEW m \in Manifest, NEW t \in Tag \cup {NoTag},
               UpsertManifest(r, m, t)
        PROVE  Catalog!Push(r, m, t)
    <3>1. repoObjects' = [repoObjects EXCEPT ![r] = @ \cup {m} \cup BlobRefs[m]]
          /\ BlobRefs[m] \subseteq Blob
      BY <2>2, UpsertEffect
    <3>2. Images' = [Images EXCEPT ![r] = @ \cup {m}]
      <4>1. \A q \in Repo : repoObjects'[q] \cap Manifest
               = IF q = r THEN (repoObjects[q] \cap Manifest) \cup {m}
                          ELSE repoObjects[q] \cap Manifest
        BY <3>1, KindsAssumption DEF TypeOK
      <4>2. QED
        BY <4>1 DEF Images
    <3>3. Available' = [Available EXCEPT ![r] = @ \cup BlobRefs[m]]
      <4>1. \A q \in Repo : repoObjects'[q] \cap Blob
               = IF q = r THEN (repoObjects[q] \cap Blob) \cup BlobRefs[m]
                          ELSE repoObjects[q] \cap Blob
        BY <3>1, KindsAssumption DEF TypeOK
      <4>2. QED
        BY <4>1 DEF Available
    <3>4. QED
      BY <2>2, <3>2, <3>3 DEF UpsertManifest, Catalog!Push, Images, Available
  <2>3. ASSUME NEW r \in Repo, NEW t \in Tag, DeleteManifestReference(r, t)
        PROVE  Catalog!Untag(r, t)
    BY <2>3 DEF DeleteManifestReference, Catalog!Untag, Images, Available
  <2>4. ASSUME NEW r \in Repo, NEW d \in Digest, DeleteManifestByDigestInRepository(r, d)
        PROVE  Catalog!Remove(r, d)
    BY <2>4, DeleteRemoves
  <2>5. CASE UNCHANGED <<repoObjects, tags>>
    BY <2>5 DEF Images, Available
  <2>6. QED
    BY <2>1, <2>2, <2>3, <2>4, <2>5
    DEF Next, vars, Catalog!CatalogNext, DeleteRegistryByIDAndOrg,
        DeleteRepositoryByIDAndRegistryID, AddRegistry, EnsureRegistryRepository,
        UpsertObjectBlob
<1>3. QED
  BY <1>1, <1>2, TypeCorrect, Consistent, PTL DEF Spec, CatalogRefinement, Catalog!CatalogSpec

=============================================================================
