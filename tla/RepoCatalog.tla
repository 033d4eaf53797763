---------------------------- MODULE RepoCatalog ----------------------------
(***************************************************************************)
(* What a repository promises to clients, whatever tables implement it: a  *)
(* set of manifests, the layers that can be had for them, and tags.  The   *)
(* manifests a surviving index pins and the layers a surviving image needs *)
(* do not go away, and a tag is lost only with its own manifest.           *)
(***************************************************************************)
CONSTANTS Repo, Tag, Blob, Manifest, BlobRefs, ChildRefs, Subject, NoDigest, NoTag

VARIABLES
    images,    \* the manifests that can be pulled, by repository
    available, \* the blobs that can be pulled, by repository
    names      \* the manifest of each tag, or NoDigest

catalogVars == <<images, available, names>>

\* What m needs to be there: all it names, except the subject it only annotates.
Needs(m) == (BlobRefs[m] \cup ChildRefs[m]) \ {Subject[m]}

\* All that the manifests in S name.
Named(S) == UNION {BlobRefs[m] \cup ChildRefs[m] \cup {Subject[m]} : m \in S \cap Manifest}

CatalogInit ==
    /\ images = [r \in Repo |-> {}]
    /\ available = [r \in Repo |-> {}]
    /\ names = [r \in Repo |-> [t \in Tag |-> NoDigest]]

Push(r, m, t) ==
    /\ images' = [images EXCEPT ![r] = @ \cup {m}]
    /\ available' = [available EXCEPT ![r] = @ \cup BlobRefs[m]]
    /\ names' = [names EXCEPT ![r] =
                   [u \in Tag |-> IF u = t THEN m ELSE names[r][u]]]

Untag(r, t) ==
    /\ names' = [names EXCEPT ![r][t] = NoDigest]
    /\ UNCHANGED <<images, available>>

\* Removing a manifest (or a blob nothing needs) may take along manifests that it names,
\* and blobs that it or they name, of which nothing that stays has need; and the tags of
\* that digest, no others.
Remove(r, d) ==
    /\ \E stay \in SUBSET images[r], keep \in SUBSET available[r] :
          /\ images' = [images EXCEPT ![r] = stay]
          /\ available' = [available EXCEPT ![r] = keep]
          /\ d \notin stay \cup keep
          /\ images[r] \ stay \subseteq {d} \cup Named({d})
          /\ available[r] \ keep \subseteq {d} \cup Named({d} \cup (images[r] \ stay))
          /\ \A m \in stay : Needs(m) \cap (images[r] \cup available[r])
                                \subseteq stay \cup keep
    /\ names' = [names EXCEPT ![r] =
                   [t \in Tag |-> IF names[r][t] = d THEN NoDigest ELSE names[r][t]]]

\* A repository, or all those of a registry, is dropped with everything in it.
Drop(R) ==
    /\ images' = [r \in Repo |-> IF r \in R THEN {} ELSE images[r]]
    /\ available' = [r \in Repo |-> IF r \in R THEN {} ELSE available[r]]
    /\ names' = [r \in Repo |-> IF r \in R THEN [t \in Tag |-> NoDigest] ELSE names[r]]

CatalogNext ==
    \/ \E r \in Repo, m \in Manifest, t \in Tag \cup {NoTag} : Push(r, m, t)
    \/ \E r \in Repo, t \in Tag : Untag(r, t)
    \/ \E r \in Repo, d \in Blob \cup Manifest : Remove(r, d)
    \/ \E R \in SUBSET Repo : Drop(R)

CatalogSpec == CatalogInit /\ [][CatalogNext]_catalogVars

=============================================================================
