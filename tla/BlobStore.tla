----------------------------- MODULE BlobStore -----------------------------
(***************************************************************************)
(* What the registry's parts may rely on about each other's blobs: R2,     *)
(* the objects rows and the repositories' lists, whichever handlers fill   *)
(* them and however they end.  A blob once stored stays, a row is never    *)
(* ahead of R2 and never goes, and what a repository lists is stored.      *)
(***************************************************************************)
CONSTANTS Repo, Blob

VARIABLES
    stored,  \* the blobs that R2 has
    tracked, \* those with an objects row
    listed   \* those in repository_objects, by repository

storeVars == <<stored, tracked, listed>>

StoreInit ==
    /\ stored \in SUBSET Blob
    /\ tracked = stored
    /\ listed = [r \in Repo |-> {}]

\* An upload puts b to R2, again or for the first time, and gives it its row then or
\* later or, if that fails, never.
Add(b) ==
    /\ stored' = stored \cup {b}
    /\ tracked' \in {tracked, tracked \cup {b}}
    /\ UNCHANGED listed

\* A manifest that names B is pushed: R2 must have it all.
List(r, B) ==
    /\ B \subseteq stored
    /\ tracked' = tracked \cup B
    /\ listed' = [listed EXCEPT ![r] = @ \cup B]
    /\ UNCHANGED stored

\* Manifests, repositories or registries are deleted.
Release ==
    /\ listed' \in [Repo -> SUBSET Blob]
    /\ \A r \in Repo : listed'[r] \subseteq listed[r]
    /\ UNCHANGED <<stored, tracked>>

StoreNext ==
    \/ \E b \in Blob : Add(b)
    \/ \E r \in Repo, B \in SUBSET Blob : List(r, B)
    \/ Release

StoreSpec == StoreInit /\ [][StoreNext]_storeVars

=============================================================================
