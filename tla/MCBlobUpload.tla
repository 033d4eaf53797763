---------------------------- MODULE MCBlobUpload ----------------------------
(***************************************************************************)
(* Two handlers, two sessions, and two blobs one of which is a prefix of   *)
(* the other.                                                              *)
(***************************************************************************)
EXTENDS BlobUpload, TLC

CONSTANTS short, long, x, acme

MCContent == short :> <<x>> @@ long :> <<x, x>>

MCBody == {<<>>, <<x>>, <<x, x>>}

MCTenantOf == [r \in Repo |-> acme]

Interchangeable == Permutations(Request) \cup Permutations(Upload)

=============================================================================
