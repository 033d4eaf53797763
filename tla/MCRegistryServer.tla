-------------------------- MODULE MCRegistryServer --------------------------
(***************************************************************************)
(* Two repositories of one tenant, in registries of their own; two images  *)
(* of one layer, and an index over the first.                              *)
(***************************************************************************)
EXTENDS RegistryServer, TLC

CONSTANTS g1, g2, r1, r2, base, image1, image2, index, acme

MCRegistryOf == [r \in Repo |-> IF r = r1 THEN g1 ELSE g2]

MCTenantOf == [g \in Registry |-> acme]

\* A run may leave some of the manifests out.
Among(f) == [m \in Manifest |-> f[m]]

MCBlobRefs == Among(image1 :> {base} @@ image2 :> {base} @@ index :> {})

MCChildRefs == Among(image1 :> {} @@ image2 :> {} @@ index :> {image1})

MCSubject == [m \in Manifest |-> NoDigest]

\* Handlers are alike, and so are the repositories with their registries.
Interchangeable ==
    Permutations(Request) \cup {r1 :> r2 @@ r2 :> r1 @@ g1 :> g2 @@ g2 :> g1}

=============================================================================
