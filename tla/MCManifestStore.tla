-------------------------- MODULE MCManifestStore --------------------------
(***************************************************************************)
(* Two images that share a layer, an index over both, and a referrer whose *)
(* subject is one of them.                                                 *)
(***************************************************************************)
EXTENDS ManifestStore, TLC

CONSTANTS g1, g2, r1, r2, base, top, image1, image2, index, referrer

MCRegistryOf == [r \in Repo |-> IF r = r1 THEN g1 ELSE g2]

\* A run may leave some of the manifests out.
Among(f) == [m \in Manifest |-> f[m]]

MCBlobRefs == Among(image1 :> {base, top} @@ image2 :> {base}
                    @@ index :> {} @@ referrer :> {top})

MCChildRefs == Among(image1 :> {} @@ image2 :> {}
                     @@ index :> {image1, image2} @@ referrer :> {})

MCSubject == Among(image1 :> NoDigest @@ image2 :> NoDigest
                   @@ index :> NoDigest @@ referrer :> image1)

\* Tags are alike, and so are the repositories with their registries.
Interchangeable ==
    Permutations(Tag) \cup {r1 :> r2 @@ r2 :> r1 @@ g1 :> g2 @@ g2 :> g1}

=============================================================================
