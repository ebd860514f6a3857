----------------------------- MODULE MCImageCache -----------------------------
(* Constants of the runs of ImageCache.  Tags "a" and "b" are two packages    *)
(* that share a layer; "n" is a local name registered with two components     *)
(* that have that layer too: what shares nothing has nobody to lose it to.    *)
EXTENDS ImageCacheHistory, TLC

CONSTANTS p, q, a1, b1, n1, n2, l1, a, b, n

Layers == {l1}

RemoteTags == {a, b}
RemoteManifests == {a1, b1}
RemoteLayerOf == a1 :> l1 @@ b1 :> l1
RemoteImage == a :> {a1} @@ b :> {b1}

MixedTags == {a, n}
MixedManifests == {a1, n1, n2}
MixedLayerOf == a1 :> l1 @@ n1 :> l1 @@ n2 :> l1
MixedImage == a :> {a1} @@ n :> {n1, n2}
LocalTags == {n}

Processes == Permutations({p, q})

None == {}
Pulls == {"pull", "install"}
All == AllOperations
===============================================================================
