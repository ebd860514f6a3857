------------------------------ MODULE MCIndexer ------------------------------
(* Constants of the runs of Indexer. *)
EXTENDS Indexer, TLC

CONSTANTS r1, r2, p1, p2

OneReplica == {r1}
TwoReplicas == {r1, r2}
OnePackage == {p1}
TwoPackages == {p1, p2}

Symmetry == Permutations(TwoReplicas)
==============================================================================
