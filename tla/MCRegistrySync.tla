---------------------------- MODULE MCRegistrySync ----------------------------
(* Constants of the runs of RegistrySync. *)
EXTENDS RegistrySync, TLC

CONSTANTS s, t, v1, v2

One == {s}
Two == {s, t}
OneVersion == {v1}
TwoVersions == {v1, v2}
Symmetry == Permutations(Two) \union Permutations(TwoVersions)

First == {1}
FirstTwo == {1, 2}
None == {}
===============================================================================
