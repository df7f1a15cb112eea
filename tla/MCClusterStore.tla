--------------------------- MODULE MCClusterStore ---------------------------
(* Small instances of ClusterStore for TLC.                                 *)
EXTENDS ClusterStore, TLC

Symmetry == Permutations(Instances)
=============================================================================
