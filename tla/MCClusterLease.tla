--------------------------- MODULE MCClusterLease ---------------------------
(* Small instances of ClusterLease for TLC.                                 *)
EXTENDS ClusterLease, TLC

Symmetry == Permutations(Instances)
=============================================================================
