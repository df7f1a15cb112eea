---------------------------- MODULE MCNamespaces ----------------------------
(* Small instances of Namespaces for TLC.                                   *)
EXTENDS Namespaces, TLC

\* Reads, and writes, differ in nothing but their names.
MCSymmetry == Permutations(Reads) \cup Permutations(Writes)
=============================================================================
