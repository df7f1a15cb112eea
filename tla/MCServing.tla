------------------------------ MODULE MCServing ------------------------------
(* Small instances of Serving for TLC.                                      *)
EXTENDS Serving
=============================================================================
