------------------------------- MODULE MCStore -------------------------------
(* Small instances of Store for TLC; each .cfg picks a configuration.       *)
EXTENDS Store
Both == {TRUE, FALSE}
Never == {FALSE}
=============================================================================
