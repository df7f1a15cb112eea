------------------------------ MODULE MCReaders ------------------------------
(* Small instances of Readers for TLC.                                      *)
EXTENDS Readers

\* A behaviour has a polling reader, a reader that is pinned, or faults.
MCEnvironments == {{"refresh"}, {"pin"}, {"fault"}}
MCRefresh == {{"refresh"}}
MCPin == {{"pin"}}
=============================================================================
