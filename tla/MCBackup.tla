------------------------------ MODULE MCBackup ------------------------------
(* Small instances of Backup for TLC.                                       *)
EXTENDS Backup

MCEnvironments == {{"backup"}, {"check"}}
MCBackups == {{"backup"}}
MCChecks == {{"check"}}

\* An empty location, and one that holds a store of three writes, numbered
\* after all others, two of them in a sealed base.
None == [segs |-> <<>>, sums |-> <<>>, man |-> NoManifest, log |-> <<>>]
Other ==
    LET n == MaxWrites + MaxLater
        row(id, k) == [id |-> id, row |-> k, n |-> n + k]
        two == <<n + 1, n + 2>>
    IN  [segs |-> [s \in {0, 1} |-> IF s = 0 THEN two ELSE <<n + 3>>],
         sums |-> [s \in {0} |-> two],
         man |-> [version |-> 9, names |-> <<0, 1>>, next |-> 2],
         log |-> <<row(1, 1), row(2, 2), row(1, 3)>>]
MCTargets == {None, Other}
MCNowhere == {None}
=============================================================================
