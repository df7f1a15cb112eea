------------------------------- MODULE Backup -------------------------------
(***************************************************************************)
(* `nidus backup`, `restore` and `check` (src/cli/backup.rs) beside a      *)
(* running writer, and the checksum sidecars they carry and verify         *)
(* (src/data/checksum.rs, src/data/segments.rs).                           *)
(*                                                                         *)
(* The store and its writer are module Readers's: backup and check take no *)
(* lock and get one object after the other.  A checksum is what it was     *)
(* computed from, so a sidecar is the rows it covers; an absent one covers *)
(* none.  An archive holds what was captured, whole: its own CRC baseline  *)
(* and the gzip trailer leave an archive that is refused or intact.        *)
(***************************************************************************)
EXTENDS Readers

CONSTANTS
    Targets,        \* what may be at the location restore is given
    ClearFails,     \* whether the deletes and the listing restore ignores may fail
    MaxKills,       \* bound: restores killed half way
    MaxLater        \* bound: upserts into the restored store

ASSUME BackupAssumption == ClearFails \in BOOLEAN /\ MaxKills \in Nat /\ MaxLater \in Nat

VARIABLES
    sums,     \* the `<segment>.crc` objects of the source
    restamp,  \* the base has been rewritten and its sidecar not yet
    b,        \* the backup command and its archive
    c,        \* the check command
    t         \* the location restored into and its writer

allVars == <<vars, sums, restamp, b, c, t>>

-----------------------------------------------------------------------------
(* The writer's sidecars *)

\* What a backup or a check that is under way sees of a step of the writer.
Watching(p) == p.pc \notin {"idle", "done", "failed", "ok", "corrupt"}

Seen(p) ==
    IF ~Watching(p) THEN p
    ELSE [p EXCEPT !.legal = [id \in Ids |-> @[id] \cup {w'.docs[id]}],
                   !.sealed = @ \/ w'.next # w.next,
                   !.compacted = @ \/ w'.after = "drop"]

\* A step of the writer, while a command may still read what it does.
Writing == b.pc # "done" /\ b' = Seen(b) /\ c' = Seen(c) /\ UNCHANGED t

\* Segments::seal stamps the segment it makes immutable.
SealStamped ==
    /\ Seal /\ Writing
    /\ sums' = [sums EXCEPT ![Active] = segs[Active]]
    /\ UNCHANGED restamp

\* Segments::rewrite, its first half.
RewriteBase ==
    /\ RewriteData /\ Writing
    /\ restamp' = TRUE
    /\ UNCHANGED sums

\* Mutant: the sidecars are left as they were.
StampBaseNot ==
    /\ restamp /\ restamp' = FALSE
    /\ UNCHANGED <<vars, sums>>
    /\ Writing

\* Segments::rewrite, its second half: the base restamped, the sidecars of the
\* dropped segments deleted.
StampBase ==
    /\ restamp /\ restamp' = FALSE
    /\ sums' = [s \in DOMAIN sums |-> IF s = 0 THEN segs[0] ELSE IF s \in w.dropped THEN <<>> ELSE sums[s]]
    /\ UNCHANGED vars
    /\ Writing

OtherWrites ==
    /\ ~restamp
    /\ \/ \E id \in Ids : Upsert(id) \/ Delete(id)
       \/ LogAppend \/ Publish \/ Compact \/ RewriteLog \/ Reclaim
    /\ UNCHANGED <<sums, restamp>>
    /\ Writing

-----------------------------------------------------------------------------
(* nidus backup *)

\* Every object a command reads is the state of this instant.
Reads == UNCHANGED <<vars, sums, restamp>>

Started(p) ==
    [p EXCEPT !.man = manifest, !.legal = [id \in Ids |-> {w.before[id], w.docs[id]}],
              !.compacted = w.after = "drop"]

BackupManifest ==
    /\ "backup" \in env /\ b.pc = "idle"
    /\ b' = [Started(b) EXCEPT !.pc = "objects"]
    /\ Reads /\ UNCHANGED <<c, t>>

\* A segment that a compaction has reclaimed; the base never is.
Gone(s) == s \notin Range(w.names) \cup w.dropped /\ segs[s] = <<>>

\* Mutant: the base alone is archived.
BackupObjectsBase ==
    /\ b.pc = "objects" /\ Len(b.got) < Len(b.man.names)
    /\ b' = [b EXCEPT !.got = Append(@, IF @ = <<>> THEN segs[0] ELSE <<>>)]
    /\ Reads /\ UNCHANGED <<c, t>>

\* `data`, then the sealed segments the manifest names; a missing one fails.
BackupObjects ==
    /\ b.pc = "objects" /\ Len(b.got) < Len(b.man.names)
    /\ LET s == b.man.names[Len(b.got) + 1]
       IN  b' = IF Gone(s) THEN [b EXCEPT !.pc = "failed"] ELSE [b EXCEPT !.got = Append(@, segs[s])]
    /\ Reads /\ UNCHANGED <<c, t>>

\* `log` last of the objects that are replayed.
BackupLog ==
    /\ b.pc = "objects" /\ Len(b.got) = Len(b.man.names)
    /\ b' = [b EXCEPT !.pc = "sums", !.log = Current]
    /\ Reads /\ UNCHANGED <<c, t>>

\* The sidecars, one by one, and the archive is put.
BackupSums ==
    /\ b.pc = "sums"
    /\ LET got == Append(b.sums, sums[b.man.names[Len(b.sums) + 1]])
       IN  b' = [b EXCEPT !.sums = got, !.pc = IF Len(got) = Len(b.man.names) THEN "done" ELSE @]
    /\ Reads /\ UNCHANGED <<c, t>>

\* What the archive opens as.
ArchiveRows == Rows(b.got)
ArchiveView == replay_ops(b.log, ArchiveRows, Len(ArchiveRows))

\* The archive's log names rows it does not have: the replay leaves those
\* records out, and they stay in the log.
Hot == \E k \in DOMAIN b.log : b.log[k].row > Len(ArchiveRows)

-----------------------------------------------------------------------------
(* nidus check *)

\* checksum::verify: the rows a sidecar covers are there and are the same.
Verified(sum, rows) == IsPrefix(sum, rows)

CheckManifest ==
    /\ "check" \in env /\ c.pc = "idle"
    /\ c' = [Started(c) EXCEPT !.pc = "open"]
    /\ Reads /\ UNCHANGED <<b, t>>

CheckOpen ==
    /\ c.pc = "open"
    /\ LET got == Append(c.got, segs[c.man.names[Len(c.got) + 1]])
       IN  c' = [c EXCEPT !.got = got, !.pc = IF Len(got) = Len(c.man.names) THEN "verify" ELSE @]
    /\ Reads /\ UNCHANGED <<b, t>>

\* verify_checksums, one segment: the sidecar of now against the rows of then.
CheckVerify ==
    /\ c.pc = "verify"
    /\ LET k == Len(c.sums) + 1
           sum == sums[c.man.names[k]]
       IN  c' = [c EXCEPT !.sums = Append(@, sum),
                          !.pc = IF ~Verified(sum, c.got[k]) THEN "corrupt"
                                 ELSE IF k = Len(c.man.names) THEN "ok" ELSE @]
    /\ Reads /\ UNCHANGED <<b, t>>

-----------------------------------------------------------------------------
(* nidus restore *)

Quiet == UNCHANGED <<vars, sums, restamp, b, c>>

\* The objects of the archive in the order they were appended to it.  A store
\* that a writer has opened has a manifest, and so does its archive.
ArchiveObjects ==
    LET k == Len(b.man.names)
    IN  [i \in 1..k |-> <<"seg", i>>] \o [i \in 1..k |-> <<"sum", i>>] \o << <<"manifest", 0>>, <<"log", 0>> >>

\* The archive is validated whole before the target is touched, then the
\* target's manifest goes first; whether it did is not looked at.
RestoreManifest ==
    /\ b.pc = "done" /\ t.pc = "idle"
    /\ \E man \in {NoManifest} \cup (IF ClearFails THEN {t.man} ELSE {}) :
         t' = [t EXCEPT !.pc = "clear", !.man = man]
    /\ Quiet

\* Mutant: sidecars the archive does not carry stay.
RestoreClearSegments ==
    /\ t.pc = "clear"
    /\ t' = [t EXCEPT !.pc = "put", !.todo = ArchiveObjects,
                      !.segs = [s \in DOMAIN @ |-> IF s = 0 THEN @[s] ELSE <<>>]]
    /\ Quiet

\* Every `seg-*` and every sidecar of the target is deleted, unless they cannot
\* be listed: then all stay.  `data` and `log` stay until they are overwritten.
RestoreClear ==
    /\ t.pc = "clear"
    /\ \/ t' = [t EXCEPT !.pc = "put", !.todo = ArchiveObjects,
                         !.segs = [s \in DOMAIN @ |-> IF s = 0 THEN @[s] ELSE <<>>],
                         !.sums = [s \in DOMAIN @ |-> <<>>]]
       \/ ClearFails /\ t' = [t EXCEPT !.pc = "put", !.todo = ArchiveObjects]
    /\ Quiet

\* One object of the archive over the store st.  A sidecar the archive does not
\* carry is not put.
Put(st, o) ==
    LET s == b.man.names[o[2]]
    IN  CASE o[1] = "seg" -> [st EXCEPT !.segs[s] = b.got[o[2]]]
          [] o[1] = "sum" -> IF b.sums[o[2]] = <<>> THEN st ELSE [st EXCEPT !.sums[s] = b.sums[o[2]]]
          [] o[1] = "manifest" -> [st EXCEPT !.man = b.man]
          [] o[1] = "log" -> [st EXCEPT !.log = b.log]

\* Mutant: what is already at the target is kept.
RestorePutMissing ==
    /\ t.pc = "put" /\ t.todo # <<>>
    /\ t' = [(IF Head(t.todo)[1] = "log" /\ t.log # <<>> THEN t ELSE Put(t, Head(t.todo)))
                EXCEPT !.todo = Tail(@)]
    /\ Quiet

RestorePut ==
    /\ t.pc = "put" /\ t.todo # <<>>
    /\ t' = [Put(t, Head(t.todo)) EXCEPT !.todo = Tail(@)]
    /\ Quiet

\* Store::open on the target's objects: what it serves.
Names(st) == IF st.man = NoManifest THEN <<0>> ELSE st.man.names
TargetContents == [k \in DOMAIN Names(t) |-> t.segs[Names(t)[k]]]
TargetView == replay_ops(t.log, Rows(TargetContents), Len(Rows(TargetContents)))

\* The restored store is opened, which ends the command.
RestoreOpen ==
    /\ t.pc = "put" /\ t.todo = <<>>
    /\ t' = [t EXCEPT !.pc = "open", !.docs = TargetView]
    /\ Quiet

\* The command is killed at any point, and run again.
RestoreKilled ==
    /\ t.pc \in {"clear", "put"} /\ t.kills < MaxKills
    /\ t' = [t EXCEPT !.pc = "idle", !.kills = @ + 1, !.todo = <<>>]
    /\ Quiet

\* Later writes, in writes of the numbers after the source's: maybe_seal and an
\* upsert of the store's own writer.
LaterSeal ==
    /\ t.pc = "open" /\ t.later < MaxLater
    /\ Len(Last(TargetContents)) >= SegMax
    /\ t' = [t EXCEPT !.man = [@ EXCEPT !.names = Append(@, t.man.next), !.next = @ + 1, !.version = @ + 1],
                      !.sums[Last(Names(t))] = Last(TargetContents)]
    /\ Quiet

LaterUpsert(id) ==
    /\ t.pc = "open" /\ t.later < MaxLater
    /\ Len(Last(TargetContents)) < SegMax
    /\ LET n == MaxWrites + t.later + 1
       IN  t' = [t EXCEPT !.later = @ + 1,
                          !.segs[Last(Names(t))] = Append(@, n),
                          !.log = Append(@, [id |-> id, row |-> Len(Rows(TargetContents)) + 1, n |-> n]),
                          !.docs[id] = [n |-> n, vec |-> n]]
    /\ Quiet

-----------------------------------------------------------------------------

NoCommand ==
    [pc |-> "idle", man |-> NoManifest, got |-> <<>>, log |-> <<>>, sums |-> <<>>,
     legal |-> [id \in Ids |-> {}], sealed |-> FALSE, compacted |-> FALSE]

BackupInit ==
    /\ Init
    /\ sums = [s \in DOMAIN segs |-> <<>>] /\ restamp = FALSE
    /\ b = NoCommand /\ c = NoCommand
    /\ \E there \in Targets :
         t = [pc |-> "idle", todo |-> <<>>, docs |-> Nothing, kills |-> 0, later |-> 0,
              segs |-> [s \in DOMAIN segs |-> IF s \in DOMAIN there.segs THEN there.segs[s] ELSE <<>>],
              sums |-> [s \in DOMAIN segs |-> IF s \in DOMAIN there.sums THEN there.sums[s] ELSE <<>>],
              man |-> there.man, log |-> there.log]

BackupNext ==
    \/ SealStamped \/ RewriteBase \/ StampBase \/ OtherWrites
    \/ BackupManifest \/ BackupObjects \/ BackupLog \/ BackupSums
    \/ CheckManifest \/ CheckOpen \/ CheckVerify
    \/ RestoreManifest \/ RestoreClear \/ RestorePut \/ RestoreOpen \/ RestoreKilled
    \/ LaterSeal \/ \E id \in Ids : LaterUpsert(id)

BackupSpec == BackupInit /\ [][BackupNext]_allVars

-----------------------------------------------------------------------------
(* Properties *)

Pcs == {"idle", "objects", "sums", "done", "failed", "open", "verify", "ok", "corrupt"}

\* The shape of what the commands hold: a segment and a sidecar per name read.
BackupTypeOK ==
    /\ \A p \in {b, c} :
        /\ p.pc \in Pcs /\ Len(p.sums) <= Len(p.got) /\ Len(p.got) <= Len(p.man.names)
        /\ p.legal \in [Ids -> SUBSET Doc]
    /\ t.pc \in {"idle", "clear", "put", "open"}
    /\ \A s \in DOMAIN sums : Range(sums[s]) \subseteq 1 .. MaxWrites
    /\ restamp \in BOOLEAN

\* A hot backup that no compaction overlapped is consistent: every document of
\* the archive has its own vector and a value it had while the backup ran, as
\* the read order promises: manifest, the segments it names, the log last.
BackupRegular ==
    b.pc = "done" /\ ~b.compacted => \A id \in Ids : ArchiveView[id] \in b.legal[id]

\* A restored store is the archive and nothing of what was at the target, also
\* when an earlier restore was killed half way, and it keeps what is written to
\* it later through seals and reopens, unless the archive's log ran ahead of
\* its rows.
RestoredIsArchive ==
    t.pc = "open" =>
        /\ t.later = 0 => t.docs = ArchiveView
        /\ Hot \/ TargetView = t.docs

\* Nothing is corrupt, so check says so beside a running writer, unless a seal
\* or a compaction replaced a sidecar between its two looks.
CheckTruthful == c.pc = "corrupt" => c.sealed \/ c.compacted

\* A restored store passes check: the archive's sidecars vouch for the
\* archive's rows and no sidecar of the target is left, unless the archive
\* straddled a seal or a compaction, or the target could not be cleared.
RestoredVerifies ==
    t.pc = "open" /\ ~b.sealed /\ ~b.compacted =>
        \A s \in DOMAIN t.segs : Verified(t.sums[s], t.segs[s])

\* The capture order and the lock-free reader rule keep a hot snapshot
\* consistent without a writer lock (SPEC 13.7): no document of an archive
\* carries another's vector.
HotSnapshotConsistent ==
    b.pc = "done" => \A id \in Ids : ArchiveView[id].n = ArchiveView[id].vec

\* The same, of the store that is restored from it and written to: replay
\* ignores anything newer than the data we captured (backup).
RestoredStaysConsistent == t.pc = "open" => TargetView = t.docs

\* check is safe alongside a running `nidus serve` (check).
CheckSafe == c.pc # "corrupt"

\* A killed restore leaves the store it found or the one it brings.
RestoreAllOrNothing ==
    t.pc = "idle" /\ t.kills > 0 => \A id \in Ids : TargetView[id].n = TargetView[id].vec
=============================================================================
