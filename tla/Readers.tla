------------------------------- MODULE Readers -------------------------------
(***************************************************************************)
(* A lock-free ReadOnly handle beside a writer of another process, over    *)
(* local files: Store::refresh, Store::refresh_to and the commit history   *)
(* they read (src/store/mod.rs, src/store/write.rs, manifest/history.rs).  *)
(*                                                                         *)
(* Every object is read by a request of its own, so the writer's appends,  *)
(* seals, prunings and compactions fall between any two of them.  A write  *)
(* is known by its number; a row holds the number of the write whose       *)
(* vector it is, a log record the number whose attributes it carries.      *)
(* Rows count from 1 and row 0 stands for a record without a vector.       *)
(* Records are of one size: the case in which a byte offset of one log is  *)
(* a frame boundary of another.                                            *)
(***************************************************************************)
EXTENDS Integers, Sequences, FiniteSets, FiniteSetsExt, SequencesExt

CONSTANTS
    Ids,            \* document ids, naturals (compact walks them in order)
    MaxWrites,      \* bound: upserts and deletes of a behaviour
    MaxCompactions, \* bound: compactions of a behaviour
    MaxCrashes,     \* bound: kills of the writer
    SegMax,         \* Config::segment_max_rows
    HistoryVersions,\* Config::history_versions, 0 for None
    PruneBatch,     \* HISTORY_PRUNE_BATCH
    Environments    \* what a behaviour may have beside the writer: sets of
                    \* "refresh" and "pin", the calls on a reading handle, of
                    \* "fault", kills and failing best-effort requests, and of
                    \* "backup" and "check", the commands of module Backup

ASSUME ReadersAssumption ==
    /\ Ids \subseteq Nat /\ IsFiniteSet(Ids)
    /\ {MaxWrites, MaxCompactions, MaxCrashes, HistoryVersions} \subseteq Nat
    /\ SegMax \in Nat \ {0} /\ PruneBatch \in Nat \ {0}
    /\ Environments \subseteq SUBSET {"refresh", "pin", "fault", "backup", "check"}

VARIABLES
    segs,     \* segment objects by number, 0 the base `data`; an absent object is empty
    logs,     \* the inodes of `log`, the last one the file the name leads to
    manifest, \* the `manifest` object
    hist,     \* the `hist-<version>` objects
    floor,    \* `hist-floor`, 0 when absent
    env,      \* the environment of this behaviour
    w,        \* the writing process
    r         \* the reading handle

vars == <<segs, logs, manifest, hist, floor, env, w, r>>

-----------------------------------------------------------------------------
(* Segments and the log *)

\* Bound: the last segment object of a behaviour.
MaxSegment == MaxWrites + 1

NoRec == [id |-> 0, row |-> 0, n |-> 0]
NoDoc == [n |-> 0, vec |-> 0]
Nothing == [id \in Ids |-> NoDoc]

\* Segments::row over the contents of the segments in order.
Rows(contents) == FlattenSeq(contents)

Current == logs[Len(logs)]

\* Mutant: a record whose row is past the segments is kept.
ReplayKeepsTorn(recs, rows, bound) ==
    [id \in Ids |->
        LET mine == {i \in DOMAIN recs : recs[i].id = id} IN
        IF mine = {} \/ recs[Max(mine)].row = 0 THEN NoDoc
        ELSE [n |-> recs[Max(mine)].n,
              vec |-> IF recs[Max(mine)].row \in DOMAIN rows THEN rows[recs[Max(mine)].row] ELSE 0]]

\* replay_ops: the last record of an id wins; a record whose row lies at or
\* past the bound is skipped whole, one without a row never is.
replay_ops(recs, rows, bound) ==
    [id \in Ids |->
        LET mine == {i \in DOMAIN recs : recs[i].id = id /\ recs[i].row <= bound} IN
        IF mine = {} \/ recs[Max(mine)].row = 0 THEN NoDoc
        ELSE [n |-> recs[Max(mine)].n, vec |-> rows[recs[Max(mine)].row]]]

\* Every segment the names lead to, as it is now.
Contents(names) == [k \in DOMAIN names |-> segs[names[k]]]

RowCount == Len(Rows(Contents(w.names)))
Active == Last(w.names)

-----------------------------------------------------------------------------
(* The writer *)

\* maybe_seal precedes every batch, so an upsert finds room.
Upsert(id) ==
    /\ w.pc = "idle" /\ w.writes < MaxWrites /\ Len(segs[Active]) < SegMax
    /\ segs' = [segs EXCEPT ![Active] = Append(@, w.writes + 1)]
    /\ w' = [w EXCEPT !.pc = "log", !.writes = @ + 1,
                      !.rec = [id |-> id, row |-> RowCount + 1, n |-> w.writes + 1]]
    /\ UNCHANGED <<env, logs, manifest, hist, floor, r>>

Delete(id) ==
    /\ w.pc = "idle" /\ w.writes < MaxWrites /\ w.docs[id] # NoDoc
    /\ w' = [w EXCEPT !.pc = "log", !.writes = @ + 1,
                      !.rec = [id |-> id, row |-> 0, n |-> w.writes + 1]]
    /\ UNCHANGED <<env, segs, logs, manifest, hist, floor, r>>

\* What the reader may serve grows with what the writer has made visible.
Witness(docs) ==
    IF r.pc = "idle" THEN r
    ELSE [r EXCEPT !.legal = [id \in Ids |-> @[id] \cup {docs[id]}]]

\* The log frame of the batch; note_commit_point then moves the version when
\* history is on.
LogAppend ==
    /\ w.pc = "log"
    /\ logs' = [logs EXCEPT ![Len(logs)] = Append(@, w.rec)]
    /\ LET docs == [w.docs EXCEPT ![w.rec.id] =
                       IF w.rec.row = 0 THEN NoDoc ELSE [n |-> w.rec.n, vec |-> w.rec.n]] IN
       /\ w' = IF HistoryVersions = 0
               THEN [w EXCEPT !.pc = "idle", !.rec = NoRec, !.docs = docs, !.before = docs]
               ELSE [w EXCEPT !.pc = "publish", !.rec = NoRec, !.docs = docs, !.version = @ + 1]
       /\ r' = Witness(docs)
    /\ UNCHANGED <<env, segs, manifest, hist, floor>>

\* Segments::seal: the next segment object, then persist_manifest.
Seal ==
    /\ w.pc = "idle" /\ w.writes < MaxWrites /\ Len(segs[Active]) >= SegMax /\ w.next <= MaxSegment
    /\ w' = [w EXCEPT !.pc = "publish", !.names = Append(@, w.next),
                      !.next = @ + 1, !.version = @ + 1]
    /\ UNCHANGED <<env, segs, logs, manifest, hist, floor, r>>

\* Mutant: the rewritten store is published under the version it had.
PublishSameVersion ==
    /\ w.pc = "publish"
    /\ manifest' = [version |-> manifest.version, names |-> w.names, next |-> w.next]
    /\ w' = [w EXCEPT !.pc = IF HistoryVersions = 0 THEN w.after ELSE "record"]
    /\ r' = IF w.after = "drop" /\ r.pc # "idle" THEN [r EXCEPT !.overlap = TRUE] ELSE r
    /\ UNCHANGED <<env, segs, logs, hist, floor>>

\* persist_manifest: the manifest object is replaced.
Publish ==
    /\ w.pc = "publish"
    /\ manifest' = [version |-> w.version, names |-> w.names, next |-> w.next]
    /\ w' = [w EXCEPT !.pc = IF HistoryVersions = 0 THEN w.after ELSE "record"]
    /\ r' = IF w.after = "drop" /\ r.pc # "idle" THEN [r EXCEPT !.overlap = TRUE] ELSE r
    /\ UNCHANGED <<env, segs, logs, hist, floor>>

\* What one commit point is rebuilt from; docs is what the writer held then.
Entry == [version |-> w.version, names |-> w.names, rows |-> RowCount,
          recs |-> Len(Current), docs |-> w.docs]

\* The step after a commit point; a finished batch has returned to its caller.
Returned(pc) ==
    [w EXCEPT !.pc = pc, !.after = "idle", !.before = IF pc = "idle" THEN w.docs ELSE @]

\* record_history_entry: best effort, after the commit point.
RecordEntry ==
    /\ w.pc = "record"
    /\ \/ hist' = {e \in hist : e.version # w.version} \cup {Entry} /\ w' = [w EXCEPT !.pc = "prune"]
       \/ "fault" \in env /\ w' = Returned(w.after) /\ UNCHANGED hist
    /\ UNCHANGED <<env, segs, logs, manifest, floor, r>>

\* What of a set of objects best-effort deletes may leave behind.
Undeleted(S) == IF "fault" \in env THEN SUBSET S ELSE {{}}

\* prune_history: entries past the retention window go, each delete best
\* effort, and pruned_through moves whatever happened to them.
PruneHistory ==
    /\ w.pc = "prune"
    /\ LET target == w.version - HistoryVersions
           through == Min({target, w.pruned + PruneBatch}) IN
       IF target <= w.pruned
       THEN w' = Returned(w.after) /\ UNCHANGED hist
       ELSE /\ \E kept \in Undeleted({e \in hist : e.version \in w.pruned + 1 .. through}) :
                 hist' = {e \in hist : e.version \notin w.pruned + 1 .. through} \cup kept
            /\ w' = [w EXCEPT !.pc = "floor", !.pruned = through]
    /\ UNCHANGED <<env, segs, logs, manifest, floor, r>>

\* The floor that follows a pruning; a failure is only logged.
StoreFloor ==
    /\ w.pc = "floor"
    /\ floor' \in {w.pruned + 1} \cup (IF "fault" \in env THEN {floor} ELSE {})
    /\ w' = Returned(w.after)
    /\ UNCHANGED <<env, segs, logs, manifest, hist, r>>

\* Mutant: the floor is left to the pruning that follows the rewrite.
CompactUnfenced ==
    /\ w.pc = "idle" /\ w.compactions < MaxCompactions
    /\ w' = [w EXCEPT !.pc = "rewrite", !.compactions = @ + 1, !.after = "drop",
                      !.reclaim = IF hist = {} THEN {} ELSE w.pruned + 1 .. w.version]
    /\ UNCHANGED <<env, segs, logs, manifest, hist, floor, r>>

\* compact, first part: the fence, when any entry is listed, before anything
\* is rewritten.
Compact ==
    /\ w.pc = "idle" /\ w.compactions < MaxCompactions
    /\ w' = [w EXCEPT !.pc = "rewrite", !.compactions = @ + 1, !.after = "drop",
                      !.reclaim = IF hist = {} THEN {} ELSE w.pruned + 1 .. w.version,
                      !.pruned = IF hist = {} THEN @ ELSE Max({@, w.version})]
    /\ floor' = IF hist = {} THEN floor ELSE w.version + 1
    /\ UNCHANGED <<env, segs, logs, manifest, hist, r>>

\* The live documents in the order of their ids.
Live ==
    LET live == {id \in Ids : w.docs[id] # NoDoc} IN
    CHOOSE s \in [1 .. Cardinality(live) -> live] : \A i, j \in DOMAIN s : i < j => s[i] < s[j]

\* Segments::rewrite: the base object is replaced in place by the live rows.
RewriteData ==
    /\ w.pc = "rewrite"
    /\ segs' = [segs EXCEPT ![0] = [k \in DOMAIN Live |-> w.docs[Live[k]].vec]]
    /\ w' = [w EXCEPT !.pc = "relog", !.dropped = Range(w.names) \ {0},
                      !.names = <<0>>, !.version = @ + 1]
    /\ r' = [r EXCEPT !.overlap = @ \/ r.pc # "idle"]
    /\ UNCHANGED <<env, logs, manifest, hist, floor>>

\* OpLog::rewrite: a new file takes the name, handles keep the old one.
RewriteLog ==
    /\ w.pc = "relog"
    /\ logs' = Append(logs, [k \in DOMAIN Live |->
                                [id |-> Live[k], row |-> k, n |-> w.docs[Live[k]].n]])
    /\ w' = [w EXCEPT !.pc = "publish"]
    /\ r' = [r EXCEPT !.overlap = @ \/ r.pc # "idle"]
    /\ UNCHANGED <<env, segs, manifest, hist, floor>>

\* The dropped segments and the fenced entries are reclaimed, best effort.
Reclaim ==
    /\ w.pc = "drop"
    /\ \E kept \in Undeleted(w.dropped) :
         segs' = [s \in DOMAIN segs |-> IF s \in w.dropped \ kept THEN <<>> ELSE segs[s]]
    /\ LET first == IF w.reclaim = {} THEN {}
                    ELSE {v \in w.reclaim : v < Min(w.reclaim) + PruneBatch} IN
       \E kept \in Undeleted({e \in hist : e.version \in first}) :
           hist' = {e \in hist : e.version \notin first} \cup kept
    /\ w' = [Returned("idle") EXCEPT !.dropped = {}, !.reclaim = {}]
    /\ UNCHANGED <<env, logs, manifest, floor, r>>

\* The writer is killed and opened again; what it wrote is in the files.
Reopen ==
    /\ "fault" \in env /\ w.crashes < MaxCrashes
    /\ LET docs == replay_ops(Current, Rows(Contents(manifest.names)),
                              Len(Rows(Contents(manifest.names)))) IN
       /\ w' = [w EXCEPT !.pc = "idle", !.crashes = @ + 1, !.after = "idle",
                         !.torn = @ \/ w.pc = "relog", !.rec = NoRec,
                         !.version = manifest.version, !.names = manifest.names,
                         !.next = manifest.next, !.dropped = {}, !.reclaim = {},
                         !.pruned = IF floor = 0 THEN 0 ELSE floor - 1,
                         !.docs = docs, !.before = docs]
       /\ r' = Witness(docs)
    /\ UNCHANGED <<env, segs, logs, manifest, hist, floor>>

-----------------------------------------------------------------------------
(* Store::refresh *)

NoManifest == [version |-> 0, names |-> <<>>, next |-> 0]
NoEntry == [version |-> 0, names |-> <<>>, rows |-> 0, recs |-> 0, docs |-> Nothing]

\* Every return of refresh and refresh_to drops its locals.
Idle(h) ==
    [h EXCEPT !.pc = "idle", !.man = NoManifest, !.to = 0, !.floor = 0, !.entry = NoEntry,
              !.staged = <<>>, !.opened = 0, !.read = 0, !.legal = [id \in Ids |-> {}],
              !.overlap = FALSE]

Compacting == w.after = "drop" /\ w.pc \in {"relog", "publish"}

\* Manifest::load.
RefreshManifest ==
    /\ "refresh" \in env /\ r.pc = "idle" /\ r.pinned = 0
    /\ r' = [r EXCEPT !.pc = "stat", !.man = manifest, !.overlap = Compacting,
                      !.legal = [id \in Ids |-> {w.before[id], w.docs[id]}]]
    /\ UNCHANGED <<env, segs, logs, manifest, hist, floor, w>>

\* The currency check: the held handle's length, against the manifest just
\* read and the log length of the served snapshot.  A list that did not change
\* keeps every segment but the active one.
RefreshStat ==
    /\ r.pc = "stat"
    /\ LET changed == \/ r.man.version # r.version
                      \/ Len(logs[r.held]) # r.loaded
           restructured == r.man.names # r.names IN
       r' = IF ~changed THEN Idle(r)
            ELSE [r EXCEPT !.pc = "segs",
                           !.staged = IF restructured THEN <<>> ELSE Front(r.contents)]
    /\ UNCHANGED <<env, segs, logs, manifest, hist, floor, w>>

\* Segments::open and reopen_active: one object after the other.
LoadSegment ==
    /\ r.pc = "segs" /\ Len(r.staged) < Len(r.man.names)
    /\ r' = [r EXCEPT !.staged = Append(@, segs[r.man.names[Len(@) + 1]])]
    /\ UNCHANGED <<env, segs, logs, manifest, hist, floor, w>>

\* OpLog::open_with on a fresh handle.
LoadLog ==
    /\ r.pc = "segs" /\ r.to = 0 /\ Len(r.staged) = Len(r.man.names)
    /\ r' = [r EXCEPT !.pc = "swap", !.opened = Len(logs), !.read = Len(Current)]
    /\ UNCHANGED <<env, segs, logs, manifest, hist, floor, w>>

\* The snapshot swaps in.  The watermark is the handle's length now, not what
\* the replay saw.
RefreshSwap ==
    /\ r.pc = "swap"
    /\ LET rows == Rows(r.staged) IN
       r' = [Idle(r) EXCEPT
                 !.names = r.man.names, !.contents = r.staged, !.version = r.man.version,
                 !.held = r.opened, !.loaded = Len(logs[r.opened]),
                 !.view = replay_ops(SubSeq(logs[r.opened], 1, r.read), rows, Len(rows))]
    /\ UNCHANGED <<env, segs, logs, manifest, hist, floor, w>>

-----------------------------------------------------------------------------
(* Store::refresh_to *)

\* resolve_pinned_entry, the ceiling: the manifest, and a version it knows.
PinCeiling(v) ==
    /\ "pin" \in env /\ r.pc = "idle" /\ v <= manifest.version
    /\ r' = [r EXCEPT !.pc = "floor", !.to = v, !.overlap = Compacting]
    /\ UNCHANGED <<env, segs, logs, manifest, hist, floor, w>>

PinFloor ==
    /\ r.pc = "floor"
    /\ r' = [r EXCEPT !.pc = "entry", !.floor = floor]
    /\ UNCHANGED <<env, segs, logs, manifest, hist, floor, w>>

\* The entry, refused below the floor: no substitute is served.
PinEntry ==
    /\ r.pc = "entry"
    /\ r' = IF r.to >= r.floor /\ \E e \in hist : e.version = r.to
            THEN LET e == CHOOSE e \in hist : e.version = r.to IN
                 [r EXCEPT !.pc = "segs", !.entry = e, !.staged = <<>>,
                           !.man = [version |-> e.version, names |-> e.names, next |-> 0]]
            ELSE Idle(r)
    /\ UNCHANGED <<env, segs, logs, manifest, hist, floor, w>>

\* Mutant: the rows bound the replay, the log offset does not.
PinSwapUnbounded ==
    /\ r.pc = "segs" /\ r.to # 0 /\ Len(r.staged) = Len(r.man.names)
    /\ r' = IF Len(Rows(r.staged)) < r.entry.rows \/ Len(Current) < r.entry.recs THEN Idle(r)
            ELSE [Idle(r) EXCEPT
                           !.pinned = r.to, !.names = r.man.names, !.contents = r.staged,
                           !.version = r.man.version, !.held = Len(logs), !.loaded = r.entry.recs,
                           !.view = replay_ops(Current, Rows(r.staged), r.entry.rows)]
    /\ UNCHANGED <<env, segs, logs, manifest, hist, floor, w>>

\* Too few rows or too short a log refuse; else the bounded replay swaps in
\* and the handle is pinned.
PinSwap ==
    /\ r.pc = "segs" /\ r.to # 0 /\ Len(r.staged) = Len(r.man.names)
    /\ r' = IF Len(Rows(r.staged)) < r.entry.rows \/ Len(Current) < r.entry.recs THEN Idle(r)
            ELSE [Idle(r) EXCEPT
                           !.pinned = r.to, !.names = r.man.names, !.contents = r.staged,
                           !.version = r.man.version, !.held = Len(logs), !.loaded = r.entry.recs,
                           !.view = replay_ops(SubSeq(Current, 1, r.entry.recs),
                                               Rows(r.staged), r.entry.rows)]
    /\ UNCHANGED <<env, segs, logs, manifest, hist, floor, w>>

-----------------------------------------------------------------------------

\* A fresh store, its first manifest, and a reader opened on it.
Init ==
    /\ segs = [s \in 0 .. MaxSegment |-> <<>>]
    /\ logs = << <<>> >>
    /\ manifest = [version |-> 1, names |-> <<0>>, next |-> 1]
    /\ hist = {} /\ floor = 0 /\ env \in Environments
    /\ w = [pc |-> "idle", after |-> "idle", version |-> 1, names |-> <<0>>, next |-> 1,
            pruned |-> 0, docs |-> Nothing, before |-> Nothing, rec |-> NoRec,
            dropped |-> {}, reclaim |-> {}, writes |-> 0, compactions |-> 0, crashes |-> 0, torn |-> FALSE]
    /\ r = [pc |-> "idle", man |-> NoManifest, names |-> <<0>>, contents |-> << <<>> >>,
            version |-> 1, held |-> 1, loaded |-> 0, pinned |-> 0, to |-> 0, floor |-> 0,
            entry |-> NoEntry, staged |-> <<>>, opened |-> 0, read |-> 0, view |-> Nothing,
            legal |-> [id \in Ids |-> {}], overlap |-> FALSE]

WriterStep ==
    LogAppend \/ Publish \/ RecordEntry \/ PruneHistory \/ StoreFloor
    \/ RewriteData \/ RewriteLog \/ Reclaim

ReaderStep == RefreshStat \/ LoadSegment \/ LoadLog \/ RefreshSwap \/ PinFloor \/ PinEntry \/ PinSwap

Next ==
    \/ \E id \in Ids : Upsert(id) \/ Delete(id)
    \/ Seal \/ Compact \/ Reopen \/ WriterStep
    \/ RefreshManifest \/ ReaderStep
    \/ \E v \in 1 .. manifest.version : PinCeiling(v)

\* A started operation of either process goes on, and the reader keeps polling.
Fairness == WF_vars(WriterStep) /\ WF_vars(ReaderStep) /\ WF_vars(RefreshManifest)

Spec == Init /\ [][Next]_vars /\ Fairness

-----------------------------------------------------------------------------
(* Properties *)

Doc == [n : 0 .. MaxWrites, vec : 0 .. MaxWrites]

\* The shape of the objects and of what either process holds of them.
TypeOK ==
    /\ \A s \in DOMAIN segs : Range(segs[s]) \subseteq 1 .. MaxWrites
    /\ \A i \in DOMAIN logs : \A k \in DOMAIN logs[i] : logs[i][k].id \in Ids
    /\ manifest.names[1] = 0 /\ Range(manifest.names) \subseteq 0 .. manifest.next - 1
    /\ floor \in Nat
    /\ w.docs \in [Ids -> Doc] /\ r.view \in [Ids -> Doc]
    /\ r.pc \in {"idle", "stat", "segs", "swap", "floor", "entry"}

\* A version that resolve_pinned_entry would accept can be rebuilt exactly
\* from the objects as they are, at every instant: while a compaction rewrites
\* them, after a kill at any point but between the two rewrites (module Store
\* has what that does to the store itself), and whatever pruning failed to
\* delete: compact's fence is written before the rewrite.
ReadableIsExact ==
    \A e \in hist : e.version >= floor /\ e.version <= manifest.version /\ ~w.torn =>
        /\ Len(Rows(Contents(e.names))) >= e.rows /\ Len(Current) >= e.recs
        /\ replay_ops(SubSeq(Current, 1, e.recs), Rows(Contents(e.names)), e.rows) = e.docs

\* A refresh that no compaction overlapped, whether it adopted something or
\* reported the snapshot current, leaves every document with its own vector
\* and with a value it had at some instant since the manifest was read.
RefreshRegular ==
    [][r.pc \in {"stat", "swap"} /\ r'.pc = "idle" /\ ~r.overlap /\ w.crashes = 0 =>
         \A id \in Ids : r'.view[id] \in r.legal[id]]_vars

\* A pin that no compaction overlapped serves exactly the commit point it
\* names, whatever was appended, deleted or sealed since.
PinExact ==
    [][r'.pinned # 0 /\ r.pc = "segs" /\ r'.pc = "idle" /\ ~r.overlap /\ ~w.torn /\ r'.pinned = r.to =>
         r'.view = r.entry.docs]_vars

\* A reader that keeps polling ends up serving what the writer holds, also
\* after a refresh that read across a compaction: the version that moved, or
\* the log that grew, makes the next refresh repair it.
Converges == "refresh" \in env => <>[](r.pinned = 0 /\ w.crashes = 0 => r.view = w.docs)

\* refresh moves to the newer state at one consistent point (SPEC 14.6): what
\* it serves is the writer's documents after some prefix of the log.
OneInstant ==
    [][r.pc = "swap" /\ r'.pc = "idle" /\ ~r.overlap =>
         \E k \in 0 .. r.read :
             r'.view = replay_ops(SubSeq(logs[r.opened], 1, k), Rows(Contents(w.names)), RowCount)]_vars

\* A reader sees the segment set of one version, never a torn mix (SPEC 14.4,
\* Consistency): every document is served with its own vector.
ServedOwn == \A id \in Ids : r.view[id].n = r.view[id].vec

\* History that a compaction rewrote is refused and never served (SPEC 14.2):
\* a pinned handle serves the documents of the commit it names.
PinNeverSubstitutes ==
    [][r.pc = "segs" /\ r'.pinned = r.to /\ r.to # 0 => r'.view = r.entry.docs]_vars

=============================================================================
