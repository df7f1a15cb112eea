-------------------------------- MODULE Store --------------------------------
(***************************************************************************)
(* The writer of one durable store: the segment set (`data`, `seg-…`), the *)
(* op log, the manifest and the in-RAM index, through upsert, delete,      *)
(* delete_where_all, reinforce, commit, flush, seal, compact, crash and    *)
(* reopen (src/store/write.rs, src/store/mod.rs, src/data/segments.rs,     *)
(* src/log/mod.rs).                                                        *)
(*                                                                         *)
(* A record is known by the stamp its upsert gave it; the stamp stands for *)
(* the attrs in the log record and for the vector in every row the record  *)
(* appended, so "doc d is served with its own vector" is "every row of d   *)
(* holds d's stamp".  Rows are numbered over all segments, from 0, the way *)
(* Segments numbers them.  A call is a sequence of steps (op.pc), so that a*)
(* failure or a crash can come between any two of its backend calls.       *)
(***************************************************************************)
EXTENDS Files, FiniteSets

CONSTANTS
    Docs,             \* document ids, a finite set of integers (ids are sorted)
    MaxVecs,          \* named vectors a record carries: 0 (text only) .. MaxVecs
    MaxBatch,         \* records of one upsert
    MaxCalls,         \* bound: calls in a behaviour
    MaxStamps,        \* bound: records staged in a behaviour
    MaxSeg,           \* bound: seg-1 .. seg-MaxSeg can be created
    MaxCrashes,       \* bound: crashes in a behaviour
    MaxStamping,      \* bound: reinforcement stamps a doc receives
    Capacity,         \* Config::max_vector_bytes, in rows
    SegmentMaxRows,   \* Config::segment_max_rows; 0 is None
    Fsync,            \* Config::fsync: "PerBatch" or "OnFlush"
    Deferring,        \* whether calls may run inside Nidus::deferred
    Publishes,        \* cluster or history_versions is set (note_commit_point)
    Faults,           \* backend calls that may fail: append, sync, publish, rewrite
    Calls,            \* the calls a client makes besides upsert
    CompactCrash      \* whether a crash may fall inside compact

ASSUME StoreAssumption ==
    /\ Docs \subseteq Nat /\ IsFiniteSet(Docs)
    /\ MaxVecs \in Nat /\ MaxBatch \in Nat /\ MaxCalls \in Nat /\ MaxStamps \in Nat
    /\ MaxSeg \in Nat /\ MaxCrashes \in Nat /\ MaxStamping \in Nat
    /\ Capacity \in Nat /\ SegmentMaxRows \in Nat
    /\ Fsync \in {"PerBatch", "OnFlush"}
    /\ Deferring \subseteq BOOLEAN
    /\ Publishes \in BOOLEAN /\ CompactCrash \in BOOLEAN
    /\ Faults \subseteq {"append", "sync", "publish", "rewrite"}
    /\ Calls \subseteq {"delete", "sweep", "reinforce", "commit", "flush", "compact"}

VARIABLES
    files,            \* segment objects: 0 is `data`, k is seg-k
    log,              \* the op log
    manifest,         \* the published manifest
    up,               \* a writer has the store open
    segments,         \* Segments::segs, by name; the last one is active
    base,             \* Segments::base, the first global row of each segment
    next_id,          \* Segments::next_id
    version,          \* Segments::version
    docs,             \* the in-RAM index
    dead_rows,        \* Store::dead_rows
    pending_barrier,  \* Store::pending_barrier
    op,               \* the call in progress
    calls,            \* calls made so far
    stamps,           \* records staged so far
    crashes,          \* crashes so far
    allowed,          \* per doc, the stamps a recovery may find (0: no doc)
    ahead             \* docs a failed delete took out of RAM but not of the log

disk == <<files, log, manifest>>
ram  == <<up, segments, base, next_id, version, docs, dead_rows, pending_barrier>>
aux  == <<calls, stamps, crashes, allowed, ahead>>
vars == <<disk, ram, op, aux>>

SegName == 0..MaxSeg
BASE_SEGMENT == 0

-----------------------------------------------------------------------------
(* Documents and log records *)

Absent == [rows |-> {}, stamp |-> 0, acc |-> 0]

\* Op::UpsertVectors / Op::UpsertText, Op::Delete and Op::Reinforce.
UpsertOp(d, rows, s)  == [kind |-> "upsert", id |-> d, rows |-> rows, stamp |-> s, acc |-> 0]
DeleteOp(d)           == [kind |-> "delete", id |-> d, rows |-> {}, stamp |-> 0, acc |-> 0]
ReinforceOp(d, n)     == [kind |-> "reinforce", id |-> d, rows |-> {}, stamp |-> 0, acc |-> n]

\* What compact has decided on: the relocated index, the new log and the
\* segments the rewrite drops.
NoPlan == [docs |-> [d \in Docs |-> Absent], log |-> <<>>, dropped |-> {}]

\* No call in progress.
Idle0 == [pc |-> "idle", kind |-> "none", batch |-> <<>>, staged |-> <<>>,
          dmark |-> 0, lmark |-> 0, barrier |-> FALSE, first |-> 0, i |-> 0,
          plan |-> NoPlan]

Idle == up /\ op.pc = "idle"

\* A client makes a call.
Call == Idle /\ calls < MaxCalls /\ calls' = calls + 1

\* Where a set of segments starts, segment by segment: Segments::open's
\* running total.
Bases(names, content) ==
    [i \in 1..Len(names) |->
        Cardinality(UNION {{j} \X (1..Len(content[names[j]])) : j \in 1..(i - 1)})]

\* Segments::row_count over contents `content` and bases b.
Rows(names, b, content) == b[Len(names)] + Len(content[names[Len(names)]])

\* Segment i is the one Segments::row looks global row r up in, and has it.
Holds(names, b, content, i, r) ==
    /\ b[i] <= r /\ \A j \in (i + 1)..Len(names) : r < b[j]
    /\ r < b[i] + Len(content[names[i]])

\* Segments::row: the vector of global row r.
RowOf(names, b, content, r) ==
    LET i == CHOOSE j \in DOMAIN names : Holds(names, b, content, j, r)
    IN content[names[i]][r - b[i] + 1]

Current == [n \in SegName |-> files[n].cur]
Active == segments[Len(segments)]
ActiveRows == Len(files[Active].cur)
RowCount == Rows(segments, base, Current)

-----------------------------------------------------------------------------
(* Replay: what Store::replay_ops makes of log content l over n rows.       *)

\* A record one of whose rows lies past the data is skipped whole.
Counted(o, n) == \A r \in o.rows : r < n

Writes(l, n, d) ==
    {i \in DOMAIN l : l[i].id = d /\ l[i].kind # "reinforce" /\ Counted(l[i], n)}

Latest(S) == CHOOSE i \in S : \A j \in S : j <= i

ReplayDoc(l, n, d) ==
    LET W == Writes(l, n, d)
        w == l[Latest(W)]
        R == {j \in DOMAIN l : j > Latest(W) /\ l[j].id = d /\ l[j].kind = "reinforce"}
    IN  IF W = {} \/ w.kind = "delete" THEN Absent
        ELSE [rows  |-> w.rows, stamp |-> w.stamp,
              acc   |-> IF R = {} THEN w.acc ELSE l[Latest(R)].acc]

replay_ops(l, n) == [d \in Docs |-> ReplayDoc(l, n, d)]

\* Every row of a record that a later record of the same doc replaced.
ReplayDead(l, n) ==
    LET Superseded == {k \in DOMAIN l : LET W == Writes(l, n, l[k].id)
                                         IN k \in W /\ \E j \in W : j > k}
    IN Cardinality(UNION {{<<k, r>> : r \in l[k].rows} : k \in Superseded})

-----------------------------------------------------------------------------
(* Helpers of the steps *)

barrier_now(defer) == Fsync = "PerBatch" /\ ~defer

\* Mutant: the version is recomputed from the segment set.
NextVersionFromSegments == Len(segments) + 1

\* Every change of the segment set and every commit point moves the version.
NextVersion == version + 1

Manifest(names, id, v) == [segments |-> names, next_id |-> id, version |-> v]

PutActive(s) == files' = [files EXCEPT ![Active] = Wrote(@, s)]

\* Mutant: the rollback truncates one row below its mark.
TruncateDataBelow(mark) ==
    PutActive(SubSeq(files[Active].cur, 1, mark - base[Len(base)] - 1))

\* Segments::truncate_to and OpLog::truncate_to, the batch rollback.
TruncateData(mark) ==
    PutActive(SubSeq(files[Active].cur, 1, mark - base[Len(base)]))
TruncateLog(f, mark) == Wrote(f, SubSeq(f.cur, 1, mark))

Return == op' = Idle0

\* The caller is told Ok for these docs: from now on a recovery finds them as
\* the index has them.
Promise(S, index) == [d \in Docs |-> IF d \in S THEN {index[d].stamp} ELSE allowed[d]]

\* The docs of S by id.
Orders(S) ==
    {f \in [1..Cardinality(S) -> S] : \A i, j \in DOMAIN f : i < j => f[i] < f[j]}

LiveDocs == {d \in Docs : docs[d].stamp # 0}

NeedsSeal == SegmentMaxRows > 0 /\ ActiveRows >= SegmentMaxRows /\ ActiveRows > 0

-----------------------------------------------------------------------------
(* upsert *)

Batches == UNION {[1..k -> [id : Docs, vecs : 0..MaxVecs]] : k \in 1..MaxBatch}

\* Upsert is admitted: the batch is validated and the seal check comes next.
UpsertBegin(b, defer) ==
    /\ Call
    /\ stamps + Len(b) <= MaxStamps
    /\ NeedsSeal => next_id <= MaxSeg
    /\ stamps' = stamps + Len(b)
    /\ op' = [Idle0 EXCEPT !.pc = "seal", !.kind = "upsert", !.batch = b,
                           !.barrier = barrier_now(defer), !.first = stamps]
    /\ UNCHANGED <<disk, ram, crashes, allowed, ahead>>

\* Mutant: the capacity check forgets the batch's own rows.
FitsBefore(rows) == rows <= Capacity

\* The capacity pre-check: every vector the batch would append fits.
Fits(rows) ==
    rows + Cardinality(UNION {{<<k, v>> : v \in 1..op.batch[k].vecs} : k \in DOMAIN op.batch})
      <= Capacity

\* What the caller of maybe_seal does next: upsert checks the capacity and
\* takes its rollback marks, flush returns.
AfterSeal(rows) ==
    IF op.kind = "flush" THEN Return
    ELSE IF Fits(rows)
    THEN op' = [op EXCEPT !.pc = "data", !.dmark = rows, !.lmark = Len(log.cur)]
    ELSE Return

\* maybe_seal with the active segment below the threshold.
SealSkip ==
    /\ up /\ op.pc = "seal" /\ ~NeedsSeal
    /\ AfterSeal(RowCount)
    /\ UNCHANGED <<disk, ram, aux>>

\* maybe_seal: Segments::seal opens seg-<next_id> (with whatever rows that
\* object already holds), syncs it and makes it the active segment; then the
\* manifest is published.  When the publish fails the call returns Err with
\* the new segment already active in RAM.
Seal ==
    /\ up /\ op.pc = "seal" /\ NeedsSeal
    /\ LET names == Append(segments, next_id) IN
       /\ files' = [files EXCEPT ![next_id] = Synced(@)]
       /\ segments' = names
       /\ base' = Append(base, RowCount)
       /\ next_id' = next_id + 1
       /\ version' = NextVersion
       /\ \/ /\ manifest' = Manifest(names, next_id + 1, NextVersion)
             /\ AfterSeal(RowCount + Len(files[next_id].cur))
          \/ /\ "publish" \in Faults
             /\ UNCHANGED manifest
             /\ Return
    /\ UNCHANGED <<log, up, docs, dead_rows, pending_barrier, aux>>

\* The new segment could not be synced, or the sealed one's checksum not
\* saved: the segment set stays as it was.
SealFails ==
    /\ up /\ op.pc = "seal" /\ NeedsSeal /\ "sync" \in Faults
    /\ files' = [files EXCEPT ![next_id] = SyncFailed(@)]
    /\ Return
    /\ UNCHANGED <<log, manifest, ram, aux>>

\* Phase 1: the vectors of the next record go to the active segment, one row
\* each; a failed append truncates the segment back to the mark.
UpsertData ==
    /\ up /\ op.pc = "data"
    /\ LET k    == Len(op.staged) + 1
           s    == op.first + k
           rec  == op.batch[k]
           vecs == [j \in 1..rec.vecs |-> s]
           rows == RowCount..(RowCount + rec.vecs - 1)
       IN \/ /\ PutActive(files[Active].cur \o vecs)
             /\ op' = [op EXCEPT !.staged = Append(@, [id |-> rec.id, rows |-> rows, stamp |-> s]),
                                 !.pc = IF k < Len(op.batch) THEN "data"
                                        ELSE IF op.barrier THEN "dsync" ELSE "log"]
          \/ /\ "append" \in Faults
             /\ rec.vecs > 0
             /\ TruncateData(op.dmark)
             /\ Return
    /\ UNCHANGED <<log, manifest, ram, aux>>

\* Mutant: the log records are appended without the data fsync.
UpsertSkipsDataSync ==
    /\ up /\ op.pc = "dsync"
    /\ op' = [op EXCEPT !.pc = "log"]
    /\ UNCHANGED <<disk, ram, aux>>

\* Phase 2: fsync data before the log records, when the batch takes its own
\* barrier.
UpsertSyncData ==
    /\ up /\ op.pc = "dsync"
    /\ \/ /\ files' = [files EXCEPT ![Active] = Synced(@)]
          /\ op' = [op EXCEPT !.pc = "log"]
       \/ /\ "sync" \in Faults
          /\ LET f == SyncFailed(files[Active]) IN
             files' = [files EXCEPT ![Active] =
                          Wrote(f, SubSeq(f.cur, 1, op.dmark - base[Len(base)]))]
          /\ Return
    /\ UNCHANGED <<log, manifest, ram, aux>>

\* Mutant: a failed batch unwinds its rows and leaves its log records.
RollbackDataOnly(f) ==
    /\ log' = f
    /\ TruncateData(op.dmark)
    /\ Return

\* Store::rollback from log content f: the log first, then the data.
rollback(f) ==
    /\ log' = TruncateLog(f, op.lmark)
    /\ TruncateData(op.dmark)
    /\ Return

\* Phase 3: one log record per document.
UpsertLog ==
    /\ up /\ op.pc = "log"
    /\ LET k == op.i + 1
           r == op.staged[k]
       IN \/ /\ log' = Wrote(log, Append(log.cur, UpsertOp(r.id, r.rows, r.stamp)))
             /\ op' = [op EXCEPT !.i = k,
                                 !.pc = IF k < Len(op.staged) THEN "log" ELSE "lsync"]
             /\ allowed' = [allowed EXCEPT ![r.id] = @ \cup {r.stamp}]
             /\ UNCHANGED files
          \/ /\ "append" \in Faults
             /\ rollback(log)
             /\ UNCHANGED allowed
    /\ UNCHANGED <<manifest, ram, calls, stamps, crashes, ahead>>

\* Phase 5's index: the last staged record of a doc is the one it ends with,
\* and every row set it replaced is dead.
Staged(d) == {k \in DOMAIN op.staged : op.staged[k].id = d}

Committed ==
    [d \in Docs |->
        IF Staged(d) = {} THEN docs[d]
        ELSE LET r == op.staged[Latest(Staged(d))]
             IN [rows |-> r.rows, stamp |-> r.stamp, acc |-> 0]]

Replaced ==
    Cardinality(UNION {docs[d].rows : d \in {e \in Docs : Staged(e) # {}}})
      + Cardinality(UNION {op.staged[k].rows :
            k \in {j \in DOMAIN op.staged : j # Latest(Staged(op.staged[j].id))}})

\* Mutant: the batch is acknowledged without the log fsync.
UpsertSkipsLogSync ==
    /\ up /\ op.pc = "lsync"
    /\ docs' = Committed
    /\ dead_rows' = dead_rows + Replaced
    /\ op' = [op EXCEPT !.pc = "publish"]
    /\ UNCHANGED <<disk, up, segments, base, next_id, version, pending_barrier, aux>>

\* Phases 4 and 5: fsync the log, or leave the barrier owed; then commit to
\* the index.
UpsertSyncLog ==
    /\ up /\ op.pc = "lsync"
    /\ \/ /\ IF op.barrier
             THEN log' = Synced(log) /\ UNCHANGED pending_barrier
             ELSE pending_barrier' = TRUE /\ UNCHANGED log
          /\ docs' = Committed
          /\ dead_rows' = dead_rows + Replaced
          /\ op' = IF op.barrier THEN [op EXCEPT !.pc = "publish"] ELSE Idle0
          /\ ahead' = ahead \ {op.staged[k].id : k \in DOMAIN op.staged}
          /\ UNCHANGED files
       \/ /\ op.barrier /\ "sync" \in Faults
          /\ rollback(SyncFailed(log))
          /\ UNCHANGED <<docs, dead_rows, pending_barrier, ahead>>
    /\ UNCHANGED <<manifest, up, segments, base, next_id, version, calls, stamps, crashes, allowed>>

-----------------------------------------------------------------------------
(* The shared tail of a call: maybe_sync, commit and flush take the data   *)
(* barrier, then the log barrier, then note_commit_point.                  *)

\* A call that fails in its barrier: the sweep unwinds the log it appended.
FailBarrier(l) ==
    /\ log' = IF op.kind = "sweep" THEN TruncateLog(l, op.lmark) ELSE l
    /\ Return

BarrierData ==
    /\ up /\ op.pc = "bdata"
    /\ \/ /\ files' = [files EXCEPT ![Active] = Synced(@)]
          /\ op' = [op EXCEPT !.pc = "blog"]
          /\ UNCHANGED log
       \/ /\ "sync" \in Faults
          /\ files' = [files EXCEPT ![Active] = SyncFailed(@)]
          /\ FailBarrier(log)
    /\ UNCHANGED <<manifest, ram, aux>>

BarrierLog ==
    /\ up /\ op.pc = "blog"
    /\ \/ log' = Synced(log) /\ op' = [op EXCEPT !.pc = "publish"]
       \/ "sync" \in Faults /\ FailBarrier(SyncFailed(log))
    /\ UNCHANGED <<files, manifest, ram, aux>>

\* What the call still does once its bytes are durable.
Finish ==
    LET S    == {op.staged[k].id : k \in DOMAIN op.staged}
        swept == [d \in Docs |-> IF d \in S THEN Absent ELSE docs[d]]
    IN  CASE op.kind = "sweep" ->
                /\ docs' = swept
                /\ dead_rows' = dead_rows + Cardinality(UNION {docs[d].rows : d \in S})
                /\ allowed' = Promise(S, swept)
                /\ Return /\ UNCHANGED pending_barrier
          [] op.kind \in {"commit", "flush"} ->
                /\ allowed' = Promise(Docs \ ahead, docs)
                /\ pending_barrier' = FALSE
                /\ IF op.kind = "flush" THEN op' = [op EXCEPT !.pc = "seal"] ELSE Return
                /\ UNCHANGED <<docs, dead_rows>>
          [] OTHER ->
                /\ allowed' = Promise(S, docs)
                /\ Return /\ UNCHANGED <<docs, dead_rows, pending_barrier>>

\* note_commit_point: with a cluster or a history, every durable batch bumps
\* the version and publishes the manifest; flush does so only when a barrier
\* was owed.
NotesCommit ==
    Publishes /\ (op.kind = "flush" => (Fsync = "OnFlush" \/ pending_barrier))

NoteCommitPoint ==
    /\ up /\ op.pc = "publish"
    /\ \/ /\ ~NotesCommit
          /\ Finish
          /\ UNCHANGED <<version, manifest, log>>
       \/ /\ NotesCommit
          /\ version' = NextVersion
          /\ manifest' = Manifest(segments, next_id, NextVersion)
          /\ Finish
          /\ UNCHANGED log
       \/ /\ NotesCommit /\ "publish" \in Faults
          /\ version' = NextVersion
          /\ FailBarrier(log)
          /\ UNCHANGED <<manifest, docs, dead_rows, pending_barrier, allowed>>
    /\ UNCHANGED <<files, up, segments, base, next_id, calls, stamps, crashes, ahead>>

-----------------------------------------------------------------------------
(* delete, delete_where_all, reinforce, commit, flush *)

\* Both deletes resolve the ids they will take out against the index first.
DeleteBegin(kind, S, defer) ==
    /\ Call /\ kind \in Calls
    /\ S # {} /\ S \subseteq LiveDocs
    /\ \E order \in Orders(S) :
           op' = [Idle0 EXCEPT !.pc = IF kind = "sweep" THEN "slog" ELSE "dlog", !.kind = kind,
                     !.staged = [k \in DOMAIN order |-> [id |-> order[k], rows |-> {}, stamp |-> 0]],
                     !.lmark = Len(log.cur), !.barrier = barrier_now(defer)]
    /\ UNCHANGED <<disk, ram, stamps, crashes, allowed, ahead>>

\* delete takes each doc out of the index before it appends the record, with
\* no rollback: a failed append returns Err with the doc gone from RAM and
\* still in the log, and the ids before it deleted without a barrier.
DeleteLog ==
    /\ up /\ op.pc = "dlog"
    /\ LET k == op.i + 1
           d == op.staged[k].id
       IN /\ docs' = [docs EXCEPT ![d] = Absent]
          /\ dead_rows' = dead_rows + Cardinality(docs[d].rows)
          /\ \/ /\ log' = Wrote(log, Append(log.cur, DeleteOp(d)))
                /\ allowed' = [allowed EXCEPT ![d] = @ \cup {0}]
                /\ IF k < Len(op.staged)
                   THEN op' = [op EXCEPT !.i = k] /\ UNCHANGED pending_barrier
                   ELSE IF op.barrier
                   THEN op' = [op EXCEPT !.pc = "bdata"] /\ UNCHANGED pending_barrier
                   ELSE Return /\ pending_barrier' = TRUE
                /\ UNCHANGED ahead
             \/ /\ "append" \in Faults
                /\ ahead' = ahead \cup {d}
                /\ Return
                /\ UNCHANGED <<log, allowed, pending_barrier>>
    /\ UNCHANGED <<files, manifest, up, segments, base, next_id, version, calls, stamps, crashes>>

\* The records of delete_where_all go to the log one by one, unwound as a
\* unit on failure; without a barrier of its own it commits to the index next.
SweepLog ==
    /\ up /\ op.pc = "slog"
    /\ LET k == op.i + 1
           d == op.staged[k].id
       IN \/ /\ log' = Wrote(log, Append(log.cur, DeleteOp(d)))
             /\ allowed' = [allowed EXCEPT ![d] = @ \cup {0}]
             /\ op' = [op EXCEPT !.i = k,
                          !.pc = IF k < Len(op.staged) THEN "slog"
                                 ELSE IF op.barrier THEN "bdata" ELSE "sweep"]
          \/ /\ "append" \in Faults
             /\ log' = TruncateLog(log, op.lmark)
             /\ Return /\ UNCHANGED allowed
    /\ UNCHANGED <<files, manifest, ram, calls, stamps, crashes, ahead>>

SweepDeferred ==
    /\ up /\ op.pc = "sweep"
    /\ LET S == {op.staged[k].id : k \in DOMAIN op.staged} IN
       /\ docs' = [d \in Docs |-> IF d \in S THEN Absent ELSE docs[d]]
       /\ dead_rows' = dead_rows + Cardinality(UNION {docs[d].rows : d \in S})
    /\ pending_barrier' = TRUE
    /\ Return
    /\ UNCHANGED <<disk, up, segments, base, next_id, version, aux>>

\* reinforce stamps a live doc; its barrier is the log alone.
Reinforce(d, defer) ==
    /\ Call /\ "reinforce" \in Calls
    /\ d \in LiveDocs /\ docs[d].acc < MaxStamping
    /\ LET n == docs[d].acc + 1
           l == Wrote(log, Append(log.cur, ReinforceOp(d, n)))
       IN \/ /\ docs' = [docs EXCEPT ![d].acc = n]
             /\ IF barrier_now(defer)
                THEN /\ log' = Synced(l)
                     /\ op' = [Idle0 EXCEPT !.pc = "publish", !.kind = "reinforce"]
                     /\ UNCHANGED pending_barrier
                ELSE log' = l /\ pending_barrier' = TRUE /\ UNCHANGED op
          \/ /\ barrier_now(defer) /\ "sync" \in Faults
             /\ log' = TruncateLog(SyncFailed(l), Len(log.cur))
             /\ UNCHANGED <<docs, op, pending_barrier>>
          \/ /\ "append" \in Faults
             /\ UNCHANGED <<log, docs, op, pending_barrier>>
    /\ UNCHANGED <<files, manifest, up, segments, base, next_id, version, dead_rows, stamps, crashes, allowed, ahead>>

\* Store::commit, the group barrier; nothing to do unless one is owed.
Commit ==
    /\ Call /\ "commit" \in Calls
    /\ pending_barrier /\ Fsync # "OnFlush"
    /\ op' = [Idle0 EXCEPT !.pc = "bdata", !.kind = "commit"]
    /\ UNCHANGED <<disk, ram, stamps, crashes, allowed, ahead>>

Flush ==
    /\ Call /\ "flush" \in Calls
    /\ NeedsSeal => next_id <= MaxSeg
    /\ op' = [Idle0 EXCEPT !.pc = "bdata", !.kind = "flush"]
    /\ UNCHANGED <<disk, ram, stamps, crashes, allowed, ahead>>

-----------------------------------------------------------------------------
(* compact *)

LiveRows == UNION {{d} \X docs[d].rows : d \in Docs}

\* Compact walks the docs by id and gives each live row the next index.
Renumbers(place) ==
    /\ \A p, q \in LiveRows :
          p[1] < q[1] \/ (p[1] = q[1] /\ p[2] < q[2]) => place[p] < place[q]
    /\ \A k \in 0..(Cardinality(LiveRows) - 1) : \E p \in LiveRows : place[p] = k

Relocated(place) ==
    [d \in Docs |-> [docs[d] EXCEPT !.rows = {place[<<d, r>>] : r \in docs[d].rows}]]

\* The matrix compact writes: each live row's vector, copied to its new place.
CompactedRows(place) ==
    [k \in 1..Cardinality(LiveRows) |->
        LET p == CHOOSE q \in LiveRows : place[q] = k - 1
        IN RowOf(segments, base, Current, p[2])]

\* The log compact writes: one record per live doc, sorted by id.
CompactedLog(place, order) ==
    [k \in DOMAIN order |->
        LET d == order[k]
        IN [UpsertOp(d, Relocated(place)[d].rows, docs[d].stamp) EXCEPT !.acc = docs[d].acc]]

Compact ==
    /\ Call /\ "compact" \in Calls
    /\ op' = [Idle0 EXCEPT !.pc = "crows", !.kind = "compact"]
    /\ UNCHANGED <<disk, ram, stamps, crashes, allowed, ahead>>

\* Segments::row of a row past the matrix panics: a compaction that failed
\* half way leaves such rows in the index.
RowsInRange ==
    \A p \in LiveRows : \E i \in DOMAIN segments : Holds(segments, base, Current, i, p[2])

\* Segments::rewrite: `data` is replaced in place and the segment set collapses;
\* when the new checksum cannot be saved the set stays, over the new `data`.
CompactData ==
    /\ up /\ op.pc = "crows"
    /\ \/ /\ RowsInRange
          /\ \E place \in [LiveRows -> 0..(Cardinality(LiveRows) - 1)], order \in Orders(LiveDocs) :
               /\ Renumbers(place)
               /\ files' = [files EXCEPT ![BASE_SEGMENT] = File(CompactedRows(place))]
               /\ \/ /\ op' = [op EXCEPT !.pc = "clog",
                                  !.plan = [docs |-> Relocated(place),
                                            log |-> CompactedLog(place, order),
                                            dropped |-> {segments[i] : i \in 2..Len(segments)}]]
                     /\ segments' = <<BASE_SEGMENT>>
                     /\ base' = <<0>>
                     /\ version' = NextVersion
                  \/ /\ "rewrite" \in Faults
                     /\ Return
                     /\ UNCHANGED <<segments, base, version>>
       \/ /\ "rewrite" \in Faults \/ ~RowsInRange
          /\ Return
          /\ UNCHANGED <<files, segments, base, version>>
    /\ UNCHANGED <<log, manifest, up, next_id, docs, dead_rows, pending_barrier, aux>>

\* OpLog::rewrite.  From here a recovery replays the compacted log.
CompactLog ==
    /\ up /\ op.pc = "clog"
    /\ \/ /\ log' = File(op.plan.log)
          /\ op' = [op EXCEPT !.pc = "cpublish"]
          /\ allowed' = Promise(Docs, docs)
       \/ "rewrite" \in Faults /\ Return /\ UNCHANGED <<log, allowed>>
    /\ UNCHANGED <<files, manifest, ram, calls, stamps, crashes, ahead>>

\* The manifest is published; then the dropped segments are deleted, best
\* effort, and the index takes the new rows.
CompactPublish ==
    /\ up /\ op.pc = "cpublish"
    /\ \/ /\ manifest' = Manifest(segments, next_id, version)
          /\ \E kept \in SUBSET op.plan.dropped :
                /\ kept = {} \/ "rewrite" \in Faults
                /\ files' = [n \in SegName |-> IF n \in op.plan.dropped \ kept
                                               THEN File(<<>>) ELSE files[n]]
          /\ docs' = op.plan.docs
          /\ dead_rows' = 0
          /\ ahead' = {}
       \/ /\ "publish" \in Faults
          /\ UNCHANGED <<manifest, files, docs, dead_rows, ahead>>
    /\ Return
    /\ UNCHANGED <<log, up, segments, base, next_id, version, pending_barrier,
                   calls, stamps, crashes, allowed>>

-----------------------------------------------------------------------------
(* Crash and reopen *)

CrashPossible == up => (CompactCrash \/ op.kind # "compact")

\* The contents a crash can leave in the segment objects.
CrashContents ==
    {c \in [SegName -> UNION {files[n].poss : n \in SegName}] :
        \A n \in SegName : c[n] \in files[n].poss}

\* The process or the machine dies: RAM is gone, each object is one of the
\* contents it may hold.
Crash ==
    /\ up /\ CrashPossible /\ crashes < MaxCrashes
    /\ crashes' = crashes + 1
    /\ \E c \in CrashContents : files' = [n \in SegName |-> File(c[n])]
    /\ log' \in AfterCrash(log)
    /\ up' = FALSE
    /\ Return
    /\ UNCHANGED <<manifest, segments, base, next_id, version, docs, dead_rows,
                   pending_barrier, calls, stamps, allowed, ahead>>

\* Store::open_with: the manifest names the segments, the log is replayed over
\* their rows.  Whatever is found is from now on what the store holds.
Open ==
    /\ ~up
    /\ up' = TRUE
    /\ segments' = manifest.segments
    /\ next_id' = manifest.next_id
    /\ version' = manifest.version
    /\ LET b == Bases(manifest.segments, Current)
           n == Rows(manifest.segments, b, Current)
       IN  /\ base' = b
           /\ n <= Capacity
           /\ docs' = replay_ops(log.cur, n)
           /\ dead_rows' = ReplayDead(log.cur, n)
    /\ pending_barrier' = FALSE
    /\ allowed' = [d \in Docs |-> {docs'[d].stamp}]
    /\ ahead' = {}
    /\ UNCHANGED <<disk, op, calls, stamps, crashes>>

Init ==
    /\ files = [n \in SegName |-> File(<<>>)]
    /\ log = File(<<>>)
    /\ manifest = Manifest(<<BASE_SEGMENT>>, 1, 1)
    /\ up = TRUE
    /\ segments = <<BASE_SEGMENT>> /\ base = <<0>>
    /\ next_id = 1 /\ version = 1
    /\ docs = [d \in Docs |-> Absent]
    /\ dead_rows = 0 /\ pending_barrier = FALSE
    /\ op = Idle0
    /\ calls = 0 /\ stamps = 0 /\ crashes = 0
    /\ allowed = [d \in Docs |-> {0}]
    /\ ahead = {}

Next ==
    \/ \E b \in Batches, defer \in Deferring : UpsertBegin(b, defer)
    \/ SealSkip \/ Seal \/ SealFails
    \/ UpsertData \/ UpsertSyncData \/ UpsertLog \/ UpsertSyncLog
    \/ BarrierData \/ BarrierLog \/ NoteCommitPoint
    \/ \E S \in SUBSET Docs, defer \in Deferring, kind \in {"delete", "sweep"} :
          DeleteBegin(kind, S, defer)
    \/ \E d \in Docs, defer \in Deferring : Reinforce(d, defer)
    \/ DeleteLog \/ SweepLog \/ SweepDeferred
    \/ Commit \/ Flush
    \/ Compact \/ CompactData \/ CompactLog \/ CompactPublish
    \/ Crash \/ Open

Spec == Init /\ [][Next]_vars

-----------------------------------------------------------------------------
(* Properties *)

Stamp == Nat
RowSet == {S \in SUBSET Nat : IsFiniteSet(S)}
Entry == [rows : RowSet, stamp : Stamp, acc : Nat]
LogOp == [kind : {"upsert", "delete", "reinforce"}, id : Docs, rows : RowSet,
          stamp : Stamp, acc : Nat]
ManifestType == [segments : Seq(SegName), next_id : Nat, version : Nat]
OpType ==
    [pc : {"idle", "seal", "data", "dsync", "log", "lsync", "bdata", "blog", "publish",
           "dlog", "slog", "sweep", "crows", "clog", "cpublish"},
     kind : {"none", "upsert", "delete", "sweep", "reinforce", "commit", "flush", "compact"},
     batch : Seq([id : Docs, vecs : 0..MaxVecs]),
     staged : Seq([id : Docs, rows : RowSet, stamp : Stamp]),
     dmark : Nat, lmark : Nat, barrier : BOOLEAN, first : Nat, i : Nat,
     plan : [docs : [Docs -> Entry], log : Seq(LogOp), dropped : SUBSET SegName]]

\* The shape of the store's objects, of the index and of a call's progress.
TypeOK ==
    /\ DOMAIN files = SegName
    /\ \A n \in SegName : files[n].cur \in Seq(Stamp) /\ files[n].poss \subseteq Seq(Stamp)
    /\ log.cur \in Seq(LogOp) /\ log.poss \subseteq Seq(LogOp)
    /\ manifest \in ManifestType
    /\ up \in BOOLEAN /\ pending_barrier \in BOOLEAN
    /\ segments \in Seq(SegName) /\ base \in Seq(Nat)
    /\ next_id \in Nat /\ version \in Nat
    /\ docs \in [Docs -> Entry] /\ dead_rows \in Nat
    /\ op \in OpType
    /\ calls \in Nat /\ stamps \in Nat /\ crashes \in Nat
    /\ allowed \in [Docs -> SUBSET Stamp] /\ ahead \subseteq Docs

\* P holds of whatever a crash now, and the open after it, would find: the
\* log, the segments, their bases and their contents.
Recovery(P(_, _, _, _)) ==
    CrashPossible =>
        \A c \in CrashContents, l \in log.poss :
            P(l, manifest.segments, Bases(manifest.segments, c), c)

\* A doc whose write was reported successful is recovered as that write left
\* it, and a doc whose write is not yet reported is recovered as it was before
\* or after the write: never an older version, never a write that was gone.
AckedSurvives ==
    Recovery(LAMBDA l, names, b, c :
        \A d \in Docs : ReplayDoc(l, Rows(names, b, c), d).stamp \in allowed[d])

\* A recovered doc is served with its own vectors: every row its log record
\* names holds what that record's upsert wrote (SPEC 6.2: a committed record's
\* rows are already durable in data).
OwnVector ==
    Recovery(LAMBDA l, names, b, c :
        \A d \in Docs :
            LET e == ReplayDoc(l, Rows(names, b, c), d)
            IN \A r \in e.rows : RowOf(names, b, c, r) = e.stamp)

\* A search of the open store reads each live doc's own vector, whatever
\* failed before: the rows of the index are in the matrix and hold its stamp.
ServedVector ==
    (up /\ op.kind # "compact") =>
        \A d \in Docs : \A r \in docs[d].rows :
            r < RowCount /\ RowOf(segments, base, Current, r) = docs[d].stamp

\* Between calls the index is what a replay of the log would build, dead rows
\* included; only a delete whose append failed is ahead of the log.
IndexIsReplay ==
    Idle => LET n == RowCount IN
        /\ \A d \in Docs \ ahead : docs[d] = ReplayDoc(log.cur, n, d)
        /\ ahead = {} => dead_rows = ReplayDead(log.cur, n)

\* Whatever a crash leaves can be opened: Segments::open refuses a segment set
\* over max_vector_bytes, so a store that outgrew it could not be recovered.
Reopens == Recovery(LAMBDA l, names, b, c : Rows(names, b, c) <= Capacity)

\* The version a reader follows never goes back, across crashes too.
VersionMonotone == [][manifest'.version >= manifest.version]_vars

=============================================================================
