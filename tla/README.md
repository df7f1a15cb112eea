# Nidus: a TLA+ verification project

Nidus is an embedded vector store with an optional HTTP/MCP server, a memory
layer and a cluster mode over object storage. This directory models the parts
of it where order, failure and concurrency decide whether data is right: the
durable write path and its recovery, lock-free readers and history, the catalog
and its cached index, the server's admission and group commit, the namespace
registry, the memory layer and ingest, backup and restore, vector search over its
derived indexes and their caches, the cluster's writer lease, and cooperating
writers over shared objects. TLC checks the modules on
small instances; TLAPS proves twenty-six theorems, most of the safety properties
of eight modules and a refinement, for every value of the constants (section 6).

    tlc -workers 2 -config StoreDurable.cfg MCStoreDurable    # one run
    tlapm StoreProofs.tla                                     # one module's proofs

`PROJECT.json` lists components, runs, mutants, hazards and theorems,
and maps every definition that models code to the lines it models.

## 1. Inventory

Paths are below `src/src/`. "Hard" names what makes the part hard to test.

| Component | State it keeps | Operations | Hard | Correct when |
|---|---|---|---|---|
| Backends: appenders (`backend/mod.rs`, `local.rs`, `object.rs`) | one append-only object each: a file, or a RAM buffer uploaded whole | append, sync, truncate_to, rewrite, conditional put | what a crash leaves; nothing orders two files | an Ok from `sync` means the content is found again |
| Store write path (`store/write.rs`, `data/segments.rs`, `log/mod.rs`) | segment list, bases, `next_id`, version; in-RAM index; `dead_rows`; `pending_barrier` | upsert, delete, delete_where_all, reinforce, deferred/commit, flush, seal, compact | failure between any two backend calls, rollback over two files, deferred barriers, seals inside a group | acknowledged writes survive; each doc keeps its own vector; index = replay of the log |
| Recovery (`store/mod.rs`, `open_with`, `replay_ops`) | none of its own | open, replay | meets every state a crash can leave | finds what was acknowledged, skips what is torn, never refuses its own store |
| Group commit (`server/commit.rs`) | queue, leader flag, one drive task | submit, drive, commit_group, StandDown | arrivals at the last look at the queue, panics, hang-ups, failing barriers | Ok only after the barrier; every write answered |
| Serving (`server/limits.rs`, `server/mod.rs`, `cancel.rs`) | permits, body slots, deadlines, the process's phase | backpressure, run_read, run_write, open, shutdown | a deadline frees a permit while the work goes on; a stop while requests hang | a shed request touched nothing; everything leaves; a signalled server stops |
| Namespaces (`server/registry.rs`, `namespaces/`) | warm set with a byte budget, LRU, side-tables of committers and readiness | get, admit, enforce, tick | eviction with a handle in use, a failing flush | one opening per store; a read sees what was acknowledged |
| Local writer lock (`lock/mod.rs`) | a lock file | acquire, reclaim stale, release | a live file older than its TTL | one holder |
| Readers (`store/mod.rs`) | a view, a watermark, a pin | refresh, refresh_to | objects read one after the other while the writer moves | views are regular; pinned views exact; a quiet writer is caught up with |
| Manifest and history (`manifest/`, `store/write.rs`) | segment list, version, retained entries, floor | publish, record entry, prune, floor | floor, entries and pruning are separate objects; compaction rewrites what entries name | a readable entry is exact, or refused |
| Collections, aliases (`store/write.rs`, `model.rs`) | tables in the log, aliases in the manifest | create, drop, alias, declare | two places, failing publishes, replay order | a reopen finds the catalog that was served |
| Filter index and its cache (`findex/`, `filter/`, `index_cache.rs`) | postings with tombstones, a cache keyed on the log's length | index, narrow, persist, adopt | adopting another log's cache; a branch no index serves | narrowing never loses a match |
| Memory layer (`memory.rs`) | one collection's rows, the embedder pin | remember, recall, forget, sweep | expiry between search and write, reinforcement after an outside call | an answered memory is visible, an expired one stays hidden |
| Ingest (`cli/ingest.rs`) | a run over a tree of files | walk, skip, replace, prune | killed half way, hand-written rows in the same collection | a stored file is the file |
| Backup (`cli/backup.rs`, `data/checksum.rs`) | an archive, a target, checksum sidecars | backup, restore, check | objects captured one by one beside a writer, a restore killed and repeated | a restored store is its archive and verifies |
| Cluster lease (`backend/object.rs`) | a lock object (owner, stamp), a latched fence | try_claim, reclaim_create, renew (write path and timer), drop | requests of several processes, replayed requests, time | a live lease is not taken over; a standby is promoted; the superseded is fenced |
| Cluster writers (`store/`, conditional puts) | per object a compare-and-swap token | open, batch as three puts, seal | a stalled writer finishing its batch over its successor's objects | superseded writes are refused, commits kept |
| Vector search (`store/read.rs`, `scoring.rs`, `quant.rs`, `aggregate.rs`, `search/`) | a cached scan order, a reverse map row to document, a quantized matrix | search, search_similar, over four paths | derived state no write invalidates, a cap and a page cut from one ranking, merged chunks and legs | hits are live, exact and ranked; pages are cuts of one ranking |
| ANN and per-segment indexes (`ann/`, `store/mod.rs`) | an index of rows, a slot per segment, the `ann` cache and `.ivf` sidecars | build, insert, seal, persist, adopt, drop | rows renumbered under a cache, slots aligned by position, another configuration at the next open | every live row is in an index or in the brute-forced tail |
| Full text ranking, hybrid fusion, SQL, DTOs, CLI, providers, SDKs | derived or none | queries, parsing, scoring | numeric or textual, not stateful | out of scope (section 8) |

How they interact. A request passes `limits.rs`, which sheds or admits it; a
served write then goes through `server/commit.rs`, which calls the store inside
`Nidus::deferred` and then `commit()`; the store drives the appenders of the log
and of the active segment, and publishes the manifest. With namespaces, the
request first admits its store in the registry, which may open it (under the
lock file) and evict others. The memory tools and `nidus ingest` are writes and
scans of the same store. In cluster mode every mutating call first renews the
lease (`check_writable`), the server's timer renews it as well, and the
appenders' syncs become conditional puts. Readers, `backup` and `check` follow
the manifest without any lock.

## 2. Modules

| Module | Models | Composes |
|---|---|---|
| `Files` | one append-only object: what the writer sees (`cur`) and what a crash may leave (`poss`) under a kill, a power cut, or over a whole-object store | |
| `Store` | the writer of one store, its calls as steps, crash and reopen | EXTENDS `Files` |
| `WriteContract` | abstract: what the served write path promises | |
| `GroupCommit` | queue, leader, drive task, the store's RwLock, readers | implements `WriteContract` |
| `Serving` | admission, bodies, deadlines, handlers, open and shutdown | EXTENDS `GroupCommit` |
| `Namespaces` | registry, warm set, lock file, committers' leaders | |
| `Readers` | a writer with history and compaction, a reading handle | |
| `Backup` | backup, check, restore, sidecars | EXTENDS `Readers` |
| `Catalog` | collections, aliases, filter index, narrowing, its cache | |
| `Memory` | the memory layer and ingest over one collection | |
| `Search` | vector search, its derived indexes and their caches, through seals, compactions and reopenings | |
| `ClusterLease` | the lease object, claims, two renewers per process, drop, time | |
| `ClusterStore` | writers that supersede each other, every request a step | |
| `MC...` | the instances TLC checks | |
| `StoreProofs`, `GroupCommitProofs`, `ServingProofs`, `NamespacesProofs`, `MemoryProofs`, `ClusterLeaseProofs`, `ClusterStoreProofs`, `ReadersProofs` | theorems (section 6) | EXTENDS its module and TLAPS; `ServingProofs` also `GroupCommitProofs`, `ClusterStoreProofs` also `MCClusterShared` |

`MCStoreDurable`, `MCStoreFaults` and `MCClusterShared` check two instances of
one module in a single run: a variable that never changes says which instance a
behaviour belongs to, and the second is an INSTANCE with its own constants. What
holds of one of them only is stated of that one (`...Whole`, `...Unsealed`).

### Store

Variables are named after the fields: `segments`, `base`, `next_id`, `version`
(`Segments`), `docs`, `dead_rows`, `pending_barrier` (`Store`). A record is
abstracted to the *stamp* of the upsert that wrote it, which stands for the
attributes in its log record and for the vector in each of its rows; "served
with its own vector" is then "its rows hold its stamp". `op` is the call in
progress: `pc` is the place between two backend calls, the other fields are the
locals the code keeps over them (batch, staged rows, rollback marks). Upsert is
`UpsertBegin`, the seal check (`SealSkip`, `Seal`, `SealFails`), `UpsertData` per
record, `UpsertSyncData`, `UpsertLog` per record, `UpsertSyncLog`,
`NoteCommitPoint`. Delete, the sweep (`delete_where_all`), commit and flush
share `BarrierData`, `BarrierLog` and `NoteCommitPoint`. Compaction is
`CompactData`, `CompactLog`, `CompactPublish`. Each backend call has its failing
outcome, with the rollback the code then does, when `Faults` allows it.
`allowed[d]` is the specification's memory: the stamps a recovery may find for d
given what the callers have been told. `ahead` holds docs that a delete with a
failed append took out of RAM only.

### GroupCommit

A write is its request. `submit`'s critical section is one action; the drive
task drains, takes the guard, applies one write per step, takes one barrier,
releases the guard, answers one member per step. The store behind the guard is
reduced to `unsynced` and `durable`. `GiveUp` is a client that hangs up,
`Panic` a write that unwinds under the guard, which poisons the lock.

`WriteContract` is the promise without queue, leader or barrier: submitted once,
answered at most once, reported successful only when durable, and what is
durable stays. `ImplementsContract` is its specification under the mapping
`told <- answer`, `kept <- durable`; it would break if a leader's unwinding
answered a write it had already answered, or reported one it had not synced.

### Serving

A request is `new`, `body` (holding a body slot), `admitted` (holding a store
permit) or `done`. `Arrive`, `BodyArrives` and `BodyFails` are the two phases of
`backpressure` and the idle timer; `RunWrite` and `WriteReturns`, `RunRead`,
`Scan...` and `ReadReturns` are the handlers around the committer's own actions;
`Deadline` and `Disconnect` free what the request held while its write stays
with the committer or its scan with the blocking thread. `Opens` and
`OpenFails` are the late open of a standby, `Signal` and `Stop` the drain.

### Namespaces

A store is an *opening*: two openings of one namespace are two values of `Nidus`
over the same files. The registry's mutex makes admission one action
(`AdmitRead`, `AdmitWrite`): touch or open, measure, evict the least recently
used past the budget, reconcile the side-tables. Waiting for another store
inside the mutex is a disabled action. Then the request enters the store
(`Enter`), or queues its write and leads (`Lead`), and releases its handle; a
store dropped by the warm set stays alive while somebody holds it. `Tick` is the
lease timer, which finds its namespace warm and takes a handle like a request;
`Renew` renews and lets the handle go. `Expire` is a lock file that outlives
`lock_ttl`, which a second open then reclaims.

### Readers

The writer's `LogAppend`, `Publish`, `RecordEntry`, `PruneHistory`, `Seal`, and
`Compact` with `StoreFloor`, `RewriteData`, `RewriteLog`, `Reclaim` are requests
of their own, and the reader's are too: `RefreshManifest`, `RefreshStat`,
`LoadSegment`, `LoadLog`, `RefreshSwap`, and for a pin `PinCeiling`, `PinFloor`,
`PinEntry`, `PinSwap`. A compaction replaces the log file, so an open log is an
inode (`logs`). `r.legal` is the specification's memory of what each id was
while the refresh ran.

### Backup

Extends the writer of `Readers` with checksum sidecars (`SealStamped`,
`RewriteBase`, `StampBase`). `backup` is `BackupManifest`, `BackupObjects` one
object per step, `BackupLog`, `BackupSums`; `check` is `CheckManifest`,
`CheckOpen`, `CheckVerify`; `restore` is `RestoreManifest`, `RestoreClear`,
`RestorePut` one object per step, `RestoreOpen`, with `RestoreKilled` anywhere
and a repeat. With `ClearFails` the delete of the target's manifest, or the listing
of its objects, may fail, which restore passes over. `LaterUpsert` and `LaterSeal` write to the restored store.

### Catalog

A document is the text of its indexed field, known by its tokens in order and by
its trigrams. Collections and declarations (of tokens, trigrams or both) live in the
log, aliases in the manifest, the built index in the `findex` cache. `candidates`,
`conjunction`, `disjunction` and `matches` are the narrowing and the evaluator as
operators; `NarrowingIsSound` compares them on every reachable index, tombstones and
adopted caches included, for predicates of all tokens, any token, a token sequence,
fuzzy, regular expressions, and one no index serves, negated and in groups. Of the
fuzzy and regex evaluators a predicate has the texts they accept; `CatalogAssumption`
is the bound the index relies on: an edit loses at most three trigrams, a match of a
pattern contains its literals. `Current` is the adoption rule, which compares the
log's length. `outlived` is the specification's memory of an index adopted from a
cache whose log a compaction has since rewritten.

### Memory

A row has a text, what it is a chunk of, a digest, a birth date, an expiry, and
the embedder its vector is from. Which rows are near a query is data: a search
may answer any rows its filter admits, and the dedup search any memory or chunk.
`Remember` is `prepare_remember` and the write, with the clock read twice. A time to
live is none or any integer: zero or less is an expiry that has passed. A recall is
`RecallAsk`, which reads the clock of the expiry guard, then `RecallRun` at the
committer, where reinforce reads the clock again, or, with a reranker,
`RecallSearch` and `RecallStamp`. `Walk`, `IngestFile`, `IngestKilled`, `Finish` and
`PruneKilled` are an ingest run; a kill leaves any prefix of the records that were
being written, in any order of rows where the code goes through a hash map.

Three ghosts carry the promises. `held` has every memory remembered and not replaced,
and until when its caller may count on it (`Promise`); a memory that dedup merged into
a chunk is not in it. `settled` has the version an ingest run last reported of a
file. `spoiled` has the documents that something broke in a way the next run's digest
and last-chunk check cannot see: a kill while older chunks were replaced
(`Leftover`), a forget or killed prune that left a hole (`Middle`), or a memory
merged into a chunk. A whole rewrite, or the removal of the last row, clears it.

### Search

A query is an operator over the state: `search` chooses a path (`search_ann`,
`search_segmented`, `search_quantized`, `rank_scan`), ranks `depth` deep into
`TopK`, in chunks per worker where the code does, and goes through the one tail
`finish`; `search_similar` is built on it. The properties ask every query of a
set in every state. A vector is a point of a line. An index is the function from
the rows it holds to the vectors it placed them by, so it can be stale in both;
what a walk surfaces (`Walks`) is any choice of its rows within the candidate
budget, which covers whatever HNSW or IVF find. A code of the quantized matrix
forgets the lowest bit. `Upsert`, `UpsertText`, `Flush`, `Delete`,
`DropCollection`, `Reinforce` change the documents and exactly the derived state
the code changes with them; `Query` leaves the scan order it built;
`PersistIndex` writes the caches; `CompactCommit` and `CompactFinish` are a
compaction to its commit point and after it, where a kill leaves the caches of
the old row numbers; `Open` starts another process, possibly with another
configuration. `annEra` is the specification's memory of the compaction an index
follows. What a call does to log, rollback and durability is `Store`'s subject.

### ClusterLease

Every request to the object store is a step. Time is kept as ages that saturate
past the TTL, so the state space is finite without bounding time. A token is
kept as the fact it stands for: `fresh` holds the readers since whose read the
object has not been written. With `Retries`, a conditional request that landed
may be replayed and then looks refused (`backend/cloud.rs`, `with_one_retry`).

### ClusterStore

Opening is manifest, each segment, the manifest's token, the log, each a request
of its own; a batch is `Begin` (the lease check), `PutData`, `PutLog`,
`NoteCommitPoint`, with `SealOpen`, `SealSync`, `SealPublish` in front when the
active segment is full. `Acquire` may supersede a holder at any moment: a holder
that stalls past its TTL is exactly that. `ClusterLease` justifies the one fact
used of the lease, that it names one owner at a time.

## 3. Runs

Passing runs. CHECK_DEADLOCK is off in all of them: the client's calls, opens
and lives are bounded and a behaviour that used them up rightly stops. Waits
that cannot end are stated as properties (`NothingUnattended`, `NobodyStuck`,
the leads-to properties).

| Run | Checks | Distinct states |
|---|---|---|
| `StoreDurable` | a local file, PerBatch, power cut anywhere outside compact, with seals, deletes, sweeps, reinforcement, flush, compact; and a whole-object store with deferred groups and failing appends and publishes: `AckedSurvives`, `OwnVector`, `Reopens` | 1.45 M |
| `StoreFaults` | every backend call may fail, crash inside compact too: `VersionMonotone`; failing appends and syncs, kills, in and out of deferred groups: `ServedVectorWhole`, `IndexIsReplayWhole` | 1.52 M |
| `GroupCommit` | three writers, a reader, hang-ups, failing barriers, panics: `AckedDurable`, `NothingUnattended`, `AnsweredUnlessPoisoned`, `ImplementsContract` | 59 k |
| `Serving` | two writes and a read over one permit: `ShedUntouched`, `EveryRequestLeaves`, `Stops` | 240 k |
| `Namespaces` | two namespaces, a budget of one write, four requests and a lease tick, failing flushes, one lock file that expires: `OneOpening`, `ReadYourWrites`, `NobodyStuck` | 921 k |
| `Readers` | a polling reader, a pinned reader, or faults, beside three writes, a compaction and history of two versions: `ReadableIsExact`, `RefreshRegular`, `PinExact`, `Converges` | 1.26 M |
| `Backup` | backup and restore, or check, beside the same writer, over an empty target and over another store that may not let itself be cleared: `BackupRegular`, `RestoredIsArchive` | 2.25 M |
| `Catalog` | five mixes of calls, four with five calls and one with seven, a crash: `NarrowingIsSound`, `AliasesResolve`, `ReopenFindsCatalog` | 842 k |
| `Memory` | the memory tools, a second recall, ingest with kills, and ingest beside a memory: `IngestedIsFile`, `MemoriesKept`, `OneSpace`, `AnsweredStaysVisible`, `ExpiredStaysHidden` | 602 k |
| `Lease` | two instances, two lives each, both renewers, drops, deaths, replays: `OverwriteOnlyStale`, `StandbyPromoted`, `SupersededFenced` | 381 k |
| `ClusterShared` | three writers on one segment: `AckedKeptUnsealed`, `OwnRowUnsealed`; with seals, a store made by two at once and replayed puts: `LogOnlyGrows` | 2.6 M |
| `Search` | eight queries in every state of three writes, a compaction and two reopenings under any of three configurations: `HitsSound`, `CompleteIsExact`, `PagesAreCuts`, `SimilarDropsOnlySource` | 100 k |

The modules state more than the runs list. `WaitingIsHeld` (`GroupCommit`),
`CommitCounterUnsealed` (`MCClusterShared`), `CheckTruthful` and
`RestoredVerifies` (`Backup`, with `ClearFails = FALSE`) hold of the instances above,
each beside its run's other properties, and can be added to the run's configuration.

The configurations below are kept beside the modules to show where the code
differs from its own words: what each states is what a comment or SPEC.md says,
and each ends in a counterexample. They are started like the runs.

| Configuration | Module | Property | What it shows |
|---|---|---|---|
| `StoreSealUnsynced` | `MCStore` | `AckedSurvives` | A seal inside a deferred group retires a segment that was never synced; `commit()` syncs the new one, says Ok, and a crash loses the earlier rows (data/segments.rs:280 calls sealed segments "already durable") |
| `StoreSealPublish` | `MCStore` | `AckedSurvives` | After a seal whose publish failed, the next batch goes to a segment no manifest names (write.rs:173-174 says a seal failure leaves the store byte-identical) |
| `StoreCompactKilled` | `MCStore` | `OwnVector` | Killed between compact's data rewrite and its log rewrite, the store reopens with the old log over renumbered rows (write.rs:1325-1327 calls the manifest the commit point) |
| `StoreRollback` | `MCStore` | `OwnVector` | A rollback is not synced; after a power cut the truncated log can reappear over rows a later batch rewrote (write.rs:550-552) |
| `GroupCommitHang` | `GroupCommit` | `EveryWriteAnswered` | A write queued behind a group that panics has no leader until another write arrives (commit.rs:184-185) |
| `ReadersStale` | `MCReaders` | `Converges` | Without history, a commit that lands between refresh's replay and its reading of the log's length is in the watermark and not in the view: a quiet store is never caught up with (store/mod.rs:774-776) |
| `ReadersTorn` | `MCReaders` | `ServedOwn` | A refresh beside a compaction replays the old log over rewritten rows (SPEC.md, section 15, the lock-free reader rule) |
| `CatalogStaleIndex` | `MCCatalog` | `NarrowingIsAlwaysSound` | After undeclare, compact and new writes the log has the length an old cache was saved at; the cache is adopted and matches are lost (store/mod.rs:1762-1764, SPEC.md:993-998) |
| `BackupHot` | `MCBackup` | `RestoredStaysConsistent` | An archive of a store being written to holds log records whose rows it did not capture; the restored store skips them at its first open, appends rows of its own in their places, and at the next open serves a doc another doc's vector (cli/backup.rs:105-107, SPEC.md:2473-2474) |
| `SearchStaleAnn` | `MCSearch` | `StaleDiscarded` | A compaction killed between its commit point and persist_index leaves an `ann` cache of the old row numbers; it covers no more rows than there are, is adopted, and a live document is in no index (SPEC.md:1678-1681 says a stale cache is silently discarded) |
| `LeaseDrop` | `MCClusterLease` | `DropDeletesOwn` | a drop that stalls between owner check and delete deletes its successor's lease (object.rs:445) |
| `ClusterSeal` | `MCClusterStore` | `OwnRow` | A stalled writer's segment put still lands after its successor sealed that segment: every row behind it is read one off (SPEC.md:2927-2929) |

Variants that need no file of their own: a configuration above, other constants,
one property. All but the first end in a counterexample.

| From | Change | Property | What it shows |
|---|---|---|---|
| `StoreFaults` on `MCStore`, `Spec` | `Fsync = "OnFlush"`, `MaxBatch = 2`, `MaxSeg = 1`, `Deferring <- Never`, `Faults = {"append", "sync"}`, no commit, `CompactCrash = FALSE` | `AckedSurvives`, `OwnVector` | holds: a killed process loses nothing a flush acknowledged |
| `StoreCompactKilled` | `SegmentMaxRows = 1`, `Calls = {"compact"}` | `Reopens` | killed before compact's manifest, the collapsed rows sit next to the segments they came from and exceed `max_vector_bytes`: open refuses (SPEC.md:465-468) |
| `StoreCompactKilled` | `CompactCrash = FALSE`, `Faults = {"rewrite"}` | `AckedSurvives` | compact replaced `data` and then failed, at the new checksum or at the log: the call returns its error and the store stays the one a kill at that point leaves |
| `StoreCompactKilled` | `CompactCrash = FALSE`, `Faults = {"publish"}` | `ServedVector` | compact's publish failed: the handle keeps serving the old index over the rewritten rows |
| `StoreRollback` | `Durability = "object"`, `SegmentMaxRows = 0`, `Faults = {"sync"}` | `OwnVector` | a put of the log that landed is reported failed: the rollback is in RAM only, and the next batch puts its rows in the same places |
| `StoreRollback` | `Faults = {}`, `Deferring <- Both`, `Calls = {"commit"}` | `OwnVector` | a power cut inside a deferred group can keep the log record and lose its row (SPEC.md:527-529) |
| `StoreSealUnsynced` | `SegmentMaxRows = 0`, `Calls = {"reinforce"}` | `OwnVector` | reinforce's log-only barrier makes a deferred upsert's record durable before its row |
| `LeaseDrop` | none | `ClaimNeverDeletesLive` | `reclaim_create` deletes a lease a rival created after the claim saw it gone |
| `LeaseDrop` | `Renewers = {"timer"}` | `FencedHoldsNothing` | a fenced instance's timer re-creates a deleted lease and keeps it (store/mod.rs:1050) |
| `LeaseDrop` | `Renewers = {"op", "timer"}` | `NoFalseFence` | both renewers of one instance race to re-create the lease and the loser fences it (SPEC.md:2910-2912) |
| `LeaseDrop` | `Retries = TRUE` | `NoFalseFence` | a replayed re-create finds its own object and fences its healthy owner |
| `ClusterSeal` | `MaxBatches = 3`, `MaxSeg = 0`, `SegmentMaxRows = 0` | `CommitAdvances` | the manifest's token is read after the manifest: a version is published twice (SPEC.md:2929-2930) |
| `ClusterSeal` | `MaxBatches = 3`, `MaxSeg = 1`, `Unmade = TRUE` | `AckedKept` | two instances write a fresh manifest unconditionally; the later one drops a published segment (SPEC.md:2925-2927) |
| `ClusterSeal` | `Instances = {a}`, `MaxOpens = 1`, `MaxBatches = 3`, `MaxSeg = 0`, `SegmentMaxRows = 0`, `Retries = TRUE` | `OwnRow` | a log put that landed and is replayed is rolled back in RAM only (cloud.rs:28-29) |
| `ReadersStale` | `MaxWrites = 4`, `HistoryVersions = 2` | `OneInstant` | a view mixes two commits: each id is regular, the whole is no single state (SPEC.md, section 15) |
| `ReadersTorn` | `Environments <- MCPin` | `PinNeverSubstitutes` | a pinned open that read its entry before a compaction raised the floor serves other documents than the commit it names (SPEC.md:2755-2757) |
| `Namespaces` | none | `OneWriter` | a lock file older than its TTL is reclaimed although its store is alive in a request's hands: two writers over one directory (SPEC.md:497-502) |
| `Namespaces` | `Reads = {r1}`, `Writes = {w1, w2, w3}`, `Expiring = {}` | `SideIsCurrent` | readiness reported for a namespace is that of an opening already evicted (registry.rs:1-5) |
| `Serving` | none | `QueueBounded` | a deadline frees a permit while its write stays queued (SPEC.md:545-548 calls the queue bounded by the permits) |
| `Catalog` | `Environments <- MCAppendFails` | `ReopenFindsCatalog` | create and drop change RAM before they append; after a failed append the served catalog is not the one a reopen finds (write.rs:396, 419) |
| `Catalog` | `Environments <- MCLanded` | `AliasesResolve` | a publish that landed and was reported failed leaves an alias whose collection is then dropped (SPEC.md:2711-2714) |
| `Catalog` | `Environments <- MCDropped` | `ReopenFindsSchema` | drop_collection keeps the declaration the replay forgets (write.rs:419-430) |
| `BackupHot` | none | `HotSnapshotConsistent` | an archive taken over a compaction pairs a log with rows of another numbering (SPEC.md:2473) |
| `BackupHot` | `Environments <- MCChecks` | `CheckSafe` | check beside a compaction reports a sound store as corrupt (cli/backup.rs:439-440 calls it safe alongside `nidus serve`) |
| `BackupHot` | `Targets <- MCTargets` | `RestoreAllOrNothing` | a restore killed over an existing store leaves neither store |
| `Backup` | none | `RestoredVerifies` | when the target's objects cannot be listed, sidecars of the store that was there stay and are read for segments of the restored one (cli/backup.rs:245-249) |
| `Search` | `Queries <- MCTwice` | `HitsSound` | a scope that names a collection twice answers each of its documents twice (lib.rs:456-462 resolves names, also through aliases, without removing repeats) |

This is why the passing runs are cut as they are. In each case the excluded
behaviour is a configuration or variant above.

- `StoreDurable` keeps crashes out of compact and faults out of the local file;
  its object store has no seals, no reinforce and no failing sync.
- `StoreFaults` promises what is served where compactions are not cut short.
- `ClusterShared` promises acknowledged batches on one segment, of a store that
  exists, without replays.
- `Readers` has history on: every commit then moves the version. `RefreshRegular`
  promises of each id a value it had during the refresh, and of a refresh no
  compaction ran beside.
- `Catalog` fails publishes only before they land, and appends not at all.
  `NarrowingIsSound` leaves out an index in `outlived`; the run reaches such indexes,
  and `NarrowingIsAlwaysSound` is violated in it.
- `Memory` leaves nothing of the code out; what the code does not keep is exempt in
  the properties, and the run reaches each exemption. `IngestedIsFile` is not stated
  of `spoiled` documents: a re-ingest killed after chunk 0 leaves the new digest over
  old chunks, a chunk forgotten or pruned between the first and the last is not
  missed, a memory merged into a chunk is not seen, and the next run reports the file
  unchanged (cli/ingest.rs:28-31 and 328-335, SPEC.md:1786-1791). `MemoriesKept` is
  not stated of a memory merged into a chunk, which is replaced or pruned with the
  file (cli/ingest.rs:423-424). `AnsweredStaysVisible` promises a write without a
  time to live of its own no more than the entry it was redirected to had
  (memory.rs:858-860). `ExpiredStaysHidden` lets a recall in flight bring back what
  expired after it read its guard's clock, or what was rewritten after it searched
  (`Overtaken`; memory.rs:987, lib.rs:797). Without any one of these exemptions TLC
  finds a counterexample within the bounds of the run.
- `Backup` promises what a restored store serves; its sidecars only if the target
  could be cleared.
- `Search` promises `CompleteIsExact` of an index that follows the last
  compaction, and asks scopes that name a collection once.

## 4. Bounds

- Two docs, three or four stamps, four calls, one crash: enough for a first version of
  a doc, its overwrite, a neighbour whose row shifts, and a call that follows a
  failed one. Every store counterexample above was found within these bounds.
- `SegmentMaxRows = 1` makes every write after a row seal; the second half of
  `StoreFaults` has 2, so that a rollback also meets an active segment that holds an earlier batch.
  `MaxSeg = 2` gives a segment before, at and behind the boundary. `StoreDurable`
  stages up to four rows against `Capacity = 3`: batches are refused.
- One vector per record suffices: a record's vectors are appended together and
  the properties compare rows with stamps. `MaxVecs = 1` includes text-only
  records (no row).
- reinforce is called with one id: its records are appended and unwound as a
  unit, the way the sweep's are. Its append and its sync are one step: a crash
  between them leaves the log as it was before the call or as it is after it.
- Three writers in `GroupCommit`: a leader, a write in its group and one that
  arrives late. One read is enough to delay the guard; reads do not interact.
- `Lease`: `TTL = 1`, `MaxPause = 1`: a stamp that is fresh, exactly as old as
  the TTL, and stale, judged by a clock read up to a tick ago. Two lives let a
  process come back after it was superseded. `OverwriteOnlyStale` is proved for
  any number of instances.
- `ClusterShared`: three instances, four opens and batches: a stalled writer, its
  successor, and the successor's successor, with a batch to spare.
- `Serving`: one permit and one body slot for three requests, so that each is
  contended; the committer itself is checked with three writers above.
- `Namespaces`: a budget of one write evicts at the second; seven openings are
  more than four requests can cause, two writes among them that are admitted twice
  (a tick opens nothing). Reads, and writes, are symmetric.
- `Readers` and `Backup`: three writes, `SegMax = 2` and one compaction give a
  sealed segment, an active one and rows that move; `HistoryVersions = 2` with
  `PruneBatch = 1` prunes at the third commit.
- `Catalog`: two ids, two texts of which one contains the other, and a document
  without the field; filters of each kind, with empty queries, a vacuous threshold
  and a branch no index serves. The five environments share out the calls; each has
  those that interact. Seven calls are what it takes to declare, persist, undeclare,
  compact and write up to the cache's mark again.
- `Memory`: two memories and one file of up to three chunks, so that there is one
  that is neither the first nor the last, in two versions of three chunks, one of one
  and an empty one; times to live of none, minus one, zero and one tick with two
  ticks and a drift of up to one, so that an entry expires before, at and after each
  clock read. The four budgets share out notes, recalls, forgets, edits, runs and
  kills; two kills and four runs let a retry be killed in turn and then be reported.
- `Search`: three writes over `SegmentMaxRows = 2` give a sealed segment and a
  tail; four records give an overwrite, a twin, a document that ranks before both
  although its key is last, and a text-only rewrite; the queries have whole,
  partial and reordered scopes, a filter with `min_score`, two workers, a cap of
  one and an offset. Two reopenings let a cache meet rows that another
  configuration wrote. Factors of two make `depth` and the candidate budgets bind.

## 5. Fairness

`GroupCommit`: weak fairness of each drive task's steps (a blocking thread, once
started, runs on), of `ReadEnd` (a read finishes), and strong fairness of taking
the guard (the RwLock grants a waiting writer although readers keep coming; one
read is modelled). Clients are under no obligation.

`ClusterLease`: weak fairness of `Tick` (time passes), of a claim (a standby
under `LeaseWait::Forever` polls on, `await_writer_handle`), and of the timer's
renewals (`spawn_lease_renewal` loops for ever and treats every error as a
retry). Nothing is assumed of the write path's renewals, of releases or deaths.

`Serving`: the committer's fairness, and weak fairness of deadlines, of the
body's idle timer, of scans and of handlers whose result is there. Deadlines and
idle timers are timers of the runtime and on by default (cli/mod.rs:1113-1131).
Nothing is assumed of clients: no body has to arrive.

`Readers`: the writer finishes the call it is in, the reader finishes a refresh
it began and polls again. No write has to happen; kills and failing requests
belong to behaviours of their own.

`Store`, `Namespaces`, `Catalog`, `Memory`, `Backup`, `Search` and `ClusterStore` are
checked for safety only. `NobodyStuck` states for `Namespaces` that some request
can always move.

## 6. Proofs

| Theorem | States | Inductive invariant |
|---|---|---|
| `StoreProofs!AcknowledgedWritesSurvive`, `RecoveredRowsAreOwn`, `ServedRowsAreOwn` | `AckedSurvives`, `OwnVector` and `ServedVector` of `Store` in the configurations `Recoverable`, any docs, batches, calls, segments and crashes | `Core`, below |
| `StoreProofs!StoreReopens` | `Reopens`, in the same configurations: what a crash leaves is never over `max_vector_bytes` | `Core`; `FitsInv`: the rows fit, those of a batch half staged counted with the ones still to come; `StampInv`: no stamp is of two docs, so no row is, and compact writes no more rows than there were |
| `StoreProofs!IndexFollowsTheLog` | between calls the index of the open store is the replay of its log, but for the docs a failed delete took out of RAM (the index half of `IndexIsReplay`) | `Core` |
| `StoreProofs!VersionNeverBack` | `VersionMonotone` of `Store`, any docs, bounds, backend, faults and crashes | `VersionInv`: while a writer is up its version is not behind the manifest's. Needed because seals, commits and compactions bump the version in RAM before a publish that may fail, and a reopen restarts from the manifest. |
| `ReadersProofs!ReadableHistoryIsExact`, `PinsAreExact` | `ReadableIsExact` and `PinExact` of `Readers`, any ids, segment size, retention window, pruning batch, writes, compactions and kills | `HistoryInv`, below |
| `GroupCommitProofs!AckedWritesAreDurable` | `AckedDurable`, any number of writers, panics included | `TypeOK`, and: what a task's acks call applied is unsynced or durable; once the barrier is past and has not failed, it is durable. Needed because the answer is given several steps, and another group's arrival, after the barrier. |
| `ClusterLeaseProofs!LiveLeaseIsNotStolen` | `OverwriteOnlyStale`, any number of instances and any TTL | `LeaseInv`: types; a claim about to swap with a token still good faces a lease past its TTL (`SwapsStale`: the object was not written since it was judged, and ages only grow); a renewal about to re-stamp with a good token faces its own name (`RestampsOwn`); only holders renew (`OnlyHoldersRenew`, which keeps the owner id fixed meanwhile). |
| `ClusterStoreProofs!LogIsNeverOverwritten` | `LogOnlyGrows`, any number of instances, seals, fresh stores and replays included | `LogInv`: the log is a sequence; each instance's state has its fields; a writer whose log token is good holds the log as it is (`LogSeen`). |
| `ClusterStoreProofs!OneSegmentIsShared`, `BatchesAreKept`, `RowsAreOwn` | `AckedKept` and `OwnRow` of `Spec`, `AckedKeptUnsealed` and `OwnRowUnsealed` of the shared run, under `OneSegment`: no seals (the default of `segment_max_rows`), an existing store, no replays | `SharedInv`. Rows are not append-only: a writer whose log put is refused takes its row back in RAM and may put another row in the same place. `Base(r)` is what it goes back to, and `BasesCover` says that the base of everyone who can still overwrite the segment has the row of every record in the log, and of every record another writer is about to put. |
| `GroupCommitProofs!NoWriteUnattended` | `NothingUnattended`, any number of writers | `LeadInv`: with `TypeOK` it is inductive as it stands, one leader flag against many tasks. |
| `GroupCommitProofs!GroupCommitImplementsContract` | `ImplementsContract`: every step is a step of `WriteContract` or a stutter | `ContractInv`: `AckInv`, and whatever the committer holds, queued, drained, applied or synced, was submitted (`HeldInv`). |
| `ServingProofs!ShedRequestsUntouched` | `ShedUntouched`, any requests, permits and body slots | `ShedInv`: a request that is not admitted has no answer and no scan of its own (`FrontInv`), and the committer holds only what was submitted (`HeldInv`, shown of the composition from the steps of `GroupCommitProofs`). |
| `ServingProofs!ServedAckedDurable` | `AckedDurable` of the composition: deadlines, disconnects and the last flush included | `AckInv` and `HeldInv`. |
| `MemoryProofs!PinnedIsOneSpace` | `OneSpace`, any embedders | `SpaceInv`: with the shape of the rows it is inductive. |
| `MemoryProofs!MemoriesAreKept`, `AnsweredMemoryVisible` | `MemoriesKept` and `AnsweredStaysVisible`, any files, embedders, times to live, drifts and callers | `KeptInv`: a row that belongs to no document is under a memory's id (`Handwritten`), which keeps chunks, tails and prunes off it; every memory held is in such a row, which expires no sooner than promised (`Held`). |
| `MemoryProofs!ExpiredNeverReturns` | `ExpiredStaysHidden`, likewise | `DatedInv`: a chunk does not expire; a note's number is at most the count of notes, so a new text is not an old one come back; what a recall in flight found was not expired by its guard, or is now another text (`Fresh`). |
| `MemoryProofs!IngestReportsAreTrue` | `IngestedIsFile`, files of any number of chunks | `FileInv`: rows are where they belong (`PlacedInv`); of a document that is not spoiled the chunks are of one version (`OneVersion`), have no hole once the first is there (`NoHole`), hold the file's text (`Pristine`), and are all there when the file was reported (`Complete`). |
| `NamespacesProofs!OneOpeningAtATime`, `AnsweredWritesAreRead` | `OneOpening` and `ReadYourWrites`, any namespaces, requests, budget, openings and ticks | `NsInv`: a warm or held opening is alive (`WarmOpen`, `HeldOpen`); who is alive has the lock file and every write on the disk, unless the lock was reclaimed (`Locked`); answered writes are on the disk (`AckedStored`), and so is what a read has to see (`MustStored`). |
| `NamespacesProofs!NobodyWaitsForAll` | `NobodyStuck`, any namespaces, requests and budget, if `Room`: the bound on openings leaves one for every admission | `NsInv` and `FewOpened`: a request that was admitted, and a write admitted a second time to lead, opened one store each at most. Among the requests not done, a holder of a store can always go on; if nobody holds one, every store that is alive is warm, and the next admission finds its store or opens it. |

Each theorem is: the invariant holds initially, is kept by every action (one step
per action), and implies the property or the step's property; PTL puts these
together. The only assumptions are the named ASSUMEs on constants
(`StoreAssumption`, `GroupCommitAssumption`, `ServingAssumption`,
`NamespacesAssumption`, `MemoryAssumption`, `ClusterLeaseAssumption`,
`ClusterStoreAssumption`, `DurabilityAssumption`, `ReadersAssumption`): naturals are naturals, flags are
flags, and kinds of requests and of ids are disjoint. Hypotheses of a theorem
(`OneSegment`, `Recoverable`) are the ones under which its run checks the property,
and section 3 has a counterexample without each of them; `Room` is about the model's
bound on openings only. The theorems about `Memory` have none.

`Recoverable` names the configurations in which `Store` survives its crashes: no
crash and no failing rewrite inside compact; a failing publish only where there
are no seals and no compactions; and either a process that is killed while its
machine lives on (any appends and syncs may fail, deferred groups included), or a
power cut with a barrier per batch and no failing append or sync, or a
whole-object backend over one segment without reinforce and without failing
syncs, deferred groups included. The runs `StoreDurable` and `StoreFaults` check
instances of all three, and section 3 has a counterexample beyond each limit.
`Core` is their one invariant:

- `Shape`, `StepInv`, `BeginInv`: the locals of a call in progress have their
  types, and a call is only at steps of its own.
- `SegsInv`: the segment set in RAM is the published one, without repeats, and no
  object past it holds rows, so that the next seal starts an empty segment.
- `CertainInv`: which objects have one possible content. Everything but the active
  segment has, and that one too outside a batch's data phase under barriers: it is
  what makes a barrier worth something to the steps after it.
- `RowsInv`: every log a crash may leave, over every content of the active segment
  it may leave, names only rows that are there and hold the record's stamp. It
  speaks of all pairs, because nothing orders the two files.
- `BatchInv`, `SweepInv`: the marks a rollback goes back to are whole, and what was
  staged lies where the records about to be written will say.
- `IndexInv`: the index is the replay of the log without what is still to be
  unwound. Without it a rollback could leave RAM and log apart.
- `PromiseInv`: every log a crash may leave, and the one a rollback returns to,
  replays to what the callers were promised.
- `PlanInv`: what compact decided on is a store of its own, with the same answers.

`HistoryInv` is what makes a commit point readable long after it was made. Its
argument is that every object only grows: a step that is no step of a compaction
adds to the log, to the active segment or to the list of segments (`Calm`), and a
replay bounded by an entry's rows and records is the same over what they grew into.

- `Shape`, `NamesInv`: segment lists start at the base and name nothing twice; the
  writer's list is the published one, or that with one empty segment behind it, or
  the base alone once a compaction has rewritten it; no object past `next` has rows.
- `DocsInv`, `RelogInv`: the writer's documents are the replay of the log over its
  segments, and the log names no row past the published list either, which is what
  a kill falls back to; between the two rewrites the base holds the live rows that
  the new log will name. An entry records `w.docs`, so without this it could be of
  documents that no object can be replayed to.
- `HistInv`: an entry not below the floor can be rebuilt from the objects as they
  are (`Safe`); from the fence of a compaction to the publish of its rewritten list
  every entry is below the floor, and the floor a restart begins from
  (`pruned_through`) never lets it fall back.
- `PinInv`: what a pin has staged of its entry's segments is what they hold, or,
  once the last is read, what they held then and have only grown since; a pin that
  a rewrite fell into knows that it overlapped one.

A replay is defined by the last record of a doc and not by a fold, and the rows of
several segments by their bases, so the proofs need no induction over logs; the few
facts about the bases themselves are shown with least counterexamples.

A call of `Namespaces::get` evicts any number of stores, so what it leaves is a
recursive function and needs induction. It is done with least elements: a set of
naturals has one (`LeastNat`, from the well-foundedness of strict inclusion of
finite sets), and a least eviction after which the registry is broken has an
eviction before it that broke it (`EvictedInOrderKeeps`).

The proof of `IngestReportsAreTrue` is where `NoHole` was found missing: with files
of two chunks TLC had no chunk to forget between the first and the last one. The
bound of three chunks comes from it, and so does `Middle`.

Only model-checked:
- liveness (`AnsweredUnlessPoisoned`, `StandbyPromoted`, `SupersededFenced`,
  `EveryRequestLeaves`, `Stops`, `Converges`) and what depends on ENABLED are out
  of TLAPS's reach;
- what the rankings, narrowings and captures of `Search`, `Catalog` and `Backup`
  compute for every query, filter or archive, which are folds and recursive
  definitions over data of any size;
- `dead_rows`, the counter in `IndexIsReplay`, a sum over the log; and
  `ServedVectorWhole` and `IndexIsReplayWhole`, which are about the second instance
  of a run and whose content `ServedRowsAreOwn` and `IndexFollowsTheLog` prove of
  `Store` itself;
- `RefreshRegular` of `Readers`: an unpinned refresh replays a log read after its
  segments, so its result is a mixture of instants, and the invariant has to follow
  every value each document had since the refresh began;
- `ClusterStore` with seals, where `AckedKept` and `OwnRow` do not hold.

Every module states its type invariant (`TypeOK`, `ServingTypeOK`,
`BackupTypeOK`); it, or the part of it that does not bound a behaviour, is part of
the inductive invariants above, and it can be added to any configuration as a
further INVARIANT.

## 7. Plan

Done, in this order: `Files`, `Store`; `GroupCommit`; `ClusterLease`;
`ClusterStore`; a theorem of each; `Readers` with history, `Namespaces` with the
lock file, `Memory`, `Serving`, `Catalog`, `Backup`; `WriteContract` and its
refinement; `Search`; the theorems of `GroupCommit`, `Serving`, `Memory`,
`Namespaces` and of `ClusterStore` over one segment; the theorems of `Store`'s
durability, recovery and capacity; those of the commit history of `Readers`.

Theorems to come, the most useful first:
1. `Catalog`: `AliasesResolve` without landed publishes.
2. `Readers`: `RefreshRegular`.
3. `ClusterStore`: `CommitCounter`, which needs the order of lease, manifest and
   token at an open.

Modules to come: an abstract store (a map with atomic batches and a durable
prefix) that `Store` implements where section 3 lets it; deletes and compaction
in `ClusterStore`; the local lock's stat, remove and create as separate steps;
hybrid search (two rankings fused and paged) and named vectors over `Search`.

## 8. Not modelled

- Byte layouts and torn frames: a torn row or frame is cut off by the next open,
  so objects hold whole rows and records. A rollback whose truncate fails in
  turn (the call then returns that error instead) is left out.
- A reader's open cuts a torn tail off a log file its writer may be appending to
  (store/mod.rs:818): that needs a log of bytes.
- Auto-compaction on open: it is `Compact` called right after `Open`, and in
  `Search` right before it.
- Backends without compare-and-swap, whose lease is best effort by its own doc,
  and the transports (S3, GCS, Redis, OPFS): request signing and I/O. Their one
  behaviour that matters, the replayed request, is modelled.
- The shared memory tier (`store/memtier.rs`): a remote cache adopted by the
  rule `Catalog` models for the filter index.
- History entries, floor and derived caches at the location of a restore: restore
  leaves them in place, and `Backup`'s target has none.
- Metadata, vector names and the full-text schema of collections: declarations
  of the shape `Catalog` models for the filter index.
- `nidus verify` of an archive, which changes nothing; and the code ingester,
  whose writes have the shape of `IngestFile`.
- In `Search`: named vectors, `rank_by`, MMR diversity, expansion, projection,
  narrowing by the filter index (`Catalog`), quantization together with an ANN
  index, failing saves of `persist_index` on its own, and cancellation. How well
  an index recalls is numeric: `CompleteIsExact` is about the rows an exhaustive
  walk can reach, `HitsSound` about whatever a walk returns.
- In `Catalog`: how fuzzy and regex evaluators decide and how a pattern's literals
  are found (they are the sets and terms of a predicate, under `CatalogAssumption`),
  fields that hold a list of texts, and filters nested deeper than one group.
- In `Backup`: archives of stores made before there were manifests. Every writer that
  opens a store leaves one (store/mod.rs:452-456), so an archive of a store that any
  current version wrote carries it.
- Hybrid fusion, full text, SQL, chunking, reranking and
  summarising providers: floating-point or textual functions over state that is
  modelled here, or calls to outside services. They and their tests are the
  larger part of the repository's lines, and the command line, DTOs, routing,
  authentication, SDKs, charts and benchmarks most of the rest; the modules here
  cover the stateful core.
