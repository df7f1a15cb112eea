------------------------------- MODULE Memory -------------------------------
(***************************************************************************)
(* The memory layer over one collection: remember with deduplication,      *)
(* time to live and the pinned embedder, recall with reinforcement (in one *)
(* write, or stamped after a reranker answered), forget and sweep, and     *)
(* `nidus ingest`, which walks a tree of files, splits each into chunks,   *)
(* skips what the digest says is unchanged, replaces the rest and prunes   *)
(* the files that are gone.  A killed ingest or prune leaves a prefix of   *)
(* the log records it was appending.                                       *)
(*                                                                         *)
(* Every write runs whole under the store's write lock, so it is one       *)
(* action.  A recall is several: it reads the clock for its expiry guard,  *)
(* waits for its turn, searches, and, when it reranks, waits again for the *)
(* reranker before it stamps its hits with a clock read anew.  Which rows  *)
(* are near a query is data: a search may answer any rows its filter       *)
(* admits.                                                                 *)
(***************************************************************************)
EXTENDS Integers, Sequences

CONSTANTS
  Memories,        \* names of hand-written memories
  Docs,            \* relative paths of the files under the ingest root
  Embedders,       \* embedder identities ("provider/model")
  ChunksOf,        \* version of a file's text -> number of chunks; 0 is empty
  None,            \* Option::None: no time to live asked for, no expiry set
  TTLs,            \* times to live a caller may ask for: None or any integer
  Drifts,          \* how far the clock moves between the two reads of a write
  Strict,          \* Config::strict_embedder_identity
  Callers,         \* recalls that may be in flight together
  Budgets          \* how many notes, ticks, recalls, forgets, edits, runs and
                   \* kills a behaviour may have: one of these records

VARIABLES
  rows,     \* the collection: id -> row, Absent where there is none
  pin,      \* collection meta nidus.embedder
  clock,    \* wall clock (meta::now_ms)
  file,     \* the files under the root: version of the text, 0 when gone
  run,      \* the ingest run in progress: what it walked, what is left
  call,     \* caller -> its recall in flight, or NoCall
  notes,    \* memory texts written so far
  held,     \* ghost: memories remembered and not replaced since, and until
            \* when their callers may count on them
  settled,  \* ghost: version the last finished ingest of a file stored
  spoiled,  \* ghost: documents a kill, a forget or a merged memory broke since
            \* their last whole write
  budget    \* what is left of the behaviour's budget

vars == <<rows, pin, clock, file, run, call, notes, held, settled, spoiled, budget>>

Spend(what) == /\ budget[what] > 0
               /\ budget' = [budget EXCEPT ![what] = @ - 1]
MaxNotes == CHOOSE n \in {b.notes : b \in Budgets} : \A b \in Budgets : b.notes <= n

Absent == [at |-> "absent"]
NoDoc == "none"
NoPin == "unpinned"
NoHash == <<0, NoPin>>
Versions == DOMAIN ChunksOf
MaxChunks == CHOOSE n \in {ChunksOf[v] : v \in Versions} :
               \A v \in Versions : ChunksOf[v] <= n

\* A file has a version unless it is gone; a hand-written memory has neither
\* the path of a file nor the id of a chunk.
ASSUME MemoryAssumption ==
  /\ None \notin Int /\ TTLs \subseteq Int \cup {None} /\ Drifts \subseteq Nat
  /\ NoDoc \notin Docs /\ Memories \cap Docs = {}
  /\ 0 \notin Versions /\ MaxChunks \in Nat
  /\ \A v \in Versions : ChunksOf[v] \in Nat /\ ChunksOf[v] <= MaxChunks

MemoryIds == Memories \X {0}
ChunkIds == Docs \X (0 .. MaxChunks - 1)
Ids == MemoryIds \cup ChunkIds
Texts == ({"note"} \X (1 .. MaxNotes)) \cup (Docs \X Versions \X (0 .. MaxChunks - 1))

Row == [at: {"live"}, text: Texts, parent: Docs \cup {NoDoc}, index: 0 .. MaxChunks - 1,
        hash: (Versions \X Embedders) \cup {NoHash}, created: Nat,
        expires: Int \cup {None}, count: Nat, space: Embedders]

NoCall == [at |-> "none"]
Idle == [on |-> FALSE, by |-> NoPin, todo |-> {}, seen |-> {}]

Live(id) == rows[id] # Absent
LiveIds == {id \in Ids : Live(id)}

(***************************************************************************)
(* not_expired_predicate: Not(Le(nidus.expires_at, now)), true for a row   *)
(* that has no expiry.                                                     *)
(***************************************************************************)
not_expired(r, now) == r.expires = None \/ r.expires > now

\* Mutant: an unpinned collection is pinned whatever it holds.
PinnableUnchecked(e) == pin \in {NoPin, e}

(***************************************************************************)
(* ensure_collection_and_pin: a pinned collection takes only its embedder; *)
(* an unpinned one that already holds rows is refused under strict mode    *)
(* (and only warned about otherwise), then pinned.                         *)
(***************************************************************************)
Pinnable(e) == IF pin = NoPin THEN LiveIds = {} \/ ~Strict ELSE pin = e

(***************************************************************************)
(* guard_recall_identity: the same check on the read side, where strict    *)
(* mode refuses an unpinned collection.                                    *)
(***************************************************************************)
Recallable(e) == pin = e \/ (pin = NoPin /\ ~Strict)

(***************************************************************************)
(* stamp_recency: the birth of the row already under this id carries over; *)
(* the expiry comes from the requested time to live, which nothing checks: *)
(* zero or less has passed already.  With none requested it stays whatever *)
(* the attributes held (nothing, or what a dedup match merged in).         *)
(***************************************************************************)
stamp_recency(id, now, ttl, inherited) ==
  [created |-> IF Live(id) /\ rows[id].created # 0 THEN rows[id].created ELSE now,
   expires |-> IF ttl # None THEN now + ttl ELSE inherited]

\* Mutant: the dedup search without the expiry guard.
CandidatesExpiredToo(now) == {id \in LiveIds : now >= 1}

(***************************************************************************)
(* prepare_remember's dedup search: the nearest row at or above the        *)
(* threshold that is not expired now, a memory or a chunk of a file.       *)
(***************************************************************************)
Candidates(now) == {id \in LiveIds : not_expired(rows[id], now)}

(***************************************************************************)
(* A remember in the making: a plain write carries only its own attributes *)
(* (a reserved chunk or recency key is stripped); a dedup match keeps every*)
(* attribute of the matched row this write does not name, its chunk        *)
(* provenance, source digest, count and expiry included.                   *)
(***************************************************************************)
prepare_remember(id, deduped, now, ttl, e) ==
  LET old == rows[id]
      s == stamp_recency(id, now, ttl, IF deduped THEN old.expires ELSE None)
  IN [at |-> "live", text |-> <<"note", notes + 1>>,
      parent |-> IF deduped THEN old.parent ELSE NoDoc,
      index |-> IF deduped THEN old.index ELSE 0,
      hash |-> IF deduped THEN old.hash ELSE NoHash,
      created |-> s.created, expires |-> s.expires,
      count |-> IF deduped THEN old.count ELSE 0, space |-> e]

(***************************************************************************)
(* Ghost: until when the caller of a remember may count on what it wrote:  *)
(* for the time to live it asked for; with none asked for, as long as the  *)
(* entry it was redirected to, and at least past the dedup search.         *)
(***************************************************************************)
Promise(target, deduped, stamped, ttl) ==
  IF ttl # None THEN stamped + ttl
  ELSE IF ~deduped \/ rows[target].expires = None THEN None
  ELSE IF rows[target].expires > clock THEN rows[target].expires ELSE clock + 1

(***************************************************************************)
(* remember (HTTP, MCP, in-process): embed with no lock, then one write    *)
(* closure that pins, searches for a near-duplicate, stamps and upserts.   *)
(* The clock is read once for the search and again for the stamp.  A memory*)
(* merged into a chunk shares the fate of the file's document.             *)
(***************************************************************************)
Remember(e, m, ttl) ==
  \E dedupe \in BOOLEAN, drift \in Drifts :
  \E target \in IF dedupe /\ Candidates(clock) # {} THEN Candidates(clock) ELSE {<<m, 0>>} :
    /\ Spend("notes")
    /\ Pinnable(e)
    /\ LET deduped == dedupe /\ Candidates(clock) # {}
           row == prepare_remember(target, deduped, clock + drift, ttl, e)
       IN /\ rows' = [rows EXCEPT ![target] = row]
          /\ held' = {p \in held : Live(target) => p.text # rows[target].text}
                     \cup (IF row.parent # NoDoc THEN {}
                           ELSE {[text |-> row.text,
                                  until |-> Promise(target, deduped, clock + drift, ttl)]})
          /\ spoiled' = spoiled \cup ({row.parent} \ {NoDoc})
    /\ pin' = e
    /\ clock' = clock + drift
    /\ notes' = notes + 1
    /\ UNCHANGED <<file, run, call, settled>>

(***************************************************************************)
(* A raw upsert of the store API, by an importer that filled the collection*)
(* before any memory write pinned it: no recency, no pin.                  *)
(***************************************************************************)
RawUpsert(e, m) ==
  /\ pin = NoPin /\ ~Live(<<m, 0>>) /\ Spend("notes")
  /\ rows' = [rows EXCEPT ![<<m, 0>>] =
       [at |-> "live", text |-> <<"note", notes + 1>>, parent |-> NoDoc, index |-> 0,
        hash |-> NoHash, created |-> 0, expires |-> None, count |-> 0, space |-> e]]
  /\ notes' = notes + 1
  /\ held' = held \cup {[text |-> <<"note", notes + 1>>, until |-> None]}
  /\ UNCHANGED <<pin, clock, file, run, call, settled, spoiled>>

(***************************************************************************)
(* Nidus::reinforce on the hits that are still there: the count goes up,   *)
(* and an existing expiry moves forward to now + extend, never back.       *)
(***************************************************************************)
reinforce(hits, now, extend) ==
  [id \in Ids |->
     IF id \notin hits \/ ~Live(id) THEN rows[id]
     ELSE [rows[id] EXCEPT
             !.count = @ + 1,
             !.expires = IF extend = None \/ @ = None THEN @
                         ELSE IF @ > now + extend THEN @ ELSE now + extend]]

\* Mutant: a recall without the expiry guard.
VisibleAny(now) == {id \in LiveIds : now >= 1}

\* Rows a recall's filter admits: the guard is added to every caller's filter.
Visible(now) == {id \in LiveIds : not_expired(rows[id], now)}

(***************************************************************************)
(* A recall with reinforce: embed the query, read the clock for the expiry *)
(* guard and hand the search to the committer or to a reader.              *)
(***************************************************************************)
RecallAsk(c, e, reranked, extend) ==
  /\ call[c] = NoCall /\ Spend("recalls")
  /\ call' = [call EXCEPT ![c] = [at |-> "asked", by |-> e, guard |-> clock,
                                  reranked |-> reranked, extend |-> extend]]
  /\ UNCHANGED <<rows, pin, clock, file, run, notes, held, settled, spoiled>>

\* Without a reranker: search and stamp share one write closure, the search
\* under the guard read before, the stamp at the clock of the moment.
RecallRun(c) ==
  /\ call[c].at = "asked" /\ ~call[c].reranked
  /\ call' = [call EXCEPT ![c] = NoCall]
  /\ \/ /\ ~Recallable(call[c].by)
        /\ UNCHANGED rows
     \/ /\ Recallable(call[c].by)
        /\ \E hits \in SUBSET Visible(call[c].guard) :
             rows' = reinforce(hits, clock, call[c].extend)
  /\ UNCHANGED <<pin, clock, file, run, notes, held, settled, spoiled, budget>>

\* rerank_recall_and_finish, first half: the search under the read lock.  The
\* texts it found are a ghost; the stamp goes by id.
RecallSearch(c) ==
  /\ call[c].at = "asked" /\ call[c].reranked
  /\ \/ /\ ~Recallable(call[c].by)
        /\ call' = [call EXCEPT ![c] = NoCall]
     \/ /\ Recallable(call[c].by)
        /\ \E hits \in SUBSET Visible(call[c].guard) :
             call' = [call EXCEPT ![c] =
                        [at |-> "searched", guard |-> call[c].guard, extend |-> call[c].extend,
                         found |-> [id \in hits |-> rows[id].text]]]
  /\ UNCHANGED <<rows, pin, clock, file, run, notes, held, settled, spoiled, budget>>

\* Second half, once the reranker answered: stamp whatever still exists.
RecallStamp(c) ==
  /\ call[c].at = "searched"
  /\ rows' = reinforce(DOMAIN call[c].found, clock, call[c].extend)
  /\ call' = [call EXCEPT ![c] = NoCall]
  /\ UNCHANGED <<pin, clock, file, run, notes, held, settled, spoiled, budget>>

\* A chunk of d among ids goes while the first and a later one stay: what the
\* digest on the first chunk and the last-chunk lookup do not see.
Middle(d, ids) ==
  \E id \in ids, last \in LiveIds \ ids :
    /\ rows[id].parent = d /\ rows[last].parent = d
    /\ rows[last].index > rows[id].index
    /\ <<d, 0>> \in LiveIds \ ids

\* The last rows of d are among ids.
Emptied(d, ids) == /\ \E id \in ids : rows[id].parent = d
                   /\ \A id \in LiveIds \ ids : rows[id].parent # d

\* Store::delete of a set of rows, and what becomes of their documents.
Delete(ids) ==
  /\ rows' = [id \in Ids |-> IF id \in ids THEN Absent ELSE rows[id]]
  /\ settled' = [d \in Docs |-> IF \E id \in ids : rows[id].parent = d THEN 0 ELSE settled[d]]
  /\ spoiled' = (spoiled \cup {d \in Docs : Middle(d, ids)}) \ {d \in Docs : Emptied(d, ids)}

\* The forget tool: by ids, or by a filter that may match any rows; a forget
\* that is killed is a forget of fewer rows.
Forget ==
  \E ids \in SUBSET LiveIds \ {{}} :
    /\ Spend("forgets")
    /\ Delete(ids)
    /\ held' = {p \in held : \A id \in ids : p.text # rows[id].text}
    /\ UNCHANGED <<pin, clock, file, run, call, notes>>

\* Nidus::sweep_expired: a bare Le, so a row with no expiry never matches.
\* Only a memory nobody may count on any more leaves the ghost with its row.
SweepExpired ==
  LET ids == {id \in LiveIds : rows[id].expires # None /\ rows[id].expires <= clock}
  IN /\ ids # {}
     /\ Delete(ids)
     /\ held' = {p \in held : \/ p.until = None \/ p.until > clock
                              \/ \A id \in ids : p.text # rows[id].text}
     /\ UNCHANGED <<pin, clock, file, run, call, notes, budget>>

Tick ==
  /\ Spend("ticks")
  /\ clock' = clock + 1
  /\ UNCHANGED <<rows, pin, file, run, call, notes, held, settled, spoiled>>

\* The user edits, creates or deletes a file.
Edit(d, v) ==
  /\ Spend("edits") /\ file[d] # v
  /\ file' = [file EXCEPT ![d] = v]
  /\ UNCHANGED <<rows, pin, clock, run, call, notes, held, settled, spoiled>>

-----------------------------------------------------------------------------
(***************************************************************************)
(* nidus ingest.                                                           *)
(***************************************************************************)
\* walk: list the files that are there now, for a run with embedder e.
Walk(e) ==
  LET found == {d \in Docs : file[d] # 0}
  IN /\ ~run.on /\ Spend("runs")
     /\ run' = [on |-> TRUE, by |-> e, todo |-> found, seen |-> found]
     /\ UNCHANGED <<rows, pin, clock, file, call, notes, held, settled, spoiled>>

\* Mutant: the digest of chunk 0 alone decides.
UnchangedByHash(d, v) == Live(<<d, 0>>) /\ rows[<<d, 0>>].hash = <<v, run.by>>

\* stored_hash and the last-chunk lookup: what makes run() skip a file.  The
\* digest is of the text and the embedder.
Unchanged(d, v) ==
  /\ Live(<<d, 0>>) /\ rows[<<d, 0>>].hash = <<v, run.by>>
  /\ Live(<<d, ChunksOf[v] - 1>>)

\* commit_chunks_inner: the row of chunk i of version v.
ChunkRow(d, v, i, e) ==
  LET s == stamp_recency(<<d, i>>, clock, None, None)
  IN [at |-> "live", text |-> <<d, v, i>>, parent |-> d, index |-> i, hash |-> <<v, e>>,
      created |-> s.created, expires |-> s.expires, count |-> 0, space |-> e]

\* The stale tail a shorter chunking leaves: same parent, index >= n.
StaleTail(d, n) == {id \in LiveIds : rows[id].parent = d /\ rows[id].index >= n}

(***************************************************************************)
(* remember_chunked_with / remember_chunked_text_only: upsert the chunks   *)
(* 0 .. n-1 in order, then delete the tail.  `puts` chunks and the deletes *)
(* of `cut` had been appended to the log; a run that was not killed has    *)
(* put all n and cut the whole tail.                                       *)
(***************************************************************************)
Written(d, v, e, puts, cut) ==
  [id \in Ids |-> IF id \in cut THEN Absent
                  ELSE IF id[1] = d /\ id \in ChunkIds /\ id[2] < puts
                       THEN ChunkRow(d, v, id[2], e) ELSE rows[id]]

\* One file of the run: gone since the walk or refused by the pin (the run
\* aborts), empty, unchanged, or written.
IngestFile(d) ==
  /\ run.on /\ d \in run.todo
  /\ LET v == file[d]
         n == ChunksOf[v]
         e == run.by
     IN \/ /\ v = 0 \/ (v # 0 /\ n > 0 /\ ~Unchanged(d, v) /\ ~Pinnable(e))
           /\ run' = Idle
           /\ UNCHANGED <<rows, pin, settled, spoiled>>
        \/ /\ v # 0
           /\ n = 0
           /\ run' = [run EXCEPT !.todo = @ \ {d}]
           /\ UNCHANGED <<rows, pin, settled, spoiled>>
        \/ /\ v # 0 /\ n > 0
           /\ Unchanged(d, v)
           /\ run' = [run EXCEPT !.todo = @ \ {d}]
           /\ settled' = [settled EXCEPT ![d] = v]
           /\ UNCHANGED <<rows, pin, spoiled>>
        \/ /\ v # 0 /\ n > 0
           /\ ~Unchanged(d, v) /\ Pinnable(e)
           /\ rows' = Written(d, v, e, n, StaleTail(d, n))
           /\ pin' = e
           /\ run' = [run EXCEPT !.todo = @ \ {d}]
           /\ settled' = [settled EXCEPT ![d] = v]
           /\ spoiled' = spoiled \ {d}
  /\ UNCHANGED <<clock, file, call, notes, held, budget>>

\* The document has rows of another version than v, or rows and no first chunk.
Leftover(d, v) ==
  \E id \in LiveIds : /\ rows[id].parent = d
                      /\ rows[id].hash[1] # v \/ <<d, 0>> \notin LiveIds

\* The process is killed between two log records of the write.
IngestKilled(d) ==
  LET v == file[d]
      n == ChunksOf[v]
      e == run.by
  IN /\ run.on /\ d \in run.todo /\ Spend("kills")
     /\ v # 0 /\ n > 0
     /\ ~Unchanged(d, v) /\ Pinnable(e)
     /\ \E puts \in 0 .. n : \E cut \in SUBSET StaleTail(d, n) :
          /\ cut # {} => puts = n
          /\ rows' = Written(d, v, e, puts, cut)
     /\ pin' = e
     /\ run' = Idle
     /\ settled' = [settled EXCEPT ![d] = 0]
     /\ spoiled' = IF Leftover(d, v) THEN spoiled \cup {d} ELSE spoiled
     /\ UNCHANGED <<clock, file, call, notes, held>>

\* prune_gone: the documents some ingested row names that the walk did not see.
GoneDocs == {d \in Docs : d \notin run.seen
                          /\ \E id \in LiveIds : rows[id].hash # NoHash /\ rows[id].parent = d}
\* Mutant: rows with no source digest are considered too.
PruneUnseen(id) == Live(id) /\ rows[id].parent \notin run.seen

\* The rows it deletes.
prune_gone(id) == Live(id) /\ rows[id].parent \in GoneDocs

\* The end of the run, with or without --prune.
Finish(prune) ==
  /\ run.on /\ run.todo = {}
  /\ Delete(IF prune THEN {id \in Ids : prune_gone(id)} ELSE {})
  /\ run' = Idle
  /\ UNCHANGED <<pin, clock, file, call, notes, held, budget>>

\* The process is killed, or an append fails, in the middle of the prune: it
\* deletes document by document and, within one, row by row in any order.
PruneKilled ==
  /\ run.on /\ run.todo = {} /\ Spend("kills")
  /\ \E d \in GoneDocs, done \in SUBSET GoneDocs :
     \E part \in SUBSET {id \in LiveIds : rows[id].parent = d} :
       Delete(part \cup {id \in LiveIds : rows[id].parent \in done})
  /\ run' = Idle
  /\ UNCHANGED <<pin, clock, file, call, notes, held>>

-----------------------------------------------------------------------------
Init ==
  /\ rows = [id \in Ids |-> Absent]
  /\ pin = NoPin
  /\ clock = 1
  /\ file = [d \in Docs |-> 0]
  /\ run = Idle
  /\ call = [c \in Callers |-> NoCall]
  /\ notes = 0
  /\ held = {}
  /\ settled = [d \in Docs |-> 0]
  /\ spoiled = {}
  /\ budget \in Budgets

Next ==
  \/ \E e \in Embedders, m \in Memories, ttl \in TTLs : Remember(e, m, ttl)
  \/ \E e \in Embedders, m \in Memories : RawUpsert(e, m)
  \/ \E c \in Callers, e \in Embedders, reranked \in BOOLEAN, extend \in TTLs :
       RecallAsk(c, e, reranked, extend)
  \/ \E c \in Callers : RecallRun(c) \/ RecallSearch(c) \/ RecallStamp(c)
  \/ Forget
  \/ SweepExpired
  \/ Tick
  \/ \E d \in Docs, v \in Versions \cup {0} : Edit(d, v)
  \/ \E e \in Embedders : Walk(e)
  \/ \E d \in Docs : IngestFile(d) \/ IngestKilled(d)
  \/ \E prune \in BOOLEAN : Finish(prune)
  \/ PruneKilled

Spec == Init /\ [][Next]_vars

-----------------------------------------------------------------------------
(* Properties *)

\* The shape of the collection, of the run and of the answers owed.
TypeOK ==
  /\ rows \in [Ids -> Row \cup {Absent}]
  /\ pin \in Embedders \cup {NoPin}
  /\ clock \in Nat
  /\ file \in [Docs -> Versions \cup {0}]
  /\ held \subseteq [text: Texts, until: Int \cup {None}]
  /\ spoiled \subseteq Docs
  /\ run.todo \subseteq run.seen

(***************************************************************************)
(* What the last finished ingest of a file stored, or found unchanged, is  *)
(* the document: the chunks of that version, all of them and nothing else, *)
(* whatever earlier generations, killed first ingests and their retries,   *)
(* walks, prunes and forgets did before (cli/ingest.rs run, memory.rs      *)
(* remember_chunked_with).  Except for documents spoiled since their last  *)
(* whole write: by a kill while older chunks were replaced, by a forget or *)
(* a killed prune that took a chunk from the middle, or by a memory that   *)
(* deduplication merged into a chunk.  Digest and last chunk see none of   *)
(* these.                                                                  *)
(***************************************************************************)
IngestedIsFile ==
  \A d \in Docs : settled[d] # 0 /\ d \notin spoiled =>
    {<<rows[id].text, rows[id].index>> : id \in {i \in LiveIds : rows[i].parent = d}}
      = {<<<<d, settled[d], i>>, i>> : i \in 0 .. ChunksOf[settled[d]] - 1}

(***************************************************************************)
(* A memory that was remembered is still in the collection, in the text it *)
(* was remembered with, until a later remember replaces it, somebody       *)
(* forgets it, or a sweep finds it past what its caller was promised: no   *)
(* ingest and no prune, killed or not, takes it away (cli/ingest.rs        *)
(* prune_gone, memory.rs strip_reserved_chunk).  A memory merged into a    *)
(* chunk of a file goes with the file.                                     *)
(***************************************************************************)
MemoriesKept == \A p \in held : \E id \in LiveIds : rows[id].text = p.text

(***************************************************************************)
(* Under strict identity, all vectors of a pinned collection come from the *)
(* embedder it is pinned to, however the collection was filled before      *)
(* (memory.rs ensure_collection_and_pin).                                  *)
(***************************************************************************)
OneSpace == Strict /\ pin # NoPin => \A id \in LiveIds : rows[id].space = pin

(***************************************************************************)
(* A memory that was answered stays visible for as long as its caller may  *)
(* count on it: no merge into an entry that had expired when the           *)
(* near-duplicate was searched, no reinforcement, no sweep and no ingest   *)
(* brings its expiry forward.  A time to live of zero or less promises     *)
(* nothing (memory.rs prepare_remember and stamp_recency, write.rs         *)
(* reinforce).                                                             *)
(***************************************************************************)
AnsweredStaysVisible ==
  \A p \in held : \E id \in LiveIds :
    /\ rows[id].text = p.text
    /\ rows[id].expires # None => p.until # None /\ rows[id].expires >= p.until

(***************************************************************************)
(* An expired row comes back, in the text it has, only through a recall    *)
(* that was already in flight: one that read the clock of its guard before *)
(* the row expired, or that had searched when the row was written over.    *)
(* Every other row that expired stays hidden until it is remembered again  *)
(* (memory.rs recall_with's guard, "so an expired entry cannot leak back   *)
(* into recall").                                                          *)
(***************************************************************************)
Overtaken(id, q) ==
  \/ not_expired(rows[id], q.guard)
  \/ q.at = "searched" /\ id \in DOMAIN q.found /\ q.found[id] # rows[id].text

ExpiredStaysHidden ==
  [][\A id \in Ids :
       /\ rows[id] # Absent /\ ~not_expired(rows[id], clock)
       /\ rows'[id] # Absent /\ rows'[id].text = rows[id].text
       /\ not_expired(rows'[id], clock')
       => \E c \in Callers : call[c] # NoCall /\ call'[c] = NoCall /\ Overtaken(id, call[c])]_vars
=============================================================================
