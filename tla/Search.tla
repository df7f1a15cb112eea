-------------------------------- MODULE Search --------------------------------
(***************************************************************************)
(* The vector read path of one store (src/store/read.rs, scoring.rs,       *)
(* quant.rs, aggregate.rs, src/search) over the derived state it reads: the*)
(* cached scan order, the reverse map, the ANN index or the per-segment    *)
(* IVF indexes with their caches, and the quantized matrix.                *)
(*                                                                         *)
(* A vector is a point of a line and the metric is the negated squared     *)
(* distance, so unequal vectors may tie.  An index is the function from the*)
(* rows it holds to the vectors it placed them by; what a walk surfaces of *)
(* it is any set of its rows within the candidate budget.  An attribute    *)
(* map is one value: a filter is the set of values it accepts, and the     *)
(* group of `limit_per` is the value.  A write is durable when it returns  *)
(* (module Store), so a kill loses what is in memory, and a compaction has *)
(* two steps because its caches are refreshed after its commit point.      *)
(***************************************************************************)
EXTENDS Integers, SequencesExt, FiniteSets, Functions, TLC

CONSTANTS
    None,           \* an absent value, a model value
    Keys,           \* the documents <<collection, id>>, pairs of numbers
    Attrs,          \* attribute values
    Records,        \* the records written: key, vector (a natural, None if text-only), attr
    Modes,          \* what Config turns on: subset of {"ann", "segments", "quant"}
    Queries,        \* the queries asked in every state
    SegmentMaxRows, \* Config::segment_max_rows
    SegmentMinRows, \* Config::segment_index_min_rows
    Overscan,       \* AnnConfig::overscan
    Rescore,        \* QuantConfig::rescore
    Overfetch,      \* LIMIT_PER_OVERFETCH
    MaxGroups,      \* MAX_GROUPS
    MaxRows,        \* bound: rows in the matrix
    MaxWrites,      \* bound: calls that change a document
    MaxCompactions, \* bound: compactions
    MaxOpens        \* bound: kills and reopenings

VARIABLES
    docs,           \* key -> its entry, None for no document
    data,           \* the matrix: row r is data[r + 1]
    segs,           \* the segments, the last one active: name and rows
    nextId,         \* Segments::next_id
    annCache,       \* the `ann` object
    sidecars,       \* the `<segment>.ivf` objects
    mode,           \* the configuration this process opened with
    scanOrder,      \* Store::scan_order
    rowToDoc,       \* Store::row_to_doc
    ann, annDirty,  \* Store::ann and its dirty bit
    segIndexes,     \* Store::seg_indexes, each with its dirty bit
    codes,          \* the quantized matrix, the vector each code was made from
    rewriting,      \* the segments a compaction under way has dropped, or None
    era, annEra,    \* compactions committed; the compaction `ann` follows
    writes, opens

objects == <<docs, data, segs, nextId, annCache, sidecars, era>>
indexes == <<rowToDoc, ann, annDirty, annEra, segIndexes, codes>>
vars == <<objects, indexes, mode, scanOrder, rewriting, writes, opens>>

NoRow == -1         \* a text-only document
BASE == 0           \* BASE_SEGMENT

Min2(a, b) == IF a < b THEN a ELSE b
Max2(a, b) == IF a < b THEN b ELSE a
Live == {k \in Keys : docs[k] # None}
row_count == Len(data)
row(r) == data[r + 1]
scannable == {k \in Live : docs[k].row # NoRow}

\* Lexicographic order of tuples, the Ord of the (row, collection, id) tuples.
TupleLess(a, b) == \E i \in DOMAIN a : a[i] < b[i] /\ \A j \in 1..(i - 1) : a[j] = b[j]

\* The elements of S by a strict total order.
Sorted(S, Less(_, _)) ==
    LET below == [e \in S |-> Cardinality({x \in S : Less(x, e)})]
    IN  [n \in 1..Cardinality(S) |-> CHOOSE e \in S : below[e] = n - 1]

segment_ranges == [i \in DOMAIN segs |->
    LET base == FoldLeft(+, 0, [j \in 1..(i - 1) |-> segs[j].rows])
    IN  [base |-> base, end |-> base + segs[i].rows]]
RowsOf(range) == range.base..(range.end - 1)

-----------------------------------------------------------------------------
(* TopK: rank-ordered, worst last *)

Outranks(a, b) == a.score > b.score \/ (a.score = b.score /\ TupleLess(a.item, b.item))

offer(heap, k, e) ==
    LET Insert(h) == SelectSeq(h, LAMBDA x : ~Outranks(e, x)) \o <<e>> \o SelectSeq(h, LAMBDA x : Outranks(e, x))
    IN  CASE k = 0 -> heap
          [] k > 0 /\ Len(heap) < k -> Insert(heap)
          [] k > 0 /\ Len(heap) = k -> IF Outranks(e, heap[k]) THEN Insert(Front(heap)) ELSE heap

TopK(entries, k) == FoldLeft(LAMBDA h, e : offer(h, k, e), <<>>, entries)

\* parallel_topk: a chunk per worker, the chunks' top k merged into one.
parallel_topk(entries, workers, k) ==
    LET len == (Len(entries) + workers - 1) \div workers
        chunk(w) == SubSeq(entries, (w - 1) * len + 1, Min2(w * len, Len(entries)))
    IN  IF workers = 1 THEN TopK(entries, k)
        ELSE TopK(FlattenSeq([w \in 1..workers |-> TopK(chunk(w), k)]), k)

-----------------------------------------------------------------------------
(* The scan *)

euclidean_neg_sq(q, v) == -((q - v) * (q - v))
matches(q, k) == docs[k].attr \in q.filter
Times(q, k) == Cardinality({i \in DOMAIN q.scope : q.scope[i] = k[1]})
InScope(q) == {k \in scannable : Times(q, k) > 0}
scannable_in_scope(q) == FoldLeft(LAMBDA n, c : n + Cardinality({k \in scannable : k[1] = c}), 0, q.scope)

ByRow(S) == Sorted({[row |-> docs[k].row, key |-> k] : k \in S}, LAMBDA a, b : a.row < b.row)

\* The in-scope, filter-passing documents of S in row order; a collection the
\* scope names twice is gathered twice.
Gather(q, S) ==
    LET scan == ByRow({k \in S : matches(q, k)})
    IN  FlattenSeq([i \in DOMAIN scan |-> [j \in 1..Times(q, scan[i].key) |-> scan[i]]])

\* scan_order(): the cache, built from the documents when it is absent.
scan_order == IF scanOrder = None THEN ByRow(scannable) ELSE scanOrder

\* A scope as large as the store reads the cached order, and looks a document
\* up only when there is a filter to apply to it.
WholeStore(q) == scannable_in_scope(q) = Cardinality(scannable)
with_sorted_scan(q) ==
    IF WholeStore(q)
    THEN SelectSeq(scan_order, LAMBDA e : q.filter = Attrs \/ (e.key \in Live /\ matches(q, e.key)))
    ELSE Gather(q, InScope(q))

\* Scored entries that pass min_score: score_chunk, and every exact rescoring.
Scored(q, scan) == SelectSeq([i \in DOMAIN scan |->
    [score |-> euclidean_neg_sq(q.vec, row(scan[i].row)), item |-> scan[i].key]], LAMBDA e : e.score >= q.min)

rank_scan(q, scan, k) == parallel_topk(Scored(q, scan), q.workers, k)

-----------------------------------------------------------------------------
(* The approximate paths; W is what the walks surface *)

\* A code's vector is told apart from its neighbour's only up to the scale.
code(v) == v \div 2

search_quantized(q, scan, k) ==
    LET overscan == Max2(k * Rescore, k)
        held == SelectSeq(scan, LAMBDA e : e.row < Len(codes))
        first == [i \in DOMAIN held |-> [score |-> euclidean_neg_sq(code(q.vec), code(codes[held[i].row + 1])),
                                         item |-> <<held[i].row>> \o held[i].key]]
        kept == parallel_topk(first, q.workers, overscan)
    IN  TopK(Scored(q, [i \in DOMAIN kept |-> [row |-> kept[i].item[1], key |-> <<kept[i].item[2], kept[i].item[3]>>]]), k)

\* Mutant: the live entry's row is not compared with the walked one.
CandidatesUnchecked(q, W) == Sorted({[row |-> r, key |-> rowToDoc[r + 1]] :
    r \in {x \in W : /\ x < Len(rowToDoc)
                     /\ rowToDoc[x + 1] # None
                     /\ Times(q, rowToDoc[x + 1]) > 0
                     /\ rowToDoc[x + 1] \in Live
                     /\ matches(q, rowToDoc[x + 1])}}, LAMBDA a, b : a.row < b.row)

\* offer_candidates: the rows of W that resolve to a live document of the scope.
Candidates(q, W) == Sorted({[row |-> r, key |-> rowToDoc[r + 1]] :
    r \in {x \in W : /\ x < Len(rowToDoc)
                     /\ rowToDoc[x + 1] # None
                     /\ Times(q, rowToDoc[x + 1]) > 0
                     /\ rowToDoc[x + 1] \in Live
                     /\ docs[rowToDoc[x + 1]].row = x
                     /\ matches(q, rowToDoc[x + 1])}}, LAMBDA a, b : a.row < b.row)

\* depth: one page, deeper by the over-fetch when a cap will thin the ranking.
depth(q) == (q.offset + q.top_k) * IF q.cap > 0 THEN Overfetch ELSE 1

n_candidates(k) == Max2(k * Overscan, k)

\* The exact prefilter serves a narrowed query with few enough survivors.
selective(q, k) ==
    /\ q.filter # Attrs \/ scannable_in_scope(q) < Cardinality(scannable)
    /\ Len(Gather(q, InScope(q))) <= Max2(Cardinality(scannable) \div Overscan, n_candidates(k))

search_ann(q, k, W) ==
    IF selective(q, k) THEN rank_scan(q, Gather(q, InScope(q)), k) ELSE TopK(Scored(q, Candidates(q, W)), k)

\* The indexed segments, aligned by position with seg_indexes.
IndexedSegs == {i \in DOMAIN segs \cap DOMAIN segIndexes : segIndexes[i].index # None}

search_segmented(q, k, W) ==
    LET covered == UNION {RowsOf(segment_ranges[i]) : i \in IndexedSegs}
        tail == rank_scan(q, Gather(q, {x \in InScope(q) : docs[x].row \notin covered}), k)
        ivf == TopK(Scored(q, Candidates(q, W)), k)
    IN  TopK(tail \o ivf, k)

\* The indexes a query of this mode walks, and what the walks may surface.
Walked == CASE mode = "ann" -> {ann}
            [] mode = "segments" -> {segIndexes[i].index : i \in {j \in DOMAIN segIndexes : segIndexes[j].index # None}}
            [] mode = "quant" -> {}
Held == UNION {DOMAIN ix : ix \in Walked}
Walks(q) ==
    LET n == n_candidates(depth(q)) IN
    IF q.exact THEN {{}} ELSE {W \in SUBSET Held : \A ix \in Walked : Cardinality(W \cap DOMAIN ix) <= n}

\* search_inner's choice of a path, ranked k deep.
Ranked(q, k, W) ==
    CASE k = 0 -> <<>>
      [] k > 0 /\ mode = "ann" /\ ~q.exact -> search_ann(q, k, W)
      [] k > 0 /\ mode = "segments" /\ ~q.exact /\ Walked # {} -> search_segmented(q, k, W)
      [] k > 0 /\ mode = "quant" /\ ~q.exact /\ codes # <<>> -> search_quantized(q, with_sorted_scan(q), k)
      [] OTHER -> rank_scan(q, with_sorted_scan(q), k)

-----------------------------------------------------------------------------
(* The tail every ranking goes through *)

\* cap_per_value: the group is read from the live record, none when it is gone.
group_key(k) == IF k \in Live THEN docs[k].attr ELSE None
cap_per_value(hits, max) ==
    LET group(i) == group_key(hits[i].item)
        before(i) == {j \in 1..(i - 1) : group(j) = group(i)}
        first(i) == CHOOSE j \in before(i) \cup {i} : \A x \in before(i) \cup {i} : j <= x
        tracked(i) == Cardinality({group(j) : j \in 1..(first(i) - 1)}) < MaxGroups
        kept == {i \in DOMAIN hits : ~tracked(i) \/ Cardinality(before(i)) < max}
        order == Sorted(kept, <)
    IN  [n \in DOMAIN order |-> hits[order[n]]]

paginate(hits, offset) == SubSeq(hits, offset + 1, Len(hits))

\* Mutant: top_k is held before the offset is dropped.
finish_cut_first(hits, q) ==
    LET capped == IF q.cap > 0 THEN cap_per_value(hits, q.cap) ELSE hits
    IN  paginate(SubSeq(capped, 1, Min2(q.top_k, Len(capped))), q.offset)

finish(hits, q) ==
    LET capped == IF q.cap > 0 THEN cap_per_value(hits, q.cap) ELSE hits
        page == paginate(capped, q.offset)
    IN  SubSeq(page, 1, Min2(q.top_k, Len(page)))

search(q, W) == finish(Ranked(q, depth(q), W), q)

\* Mutant: the source is dropped from the page instead of from the ranking.
similar_from_page(q, source, W) ==
    SelectSeq(search([q EXCEPT !.vec = row(docs[source].row)], W), LAMBDA h : h.item # source)

\* search_similar: one deeper, uncapped and unpaged; the source goes, then the tail.
search_similar(q, source, W) ==
    LET wide == [q EXCEPT !.vec = row(docs[source].row), !.offset = 0, !.top_k = depth(q) + 1, !.cap = 0]
    IN  finish(SelectSeq(search(wide, W), LAMBDA h : h.item # source), q)

-----------------------------------------------------------------------------
(* The life of the derived state; f is the configuration, d the documents,  *)
(* m the matrix and g the segments it is made for                           *)

Placed(rows, m) == [r \in rows |-> m[r + 1]]
RowsIn(d) == {d[k].row : k \in {x \in Keys : d[x] # None}} \ {NoRow}

rebuild_row_to_doc(d, m) == [n \in 1..Len(m) |->
    IF n - 1 \in RowsIn(d) THEN CHOOSE k \in Keys : d[k] # None /\ d[k].row = n - 1 ELSE None]

\* Mutant: the rows appended since the cache was written are not caught up.
load_without_catch_up(d, m) ==
    IF annCache # None /\ annCache.covered <= Len(m)
    THEN [index |-> annCache.index, dirty |-> FALSE, era |-> annCache.era]
    ELSE [index |-> Placed(RowsIn(d), m), dirty |-> TRUE, era |-> era]

\* load_or_build_ann: a cache that covers no more rows than there are is adopted
\* and caught up with the rows appended since; otherwise the live rows are indexed.
load_or_build_ann(d, m) ==
    IF annCache # None /\ annCache.covered <= Len(m)
    THEN [index |-> annCache.index @@ Placed(annCache.covered..(Len(m) - 1), m),
          dirty |-> Len(m) > annCache.covered, era |-> annCache.era]
    ELSE [index |-> Placed(RowsIn(d), m), dirty |-> TRUE, era |-> era]

\* build_segment_indexes: every cold segment large enough, from the sidecar of
\* exactly its name and row range or from its rows.
Slot(name, range) == [name |-> name, base |-> range.base, end |-> range.end]
Unindexed == [index |-> None, dirty |-> FALSE]
build_segment_indexes(g, m) ==
    LET ranges == [i \in DOMAIN g |-> LET b == FoldLeft(+, 0, [j \in 1..(i - 1) |-> g[j].rows])
                                      IN  [base |-> b, end |-> b + g[i].rows]]
        cached(i) == {c \in sidecars : c.slot = Slot(g[i].name, ranges[i])}
    IN  [i \in DOMAIN g |->
            IF i = Len(g) \/ g[i].rows < SegmentMinRows THEN Unindexed
            ELSE IF cached(i) # {} THEN [index |-> (CHOOSE c \in cached(i) : TRUE).index, dirty |-> FALSE]
            ELSE [index |-> Placed(RowsOf(ranges[i]), m), dirty |-> TRUE]]

\* persist_index: persist_ann and persist_seg_indexes.
SavedAnn(ix, dirty, m, e) ==
    IF mode = "ann" /\ dirty THEN [covered |-> Len(m), index |-> ix, era |-> e] ELSE annCache
SavedSidecars ==
    LET fresh == {[slot |-> Slot(segs[i].name, segment_ranges[i]), index |-> segIndexes[i].index] :
                    i \in {j \in IndexedSegs : segIndexes[j].dirty}}
    IN  IF Len(segs) # Len(segIndexes) THEN sidecars
        ELSE {c \in sidecars : \A n \in fresh : n.slot.name # c.slot.name} \cup fresh

-----------------------------------------------------------------------------
(* Calls *)

Init ==
    /\ docs = [k \in Keys |-> None] /\ data = <<>>
    /\ segs = <<[name |-> BASE, rows |-> 0]>> /\ nextId = 1
    /\ annCache = None /\ sidecars = {}
    /\ mode \in Modes
    /\ scanOrder = None /\ rowToDoc = <<>>
    /\ ann = <<>> /\ annDirty = (mode = "ann") /\ annEra = 0
    /\ segIndexes = IF mode = "segments" THEN <<Unindexed>> ELSE <<>>
    /\ codes = <<>> /\ rewriting = None /\ era = 0 /\ writes = 0 /\ opens = 0

Serving == rewriting = None
Writes == Serving /\ writes < MaxWrites /\ writes' = writes + 1

\* maybe_seal, and index_just_sealed with it: the segment that froze, from its
\* rows, and a slot for the new active one; everything when the slots are off.
Sealed == IF Last(segs).rows >= SegmentMaxRows THEN Append(segs, [name |-> nextId, rows |-> 0]) ELSE segs
index_just_sealed ==
    LET frozen == segment_ranges[Len(segs)]
        built == IF Last(segs).rows >= SegmentMinRows
                 THEN [index |-> Placed(RowsOf(frozen), data), dirty |-> TRUE] ELSE Unindexed
    IN  IF Len(segIndexes) # Len(segs) THEN build_segment_indexes(Sealed, data)
        ELSE Append([segIndexes EXCEPT ![Len(segs)] = built], Unindexed)
maybe_seal ==
    IF Sealed = segs THEN UNCHANGED <<nextId, segIndexes>>
    ELSE /\ nextId' = nextId + 1
         /\ segIndexes' = IF mode = "segments" THEN index_just_sealed ELSE segIndexes

Resized(s, n) == s \o [i \in 1..(n - Len(s)) |-> None]

\* upsert of one record with a vector: the row, the document, extend_quant and
\* extend_ann for that row, and the cached order dropped.
Upsert(k, v, a) ==
    LET r == row_count IN
    /\ v # None
    /\ Writes /\ r < MaxRows
    /\ maybe_seal
    /\ segs' = [Sealed EXCEPT ![Len(Sealed)].rows = @ + 1]
    /\ data' = Append(data, v)
    /\ docs' = [docs EXCEPT ![k] = [row |-> r, attr |-> a]]
    /\ codes' = IF mode = "quant" THEN Append(codes, v) ELSE codes
    /\ rowToDoc' = CASE mode = "ann" -> [Resized(rowToDoc, r + 1) EXCEPT ![r + 1] = k]
                     [] mode = "segments" /\ Sealed # segs -> rebuild_row_to_doc(docs, data)
                     [] OTHER -> rowToDoc
    /\ ann' = IF mode = "ann" THEN ann @@ (r :> v) ELSE ann
    /\ annDirty' = (annDirty \/ mode = "ann")
    /\ scanOrder' = None
    /\ UNCHANGED <<annCache, sidecars, era, annEra, mode, rewriting, opens>>

\* upsert of a text-only record: a seal it may still cause, and no row.
UpsertText(k, v, a) ==
    /\ v = None
    /\ Writes
    /\ maybe_seal
    /\ segs' = Sealed
    /\ docs' = [docs EXCEPT ![k] = [row |-> NoRow, attr |-> a]]
    /\ rowToDoc' = IF mode = "segments" /\ Sealed # segs THEN rebuild_row_to_doc(docs, data) ELSE rowToDoc
    /\ annDirty' = (annDirty \/ mode = "ann")
    /\ scanOrder' = None
    /\ UNCHANGED <<data, annCache, sidecars, era, ann, annEra, codes, mode, rewriting, opens>>

\* flush: a seal of a tail that is long enough.
Flush ==
    /\ Serving /\ Sealed # segs
    /\ maybe_seal
    /\ segs' = Sealed
    /\ rowToDoc' = IF mode = "segments" THEN rebuild_row_to_doc(docs, data) ELSE rowToDoc
    /\ UNCHANGED <<docs, data, annCache, sidecars, era, ann, annDirty, annEra, codes, mode, scanOrder, rewriting, writes, opens>>

\* delete and the sweep of expired documents, one at a time, and drop_collection
\* for all the documents of one.
Withdraw(S) ==
    /\ Writes /\ S # {}
    /\ docs' = [k \in Keys |-> IF k \in S THEN None ELSE docs[k]]
    /\ scanOrder' = None
    /\ UNCHANGED <<data, segs, nextId, annCache, sidecars, era, indexes, mode, rewriting, opens>>
Delete(k) == Withdraw({k} \cap Live)
DropCollection(c) == Withdraw({k \in Live : k[1] = c})

\* reinforce: attributes of a live document change, no derived state does.
Reinforce(k, a) ==
    /\ Writes /\ k \in Live /\ docs[k].attr # a
    /\ docs' = [docs EXCEPT ![k].attr = a]
    /\ UNCHANGED <<data, segs, nextId, annCache, sidecars, era, indexes, mode, scanOrder, rewriting, opens>>

\* A query that scans the whole store leaves the order it built behind.
Query(q) ==
    /\ Serving /\ scanOrder = None
    /\ q.exact \/ mode = "quant" \/ (mode = "segments" /\ Walked = {})
    /\ WholeStore(q)
    /\ scanOrder' = scan_order
    /\ UNCHANGED <<objects, indexes, mode, rewriting, writes, opens>>

PersistIndex ==
    /\ Serving
    /\ annCache' = SavedAnn(ann, annDirty, data, annEra)
    /\ annDirty' = FALSE
    /\ sidecars' = SavedSidecars
    /\ segIndexes' = IF Len(segs) = Len(segIndexes)
                     THEN [i \in DOMAIN segIndexes |-> [segIndexes[i] EXCEPT !.dirty = FALSE]] ELSE segIndexes
    /\ UNCHANGED <<docs, data, segs, nextId, era, rowToDoc, ann, annEra, codes, mode, scanOrder, rewriting, writes, opens>>

\* compact, to its commit point: the live rows in key order, one base segment.
Compacted == Sorted(scannable, TupleLess)
CompactCommit ==
    /\ Serving /\ era < MaxCompactions
    /\ data' = [n \in DOMAIN Compacted |-> row(docs[Compacted[n]].row)]
    /\ docs' = [k \in Keys |-> IF k \in scannable
                               THEN [docs[k] EXCEPT !.row = (CHOOSE n \in DOMAIN Compacted : Compacted[n] = k) - 1]
                               ELSE docs[k]]
    /\ segs' = <<[name |-> BASE, rows |-> Len(Compacted)]>>
    /\ rewriting' = {segs[i].name : i \in DOMAIN segs} \cup {BASE}
    /\ era' = era + 1
    /\ UNCHANGED <<nextId, annCache, sidecars, indexes, mode, scanOrder, writes, opens>>

\* The rest of compact: the sidecars dropped, everything rebuilt and persisted,
\* the last two at best effort.
CompactFinish(deleted, persisted) ==
    /\ rewriting # None
    /\ sidecars' = IF deleted THEN {c \in sidecars : c.slot.name \notin rewriting} ELSE sidecars
    /\ codes' = IF mode = "quant" THEN data ELSE codes
    /\ ann' = IF mode = "ann" THEN Placed(RowsIn(docs), data) ELSE ann
    /\ annEra' = era
    /\ annCache' = IF persisted THEN SavedAnn(ann', TRUE, data, era) ELSE annCache
    /\ annDirty' = (mode = "ann" /\ ~persisted)
    /\ rowToDoc' = IF mode = "quant" THEN rowToDoc ELSE rebuild_row_to_doc(docs, data)
    /\ segIndexes' = IF mode = "segments" THEN build_segment_indexes(segs, data) ELSE <<>>
    /\ scanOrder' = None
    /\ rewriting' = None
    /\ UNCHANGED <<docs, data, segs, nextId, era, mode, writes, opens>>

\* A process is killed, or closes, and another opens with configuration f.
Open(f) ==
    /\ opens < MaxOpens
    /\ mode' = f
    /\ LET loaded == load_or_build_ann(docs, data) IN
       /\ ann' = IF f = "ann" THEN loaded.index ELSE <<>>
       /\ annDirty' = (f = "ann" /\ loaded.dirty)
       /\ annEra' = IF f = "ann" THEN loaded.era ELSE era
    /\ rowToDoc' = IF f = "quant" THEN <<>> ELSE rebuild_row_to_doc(docs, data)
    /\ segIndexes' = IF f = "segments" THEN build_segment_indexes(segs, data) ELSE <<>>
    /\ codes' = IF f = "quant" THEN data ELSE <<>>
    /\ scanOrder' = None /\ rewriting' = None
    /\ opens' = opens + 1
    /\ UNCHANGED <<docs, data, segs, nextId, annCache, sidecars, era, writes>>

Next ==
    \/ \E x \in Records : Upsert(x.key, x.vec, x.attr) \/ UpsertText(x.key, x.vec, x.attr)
    \/ \E k \in Keys, a \in Attrs : Reinforce(k, a)
    \/ \E k \in Keys : Delete(k) \/ DropCollection(k[1])
    \/ \E q \in Queries : Query(q)
    \/ Flush \/ PersistIndex \/ CompactCommit
    \/ \E deleted, persisted \in BOOLEAN : CompactFinish(deleted, persisted)
    \/ \E f \in Modes : Open(f)

Spec == Init /\ [][Next]_vars

-----------------------------------------------------------------------------
(* What a search promises *)

\* Types: the segments tile the matrix, a document's row is its own and is in
\* the matrix, and the slots of segment indexes, when on, are the segments.
TypeOK ==
    /\ mode \in Modes /\ writes \in 0..MaxWrites /\ opens \in 0..MaxOpens
    /\ FoldLeft(+, 0, [i \in DOMAIN segs |-> segs[i].rows]) = row_count
    /\ \A k \in Live : docs[k].row \in {NoRow} \cup 0..(row_count - 1) /\ docs[k].attr \in Attrs
    /\ \A j, k \in scannable : docs[j].row = docs[k].row => j = k
    /\ Serving /\ mode = "segments" => DOMAIN segIndexes = DOMAIN segs
    /\ Serving /\ mode = "quant" => Len(codes) = row_count

Hit(q, k) == [score |-> euclidean_neg_sq(q.vec, row(docs[k].row)), item |-> k]
Wanted(q) == {k \in InScope(q) : matches(q, k) /\ Hit(q, k).score >= q.min}

\* The whole ranking, by definition: every wanted document, best first, ties
\* by collection and id.
Ranking(q) == Sorted({Hit(q, k) : k \in Wanted(q)}, Outranks)
Cut(s, n) == SubSeq(s, 1, Min2(n, Len(s)))
Reference(q) == finish(Cut(Ranking(q), depth(q)), q)

\* Every hit of every path is a document of the scope that is live and passes
\* the filter and min_score, with its exact score, once, in ranking order:
\* whatever a walk surfaces, however stale the index it walks
\* (read.rs offer_candidates; SPEC.md "Ranking is a total order").
HitsSound == Serving =>
    \A q \in Queries : \A W \in Walks(q) :
        LET hits == search(q, W) IN
        /\ \A i \in DOMAIN hits : hits[i].item \in Wanted(q) /\ hits[i] = Hit(q, hits[i].item)
        /\ \A i, j \in DOMAIN hits : i < j => Outranks(hits[i], hits[j])

\* A query whose walk can surface all an index holds, and every query that asks
\* for `exact`, gets the ranking itself: between them the legs of a path reach
\* every live row, through seals, deletes, reopenings and compactions, as long as
\* the index follows the last compaction (mod.rs load_or_build_ann,
\* index_just_sealed; quant.rs extend_quant).
Complete(q) ==
    \/ q.exact
    \/ mode \in {"ann", "segments"} /\ \A ix \in Walked : Cardinality(DOMAIN ix) <= n_candidates(depth(q))
    \/ mode = "quant" /\ Cardinality(InScope(q)) <= depth(q) * Rescore
CompleteIsExact == Serving /\ annEra = era =>
    \A q \in Queries : Complete(q) => search(q, Held) = Reference(q)

\* The same of every index an open adopts, and every row placed by the vector it
\* holds: SPEC.md says that a stale cache is discarded.
StaleDiscarded == Serving =>
    /\ \A q \in Queries : Complete(q) => search(q, Held) = Reference(q)
    /\ \A ix \in Walked : \A r \in DOMAIN ix : r < row_count /\ ix[r] = row(r)

\* A page is a cut of one ranking: at every offset an exact query answers a
\* prefix of that stretch of the capped ranking, the whole stretch without
\* a cap, so pages neither overlap nor reorder (read.rs finish and depth).
PagesAreCuts == Serving =>
    \A q \in {x \in Queries : x.exact} :
        LET whole == Ranking(q)
            capped == IF q.cap > 0 THEN cap_per_value(whole, q.cap) ELSE whole
            stretch == Cut(paginate(capped, q.offset), q.top_k)
        IN  /\ IsPrefix(search(q, {}), stretch)
            /\ q.cap = 0 => search(q, {}) = stretch

\* search_similar answers what a search for the source's vector would rank, less
\* the source and nothing else: a twin of the source stays, and the source spends
\* neither a slot nor its group's quota (read.rs search_similar_inner).
SimilarDropsOnlySource == Serving =>
    \A q \in {x \in Queries : x.exact} : \A source \in scannable :
        LET others == SelectSeq(Ranking([q EXCEPT !.vec = row(docs[source].row)]), LAMBDA h : h.item # source)
        IN  search_similar(q, source, {}) = finish(Cut(others, depth(q)), q)
=============================================================================
