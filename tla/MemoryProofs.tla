---------------------------- MODULE MemoryProofs ----------------------------
(***************************************************************************)
(* Theorems about the memory layer and ingest, for any memories, files,    *)
(* chunkings, embedders and times to live, and behaviours of any length.   *)
(***************************************************************************)
EXTENDS Memory, TLAPS

-----------------------------------------------------------------------------
(* The shape of the collection *)

NoteTexts == {"note"} \X Nat
ChunkTexts == Docs \X Versions \X Nat

LiveRow == [at: {"live"}, text: NoteTexts \cup ChunkTexts, parent: Docs \cup {NoDoc},
            index: Nat, hash: (Versions \X Embedders) \cup {NoHash}, created: Nat,
            expires: Int \cup {None}, count: Nat, space: Embedders]

RunShape == [on: BOOLEAN, by: Embedders \cup {NoPin}, todo: SUBSET Docs, seen: SUBSET Docs]

\* A recall that is not over.
InFlight(q) == q.at \in {"asked", "searched"} /\ q.guard \in Nat /\ q.extend \in TTLs

\* TypeOK without the bounds of a behaviour.
Shape ==
  /\ rows \in [Ids -> LiveRow \cup {Absent}]
  /\ clock \in Nat /\ notes \in Nat
  /\ file \in [Docs -> Versions \cup {0}]
  /\ settled \in [Docs -> Versions \cup {0}]
  /\ run \in RunShape /\ (run.on => run.by \in Embedders)
  /\ call = [c \in Callers |-> call[c]]
  /\ \A c \in Callers : call[c] = NoCall \/ InFlight(call[c])

\* A live row is not Absent.
LEMMA LiveNotAbsent == Absent \notin LiveRow
BY DEF Absent, LiveRow

LEMMA LiveFields ==
    ASSUME NEW r \in LiveRow
    PROVE  /\ r.at = "live" /\ r.text \in NoteTexts \cup ChunkTexts /\ r.parent \in Docs \cup {NoDoc}
           /\ r.index \in Nat /\ r.hash \in (Versions \X Embedders) \cup {NoHash} /\ r.created \in Nat
           /\ r.expires \in Int \cup {None} /\ r.count \in Nat /\ r.space \in Embedders
BY DEF LiveRow

LEMMA LiveIsRow ==
    ASSUME Shape, NEW id \in Ids
    PROVE  Live(id) <=> rows[id] \in LiveRow
BY LiveNotAbsent DEF Shape, Live

\* A memory's text and a chunk's are never the same.
LEMMA NoteNotChunk == NoteTexts \cap ChunkTexts = {}
BY DEF NoteTexts, ChunkTexts

LEMMA ShapeInit == Init => Shape
<1> SUFFICES ASSUME Init PROVE Shape
    OBVIOUS
<1>1. run \in RunShape /\ ~run.on
    BY DEF Init, Idle, RunShape
<1>2. rows \in [Ids -> LiveRow \cup {Absent}]
    BY DEF Init
<1>3. settled \in [Docs -> Versions \cup {0}] /\ file \in [Docs -> Versions \cup {0}]
    BY DEF Init
<1>4. clock \in Nat /\ notes \in Nat
    BY DEF Init
<1>5. call = [c \in Callers |-> call[c]] /\ \A c \in Callers : call[c] = NoCall
    BY DEF Init
<1> QED
    BY <1>1, <1>2, <1>3, <1>4, <1>5 DEF Shape

-----------------------------------------------------------------------------
(* What the operations do to a row *)

\* The row a remember writes, at an id that is there or not.
LEMMA RememberedRow ==
    ASSUME Shape, NEW id \in Ids, NEW deduped \in BOOLEAN, deduped => Live(id),
           NEW now \in Nat, NEW ttl \in TTLs, NEW e \in Embedders,
           NEW r, r = prepare_remember(id, deduped, now, ttl, e)
    PROVE  /\ r \in LiveRow
           /\ r.text = <<"note", notes + 1>> /\ r.space = e
           /\ r.parent = IF deduped THEN rows[id].parent ELSE NoDoc
           /\ deduped => r.index = rows[id].index /\ r.hash = rows[id].hash
           /\ r.expires = IF ttl # None THEN now + ttl ELSE IF deduped THEN rows[id].expires ELSE None
<1> DEFINE s == stamp_recency(id, now, ttl, IF deduped THEN rows[id].expires ELSE None)
<1>1. Live(id) => rows[id] \in LiveRow
    BY LiveIsRow
<1>2. s.expires = IF ttl # None THEN now + ttl ELSE IF deduped THEN rows[id].expires ELSE None
    BY DEF stamp_recency
<1>3. s.created \in Nat
    BY <1>1, LiveFields DEF stamp_recency
<1>4. s.expires \in Int \cup {None}
    BY <1>1, <1>2, LiveFields, MemoryAssumption
<1>5. <<"note", notes + 1>> \in NoteTexts
    BY DEF Shape, NoteTexts
<1> HIDE DEF s
<1>6. r = [at |-> "live", text |-> <<"note", notes + 1>>,
           parent |-> IF deduped THEN rows[id].parent ELSE NoDoc,
           index |-> IF deduped THEN rows[id].index ELSE 0,
           hash |-> IF deduped THEN rows[id].hash ELSE NoHash,
           created |-> s.created, expires |-> s.expires,
           count |-> IF deduped THEN rows[id].count ELSE 0, space |-> e]
    BY Zenon DEF prepare_remember, s
<1>7. r \in LiveRow
  <2>1. /\ (IF deduped THEN rows[id].parent ELSE NoDoc) \in Docs \cup {NoDoc}
        /\ (IF deduped THEN rows[id].index ELSE 0) \in Nat
        /\ (IF deduped THEN rows[id].hash ELSE NoHash) \in (Versions \X Embedders) \cup {NoHash}
        /\ (IF deduped THEN rows[id].count ELSE 0) \in Nat
    BY <1>1, LiveFields
  <2> QED
    BY <1>3, <1>4, <1>5, <1>6, <2>1 DEF LiveRow
<1> QED
    BY <1>2, <1>6, <1>7

\* The row a raw upsert writes.
RawRow(e) == [at |-> "live", text |-> <<"note", notes + 1>>, parent |-> NoDoc, index |-> 0,
              hash |-> NoHash, created |-> 0, expires |-> None, count |-> 0, space |-> e]

LEMMA RawRowIsRow ==
    ASSUME Shape, NEW e \in Embedders
    PROVE  RawRow(e) \in LiveRow
BY DEF Shape, RawRow, LiveRow, NoteTexts

\* A row that was hit: its count and its expiry are new, nothing else.
Stamped(q, now, extend) ==
  [q EXCEPT !.count = @ + 1,
            !.expires = IF extend = None \/ @ = None THEN @
                        ELSE IF @ > now + extend THEN @ ELSE now + extend]

\* Two rows that differ at most in birth, count and expiry.
SameRow(q, r) ==
  /\ r.text = q.text /\ r.parent = q.parent /\ r.index = q.index
  /\ r.hash = q.hash /\ r.space = q.space

\* An expiry moves forward, and none stays none.
Later(x, y) == IF x = None THEN y = None ELSE y \in Int /\ y >= x

LEMMA StampedRow ==
    ASSUME NEW q \in LiveRow, NEW now \in Nat, NEW extend \in TTLs
    PROVE  /\ Stamped(q, now, extend) \in LiveRow
           /\ SameRow(q, Stamped(q, now, extend))
           /\ Later(q.expires, Stamped(q, now, extend).expires)
<1> DEFINE x == IF extend = None \/ q.expires = None THEN q.expires
                ELSE IF q.expires > now + extend THEN q.expires ELSE now + extend
           c == q.count + 1
<1>0. q.expires \in Int \cup {None} /\ q.count \in Nat /\ extend \in Int \cup {None} /\ None \notin Int
    BY LiveFields, MemoryAssumption
<1>1. c \in Nat /\ x \in Int \cup {None} /\ Later(q.expires, x)
    BY <1>0 DEF Later
<1>2. Stamped(q, now, extend) = [q EXCEPT !.count = c, !.expires = x]
    BY DEF Stamped, LiveRow
<1> HIDE DEF x, c
<1>3. [q EXCEPT !.count = c, !.expires = x] \in LiveRow
    BY <1>1 DEF LiveRow
<1>4. SameRow(q, [q EXCEPT !.count = c, !.expires = x])
    BY <1>1 DEF LiveRow, SameRow
<1>5. [q EXCEPT !.count = c, !.expires = x].expires = x
    BY <1>1 DEF LiveRow
<1> QED
    BY <1>1, <1>2, <1>3, <1>4, <1>5

\* Reinforcement keeps everything a row says but its count and its expiry.
LEMMA ReinforcedRow ==
    ASSUME Shape, NEW hits, NEW now \in Nat, NEW extend \in TTLs, NEW id \in Ids,
           NEW r, r = reinforce(hits, now, extend)[id]
    PROVE  /\ ~Live(id) \/ id \notin hits => r = rows[id]
           /\ Live(id) => r \in LiveRow /\ SameRow(rows[id], r) /\ Later(rows[id].expires, r.expires)
<1>1. CASE ~Live(id)
    BY <1>1 DEF reinforce
<1>2. CASE Live(id) /\ id \notin hits
  <2>1. r = rows[id]
    BY <1>2 DEF reinforce
  <2>2. rows[id] \in LiveRow
    BY <1>2, LiveIsRow
  <2>3. Later(rows[id].expires, r.expires)
    BY <2>1, <2>2, LiveFields DEF Later
  <2> QED
    BY <1>2, <2>1, <2>2, <2>3 DEF SameRow
<1>3. CASE Live(id) /\ id \in hits
  <2>1. rows[id] \in LiveRow
    BY <1>3, LiveIsRow
  <2>2. r = Stamped(rows[id], now, extend)
    BY <1>3 DEF reinforce, Stamped
  <2> QED
    BY <1>3, <2>1, <2>2, StampedRow
<1> QED
    BY <1>1, <1>2, <1>3

\* A chunk write leaves a row absent, chunk i of the new version, or as it was.
IsChunk(r, d, v, i, e) ==
  /\ r \in LiveRow /\ r.text = <<d, v, i>> /\ r.parent = d /\ r.index = i
  /\ r.hash = <<v, e>> /\ r.expires = None /\ r.space = e

InPuts(id, d, puts) == id \in ChunkIds /\ id[1] = d /\ id[2] < puts

LEMMA ChunkRowIsChunk ==
    ASSUME Shape, NEW d \in Docs, NEW v \in Versions, NEW e \in Embedders, NEW i \in Nat,
           <<d, i>> \in Ids
    PROVE  IsChunk(ChunkRow(d, v, i, e), d, v, i, e)
<1>1. stamp_recency(<<d, i>>, clock, None, None).created \in Nat
    BY LiveIsRow, LiveFields DEF stamp_recency, Shape
<1>2. <<d, v, i>> \in ChunkTexts /\ <<v, e>> \in Versions \X Embedders
    BY DEF ChunkTexts
<1>3. PICK c \in Nat : c = stamp_recency(<<d, i>>, clock, None, None).created
    BY <1>1
<1>a. stamp_recency(<<d, i>>, clock, None, None).expires = None
    BY DEF stamp_recency
<1>4. ChunkRow(d, v, i, e) =
        [at |-> "live", text |-> <<d, v, i>>, parent |-> d, index |-> i, hash |-> <<v, e>>,
         created |-> c, expires |-> None, count |-> 0, space |-> e]
    BY <1>3, <1>a, Zenon DEF ChunkRow
<1>5. ChunkRow(d, v, i, e) \in LiveRow
    BY <1>2, <1>4 DEF LiveRow
<1> QED
    BY <1>4, <1>5 DEF IsChunk

LEMMA ChunkIdParts ==
    ASSUME NEW id \in ChunkIds
    PROVE  id[1] \in Docs /\ id[2] \in Nat /\ id = <<id[1], id[2]>> /\ id \in Ids
BY MemoryAssumption DEF ChunkIds, Ids

LEMMA WrittenRow ==
    ASSUME Shape, NEW d \in Docs, NEW v \in Versions, NEW e \in Embedders, NEW puts, NEW cut,
           NEW id \in Ids, NEW r, r = Written(d, v, e, puts, cut)[id]
    PROVE  /\ id \in cut => r = Absent
           /\ id \notin cut /\ InPuts(id, d, puts) => IsChunk(r, d, v, id[2], e)
           /\ id \notin cut /\ ~InPuts(id, d, puts) => r = rows[id]
<1>1. r = IF id \in cut THEN Absent
          ELSE IF id[1] = d /\ id \in ChunkIds /\ id[2] < puts
               THEN ChunkRow(d, v, id[2], e) ELSE rows[id]
    BY DEF Written
<1>2. CASE id \in cut
    BY <1>1, <1>2, Zenon
<1>3. CASE id \notin cut /\ InPuts(id, d, puts)
  <2>1. r = ChunkRow(d, v, id[2], e)
    BY <1>1, <1>3, Zenon DEF InPuts
  <2>2. id[2] \in Nat /\ <<d, id[2]>> \in Ids
    BY <1>3, ChunkIdParts DEF InPuts
  <2> QED
    BY <1>3, <2>1, <2>2, ChunkRowIsChunk
<1>4. CASE id \notin cut /\ ~InPuts(id, d, puts)
    BY <1>1, <1>4, Zenon DEF InPuts
<1> QED
    BY <1>2, <1>3, <1>4

LEMMA WrittenShape ==
    ASSUME Shape, NEW d \in Docs, NEW v \in Versions, NEW e \in Embedders, NEW puts, NEW cut
    PROVE  Written(d, v, e, puts, cut) \in [Ids -> LiveRow \cup {Absent}]
<1>1. ASSUME NEW id \in Ids PROVE Written(d, v, e, puts, cut)[id] \in LiveRow \cup {Absent}
  <2>1. rows[id] \in LiveRow \cup {Absent}
    BY DEF Shape
  <2> QED
    BY <2>1, WrittenRow DEF IsChunk
<1>2. DOMAIN Written(d, v, e, puts, cut) = Ids
    BY DEF Written
<1>3. Written(d, v, e, puts, cut) = [id \in Ids |-> Written(d, v, e, puts, cut)[id]]
    BY DEF Written
<1> QED
    BY <1>1, <1>3

LEMMA ReinforceShape ==
    ASSUME Shape, NEW hits, NEW now \in Nat, NEW extend \in TTLs
    PROVE  reinforce(hits, now, extend) \in [Ids -> LiveRow \cup {Absent}]
<1>1. ASSUME NEW id \in Ids PROVE reinforce(hits, now, extend)[id] \in LiveRow \cup {Absent}
  <2>1. rows[id] \in LiveRow \cup {Absent}
    BY DEF Shape
  <2> QED
    BY <2>1, ReinforcedRow
<1>2. reinforce(hits, now, extend) = [id \in Ids |-> reinforce(hits, now, extend)[id]]
    BY DEF reinforce
<1> QED
    BY <1>1, <1>2

\* What a remember may be redirected to.
LEMMA RememberTarget ==
    ASSUME NEW m \in Memories, NEW dedupe \in BOOLEAN,
           NEW target \in IF dedupe /\ Candidates(clock) # {} THEN Candidates(clock) ELSE {<<m, 0>>}
    PROVE  /\ target \in Ids
           /\ dedupe /\ Candidates(clock) # {} => target \in Candidates(clock) /\ Live(target)
           /\ ~(dedupe /\ Candidates(clock) # {}) => target = <<m, 0>>
<1>1. CASE dedupe /\ Candidates(clock) # {}
    BY <1>1 DEF Candidates, LiveIds
<1>2. CASE ~(dedupe /\ Candidates(clock) # {})
    BY <1>2 DEF Ids, MemoryIds
<1> QED
    BY <1>1, <1>2

\* A remember, as the theorems use it: row r is written at target.
Remembers(e, m, ttl, target, deduped, drift, r) ==
  /\ r.text = <<"note", notes + 1>> /\ r.space = e
  /\ r.parent = IF deduped THEN rows[target].parent ELSE NoDoc
  /\ deduped => r.index = rows[target].index /\ r.hash = rows[target].hash
  /\ r.expires = IF ttl # None THEN clock + drift + ttl
                 ELSE IF deduped THEN rows[target].expires ELSE None
  /\ rows' = [rows EXCEPT ![target] = r]
  /\ deduped => target \in Candidates(clock)
  /\ ~deduped => target = <<m, 0>>
  /\ held' = {p \in held : Live(target) => p.text # rows[target].text}
             \cup (IF r.parent # NoDoc THEN {}
                   ELSE {[text |-> r.text, until |-> Promise(target, deduped, clock + drift, ttl)]})
  /\ spoiled' = spoiled \cup ({r.parent} \ {NoDoc})
  /\ Pinnable(e) /\ pin' = e /\ clock' = clock + drift /\ notes' = notes + 1
  /\ UNCHANGED <<file, run, call, settled>>

LEMMA RememberStep ==
    ASSUME Shape, NEW e \in Embedders, NEW m \in Memories, NEW ttl \in TTLs, Remember(e, m, ttl)
    PROVE  \E target \in Ids, deduped \in BOOLEAN, drift \in Drifts, r \in LiveRow :
              Remembers(e, m, ttl, target, deduped, drift, r)
<1> DEFINE Writes(dedupe, drift, target) ==
         /\ Spend("notes")
         /\ Pinnable(e)
         /\ LET deduped == dedupe /\ Candidates(clock) # {}
                row == prepare_remember(target, deduped, clock + drift, ttl, e)
            IN /\ rows' = [rows EXCEPT ![target] = row]
               /\ held' = {p \in held : Live(target) => p.text # rows[target].text}
                          \cup (IF row.parent # NoDoc THEN {}
                                ELSE {[text |-> row.text,
                                       until |-> Promise(target, deduped, clock + drift, ttl)]})
               /\ spoiled' = spoiled \cup ({row.parent} \ {NoDoc})
         /\ pin' = e
         /\ clock' = clock + drift
         /\ notes' = notes + 1
         /\ UNCHANGED <<file, run, call, settled>>
<1>0. PICK dedupe \in BOOLEAN, drift \in Drifts :
         \E target \in IF dedupe /\ Candidates(clock) # {} THEN Candidates(clock) ELSE {<<m, 0>>} :
            Writes(dedupe, drift, target)
    BY Zenon DEF Remember
<1>1. PICK target \in IF dedupe /\ Candidates(clock) # {} THEN Candidates(clock) ELSE {<<m, 0>>} :
         Writes(dedupe, drift, target)
    BY <1>0
<1>2. PICK deduped \in BOOLEAN : deduped <=> dedupe /\ Candidates(clock) # {}
    OBVIOUS
<1>3. deduped = (dedupe /\ Candidates(clock) # {})
    BY <1>2
<1>4. target \in Ids /\ (deduped => target \in Candidates(clock) /\ Live(target))
      /\ (~deduped => target = <<m, 0>>)
    BY <1>2, RememberTarget
<1>5. PICK r : r = prepare_remember(target, deduped, clock + drift, ttl, e)
    OBVIOUS
<1>6. clock + drift \in Nat
    BY MemoryAssumption DEF Shape
<1>7. /\ r \in LiveRow
      /\ r.text = <<"note", notes + 1>> /\ r.space = e
      /\ r.parent = IF deduped THEN rows[target].parent ELSE NoDoc
      /\ deduped => r.index = rows[target].index /\ r.hash = rows[target].hash
      /\ r.expires = IF ttl # None THEN clock + drift + ttl
                     ELSE IF deduped THEN rows[target].expires ELSE None
    BY <1>4, <1>5, <1>6, RememberedRow
<1>8. /\ rows' = [rows EXCEPT ![target] = r]
      /\ held' = {p \in held : Live(target) => p.text # rows[target].text}
                 \cup (IF r.parent # NoDoc THEN {}
                       ELSE {[text |-> r.text, until |-> Promise(target, deduped, clock + drift, ttl)]})
      /\ spoiled' = spoiled \cup ({r.parent} \ {NoDoc})
    BY <1>1, <1>3, <1>5, Zenon
<1>9. /\ Pinnable(e) /\ pin' = e /\ clock' = clock + drift /\ notes' = notes + 1
      /\ UNCHANGED <<file, run, call, settled>>
    BY <1>1, Zenon
<1>10. Remembers(e, m, ttl, target, deduped, drift, r)
    BY <1>4, <1>7, <1>8, <1>9 DEF Remembers
<1> QED
    BY <1>4, <1>7, <1>10

\* A collection without some of its rows is a collection.
LEMMA RemoveShape ==
    ASSUME Shape, NEW G, rows' = [id \in Ids |-> IF id \in G THEN Absent ELSE rows[id]]
    PROVE  rows' \in [Ids -> LiveRow \cup {Absent}]
BY DEF Shape

\* The steps that delete rows, of a forget, a sweep or a prune.
Deletes(ids) ==
  /\ ids \subseteq LiveIds /\ Delete(ids)
  /\ run' = run \/ run' = Idle
  /\ UNCHANGED <<pin, clock, file, call, notes>>

LEMMA ForgetDeletes ==
    ASSUME Forget
    PROVE  \E ids : Deletes(ids) /\ held' = {p \in held : \A id \in ids : p.text # rows[id].text}
BY Zenon DEF Forget, Deletes

Expired == {id \in LiveIds : rows[id].expires # None /\ rows[id].expires <= clock}

LEMMA SweepDeletes ==
    ASSUME SweepExpired
    PROVE  /\ Deletes(Expired)
           /\ held' = {p \in held : \/ p.until = None \/ p.until > clock
                                    \/ \A id \in Expired : p.text # rows[id].text}
BY Zenon DEF SweepExpired, Deletes, Expired

\* A prune, whole or killed, takes rows of documents only.
LEMMA PruneDeletes ==
    ASSUME PruneKilled \/ \E prune \in BOOLEAN : Finish(prune)
    PROVE  \E ids : Deletes(ids) /\ UNCHANGED held /\ \A id \in ids : rows[id].parent \in Docs
<1>1. ASSUME NEW prune \in BOOLEAN, Finish(prune)
      PROVE  \E ids : Deletes(ids) /\ UNCHANGED held /\ \A id \in ids : rows[id].parent \in Docs
  <2>1. PICK ids : ids = IF prune THEN {id \in Ids : prune_gone(id)} ELSE {}
    OBVIOUS
  <2>2. ids \subseteq LiveIds /\ \A id \in ids : rows[id].parent \in Docs
    BY <2>1 DEF prune_gone, LiveIds, GoneDocs
  <2>3. Delete(ids) /\ run' = Idle /\ UNCHANGED <<pin, clock, file, call, notes, held>>
    BY <1>1, <2>1, Zenon DEF Finish
  <2> QED
    BY <2>2, <2>3 DEF Deletes
<1>2. ASSUME PruneKilled
      PROVE  \E ids : Deletes(ids) /\ UNCHANGED held /\ \A id \in ids : rows[id].parent \in Docs
  <2>1. PICK d \in GoneDocs, done \in SUBSET GoneDocs :
           \E part \in SUBSET {id \in LiveIds : rows[id].parent = d} :
              Delete(part \cup {id \in LiveIds : rows[id].parent \in done})
    BY <1>2, Zenon DEF PruneKilled
  <2>2. PICK part \in SUBSET {id \in LiveIds : rows[id].parent = d} :
              Delete(part \cup {id \in LiveIds : rows[id].parent \in done})
    BY <2>1
  <2>3. PICK ids : ids = part \cup {id \in LiveIds : rows[id].parent \in done}
    OBVIOUS
  <2>4. ids \subseteq LiveIds /\ \A id \in ids : rows[id].parent \in Docs
    BY <2>3 DEF GoneDocs
  <2>5. run' = Idle /\ UNCHANGED <<pin, clock, file, call, notes, held>>
    BY <1>2, Zenon DEF PruneKilled
  <2> QED
    BY <2>2, <2>3, <2>4, <2>5 DEF Deletes
<1> QED
    BY <1>1, <1>2

\* A step that deletes rows, whichever it is.
Deleting == Forget \/ SweepExpired \/ PruneKilled \/ \E prune \in BOOLEAN : Finish(prune)

LEMMA DeletingDeletes == Deleting => \E ids : Deletes(ids)
BY ForgetDeletes, SweepDeletes, PruneDeletes DEF Deleting

LEMMA DeletesRows ==
    ASSUME NEW ids, Deletes(ids)
    PROVE  /\ rows' = [id \in Ids |-> IF id \in ids THEN Absent ELSE rows[id]]
           /\ UNCHANGED <<pin, clock, file, call, notes>>
           /\ run' = run \/ run' = Idle
BY Zenon DEF Deletes, Delete

\* The steps of a recall: they stamp some rows, or change nothing but the call.
Recalling(c) == RecallRun(c) \/ RecallStamp(c)

LEMMA RecallStamps ==
    ASSUME Shape, NEW c \in Callers, Recalling(c)
    PROVE  /\ InFlight(call[c]) /\ call' = [call EXCEPT ![c] = NoCall]
           /\ UNCHANGED <<pin, clock, file, run, notes, held, settled, spoiled>>
           /\ UNCHANGED rows \/ \E hits, extend : extend \in TTLs /\ rows' = reinforce(hits, clock, extend)
<1>0. call[c] # NoCall
    BY DEF Recalling, RecallRun, RecallStamp, NoCall
<1>1. InFlight(call[c]) /\ call[c].extend \in TTLs
    BY <1>0 DEF Shape, InFlight
<1>2. CASE RecallRun(c)
  <2>1. /\ call' = [call EXCEPT ![c] = NoCall]
        /\ UNCHANGED <<pin, clock, file, run, notes, held, settled, spoiled>>
        /\ UNCHANGED rows \/ \E hits \in SUBSET Visible(call[c].guard) :
                               rows' = reinforce(hits, clock, call[c].extend)
    BY <1>2, Zenon DEF RecallRun
  <2> QED
    BY <1>1, <2>1, Zenon
<1>3. CASE RecallStamp(c)
    BY <1>1, <1>3, Zenon DEF RecallStamp
<1> QED
    BY <1>2, <1>3 DEF Recalling

LEMMA RecallWaits ==
    ASSUME \/ \E c \in Callers, e \in Embedders, reranked \in BOOLEAN, extend \in TTLs :
                RecallAsk(c, e, reranked, extend)
           \/ \E c \in Callers : RecallSearch(c)
    PROVE  UNCHANGED <<rows, pin, clock, file, run, notes, held, settled, spoiled>>
BY Zenon DEF RecallAsk, RecallSearch

\* The other steps that leave the collection alone.
Elsewhere ==
  \/ Tick
  \/ \E d \in Docs, v \in Versions \cup {0} : Edit(d, v)
  \/ \E e \in Embedders : Walk(e)

LEMMA ElsewhereStep ==
    ASSUME Elsewhere PROVE UNCHANGED <<rows, pin, call, notes, held, settled, spoiled>>
BY Zenon DEF Elsewhere, Tick, Edit, Walk

\* What an ingest of a file may do to the collection: nothing, or write the
\* chunks of the version it read.
Ingests(d, v, puts, cut) ==
  /\ v = file[d] /\ v \in Versions /\ ChunksOf[v] > 0
  /\ run.by \in Embedders /\ Pinnable(run.by) /\ ~Unchanged(d, v)
  /\ puts \in 0 .. ChunksOf[v] /\ cut \subseteq StaleTail(d, ChunksOf[v])
  /\ rows' = Written(d, v, run.by, puts, cut)
  /\ pin' = run.by

LEMMA IngestFileStep ==
    ASSUME Shape, NEW d \in Docs, IngestFile(d)
    PROVE  /\ UNCHANGED <<clock, file, call, notes, held>>
           /\ run' = Idle \/ run' = [run EXCEPT !.todo = @ \ {d}]
           /\ \/ UNCHANGED <<rows, pin, spoiled>> /\ settled' = settled
              \/ /\ UNCHANGED <<rows, pin, spoiled>> /\ file[d] \in Versions /\ ChunksOf[file[d]] > 0
                 /\ Unchanged(d, file[d])
                 /\ settled' = [settled EXCEPT ![d] = file[d]]
              \/ /\ \E v \in Versions :
                        Ingests(d, v, ChunksOf[v], StaleTail(d, ChunksOf[v]))
                 /\ settled' = [settled EXCEPT ![d] = file[d]]
                 /\ spoiled' = spoiled \ {d}
<1>0. file[d] # 0 => file[d] \in Versions
    BY DEF Shape
<1>1. run.on /\ UNCHANGED <<clock, file, call, notes, held>>
    BY Zenon DEF IngestFile
<1>2. run.by \in Embedders
    BY <1>1 DEF Shape
<1>3. \A v \in Versions : ChunksOf[v] \in 0 .. ChunksOf[v]
    BY MemoryAssumption
<1>4. CASE run' = Idle /\ UNCHANGED <<rows, pin, settled, spoiled>>
    BY <1>1, <1>4
<1>5. CASE run' = [run EXCEPT !.todo = @ \ {d}] /\ UNCHANGED <<rows, pin, settled, spoiled>>
    BY <1>1, <1>5
<1>6. CASE /\ file[d] # 0 /\ ChunksOf[file[d]] > 0 /\ Unchanged(d, file[d])
           /\ run' = [run EXCEPT !.todo = @ \ {d}]
           /\ settled' = [settled EXCEPT ![d] = file[d]]
           /\ UNCHANGED <<rows, pin, spoiled>>
    BY <1>0, <1>1, <1>6
<1>7. CASE /\ file[d] # 0 /\ ChunksOf[file[d]] > 0 /\ ~Unchanged(d, file[d]) /\ Pinnable(run.by)
           /\ rows' = Written(d, file[d], run.by, ChunksOf[file[d]], StaleTail(d, ChunksOf[file[d]]))
           /\ pin' = run.by
           /\ run' = [run EXCEPT !.todo = @ \ {d}]
           /\ settled' = [settled EXCEPT ![d] = file[d]]
           /\ spoiled' = spoiled \ {d}
  <2>1. Ingests(d, file[d], ChunksOf[file[d]], StaleTail(d, ChunksOf[file[d]]))
    BY <1>0, <1>2, <1>3, <1>7 DEF Ingests
  <2> QED
    BY <1>0, <1>1, <1>7, <2>1
<1> QED
    BY <1>4, <1>5, <1>6, <1>7, Zenon DEF IngestFile

LEMMA IngestKilledStep ==
    ASSUME Shape, NEW d \in Docs, IngestKilled(d)
    PROVE  /\ UNCHANGED <<clock, file, call, notes, held>>
           /\ run' = Idle /\ settled' = [settled EXCEPT ![d] = 0]
           /\ \E v \in Versions : \E puts \in 0 .. ChunksOf[v], cut \in SUBSET StaleTail(d, ChunksOf[v]) :
                /\ Ingests(d, v, puts, cut)
                /\ spoiled' = IF Leftover(d, v) THEN spoiled \cup {d} ELSE spoiled
<1>0. file[d] # 0 => file[d] \in Versions
    BY DEF Shape
<1>1. /\ run.on /\ file[d] # 0 /\ ChunksOf[file[d]] > 0
      /\ ~Unchanged(d, file[d]) /\ Pinnable(run.by) /\ pin' = run.by
      /\ run' = Idle /\ settled' = [settled EXCEPT ![d] = 0]
      /\ spoiled' = IF Leftover(d, file[d]) THEN spoiled \cup {d} ELSE spoiled
      /\ UNCHANGED <<clock, file, call, notes, held>>
    BY Zenon DEF IngestKilled
<1>2. run.by \in Embedders
    BY <1>1 DEF Shape
<1>3. PICK puts \in 0 .. ChunksOf[file[d]], cut \in SUBSET StaleTail(d, ChunksOf[file[d]]) :
         rows' = Written(d, file[d], run.by, puts, cut)
    BY Zenon DEF IngestKilled
<1>4. Ingests(d, file[d], puts, cut)
    BY <1>0, <1>1, <1>2, <1>3 DEF Ingests
<1> QED
    BY <1>0, <1>1, <1>4

LEMMA IdleShape == Idle \in RunShape /\ ~Idle.on
BY DEF Idle, RunShape

LEMMA RunAdvances ==
    ASSUME NEW q \in RunShape, NEW d
    PROVE  /\ [q EXCEPT !.todo = @ \ {d}] \in RunShape
           /\ [q EXCEPT !.todo = @ \ {d}].on = q.on /\ [q EXCEPT !.todo = @ \ {d}].by = q.by
BY DEF RunShape

\* What happens to the recalls in flight.
CallsShape(cs) ==
  /\ cs = [c \in Callers |-> cs[c]]
  /\ \A c \in Callers : cs[c] = NoCall \/ InFlight(cs[c])

LEMMA CallChanges ==
    ASSUME NEW cs, CallsShape(cs), NEW c \in Callers, NEW q, q = NoCall \/ InFlight(q)
    PROVE  /\ CallsShape([cs EXCEPT ![c] = q]) /\ [cs EXCEPT ![c] = q][c] = q
           /\ \A b \in Callers \ {c} : [cs EXCEPT ![c] = q][b] = cs[b]
<1> DEFINE ds == [b \in Callers |-> IF b = c THEN q ELSE cs[b]]
<1>1. [cs EXCEPT ![c] = q] = ds
    BY DEF CallsShape
<1>2. CallsShape(ds)
    BY DEF CallsShape
<1> QED
    BY <1>1, <1>2

\* How a recall changes its call.
LEMMA AskedCall ==
    ASSUME Shape, NEW c \in Callers, NEW e \in Embedders, NEW reranked \in BOOLEAN,
           NEW extend \in TTLs, RecallAsk(c, e, reranked, extend)
    PROVE  \E q : InFlight(q) /\ q.at = "asked" /\ call' = [call EXCEPT ![c] = q]
<1>1. PICK q : q = [at |-> "asked", by |-> e, guard |-> clock,
                    reranked |-> reranked, extend |-> extend]
    OBVIOUS
<1>2. call' = [call EXCEPT ![c] = q]
    BY <1>1, Zenon DEF RecallAsk
<1>3. InFlight(q) /\ q.at = "asked"
    BY <1>1 DEF InFlight, Shape
<1> QED
    BY <1>2, <1>3

LEMMA SearchedCall ==
    ASSUME Shape, NEW c \in Callers, RecallSearch(c)
    PROVE  \/ call' = [call EXCEPT ![c] = NoCall]
           \/ \E hits \in SUBSET Visible(call[c].guard) : \E q :
                /\ InFlight(q) /\ q.at = "searched" /\ q.guard = call[c].guard
                /\ q.found = [id \in hits |-> rows[id].text]
                /\ call' = [call EXCEPT ![c] = q]
<1>0. call[c] # NoCall
    BY DEF RecallSearch, NoCall
<1>1. call[c].guard \in Nat /\ call[c].extend \in TTLs
    BY <1>0 DEF Shape, InFlight
<1>2. CASE call' = [call EXCEPT ![c] = NoCall]
    BY <1>2
<1>3. ASSUME NEW hits \in SUBSET Visible(call[c].guard),
             call' = [call EXCEPT ![c] =
                        [at |-> "searched", guard |-> call[c].guard, extend |-> call[c].extend,
                         found |-> [id \in hits |-> rows[id].text]]]
      PROVE  \E q : /\ InFlight(q) /\ q.at = "searched" /\ q.guard = call[c].guard
                    /\ q.found = [id \in hits |-> rows[id].text]
                    /\ call' = [call EXCEPT ![c] = q]
  <2>1. PICK f : f = [id \in hits |-> rows[id].text]
    OBVIOUS
  <2>2. PICK q : q = [at |-> "searched", guard |-> call[c].guard, extend |-> call[c].extend,
                      found |-> f]
    OBVIOUS
  <2>3. call' = [call EXCEPT ![c] = q]
    BY <1>3, <2>1, <2>2, Zenon
  <2>4. InFlight(q) /\ q.at = "searched" /\ q.guard = call[c].guard /\ q.found = f
    BY <1>1, <2>2 DEF InFlight
  <2> QED
    BY <2>1, <2>3, <2>4
<1> QED
    BY <1>2, <1>3, Zenon DEF RecallSearch

LEMMA ShapeStep == Shape /\ [Next]_vars => Shape'
<1> SUFFICES ASSUME Shape, [Next]_vars PROVE Shape'
    OBVIOUS
<1>0. /\ rows \in [Ids -> LiveRow \cup {Absent}]
      /\ clock \in Nat /\ notes \in Nat
      /\ file \in [Docs -> Versions \cup {0}]
      /\ settled \in [Docs -> Versions \cup {0}]
      /\ run \in RunShape /\ (run.on => run.by \in Embedders)
      /\ CallsShape(call)
    BY DEF Shape, CallsShape
<1>a. ASSUME /\ rows' \in [Ids -> LiveRow \cup {Absent}]
             /\ clock' \in Nat /\ notes' \in Nat
             /\ file' \in [Docs -> Versions \cup {0}]
             /\ settled' \in [Docs -> Versions \cup {0}]
             /\ run' \in RunShape /\ (run'.on => run'.by \in Embedders)
             /\ CallsShape(call')
      PROVE  Shape'
    BY <1>a DEF Shape, CallsShape
<1>1. ASSUME NEW e \in Embedders, NEW m \in Memories, NEW ttl \in TTLs, Remember(e, m, ttl)
      PROVE  Shape'
  <2>1. PICK target \in Ids, deduped \in BOOLEAN, drift \in Drifts, r \in LiveRow :
           Remembers(e, m, ttl, target, deduped, drift, r)
    BY <1>1, RememberStep
  <2>2. rows' \in [Ids -> LiveRow \cup {Absent}]
    BY <1>0, <2>1 DEF Remembers
  <2>3. clock' \in Nat /\ notes' \in Nat
    BY <1>0, <2>1, MemoryAssumption DEF Remembers
  <2>4. UNCHANGED <<file, run, call, settled>>
    BY <2>1 DEF Remembers
  <2> QED
    BY <1>0, <1>a, <2>2, <2>3, <2>4
<1>2. ASSUME NEW e \in Embedders, NEW m \in Memories, RawUpsert(e, m) PROVE Shape'
  <2>1. rows' = [rows EXCEPT ![<<m, 0>>] = RawRow(e)] /\ notes' = notes + 1
        /\ UNCHANGED <<clock, file, run, call, settled>>
    BY <1>2, Zenon DEF RawUpsert, RawRow
  <2>2. RawRow(e) \in LiveRow
    BY RawRowIsRow
  <2>3. rows' \in [Ids -> LiveRow \cup {Absent}]
    BY <1>0, <2>1, <2>2
  <2> QED
    BY <1>0, <1>a, <2>1, <2>3
<1>3. ASSUME NEW c \in Callers, Recalling(c) PROVE Shape'
  <2>1. rows' \in [Ids -> LiveRow \cup {Absent}]
    <3>1. CASE UNCHANGED rows
      BY <1>0, <3>1
    <3>2. ASSUME NEW hits, NEW extend, extend \in TTLs, rows' = reinforce(hits, clock, extend)
          PROVE  rows' \in [Ids -> LiveRow \cup {Absent}]
      <4>1. reinforce(hits, clock, extend) \in [Ids -> LiveRow \cup {Absent}]
        BY <1>0, <3>2, ReinforceShape
      <4> QED
        BY <3>2, <4>1
    <3> QED
      BY <1>3, <3>1, <3>2, RecallStamps
  <2>2. CallsShape(call')
    BY <1>0, <1>3, RecallStamps, CallChanges
  <2>3. UNCHANGED <<clock, file, run, notes, settled>>
    BY <1>3, RecallStamps
  <2> QED
    BY <1>0, <1>a, <2>1, <2>2, <2>3
<1>4. ASSUME NEW c \in Callers, NEW e \in Embedders, NEW reranked \in BOOLEAN,
             NEW extend \in TTLs, RecallAsk(c, e, reranked, extend)
      PROVE  Shape'
  <2>1. CallsShape(call')
    BY <1>0, <1>4, AskedCall, CallChanges
  <2>2. UNCHANGED <<rows, clock, file, run, notes, settled>>
    BY <1>4, RecallWaits
  <2> QED
    BY <1>0, <1>a, <2>1, <2>2
<1>5. ASSUME NEW c \in Callers, RecallSearch(c) PROVE Shape'
  <2>1. CallsShape(call')
    <3>1. CASE call' = [call EXCEPT ![c] = NoCall]
      BY <1>0, <3>1, CallChanges
    <3>2. ASSUME NEW q, InFlight(q), call' = [call EXCEPT ![c] = q] PROVE CallsShape(call')
      BY <1>0, <3>2, CallChanges
    <3> QED
      BY <1>5, <3>1, <3>2, SearchedCall
  <2>2. UNCHANGED <<rows, clock, file, run, notes, settled>>
    BY <1>5, RecallWaits
  <2> QED
    BY <1>0, <1>a, <2>1, <2>2
<1>6. CASE Deleting
  <2>1. PICK ids : Deletes(ids)
    BY <1>6, DeletingDeletes
  <2>2. rows' \in [Ids -> LiveRow \cup {Absent}]
    BY <2>1, DeletesRows, RemoveShape
  <2>3. settled' \in [Docs -> Versions \cup {0}]
    BY <1>0, <2>1 DEF Deletes, Delete
  <2>4. run' \in RunShape /\ (run'.on => run'.by \in Embedders)
    BY <1>0, <2>1, DeletesRows, IdleShape
  <2>5. UNCHANGED <<clock, file, call, notes>>
    BY <2>1, DeletesRows
  <2> QED
    BY <1>0, <1>a, <2>2, <2>3, <2>4, <2>5
<1>11. CASE Tick
  <2>1. clock' = clock + 1 /\ UNCHANGED <<rows, file, run, call, notes, settled>>
    BY <1>11 DEF Tick
  <2> QED
    BY <1>0, <1>a, <2>1
<1>12. ASSUME NEW d \in Docs, NEW v \in Versions \cup {0}, Edit(d, v) PROVE Shape'
  <2>1. file' = [file EXCEPT ![d] = v] /\ UNCHANGED <<rows, clock, run, call, notes, settled>>
    BY <1>12 DEF Edit
  <2> QED
    BY <1>0, <1>a, <2>1
<1>13. ASSUME NEW e \in Embedders, Walk(e) PROVE Shape'
  <2>1. run' \in RunShape /\ run'.by \in Embedders
    BY <1>13 DEF Walk, RunShape
  <2>2. UNCHANGED <<rows, clock, file, call, notes, settled>>
    BY <1>13, Zenon DEF Walk
  <2> QED
    BY <1>0, <1>a, <2>1, <2>2
<1>14. ASSUME NEW d \in Docs, NEW v \in Versions, NEW puts, NEW cut, Ingests(d, v, puts, cut)
       PROVE  rows' \in [Ids -> LiveRow \cup {Absent}]
    BY <1>14, WrittenShape DEF Ingests
<1>15. ASSUME NEW d \in Docs, IngestFile(d) PROVE Shape'
  <2>1. rows' \in [Ids -> LiveRow \cup {Absent}]
    BY <1>0, <1>14, <1>15, IngestFileStep
  <2>2. run' \in RunShape /\ (run'.on => run'.by \in Embedders)
    <3>1. run' = Idle \/ run' = [run EXCEPT !.todo = @ \ {d}]
      BY <1>15, IngestFileStep
    <3> QED
      BY <1>0, <3>1, IdleShape, RunAdvances
  <2>3. settled' \in [Docs -> Versions \cup {0}]
    BY <1>0, <1>15, IngestFileStep
  <2>4. UNCHANGED <<clock, file, call, notes>>
    BY <1>15, IngestFileStep
  <2> QED
    BY <1>0, <1>a, <2>1, <2>2, <2>3, <2>4
<1>16. ASSUME NEW d \in Docs, IngestKilled(d) PROVE Shape'
  <2>1. rows' \in [Ids -> LiveRow \cup {Absent}]
    BY <1>14, <1>16, IngestKilledStep
  <2>2. run' \in RunShape /\ (run'.on => run'.by \in Embedders)
    <3>1. run' = Idle
      BY <1>16, IngestKilledStep
    <3> QED
      BY <3>1, IdleShape
  <2>3. settled' \in [Docs -> Versions \cup {0}]
    BY <1>0, <1>16, IngestKilledStep
  <2>4. UNCHANGED <<clock, file, call, notes>>
    BY <1>16, IngestKilledStep
  <2> QED
    BY <1>0, <1>a, <2>1, <2>2, <2>3, <2>4
<1>18. CASE UNCHANGED vars
    BY <1>0, <1>a, <1>18 DEF vars
<1> QED
    BY <1>1, <1>2, <1>3, <1>4, <1>5, <1>6, <1>11, <1>12, <1>13, <1>15, <1>16,
       <1>18 DEF Next, Recalling, Deleting

\* The steps of a recall that only prepare it.
Waiting ==
  \/ \E c \in Callers, e \in Embedders, reranked \in BOOLEAN, extend \in TTLs :
       RecallAsk(c, e, reranked, extend)
  \/ \E c \in Callers : RecallSearch(c)

-----------------------------------------------------------------------------
(* One embedding space per pinned collection *)

SpaceInv == Shape /\ OneSpace

\* A pin that is taken finds the collection empty, or filled by its embedder.
LEMMA PinnableSpace ==
    ASSUME OneSpace, Strict, NEW e, Pinnable(e), e # NoPin
    PROVE  \A id \in LiveIds : rows[id].space = e
BY DEF OneSpace, Pinnable

LEMMA SpaceStep == SpaceInv /\ [Next]_vars => SpaceInv'
<1> SUFFICES ASSUME SpaceInv, [Next]_vars PROVE SpaceInv'
    OBVIOUS
<1>0. Shape /\ Shape' /\ OneSpace
    BY ShapeStep DEF SpaceInv
<1>a. SUFFICES OneSpace'
    BY <1>0 DEF SpaceInv
<1>b. SUFFICES ASSUME Strict, pin' # NoPin, NEW id \in Ids, rows'[id] # Absent
               PROVE  rows'[id].space = pin'
    BY DEF OneSpace, LiveIds, Live
<1>c. rows[id] # Absent /\ pin # NoPin => rows[id].space = pin
    BY <1>0, <1>b DEF OneSpace, LiveIds, Live
<1>d. ASSUME rows'[id] = rows[id], UNCHANGED pin PROVE rows'[id].space = pin'
    BY <1>b, <1>c, <1>d
<1>1. ASSUME NEW e \in Embedders, NEW m \in Memories, NEW ttl \in TTLs, Remember(e, m, ttl)
      PROVE  rows'[id].space = pin'
  <2>1. PICK target \in Ids, deduped \in BOOLEAN, drift \in Drifts, r \in LiveRow :
           Remembers(e, m, ttl, target, deduped, drift, r)
    BY <1>0, <1>1, RememberStep
  <2>2. rows' = [rows EXCEPT ![target] = r] /\ r.space = e /\ pin' = e /\ Pinnable(e)
    BY <2>1 DEF Remembers
  <2>3. CASE id = target
    BY <1>0, <2>2, <2>3 DEF Shape
  <2>4. CASE id # target
    <3>1. rows'[id] = rows[id]
      BY <1>0, <2>2, <2>4 DEF Shape
    <3> QED
      BY <1>0, <1>b, <2>2, <3>1, PinnableSpace DEF LiveIds, Live
  <2> QED
    BY <2>3, <2>4
<1>2. ASSUME NEW e \in Embedders, NEW m \in Memories, RawUpsert(e, m)
      PROVE  rows'[id].space = pin'
    BY <1>b, <1>2 DEF RawUpsert
<1>3. ASSUME NEW extend \in TTLs, NEW hits, rows' = reinforce(hits, clock, extend), UNCHANGED pin
      PROVE  rows'[id].space = pin'
  <2>1. clock \in Nat
    BY <1>0 DEF Shape
  <2>2. CASE ~Live(id)
    BY <1>0, <1>3, <1>d, <2>1, <2>2, ReinforcedRow
  <2>3. CASE Live(id)
    <3>1. SameRow(rows[id], rows'[id])
      BY <1>0, <1>3, <2>1, <2>3, ReinforcedRow
    <3> QED
      BY <1>b, <1>c, <1>3, <2>3, <3>1 DEF SameRow, Live
  <2> QED
    BY <2>2, <2>3
<1>13. ASSUME UNCHANGED <<rows, pin>> PROVE rows'[id].space = pin'
    BY <1>d, <1>13
<1>4. ASSUME NEW c \in Callers, Recalling(c) PROVE rows'[id].space = pin'
    BY <1>0, <1>3, <1>4, <1>13, RecallStamps
<1>6. CASE Deleting
  <2>1. PICK ids : Deletes(ids)
    BY <1>6, DeletingDeletes
  <2>2. rows' = [i \in Ids |-> IF i \in ids THEN Absent ELSE rows[i]] /\ UNCHANGED pin
    BY <2>1, DeletesRows
  <2> QED
    BY <1>b, <1>d, <2>2
<1>10. ASSUME NEW d \in Docs, NEW v \in Versions, NEW puts, NEW cut, Ingests(d, v, puts, cut)
       PROVE  rows'[id].space = pin'
  <2>1. /\ rows' = Written(d, v, run.by, puts, cut) /\ pin' = run.by
        /\ run.by \in Embedders /\ Pinnable(run.by)
    BY <1>10 DEF Ingests
  <2>2. \/ rows'[id] = Absent
        \/ IsChunk(rows'[id], d, v, id[2], run.by)
        \/ rows'[id] = rows[id]
    BY <1>0, <2>1, WrittenRow
  <2>3. rows'[id] = rows[id] => rows'[id].space = run.by
    BY <1>0, <1>b, <2>1, PinnableSpace DEF LiveIds, Live
  <2> QED
    BY <1>b, <2>1, <2>2, <2>3 DEF IsChunk
<1>11. ASSUME NEW d \in Docs, IngestFile(d) PROVE rows'[id].space = pin'
    BY <1>0, <1>d, <1>10, <1>11, IngestFileStep
<1>12. ASSUME NEW d \in Docs, IngestKilled(d) PROVE rows'[id].space = pin'
    BY <1>0, <1>10, <1>12, IngestKilledStep
<1>14. CASE Waiting \/ Elsewhere
    BY <1>13, <1>14, RecallWaits, ElsewhereStep DEF Waiting
<1>17. CASE UNCHANGED vars
    BY <1>13, <1>17 DEF vars
<1> QED
    BY <1>1, <1>2, <1>4, <1>6, <1>11, <1>12, <1>14, <1>17
       DEF Next, Recalling, Deleting, Waiting, Elsewhere

\* Under strict identity every vector of a pinned collection was made by the
\* embedder it is pinned to, whoever writes, deduplicates, imports, ingests or
\* is killed, in any order (ensure_collection_and_pin in memory.rs).
THEOREM PinnedIsOneSpace == Spec => []OneSpace
<1>1. Init => SpaceInv
  <2>1. Init => OneSpace
    BY DEF Init, OneSpace
  <2> QED
    BY <2>1, ShapeInit DEF SpaceInv
<1>2. SpaceInv /\ [Next]_vars => SpaceInv'
    BY SpaceStep
<1>3. SpaceInv => OneSpace
    BY DEF SpaceInv
<1> QED
    BY <1>1, <1>2, <1>3, PTL DEF Spec

-----------------------------------------------------------------------------
(* Memories are kept, and visible for as long as was promised *)

\* Row id is memory p, and expires no earlier than promised.
Holds(id, p) ==
  /\ Live(id) /\ rows[id].text = p.text /\ rows[id].parent = NoDoc
  /\ rows[id].expires # None => p.until # None /\ rows[id].expires >= p.until

\* Rows that belong to no document are the hand-written memories: that is what
\* keeps chunk writes, tails and prunes off them.
Handwritten == \A id \in Ids : Live(id) /\ rows[id].parent = NoDoc => id \in MemoryIds

Held == \A p \in held : p.until \in Int \cup {None} /\ \E id \in Ids : Holds(id, p)

KeptInv == Shape /\ Handwritten /\ Held

LEMMA MemoryIdNotPut ==
    ASSUME NEW id \in MemoryIds, NEW d \in Docs, NEW puts
    PROVE  ~InPuts(id, d, puts) /\ id \in Ids
BY MemoryAssumption DEF MemoryIds, InPuts, Ids

\* A step that leaves the memories in their places.
LEMMA KeptInPlace ==
    ASSUME KeptInv, held' \subseteq held,
           \A id \in Ids : rows'[id] # Absent => Live(id) /\ rows'[id].parent = rows[id].parent,
           \A id \in Ids, p \in held' : Holds(id, p) => Holds(id, p)'
    PROVE  Handwritten' /\ Held'
<1>1. Handwritten'
    BY DEF KeptInv, Handwritten, Live
<1>2. ASSUME NEW p \in held' PROVE p.until \in Int \cup {None} /\ \E id \in Ids : Holds(id, p)'
    BY <1>2 DEF KeptInv, Held
<1> QED
    BY <1>1, <1>2 DEF Held

\* What a caller is promised is what the row it wrote keeps.
LEMMA PromiseKept ==
    ASSUME Shape, NEW e, NEW m, NEW ttl \in TTLs, NEW target \in Ids, NEW deduped \in BOOLEAN,
           NEW drift \in Drifts, NEW r \in LiveRow, Remembers(e, m, ttl, target, deduped, drift, r),
           NEW until, until = Promise(target, deduped, clock + drift, ttl)
    PROVE  /\ until \in Int \cup {None}
           /\ r.expires # None => until # None /\ r.expires >= until
<1>1. clock \in Int /\ drift \in Int /\ ttl \in Int \cup {None} /\ None \notin Int
    BY MemoryAssumption DEF Shape
<1>2. r.expires = IF ttl # None THEN clock + drift + ttl
                  ELSE IF deduped THEN rows[target].expires ELSE None
    BY DEF Remembers
<1>3. deduped => /\ rows[target].expires \in Int \cup {None}
                 /\ rows[target].expires = None \/ rows[target].expires > clock
  <2>1. deduped => target \in LiveIds /\ not_expired(rows[target], clock)
    BY DEF Remembers, Candidates
  <2> QED
    BY <2>1, LiveIsRow, LiveFields DEF LiveIds, not_expired
<1>4. CASE ttl # None
    BY <1>1, <1>2, <1>4 DEF Promise
<1>5. CASE ttl = None /\ ~deduped
    BY <1>1, <1>2, <1>5 DEF Promise
<1>6. CASE ttl = None /\ deduped
    BY <1>1, <1>2, <1>3, <1>6 DEF Promise
<1> QED
    BY <1>4, <1>5, <1>6

LEMMA KeptStep == KeptInv /\ [Next]_vars => KeptInv'
<1> SUFFICES ASSUME KeptInv, [Next]_vars PROVE KeptInv'
    OBVIOUS
<1>0. /\ Shape /\ Shape' /\ Handwritten /\ Held
      /\ rows \in [Ids -> LiveRow \cup {Absent}]
    BY ShapeStep DEF KeptInv, Shape
<1> DEFINE Goal == Handwritten' /\ Held'
<1>a. SUFFICES Goal
    BY <1>0 DEF KeptInv
<1>1. ASSUME NEW target \in Ids, NEW r \in LiveRow, rows' = [rows EXCEPT ![target] = r],
             r.parent = NoDoc => target \in MemoryIds,
             \A p \in held' :
               \/ p \in held /\ (Live(target) => p.text # rows[target].text)
               \/ /\ p.text = r.text /\ r.parent = NoDoc /\ p.until \in Int \cup {None}
                  /\ r.expires # None => p.until # None /\ r.expires >= p.until
      PROVE  Goal
  <2>1. rows'[target] = r /\ \A id \in Ids \ {target} : rows'[id] = rows[id]
    BY <1>0, <1>1
  <2>2. Handwritten'
    BY <1>0, <1>1, <2>1 DEF Handwritten, Live
  <2>3. ASSUME NEW p \in held', p \in held /\ (Live(target) => p.text # rows[target].text)
        PROVE  p.until \in Int \cup {None} /\ \E id \in Ids : Holds(id, p)'
    <3>1. p.until \in Int \cup {None} /\ \E id \in Ids : Holds(id, p)
      BY <1>0, <2>3 DEF Held
    <3>2. PICK id \in Ids : Holds(id, p)
      BY <3>1
    <3>3. id # target
      BY <2>3, <3>2 DEF Holds
    <3> QED
      BY <2>1, <3>1, <3>2, <3>3 DEF Holds, Live
  <2>4. ASSUME NEW p \in held', p.text = r.text, r.parent = NoDoc, p.until \in Int \cup {None},
               r.expires # None => p.until # None /\ r.expires >= p.until
        PROVE  p.until \in Int \cup {None} /\ \E id \in Ids : Holds(id, p)'
    <3>1. Holds(target, p)'
      BY <2>1, <2>4, LiveNotAbsent DEF Holds, Live
    <3> QED
      BY <2>4, <3>1
  <2>5. Held'
    BY <1>1, <2>3, <2>4 DEF Held
  <2> QED
    BY <2>2, <2>5
<1>2. ASSUME NEW e \in Embedders, NEW m \in Memories, NEW ttl \in TTLs, Remember(e, m, ttl)
      PROVE  Goal
  <2>1. PICK target \in Ids, deduped \in BOOLEAN, drift \in Drifts, r \in LiveRow :
           Remembers(e, m, ttl, target, deduped, drift, r)
    BY <1>0, <1>2, RememberStep
  <2>2. PICK until : until = Promise(target, deduped, clock + drift, ttl)
    OBVIOUS
  <2>3. /\ rows' = [rows EXCEPT ![target] = r]
        /\ deduped => target \in Candidates(clock)
        /\ ~deduped => target = <<m, 0>>
        /\ r.parent = IF deduped THEN rows[target].parent ELSE NoDoc
        /\ held' = {p \in held : Live(target) => p.text # rows[target].text}
                   \cup (IF r.parent # NoDoc THEN {} ELSE {[text |-> r.text, until |-> until]})
    BY <2>1, <2>2 DEF Remembers
  <2>4. r.parent = NoDoc => target \in MemoryIds
    BY <1>0, <2>3 DEF Handwritten, MemoryIds, Candidates, LiveIds
  <2>5. until \in Int \cup {None} /\ (r.expires # None => until # None /\ r.expires >= until)
    BY <1>0, <2>1, <2>2, PromiseKept
  <2>6. ASSUME NEW p \in held'
        PROVE  \/ p \in held /\ (Live(target) => p.text # rows[target].text)
               \/ r.parent = NoDoc /\ p = [text |-> r.text, until |-> until]
    BY <2>3, <2>6, Zenon
  <2>7. \A p \in held' :
           \/ p \in held /\ (Live(target) => p.text # rows[target].text)
           \/ /\ p.text = r.text /\ r.parent = NoDoc /\ p.until \in Int \cup {None}
              /\ r.expires # None => p.until # None /\ r.expires >= p.until
    BY <2>5, <2>6
  <2> QED
    BY <1>1, <2>3, <2>4, <2>7
<1>3. ASSUME NEW e \in Embedders, NEW m \in Memories, RawUpsert(e, m) PROVE Goal
  <2>1. /\ rows' = [rows EXCEPT ![<<m, 0>>] = RawRow(e)] /\ ~Live(<<m, 0>>)
        /\ held' = held \cup {[text |-> <<"note", notes + 1>>, until |-> None]}
    BY <1>3, Zenon DEF RawUpsert, RawRow
  <2>2. /\ RawRow(e) \in LiveRow /\ RawRow(e).parent = NoDoc /\ RawRow(e).expires = None
        /\ RawRow(e).text = <<"note", notes + 1>>
    BY <1>0, RawRowIsRow DEF RawRow
  <2>3. <<m, 0>> \in MemoryIds /\ <<m, 0>> \in Ids
    BY DEF MemoryIds, Ids
  <2>4. \A p \in held' :
           \/ p \in held /\ (Live(<<m, 0>>) => p.text # rows[<<m, 0>>].text)
           \/ p.text = RawRow(e).text /\ p.until = None
    BY <2>1, <2>2
  <2> QED
    BY <1>1, <2>1, <2>2, <2>3, <2>4
<1>4. ASSUME NEW extend \in TTLs, NEW hits, rows' = reinforce(hits, clock, extend), UNCHANGED held
      PROVE  Goal
  <2>1. ASSUME NEW id \in Ids
        PROVE  /\ ~Live(id) => rows'[id] = rows[id]
               /\ Live(id) => /\ rows'[id] \in LiveRow /\ SameRow(rows[id], rows'[id])
                              /\ Later(rows[id].expires, rows'[id].expires)
    <3>1. clock \in Nat
      BY <1>0 DEF Shape
    <3> QED
      BY <1>0, <1>4, <3>1, ReinforcedRow
  <2>2. \A id \in Ids : rows'[id] # Absent => Live(id) /\ rows'[id].parent = rows[id].parent
    BY <2>1 DEF Live, SameRow
  <2>3. ASSUME NEW id \in Ids, NEW p \in held', Holds(id, p) PROVE Holds(id, p)'
    <3>1. Live(id) /\ rows[id] \in LiveRow
      BY <1>0, <2>3, LiveIsRow DEF Holds
    <3>2. p.until \in Int \cup {None} /\ rows[id].expires \in Int \cup {None} /\ None \notin Int
      BY <1>0, <1>4, <2>3, <3>1, LiveFields, MemoryAssumption DEF Held
    <3>3. rows'[id].expires # None => p.until # None /\ rows'[id].expires >= p.until
      BY <2>1, <2>3, <3>1, <3>2 DEF Later, Holds
    <3> QED
      BY <2>1, <2>3, <3>1, <3>3, LiveNotAbsent DEF Holds, Live, SameRow
  <2> QED
    BY <1>4, <2>2, <2>3, KeptInPlace
<1>13. ASSUME UNCHANGED <<rows, held>> PROVE Goal
    BY <1>0, <1>13 DEF Handwritten, Held, Holds, Live
<1>5. ASSUME NEW c \in Callers, Recalling(c) PROVE Goal
    BY <1>0, <1>4, <1>5, <1>13, RecallStamps
<1>7. ASSUME NEW ids, Deletes(ids), held' \subseteq held,
             \A id \in ids \cap Ids, p \in held' : ~Holds(id, p)
      PROVE  Goal
  <2>0. rows' = [id \in Ids |-> IF id \in ids THEN Absent ELSE rows[id]]
    BY <1>7, DeletesRows
  <2>1. \A id \in Ids : rows'[id] # Absent => Live(id) /\ rows'[id].parent = rows[id].parent
    BY <2>0 DEF Live
  <2>2. \A id \in Ids, p \in held' : Holds(id, p) => Holds(id, p)'
    BY <1>7, <2>0 DEF Holds, Live
  <2> QED
    BY <1>7, <2>1, <2>2, KeptInPlace
<1>9. CASE Forget
  <2>1. PICK ids : Deletes(ids) /\ held' = {p \in held : \A id \in ids : p.text # rows[id].text}
    BY <1>9, ForgetDeletes
  <2>2. held' \subseteq held /\ \A id \in ids \cap Ids, p \in held' : ~Holds(id, p)
    BY <2>1 DEF Holds
  <2> QED
    BY <1>7, <2>1, <2>2
<1>10. CASE SweepExpired
  <2>1. /\ Deletes(Expired)
        /\ held' = {p \in held : \/ p.until = None \/ p.until > clock
                                 \/ \A id \in Expired : p.text # rows[id].text}
    BY <1>10, SweepDeletes
  <2>2. ASSUME NEW id \in Expired \cap Ids, NEW p \in held', Holds(id, p) PROVE FALSE
    <3>1. /\ p \in held
          /\ p.until = None \/ p.until > clock \/ \A i \in Expired : p.text # rows[i].text
      BY <2>1, <2>2
    <3>2. Live(id) /\ rows[id] \in LiveRow /\ rows[id].expires # None /\ rows[id].expires <= clock
      BY <1>0, <2>2, LiveIsRow DEF Expired, LiveIds
    <3>3. rows[id].expires \in Int /\ clock \in Int /\ p.until \in Int \cup {None} /\ None \notin Int
      BY <1>0, <3>1, <3>2, LiveFields, MemoryAssumption DEF Held, Shape
    <3>4. p.until # None /\ rows[id].expires >= p.until /\ p.text = rows[id].text
      BY <2>2, <3>2 DEF Holds
    <3> QED
      BY <2>2, <3>1, <3>2, <3>3, <3>4
  <2> QED
    BY <1>7, <2>1, <2>2
<1>11. CASE PruneKilled \/ \E prune \in BOOLEAN : Finish(prune)
  <2>1. PICK ids : Deletes(ids) /\ UNCHANGED held /\ \A id \in ids : rows[id].parent \in Docs
    BY <1>11, PruneDeletes
  <2>2. \A id \in ids \cap Ids, p \in held' : ~Holds(id, p)
    BY <2>1, MemoryAssumption DEF Holds
  <2> QED
    BY <1>7, <2>1, <2>2
<1>12. ASSUME NEW d \in Docs, NEW v \in Versions, NEW puts, NEW cut, Ingests(d, v, puts, cut),
              UNCHANGED held
       PROVE  Goal
  <2>1. /\ rows' = Written(d, v, run.by, puts, cut) /\ run.by \in Embedders
        /\ cut \subseteq StaleTail(d, ChunksOf[v])
    BY <1>12 DEF Ingests
  <2>2. \A id \in cut : rows[id].parent # NoDoc
    BY <2>1, MemoryAssumption DEF StaleTail
  <2>3. ASSUME NEW id \in Ids, Live(id), rows[id].parent = NoDoc PROVE rows'[id] = rows[id]
    <3>1. id \in MemoryIds /\ id \notin cut
      BY <1>0, <2>2, <2>3 DEF Handwritten
    <3> QED
      BY <1>0, <2>1, <3>1, MemoryIdNotPut, WrittenRow
  <2>4. ASSUME NEW id \in Ids, rows'[id] # Absent, rows'[id].parent = NoDoc PROVE id \in MemoryIds
    <3>1. id \notin cut /\ ~InPuts(id, d, puts) => rows'[id] = rows[id]
      BY <1>0, <2>1, WrittenRow
    <3>2. id \notin cut
      BY <1>0, <2>1, <2>4, WrittenRow
    <3>3. InPuts(id, d, puts) => rows'[id].parent = d
      BY <1>0, <2>1, <3>2, WrittenRow DEF IsChunk
    <3> QED
      BY <1>0, <2>4, <3>1, <3>2, <3>3, MemoryAssumption DEF Handwritten, Live
  <2>5. Handwritten'
    BY <2>4 DEF Handwritten, Live
  <2>6. Held'
    BY <1>0, <1>12, <2>3 DEF Held, Holds, Live
  <2> QED
    BY <2>5, <2>6
<1>14. ASSUME NEW d \in Docs, IngestFile(d) PROVE Goal
    BY <1>0, <1>12, <1>13, <1>14, IngestFileStep
<1>15. ASSUME NEW d \in Docs, IngestKilled(d) PROVE Goal
    BY <1>0, <1>12, <1>15, IngestKilledStep
<1>16. CASE Waiting \/ Elsewhere
    BY <1>13, <1>16, RecallWaits, ElsewhereStep DEF Waiting
<1>19. CASE UNCHANGED vars
    BY <1>13, <1>19 DEF vars
<1> QED
    BY <1>2, <1>3, <1>5, <1>9, <1>10, <1>11, <1>14, <1>15, <1>16, <1>19
       DEF Next, Recalling, Waiting, Elsewhere

LEMMA AlwaysKept == Spec => []KeptInv
<1>1. Init => KeptInv
  <2>1. Init => Handwritten /\ Held
    BY DEF Init, Handwritten, Held, Live
  <2> QED
    BY <2>1, ShapeInit DEF KeptInv
<1>2. KeptInv /\ [Next]_vars => KeptInv'
    BY KeptStep
<1> QED
    BY <1>1, <1>2, PTL DEF Spec

\* A memory is in the collection, in its own words, until a remember replaces
\* it, somebody forgets it or a sweep finds its promise over: no ingest and no
\* prune, killed or finished, takes it, whatever deduplication merged into the
\* chunks of files (remember_chunked_with in memory.rs, prune_gone in
\* cli/ingest.rs).
THEOREM MemoriesAreKept == Spec => []MemoriesKept
<1>1. KeptInv => MemoriesKept
    BY DEF KeptInv, Held, MemoriesKept, Holds, LiveIds
<1> QED
    BY <1>1, AlwaysKept, PTL

\* A memory that was answered stays visible for as long as its caller was
\* promised, for any times to live, negative ones included, and any distance
\* between the clock of the dedup search and that of the stamp
\* (prepare_remember and stamp_recency in memory.rs, reinforce in write.rs).
THEOREM AnsweredMemoryVisible == Spec => []AnsweredStaysVisible
<1>1. KeptInv => AnsweredStaysVisible
    BY DEF KeptInv, Held, AnsweredStaysVisible, Holds, LiveIds
<1> QED
    BY <1>1, AlwaysKept, PTL

-----------------------------------------------------------------------------
(* An expired row stays hidden *)

\* A step writes over row id: a new memory, or a chunk, which never expires.
Rewritten(id) ==
  \/ rows'[id] = Absent
  \/ rows'[id].text = <<"note", notes + 1>> /\ notes' = notes + 1
  \/ rows'[id].text \in ChunkTexts /\ rows'[id].expires = None

\* Time and the count of notes go forward, and a row that is neither recalled
\* nor written over stays as it is.
LEMMA Rewrites ==
    ASSUME Shape, [Next]_vars, NEW id \in Ids
    PROVE  /\ notes' \in Nat /\ notes' >= notes /\ clock' \in Nat /\ clock' >= clock
           /\ Rewritten(id) \/ rows'[id] = rows[id] \/ \E c \in Callers : Recalling(c)
<1> DEFINE Goal == /\ notes' >= notes /\ clock' >= clock
                   /\ Rewritten(id) \/ rows'[id] = rows[id] \/ \E c \in Callers : Recalling(c)
<1>0. /\ rows \in [Ids -> LiveRow \cup {Absent}] /\ clock \in Nat /\ notes \in Nat
      /\ clock' \in Nat /\ notes' \in Nat
    BY ShapeStep DEF Shape
<1>a. SUFFICES Goal
    BY <1>0
<1>1. ASSUME rows'[id] = rows[id] \/ rows'[id] = Absent, UNCHANGED <<clock, notes>> PROVE Goal
    BY <1>0, <1>1 DEF Rewritten
<1>2. ASSUME NEW target \in Ids, NEW r, rows' = [rows EXCEPT ![target] = r],
             r.text = <<"note", notes + 1>>, notes' = notes + 1, clock' >= clock
      PROVE  Goal
  <2>1. CASE id = target
    BY <1>0, <1>2, <2>1 DEF Rewritten
  <2>2. CASE id # target
    BY <1>0, <1>2, <2>2
  <2> QED
    BY <2>1, <2>2
<1>3. ASSUME NEW e \in Embedders, NEW m \in Memories, NEW ttl \in TTLs, Remember(e, m, ttl)
      PROVE  Goal
  <2>1. PICK target \in Ids, deduped \in BOOLEAN, drift \in Drifts, r \in LiveRow :
           Remembers(e, m, ttl, target, deduped, drift, r)
    BY <1>3, RememberStep
  <2>2. /\ rows' = [rows EXCEPT ![target] = r] /\ r.text = <<"note", notes + 1>>
        /\ notes' = notes + 1 /\ clock' = clock + drift
    BY <2>1 DEF Remembers
  <2>3. drift \in Nat
    BY MemoryAssumption
  <2>4. clock' >= clock
    BY <1>0, <2>2, <2>3
  <2> QED
    BY <1>2, <2>2, <2>4
<1>4. ASSUME NEW e \in Embedders, NEW m \in Memories, RawUpsert(e, m) PROVE Goal
  <2>1. /\ rows' = [rows EXCEPT ![<<m, 0>>] = RawRow(e)] /\ notes' = notes + 1 /\ UNCHANGED clock
    BY <1>4, Zenon DEF RawUpsert, RawRow
  <2>2. <<m, 0>> \in Ids /\ RawRow(e).text = <<"note", notes + 1>>
    BY DEF RawRow, Ids, MemoryIds
  <2>3. clock' >= clock
    BY <1>0, <2>1
  <2> QED
    BY <1>2, <2>1, <2>2, <2>3
<1>5. ASSUME NEW c \in Callers, Recalling(c) PROVE Goal
  <2>1. UNCHANGED <<clock, notes>>
    BY <1>5, RecallStamps
  <2> QED
    BY <1>0, <1>5, <2>1
<1>6. CASE Deleting
  <2>1. PICK ids : Deletes(ids)
    BY <1>6, DeletingDeletes
  <2>2. rows' = [i \in Ids |-> IF i \in ids THEN Absent ELSE rows[i]] /\ UNCHANGED <<clock, notes>>
    BY <2>1, DeletesRows
  <2> QED
    BY <1>1, <2>2
<1>7. ASSUME NEW d \in Docs, NEW v \in Versions, NEW puts, NEW cut, Ingests(d, v, puts, cut),
             UNCHANGED <<clock, notes>>
      PROVE  Goal
  <2>1. rows' = Written(d, v, run.by, puts, cut) /\ run.by \in Embedders
    BY <1>7 DEF Ingests
  <2>2. CASE id \in cut \/ ~InPuts(id, d, puts)
    BY <1>1, <1>7, <2>1, <2>2, WrittenRow
  <2>3. CASE id \notin cut /\ InPuts(id, d, puts)
    <3>1. IsChunk(rows'[id], d, v, id[2], run.by) /\ id[2] \in Nat
      BY <2>1, <2>3, WrittenRow, ChunkIdParts DEF InPuts
    <3>2. rows'[id].text \in ChunkTexts /\ rows'[id].expires = None
      BY <3>1 DEF IsChunk, ChunkTexts
    <3> QED
      BY <1>0, <1>7, <3>2 DEF Rewritten
  <2> QED
    BY <2>2, <2>3
<1>8. ASSUME NEW d \in Docs, IngestFile(d) PROVE Goal
    BY <1>1, <1>7, <1>8, IngestFileStep
<1>9. ASSUME NEW d \in Docs, IngestKilled(d) PROVE Goal
    BY <1>7, <1>9, IngestKilledStep
<1>10. CASE Tick
    BY <1>0, <1>10 DEF Tick
<1>11. ASSUME NEW d \in Docs, NEW v \in Versions \cup {0}, Edit(d, v) PROVE Goal
    BY <1>1, <1>11 DEF Edit
<1>12. ASSUME NEW e \in Embedders, Walk(e) PROVE Goal
    BY <1>1, <1>12, Zenon DEF Walk
<1>13. CASE Waiting
    BY <1>1, <1>13, RecallWaits DEF Waiting
<1>14. CASE UNCHANGED vars
    BY <1>1, <1>14 DEF vars
<1> QED
    BY <1>3, <1>4, <1>5, <1>6, <1>8, <1>9, <1>10, <1>11, <1>12, <1>13, <1>14
       DEF Next, Recalling, Deleting, Waiting

\* A row that is recalled keeps its text, and its expiry only moves forward.
LEMMA RecalledRow ==
    ASSUME Shape, NEW id \in Ids, NEW c \in Callers, Recalling(c)
    PROVE  \/ rows'[id] = rows[id]
           \/ /\ Live(id) /\ rows'[id] \in LiveRow /\ rows'[id].text = rows[id].text
              /\ Later(rows[id].expires, rows'[id].expires)
<1>1. clock \in Nat
    BY DEF Shape
<1>2. CASE UNCHANGED rows
    BY <1>2
<1>3. ASSUME NEW hits, NEW extend, extend \in TTLs, rows' = reinforce(hits, clock, extend)
      PROVE  \/ rows'[id] = rows[id]
             \/ /\ Live(id) /\ rows'[id] \in LiveRow /\ rows'[id].text = rows[id].text
                /\ Later(rows[id].expires, rows'[id].expires)
    BY <1>1, <1>3, ReinforcedRow DEF SameRow
<1> QED
    BY <1>2, <1>3, RecallStamps

\* Every text is a note already written, or a chunk's.
Known(t) == t \in ChunkTexts \/ \E k \in Nat : k <= notes /\ t = <<"note", k>>

\* A chunk never expires.
Dated(id) == Live(id) => Known(rows[id].text) /\ (rows[id].text \in ChunkTexts => rows[id].expires = None)

\* What a search found was visible to its guard, and is as long as the row has
\* the text it was found with.
Fresh(q) ==
  q.at = "searched" =>
    \A id \in DOMAIN q.found \cap Ids :
      /\ Known(q.found[id])
      /\ Live(id) /\ rows[id].text = q.found[id] => not_expired(rows[id], q.guard)

DatedInv == Shape /\ (\A id \in Ids : Dated(id)) /\ \A c \in Callers : Fresh(call[c])

LEMMA NoteTextsDiffer ==
    ASSUME NEW k \in Nat, NEW n \in Nat, k <= n
    PROVE  <<"note", k>> # <<"note", n + 1>> /\ <<"note", k>> \notin ChunkTexts
BY NoteNotChunk DEF NoteTexts

\* A known text is not the next note.
LEMMA KnownIsOld ==
    ASSUME Shape, NEW t, Known(t)
    PROVE  t # <<"note", notes + 1>>
<1>1. <<"note", notes + 1>> \in NoteTexts
    BY DEF Shape, NoteTexts
<1> QED
    BY <1>1, NoteTextsDiffer, NoteNotChunk DEF Known, Shape

LEMMA StaysKnown ==
    ASSUME Shape, NEW t, Known(t), notes' \in Nat, notes' >= notes
    PROVE  Known(t)'
BY DEF Known, Shape

LEMMA DatedRow ==
    ASSUME Shape, [Next]_vars, NEW id \in Ids, Dated(id)
    PROVE  Dated(id)'
<1>0. notes \in Nat
    BY DEF Shape
<1>1. /\ notes' \in Nat /\ notes' >= notes
      /\ Rewritten(id) \/ rows'[id] = rows[id] \/ \E c \in Callers : Recalling(c)
    BY Rewrites
<1>2. CASE rows'[id] = rows[id]
    BY <1>1, <1>2, StaysKnown DEF Dated, Live
<1>3. CASE Rewritten(id)
  <2>1. CASE rows'[id] = Absent
    BY <2>1 DEF Dated, Live
  <2>2. CASE rows'[id].text = <<"note", notes + 1>> /\ notes' = notes + 1
    <3>1. rows'[id].text \notin ChunkTexts
      BY <1>0, <2>2, NoteNotChunk DEF NoteTexts
    <3> QED
      BY <1>0, <2>2, <3>1 DEF Dated, Known
  <2>3. CASE rows'[id].text \in ChunkTexts /\ rows'[id].expires = None
    BY <2>3 DEF Dated, Known
  <2> QED
    BY <1>3, <2>1, <2>2, <2>3 DEF Rewritten
<1>4. CASE /\ Live(id) /\ rows'[id] \in LiveRow /\ rows'[id].text = rows[id].text
           /\ Later(rows[id].expires, rows'[id].expires)
    BY <1>1, <1>4, StaysKnown DEF Dated, Later
<1> QED
    BY <1>1, <1>2, <1>3, <1>4, RecalledRow

LEMMA FreshKept ==
    ASSUME Shape, [Next]_vars, NEW q, q.guard \in Nat, Fresh(q)
    PROVE  Fresh(q)'
<1> SUFFICES ASSUME q.at = "searched", NEW id \in DOMAIN q.found \cap Ids
             PROVE  /\ Known(q.found[id])'
                    /\ Live(id)' /\ rows'[id].text = q.found[id] => not_expired(rows'[id], q.guard)
    BY DEF Fresh
<1>0. /\ Known(q.found[id])
      /\ Live(id) /\ rows[id].text = q.found[id] => not_expired(rows[id], q.guard)
    BY DEF Fresh
<1>1. /\ notes' \in Nat /\ notes' >= notes
      /\ Rewritten(id) \/ rows'[id] = rows[id] \/ \E c \in Callers : Recalling(c)
    BY Rewrites
<1>2. Known(q.found[id])'
    BY <1>0, <1>1, StaysKnown
<1>3. SUFFICES ASSUME rows'[id] # Absent, rows'[id].text = q.found[id]
               PROVE  not_expired(rows'[id], q.guard)
    BY <1>2 DEF Live
<1>4. CASE rows'[id] = rows[id]
    BY <1>0, <1>3, <1>4 DEF Live
<1>5. CASE Rewritten(id)
  <2>1. rows'[id].text # <<"note", notes + 1>>
    BY <1>0, <1>3, KnownIsOld
  <2> QED
    BY <1>3, <1>5, <2>1 DEF Rewritten, not_expired
<1>6. CASE /\ Live(id) /\ rows'[id] \in LiveRow /\ rows'[id].text = rows[id].text
           /\ Later(rows[id].expires, rows'[id].expires)
  <2>1. not_expired(rows[id], q.guard)
    BY <1>0, <1>3, <1>6
  <2>2. rows[id].expires \in Int \cup {None} /\ rows'[id].expires \in Int \cup {None} /\ None \notin Int
    BY <1>6, LiveIsRow, LiveFields, MemoryAssumption
  <2> QED
    BY <1>6, <2>1, <2>2 DEF not_expired, Later
<1> QED
    BY <1>1, <1>4, <1>5, <1>6, RecalledRow

\* How a step changes the recall of a caller.
LEMMA CallStep ==
    ASSUME Shape, [Next]_vars, NEW c \in Callers
    PROVE  \/ call'[c] = call[c]
           \/ call'[c].at # "searched"
           \/ /\ UNCHANGED <<rows, notes>> /\ call'[c].at = "searched"
              /\ call'[c].guard = call[c].guard
              /\ \E hits \in SUBSET Visible(call[c].guard) :
                   call'[c].found = [id \in hits |-> rows[id].text]
<1> DEFINE Goal == \/ call'[c] = call[c]
                   \/ call'[c].at # "searched"
                   \/ /\ UNCHANGED <<rows, notes>> /\ call'[c].at = "searched"
                      /\ call'[c].guard = call[c].guard
                      /\ \E hits \in SUBSET Visible(call[c].guard) :
                           call'[c].found = [id \in hits |-> rows[id].text]
<1>0. CallsShape(call) /\ NoCall.at # "searched"
    BY DEF Shape, CallsShape, NoCall
<1>1. CASE UNCHANGED call
    BY <1>1
<1>2. ASSUME NEW b \in Callers, NEW q, q = NoCall \/ InFlight(q), q.at # "searched",
             call' = [call EXCEPT ![b] = q]
      PROVE  Goal
    BY <1>0, <1>2, CallChanges
<1>3. ASSUME NEW b \in Callers, Recalling(b) PROVE Goal
    BY <1>0, <1>2, <1>3, RecallStamps
<1>4. ASSUME NEW b \in Callers, NEW e \in Embedders, NEW reranked \in BOOLEAN,
             NEW extend \in TTLs, RecallAsk(b, e, reranked, extend)
      PROVE  Goal
  <2>1. PICK q : InFlight(q) /\ q.at = "asked" /\ call' = [call EXCEPT ![b] = q]
    BY <1>4, AskedCall
  <2> QED
    BY <1>2, <2>1
<1>5. ASSUME NEW b \in Callers, RecallSearch(b) PROVE Goal
  <2>1. CASE call' = [call EXCEPT ![b] = NoCall]
    BY <1>0, <1>2, <2>1
  <2>2. ASSUME NEW hits \in SUBSET Visible(call[b].guard), NEW q, InFlight(q), q.at = "searched",
               q.guard = call[b].guard, q.found = [id \in hits |-> rows[id].text],
               call' = [call EXCEPT ![b] = q]
        PROVE  Goal
    <3>1. UNCHANGED <<rows, notes>>
      BY <1>5, RecallWaits
    <3>2. call'[b] = q /\ \A a \in Callers \ {b} : call'[a] = call[a]
      BY <1>0, <2>2, CallChanges
    <3> QED
      BY <2>2, <3>1, <3>2
  <2> QED
    BY <1>5, <2>1, <2>2, SearchedCall
<1>6. CASE \/ Deleting \/ Elsewhere
           \/ \E e \in Embedders, m \in Memories, ttl \in TTLs : Remember(e, m, ttl)
           \/ \E e \in Embedders, m \in Memories : RawUpsert(e, m)
           \/ \E d \in Docs : IngestFile(d) \/ IngestKilled(d)
  <2>1. Deleting => UNCHANGED call
    BY DeletingDeletes, DeletesRows
  <2>2. Elsewhere => UNCHANGED call
    BY ElsewhereStep
  <2>3. ASSUME NEW e \in Embedders, NEW m \in Memories, NEW ttl \in TTLs, Remember(e, m, ttl)
        PROVE  UNCHANGED call
    BY <2>3, RememberStep DEF Remembers
  <2>4. ASSUME NEW e \in Embedders, NEW m \in Memories, RawUpsert(e, m) PROVE UNCHANGED call
    BY <2>4, Zenon DEF RawUpsert
  <2>5. ASSUME NEW d \in Docs, IngestFile(d) \/ IngestKilled(d) PROVE UNCHANGED call
    BY <2>5, IngestFileStep, IngestKilledStep
  <2> QED
    BY <1>1, <1>6, <2>1, <2>2, <2>3, <2>4, <2>5
<1>7. CASE UNCHANGED vars
    BY <1>1, <1>7 DEF vars
<1> QED
    BY <1>3, <1>4, <1>5, <1>6, <1>7 DEF Next, Recalling, Deleting, Elsewhere

LEMMA DatedStep == DatedInv /\ [Next]_vars => DatedInv'
<1> SUFFICES ASSUME DatedInv, [Next]_vars PROVE DatedInv'
    OBVIOUS
<1>0. Shape /\ Shape' /\ (\A id \in Ids : Dated(id)) /\ \A c \in Callers : Fresh(call[c])
    BY ShapeStep DEF DatedInv
<1>1. \A id \in Ids : Dated(id)'
    BY <1>0, DatedRow
<1>2. ASSUME NEW c \in Callers PROVE Fresh(call[c])'
  <2>1. CASE call'[c].at # "searched"
    BY <2>1 DEF Fresh
  <2>2. CASE call'[c] = call[c] /\ call[c].at = "searched"
    <3>1. call[c].guard \in Nat
      BY <1>0, <2>2 DEF Shape, InFlight, NoCall
    <3>2. PICK q : q = call[c]
      OBVIOUS
    <3>3. Fresh(q)'
      BY <1>0, <3>1, <3>2, FreshKept
    <3> QED
      BY <2>2, <3>2, <3>3 DEF Fresh
  <2>3. CASE /\ UNCHANGED <<rows, notes>> /\ call'[c].at = "searched"
             /\ call'[c].guard = call[c].guard
             /\ \E hits \in SUBSET Visible(call[c].guard) :
                  call'[c].found = [id \in hits |-> rows[id].text]
    <3>1. PICK hits \in SUBSET Visible(call[c].guard) :
             call'[c].found = [id \in hits |-> rows[id].text]
      BY <2>3
    <3>2. ASSUME NEW id \in hits PROVE /\ id \in Ids /\ Known(rows[id].text)
                                       /\ not_expired(rows[id], call[c].guard)
      BY <1>0, <3>1, <3>2 DEF Visible, LiveIds, Dated
    <3>3. ASSUME NEW id \in DOMAIN call'[c].found \cap Ids
          PROVE  /\ Known(call[c].found[id])'
                 /\ not_expired(rows[id], call[c].guard)'
      BY <2>3, <3>1, <3>2, <3>3 DEF Known, not_expired
    <3> QED
      BY <3>3 DEF Fresh
  <2> QED
    BY <1>0, <2>1, <2>2, <2>3, CallStep
<1> QED
    BY <1>0, <1>1, <1>2 DEF DatedInv

LEMMA HiddenStep ==
    ASSUME DatedInv, [Next]_vars, NEW id \in Ids,
           rows[id] # Absent, ~not_expired(rows[id], clock),
           rows'[id] # Absent, rows'[id].text = rows[id].text, not_expired(rows'[id], clock')
    PROVE  \E c \in Callers : call[c] # NoCall /\ call'[c] = NoCall /\ Overtaken(id, call[c])
<1>0. /\ Shape /\ Dated(id) /\ \A c \in Callers : Fresh(call[c])
      /\ clock \in Nat /\ notes \in Nat
    BY DEF DatedInv, Shape
<1>1. rows[id] \in LiveRow /\ rows[id].expires \in Int /\ rows[id].expires <= clock
      /\ rows[id].expires # None /\ None \notin Int
    BY <1>0, LiveIsRow, LiveFields, MemoryAssumption DEF Live, not_expired
<1>2. /\ clock' \in Nat /\ clock' >= clock
      /\ Rewritten(id) \/ rows'[id] = rows[id] \/ \E c \in Callers : Recalling(c)
    BY <1>0, Rewrites
<1>3. rows'[id] # rows[id]
    BY <1>0, <1>1, <1>2 DEF not_expired
<1>4. ~Rewritten(id)
  <2>1. Known(rows[id].text) /\ rows[id].text \notin ChunkTexts
    BY <1>0, <1>1 DEF Dated, Live
  <2>2. rows[id].text # <<"note", notes + 1>>
    BY <1>0, <2>1, KnownIsOld
  <2> QED
    BY <2>1, <2>2 DEF Rewritten
<1>5. PICK c \in Callers : Recalling(c)
    BY <1>2, <1>3, <1>4
<1>6. call[c] # NoCall /\ call'[c] = NoCall
  <2>1. InFlight(call[c]) /\ call' = [call EXCEPT ![c] = NoCall] /\ CallsShape(call)
    BY <1>0, <1>5, RecallStamps DEF Shape, CallsShape
  <2>2. call'[c] = NoCall
    BY <2>1, CallChanges
  <2> QED
    BY <2>1, <2>2 DEF InFlight, NoCall
<1>7. CASE RecallRun(c)
  <2>1. PICK hits \in SUBSET Visible(call[c].guard) : rows' = reinforce(hits, clock, call[c].extend)
    BY <1>3, <1>7, Zenon DEF RecallRun
  <2>2. id \in hits
    BY <1>3, <2>1 DEF reinforce
  <2> QED
    BY <1>6, <2>1, <2>2 DEF Visible, Overtaken
<1>8. CASE RecallStamp(c)
  <2>1. call[c].at = "searched" /\ rows' = reinforce(DOMAIN call[c].found, clock, call[c].extend)
    BY <1>8, Zenon DEF RecallStamp
  <2>2. id \in DOMAIN call[c].found
    BY <1>3, <2>1 DEF reinforce
  <2>3. rows[id].text = call[c].found[id] => not_expired(rows[id], call[c].guard)
    BY <1>0, <2>1, <2>2 DEF Fresh, Live
  <2> QED
    BY <1>6, <2>1, <2>2, <2>3 DEF Overtaken
<1> QED
    BY <1>5, <1>7, <1>8 DEF Recalling

\* An entry that expired comes back to recalls under the text it had only when
\* a recall that was in flight stamps it: one whose guard was read before the
\* entry expired, or that had found another text under its id; everything else
\* leaves it hidden, however many recalls, reranked or not, are in flight
\* (not_expired_predicate and recall_with in memory.rs, reinforce in write.rs).
THEOREM ExpiredNeverReturns == Spec => ExpiredStaysHidden
<1>1. Init => DatedInv
  <2>1. Init => (\A id \in Ids : Dated(id)) /\ \A c \in Callers : Fresh(call[c])
    BY DEF Init, Dated, Live, Fresh, NoCall
  <2> QED
    BY <2>1, ShapeInit DEF DatedInv
<1>2. DatedInv /\ [Next]_vars => DatedInv'
    BY DatedStep
<1>3. DatedInv /\ [Next]_vars =>
        [\A id \in Ids :
           /\ rows[id] # Absent /\ ~not_expired(rows[id], clock)
           /\ rows'[id] # Absent /\ rows'[id].text = rows[id].text
           /\ not_expired(rows'[id], clock')
           => \E c \in Callers : call[c] # NoCall /\ call'[c] = NoCall /\ Overtaken(id, call[c])]_vars
    BY HiddenStep
<1> QED
    BY <1>1, <1>2, <1>3, PTL DEF Spec, ExpiredStaysHidden

-----------------------------------------------------------------------------
(* An ingested file is its chunks *)

\* A row is a memory in the place of a memory, or a row of a document in the
\* place of a chunk, of a version that has that many chunks.
StoredChunk(r, d, i) ==
  /\ r.parent = d /\ r.index = i
  /\ r.hash \in Versions \X Embedders /\ i < ChunksOf[r.hash[1]]

Placed(id) ==
  Live(id) => \/ id \in MemoryIds /\ rows[id].parent = NoDoc
              \/ id \in ChunkIds /\ StoredChunk(rows[id], id[1], id[2])

\* Which chunks of a document are there, of which version of the file, and what
\* they say.
HasChunk(d, i) == <<d, i>> \in LiveIds
VersionAt(d, i) == rows[<<d, i>>].hash[1]
TextAt(d, i) == rows[<<d, i>>].text

\* The chunks of a document are of one version, however it was interrupted.
OneVersion(d) ==
  \A i, j \in Nat : HasChunk(d, i) /\ HasChunk(d, j) => VersionAt(d, i) = VersionAt(d, j)

\* With its first chunk there, a document has no hole: this is why looking at
\* the first and at the last chunk is enough.
NoHole(d) ==
  \A i, j \in Nat : i < j /\ HasChunk(d, 0) /\ HasChunk(d, j) => HasChunk(d, i)

\* No memory was merged into a chunk.
Pristine(d) == \A i \in Nat : HasChunk(d, i) => TextAt(d, i) = <<d, VersionAt(d, i), i>>

Complete(d) ==
  settled[d] # 0 =>
    /\ \A i \in 0 .. ChunksOf[settled[d]] - 1 : HasChunk(d, i)
    /\ \A i \in Nat : HasChunk(d, i) => VersionAt(d, i) = settled[d]

Sound(d) == OneVersion(d) /\ NoHole(d) /\ Pristine(d) /\ Complete(d)

PlacedInv == Shape /\ \A id \in Ids : Placed(id)

FileInv == PlacedInv /\ \A d \in Docs : d \notin spoiled => Sound(d)

\* A step leaves the chunks of a document as they are.
SameChunks(d) ==
  \A i \in Nat :
    /\ HasChunk(d, i)' <=> HasChunk(d, i)
    /\ HasChunk(d, i) => VersionAt(d, i)' = VersionAt(d, i) /\ TextAt(d, i)' = TextAt(d, i)

LEMMA ChunkIdsApart ==
    /\ MemoryIds \cap ChunkIds = {}
    /\ MemoryIds \subseteq Ids /\ ChunkIds \subseteq Ids
    /\ \A d \in Docs, i \in Nat, v \in Versions : i < ChunksOf[v] => <<d, i>> \in ChunkIds
<1>1. MemoryIds \cap ChunkIds = {}
    BY MemoryAssumption DEF MemoryIds, ChunkIds
<1>2. \A d \in Docs, i \in Nat, v \in Versions : i < ChunksOf[v] => <<d, i>> \in ChunkIds
    BY MemoryAssumption DEF ChunkIds
<1> QED
    BY <1>1, <1>2 DEF Ids

\* A live row that names a document is that document's chunk.
LEMMA RowOfDoc ==
    ASSUME NEW id \in LiveIds, Placed(id), NEW d \in Docs, rows[id].parent = d
    PROVE  /\ id \in ChunkIds /\ id = <<d, id[2]>> /\ id[2] \in Nat
           /\ StoredChunk(rows[id], d, id[2])
<1>1. id \in ChunkIds /\ StoredChunk(rows[id], id[1], id[2])
    BY MemoryAssumption DEF Placed, LiveIds
<1>2. id[1] = d
    BY <1>1 DEF StoredChunk
<1> QED
    BY <1>1, <1>2, ChunkIdParts

\* A chunk that is there names its document.
LEMMA ChunkOfDoc ==
    ASSUME PlacedInv, NEW d \in Docs, NEW i \in Nat, HasChunk(d, i)
    PROVE  /\ <<d, i>> \in ChunkIds /\ <<d, i>> \in Ids /\ Live(<<d, i>>)
           /\ StoredChunk(rows[<<d, i>>], d, i)
<1>1. <<d, i>> \in Ids /\ Live(<<d, i>>)
    BY DEF HasChunk, LiveIds
<1>2. <<d, i>> \notin MemoryIds
    BY MemoryAssumption DEF MemoryIds
<1>3. <<d, i>> \in ChunkIds /\ StoredChunk(rows[<<d, i>>], <<d, i>>[1], <<d, i>>[2])
    BY <1>1, <1>2 DEF PlacedInv, Placed
<1> QED
    BY <1>1, <1>3

\* The rows a remember may write over, and what becomes of their place.
LEMMA RememberedPlace ==
    ASSUME PlacedInv, NEW e, NEW m \in Memories, NEW ttl, NEW target \in Ids,
           NEW deduped \in BOOLEAN, NEW drift, NEW r \in LiveRow,
           Remembers(e, m, ttl, target, deduped, drift, r)
    PROVE  \/ target \in MemoryIds /\ r.parent = NoDoc
           \/ target \in ChunkIds /\ StoredChunk(r, target[1], target[2])
<1>1. /\ deduped => target \in Candidates(clock)
      /\ ~deduped => target = <<m, 0>>
      /\ r.parent = IF deduped THEN rows[target].parent ELSE NoDoc
      /\ deduped => r.index = rows[target].index /\ r.hash = rows[target].hash
    BY DEF Remembers
<1>2. CASE ~deduped
    BY <1>1, <1>2 DEF MemoryIds
<1>3. CASE deduped
  <2>1. Live(target) /\ Placed(target)
    BY <1>1, <1>3 DEF Candidates, LiveIds, PlacedInv
  <2> QED
    BY <1>1, <1>3, <2>1 DEF Placed, StoredChunk
<1> QED
    BY <1>2, <1>3

LEMMA PlacedStep == PlacedInv /\ [Next]_vars => PlacedInv'
<1> SUFFICES ASSUME PlacedInv, [Next]_vars PROVE PlacedInv'
    OBVIOUS
<1>0. Shape /\ Shape' /\ \A id \in Ids : Placed(id)
    BY ShapeStep DEF PlacedInv
<1>1. rows \in [Ids -> LiveRow \cup {Absent}] /\ clock \in Nat /\ notes \in Nat
    BY <1>0 DEF Shape
<1>a. SUFFICES ASSUME NEW id \in Ids PROVE Placed(id)'
    BY <1>0 DEF PlacedInv
<1>b. ASSUME rows'[id] = rows[id] \/ rows'[id] = Absent PROVE Placed(id)'
    BY <1>0, <1>b DEF Placed, Live
<1>2. ASSUME NEW target \in Ids, NEW r \in LiveRow, rows' = [rows EXCEPT ![target] = r],
             \/ target \in MemoryIds /\ r.parent = NoDoc
             \/ target \in ChunkIds /\ StoredChunk(r, target[1], target[2])
      PROVE  Placed(id)'
  <2>1. CASE id = target
    <3>1. rows'[id] = r
      BY <1>1, <1>2, <2>1
    <3> QED
      BY <1>2, <2>1, <3>1 DEF Placed
  <2>2. CASE id # target
    <3>1. rows'[id] = rows[id]
      BY <1>1, <1>2, <2>2
    <3> QED
      BY <1>b, <3>1
  <2> QED
    BY <2>1, <2>2
<1>3. ASSUME NEW e \in Embedders, NEW m \in Memories, NEW ttl \in TTLs, Remember(e, m, ttl)
      PROVE  Placed(id)'
  <2>1. PICK target \in Ids, deduped \in BOOLEAN, drift \in Drifts, r \in LiveRow :
           Remembers(e, m, ttl, target, deduped, drift, r)
    BY <1>0, <1>3, RememberStep
  <2>2. rows' = [rows EXCEPT ![target] = r]
    BY <2>1 DEF Remembers
  <2> QED
    BY <1>2, <2>1, <2>2, RememberedPlace
<1>4. ASSUME NEW e \in Embedders, NEW m \in Memories, RawUpsert(e, m) PROVE Placed(id)'
  <2>1. rows' = [rows EXCEPT ![<<m, 0>>] = RawRow(e)]
    BY <1>4, Zenon DEF RawUpsert, RawRow
  <2>2. /\ <<m, 0>> \in MemoryIds /\ <<m, 0>> \in Ids
        /\ RawRow(e) \in LiveRow /\ RawRow(e).parent = NoDoc
    BY <1>0, RawRowIsRow DEF RawRow, MemoryIds, Ids
  <2> QED
    BY <1>2, <2>1, <2>2
<1>5. ASSUME NEW c \in Callers, Recalling(c) PROVE Placed(id)'
  <2>1. ASSUME NEW hits, NEW extend, extend \in TTLs, rows' = reinforce(hits, clock, extend)
        PROVE  Placed(id)'
    <3>1. CASE ~Live(id)
      BY <1>0, <1>1, <2>1, <1>b, <3>1, ReinforcedRow
    <3>2. CASE Live(id)
      <4>1. SameRow(rows[id], rows'[id])
        BY <1>0, <1>1, <2>1, <3>2, ReinforcedRow
      <4> QED
        BY <1>0, <3>2, <4>1 DEF Placed, SameRow, StoredChunk
    <3> QED
      BY <3>1, <3>2
  <2> QED
    BY <1>0, <1>b, <1>5, <2>1, RecallStamps
<1>8. CASE Deleting
  <2>1. PICK ids : Deletes(ids)
    BY <1>8, DeletingDeletes
  <2>2. rows' = [i \in Ids |-> IF i \in ids THEN Absent ELSE rows[i]]
    BY <2>1, DeletesRows
  <2> QED
    BY <1>b, <2>2
<1>10. ASSUME NEW d \in Docs, NEW v \in Versions, NEW puts, NEW cut, Ingests(d, v, puts, cut)
       PROVE  Placed(id)'
  <2>1. rows' = Written(d, v, run.by, puts, cut) /\ run.by \in Embedders /\ puts \in 0 .. ChunksOf[v]
    BY <1>10 DEF Ingests
  <2>2. CASE id \in cut \/ ~InPuts(id, d, puts)
    BY <1>0, <1>b, <2>1, <2>2, WrittenRow
  <2>3. CASE id \notin cut /\ InPuts(id, d, puts)
    <3>1. IsChunk(rows'[id], d, v, id[2], run.by)
      BY <1>0, <2>1, <2>3, WrittenRow
    <3>2. id \in ChunkIds /\ id[1] = d /\ id[2] \in Nat /\ id[2] < ChunksOf[v]
      BY <2>1, <2>3, ChunkIdParts, MemoryAssumption DEF InPuts
    <3>3. StoredChunk(rows'[id], id[1], id[2])
      BY <2>1, <3>1, <3>2 DEF IsChunk, StoredChunk
    <3> QED
      BY <3>2, <3>3 DEF Placed
  <2> QED
    BY <2>2, <2>3
<1>11. ASSUME NEW d \in Docs, IngestFile(d) PROVE Placed(id)'
    BY <1>0, <1>b, <1>10, <1>11, IngestFileStep
<1>12. ASSUME NEW d \in Docs, IngestKilled(d) PROVE Placed(id)'
    BY <1>0, <1>10, <1>12, IngestKilledStep
<1>13. CASE Waiting \/ Elsewhere
    BY <1>b, <1>13, RecallWaits, ElsewhereStep DEF Waiting
<1>16. CASE UNCHANGED vars
    BY <1>b, <1>16 DEF vars
<1> QED
    BY <1>3, <1>4, <1>5, <1>8, <1>11, <1>12, <1>13, <1>16
       DEF Next, Recalling, Deleting, Waiting, Elsewhere

\* The chunks of a document stay as they are.
LEMMA DocKept ==
    ASSUME NEW d \in Docs, Sound(d), settled'[d] = settled[d], SameChunks(d)
    PROVE  Sound(d)'
<1>1. OneVersion(d)'
    BY DEF Sound, OneVersion, SameChunks
<1>2. NoHole(d)'
    BY DEF Sound, NoHole, SameChunks
<1>3. Complete(d)'
  <2> SUFFICES ASSUME settled[d] # 0
               PROVE  /\ \A i \in 0 .. ChunksOf[settled[d]] - 1 : HasChunk(d, i)'
                      /\ \A i \in Nat : HasChunk(d, i)' => VersionAt(d, i)' = settled[d]
    BY DEF Complete
  <2>1. \A i \in 0 .. ChunksOf[settled[d]] - 1 : HasChunk(d, i) /\ i \in Nat
    BY DEF Sound, Complete
  <2>2. \A i \in Nat : HasChunk(d, i) => VersionAt(d, i) = settled[d]
    BY DEF Sound, Complete
  <2> QED
    BY <2>1, <2>2 DEF SameChunks
<1>4. Pristine(d)'
    BY DEF Sound, Pristine, SameChunks
<1> QED
    BY <1>1, <1>2, <1>3, <1>4 DEF Sound

\* Some chunks go, none from between the first and another that stays.
LEMMA DocShrinks ==
    ASSUME NEW d \in Docs, Sound(d), settled'[d] = 0,
           \A i \in Nat : HasChunk(d, i)' => /\ HasChunk(d, i) /\ VersionAt(d, i)' = VersionAt(d, i)
                                             /\ TextAt(d, i)' = TextAt(d, i),
           \A i, j \in Nat : i < j /\ HasChunk(d, 0)' /\ HasChunk(d, j)' /\ HasChunk(d, i)
                                => HasChunk(d, i)'
    PROVE  Sound(d)'
<1>1. OneVersion(d)'
    BY DEF Sound, OneVersion
<1>2. NoHole(d)'
    BY DEF Sound, NoHole
<1>3. Complete(d)'
    BY DEF Complete
<1>4. Pristine(d)'
    BY DEF Sound, Pristine
<1> QED
    BY <1>1, <1>2, <1>3, <1>4 DEF Sound

\* A document without rows.
LEMMA DocEmpty ==
    ASSUME NEW d \in Docs, settled[d] = 0, \A i \in Nat : ~HasChunk(d, i)
    PROVE  Sound(d)
BY DEF Sound, OneVersion, NoHole, Pristine, Complete

\* The document is the first chunks of one version, and nothing else.
LEMMA DocWritten ==
    ASSUME NEW d \in Docs, NEW v \in Versions, NEW puts \in Nat,
           \A i \in Nat : /\ HasChunk(d, i)' <=> i < puts
                          /\ HasChunk(d, i)' => VersionAt(d, i)' = v /\ TextAt(d, i)' = <<d, v, i>>,
           settled'[d] = v /\ puts = ChunksOf[v]
    PROVE  Sound(d)'
<1>1. OneVersion(d)'
    BY DEF OneVersion
<1>2. NoHole(d)'
    BY DEF NoHole
<1>3. Complete(d)'
    BY MemoryAssumption DEF Complete
<1>4. Pristine(d)'
    BY DEF Pristine
<1> QED
    BY <1>1, <1>2, <1>3, <1>4 DEF Sound

\* A killed write over nothing, or over chunks of the same version with the
\* first among them, leaves chunks of that version and no hole behind the first.
LEMMA DocRetried ==
    ASSUME NEW d \in Docs, Sound(d), NEW v \in Versions, NEW puts \in Nat, settled'[d] = 0,
           \A i \in Nat : HasChunk(d, i) => VersionAt(d, i) = v /\ HasChunk(d, 0),
           \A i \in Nat :
             /\ HasChunk(d, i)' <=> i < puts \/ HasChunk(d, i)
             /\ HasChunk(d, i)' =>
                  \/ VersionAt(d, i)' = v /\ TextAt(d, i)' = <<d, v, i>>
                  \/ /\ HasChunk(d, i) /\ VersionAt(d, i)' = VersionAt(d, i)
                     /\ TextAt(d, i)' = TextAt(d, i)
    PROVE  Sound(d)'
<1>1. OneVersion(d)'
    BY DEF OneVersion
<1>2. NoHole(d)'
    BY DEF Sound, NoHole
<1>3. Complete(d)'
    BY DEF Complete
<1>4. Pristine(d)'
    BY DEF Sound, Pristine
<1> QED
    BY <1>1, <1>2, <1>3, <1>4 DEF Sound

\* The skip is right: a document that has the first chunk under the digest of
\* v, and the last chunk of v, is all of v and nothing else.
LEMMA DocUnchanged ==
    ASSUME PlacedInv, NEW d \in Docs, Sound(d), NEW v \in Versions, ChunksOf[v] > 0,
           Unchanged(d, v), UNCHANGED rows, settled'[d] = v
    PROVE  Sound(d)'
<1>0. ChunksOf[v] \in Nat
    BY MemoryAssumption
<1>1. <<d, 0>> \in Ids /\ <<d, ChunksOf[v] - 1>> \in Ids
    BY <1>0, ChunkIdsApart
<1>2. HasChunk(d, 0) /\ HasChunk(d, ChunksOf[v] - 1) /\ VersionAt(d, 0) = v
    BY <1>1 DEF Unchanged, HasChunk, LiveIds, VersionAt
<1>3. \A i \in Nat : HasChunk(d, i) => VersionAt(d, i) = v
    BY <1>2 DEF Sound, OneVersion
<1>4. \A i \in 0 .. ChunksOf[v] - 1 : HasChunk(d, i)
    BY <1>0, <1>2 DEF Sound, NoHole
<1>5. \A i \in Nat : /\ HasChunk(d, i)' = HasChunk(d, i) /\ VersionAt(d, i)' = VersionAt(d, i)
                     /\ TextAt(d, i)' = TextAt(d, i)
    BY DEF HasChunk, LiveIds, Live, VersionAt, TextAt
<1>6. OneVersion(d)' /\ NoHole(d)' /\ Pristine(d)'
    BY <1>5 DEF Sound, OneVersion, NoHole, Pristine
<1>7. Complete(d)'
    BY <1>0, <1>3, <1>4, <1>5 DEF Complete
<1> QED
    BY <1>6, <1>7 DEF Sound

\* A write of file d, whole or killed: what was put is there, what was neither
\* put nor cut stays, and the other documents are as they were.
LEMMA DocIngested ==
    ASSUME PlacedInv, NEW d \in Docs, NEW v \in Versions, NEW puts, NEW cut,
           Ingests(d, v, puts, cut)
    PROVE  /\ puts \in Nat
           /\ \A i \in Nat :
                i < puts => HasChunk(d, i)' /\ VersionAt(d, i)' = v /\ TextAt(d, i)' = <<d, v, i>>
           /\ \A i \in Nat :
                ~(i < puts) => /\ HasChunk(d, i)' <=> HasChunk(d, i) /\ <<d, i>> \notin cut
                               /\ HasChunk(d, i)' => /\ VersionAt(d, i)' = VersionAt(d, i)
                                                     /\ TextAt(d, i)' = TextAt(d, i)
           /\ \A c \in Docs \ {d} : SameChunks(c)
<1>0. /\ rows' = Written(d, v, run.by, puts, cut) /\ run.by \in Embedders
      /\ puts \in 0 .. ChunksOf[v] /\ cut \subseteq StaleTail(d, ChunksOf[v])
      /\ ChunksOf[v] \in Nat
    BY MemoryAssumption DEF Ingests
<1>1. puts \in Nat /\ puts <= ChunksOf[v]
    BY <1>0
<1>2. Shape
    BY DEF PlacedInv
<1>3. \A id \in Ids : /\ id \in cut => rows'[id] = Absent
                      /\ id \notin cut /\ InPuts(id, d, puts)
                            => IsChunk(rows'[id], d, v, id[2], run.by)
                      /\ id \notin cut /\ ~InPuts(id, d, puts) => rows'[id] = rows[id]
    BY <1>0, <1>2, WrittenRow
<1>4. ASSUME NEW i \in Nat, i < puts
      PROVE  HasChunk(d, i)' /\ VersionAt(d, i)' = v /\ TextAt(d, i)' = <<d, v, i>>
  <2>1. <<d, i>> \in ChunkIds /\ <<d, i>> \in Ids
    BY <1>0, <1>1, <1>4, ChunkIdsApart
  <2>2. InPuts(<<d, i>>, d, puts)
    BY <1>4, <2>1 DEF InPuts
  <2>3. <<d, i>> \notin cut
    <3>1. SUFFICES ASSUME <<d, i>> \in LiveIds, rows[<<d, i>>].parent = d,
                          rows[<<d, i>>].index >= ChunksOf[v]
                   PROVE  FALSE
      BY <1>0 DEF StaleTail
    <3>2. rows[<<d, i>>].index = i
      BY <3>1, ChunkOfDoc DEF HasChunk, StoredChunk
    <3> QED
      BY <1>0, <1>1, <1>4, <3>1, <3>2
  <2>4. IsChunk(rows'[<<d, i>>], d, v, i, run.by)
    BY <1>3, <2>1, <2>2, <2>3
  <2>5. rows'[<<d, i>>] # Absent /\ rows'[<<d, i>>].hash[1] = v /\ rows'[<<d, i>>].text = <<d, v, i>>
    BY <2>4, LiveNotAbsent DEF IsChunk
  <2> QED
    BY <2>1, <2>5 DEF HasChunk, LiveIds, Live, VersionAt, TextAt
<1>5. ASSUME NEW i \in Nat, ~(i < puts)
      PROVE  /\ HasChunk(d, i)' <=> HasChunk(d, i) /\ <<d, i>> \notin cut
             /\ HasChunk(d, i)' => /\ VersionAt(d, i)' = VersionAt(d, i)
                                   /\ TextAt(d, i)' = TextAt(d, i)
  <2>1. CASE <<d, i>> \notin Ids
    BY <2>1 DEF HasChunk, LiveIds
  <2>2. CASE <<d, i>> \in Ids
    <3>1. ~InPuts(<<d, i>>, d, puts)
      BY <1>5 DEF InPuts
    <3>2. rows'[<<d, i>>] = IF <<d, i>> \in cut THEN Absent ELSE rows[<<d, i>>]
      BY <1>3, <2>2, <3>1
    <3> QED
      BY <2>2, <3>2 DEF HasChunk, LiveIds, Live, VersionAt, TextAt
  <2> QED
    BY <2>1, <2>2
<1>6. ASSUME NEW c \in Docs \ {d}, NEW i \in Nat
      PROVE  rows'[<<c, i>>] = rows[<<c, i>>] \/ <<c, i>> \notin Ids
  <2>1. SUFFICES ASSUME <<c, i>> \in Ids PROVE rows'[<<c, i>>] = rows[<<c, i>>]
    OBVIOUS
  <2>2. ~InPuts(<<c, i>>, d, puts)
    BY DEF InPuts
  <2>3. <<c, i>> \notin cut
    <3>1. SUFFICES ASSUME <<c, i>> \in LiveIds, rows[<<c, i>>].parent = d PROVE FALSE
      BY <1>0 DEF StaleTail
    <3> QED
      BY <3>1, ChunkOfDoc DEF HasChunk, StoredChunk
  <2> QED
    BY <1>3, <2>1, <2>2, <2>3
<1>7. \A c \in Docs \ {d} : SameChunks(c)
    BY <1>6 DEF SameChunks, HasChunk, LiveIds, Live, VersionAt, TextAt
<1> QED
    BY <1>1, <1>4, <1>5, <1>7

\* A finished write of a file.
LEMMA DocStored ==
    ASSUME PlacedInv, NEW d \in Docs, NEW v \in Versions,
           Ingests(d, v, ChunksOf[v], StaleTail(d, ChunksOf[v])), settled'[d] = v
    PROVE  Sound(d)'
<1>0. ChunksOf[v] \in Nat
    BY MemoryAssumption
<1>1. ASSUME NEW i \in Nat, ~(i < ChunksOf[v]) PROVE ~HasChunk(d, i)'
  <2>1. SUFFICES ASSUME HasChunk(d, i), <<d, i>> \notin StaleTail(d, ChunksOf[v]) PROVE FALSE
    BY <1>1, DocIngested
  <2>2. rows[<<d, i>>].parent = d /\ rows[<<d, i>>].index = i
    BY <2>1, ChunkOfDoc DEF StoredChunk
  <2> QED
    BY <1>0, <1>1, <2>1, <2>2 DEF StaleTail, HasChunk
<1>2. \A i \in Nat : /\ HasChunk(d, i)' <=> i < ChunksOf[v]
                     /\ HasChunk(d, i)' => VersionAt(d, i)' = v /\ TextAt(d, i)' = <<d, v, i>>
    BY <1>1, DocIngested
<1> QED
    BY <1>0, <1>2, DocWritten

\* A killed write of a file that leaves nothing of another version behind.
LEMMA DocKilled ==
    ASSUME PlacedInv, NEW d \in Docs, Sound(d), NEW v \in Versions, NEW puts, NEW cut,
           Ingests(d, v, puts, cut), ~Leftover(d, v), settled'[d] = 0
    PROVE  Sound(d)'
<1>1. ASSUME NEW i \in Nat, HasChunk(d, i)
      PROVE  VersionAt(d, i) = v /\ HasChunk(d, 0) /\ <<d, i>> \notin cut
  <2>1. <<d, i>> \in LiveIds /\ StoredChunk(rows[<<d, i>>], d, i)
    BY <1>1, ChunkOfDoc DEF HasChunk
  <2>2. rows[<<d, i>>].hash[1] = v /\ HasChunk(d, 0)
    BY <2>1 DEF Leftover, StoredChunk, HasChunk
  <2>3. rows[<<d, i>>].index = i /\ i < ChunksOf[v] /\ ChunksOf[v] \in Nat
    BY <2>1, <2>2, MemoryAssumption DEF StoredChunk
  <2>4. cut \subseteq StaleTail(d, ChunksOf[v])
    BY DEF Ingests
  <2> QED
    BY <2>2, <2>3, <2>4 DEF StaleTail, VersionAt
<1>2. puts \in Nat
    BY DocIngested
<1>3. ASSUME NEW i \in Nat
      PROVE  /\ HasChunk(d, i)' <=> i < puts \/ HasChunk(d, i)
             /\ HasChunk(d, i)' =>
                  \/ VersionAt(d, i)' = v /\ TextAt(d, i)' = <<d, v, i>>
                  \/ /\ HasChunk(d, i) /\ VersionAt(d, i)' = VersionAt(d, i)
                     /\ TextAt(d, i)' = TextAt(d, i)
    BY <1>1, DocIngested
<1> QED
    BY <1>1, <1>2, <1>3, DocRetried

\* Rows are removed: what is left of the documents that are not spoiled by it.
LEMMA DocRemoved ==
    ASSUME FileInv, NEW ids, Deletes(ids), NEW d \in Docs, d \notin spoiled'
    PROVE  Sound(d)'
<1>0. /\ ids \subseteq LiveIds
      /\ rows' = [id \in Ids |-> IF id \in ids THEN Absent ELSE rows[id]]
      /\ settled'[d] = IF \E id \in ids : rows[id].parent = d THEN 0 ELSE settled[d]
      /\ Emptied(d, ids) \/ (d \notin spoiled /\ ~Middle(d, ids))
      /\ PlacedInv
    BY DEF Deletes, Delete, FileInv
<1>1. \A i \in Nat : /\ HasChunk(d, i)' <=> HasChunk(d, i) /\ <<d, i>> \notin ids
                     /\ HasChunk(d, i)' => /\ VersionAt(d, i)' = VersionAt(d, i)
                                           /\ TextAt(d, i)' = TextAt(d, i)
    BY <1>0 DEF HasChunk, LiveIds, Live, VersionAt, TextAt
<1>2. ASSUME NEW i \in Nat, HasChunk(d, i)
      PROVE  <<d, i>> \in LiveIds /\ rows[<<d, i>>].parent = d /\ rows[<<d, i>>].index = i
    BY <1>0, <1>2, ChunkOfDoc DEF StoredChunk, HasChunk
<1>3. CASE Emptied(d, ids)
  <2>1. settled'[d] = 0
    BY <1>0, <1>3 DEF Emptied
  <2>2. \A i \in Nat : ~HasChunk(d, i)'
    BY <1>1, <1>2, <1>3 DEF Emptied
  <2> QED
    BY <2>1, <2>2 DEF Sound, OneVersion, NoHole, Pristine, Complete
<1>4. CASE /\ ~Emptied(d, ids) /\ d \notin spoiled /\ ~Middle(d, ids)
           /\ \E id \in ids : rows[id].parent = d
  <2>1. settled'[d] = 0 /\ Sound(d)
    BY <1>0, <1>4 DEF FileInv
  <2>2. ASSUME NEW i \in Nat, NEW j \in Nat, i < j, HasChunk(d, 0)', HasChunk(d, j)', HasChunk(d, i)
        PROVE  HasChunk(d, i)'
    <3>1. HasChunk(d, 0) /\ <<d, 0>> \notin ids /\ HasChunk(d, j) /\ <<d, j>> \notin ids
      BY <1>1, <2>2
    <3>2. SUFFICES ASSUME <<d, i>> \in ids PROVE FALSE
      BY <1>1, <2>2
    <3>3. /\ rows[<<d, i>>].parent = d /\ rows[<<d, i>>].index = i
          /\ <<d, j>> \in LiveIds \ ids /\ rows[<<d, j>>].parent = d /\ rows[<<d, j>>].index = j
          /\ <<d, 0>> \in LiveIds \ ids
      BY <1>2, <2>2, <3>1
    <3>4. Middle(d, ids)
      BY <2>2, <3>2, <3>3 DEF Middle
    <3> QED
      BY <1>4, <3>4
  <2> QED
    BY <1>1, <2>1, <2>2, DocShrinks
<1>5. CASE /\ d \notin spoiled /\ ~\E id \in ids : rows[id].parent = d
  <2>1. settled'[d] = settled[d] /\ Sound(d)
    BY <1>0, <1>5 DEF FileInv
  <2>2. SameChunks(d)
    BY <1>1, <1>2, <1>5 DEF SameChunks
  <2> QED
    BY <2>1, <2>2, DocKept
<1> QED
    BY <1>0, <1>3, <1>4, <1>5

LEMMA FileStep == FileInv /\ [Next]_vars => FileInv'
<1> SUFFICES ASSUME FileInv, [Next]_vars PROVE FileInv'
    OBVIOUS
<1>0. PlacedInv /\ PlacedInv' /\ Shape /\ \A id \in Ids : Placed(id)
    BY PlacedStep DEF FileInv, PlacedInv
<1>1. /\ rows \in [Ids -> LiveRow \cup {Absent}] /\ clock \in Nat
      /\ settled \in [Docs -> Versions \cup {0}]
    BY <1>0 DEF Shape
<1>a. SUFFICES ASSUME NEW d \in Docs, d \notin spoiled' PROVE Sound(d)'
    BY <1>0 DEF FileInv
<1>b. d \notin spoiled => Sound(d)
    BY DEF FileInv
<1>c. ASSUME d \notin spoiled, settled'[d] = settled[d],
             \A i \in Nat : <<d, i>> \in Ids =>
                \/ rows'[<<d, i>>] = rows[<<d, i>>]
                \/ /\ rows[<<d, i>>] # Absent /\ rows'[<<d, i>>] # Absent
                   /\ rows'[<<d, i>>].hash = rows[<<d, i>>].hash
                   /\ rows'[<<d, i>>].text = rows[<<d, i>>].text
      PROVE  Sound(d)'
  <2>1. SameChunks(d)
    BY <1>c DEF SameChunks, HasChunk, LiveIds, Live, VersionAt, TextAt
  <2> QED
    BY <1>b, <1>c, <2>1, DocKept
<1>d. ASSUME UNCHANGED <<rows, settled, spoiled>> PROVE Sound(d)'
    BY <1>a, <1>c, <1>d
<1>2. ASSUME NEW target, NEW r, rows' = [rows EXCEPT ![target] = r],
             \A i \in Nat : <<d, i>> # target, d \notin spoiled, UNCHANGED settled
      PROVE  Sound(d)'
    BY <1>1, <1>2, <1>c
<1>3. ASSUME NEW e \in Embedders, NEW m \in Memories, NEW ttl \in TTLs, Remember(e, m, ttl)
      PROVE  Sound(d)'
  <2>1. PICK target \in Ids, deduped \in BOOLEAN, drift \in Drifts, r \in LiveRow :
           Remembers(e, m, ttl, target, deduped, drift, r)
    BY <1>0, <1>3, RememberStep
  <2>2. /\ rows' = [rows EXCEPT ![target] = r] /\ UNCHANGED settled
        /\ spoiled' = spoiled \cup ({r.parent} \ {NoDoc})
    BY <2>1 DEF Remembers
  <2>3. d \notin spoiled /\ r.parent # d
    BY <1>a, <2>2, MemoryAssumption
  <2>4. \A i \in Nat : <<d, i>> # target
    <3>1. CASE target \in MemoryIds
      BY <3>1, MemoryAssumption DEF MemoryIds
    <3>2. CASE target \in ChunkIds /\ StoredChunk(r, target[1], target[2])
      BY <2>3, <3>2 DEF StoredChunk
    <3> QED
      BY <1>0, <2>1, <3>1, <3>2, RememberedPlace
  <2> QED
    BY <1>2, <2>2, <2>3, <2>4
<1>4. ASSUME NEW e \in Embedders, NEW m \in Memories, RawUpsert(e, m) PROVE Sound(d)'
  <2>1. rows' = [rows EXCEPT ![<<m, 0>>] = RawRow(e)] /\ UNCHANGED <<settled, spoiled>>
    BY <1>4, Zenon DEF RawUpsert, RawRow
  <2>2. \A i \in Nat : <<d, i>> # <<m, 0>>
    BY MemoryAssumption
  <2> QED
    BY <1>2, <1>a, <2>1, <2>2
<1>5. ASSUME NEW c \in Callers, Recalling(c) PROVE Sound(d)'
  <2>0. UNCHANGED <<settled, spoiled>>
    BY <1>0, <1>5, RecallStamps
  <2>1. ASSUME NEW hits, NEW extend, extend \in TTLs, rows' = reinforce(hits, clock, extend)
        PROVE  Sound(d)'
    <3>1. ASSUME NEW i \in Nat, <<d, i>> \in Ids
          PROVE  \/ rows'[<<d, i>>] = rows[<<d, i>>]
                 \/ /\ rows[<<d, i>>] # Absent /\ rows'[<<d, i>>] # Absent
                    /\ rows'[<<d, i>>].hash = rows[<<d, i>>].hash
                    /\ rows'[<<d, i>>].text = rows[<<d, i>>].text
      BY <1>0, <1>1, <2>1, <3>1, ReinforcedRow, LiveNotAbsent DEF Live, SameRow
    <3> QED
      BY <1>a, <1>c, <2>0, <3>1
  <2> QED
    BY <1>0, <1>d, <1>5, <2>0, <2>1, RecallStamps
<1>8. CASE Deleting
    BY <1>8, <1>a, DeletingDeletes, DocRemoved
<1>9. ASSUME NEW c \in Docs \ {d}, NEW v \in Versions, NEW puts, NEW cut, Ingests(c, v, puts, cut),
             settled'[d] = settled[d], d \notin spoiled
      PROVE  Sound(d)'
    BY <1>0, <1>b, <1>9, DocIngested, DocKept
<1>12. ASSUME NEW c \in Docs, IngestFile(c) PROVE Sound(d)'
  <2>1. CASE UNCHANGED <<rows, pin, spoiled>> /\ settled' = settled
    BY <1>d, <2>1
  <2>2. CASE /\ UNCHANGED <<rows, pin, spoiled>> /\ file[c] \in Versions /\ ChunksOf[file[c]] > 0
             /\ Unchanged(c, file[c])
             /\ settled' = [settled EXCEPT ![c] = file[c]]
    <3>1. CASE c = d
      BY <1>0, <1>1, <1>a, <1>b, <2>2, <3>1, DocUnchanged
    <3>2. CASE c # d
      BY <1>1, <1>a, <1>c, <2>2, <3>2
    <3> QED
      BY <3>1, <3>2
  <2>3. ASSUME NEW v \in Versions, Ingests(c, v, ChunksOf[v], StaleTail(c, ChunksOf[v])),
               settled' = [settled EXCEPT ![c] = file[c]], spoiled' = spoiled \ {c}
        PROVE  Sound(d)'
    <3>1. file[c] = v
      BY <2>3 DEF Ingests
    <3>2. CASE c = d
      BY <1>0, <1>1, <2>3, <3>1, <3>2, DocStored
    <3>3. CASE c # d
      BY <1>1, <1>9, <1>a, <2>3, <3>3
    <3> QED
      BY <3>2, <3>3
  <2> QED
    BY <1>0, <1>12, <2>1, <2>2, <2>3, IngestFileStep
<1>13. ASSUME NEW c \in Docs, IngestKilled(c) PROVE Sound(d)'
  <2>1. PICK v \in Versions : \E puts \in 0 .. ChunksOf[v], cut \in SUBSET StaleTail(c, ChunksOf[v]) :
           /\ Ingests(c, v, puts, cut)
           /\ spoiled' = IF Leftover(c, v) THEN spoiled \cup {c} ELSE spoiled
    BY <1>0, <1>13, IngestKilledStep
  <2>2. PICK puts, cut : Ingests(c, v, puts, cut)
    BY <2>1
  <2>3. settled' = [settled EXCEPT ![c] = 0] /\ d \notin spoiled /\ (c = d => ~Leftover(c, v))
    BY <1>0, <1>13, <1>a, <2>1, IngestKilledStep
  <2>4. CASE c = d
    BY <1>0, <1>1, <1>b, <2>2, <2>3, <2>4, DocKilled
  <2>5. CASE c # d
    BY <1>1, <1>9, <2>2, <2>3, <2>5
  <2> QED
    BY <2>4, <2>5
<1>14. CASE Waiting \/ Elsewhere
    BY <1>d, <1>14, RecallWaits, ElsewhereStep DEF Waiting
<1>17. CASE UNCHANGED vars
    BY <1>d, <1>17 DEF vars
<1> QED
    BY <1>3, <1>4, <1>5, <1>8, <1>12, <1>13, <1>14, <1>17
       DEF Next, Recalling, Deleting, Waiting, Elsewhere

\* A document that an ingest settled is exactly the chunks of its version.
LEMMA CompleteIsFile == FileInv => IngestedIsFile
<1> SUFFICES ASSUME FileInv, NEW d \in Docs, settled[d] # 0, d \notin spoiled
             PROVE  {<<rows[id].text, rows[id].index>> : id \in {i \in LiveIds : rows[i].parent = d}}
                      = {<<<<d, settled[d], i>>, i>> : i \in 0 .. ChunksOf[settled[d]] - 1}
    BY DEF IngestedIsFile
<1> DEFINE v == settled[d]
<1>0. /\ PlacedInv /\ v \in Versions /\ Complete(d) /\ Pristine(d)
      /\ \A id \in Ids : Placed(id)
    BY DEF FileInv, Sound, PlacedInv, Shape
<1>1. ASSUME NEW id \in LiveIds, rows[id].parent = d
      PROVE  \E i \in 0 .. ChunksOf[v] - 1 : <<rows[id].text, rows[id].index>> = <<<<d, v, i>>, i>>
  <2>1. id = <<d, id[2]>> /\ id[2] \in Nat /\ StoredChunk(rows[id], d, id[2])
    BY <1>0, <1>1, RowOfDoc DEF LiveIds
  <2>2. rows[id].hash[1] = v /\ rows[id].text = <<d, rows[id].hash[1], id[2]>>
    BY <1>0, <2>1 DEF Complete, Pristine, HasChunk, VersionAt, TextAt
  <2>3. id[2] < ChunksOf[v] /\ rows[id].text = <<d, v, id[2]>> /\ rows[id].index = id[2]
    BY <2>1, <2>2 DEF StoredChunk
  <2>4. id[2] \in 0 .. ChunksOf[v] - 1
    BY <1>0, <2>1, <2>3, MemoryAssumption
  <2> QED
    BY <2>3, <2>4
<1>2. ASSUME NEW i \in 0 .. ChunksOf[v] - 1
      PROVE  \E id \in LiveIds : /\ rows[id].parent = d
                                 /\ <<rows[id].text, rows[id].index>> = <<<<d, v, i>>, i>>
  <2>1. i \in Nat /\ HasChunk(d, i) /\ VersionAt(d, i) = v /\ TextAt(d, i) = <<d, v, i>>
    BY <1>0 DEF Complete, Pristine
  <2>2. StoredChunk(rows[<<d, i>>], d, i)
    BY <1>0, <2>1, ChunkOfDoc
  <2> QED
    BY <2>1, <2>2 DEF StoredChunk, TextAt, HasChunk
<1> DEFINE Stored == {<<rows[id].text, rows[id].index>> : id \in {i \in LiveIds : rows[i].parent = d}}
           Chunks == {<<<<d, v, i>>, i>> : i \in 0 .. ChunksOf[v] - 1}
<1> HIDE DEF v
<1>3. ASSUME NEW x \in Stored PROVE x \in Chunks
  <2>1. PICK id \in LiveIds : rows[id].parent = d /\ x = <<rows[id].text, rows[id].index>>
    BY <1>3
  <2>2. PICK i \in 0 .. ChunksOf[v] - 1 : <<rows[id].text, rows[id].index>> = <<<<d, v, i>>, i>>
    BY <1>1, <2>1
  <2> QED
    BY <2>1, <2>2, Zenon
<1>4. ASSUME NEW x \in Chunks PROVE x \in Stored
  <2>1. PICK i \in 0 .. ChunksOf[v] - 1 : x = <<<<d, v, i>>, i>>
    BY <1>4
  <2>2. PICK id \in LiveIds : /\ rows[id].parent = d
                              /\ <<rows[id].text, rows[id].index>> = <<<<d, v, i>>, i>>
    BY <1>2, <2>1
  <2> QED
    BY <2>1, <2>2, Zenon
<1>5. Stored = Chunks
    BY <1>3, <1>4, Zenon
<1> QED
    BY <1>5, Zenon DEF v

\* What an ingest reports is so, for any files, chunkings and histories: after
\* "ingested" or "unchanged" the rows of the document are the chunks of the
\* file, all of them and nothing else, unless the document was spoiled since it
\* was last written whole: by a write killed among rows of another version, a
\* forget or a killed prune that left a hole behind the first chunk, or a memory
\* merged into a chunk (run in cli/ingest.rs, remember_chunked_with in
\* memory.rs).
THEOREM IngestReportsAreTrue == Spec => []IngestedIsFile
<1>1. Init => FileInv
  <2>1. Init => \A id \in Ids : ~Live(id)
    BY DEF Init, Live
  <2>2. Init => \A id \in Ids : Placed(id)
    BY <2>1 DEF Placed
  <2>3. ASSUME Init, NEW d \in Docs PROVE Sound(d)
    <3>1. \A i \in Nat : ~HasChunk(d, i)
      BY <2>1, <2>3 DEF HasChunk, LiveIds
    <3>2. settled[d] = 0
      BY <2>3 DEF Init
    <3> QED
      BY <3>1, <3>2, DocEmpty
  <2> QED
    BY <2>2, <2>3, ShapeInit DEF FileInv, PlacedInv
<1>2. FileInv /\ [Next]_vars => FileInv'
    BY FileStep
<1>3. FileInv => IngestedIsFile
    BY CompleteIsFile
<1> QED
    BY <1>1, <1>2, <1>3, PTL DEF Spec

=============================================================================
