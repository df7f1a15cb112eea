---------------------------- MODULE ClusterStore ----------------------------
(***************************************************************************)
(* Cooperating writers over one object store (Config::cluster): each opens *)
(* the shared store into RAM with a compare-and-swap token per object, and *)
(* commits a batch as three conditional puts, segment, log and manifest.   *)
(* The lease only decides who may begin a batch (Store::check_writable): a *)
(* holder that stalled past the TTL is superseded at any moment and then   *)
(* finishes the batch it had begun.  ClusterLease models the lease itself. *)
(*                                                                         *)
(* A batch is one record with one vector, known by its stamp.  A token is  *)
(* kept as the fact it stands for: <<i, o>> \in fresh says that object o   *)
(* has not been written since instance i last read or wrote it.            *)
(***************************************************************************)
EXTENDS Naturals, Sequences, FiniteSets

CONSTANTS
    Instances,        \* the cooperating processes
    MaxOpens,         \* bound: opens in a behaviour
    MaxBatches,       \* bound: batches begun in a behaviour
    MaxSeg,           \* bound: seg-1 .. seg-MaxSeg can be created
    SegmentMaxRows,   \* Config::segment_max_rows; 0 is None
    Unmade,           \* the store starts without a manifest
    Retries           \* whether a conditional put that landed may be sent again

ASSUME ClusterStoreAssumption ==
    /\ MaxOpens \in Nat /\ MaxBatches \in Nat /\ MaxSeg \in Nat /\ SegmentMaxRows \in Nat
    /\ Unmade \in BOOLEAN /\ Retries \in BOOLEAN

VARIABLES
    segs,      \* the segment objects: 0 is `data`, k is seg-k
    log,       \* the log object
    manifest,  \* the manifest object, or NoManifest
    fresh,     \* the tokens that are still the objects'
    owner,     \* the instance the lease names, or NoOwner
    w,         \* per instance: the store it has in RAM and its place in a call
    acked,     \* stamps of the batches reported committed
    opens,     \* opens so far
    batches    \* batches begun so far

vars == <<segs, log, manifest, fresh, owner, w, acked, opens, batches>>

SegName == 0..MaxSeg

\* The objects a token can be for.
Seg(n) == <<"seg", n>>
Log == <<"log", 0>>
Man == <<"manifest", 0>>
NoOwner == "none"
NoManifest == [names |-> <<>>, next_id |-> 0, version |-> 0]

\* Manifest::fresh.
FreshManifest == [names |-> <<0>>, next_id |-> 1, version |-> 1]

\* A process without a store: `seen` is the manifest it loaded, `rows` the
\* content of each segment it opened, `log` its log buffer.
Out == [pc |-> "out", seen |-> NoManifest, rows |-> <<>>, log |-> <<>>, stamp |-> 0]

-----------------------------------------------------------------------------
(* Rows over a list of segments *)

Names(i) == w[i].seen.names
Active(i) == Names(i)[Len(Names(i))]
ActiveRows(i) == w[i].rows[Len(w[i].rows)]
WithActive(i, rows) == [w[i].rows EXCEPT ![Len(w[i].rows)] = rows]

\* Rows of the segments before the last, given the contents in order.
Before(contents) ==
    Cardinality(UNION {{k} \X DOMAIN contents[k] : k \in 1..(Len(contents) - 1)})

Total(contents) == Before(contents) + Len(contents[Len(contents)])

\* Segments::row over segment contents in order.
RowOf(contents, r) ==
    LET start(k) == Cardinality(UNION {{j} \X DOMAIN contents[j] : j \in 1..(k - 1)})
        k == CHOOSE n \in DOMAIN contents : start(n) <= r /\ r < start(n) + Len(contents[n])
    IN contents[k][r - start(k) + 1]

-----------------------------------------------------------------------------
(* Requests to the object store *)

Token(i, o) == fresh' = fresh \cup {<<i, o>>}
Stale(i, o) == <<i, o>> \notin fresh
WithoutTokens(o) == {x \in fresh : x[2] # o}

\* put_cas that landed and said so; a replay of a put that landed is Stale.
Landed(i, o) == ~Stale(i, o) /\ fresh' = WithoutTokens(o) \cup {<<i, o>>}
LandedUnseen(i, o) == Retries /\ ~Stale(i, o) /\ fresh' = WithoutTokens(o)

Step(i, r) == w' = [w EXCEPT ![i] = r]
Goto(i, pc) == Step(i, [w[i] EXCEPT !.pc = pc])

-----------------------------------------------------------------------------
(* Store::open_with *)

\* The lease is claimed: it was free, or its holder went silent for a TTL.
Acquire(i) ==
    /\ w[i].pc = "out" /\ opens < MaxOpens
    /\ opens' = opens + 1
    /\ owner' = i
    /\ Goto(i, "manifest")
    /\ UNCHANGED <<segs, log, manifest, fresh, acked, batches>>

LoadManifest(i) ==
    /\ w[i].pc = "manifest"
    /\ Step(i, [w[i] EXCEPT !.pc = "segments",
                   !.seen = IF manifest = NoManifest THEN FreshManifest ELSE manifest,
                   !.stamp = IF manifest = NoManifest THEN 1 ELSE 0])
    /\ UNCHANGED <<segs, log, manifest, fresh, owner, acked, opens, batches>>

\* Segments::open: each segment in turn, with its token.
LoadSegment(i) ==
    /\ w[i].pc = "segments"
    /\ LET k == Len(w[i].rows) + 1
           n == Names(i)[k]
       IN /\ Token(i, Seg(n))
          /\ Step(i, [w[i] EXCEPT !.rows = Append(@, segs[n]),
                         !.pc = IF k < Len(Names(i)) THEN "segments"
                                ELSE IF w[i].stamp = 1 THEN "create" ELSE "token"])
    /\ UNCHANGED <<segs, log, manifest, owner, acked, opens, batches>>

\* No manifest was found: one is written, unconditionally.
CreateManifest(i) ==
    /\ w[i].pc = "create"
    /\ manifest' = FreshManifest
    /\ fresh' = WithoutTokens(Man)
    /\ Goto(i, "token")
    /\ UNCHANGED <<segs, log, owner, acked, opens, batches>>

\* The manifest's token is read after the manifest it is to guard.
ReadToken(i) ==
    /\ w[i].pc = "token"
    /\ Token(i, Man)
    /\ Goto(i, "log")
    /\ UNCHANGED <<segs, log, manifest, owner, acked, opens, batches>>

LoadLog(i) ==
    /\ w[i].pc = "log"
    /\ Token(i, Log)
    /\ Step(i, [w[i] EXCEPT !.pc = "open", !.log = log, !.stamp = 0])
    /\ UNCHANGED <<segs, log, manifest, owner, acked, opens, batches>>

-----------------------------------------------------------------------------
(* A batch: upsert under PerBatch *)

NeedsSeal(i) == SegmentMaxRows > 0 /\ Len(ActiveRows(i)) >= SegmentMaxRows

\* check_writable: the lease must still name this instance.
Begin(i) ==
    /\ w[i].pc = "open" /\ owner = i /\ batches < MaxBatches
    /\ NeedsSeal(i) => w[i].seen.next_id <= MaxSeg
    /\ batches' = batches + 1
    /\ Step(i, [w[i] EXCEPT !.stamp = batches + 1, !.pc = IF NeedsSeal(i) THEN "seal" ELSE "data"])
    /\ UNCHANGED <<segs, log, manifest, fresh, owner, acked, opens>>

\* The call returned Err; the store stays open.
Fail(i, o) ==
    /\ Stale(i, o) /\ UNCHANGED fresh
    /\ Goto(i, "open")

\* Segments::seal opens seg-<next_id>, with whatever it holds, and syncs it.
SealOpen(i) ==
    /\ w[i].pc = "seal"
    /\ LET n == w[i].seen.next_id IN
       /\ Token(i, Seg(n))
       /\ Step(i, [w[i] EXCEPT !.pc = "sealsync", !.rows = Append(@, segs[n])])
    /\ UNCHANGED <<segs, log, manifest, owner, acked, opens, batches>>

SealSync(i) ==
    /\ w[i].pc = "sealsync"
    /\ LET n == w[i].seen.next_id
           m == w[i].seen
           unsealed == SubSeq(w[i].rows, 1, Len(w[i].rows) - 1)
       IN \/ /\ Landed(i, Seg(n))
             /\ segs' = [segs EXCEPT ![n] = ActiveRows(i)]
             /\ Step(i, [w[i] EXCEPT !.pc = "sealpublish",
                            !.seen = [names |-> Append(m.names, n), next_id |-> n + 1,
                                      version |-> m.version + 1]])
          \/ /\ LandedUnseen(i, Seg(n))
             /\ segs' = [segs EXCEPT ![n] = ActiveRows(i)]
             /\ Step(i, [w[i] EXCEPT !.pc = "open", !.rows = unsealed])
          \/ /\ Stale(i, Seg(n)) /\ UNCHANGED <<fresh, segs>>
             /\ Step(i, [w[i] EXCEPT !.pc = "open", !.rows = unsealed])
    /\ UNCHANGED <<log, manifest, owner, acked, opens, batches>>

\* Mutant: a plain put.
PublishPlainly(i, m, pc) ==
    /\ fresh' = WithoutTokens(Man) \cup {<<i, Man>>}
    /\ manifest' = m
    /\ Step(i, [w[i] EXCEPT !.pc = pc, !.seen = m])

\* persist_manifest that returned Ok, and that returned Err: what the store in
\* RAM has become stays, published or not.
Publish(i, m, pc) ==
    /\ Landed(i, Man)
    /\ manifest' = m
    /\ Step(i, [w[i] EXCEPT !.pc = pc, !.seen = m])

PublishFails(i, m) ==
    /\ \/ LandedUnseen(i, Man) /\ manifest' = m
       \/ Stale(i, Man) /\ UNCHANGED <<fresh, manifest>>
    /\ Step(i, [w[i] EXCEPT !.pc = "open", !.seen = m])

SealPublish(i) ==
    /\ w[i].pc = "sealpublish"
    /\ Publish(i, w[i].seen, "data") \/ PublishFails(i, w[i].seen)
    /\ UNCHANGED <<segs, log, owner, acked, opens, batches>>

\* Mutant: the segment is put without its token.
PutDataPlainly(i) ==
    /\ w[i].pc = "data"
    /\ LET rows == Append(ActiveRows(i), w[i].stamp) IN
       /\ fresh' = WithoutTokens(Seg(Active(i))) \cup {<<i, Seg(Active(i))>>}
       /\ segs' = [segs EXCEPT ![Active(i)] = rows]
       /\ Step(i, [w[i] EXCEPT !.rows = WithActive(i, rows), !.pc = "put"])
    /\ UNCHANGED <<log, manifest, owner, acked, opens, batches>>

\* The active segment goes up whole; when the put is refused the buffer is
\* truncated back to the mark.
PutData(i) ==
    /\ w[i].pc = "data"
    /\ LET rows == Append(ActiveRows(i), w[i].stamp) IN
       \/ /\ Landed(i, Seg(Active(i)))
          /\ segs' = [segs EXCEPT ![Active(i)] = rows]
          /\ Step(i, [w[i] EXCEPT !.rows = WithActive(i, rows), !.pc = "put"])
       \/ /\ LandedUnseen(i, Seg(Active(i)))
          /\ segs' = [segs EXCEPT ![Active(i)] = rows]
          /\ Goto(i, "open")
       \/ Fail(i, Seg(Active(i))) /\ UNCHANGED segs
    /\ UNCHANGED <<log, manifest, owner, acked, opens, batches>>

\* The RAM store without the batch's row: upsert's rollback.
RolledBack(i) ==
    [w[i] EXCEPT !.pc = "open",
        !.rows = WithActive(i, SubSeq(ActiveRows(i), 1, Len(ActiveRows(i)) - 1))]

\* Mutant: the log is put without its token.
PutLogPlainly(i) ==
    /\ w[i].pc = "put"
    /\ LET l == Append(w[i].log, [row |-> Total(w[i].rows) - 1, stamp |-> w[i].stamp]) IN
       /\ fresh' = WithoutTokens(Log) \cup {<<i, Log>>}
       /\ log' = l
       /\ Step(i, [w[i] EXCEPT !.log = l, !.pc = "publish"])
    /\ UNCHANGED <<segs, manifest, owner, acked, opens, batches>>

\* The log goes up whole, with the batch's record; when the put is refused
\* both buffers are rolled back, in RAM.
PutLog(i) ==
    /\ w[i].pc = "put"
    /\ LET l == Append(w[i].log, [row |-> Total(w[i].rows) - 1, stamp |-> w[i].stamp]) IN
       \/ /\ Landed(i, Log)
          /\ log' = l
          /\ Step(i, [w[i] EXCEPT !.log = l, !.pc = "publish"])
       \/ LandedUnseen(i, Log) /\ log' = l /\ Step(i, RolledBack(i))
       \/ Stale(i, Log) /\ UNCHANGED <<fresh, log>> /\ Step(i, RolledBack(i))
    /\ UNCHANGED <<segs, manifest, owner, acked, opens, batches>>

\* note_commit_point; the batch is reported committed when it lands.
NoteCommitPoint(i) ==
    /\ w[i].pc = "publish"
    /\ LET m == [w[i].seen EXCEPT !.version = @ + 1] IN
       \/ Publish(i, m, "open") /\ acked' = acked \cup {w[i].stamp}
       \/ PublishFails(i, m) /\ UNCHANGED acked
    /\ UNCHANGED <<segs, log, owner, opens, batches>>

\* The process dies, or is replaced after it was fenced.
Crash(i) ==
    /\ w[i].pc # "out"
    /\ Step(i, Out)
    /\ fresh' = {x \in fresh : x[1] # i}
    /\ UNCHANGED <<segs, log, manifest, owner, acked, opens, batches>>

Init ==
    /\ segs = [n \in SegName |-> <<>>]
    /\ log = <<>>
    /\ manifest = IF Unmade THEN NoManifest ELSE FreshManifest
    /\ fresh = {}
    /\ owner = NoOwner
    /\ w = [i \in Instances |-> Out]
    /\ acked = {} /\ opens = 0 /\ batches = 0

Next ==
    \E i \in Instances :
        \/ Acquire(i) \/ LoadManifest(i) \/ LoadSegment(i) \/ CreateManifest(i)
        \/ ReadToken(i) \/ LoadLog(i)
        \/ Begin(i) \/ SealOpen(i) \/ SealSync(i) \/ SealPublish(i)
        \/ PutData(i) \/ PutLog(i) \/ NoteCommitPoint(i)
        \/ Crash(i)

Spec == Init /\ [][Next]_vars

-----------------------------------------------------------------------------
(* Properties *)

Record == [row : Nat, stamp : Nat]
ManifestType == [names : Seq(SegName), next_id : Nat, version : Nat]

\* The shape of the objects and of each instance's store.
TypeOK ==
    /\ segs \in [SegName -> Seq(Nat)]
    /\ log \in Seq(Record)
    /\ manifest \in ManifestType
    /\ fresh \subseteq Instances \X ({Seg(n) : n \in SegName} \cup {Log, Man})
    /\ owner \in Instances \cup {NoOwner}
    /\ \A i \in Instances :
          /\ w[i].seen \in ManifestType /\ w[i].rows \in Seq(Seq(Nat))
          /\ w[i].log \in Seq(Record) /\ w[i].stamp \in 0..MaxBatches
    /\ acked \subseteq 1..batches

\* The segments an open would find now, in order.
Published == [k \in DOMAIN manifest.names |-> segs[manifest.names[k]]]

\* A record of the log an open would replay: its row is in the segments.
Replayed(k) == log[k].row < Total(Published)

\* A batch reported committed is found by every later open, whichever instance
\* was superseded in the middle of which batch.
AckedKept ==
    \A s \in acked : \E k \in DOMAIN log : log[k].stamp = s /\ Replayed(k)

\* No superseded writer puts another batch's row under a record: every
\* replayed record's row holds the vector its batch wrote.
OwnRow ==
    \A k \in DOMAIN log : Replayed(k) => RowOf(Published, log[k].row) = log[k].stamp

\* The commit counter readers poll never goes back.
CommitCounter == [][manifest'.version >= manifest.version]_vars

\* Once in the log a record stays where it is: no writer, superseded, retried
\* or restarted, overwrites a log it has not seen.
LogOnlyGrows ==
    [][Len(log) <= Len(log') /\ \A k \in DOMAIN log : log'[k] = log[k]]_vars

\* Every commit advances the manifest version, so a reader that polls it sees
\* the batch.
CommitAdvances ==
    [][acked' # acked => manifest'.version > manifest.version]_vars

=============================================================================
