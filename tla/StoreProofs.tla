----------------------------- MODULE StoreProofs -----------------------------
(***************************************************************************)
(* Theorems about the store's writer, for every value of the constants:    *)
(* any number of docs, any batch size, any backend, any set of failing     *)
(* backend calls, and crashes anywhere.                                    *)
(***************************************************************************)
EXTENDS Store, FiniteSetTheorems, SequenceTheorems, TLAPS

(* The version a reader polls *)

\* The writer's version is never behind the manifest it publishes from.
VersionInv ==
    /\ version \in Nat
    /\ manifest.version \in Nat
    /\ up => manifest.version <= version

LEMMA VersionInit == Init => VersionInv
BY DEF Init, VersionInv, Manifest

\* One step of the writer: the version only moves up, and so does the manifest.
LEMMA VersionStep ==
    VersionInv /\ [Next]_vars => VersionInv' /\ manifest'.version >= manifest.version
<1> SUFFICES ASSUME VersionInv, [Next]_vars
             PROVE  VersionInv' /\ manifest'.version >= manifest.version
    OBVIOUS
<1> USE DEF VersionInv
<1>1. CASE \E b \in Batches, defer \in Deferring : UpsertBegin(b, defer)
    BY <1>1 DEF UpsertBegin, disk, ram
<1>2. CASE SealSkip
    BY <1>2 DEF SealSkip, disk, ram
<1>3. CASE Seal
    BY <1>3 DEF Seal, Manifest, NextVersion
<1>4. CASE UpsertData
    BY <1>4 DEF UpsertData, ram
<1>5. CASE UpsertSyncData
    BY <1>5 DEF UpsertSyncData, ram
<1>6. CASE UpsertLog
    BY <1>6 DEF UpsertLog, ram
<1>7. CASE UpsertSyncLog
    BY <1>7 DEF UpsertSyncLog
<1>8. CASE BarrierData
    BY <1>8 DEF BarrierData, ram
<1>9. CASE BarrierLog
    BY <1>9 DEF BarrierLog, ram
<1>10. CASE NoteCommitPoint
    BY <1>10 DEF NoteCommitPoint, Manifest, NextVersion
<1>11. CASE \E S \in SUBSET Docs, defer \in Deferring, kind \in {"delete", "sweep"} :
               DeleteBegin(kind, S, defer)
    BY <1>11 DEF DeleteBegin, disk, ram
<1>12. CASE \E d \in Docs, defer \in Deferring : Reinforce(d, defer)
    BY <1>12 DEF Reinforce
<1>13. CASE DeleteLog
    BY <1>13 DEF DeleteLog
<1>14. CASE SweepLog
    BY <1>14 DEF SweepLog, ram
<1>15. CASE SweepDeferred
    BY <1>15 DEF SweepDeferred, disk
<1>16. CASE Commit
    BY <1>16 DEF Commit, disk, ram
<1>17. CASE Flush
    BY <1>17 DEF Flush, disk, ram
<1>18. CASE Compact
    BY <1>18 DEF Compact, disk, ram
<1>19. CASE CompactData
  <2>1. version' = version + 1 \/ version' = version
    BY <1>19, Zenon DEF CompactData, NextVersion
  <2>2. UNCHANGED <<manifest, up>>
    BY <1>19, Zenon DEF CompactData
  <2> QED
    BY <2>1, <2>2
<1>20. CASE CompactLog
    BY <1>20 DEF CompactLog, ram
<1>21. CASE CompactPublish
    BY <1>21 DEF CompactPublish, Manifest
<1>22. CASE Crash
    BY <1>22 DEF Crash
<1>23. CASE Open
    BY <1>23 DEF Open, disk
<1>24. CASE SealFails
    BY <1>24 DEF SealFails, ram
<1>25. CASE UNCHANGED vars
    BY <1>25 DEF vars, disk, ram
<1> QED
    BY <1>1, <1>2, <1>3, <1>4, <1>5, <1>6, <1>7, <1>8, <1>9, <1>10, <1>11, <1>12,
       <1>13, <1>14, <1>15, <1>16, <1>17, <1>18, <1>19, <1>20, <1>21, <1>22, <1>23,
       <1>24, <1>25 DEF Next

\* The version in the manifest never goes back, whatever fails and wherever
\* the process dies (note_commit_point, maybe_seal, compact, open_with).
THEOREM VersionNeverBack == Spec => VersionMonotone
<1>1. Init => VersionInv
    BY VersionInit
<1>2. VersionInv /\ [Next]_vars => VersionInv'
    BY VersionStep
<1>3. VersionInv /\ [Next]_vars => [manifest'.version >= manifest.version]_vars
    BY VersionStep
<1> QED
    BY <1>1, <1>2, <1>3, PTL DEF Spec, VersionMonotone

-----------------------------------------------------------------------------
(***************************************************************************)
(* What is proved of recovery, and of which configurations                 *)
(***************************************************************************)

\* Every batch takes its own barrier: data, then log, before it returns.
Barriers == Fsync = "PerBatch" /\ Deferring \subseteq {FALSE}

\* A whole-object backend over the one segment of the default configuration.
OneObject == Durability = "object" /\ SegmentMaxRows = 0 /\ "reinforce" \notin Calls

\* The configurations in which a crash is survived.  Each of the others has a
\* counterexample: a crash or a failed rewrite inside compact, a failed publish
\* of a changed segment set, a failed append or sync before a power cut, a
\* deferred batch before one, a deferred object batch followed by a seal or by
\* reinforce.
Recoverable ==
    /\ ~CompactCrash /\ "rewrite" \notin Faults
    /\ "publish" \in Faults => SegmentMaxRows = 0 /\ "compact" \notin Calls
    /\ \/ Durability = "kill"
       \/ Barriers /\ Faults \cap {"append", "sync"} = {}
       \/ OneObject /\ "sync" \notin Faults

-----------------------------------------------------------------------------
(* The inductive invariant *)

Record == [kind : {"upsert", "delete", "reinforce"}, id : Docs, rows : SUBSET Nat,
           stamp : Nat, acc : Nat]
Indexed == [rows : SUBSET Nat, stamp : Nat, acc : Nat]
StagedRecord == [id : Docs, rows : SUBSET Nat, stamp : Nat]
Plan == [docs : [Docs -> Indexed], log : Seq(Record), dropped : SUBSET SegName]
Pcs == {"idle", "seal", "data", "dsync", "log", "lsync", "bdata", "blog", "publish",
        "dlog", "slog", "sweep", "crows", "clog", "cpublish"}
Kinds == {"none", "upsert", "delete", "sweep", "reinforce", "commit", "flush", "compact"}

Progress == [pc : Pcs, kind : Kinds, batch : Seq([id : Docs, vecs : Nat]),
             staged : Seq(StagedRecord), dmark : Nat, lmark : Nat, barrier : BOOLEAN,
             first : Nat, i : Nat, plan : Plan]
OpShape == op \in Progress

Shape ==
    /\ files \in [SegName -> [cur : Seq(Nat), poss : SUBSET Seq(Nat)]]
    /\ log \in [cur : Seq(Record), poss : SUBSET Seq(Record)]
    /\ manifest \in [segments : Seq(SegName), next_id : Nat, version : Nat]
    /\ up \in BOOLEAN /\ pending_barrier \in BOOLEAN
    /\ segments \in Seq(SegName) /\ base \in Seq(Nat)
    /\ next_id \in Nat /\ version \in Nat
    /\ docs \in [Docs -> Indexed]
    /\ stamps \in Nat
    /\ allowed \in [Docs -> SUBSET Nat] /\ ahead \subseteq Docs
    /\ OpShape

\* Which calls are at which steps.
StepInv ==
    /\ op.pc \in {"data", "dsync", "log", "lsync"} => op.kind = "upsert"
    /\ op.pc = "seal" => op.kind \in {"upsert", "flush"}
    /\ op.pc = "dlog" => op.kind = "delete"
    /\ op.pc \in {"slog", "sweep"} => op.kind = "sweep"
    /\ op.pc \in {"bdata", "blog"} => op.kind \in {"delete", "sweep", "commit", "flush"}
    /\ op.pc = "publish" => op.kind \in {"upsert", "delete", "sweep", "commit", "flush", "reinforce"}
    /\ op.pc \in {"crows", "clog", "cpublish"} <=> op.kind = "compact"
    /\ op.pc = "idle" <=> op.kind = "none"
    /\ op.kind = "compact" => "compact" \in Calls
    /\ ~up => op.pc = "idle"
    /\ Barriers /\ op.kind \in {"upsert", "delete", "sweep"} => op.barrier

Names == manifest.segments
Newest == Names[Len(Names)]
Starts == Bases(Names, Current)

\* compact has replaced the rows, and the manifest does not say so yet.
Rewriting == op.pc \in {"clog", "cpublish"}

\* The segment set of RAM is the published one, and no object past it has rows.
SegsInv ==
    /\ Len(Names) > 0 /\ Names[1] = BASE_SEGMENT
    /\ \A i, j \in 1..Len(Names) : Names[i] = Names[j] => i = j
    /\ \A i \in 1..Len(Names) : Names[i] < manifest.next_id
    /\ \A n \in SegName : n >= manifest.next_id => files[n] = File(<<>>)
    /\ SegmentMaxRows = 0 => Len(Names) = 1
    /\ up => next_id = manifest.next_id
    /\ up /\ ~Rewriting => segments = Names /\ base = Starts
    /\ Rewriting => segments = <<BASE_SEGMENT>> /\ base = <<0>>
    /\ op.pc = "seal" \/ op.kind = "flush" => (NeedsSeal => next_id <= MaxSeg)

\* What is certain to be on the disk: every object but the active segment, that
\* one too outside a batch's data phase, and the log once a barrier is past.
CertainInv ==
    /\ \A n \in SegName :
          \/ files[n].poss = {files[n].cur}
          \/ /\ up /\ ~Rewriting /\ n = Newest
             /\ Durability # "kill"
             /\ op.pc \in {"data", "dsync"} \/ OneObject
    /\ op.pc = "blog" \/ (op.pc \in {"log", "lsync"} /\ op.barrier)
          => files[Newest].poss = {files[Newest].cur}
    /\ Durability = "kill" \/ ~up \/ op.pc = "publish" => log.poss = {log.cur}
    /\ Durability # "object" => log.cur \in log.poss

\* Row r of the matrix is there and holds the vector of stamp s.
At(names, b, c, r, s) ==
    \E i \in DOMAIN names : Holds(names, b, c, i, r) /\ c[names[i]][r - b[i] + 1] = s

\* Every row of every record of l is there when the segments hold c.
Backed(l, names, c) ==
    \A k \in DOMAIN l : \A r \in l[k].rows : At(names, Bases(names, c), c, r, l[k].stamp)

\* The rows of a store whose segments hold c.
Total(names, c) == Rows(names, Bases(names, c), c)

\* The segments with content t in the active one, as a crash may leave them.
With(t) == [Current EXCEPT ![Newest] = t]
Held(l, t) == Backed(l, Names, With(t))

\* No record is ever without its rows, whatever a crash leaves.
RowsInv ==
    ~Rewriting =>
        /\ \A l \in log.poss : \A t \in files[Newest].poss \cup {files[Newest].cur} : Held(l, t)
        /\ Held(log.cur, files[Newest].cur)

Batching == op.pc \in {"data", "dsync", "log", "lsync"}

Below(l, m) == \A k \in DOMAIN l : \A r \in l[k].rows : r < m

\* What the call in progress will not unwind.
Unwound == IF Batching \/ op.kind = "sweep" THEN SubSeq(log.cur, 1, op.lmark) ELSE log.cur

\* A batch in progress: what its rollback goes back to is whole, and its rows
\* are where its records will say.
BatchInv ==
    Batching =>
        /\ op.lmark <= Len(log.cur)
        /\ Starts[Len(Names)] <= op.dmark /\ op.dmark <= Total(Names, Current)
        /\ Below(Unwound, op.dmark)
        /\ Durability = "object" => \A l \in log.poss : Below(l, op.dmark)
        /\ \A k \in DOMAIN op.staged : op.staged[k].stamp = op.first + k
        /\ Backed(op.staged, Names, Current)
        /\ op.i <= Len(op.staged)
        /\ Len(log.cur) = op.lmark + op.i
        /\ \A k \in 1..op.i : log.cur[op.lmark + k] =
              UpsertOp(op.staged[k].id, op.staged[k].rows, op.staged[k].stamp)
        /\ op.pc \in {"data", "dsync"} => op.i = 0
        /\ op.pc = "data" => Len(op.staged) < Len(op.batch)
        /\ op.pc \in {"dsync", "log"} => op.i < Len(op.staged)
        /\ op.pc = "lsync" => op.i = Len(op.staged)
        /\ Len(op.staged) <= Len(op.batch)

\* What a call has before its first step.
BeginInv ==
    /\ op.kind = "upsert" /\ op.pc = "seal" => op.i = 0 /\ op.staged = <<>>
    /\ op.kind = "upsert" => Len(op.batch) > 0
    /\ op.pc = "dlog" => op.i < Len(op.staged)

\* A sweep in progress: its deletions are the end of the log.
SweepInv ==
    op.kind = "sweep" =>
        /\ op.i <= Len(op.staged)
        /\ Len(log.cur) = op.lmark + op.i
        /\ \A k \in 1..op.i : log.cur[op.lmark + k] = DeleteOp(op.staged[k].id)
        /\ op.pc = "slog" => op.i < Len(op.staged)
        /\ op.pc # "slog" => op.i = Len(op.staged)

\* What a replay that skips no record makes of d.
WritesOf(l, d) == {i \in DOMAIN l : l[i].id = d /\ l[i].kind # "reinforce"}
Replayed(l, d) ==
    LET W == WritesOf(l, d)
        w == l[Latest(W)]
        R == {j \in DOMAIN l : j > Latest(W) /\ l[j].id = d /\ l[j].kind = "reinforce"}
    IN  IF W = {} \/ w.kind = "delete" THEN Absent
        ELSE [rows  |-> w.rows, stamp |-> w.stamp,
              acc   |-> IF R = {} THEN w.acc ELSE l[Latest(R)].acc]

\* Upserts have stamps and other records no rows.
WellFormed(l) ==
    \A k \in DOMAIN l : IF l[k].kind = "upsert" THEN l[k].stamp > 0 ELSE l[k].rows = {}

\* The index is the log without what is still to be unwound, but for the docs a
\* failed delete took out.
IndexInv ==
    /\ \A l \in log.poss \cup {log.cur} : WellFormed(l)
    /\ up /\ ~Rewriting => \A d \in Docs \ ahead : docs[d] = Replayed(Unwound, d)
    /\ up => \A d \in ahead : docs[d] = Absent
    /\ op.kind \in {"delete", "reinforce"} \/ (op.kind = "upsert" /\ op.pc = "publish") =>
          \A k \in DOMAIN op.staged : op.staged[k].id \notin ahead

\* Any log a crash may leave recovers what was promised.
PromiseInv ==
    \A l \in log.poss \cup {log.cur, Unwound} : \A d \in Docs : Replayed(l, d).stamp \in allowed[d]

\* What compact has decided on is a store of its own.
PlanInv ==
    Rewriting =>
        /\ WellFormed(op.plan.log)
        /\ Backed(op.plan.log, <<BASE_SEGMENT>>, Current)
        /\ \A d \in Docs : /\ Replayed(op.plan.log, d) = op.plan.docs[d]
                           /\ op.plan.docs[d].stamp = docs[d].stamp
        /\ BASE_SEGMENT \notin op.plan.dropped
        /\ op.pc = "cpublish" => log = File(op.plan.log) /\ \A d \in Docs : allowed[d] = {docs[d].stamp}

-----------------------------------------------------------------------------
(* Naturals *)

LEMMA LeastNat ==
    ASSUME NEW T \in SUBSET Nat, T # {}
    PROVE  \E k \in T : \A j \in T : k <= j
<1> DEFINE Upto == {0 .. k : k \in T}
<1>1. \A k \in Nat : 0 .. k \in FiniteSubsetsOf(Nat)
    BY FS_Interval DEF FiniteSubsetsOf
<1>2. Upto \subseteq FiniteSubsetsOf(Nat) /\ Upto # {}
    BY <1>1
<1>3. PICK x \in Upto : \A y \in Upto : <<y, x>> \notin StrictSubsetOrdering(Nat)
  <2>1. IsWellFoundedOn(StrictSubsetOrdering(Nat), FiniteSubsetsOf(Nat))
    BY FS_StrictSubsetOrderingWellFounded
  <2> HIDE DEF Upto
  <2> QED
    BY <1>2, <2>1, WFMin
<1>4. PICK k \in T : x = 0 .. k
    BY <1>3
<1>5. ASSUME NEW j \in T PROVE k <= j
  <2>1. SUFFICES ASSUME j < k PROVE FALSE
    OBVIOUS
  <2>2. 0 .. j \subseteq 0 .. k /\ 0 .. j # 0 .. k
    <3>1. k \in 0 .. k /\ k \notin 0 .. j
      BY <2>1
    <3> QED
      BY <2>1, <3>1
  <2>3. <<0 .. j, 0 .. k>> \in StrictSubsetOrdering(Nat)
    BY <2>2 DEF StrictSubsetOrdering
  <2> QED
    BY <1>3, <1>4, <2>3
<1> QED
    BY <1>5

LEMMA LatestIn ==
    ASSUME NEW S \in SUBSET Nat, S # {}, NEW n \in Nat, \A i \in S : i <= n
    PROVE  Latest(S) \in S /\ \A j \in S : j <= Latest(S)
<1> DEFINE T == {n - i : i \in S}
<1>1. T \in SUBSET Nat /\ T # {}
  <2>1. \A i \in S : n - i \in Nat
    OBVIOUS
  <2> QED
    BY <2>1
<1>2. PICK k \in T : \A j \in T : k <= j
    BY <1>1, LeastNat
<1>3. PICK m \in S : k = n - m
    BY <1>2
<1>4. \A j \in S : j <= m
  <2> TAKE j \in S
  <2>1. n - j \in T
    OBVIOUS
  <2>2. n - m <= n - j
    BY <1>2, <1>3, <2>1
  <2> QED
    BY <2>2
<1> QED
    BY <1>4 DEF Latest

LEMMA LatestIs ==
    ASSUME NEW S \in SUBSET Nat, NEW m \in S, \A j \in S : j <= m
    PROVE  Latest(S) = m
<1>1. \A i \in S : (\A j \in S : j <= i) => i = m
    OBVIOUS
<1> QED
    BY <1>1 DEF Latest

-----------------------------------------------------------------------------
(* The matrix: a list of segments, where each starts and what each holds *)

Matrix(names, b, c) ==
    /\ names \in Seq(SegName) /\ Len(names) > 0
    /\ b \in Seq(Nat) /\ Len(b) = Len(names)
    /\ c \in [SegName -> Seq(Nat)]

LEMMA MatrixFacts ==
    ASSUME NEW names, NEW b, NEW c, Matrix(names, b, c)
    PROVE  /\ Len(names) \in Nat /\ DOMAIN names = 1..Len(names) /\ Len(names) \in DOMAIN names
           /\ \A i \in 1..Len(names) : /\ names[i] \in SegName /\ b[i] \in Nat
                                       /\ c[names[i]] \in Seq(Nat) /\ Len(c[names[i]]) \in Nat
           /\ Rows(names, b, c) \in Nat
<1>1. Len(names) \in Nat /\ DOMAIN names = 1..Len(names) /\ Len(names) \in DOMAIN names
    BY DEF Matrix
<1>2. \A i \in 1..Len(names) : names[i] \in SegName /\ b[i] \in Nat
    BY DEF Matrix
<1>3. \A i \in 1..Len(names) : c[names[i]] \in Seq(Nat)
    BY <1>2 DEF Matrix
<1>4. \A i \in 1..Len(names) : Len(c[names[i]]) \in Nat
    BY <1>3
<1> QED
    BY <1>1, <1>2, <1>3, <1>4 DEF Rows

LEMMA RowOfAt ==
    ASSUME NEW names, NEW b, NEW c, Matrix(names, b, c),
           NEW r \in Nat, NEW s, At(names, b, c, r, s)
    PROVE  RowOf(names, b, c, r) = s /\ r < Rows(names, b, c)
<1>1. PICK i \in DOMAIN names : Holds(names, b, c, i, r) /\ c[names[i]][r - b[i] + 1] = s
    BY DEF At
<1>2. /\ DOMAIN names = 1..Len(names) /\ Len(names) \in Nat /\ Len(names) \in 1..Len(names)
      /\ \A j \in 1..Len(names) : b[j] \in Nat /\ Len(c[names[j]]) \in Nat
    BY MatrixFacts
<1>3. \A j \in DOMAIN names : Holds(names, b, c, j, r) => j = i
  <2> SUFFICES ASSUME NEW j \in DOMAIN names, Holds(names, b, c, j, r) PROVE j = i
    OBVIOUS
  <2>1. b[i] <= r /\ b[j] <= r /\ i \in 1..Len(names) /\ j \in 1..Len(names)
    BY <1>1, <1>2 DEF Holds
  <2>2. CASE i < j
    <3>1. j \in (i + 1)..Len(names)
      BY <1>2, <2>1, <2>2
    <3>2. r < b[j]
      BY <1>1, <3>1 DEF Holds
    <3> QED
      BY <1>2, <2>1, <3>2
  <2>3. CASE j < i
    <3>1. i \in (j + 1)..Len(names)
      BY <1>2, <2>1, <2>3
    <3>2. r < b[i]
      BY <3>1 DEF Holds
    <3> QED
      BY <1>2, <2>1, <3>2
  <2> QED
    BY <1>2, <2>1, <2>2, <2>3
<1>4. RowOf(names, b, c, r) = s
    BY <1>1, <1>3, Zenon DEF RowOf
<1>5. r < Rows(names, b, c)
  <2>3. CASE i = Len(names)
    BY <1>1, <2>3 DEF Holds, Rows
  <2>4. CASE i # Len(names)
    <3>1. r < b[Len(names)]
      BY <1>1, <1>2, <2>4 DEF Holds
    <3> QED
      BY <3>1, <1>2 DEF Rows
  <2> QED
    BY <2>3, <2>4
<1> QED
    BY <1>4, <1>5

\* Every segment of c is the start of the same segment of d.
Extends(names, c, d) ==
    \A i \in DOMAIN names :
        /\ Len(c[names[i]]) <= Len(d[names[i]])
        /\ \A k \in 1..Len(c[names[i]]) : d[names[i]][k] = c[names[i]][k]

LEMMA AtExtends ==
    ASSUME NEW names, NEW b, NEW c, NEW d, Matrix(names, b, c), Matrix(names, b, d),
           Extends(names, c, d), NEW r \in Nat, NEW s, At(names, b, c, r, s)
    PROVE  At(names, b, d, r, s)
<1>1. PICK i \in DOMAIN names : Holds(names, b, c, i, r) /\ c[names[i]][r - b[i] + 1] = s
    BY DEF At
<1>2. b[i] \in Nat /\ Len(c[names[i]]) \in Nat /\ Len(d[names[i]]) \in Nat
    BY MatrixFacts
<1>3. r - b[i] + 1 \in 1..Len(c[names[i]])
    BY <1>1, <1>2 DEF Holds
<1>4. Holds(names, b, d, i, r)
    BY <1>1, <1>2 DEF Holds, Extends
<1>5. d[names[i]][r - b[i] + 1] = s
    BY <1>1, <1>3 DEF Extends
<1> QED
    BY <1>4, <1>5 DEF At

\* Rows below a mark stay when the last segment is cut there.
LEMMA AtCut ==
    ASSUME NEW names, NEW b, NEW c, NEW d, Matrix(names, b, c), Matrix(names, b, d),
           \A i \in 1..(Len(names) - 1) : d[names[i]] = c[names[i]],
           NEW m \in Nat, b[Len(names)] <= m, m <= Rows(names, b, c),
           d[names[Len(names)]] = SubSeq(c[names[Len(names)]], 1, m - b[Len(names)]),
           NEW r \in Nat, r < m, NEW s, At(names, b, c, r, s)
    PROVE  At(names, b, d, r, s)
<1> DEFINE n == Len(names)
<1>1. PICK i \in DOMAIN names : Holds(names, b, c, i, r) /\ c[names[i]][r - b[i] + 1] = s
    BY DEF At
<1>2. /\ n \in Nat /\ DOMAIN names = 1..n /\ i \in 1..n
      /\ b[i] \in Nat /\ b[n] \in Nat
      /\ c[names[i]] \in Seq(Nat) /\ c[names[n]] \in Seq(Nat) /\ Len(c[names[n]]) \in Nat
    BY MatrixFacts
<1>3. CASE i = n
  <2>1. m - b[n] \in 0..Len(c[names[n]])
    BY <1>2, SMTT(30) DEF Rows
  <2>2. Len(d[names[n]]) = m - b[n]
    BY <1>2, <2>1
  <2>3. r - b[n] + 1 \in 1..(m - b[n])
    BY <1>1, <1>2, <1>3, SMTT(30) DEF Holds
  <2>4. d[names[n]][r - b[n] + 1] = c[names[n]][r - b[n] + 1]
    <3> DEFINE old == c[names[n]]
               h == m - b[n]
               k == r - b[n] + 1
    <3>1. old \in Seq(Nat) /\ h \in 0..Len(old) /\ k \in 1..h
      BY <1>2, <2>1, <2>3
    <3> HIDE DEF old, h, k
    <3>2. SubSeq(old, 1, h)[k] = old[k]
      BY <3>1
    <3> QED
      BY <3>2 DEF old, h, k
  <2>5. Holds(names, b, d, i, r)
    <3>1. b[i] <= r /\ \A j \in (i + 1)..Len(names) : r < b[j]
      BY <1>1 DEF Holds
    <3>2. r < b[n] + (m - b[n])
      BY <1>2
    <3>3. r < b[i] + Len(d[names[i]])
      BY <1>3, <2>2, <3>2
    <3> QED
      BY <3>1, <3>3 DEF Holds
  <2> QED
    BY <1>1, <1>3, <2>4, <2>5 DEF At
<1>4. CASE i # n
  <2>1. i \in 1..(n - 1)
    BY <1>2, <1>4
  <2> QED
    BY <1>1, <2>1 DEF At, Holds
<1> QED
    BY <1>3, <1>4

\* The rows appended to the last segment.
LEMMA AtAppended ==
    ASSUME NEW names, NEW b, NEW c, NEW d, Matrix(names, b, c), Matrix(names, b, d),
           NEW v \in Seq(Nat),
           d[names[Len(names)]] = c[names[Len(names)]] \o v,
           NEW k \in 1..Len(v)
    PROVE  At(names, b, d, Rows(names, b, c) + k - 1, v[k])
<1> DEFINE n == Len(names)
           old == c[names[n]]
           r == Rows(names, b, c) + k - 1
<1>1. n \in Nat /\ DOMAIN names = 1..n /\ n \in 1..n /\ b[n] \in Nat /\ old \in Seq(Nat)
    BY MatrixFacts
<1>2. Len(old) \in Nat /\ Len(v) \in Nat /\ r = b[n] + Len(old) + k - 1
    BY <1>1 DEF Rows
<1>3. Len(old \o v) = Len(old) + Len(v) /\ (old \o v)[Len(old) + k] = v[k]
    BY <1>1
<1>4. r - b[n] + 1 = Len(old) + k
    BY <1>1, <1>2
<1>5. Holds(names, b, d, n, r)
  <2>1. b[n] <= r /\ r < b[n] + Len(d[names[n]])
    BY <1>1, <1>2, <1>3, SMTT(30)
  <2>2. \A j \in (n + 1)..n : FALSE
    BY <1>1
  <2> HIDE DEF n
  <2> QED
    BY <2>1, <2>2 DEF Holds, n
<1> QED
    BY <1>1, <1>3, <1>4, <1>5 DEF At

\* A new segment starts where the rows end.
LEMMA AtSealed ==
    ASSUME NEW names, NEW b, NEW c, Matrix(names, b, c), NEW x \in SegName,
           NEW r \in Nat, NEW s, At(names, b, c, r, s)
    PROVE  At(Append(names, x), Append(b, Rows(names, b, c)), c, r, s)
<1> DEFINE n == Len(names)
           all == Append(names, x)
           starts == Append(b, Rows(names, b, c))
<1>1. PICK i \in DOMAIN names : Holds(names, b, c, i, r) /\ c[names[i]][r - b[i] + 1] = s
    BY DEF At
<1>2. r < Rows(names, b, c)
    BY RowOfAt
<1>3. /\ n \in Nat /\ DOMAIN names = 1..n /\ Len(all) = n + 1 /\ DOMAIN all = 1..(n + 1)
      /\ \A j \in 1..n : all[j] = names[j] /\ starts[j] = b[j]
      /\ starts[n + 1] = Rows(names, b, c)
    BY MatrixFacts DEF Matrix
<1>4. /\ b[i] <= r /\ r < b[i] + Len(c[names[i]])
      /\ \A j \in (i + 1)..n : r < b[j]
    BY <1>1 DEF Holds
<1> HIDE DEF n, all, starts
<1>5. i \in 1..n /\ \A j \in (i + 1)..(n + 1) : j = n + 1 \/ j \in (i + 1)..n
    BY <1>3
<1>6. \A j \in (i + 1)..(n + 1) : r < starts[j]
    BY <1>2, <1>3, <1>4, <1>5
<1>7. Holds(all, starts, c, i, r)
    BY <1>3, <1>4, <1>5, <1>6 DEF Holds
<1>8. i \in DOMAIN all /\ c[all[i]][r - starts[i] + 1] = s
    BY <1>1, <1>3, <1>5
<1>9. At(all, starts, c, r, s)
    BY <1>7, <1>8 DEF At
<1> QED
    BY <1>9 DEF all, starts

\* The rows before segment i, and their number.
Cells(names, c, i) == UNION {{j} \X (1..Len(c[names[j]])) : j \in 1..(i - 1)}

Segs(names, c) == names \in Seq(SegName) /\ c \in [SegName -> Seq(Nat)]

LEMMA SegLen ==
    ASSUME NEW names, NEW c, Segs(names, c), NEW j \in 1..Len(names)
    PROVE  names[j] \in SegName /\ c[names[j]] \in Seq(Nat) /\ Len(c[names[j]]) \in Nat
<1>1. names[j] \in SegName
    BY DEF Segs
<1>2. c[names[j]] \in Seq(Nat)
    BY <1>1 DEF Segs
<1> QED
    BY <1>1, <1>2

LEMMA CellsStep ==
    ASSUME NEW names, NEW c, Segs(names, c), NEW i \in 1..Len(names),
           IsFiniteSet(Cells(names, c, i))
    PROVE  /\ IsFiniteSet(Cells(names, c, i + 1))
           /\ Cardinality(Cells(names, c, i + 1))
                = Cardinality(Cells(names, c, i)) + Len(c[names[i]])
<1> DEFINE old == Cells(names, c, i)
           new == {i} \X (1..Len(c[names[i]]))
           n == Len(c[names[i]])
<1>1. n \in Nat /\ i \in Nat
    BY SegLen DEF Segs
<1>2. Cells(names, c, i + 1) = old \cup new
  <2>1. 1..(i + 1 - 1) = 1..(i - 1) \cup {i}
    BY <1>1
  <2> QED
    BY <2>1 DEF Cells
<1>3. old \cap new = {}
  <2>1. \A x \in old : \E j \in 1..(i - 1) : x[1] = j
    BY DEF Cells
  <2>2. \A x \in new : x[1] = i
    OBVIOUS
  <2>3. i \notin 1..(i - 1)
    BY <1>1
  <2> QED
    BY <2>1, <2>2, <2>3
<1>4. IsFiniteSet(1..n) /\ Cardinality(1..n) = n
  <2> HIDE DEF n
  <2>1. IsFiniteSet(1..n) /\ Cardinality(1..n) = IF 1 > n THEN 0 ELSE n - 1 + 1
    BY <1>1, FS_Interval
  <2> QED
    BY <1>1, <2>1
<1>5. IsFiniteSet({i}) /\ Cardinality({i}) = 1
    BY FS_Singleton
<1>6. IsFiniteSet(new) /\ Cardinality(new) = 1 * n
    BY <1>4, <1>5, FS_Product, ZenonT(30)
<1>7. IsFiniteSet(old \cup new) /\ Cardinality(old \cup new) = Cardinality(old) + Cardinality(new) - Cardinality({})
  <2> HIDE DEF old, new
  <2> QED
    BY <1>3, <1>6, FS_Union DEF old
<1>8. Cardinality({}) = 0 /\ Cardinality(old) \in Nat
    BY FS_EmptySet, FS_CardinalityType
<1> HIDE DEF old, new, n
<1>9. Cardinality(old \cup new) = Cardinality(old) + n
    BY <1>1, <1>6, <1>7, <1>8
<1> QED
    BY <1>2, <1>7, <1>9 DEF old, n

LEMMA CellsFinite ==
    ASSUME NEW names, NEW c, Segs(names, c)
    PROVE  \A i \in 1..(Len(names) + 1) : IsFiniteSet(Cells(names, c, i))
<1> DEFINE T == {i \in Nat : i \in 1..(Len(names) + 1) /\ ~IsFiniteSet(Cells(names, c, i))}
<1>0. Len(names) \in Nat
    BY DEF Segs
<1> SUFFICES ASSUME T # {} PROVE FALSE
    BY <1>0
<1>1. PICK k \in T : \A j \in T : k <= j
    BY LeastNat
<1>2. Cells(names, c, 1) = {}
    BY DEF Cells
<1>3. k # 1
    BY <1>2, FS_EmptySet
<1>4. k - 1 \in 1..Len(names) /\ k - 1 \in Nat /\ k - 1 \in 1..(Len(names) + 1) /\ (k - 1) + 1 = k
    BY <1>0, <1>3
<1>5. IsFiniteSet(Cells(names, c, k - 1))
    BY <1>1, <1>4
<1> QED
    BY <1>4, <1>5, CellsStep

LEMMA BasesIs ==
    ASSUME NEW names, NEW c, Segs(names, c)
    PROVE  /\ Bases(names, c) \in Seq(Nat) /\ Len(Bases(names, c)) = Len(names)
           /\ \A i \in 1..Len(names) : Bases(names, c)[i] = Cardinality(Cells(names, c, i))
<1>0. Len(names) \in Nat
    BY DEF Segs
<1>1. Bases(names, c) = [i \in 1..Len(names) |-> Cardinality(Cells(names, c, i))]
    BY DEF Bases, Cells
<1>2. \A i \in 1..Len(names) : Cardinality(Cells(names, c, i)) \in Nat
    BY <1>0, CellsFinite, FS_CardinalityType
<1> QED
    BY <1>0, <1>1, <1>2

\* Bases depend on the segments before the last.
LEMMA BasesSame ==
    ASSUME NEW names, NEW c, NEW d, Len(names) \in Nat,
           \A i \in 1..(Len(names) - 1) : Len(d[names[i]]) = Len(c[names[i]])
    PROVE  Bases(names, d) = Bases(names, c)
<1>1. \A i \in 1..Len(names) : \A j \in 1..(i - 1) : j \in 1..(Len(names) - 1)
    OBVIOUS
<1>2. \A i \in 1..Len(names) : Cells(names, d, i) = Cells(names, c, i)
    BY <1>1 DEF Cells
<1> QED
    BY <1>2 DEF Bases, Cells

LEMMA BasesAppend ==
    ASSUME NEW names, NEW c, Segs(names, c), Len(names) > 0, NEW x \in SegName
    PROVE  Bases(Append(names, x), c) = Append(Bases(names, c), Rows(names, Bases(names, c), c))
<1> DEFINE n == Len(names)
           all == Append(names, x)
           b == Bases(names, c)
<1>0. n \in Nat /\ n \in 1..n /\ Len(all) = n + 1 /\ \A j \in 1..n : all[j] = names[j]
    BY DEF Segs
<1>1. Segs(all, c)
    BY DEF Segs
<1>2. \A i \in 1..(n + 1) : Cells(all, c, i) = Cells(names, c, i)
  <2> SUFFICES ASSUME NEW i \in 1..(n + 1) PROVE Cells(all, c, i) = Cells(names, c, i)
    OBVIOUS
  <2>1. \A j \in 1..(i - 1) : j \in 1..n /\ all[j] = names[j]
    BY <1>0
  <2> QED
    BY <2>1 DEF Cells
<1>3. Cardinality(Cells(names, c, n + 1)) = Cardinality(Cells(names, c, n)) + Len(c[names[n]])
    BY <1>0, CellsFinite, CellsStep
<1>4. b[n] = Cardinality(Cells(names, c, n)) /\ b \in Seq(Nat) /\ Len(b) = n
    BY <1>0, BasesIs
<1>5. Bases(all, c) \in Seq(Nat) /\ Len(Bases(all, c)) = n + 1
    BY <1>0, <1>1, BasesIs
<1>6. \A i \in 1..(n + 1) : Bases(all, c)[i] = Cardinality(Cells(names, c, i))
  <2>1. \A i \in 1..Len(all) : Bases(all, c)[i] = Cardinality(Cells(all, c, i))
    BY <1>1, BasesIs
  <2> HIDE DEF all, n
  <2> QED
    BY <1>0, <1>2, <2>1
<1>7. \A i \in 1..n : b[i] = Cardinality(Cells(names, c, i))
    BY BasesIs
<1>8. Rows(names, b, c) = Cardinality(Cells(names, c, n + 1))
    BY <1>3, <1>4 DEF Rows
<1>9. Rows(names, b, c) \in Nat
    BY <1>0, <1>4, SegLen DEF Rows
<1> DEFINE e == Append(b, Rows(names, b, c))
<1>10. e \in Seq(Nat) /\ Len(e) = n + 1 /\ e[n + 1] = Rows(names, b, c) /\ \A i \in 1..n : e[i] = b[i]
    BY <1>4, <1>9
<1>11. \A i \in 1..(n + 1) : Bases(all, c)[i] = e[i]
    BY <1>0, <1>6, <1>7, <1>8, <1>10
<1> HIDE DEF e, all, b, n
<1> QED
    BY <1>5, <1>10, <1>11 DEF e, all, b, n

-----------------------------------------------------------------------------
(* Replay *)

\* No record is skipped, so the number of rows does not matter.
LEMMA ReplayCounts ==
    ASSUME NEW l, NEW n, Below(l, n), NEW d
    PROVE  ReplayDoc(l, n, d) = Replayed(l, d)
<1>1. Writes(l, n, d) = WritesOf(l, d)
    BY DEF Writes, WritesOf, Counted, Below
<1> QED
    BY <1>1, Zenon DEF ReplayDoc, Replayed

LEMMA WritesLatest ==
    ASSUME NEW l \in Seq(Record), NEW d, WritesOf(l, d) # {}
    PROVE  /\ Latest(WritesOf(l, d)) \in WritesOf(l, d) /\ Latest(WritesOf(l, d)) \in 1..Len(l)
           /\ \A j \in WritesOf(l, d) : j <= Latest(WritesOf(l, d))
<1>1. WritesOf(l, d) \in SUBSET Nat /\ Len(l) \in Nat /\ \A i \in WritesOf(l, d) : i \in 1..Len(l)
    BY DEF WritesOf
<1>2. \A i \in WritesOf(l, d) : i <= Len(l)
    BY <1>1
<1> QED
    BY <1>1, <1>2, LatestIn

\* What is replayed is one record of the log, or nothing.
LEMMA ReplayedIs ==
    ASSUME NEW l \in Seq(Record), NEW d
    PROVE  \/ Replayed(l, d) = Absent
           \/ \E k \in 1..Len(l) : /\ l[k].id = d /\ l[k].kind = "upsert"
                                   /\ Replayed(l, d).rows = l[k].rows
                                   /\ Replayed(l, d).stamp = l[k].stamp
<1> DEFINE W == WritesOf(l, d)
           k == Latest(W)
<1>1. CASE W = {} \/ l[k].kind = "delete"
    BY <1>1 DEF Replayed
<1>2. CASE W # {} /\ l[k].kind # "delete"
  <2>1. k \in W /\ k \in 1..Len(l)
    BY <1>2, WritesLatest
  <2>2. l[k] \in Record /\ l[k].id = d /\ l[k].kind # "reinforce"
    BY <2>1 DEF WritesOf
  <2>3. l[k].kind = "upsert"
    BY <1>2, <2>2 DEF Record
  <2>4. Replayed(l, d).rows = l[k].rows /\ Replayed(l, d).stamp = l[k].stamp
    BY <1>2 DEF Replayed
  <2> QED
    BY <2>1, <2>2, <2>3, <2>4
<1> QED
    BY <1>1, <1>2

\* A record of another doc is not seen.
LEMMA ReplayedOther ==
    ASSUME NEW l \in Seq(Record), NEW x \in Record, NEW d, x.id # d
    PROVE  Replayed(Append(l, x), d) = Replayed(l, d)
<1> DEFINE m == Append(l, x)
<1>1. /\ Len(l) \in Nat /\ DOMAIN l = 1..Len(l) /\ DOMAIN m = 1..(Len(l) + 1)
      /\ \A i \in 1..Len(l) : m[i] = l[i]
      /\ m[Len(l) + 1] = x
    OBVIOUS
<1> HIDE DEF m
<1>2. WritesOf(m, d) = WritesOf(l, d)
    BY <1>1 DEF WritesOf
<1> DEFINE W == WritesOf(l, d)
           R(s) == {j \in DOMAIN s : j > Latest(W) /\ s[j].id = d /\ s[j].kind = "reinforce"}
<1>3. CASE W = {}
    BY <1>2, <1>3 DEF Replayed, m
<1>4. CASE W # {}
  <2>1. Latest(W) \in 1..Len(l)
    BY <1>4, WritesLatest
  <2>2. m[Latest(W)] = l[Latest(W)]
    BY <1>1, <2>1
  <2>3. R(m) = R(l)
    BY <1>1
  <2>4. R(l) # {} => m[Latest(R(l))] = l[Latest(R(l))]
    <3>1. R(l) \in SUBSET Nat /\ \A i \in R(l) : i \in 1..Len(l)
      BY <1>1
    <3>2. \A i \in R(l) : i <= Len(l)
      BY <1>1, <3>1
    <3> HIDE DEF R
    <3>3. R(l) # {} => Latest(R(l)) \in R(l)
      BY <1>1, <3>1, <3>2, LatestIn
    <3> QED
      BY <1>1, <3>1, <3>3
  <2>5. Replayed(m, d) = IF W = {} \/ m[Latest(W)].kind = "delete" THEN Absent
          ELSE [rows |-> m[Latest(W)].rows, stamp |-> m[Latest(W)].stamp,
                acc |-> IF R(m) = {} THEN m[Latest(W)].acc ELSE m[Latest(R(m))].acc]
    BY <1>2 DEF Replayed
  <2>6. Replayed(l, d) = IF W = {} \/ l[Latest(W)].kind = "delete" THEN Absent
          ELSE [rows |-> l[Latest(W)].rows, stamp |-> l[Latest(W)].stamp,
                acc |-> IF R(l) = {} THEN l[Latest(W)].acc ELSE l[Latest(R(l))].acc]
    BY DEF Replayed
  <2> HIDE DEF R, W
  <2>7. Replayed(m, d) = Replayed(l, d)
    BY <2>2, <2>3, <2>4, <2>5, <2>6
  <2> QED
    BY <2>7 DEF m
<1> QED
    BY <1>3, <1>4

\* An upsert or a delete is what the doc is after it.
LEMMA ReplayedWrite ==
    ASSUME NEW l \in Seq(Record), NEW x \in Record, x.kind # "reinforce"
    PROVE  Replayed(Append(l, x), x.id) =
               IF x.kind = "delete" THEN Absent ELSE [rows |-> x.rows, stamp |-> x.stamp, acc |-> x.acc]
<1> DEFINE m == Append(l, x)
           n == Len(l) + 1
           W == WritesOf(m, x.id)
<1>1. /\ Len(l) \in Nat /\ n \in Nat /\ n \in 1..n /\ DOMAIN l = 1..Len(l) /\ DOMAIN m = 1..n /\ m[n] = x
      /\ \A i \in 1..Len(l) : m[i] = l[i]
    OBVIOUS
<1> HIDE DEF m, n
<1>2. W \in SUBSET Nat /\ n \in W /\ \A j \in W : j <= n
    BY <1>1 DEF WritesOf
<1>3. Latest(W) = n
    BY <1>2, LatestIs
<1>4. {j \in DOMAIN m : j > n /\ m[j].id = x.id /\ m[j].kind = "reinforce"} = {}
    BY <1>1
<1>5. Replayed(m, x.id) =
               IF x.kind = "delete" THEN Absent ELSE [rows |-> x.rows, stamp |-> x.stamp, acc |-> x.acc]
    BY <1>1, <1>2, <1>3, <1>4 DEF Replayed
<1> QED
    BY <1>5 DEF m

\* reinforce changes what a live doc was reinforced to and nothing else.
LEMMA ReplayedReinforce ==
    ASSUME NEW l \in Seq(Record), NEW d \in Docs, NEW n \in Nat, Replayed(l, d).stamp # 0
    PROVE  Replayed(Append(l, ReinforceOp(d, n)), d) = [Replayed(l, d) EXCEPT !.acc = n]
<1> DEFINE x == ReinforceOp(d, n)
           m == Append(l, x)
           e == Len(l) + 1
<1>1. /\ Len(l) \in Nat /\ e \in Nat /\ DOMAIN l = 1..Len(l) /\ DOMAIN m = 1..e /\ m[e] = x
      /\ \A i \in 1..Len(l) : m[i] = l[i]
    OBVIOUS
<1>2. x.kind = "reinforce" /\ x.id = d /\ x.acc = n
    BY DEF ReinforceOp
<1> HIDE DEF x, m, e
<1> DEFINE W == WritesOf(l, d)
           R(s) == {j \in DOMAIN s : j > Latest(W) /\ s[j].id = d /\ s[j].kind = "reinforce"}
<1>3. WritesOf(m, d) = W
    BY <1>1, <1>2 DEF WritesOf, e
<1>4. W # {} /\ l[Latest(W)].kind # "delete"
    BY DEF Replayed, Absent
<1>5. Latest(W) \in 1..Len(l)
    BY <1>4, WritesLatest
<1>6. m[Latest(W)] = l[Latest(W)]
    BY <1>1, <1>5
<1>7. R(m) \in SUBSET Nat /\ e \in R(m) /\ \A j \in R(m) : j <= e
    BY <1>1, <1>2, <1>5 DEF e
<1>8. Latest(R(m)) = e
  <2> HIDE DEF R
  <2> QED
    BY <1>7, LatestIs
<1>9. Replayed(m, d) = [rows |-> l[Latest(W)].rows, stamp |-> l[Latest(W)].stamp, acc |-> n]
    BY <1>1, <1>2, <1>3, <1>4, <1>6, <1>7, <1>8 DEF Replayed
<1>10. Replayed(l, d) = [rows |-> l[Latest(W)].rows, stamp |-> l[Latest(W)].stamp,
                         acc |-> IF R(l) = {} THEN l[Latest(W)].acc ELSE l[Latest(R(l))].acc]
    BY <1>4 DEF Replayed
<1> HIDE DEF W, R
<1>11. Replayed(m, d) = [Replayed(l, d) EXCEPT !.acc = n]
    BY <1>9, <1>10
<1> QED
    BY <1>11 DEF m, x

-----------------------------------------------------------------------------
(* Records and the rows they name *)

\* A segment set, and what its objects hold.
SegSet(names) ==
    /\ names \in Seq(SegName) /\ Len(names) > 0
    /\ \A i, j \in 1..Len(names) : names[i] = names[j] => i = j

Contents == [SegName -> Seq(Nat)]

LEMMA SetMatrix ==
    ASSUME NEW names, SegSet(names), NEW c \in Contents
    PROVE  /\ Matrix(names, Bases(names, c), c)
           /\ Total(names, c) \in Nat
           /\ names[Len(names)] \in SegName /\ c[names[Len(names)]] \in Seq(Nat)
           /\ Bases(names, c)[Len(names)] \in Nat
           /\ Total(names, c) = Bases(names, c)[Len(names)] + Len(c[names[Len(names)]])
<1>1. Segs(names, c)
    BY DEF Segs, SegSet, Contents
<1>2. Matrix(names, Bases(names, c), c)
    BY <1>1, BasesIs DEF Matrix, SegSet, Contents
<1>3. Len(names) \in 1..Len(names)
    BY DEF SegSet
<1> QED
    BY <1>2, <1>3, MatrixFacts DEF Total, Rows

\* Changing the last segment moves no base.
LEMMA LastChanged ==
    ASSUME NEW names, SegSet(names), NEW c \in Contents, NEW t \in Seq(Nat),
           NEW d \in Contents, d[names[Len(names)]] = t,
           \A x \in SegName : x # names[Len(names)] => d[x] = c[x]
    PROVE  /\ \A i \in 1..(Len(names) - 1) : d[names[i]] = c[names[i]]
           /\ Bases(names, d) = Bases(names, c)
           /\ Total(names, d) = Bases(names, c)[Len(names)] + Len(t)
<1>1. Len(names) \in Nat /\ Len(names) \in 1..Len(names) /\ names[Len(names)] \in SegName
    BY DEF SegSet
<1>3. \A i \in 1..(Len(names) - 1) : i \in 1..Len(names) /\ i # Len(names)
    BY <1>1
<1>4. \A i \in 1..(Len(names) - 1) : names[i] # names[Len(names)] /\ names[i] \in SegName
    BY <1>1, <1>3 DEF SegSet
<1>5. \A i \in 1..(Len(names) - 1) : d[names[i]] = c[names[i]]
    BY <1>4 DEF Contents
<1>6. Bases(names, d) = Bases(names, c)
    BY <1>1, <1>5, BasesSame
<1> QED
    BY <1>5, <1>6 DEF Total, Rows

LEMMA BackedMore ==
    ASSUME NEW names, SegSet(names), NEW c \in Contents, NEW v \in Seq(Nat),
           NEW l, \A k \in DOMAIN l : l[k].rows \subseteq Nat, Backed(l, names, c)
    PROVE  Backed(l, names, [c EXCEPT ![names[Len(names)]] = c[names[Len(names)]] \o v])
<1> DEFINE n == Len(names)
           t == c[names[n]] \o v
           d == [c EXCEPT ![names[n]] = t]
<1>0. DOMAIN names = 1..n /\ n \in Nat
    BY DEF SegSet
<1>1. c[names[n]] \in Seq(Nat) /\ Matrix(names, Bases(names, c), c)
    BY SetMatrix
<1>2. t \in Seq(Nat)
    BY <1>1
<1>3. /\ d \in Contents /\ d[names[n]] = t /\ Bases(names, d) = Bases(names, c)
      /\ \A i \in 1..(n - 1) : d[names[i]] = c[names[i]]
  <2>0. names[n] \in SegName
    BY SetMatrix
  <2> HIDE DEF t
  <2>1. d \in Contents /\ d[names[n]] = t /\ \A x \in SegName : x # names[n] => d[x] = c[x]
    BY <1>2, <2>0 DEF Contents
  <2> HIDE DEF d
  <2> QED
    BY <1>2, <2>1, LastChanged
<1>4. Matrix(names, Bases(names, c), d)
    BY <1>1, <1>3 DEF Matrix, Contents
<1>5. \A i \in 1..n : i = n \/ i \in 1..(n - 1)
  <2> HIDE DEF n
  <2> QED
    BY <1>0
<1>6. Extends(names, c, d)
  <2> SUFFICES ASSUME NEW i \in 1..n
               PROVE /\ Len(c[names[i]]) <= Len(d[names[i]])
                     /\ \A k \in 1..Len(c[names[i]]) : d[names[i]][k] = c[names[i]][k]
    BY <1>0 DEF Extends
  <2>1. CASE i = n
    <3> DEFINE u == c[names[n]]
    <3>1. u \in Seq(Nat) /\ d[names[i]] = u \o v /\ c[names[i]] = u
      BY <1>1, <1>3, <2>1
    <3> HIDE DEF u, d
    <3> QED
      BY <3>1
  <2>2. CASE i # n
    <3>1. i \in 1..(n - 1) /\ Len(c[names[i]]) \in Nat
      BY <1>0, <1>1, <1>5, <2>2, MatrixFacts
    <3> QED
      BY <1>3, <3>1
  <2> QED
    BY <2>1, <2>2
<1> HIDE DEF d
<1>7. ASSUME NEW k \in DOMAIN l, NEW r \in l[k].rows
      PROVE At(names, Bases(names, d), d, r, l[k].stamp)
  <2>1. At(names, Bases(names, c), c, r, l[k].stamp) /\ r \in Nat
    BY DEF Backed
  <2> QED
    BY <1>1, <1>3, <1>4, <1>6, <2>1, AtExtends
<1>8. Backed(l, names, d)
    BY <1>7 DEF Backed
<1> QED
    BY <1>8 DEF d

LEMMA BackedCut ==
    ASSUME NEW names, SegSet(names), NEW c \in Contents, NEW m \in Nat,
           Bases(names, c)[Len(names)] <= m, m <= Total(names, c),
           NEW l, \A k \in DOMAIN l : l[k].rows \subseteq Nat, Backed(l, names, c), Below(l, m)
    PROVE  Backed(l, names,
              [c EXCEPT ![names[Len(names)]] =
                  SubSeq(c[names[Len(names)]], 1, m - Bases(names, c)[Len(names)])])
<1> DEFINE n == Len(names)
           b == Bases(names, c)
           t == SubSeq(c[names[n]], 1, m - b[n])
           d == [c EXCEPT ![names[n]] = t]
<1>1. /\ c[names[n]] \in Seq(Nat) /\ Matrix(names, b, c) /\ b[n] \in Nat
      /\ Rows(names, b, c) = b[n] + Len(c[names[n]]) /\ m <= Rows(names, b, c)
    BY SetMatrix DEF Total
<1>2. t \in Seq(Nat)
  <2>1. m - b[n] \in 0..Len(c[names[n]])
    BY <1>1
  <2> QED
    BY <1>1, <2>1, SubSeqProperties, SMTT(30)
<1>3. /\ d \in Contents /\ d[names[n]] = t /\ Bases(names, d) = b
      /\ \A i \in 1..(n - 1) : d[names[i]] = c[names[i]]
  <2>0. names[n] \in SegName
    BY SetMatrix
  <2> HIDE DEF t
  <2>1. d \in Contents /\ d[names[n]] = t /\ \A x \in SegName : x # names[n] => d[x] = c[x]
    BY <1>2, <2>0 DEF Contents
  <2> HIDE DEF d
  <2> QED
    BY <1>2, <2>1, LastChanged
<1>4. Matrix(names, b, d)
    BY <1>1, <1>3 DEF Matrix, Contents
<1> HIDE DEF d, t, b
<1>7. ASSUME NEW k \in DOMAIN l, NEW r \in l[k].rows
      PROVE At(names, Bases(names, d), d, r, l[k].stamp)
  <2>1. At(names, b, c, r, l[k].stamp) /\ r \in Nat /\ r < m
    BY DEF Backed, Below, b
  <2>2. d[names[n]] = SubSeq(c[names[n]], 1, m - b[n])
    BY <1>3 DEF t
  <2>3. At(names, b, d, r, l[k].stamp)
    BY <1>1, <1>3, <1>4, <2>1, <2>2, AtCut DEF b
  <2> QED
    BY <1>3, <2>3
<1>8. Backed(l, names, d)
    BY <1>7 DEF Backed
<1> QED
    BY <1>8 DEF d, t, b

LEMMA BackedSealed ==
    ASSUME NEW names, SegSet(names), NEW c \in Contents, NEW x \in SegName,
           NEW l, \A k \in DOMAIN l : l[k].rows \subseteq Nat, Backed(l, names, c)
    PROVE  Backed(l, Append(names, x), c)
<1>1. Matrix(names, Bases(names, c), c)
    BY SetMatrix
<1>2. Bases(Append(names, x), c) = Append(Bases(names, c), Rows(names, Bases(names, c), c))
    BY BasesAppend DEF SegSet, Segs, Contents
<1>3. ASSUME NEW k \in DOMAIN l, NEW r \in l[k].rows
      PROVE At(Append(names, x), Bases(Append(names, x), c), c, r, l[k].stamp)
  <2>1. At(names, Bases(names, c), c, r, l[k].stamp) /\ r \in Nat
    BY DEF Backed
  <2> QED
    BY <1>1, <1>2, <2>1, AtSealed
<1> QED
    BY <1>3 DEF Backed

LEMMA BackedBelow ==
    ASSUME NEW names, SegSet(names), NEW c \in Contents,
           NEW l, \A k \in DOMAIN l : l[k].rows \subseteq Nat, Backed(l, names, c)
    PROVE  Below(l, Total(names, c))
<1>1. Matrix(names, Bases(names, c), c)
    BY SetMatrix
<1>2. ASSUME NEW k \in DOMAIN l, NEW r \in l[k].rows PROVE r < Total(names, c)
  <2>1. At(names, Bases(names, c), c, r, l[k].stamp) /\ r \in Nat
    BY DEF Backed
  <2> QED
    BY <1>1, <2>1, RowOfAt DEF Total
<1> QED
    BY <1>2 DEF Below

-----------------------------------------------------------------------------
(* Prefixes of a log *)

LEMMA Prefix ==
    ASSUME NEW S, NEW l \in Seq(S), NEW m \in Nat, m <= Len(l)
    PROVE  /\ SubSeq(l, 1, m) \in Seq(S) /\ Len(SubSeq(l, 1, m)) = m
           /\ DOMAIN SubSeq(l, 1, m) = 1..m
           /\ \A i \in 1..m : SubSeq(l, 1, m)[i] = l[i] /\ i \in DOMAIN l
<1>1. \A i \in 1..m : i \in 1..Len(l)
    OBVIOUS
<1>2. \A i \in 1..m : l[i] \in S
    BY <1>1
<1>3. SubSeq(l, 1, m) = [i \in 1..m |-> l[i]]
    OBVIOUS
<1> QED
    BY <1>1, <1>2, <1>3

LEMMA PrefixWhole ==
    ASSUME NEW S, NEW l \in Seq(S)
    PROVE  SubSeq(l, 1, Len(l)) = l
<1>1. Len(l) \in Nat /\ Len(l) <= Len(l)
    OBVIOUS
<1>2. /\ SubSeq(l, 1, Len(l)) \in Seq(S) /\ Len(SubSeq(l, 1, Len(l))) = Len(l)
      /\ \A i \in 1..Len(l) : SubSeq(l, 1, Len(l))[i] = l[i]
    BY <1>1, Prefix
<1> DEFINE p == SubSeq(l, 1, Len(l))
<1> HIDE DEF p
<1>3. p = l
    BY <1>2, SeqEqual DEF p
<1> QED
    BY <1>3 DEF p

LEMMA PrefixAppend ==
    ASSUME NEW S, NEW l \in Seq(S), NEW x \in S, NEW m \in Nat, m <= Len(l)
    PROVE  SubSeq(Append(l, x), 1, m) = SubSeq(l, 1, m)
<1> DEFINE a == Append(l, x)
           p == SubSeq(a, 1, m)
           q == SubSeq(l, 1, m)
<1>1. a \in Seq(S) /\ Len(a) = Len(l) + 1 /\ \A i \in 1..Len(l) : a[i] = l[i]
    OBVIOUS
<1>2. m <= Len(a) /\ \A i \in 1..m : i \in 1..Len(l)
    BY <1>1
<1> HIDE DEF a
<1>3. p \in Seq(S) /\ Len(p) = m /\ \A i \in 1..m : p[i] = a[i]
    BY <1>1, <1>2, Prefix
<1>4. q \in Seq(S) /\ Len(q) = m /\ \A i \in 1..m : q[i] = l[i]
    BY Prefix
<1> HIDE DEF p, q
<1>5. \A i \in 1..Len(p) : p[i] = q[i]
    BY <1>1, <1>2, <1>3, <1>4
<1>6. p = q
    BY <1>3, <1>4, <1>5, SeqEqual
<1> QED
    BY <1>6 DEF p, q, a

\* The records after m are of other docs.
LEMMA ReplayedPrefix ==
    ASSUME NEW l \in Seq(Record), NEW m \in Nat, m <= Len(l), NEW d,
           \A j \in DOMAIN l : j > m => l[j].id # d
    PROVE  Replayed(l, d) = Replayed(SubSeq(l, 1, m), d)
<1> DEFINE p == SubSeq(l, 1, m)
<1>1. /\ p \in Seq(Record) /\ Len(p) = m /\ DOMAIN p = 1..m /\ DOMAIN l = 1..Len(l) /\ Len(l) \in Nat
      /\ \A i \in 1..m : p[i] = l[i] /\ i \in DOMAIN l
    BY Prefix
<1> HIDE DEF p
<1>2. WritesOf(l, d) = WritesOf(p, d)
    BY <1>1 DEF WritesOf
<1> DEFINE W == WritesOf(p, d)
           R(s) == {j \in DOMAIN s : j > Latest(W) /\ s[j].id = d /\ s[j].kind = "reinforce"}
<1>3. CASE W = {}
    BY <1>2, <1>3 DEF Replayed, p
<1>4. CASE W # {}
  <2>1. Latest(W) \in 1..m
    BY <1>1, <1>4, WritesLatest
  <2>2. p[Latest(W)] = l[Latest(W)]
    BY <1>1, <2>1
  <2>3. R(p) = R(l)
    BY <1>1
  <2>4. R(p) # {} => p[Latest(R(p))] = l[Latest(R(p))]
    <3>1. R(p) \in SUBSET Nat /\ \A i \in R(p) : i \in 1..m
      BY <1>1
    <3>2. \A i \in R(p) : i <= m
      BY <3>1
    <3> HIDE DEF R
    <3>3. R(p) # {} => Latest(R(p)) \in R(p)
      BY <3>1, <3>2, LatestIn
    <3> QED
      BY <1>1, <3>1, <3>3
  <2>5. Replayed(l, d) = IF W = {} \/ l[Latest(W)].kind = "delete" THEN Absent
          ELSE [rows |-> l[Latest(W)].rows, stamp |-> l[Latest(W)].stamp,
                acc |-> IF R(l) = {} THEN l[Latest(W)].acc ELSE l[Latest(R(l))].acc]
    BY <1>2 DEF Replayed
  <2>6. Replayed(p, d) = IF W = {} \/ p[Latest(W)].kind = "delete" THEN Absent
          ELSE [rows |-> p[Latest(W)].rows, stamp |-> p[Latest(W)].stamp,
                acc |-> IF R(p) = {} THEN p[Latest(W)].acc ELSE p[Latest(R(p))].acc]
    BY DEF Replayed
  <2> HIDE DEF R, W
  <2>7. Replayed(l, d) = Replayed(p, d)
    BY <2>2, <2>3, <2>4, <2>5, <2>6
  <2> QED
    BY <2>7 DEF p
<1> QED
    BY <1>3, <1>4

\* Record w is the last of its doc.
LEMMA ReplayedLast ==
    ASSUME NEW l \in Seq(Record), NEW w \in DOMAIN l, l[w].kind # "reinforce",
           \A j \in DOMAIN l : j > w => l[j].id # l[w].id
    PROVE  Replayed(l, l[w].id) =
               IF l[w].kind = "delete" THEN Absent
               ELSE [rows |-> l[w].rows, stamp |-> l[w].stamp, acc |-> l[w].acc]
<1> DEFINE d == l[w].id
           W == WritesOf(l, d)
<1>1. W \in SUBSET Nat /\ w \in W /\ \A j \in W : j <= w
    BY DEF WritesOf
<1> HIDE DEF W
<1>2. Latest(W) = w
    BY <1>1, LatestIs
<1>3. {j \in DOMAIN l : j > w /\ l[j].id = d /\ l[j].kind = "reinforce"} = {}
    OBVIOUS
<1> HIDE DEF d
<1>4. Replayed(l, d) =
               IF l[w].kind = "delete" THEN Absent
               ELSE [rows |-> l[w].rows, stamp |-> l[w].stamp, acc |-> l[w].acc]
    BY <1>1, <1>2, <1>3 DEF Replayed, W
<1> QED
    BY <1>4 DEF d

\* A doc without a record is absent.
LEMMA ReplayedNone ==
    ASSUME NEW l, NEW d, \A j \in DOMAIN l : l[j].id # d
    PROVE  Replayed(l, d) = Absent
BY DEF Replayed, WritesOf

\* A doc without a stamp is absent.
LEMMA ReplayedStamp ==
    ASSUME NEW l \in Seq(Record), WellFormed(l), NEW d, Replayed(l, d).stamp = 0
    PROVE  Replayed(l, d) = Absent
<1> SUFFICES ASSUME Replayed(l, d) # Absent PROVE FALSE
    OBVIOUS
<1>1. PICK k \in 1..Len(l) : l[k].kind = "upsert" /\ Replayed(l, d).stamp = l[k].stamp
    BY ReplayedIs
<1>2. l[k].stamp > 0
    BY <1>1 DEF WellFormed
<1> QED
    BY <1>1, <1>2

LEMMA ReplayedType ==
    ASSUME NEW l \in Seq(Record), NEW d
    PROVE  Replayed(l, d) \in Indexed
<1> DEFINE W == WritesOf(l, d)
           w == l[Latest(W)]
           R == {j \in DOMAIN l : j > Latest(W) /\ l[j].id = d /\ l[j].kind = "reinforce"}
<1>1. CASE W = {} \/ w.kind = "delete"
    BY <1>1 DEF Replayed, Absent, Indexed
<1>2. CASE W # {} /\ w.kind # "delete"
  <2>1. w \in Record
    BY <1>2, WritesLatest
  <2>2. R # {} => l[Latest(R)] \in Record
    <3>0. Len(l) \in Nat /\ DOMAIN l = 1..Len(l)
      OBVIOUS
    <3> HIDE DEF w, W
    <3>a. \A i \in R : i \in DOMAIN l
      OBVIOUS
    <3>1. R \in SUBSET Nat /\ \A i \in R : i \in 1..Len(l)
      <4> HIDE DEF R
      <4> QED
        BY <3>0, <3>a
    <3>2. \A i \in R : i <= Len(l)
      BY <3>0, <3>1
    <3> HIDE DEF R
    <3>3. R # {} => Latest(R) \in R
      BY <3>0, <3>1, <3>2, LatestIn
    <3>4. \A j \in 1..Len(l) : l[j] \in Record
      BY ElementOfSeq
    <3> QED
      BY <3>1, <3>3, <3>4
  <2>3. Replayed(l, d) = [rows |-> w.rows, stamp |-> w.stamp,
              acc |-> IF R = {} THEN w.acc ELSE l[Latest(R)].acc]
    BY <1>2 DEF Replayed
  <2> HIDE DEF R, w
  <2> QED
    BY <2>1, <2>2, <2>3 DEF Record, Indexed
<1> QED
    BY <1>1, <1>2

-----------------------------------------------------------------------------
(* What the state's parts are when they have their shape *)

LEMMA LogTypes ==
    ASSUME Shape
    PROVE  /\ log.cur \in Seq(Record) /\ log.poss \in SUBSET Seq(Record)
           /\ Len(log.cur) \in Nat /\ DOMAIN log.cur = 1..Len(log.cur)
           /\ log = [cur |-> log.cur, poss |-> log.poss]
<1>1. log \in [cur : Seq(Record), poss : SUBSET Seq(Record)]
    BY DEF Shape
<1>2. log.cur \in Seq(Record) /\ log.poss \in SUBSET Seq(Record)
    BY <1>1
<1>3. log = [cur |-> log.cur, poss |-> log.poss]
    BY <1>1
<1>4. Len(log.cur) \in Nat /\ DOMAIN log.cur = 1..Len(log.cur)
    BY <1>2, LenProperties
<1> QED
    BY <1>2, <1>3, <1>4

LEMMA RecordRows ==
    ASSUME NEW l \in Seq(Record)
    PROVE  \A k \in DOMAIN l : l[k] \in Record /\ l[k].rows \subseteq Nat
<1>1. \A k \in DOMAIN l : l[k] \in Record
    OBVIOUS
<1> QED
    BY <1>1 DEF Record

LEMMA OpTypes ==
    ASSUME OpShape
    PROVE  /\ op.pc \in Pcs /\ op.kind \in Kinds /\ op.batch \in Seq([id : Docs, vecs : Nat])
           /\ op.staged \in Seq(StagedRecord) /\ op.dmark \in Nat /\ op.lmark \in Nat
           /\ op.barrier \in BOOLEAN /\ op.first \in Nat /\ op.i \in Nat /\ op.plan \in Plan
           /\ Len(op.staged) \in Nat /\ DOMAIN op.staged = 1..Len(op.staged)
           /\ \A k \in DOMAIN op.staged : op.staged[k] \in StagedRecord
           /\ \A k \in DOMAIN op.staged : /\ op.staged[k].id \in Docs /\ op.staged[k].rows \subseteq Nat
                                          /\ op.staged[k].stamp \in Nat
<1>1. /\ op.pc \in Pcs /\ op.kind \in Kinds /\ op.batch \in Seq([id : Docs, vecs : Nat])
      /\ op.staged \in Seq(StagedRecord) /\ op.dmark \in Nat /\ op.lmark \in Nat
      /\ op.barrier \in BOOLEAN /\ op.first \in Nat /\ op.i \in Nat /\ op.plan \in Plan
    BY DEF OpShape, Progress
<1>2. Len(op.staged) \in Nat /\ DOMAIN op.staged = 1..Len(op.staged)
    BY <1>1
<1>3. \A k \in DOMAIN op.staged : op.staged[k] \in StagedRecord
    BY <1>1
<1>4. \A k \in DOMAIN op.staged : /\ op.staged[k].id \in Docs /\ op.staged[k].rows \subseteq Nat
                                  /\ op.staged[k].stamp \in Nat
    BY <1>3 DEF StagedRecord
<1> QED
    BY <1>1, <1>2, <1>3, <1>4

LEMMA FileTypes ==
    ASSUME Shape
    PROVE  /\ Current \in Contents
           /\ \A n \in SegName : /\ Current[n] = files[n].cur /\ files[n].cur \in Seq(Nat)
                                 /\ files[n].poss \in SUBSET Seq(Nat)
                                 /\ files[n] = [cur |-> files[n].cur, poss |-> files[n].poss]
BY DEF Shape, Current, Contents

LEMMA Views ==
    ASSUME Shape, SegsInv
    PROVE  /\ SegSet(Names) /\ Newest \in SegName /\ 0 \in SegName
           /\ With(files[Newest].cur) = Current
           /\ \A t \in Seq(Nat) : With(t) \in Contents /\ With(t)[Newest] = t
           /\ \A t \in Seq(Nat) : Total(Names, With(t)) = Starts[Len(Names)] + Len(t)
           /\ Starts[Len(Names)] \in Nat
           /\ \A t \in Seq(Nat) : Bases(Names, With(t)) = Starts
<1>1. Names \in Seq(SegName) /\ Len(Names) > 0
    BY DEF Shape, SegsInv, Names
<1>2. SegSet(Names)
    BY <1>1 DEF SegSet, SegsInv
<1>3. Newest \in SegName
    BY <1>1 DEF Newest
<1>4. Current \in Contents /\ \A n \in SegName : Current[n] = files[n].cur
    BY FileTypes
<1>5. With(files[Newest].cur) = Current
    BY <1>3, <1>4 DEF With, Contents
<1>6. \A t \in Seq(Nat) : /\ With(t) \in Contents /\ With(t)[Newest] = t
                          /\ \A x \in SegName : x # Newest => With(t)[x] = Current[x]
    BY <1>3, <1>4 DEF With, Contents
<1>7. ASSUME NEW t \in Seq(Nat)
      PROVE /\ Bases(Names, With(t)) = Starts /\ Total(Names, With(t)) = Starts[Len(Names)] + Len(t)
    BY <1>2, <1>4, <1>6, LastChanged DEF Newest, Starts
<1>8. Starts[Len(Names)] \in Nat
    BY <1>2, <1>4, SetMatrix DEF Starts
<1>9. 0 \in SegName
    BY StoreAssumption DEF SegName
<1> QED
    BY <1>2, <1>3, <1>5, <1>6, <1>7, <1>8, <1>9

\* The RAM of a writer that is not inside compact's rewrite is the disk's.
LEMMA OpenViews ==
    ASSUME Shape, SegsInv, up, ~Rewriting
    PROVE  /\ segments = Names /\ base = Starts /\ Active = Newest
           /\ Len(base) = Len(Names) /\ base[Len(base)] = Starts[Len(Names)]
           /\ RowCount = Total(Names, Current)
           /\ RowCount = Starts[Len(Names)] + Len(files[Newest].cur)
           /\ RowCount \in Nat /\ next_id = manifest.next_id
<1>1. segments = Names /\ base = Starts /\ next_id = manifest.next_id
    BY DEF SegsInv
<1>2. SegSet(Names) /\ Current \in Contents /\ Newest \in SegName
    BY Views, FileTypes
<1>3. Len(Starts) = Len(Names)
    BY <1>2, BasesIs DEF Starts, Segs, SegSet, Contents
<1>4. RowCount = Total(Names, Current) /\ Active = Newest
    BY <1>1 DEF RowCount, Total, Starts, Active, Newest
<1>5. Total(Names, Current) = Starts[Len(Names)] + Len(Current[Newest]) /\ Total(Names, Current) \in Nat
    BY <1>2, SetMatrix DEF Starts, Newest
<1>6. Current[Newest] = files[Newest].cur
    BY <1>2, FileTypes
<1> QED
    BY <1>1, <1>3, <1>4, <1>5, <1>6

-----------------------------------------------------------------------------
(* The backends, and what a step leaves as it was *)

LEMMA Regimes ==
    ASSUME Recoverable
    PROVE  /\ "sync" \in Faults => Durability = "kill"
           /\ "append" \in Faults => Durability = "kill" \/ OneObject
           /\ Durability = "power" => Barriers
           /\ Durability = "object" => Barriers \/ OneObject
           /\ OneObject => Durability = "object" /\ SegmentMaxRows = 0 /\ "reinforce" \notin Calls
           /\ "publish" \in Faults => SegmentMaxRows = 0 /\ "compact" \notin Calls
           /\ ~CompactCrash /\ "rewrite" \notin Faults
           /\ Durability \in {"kill", "power", "object"}
BY DurabilityAssumption DEF Recoverable, OneObject

LEMMA WroteIs ==
    ASSUME NEW f, NEW s
    PROVE  /\ Wrote(f, s).cur = s
           /\ Wrote(f, s) = [cur |-> s, poss |-> Wrote(f, s).poss]
           /\ Durability = "kill" => Wrote(f, s).poss = {s}
           /\ Durability = "power" => Wrote(f, s).poss = f.poss \cup {s}
           /\ Durability = "object" => Wrote(f, s).poss = f.poss
           /\ \A t \in Wrote(f, s).poss : t = s \/ t \in f.poss
BY DurabilityAssumption DEF Wrote

LEMMA SyncFailedIs ==
    ASSUME NEW c, NEW p, NEW f, f = [cur |-> c, poss |-> p]
    PROVE  SyncFailed(f) = [cur |-> c, poss |-> p \cup {c}]
BY DEF SyncFailed

\* The disk is left alone.
LEMMA DiskSame ==
    ASSUME files' = files, manifest'.segments = manifest.segments
    PROVE  /\ Names' = Names /\ Newest' = Newest /\ Current' = Current /\ Starts' = Starts
           /\ \A t : With(t)' = With(t)
           /\ \A l, t : Held(l, t)' <=> Held(l, t)
<1>1. Names' = Names /\ Newest' = Newest /\ Current' = Current
    BY DEF Names, Newest, Current
<1>2. Starts' = Starts
    BY <1>1 DEF Starts
<1>3. \A t : With(t)' = With(t)
    BY <1>1 DEF With
<1>4. \A l, t : Held(l, t)' <=> Held(l, t)
    BY <1>1, <1>3 DEF Held
<1> QED
    BY <1>1, <1>2, <1>3, <1>4

\* Only the active segment is written.
LEMMA ActiveChanged ==
    ASSUME Shape, SegsInv, manifest'.segments = manifest.segments,
           NEW c \in Seq(Nat), NEW p \in SUBSET Seq(Nat),
           files' = [files EXCEPT ![Newest] = [cur |-> c, poss |-> p]]
    PROVE  /\ Names' = Names /\ Newest' = Newest /\ Starts' = Starts
           /\ Current' = With(c)
           /\ files'[Newest] = [cur |-> c, poss |-> p]
           /\ files'[Newest].cur = c /\ files'[Newest].poss = p
           /\ \A n \in SegName : n # Newest => files'[n] = files[n]
           /\ files' \in [SegName -> [cur : Seq(Nat), poss : SUBSET Seq(Nat)]]
           /\ \A t : With(t)' = With(t)
           /\ \A l, t : Held(l, t)' <=> Held(l, t)
<1>1. Names' = Names /\ Newest' = Newest
    BY DEF Names, Newest
<1>2. Newest \in SegName /\ files \in [SegName -> [cur : Seq(Nat), poss : SUBSET Seq(Nat)]]
    BY Views DEF Shape
<1>3. /\ files'[Newest] = [cur |-> c, poss |-> p]
      /\ \A n \in SegName : n # Newest => files'[n] = files[n]
      /\ files' \in [SegName -> [cur : Seq(Nat), poss : SUBSET Seq(Nat)]]
    BY <1>2
<1>4. Current' = With(c)
    BY <1>2, <1>3 DEF Current, With
<1>5. \A t : With(t)' = With(t)
    BY <1>1, <1>2, <1>4 DEF With, Current
<1>6. \A l, t : Held(l, t)' <=> Held(l, t)
    BY <1>1, <1>5 DEF Held
<1>7. Starts' = Starts
    BY <1>1, <1>4, Views DEF Starts
<1> QED
    BY <1>1, <1>3, <1>4, <1>5, <1>6, <1>7

Core ==
    /\ Shape /\ StepInv /\ BeginInv /\ SegsInv /\ CertainInv /\ RowsInv
    /\ BatchInv /\ SweepInv /\ IndexInv /\ PromiseInv /\ PlanInv

\* A call that is no batch and no sweep unwinds nothing.
LEMMA UnwoundIs ==
    /\ ~Batching /\ op.kind # "sweep" => Unwound = log.cur
    /\ Batching \/ op.kind = "sweep" => Unwound = SubSeq(log.cur, 1, op.lmark)
BY DEF Unwound

\* Between a call's return and the next, and before a call's first step.
LEMMA Apart ==
    ASSUME Core, op.pc \notin {"data", "dsync"}, Recoverable, Durability = "power"
    PROVE  ~Rewriting => files[Newest].poss = {files[Newest].cur}
<1>1. Newest \in SegName /\ ~OneObject
    BY Views, Regimes DEF Core
<1> QED
    BY <1>1 DEF Core, CertainInv

-----------------------------------------------------------------------------
(* Steps that touch neither the disk nor the index *)

\* The parts of SegsInv and IndexInv that are about the call in progress.
MaySeal == op.pc = "seal" \/ op.kind = "flush" => (NeedsSeal => next_id <= MaxSeg)
StagedLive ==
    op.kind \in {"delete", "reinforce"} \/ (op.kind = "upsert" /\ op.pc = "publish") =>
        \A k \in DOMAIN op.staged : op.staged[k].id \notin ahead

LEMMA Quiet ==
    ASSUME Core,
           UNCHANGED <<files, log, manifest, up, segments, base, next_id, docs, allowed, ahead>>,
           pending_barrier' \in BOOLEAN, version' \in Nat, stamps' \in Nat,
           OpShape', StepInv', BeginInv', BatchInv', SweepInv', MaySeal', StagedLive',
           ~Rewriting, ~Rewriting', up,
           Unwound = log.cur, Unwound' = log.cur,
           op.pc \notin {"data", "dsync"}, op'.pc \notin {"blog", "log", "lsync", "publish"}
    PROVE  Core'
<1>1. Shape'
    BY DEF Core, Shape
<1>2. /\ Names' = Names /\ Newest' = Newest /\ Current' = Current /\ Starts' = Starts
      /\ \A l, t : Held(l, t)' <=> Held(l, t)
    BY DiskSame
<1>3. SegsInv'
    BY <1>2 DEF Core, SegsInv, MaySeal
<1>4. CertainInv'
    BY <1>2 DEF Core, CertainInv
<1>5. RowsInv'
  <2>1. /\ \A l \in log.poss : \A t \in files[Newest].poss \cup {files[Newest].cur} : Held(l, t)
        /\ Held(log.cur, files[Newest].cur)
    BY DEF Core, RowsInv
  <2> QED
    BY <1>2, <2>1 DEF RowsInv
<1>6. IndexInv'
    BY DEF Core, IndexInv, StagedLive
<1>7. PromiseInv'
    BY DEF Core, PromiseInv
<1>8. PlanInv'
    BY DEF PlanInv
<1> QED
    BY <1>1, <1>3, <1>4, <1>5, <1>6, <1>7, <1>8 DEF Core

LEMMA IdleShape == Idle0 \in Progress
<1>1. Absent \in Indexed
    BY DEF Absent, Indexed
<1>2. NoPlan \in Plan
    BY <1>1 DEF NoPlan, Plan
<1> QED
    BY <1>2 DEF Idle0, Pcs, Kinds, Progress

\* What holds of an open store with no call in progress.
LEMMA IdleFacts ==
    ASSUME Core, Idle
    PROVE  /\ up /\ op.pc = "idle" /\ op.kind = "none" /\ ~Rewriting /\ ~Batching
           /\ Unwound = log.cur /\ OpShape
BY DEF Core, Idle, StepInv, Rewriting, Batching, Unwound, Shape

LEMMA BatchType ==
    ASSUME NEW b \in Batches
    PROVE  b \in Seq([id : Docs, vecs : Nat]) /\ Len(b) \in Nat /\ Len(b) > 0
<1>1. PICK k \in 1..MaxBatch : b \in [1..k -> [id : Docs, vecs : 0..MaxVecs]]
    BY DEF Batches
<1>2. k \in Nat /\ k > 0 /\ 0..MaxVecs \subseteq Nat
    BY <1>1, StoreAssumption
<1>3. b \in [1..k -> [id : Docs, vecs : Nat]]
    BY <1>1, <1>2
<1> DEFINE T == [id : Docs, vecs : Nat]
<1> HIDE DEF T
<1>4. b \in [1..k -> T]
    BY <1>3 DEF T
<1>5. b \in Seq(T) /\ Len(b) = k
    BY <1>2, <1>4
<1> QED
    BY <1>2, <1>5 DEF T

LEMMA UpsertBegins ==
    ASSUME Core, Recoverable, NEW b \in Batches, NEW defer \in Deferring, UpsertBegin(b, defer)
    PROVE  Core'
<1>1. /\ Idle /\ UNCHANGED <<files, log, manifest, up, segments, base, next_id, docs, allowed, ahead>>
      /\ UNCHANGED <<pending_barrier, version>> /\ stamps' = stamps + Len(b)
      /\ NeedsSeal => next_id <= MaxSeg
      /\ op' = [Idle0 EXCEPT !.pc = "seal", !.kind = "upsert", !.batch = b,
                             !.barrier = barrier_now(defer), !.first = stamps]
    BY DEF UpsertBegin, Call, disk, ram
<1>2. /\ up /\ op.pc = "idle" /\ op.kind = "none" /\ ~Rewriting /\ ~Batching
      /\ Unwound = log.cur /\ OpShape
    BY <1>1, IdleFacts
<1>3. b \in Seq([id : Docs, vecs : Nat]) /\ Len(b) \in Nat /\ Len(b) > 0
    BY BatchType
<1>4. /\ op'.pc = "seal" /\ op'.kind = "upsert" /\ op'.batch = b /\ op'.i = 0 /\ op'.staged = <<>>
      /\ op'.barrier = barrier_now(defer)
    BY <1>1 DEF Idle0
<1>5. OpShape'
    BY <1>1, <1>3, IdleShape DEF OpShape, Progress, Pcs, Kinds, Core, Shape, barrier_now
<1>6. StepInv'
    BY <1>1, <1>2, <1>4 DEF StepInv, Barriers, barrier_now
<1>7. BeginInv'
    BY <1>3, <1>4 DEF BeginInv
<1>8. BatchInv' /\ SweepInv' /\ ~Rewriting' /\ ~Batching' /\ StagedLive'
    BY <1>4 DEF BatchInv, SweepInv, Batching, Rewriting, StagedLive
<1>9. MaySeal'
    BY <1>1, <1>4 DEF MaySeal, NeedsSeal, ActiveRows, Active
<1>10. Unwound' = log.cur
    BY <1>1, <1>4, <1>8 DEF Unwound
<1>11. pending_barrier' \in BOOLEAN /\ version' \in Nat /\ stamps' \in Nat
    BY <1>1, <1>3 DEF Core, Shape
<1> QED
    BY <1>1, <1>2, <1>4, <1>5, <1>6, <1>7, <1>8, <1>9, <1>10, <1>11, Quiet

\* commit, flush and compact begin with the rest of the call at its default.
LEMMA CallBegins ==
    ASSUME Core, Recoverable, Commit \/ Flush \/ Compact
    PROVE  Core'
<1>1. /\ Idle /\ UNCHANGED <<files, log, manifest, up, segments, base, next_id, docs, allowed, ahead>>
      /\ UNCHANGED <<pending_barrier, version, stamps>>
    BY DEF Commit, Flush, Compact, Call, disk, ram
<1>2. \/ op' = [Idle0 EXCEPT !.pc = "bdata", !.kind = "commit"]
      \/ op' = [Idle0 EXCEPT !.pc = "bdata", !.kind = "flush"] /\ (NeedsSeal => next_id <= MaxSeg)
      \/ op' = [Idle0 EXCEPT !.pc = "crows", !.kind = "compact"] /\ "compact" \in Calls
    BY DEF Commit, Flush, Compact
<1>3. /\ up /\ op.pc = "idle" /\ op.kind = "none" /\ ~Rewriting /\ ~Batching
      /\ Unwound = log.cur /\ OpShape
    BY <1>1, IdleFacts
<1>4. /\ \/ op'.pc = "bdata" /\ op'.kind = "commit"
         \/ op'.pc = "bdata" /\ op'.kind = "flush" /\ (NeedsSeal => next_id <= MaxSeg)
         \/ op'.pc = "crows" /\ op'.kind = "compact" /\ "compact" \in Calls
      /\ op'.staged = <<>>
    BY <1>2 DEF Idle0
<1>5. OpShape'
  <2>1. ASSUME NEW p \in Pcs, NEW k \in Kinds, op' = [Idle0 EXCEPT !.pc = p, !.kind = k]
        PROVE OpShape'
    BY <2>1, IdleShape DEF OpShape, Progress
  <2>2. {"bdata", "crows"} \subseteq Pcs /\ {"commit", "flush", "compact"} \subseteq Kinds
    BY DEF Pcs, Kinds
  <2> QED
    BY <1>2, <2>1, <2>2
<1>6. StepInv'
    BY <1>1, <1>3, <1>4 DEF StepInv
<1>7. BeginInv' /\ BatchInv' /\ SweepInv' /\ ~Rewriting' /\ ~Batching' /\ StagedLive'
    BY <1>4 DEF BeginInv, BatchInv, SweepInv, Batching, Rewriting, StagedLive
<1>8. MaySeal'
    BY <1>1, <1>4 DEF MaySeal, NeedsSeal, ActiveRows, Active
<1>9. Unwound' = log.cur
    BY <1>1, <1>4, <1>7 DEF Unwound
<1>10. pending_barrier' \in BOOLEAN /\ version' \in Nat /\ stamps' \in Nat
    BY <1>1 DEF Core, Shape
<1> QED
    BY <1>1, <1>3, <1>4, <1>5, <1>6, <1>7, <1>8, <1>9, <1>10, Quiet

\* The docs of a set in order of id.
LEMMA OrderFacts ==
    ASSUME NEW S \in SUBSET Docs, NEW order \in Orders(S)
    PROVE  /\ IsFiniteSet(S) /\ Cardinality(S) \in Nat /\ DOMAIN order = 1..Cardinality(S)
           /\ order \in Seq(S) /\ Len(order) = Cardinality(S)
           /\ \A k \in DOMAIN order : order[k] \in S
           /\ \A i, j \in DOMAIN order : i < j => order[i] < order[j]
           /\ S # {} => Cardinality(S) > 0
<1>1. IsFiniteSet(S)
    BY StoreAssumption, FS_Subset
<1>2. Cardinality(S) \in Nat /\ (S # {} => Cardinality(S) > 0)
    BY <1>1, FS_CardinalityType, FS_EmptySet
<1>3. /\ order \in [1..Cardinality(S) -> S]
      /\ \A i, j \in DOMAIN order : i < j => order[i] < order[j]
    BY DEF Orders
<1> QED
    BY <1>1, <1>2, <1>3

LEMMA DeleteBegins ==
    ASSUME Core, Recoverable, NEW S \in SUBSET Docs, NEW defer \in Deferring,
           NEW kind \in {"delete", "sweep"}, DeleteBegin(kind, S, defer)
    PROVE  Core'
<1>1. /\ Idle /\ UNCHANGED <<files, log, manifest, up, segments, base, next_id, docs, allowed, ahead>>
      /\ UNCHANGED <<pending_barrier, version, stamps>>
      /\ S # {} /\ S \subseteq LiveDocs
    BY DEF DeleteBegin, Call, disk, ram
<1>2. PICK order \in Orders(S) :
           op' = [Idle0 EXCEPT !.pc = IF kind = "sweep" THEN "slog" ELSE "dlog", !.kind = kind,
                     !.staged = [k \in DOMAIN order |-> [id |-> order[k], rows |-> {}, stamp |-> 0]],
                     !.lmark = Len(log.cur), !.barrier = barrier_now(defer)]
    BY DEF DeleteBegin
<1>3. /\ up /\ op.pc = "idle" /\ op.kind = "none" /\ ~Rewriting /\ ~Batching
      /\ Unwound = log.cur /\ OpShape
    BY <1>1, IdleFacts
<1> DEFINE st == [k \in DOMAIN order |-> [id |-> order[k], rows |-> {}, stamp |-> 0]]
<1>4. /\ op'.pc = (IF kind = "sweep" THEN "slog" ELSE "dlog") /\ op'.kind = kind
      /\ op'.staged = st /\ op'.lmark = Len(log.cur) /\ op'.i = 0
      /\ op'.barrier = barrier_now(defer)
    BY <1>2 DEF Idle0
<1>5. /\ st \in Seq(StagedRecord) /\ Len(st) > 0 /\ Len(st) \in Nat
      /\ DOMAIN st = 1..Len(st)
      /\ \A k \in DOMAIN st : st[k].id \in S
  <2>1. /\ Cardinality(S) \in Nat /\ DOMAIN order = 1..Cardinality(S) /\ Cardinality(S) > 0
        /\ \A k \in DOMAIN order : order[k] \in S
    BY <1>1, OrderFacts
  <2>2. \A k \in DOMAIN order : [id |-> order[k], rows |-> {}, stamp |-> 0] \in StagedRecord
    BY <2>1 DEF StagedRecord
  <2>3. st \in [1..Cardinality(S) -> StagedRecord]
    BY <2>1, <2>2
  <2>4. \A k \in DOMAIN st : st[k].id \in S
    BY <2>1
  <2> HIDE DEF st
  <2> QED
    BY <2>1, <2>3, <2>4
<1> HIDE DEF st
<1>6. log.cur \in Seq(Record) /\ Len(log.cur) \in Nat
    BY LogTypes DEF Core
<1>7. OpShape'
  <2>1. op' = [Idle0 EXCEPT !.pc = IF kind = "sweep" THEN "slog" ELSE "dlog", !.kind = kind,
                     !.staged = st, !.lmark = Len(log.cur), !.barrier = barrier_now(defer)]
    BY <1>2 DEF st
  <2> QED
    BY <2>1, <1>5, <1>6, IdleShape DEF OpShape, Progress, Pcs, Kinds, barrier_now
<1>8. StepInv'
    BY <1>1, <1>3, <1>4 DEF StepInv, Barriers, barrier_now
<1>9. BeginInv' /\ BatchInv' /\ ~Rewriting' /\ ~Batching'
    BY <1>4, <1>5 DEF BeginInv, BatchInv, Batching, Rewriting
<1>10. SweepInv'
    BY <1>1, <1>4, <1>5, <1>6 DEF SweepInv
<1>11. StagedLive'
  <2>1. \A d \in S : d \notin ahead
    BY <1>1, <1>3 DEF LiveDocs, Core, IndexInv, Absent
  <2> QED
    BY <1>1, <1>4, <1>5, <2>1 DEF StagedLive
<1>12. MaySeal'
    BY <1>4 DEF MaySeal
<1>13. Unwound' = log.cur
    BY <1>1, <1>4, <1>6, <1>9, PrefixWhole DEF Unwound
<1>14. pending_barrier' \in BOOLEAN /\ version' \in Nat /\ stamps' \in Nat
    BY <1>1 DEF Core, Shape
<1>15. op.pc \notin {"data", "dsync"} /\ op'.pc \notin {"blog", "log", "lsync", "publish"}
    BY <1>3, <1>4
<1> QED
    BY <1>1, <1>3, <1>7, <1>8, <1>9, <1>10, <1>11, <1>12, <1>13, <1>14, <1>15, Quiet

-----------------------------------------------------------------------------
(* maybe_seal *)

\* A call that returns leaves nothing in progress.
LEMMA Returns ==
    ASSUME op' = Idle0
    PROVE  /\ OpShape' /\ StepInv' /\ BeginInv' /\ BatchInv' /\ SweepInv' /\ PlanInv'
           /\ MaySeal' /\ StagedLive' /\ ~Rewriting' /\ ~Batching'
           /\ Unwound' = log'.cur /\ op'.pc = "idle" /\ op'.kind = "none"
<1>1. op'.pc = "idle" /\ op'.kind = "none"
    BY DEF Idle0
<1>2. ~Rewriting' /\ ~Batching'
    BY <1>1 DEF Rewriting, Batching
<1>3. OpShape'
    BY IdleShape DEF OpShape
<1>4. StepInv' /\ BeginInv' /\ BatchInv' /\ SweepInv' /\ PlanInv' /\ MaySeal' /\ StagedLive'
    BY <1>1, <1>2 DEF StepInv, BeginInv, BatchInv, SweepInv, PlanInv, MaySeal, StagedLive
<1>5. Unwound' = log'.cur
    BY <1>1, <1>2 DEF Unwound
<1> QED
    BY <1>1, <1>2, <1>3, <1>4, <1>5

\* The log and whatever a crash may leave of it name rows that are there.
LEMMA LogsBacked ==
    ASSUME Core, ~Rewriting, NEW l \in log.poss \cup {log.cur}
    PROVE  /\ l \in Seq(Record) /\ Backed(l, Names, Current)
           /\ Below(l, Total(Names, Current))
<1>1. l \in Seq(Record)
    BY LogTypes DEF Core
<1>2. Held(l, files[Newest].cur)
    BY DEF Core, RowsInv
<1>3. Backed(l, Names, Current)
    BY <1>2, Views DEF Held, Core
<1>4. SegSet(Names) /\ Current \in Contents
    BY Views, FileTypes DEF Core
<1>5. \A k \in DOMAIN l : l[k].rows \subseteq Nat
    BY <1>1, RecordRows
<1> QED
    BY <1>1, <1>3, <1>4, <1>5, BackedBelow

\* The marks a batch takes are good ones.
LEMMA BatchStarts ==
    ASSUME OpShape, op.i = 0, op.staged = <<>>, Len(op.batch) > 0, log' = log,
           log.cur \in Seq(Record), NEW rows \in Nat,
           op' = [op EXCEPT !.pc = "data", !.dmark = rows, !.lmark = Len(log.cur)],
           Total(Names', Current') = rows, Starts'[Len(Names')] <= rows,
           \A l \in log.poss \cup {log.cur} : Below(l, rows)
    PROVE  /\ BatchInv' /\ OpShape' /\ Unwound' = log.cur
           /\ op'.pc = "data" /\ op'.kind = op.kind /\ op'.barrier = op.barrier
           /\ op'.staged = op.staged /\ op'.batch = op.batch /\ op'.i = 0
<1>1. Len(log.cur) \in Nat
    BY LenProperties
<1>2. /\ op'.pc = "data" /\ op'.dmark = rows /\ op'.lmark = Len(log.cur) /\ op'.i = 0
      /\ op'.staged = <<>> /\ op'.batch = op.batch /\ op'.kind = op.kind /\ op'.barrier = op.barrier
    BY DEF OpShape, Progress
<1>3. OpShape'
    BY <1>1 DEF OpShape, Progress, Pcs
<1>4. Batching'
    BY <1>2 DEF Batching
<1>5. Unwound' = log.cur
    BY <1>2, <1>4, PrefixWhole DEF Unwound
<1>6. /\ (op'.lmark <= Len(log'.cur)) /\ Len(log'.cur) = op'.lmark + op'.i
      /\ op'.i <= Len(op'.staged) /\ Len(op'.staged) < Len(op'.batch) /\ Len(op'.staged) <= Len(op'.batch)
      /\ DOMAIN op'.staged = {} /\ 1..op'.i = {}
  <2>1. Len(op.batch) \in Nat
    BY OpTypes
  <2> QED
    BY <1>1, <1>2, <2>1
<1>7. Starts'[Len(Names')] <= op'.dmark /\ op'.dmark <= Total(Names', Current')
    BY <1>2
<1>8. Below(Unwound', op'.dmark) /\ \A l \in log'.poss : Below(l, op'.dmark)
    BY <1>2, <1>5
<1>9. Backed(op'.staged, Names', Current')
    BY <1>6 DEF Backed
<1>10. BatchInv'
    BY <1>2, <1>4, <1>6, <1>7, <1>8, <1>9 DEF BatchInv
<1> QED
    BY <1>2, <1>3, <1>5, <1>10

LEMMA SealSkips ==
    ASSUME Core, Recoverable, SealSkip
    PROVE  Core'
<1>1. /\ up /\ op.pc = "seal"
      /\ UNCHANGED <<files, log, manifest, up, segments, base, next_id, docs, allowed, ahead>>
      /\ UNCHANGED <<pending_barrier, version, stamps>>
      /\ AfterSeal(RowCount)
    BY DEF SealSkip, disk, ram, aux
<1>2. /\ ~Rewriting /\ ~Batching /\ op.kind # "sweep"
      /\ op.kind = "upsert" => op.i = 0 /\ op.staged = <<>>
    BY <1>1 DEF Core, StepInv, Rewriting, Batching, BeginInv
<1>3. Unwound = log.cur
    BY <1>2 DEF Unwound
<1>4. pending_barrier' \in BOOLEAN /\ version' \in Nat /\ stamps' \in Nat
    BY <1>1 DEF Core, Shape
<1>5. CASE op' = Idle0
  <2>1. op.pc \notin {"data", "dsync"} /\ op'.pc \notin {"blog", "log", "lsync", "publish"}
    BY <1>1, <1>5, Returns
  <2> QED
    BY <1>1, <1>2, <1>3, <1>4, <1>5, <2>1, Returns, Quiet
<1>6. CASE /\ op.kind # "flush"
           /\ op' = [op EXCEPT !.pc = "data", !.dmark = RowCount, !.lmark = Len(log.cur)]
  <2>1. /\ RowCount = Total(Names, Current) /\ RowCount \in Nat
        /\ RowCount = Starts[Len(Names)] + Len(files[Newest].cur)
    BY <1>1, <1>2, OpenViews DEF Core
  <2>2. OpShape /\ log.cur \in Seq(Record) /\ Starts[Len(Names)] \in Nat /\ Len(files[Newest].cur) \in Nat
    BY LogTypes, Views, FileTypes, LenProperties DEF Core, Shape
  <2>3. \A l \in log.poss \cup {log.cur} : Below(l, RowCount)
    BY <1>2, <2>1, LogsBacked
  <2>4. Names' = Names /\ Current' = Current /\ Starts' = Starts
    BY <1>1, DiskSame
  <2>5. op.kind = "upsert" /\ Len(op.batch) > 0
    BY <1>1, <1>6 DEF Core, StepInv, BeginInv
  <2>6. Total(Names', Current') = RowCount /\ Starts'[Len(Names')] <= RowCount
    <3>1. Starts[Len(Names)] <= RowCount
      BY <2>1, <2>2
    <3> QED
      BY <2>1, <2>4, <3>1
  <2>7. /\ BatchInv' /\ OpShape' /\ Unwound' = log.cur
        /\ op'.pc = "data" /\ op'.kind = op.kind /\ op'.barrier = op.barrier
        /\ op'.staged = op.staged /\ op'.batch = op.batch /\ op'.i = 0
    BY <1>1, <1>2, <1>6, <2>1, <2>2, <2>3, <2>5, <2>6, BatchStarts
  <2>8. StepInv'
    BY <1>1, <2>5, <2>7 DEF Core, StepInv
  <2>9. BeginInv' /\ SweepInv' /\ StagedLive' /\ MaySeal' /\ ~Rewriting'
    BY <2>5, <2>7 DEF BeginInv, SweepInv, StagedLive, MaySeal, Rewriting
  <2>10. op.pc \notin {"data", "dsync"} /\ op'.pc \notin {"blog", "log", "lsync", "publish"}
    BY <1>1, <2>7
  <2> QED
    BY <1>1, <1>2, <1>3, <1>4, <2>7, <2>8, <2>9, <2>10, Quiet
<1> QED
    BY <1>1, <1>5, <1>6 DEF AfterSeal, Return

\* The object a seal opens is a new one.
LEMMA NextIsNew ==
    ASSUME Core, op.pc = "seal", up, NeedsSeal
    PROVE  /\ next_id \in SegName /\ next_id = manifest.next_id
           /\ files[next_id] = File(<<>>) /\ files[next_id].cur = <<>>
           /\ [files EXCEPT ![next_id] = Synced(@)] = files
           /\ [files EXCEPT ![next_id] = SyncFailed(@)] = files
<1>1. next_id = manifest.next_id /\ next_id <= MaxSeg /\ next_id \in Nat
  <2>1. next_id \in Nat
    BY DEF Core, Shape
  <2>2. next_id = manifest.next_id /\ next_id <= MaxSeg
    BY DEF Core, SegsInv
  <2> QED
    BY <2>1, <2>2
<1>2. next_id \in SegName
    BY <1>1, StoreAssumption DEF SegName
<1>3. files[next_id] = File(<<>>)
    BY <1>1, <1>2 DEF Core, SegsInv
<1>4. Synced(files[next_id]) = files[next_id] /\ SyncFailed(files[next_id]) = files[next_id]
  <2>1. files[next_id] = [cur |-> <<>>, poss |-> {<<>>}] /\ files[next_id].cur = <<>>
    BY <1>3 DEF File
  <2>2. SyncFailed(files[next_id]) = [cur |-> <<>>, poss |-> {<<>>} \cup {<<>>}]
    BY <2>1, SyncFailedIs
  <2>3. {<<>>} \cup {<<>>} = {<<>>}
    OBVIOUS
  <2>4. SyncFailed(files[next_id]) = files[next_id]
    BY <2>1, <2>2, <2>3
  <2>5. Synced(files[next_id]) = files[next_id]
    BY <2>1, <1>3 DEF Synced
  <2> QED
    BY <2>4, <2>5
<1>5. files \in [SegName -> [cur : Seq(Nat), poss : SUBSET Seq(Nat)]]
    BY DEF Core, Shape
<1>6. /\ [files EXCEPT ![next_id] = Synced(@)] = files
      /\ [files EXCEPT ![next_id] = SyncFailed(@)] = files
    BY <1>2, <1>4, <1>5
<1> QED
    BY <1>1, <1>2, <1>3, <1>6 DEF File

LEMMA SealFailsQuietly ==
    ASSUME Core, Recoverable, SealFails
    PROVE  Core'
<1>1. /\ up /\ op.pc = "seal" /\ NeedsSeal /\ op' = Idle0
      /\ files' = [files EXCEPT ![next_id] = SyncFailed(@)]
      /\ UNCHANGED <<log, manifest, up, segments, base, next_id, docs, allowed, ahead>>
      /\ UNCHANGED <<pending_barrier, version, stamps>>
    BY DEF SealFails, ram, aux, Return
<1>2. files' = files
    BY <1>1, NextIsNew
<1>3. ~Rewriting /\ ~Batching /\ op.kind # "sweep"
    BY <1>1 DEF Core, StepInv, Rewriting, Batching
<1>4. Unwound = log.cur
    BY <1>3 DEF Unwound
<1>5. pending_barrier' \in BOOLEAN /\ version' \in Nat /\ stamps' \in Nat
    BY <1>1 DEF Core, Shape
<1>6. op.pc \notin {"data", "dsync"} /\ op'.pc \notin {"blog", "log", "lsync", "publish"}
    BY <1>1, Returns
<1> QED
    BY <1>1, <1>2, <1>3, <1>4, <1>5, <1>6, Returns, Quiet

\* A sealed store is the same rows over one more segment.
LEMMA SealedSegs ==
    ASSUME Core, Recoverable, up, op.pc = "seal", NeedsSeal, files' = files,
           manifest' = Manifest(Append(segments, next_id), next_id + 1, NextVersion)
    PROVE  /\ Names' = Append(Names, next_id) /\ Newest' = next_id /\ Current' = Current
           /\ SegSet(Names') /\ Len(Names') = Len(Names) + 1 /\ Names'[1] = Names[1]
           /\ \A i \in 1..Len(Names') : Names'[i] < next_id + 1
           /\ Starts' = Append(base, RowCount)
           /\ Starts'[Len(Names')] = RowCount
           /\ Total(Names', Current') = RowCount
           /\ With(<<>>)' = Current
<1>1. ~Rewriting
    BY DEF Rewriting
<1>2. /\ segments = Names /\ base = Starts /\ RowCount = Total(Names, Current) /\ RowCount \in Nat
      /\ SegSet(Names) /\ Current \in Contents /\ Len(base) = Len(Names)
    BY <1>1, OpenViews, Views, FileTypes DEF Core
<1>3. next_id \in SegName /\ next_id = manifest.next_id /\ files[next_id].cur = <<>>
    BY NextIsNew
<1>4. next_id \in Nat
    BY DEF Core, Shape
<1>5. Names \in Seq(SegName) /\ Len(Names) \in Nat /\ Len(Names) > 0
    BY <1>2 DEF SegSet
<1>6. Names' = Append(Names, next_id)
    BY <1>2 DEF Names, Manifest
<1>7. /\ Names' \in Seq(SegName) /\ Len(Names') = Len(Names) + 1
      /\ Names'[Len(Names) + 1] = next_id /\ \A i \in 1..Len(Names) : Names'[i] = Names[i]
  <2> DEFINE all == Append(Names, next_id)
  <2>1. /\ all \in Seq(SegName) /\ Len(all) = Len(Names) + 1
        /\ all[Len(Names) + 1] = next_id /\ \A i \in 1..Len(Names) : all[i] = Names[i]
    BY <1>3, <1>5, AppendProperties
  <2> QED
    BY <1>6, <2>1
<1>8. Newest' = next_id
    BY <1>7 DEF Newest
<1>9. \A i \in 1..Len(Names) : Names[i] < next_id /\ Names[i] \in Nat
    BY <1>3, <1>5, StoreAssumption, SMTT(30) DEF Core, SegsInv, SegName
<1>10. \A i \in 1..Len(Names') : i \in 1..Len(Names) \/ i = Len(Names) + 1
  <2> DEFINE n == Len(Names)
  <2> HIDE DEF n
  <2>1. \A i \in 1..(n + 1) : i \in 1..n \/ i = n + 1
    BY <1>5 DEF n
  <2> QED
    BY <1>7, <2>1 DEF n
<1>11. \A i \in 1..Len(Names') : Names'[i] < next_id + 1
    BY <1>4, <1>7, <1>9, <1>10
<1>12. ASSUME NEW i \in 1..Len(Names'), NEW j \in 1..Len(Names'), Names'[i] = Names'[j] PROVE i = j
  <2>1. CASE i \in 1..Len(Names) /\ j \in 1..Len(Names)
    BY <1>2, <1>7, <1>12, <2>1 DEF SegSet
  <2>2. CASE i = Len(Names) + 1 /\ j \in 1..Len(Names)
    BY <1>4, <1>7, <1>9, <1>12, <2>2
  <2>3. CASE i \in 1..Len(Names) /\ j = Len(Names) + 1
    BY <1>4, <1>7, <1>9, <1>12, <2>3
  <2> QED
    BY <1>10, <2>1, <2>2, <2>3
<1>13. SegSet(Names')
    BY <1>5, <1>7, <1>12 DEF SegSet
<1>14. Current' = Current
    BY DEF Current
<1>15. Starts' = Append(Starts, RowCount)
  <2>1. Segs(Names, Current)
    BY <1>2 DEF Segs, SegSet, Contents
  <2>2. Bases(Append(Names, next_id), Current) = Append(Starts, RowCount)
    BY <1>2, <1>3, <1>5, <2>1, BasesAppend DEF Total, Starts
  <2> QED
    BY <1>6, <1>14, <2>2 DEF Starts
<1>16. Starts'[Len(Names')] = RowCount
  <2>1. Starts \in Seq(Nat) /\ Len(Starts) = Len(Names)
    BY <1>2, BasesIs DEF Segs, SegSet, Contents, Starts
  <2> DEFINE st == Append(Starts, RowCount)
  <2>2. st[Len(Starts) + 1] = RowCount
    BY <1>2, <2>1, AppendProperties
  <2> HIDE DEF st
  <2> QED
    BY <1>7, <1>15, <2>1, <2>2 DEF st
<1>17. Current[next_id] = <<>>
    BY <1>3, FileTypes DEF Core
<1>18. Total(Names', Current') = RowCount
  <2>1. Rows(Names', Starts', Current') = Starts'[Len(Names')] + Len(Current'[Names'[Len(Names')]])
    BY DEF Rows
  <2>2. Current'[Names'[Len(Names')]] = <<>>
    BY <1>8, <1>14, <1>17 DEF Newest
  <2> QED
    BY <1>2, <1>16, <2>1, <2>2 DEF Total, Starts
<1>19. With(<<>>)' = Current
    BY <1>2, <1>3, <1>8, <1>14, <1>17 DEF With, Contents
<1> QED
    BY <1>2, <1>5, <1>6, <1>7, <1>8, <1>11, <1>13, <1>14, <1>15, <1>16, <1>18, <1>19

LEMMA Seals ==
    ASSUME Core, Recoverable, Seal
    PROVE  Core'
<1>1. /\ up /\ op.pc = "seal" /\ NeedsSeal
      /\ files' = [files EXCEPT ![next_id] = Synced(@)]
      /\ segments' = Append(segments, next_id) /\ base' = Append(base, RowCount)
      /\ next_id' = next_id + 1 /\ version' = NextVersion
      /\ UNCHANGED <<log, up, docs, pending_barrier, stamps, allowed, ahead>>
    BY DEF Seal, aux
<1>2. /\ manifest' = Manifest(Append(segments, next_id), next_id + 1, NextVersion)
      /\ AfterSeal(RowCount + Len(files[next_id].cur))
  <2>1. "publish" \notin Faults
    BY <1>1, Regimes, StoreAssumption DEF NeedsSeal
  <2> QED
    BY <2>1 DEF Seal
<1>3. /\ next_id \in SegName /\ next_id = manifest.next_id /\ files[next_id] = File(<<>>)
      /\ files[next_id].cur = <<>> /\ files' = files
    BY <1>1, NextIsNew
<1>4. /\ ~Rewriting /\ ~Batching /\ op.kind # "sweep"
      /\ op.kind = "upsert" => op.i = 0 /\ op.staged = <<>>
      /\ op.kind \in {"upsert", "flush"} /\ ~OneObject
  <2>1. SegmentMaxRows # 0
    BY <1>1, StoreAssumption DEF NeedsSeal
  <2> QED
    BY <1>1, <2>1 DEF Core, StepInv, Rewriting, Batching, BeginInv, OneObject
<1>5. Unwound = log.cur
    BY <1>4 DEF Unwound
<1>6. /\ Names' = Append(Names, next_id) /\ Newest' = next_id /\ Current' = Current
      /\ SegSet(Names') /\ Len(Names') = Len(Names) + 1 /\ Names'[1] = Names[1]
      /\ \A i \in 1..Len(Names') : Names'[i] < next_id + 1
      /\ Starts' = Append(base, RowCount)
      /\ Starts'[Len(Names')] = RowCount
      /\ Total(Names', Current') = RowCount
      /\ With(<<>>)' = Current
    BY <1>1, <1>2, <1>3, SealedSegs
<1>7. /\ segments = Names /\ base = Starts /\ RowCount = Total(Names, Current) /\ RowCount \in Nat
      /\ SegSet(Names) /\ Current \in Contents /\ log.cur \in Seq(Record)
    BY <1>1, <1>4, OpenViews, Views, FileTypes, LogTypes DEF Core
<1>8. next_id \in Nat /\ version \in Nat /\ OpShape /\ base \in Seq(Nat) /\ segments \in Seq(SegName)
    BY DEF Core, Shape
<1>9. /\ manifest'.segments = Append(segments, next_id)
      /\ manifest' \in [segments : Seq(SegName), next_id : Nat, version : Nat]
      /\ manifest'.next_id = next_id + 1
      /\ segments' \in Seq(SegName) /\ base' \in Seq(Nat)
  <2>1. Append(segments, next_id) \in Seq(SegName) /\ Append(base, RowCount) \in Seq(Nat)
    BY <1>3, <1>7, <1>8, AppendProperties
  <2>2. version + 1 \in Nat /\ next_id + 1 \in Nat
    BY <1>8
  <2> QED
    BY <1>1, <1>2, <2>1, <2>2 DEF Manifest, NextVersion
<1>10. OpShape' => Shape'
  <2>1. version' \in Nat /\ next_id' \in Nat
    BY <1>1, <1>8 DEF NextVersion
  <2> QED
    BY <1>1, <1>3, <1>9, <2>1 DEF Core, Shape
<1>11. \A n \in SegName : files[n].poss = {files[n].cur}
    BY <1>1, <1>4 DEF Core, CertainInv
<1>12. op'.pc \in {"idle", "data"} => CertainInv'
    BY <1>1, <1>3, <1>11 DEF Core, CertainInv
<1>13. \A l \in log.poss \cup {log.cur} : Held(l, <<>>)' /\ Below(l, RowCount)
  <2> TAKE l \in log.poss \cup {log.cur}
  <2>1. l \in Seq(Record) /\ Backed(l, Names, Current) /\ Below(l, RowCount)
    BY <1>4, <1>7, LogsBacked
  <2>2. \A k \in DOMAIN l : l[k].rows \subseteq Nat
    BY <2>1, RecordRows
  <2>3. Backed(l, Append(Names, next_id), Current)
    BY <1>3, <1>7, <2>1, <2>2, BackedSealed
  <2> QED
    BY <1>6, <2>1, <2>3 DEF Held
<1>14. RowsInv'
  <2>1. files'[Newest'].cur = <<>> /\ files'[Newest'].poss = {<<>>}
    BY <1>3, <1>6 DEF File
  <2> QED
    BY <1>1, <1>13, <2>1 DEF RowsInv
<1>15. ~Rewriting' /\ MaySeal' => SegsInv'
  <2>1. \A n \in SegName : n >= manifest'.next_id => files'[n] = File(<<>>)
    <3>1. \A n \in SegName : n >= next_id => files[n] = File(<<>>)
      BY <1>3 DEF Core, SegsInv
    <3>2. \A n \in SegName : n \in Nat
      BY StoreAssumption DEF SegName
    <3> QED
      BY <1>3, <1>8, <1>9, <3>1, <3>2
  <2>2. SegmentMaxRows # 0
    BY <1>1, StoreAssumption DEF NeedsSeal
  <2>3. Names[1] = BASE_SEGMENT
    BY DEF Core, SegsInv
  <2>4. SegSet(Names') /\ Names' = segments' /\ base' = Starts' /\ Len(Names') > 0
    BY <1>1, <1>6, <1>7 DEF SegSet
  <2>5. \A i \in 1..Len(Names') : Names'[i] < manifest'.next_id
    BY <1>6, <1>9
  <2> QED
    BY <1>1, <1>6, <1>9, <2>1, <2>2, <2>3, <2>4, <2>5 DEF SegsInv, MaySeal, SegSet, Rewriting
<1>16. Unwound' = log.cur /\ StagedLive' => IndexInv' /\ PromiseInv'
    BY <1>1, <1>4, <1>5 DEF Core, IndexInv, PromiseInv, StagedLive
<1>17. CASE op' = Idle0
    BY <1>1, <1>10, <1>12, <1>14, <1>15, <1>16, <1>17, Returns DEF Core
<1>18. CASE /\ op.kind # "flush"
            /\ op' = [op EXCEPT !.pc = "data", !.dmark = RowCount, !.lmark = Len(log.cur)]
  <2>1. op.kind = "upsert" /\ Len(op.batch) > 0
    BY <1>4, <1>18 DEF Core, BeginInv
  <2>2. /\ BatchInv' /\ OpShape' /\ Unwound' = log.cur
        /\ op'.pc = "data" /\ op'.kind = op.kind /\ op'.barrier = op.barrier
        /\ op'.staged = op.staged /\ op'.batch = op.batch /\ op'.i = 0
    <3>1. Total(Names', Current') = RowCount /\ Starts'[Len(Names')] <= RowCount
      BY <1>6, <1>7
    <3>2. \A l \in log.poss \cup {log.cur} : Below(l, RowCount)
      BY <1>13
    <3> QED
      BY <1>1, <1>4, <1>7, <1>8, <1>18, <2>1, <3>1, <3>2, BatchStarts
  <2>3. StepInv'
    BY <1>1, <2>1, <2>2 DEF Core, StepInv
  <2>4. BeginInv' /\ SweepInv' /\ StagedLive' /\ MaySeal' /\ ~Rewriting' /\ PlanInv'
    BY <2>1, <2>2 DEF BeginInv, SweepInv, StagedLive, MaySeal, Rewriting, PlanInv
  <2> QED
    BY <1>10, <1>12, <1>14, <1>15, <1>16, <2>2, <2>3, <2>4 DEF Core
<1>19. RowCount + Len(files[next_id].cur) = RowCount
    BY <1>3, <1>7
<1> QED
    BY <1>2, <1>17, <1>18, <1>19 DEF AfterSeal, Return

-----------------------------------------------------------------------------
(* The batch *)

LEMMA BackedPrefix ==
    ASSUME NEW S, NEW l \in Seq(S), NEW m \in Nat, m <= Len(l), NEW names, NEW c, Backed(l, names, c)
    PROVE  Backed(SubSeq(l, 1, m), names, c)
<1> DEFINE p == SubSeq(l, 1, m)
<1>1. DOMAIN p = 1..m /\ \A i \in 1..m : p[i] = l[i] /\ i \in DOMAIN l
    BY Prefix
<1> HIDE DEF p
<1>2. Backed(p, names, c)
    BY <1>1 DEF Backed
<1> QED
    BY <1>2 DEF p

LEMMA WellFormedPrefix ==
    ASSUME NEW l \in Seq(Record), NEW m \in Nat, m <= Len(l), WellFormed(l)
    PROVE  WellFormed(SubSeq(l, 1, m)) /\ SubSeq(l, 1, m) \in Seq(Record)
<1> DEFINE p == SubSeq(l, 1, m)
<1>1. p \in Seq(Record) /\ DOMAIN p = 1..m /\ \A i \in 1..m : p[i] = l[i] /\ i \in DOMAIN l
    BY Prefix
<1> HIDE DEF p
<1>2. WellFormed(p)
    BY <1>1 DEF WellFormed
<1> QED
    BY <1>1, <1>2 DEF p

LEMMA HeldMore ==
    ASSUME Core, NEW l \in Seq(Record), Held(l, files[Newest].cur), NEW v \in Seq(Nat)
    PROVE  /\ Held(l, files[Newest].cur \o v)
           /\ With(files[Newest].cur \o v) = [Current EXCEPT ![Newest] = Current[Newest] \o v]
<1>1. /\ SegSet(Names) /\ Current \in Contents /\ Newest \in SegName
      /\ With(files[Newest].cur) = Current /\ Current[Newest] = files[Newest].cur
    BY Views, FileTypes DEF Core
<1>2. Backed(l, Names, Current) /\ \A k \in DOMAIN l : l[k].rows \subseteq Nat
    BY <1>1, RecordRows DEF Held
<1>3. Backed(l, Names, [Current EXCEPT ![Names[Len(Names)]] = Current[Names[Len(Names)]] \o v])
    BY <1>1, <1>2, BackedMore
<1>4. With(files[Newest].cur \o v) = [Current EXCEPT ![Newest] = Current[Newest] \o v]
    BY <1>1 DEF With
<1> QED
    BY <1>3, <1>4 DEF Held, Newest

LEMMA HeldCut ==
    ASSUME Core, NEW l \in Seq(Record), Held(l, files[Newest].cur),
           NEW m \in Nat, Starts[Len(Names)] <= m, m <= Total(Names, Current), Below(l, m)
    PROVE  Held(l, SubSeq(files[Newest].cur, 1, m - Starts[Len(Names)]))
<1>1. /\ SegSet(Names) /\ Current \in Contents /\ Newest \in SegName
      /\ With(files[Newest].cur) = Current /\ Current[Newest] = files[Newest].cur
    BY Views, FileTypes DEF Core
<1>2. Backed(l, Names, Current) /\ \A k \in DOMAIN l : l[k].rows \subseteq Nat
    BY <1>1, RecordRows DEF Held
<1>3. Backed(l, Names, [Current EXCEPT ![Names[Len(Names)]] =
                  SubSeq(Current[Names[Len(Names)]], 1, m - Bases(Names, Current)[Len(Names)])])
    BY <1>1, <1>2, BackedCut DEF Starts
<1>4. With(SubSeq(files[Newest].cur, 1, m - Starts[Len(Names)])) =
        [Current EXCEPT ![Newest] = SubSeq(Current[Newest], 1, m - Starts[Len(Names)])]
    BY <1>1 DEF With
<1> QED
    BY <1>3, <1>4 DEF Held, Newest, Starts

\* What a batch or a sweep in progress will not unwind.
LEMMA UnwoundFacts ==
    ASSUME Core, Recoverable, Batching \/ op.kind = "sweep"
    PROVE  /\ Unwound = SubSeq(log.cur, 1, op.lmark) /\ op.lmark \in Nat /\ op.lmark <= Len(log.cur)
           /\ Unwound \in Seq(Record) /\ WellFormed(Unwound) /\ Len(Unwound) = op.lmark
           /\ \A t : Held(log.cur, t) => Held(Unwound, t)
<1>1. Unwound = SubSeq(log.cur, 1, op.lmark)
    BY DEF Unwound
<1>2. OpShape /\ log.cur \in Seq(Record) /\ Len(log.cur) \in Nat
    BY LogTypes DEF Core, Shape
<1>3. op.lmark \in Nat /\ op.i \in Nat
    BY <1>2, OpTypes
<1>4. op.lmark <= Len(log.cur)
  <2>1. CASE Batching
    BY <2>1 DEF Core, BatchInv
  <2>2. CASE op.kind = "sweep"
    <3>1. Len(log.cur) = op.lmark + op.i
      BY <2>2 DEF Core, SweepInv
    <3> QED
      BY <1>2, <1>3, <3>1
  <2> QED
    BY <2>1, <2>2
<1>5. WellFormed(log.cur)
    BY DEF Core, IndexInv
<1>6. Len(Unwound) = op.lmark /\ Unwound \in Seq(Record)
    BY <1>1, <1>2, <1>3, <1>4, Prefix
<1>7. WellFormed(Unwound)
    BY <1>1, <1>2, <1>3, <1>4, <1>5, WellFormedPrefix
<1>8. ASSUME NEW t, Held(log.cur, t) PROVE Held(Unwound, t)
    BY <1>1, <1>2, <1>3, <1>4, <1>8, BackedPrefix DEF Held
<1> QED
    BY <1>1, <1>3, <1>4, <1>6, <1>7, <1>8

LEMMA RowsAfter ==
    ASSUME \A l, t : Held(l, t)' <=> Held(l, t), Newest' = Newest,
           NEW c, files'[Newest].cur = c, NEW p, files'[Newest].poss = p,
           \A l \in log'.poss : \A t \in p \cup {c} : Held(l, t), Held(log'.cur, c)
    PROVE  RowsInv'
<1>1. \A l \in log'.poss : \A t \in files'[Newest'].poss \cup {files'[Newest'].cur} : Held(l, t)'
    OBVIOUS
<1>2. Held(log.cur, files[Newest].cur)'
    OBVIOUS
<1> QED
    BY <1>1, <1>2 DEF RowsInv

\* A batch that fails goes back to its marks, in the two backends that may fail.
LEMMA RollsBack ==
    ASSUME Core, Recoverable, up, Batching, op' = Idle0,
           UNCHANGED <<manifest, up, segments, base, next_id, docs, allowed, ahead>>,
           pending_barrier' \in BOOLEAN, version' \in Nat, stamps' \in Nat,
           NEW cut, cut = SubSeq(files[Newest].cur, 1, op.dmark - Starts[Len(Names)]),
           NEW p, files' = [files EXCEPT ![Newest] = [cur |-> cut, poss |-> p]],
           NEW q, log' = [cur |-> Unwound, poss |-> q],
           \/ Durability = "kill" /\ p = {cut} /\ q = {Unwound}
           \/ OneObject /\ p = files[Newest].poss /\ q = log.poss
    PROVE  Core'
<1>1. ~Rewriting /\ op.kind = "upsert" /\ op.kind # "sweep"
    BY DEF Core, StepInv, Batching, Rewriting
<1>2. /\ Unwound = SubSeq(log.cur, 1, op.lmark) /\ op.lmark \in Nat /\ op.lmark <= Len(log.cur)
      /\ Unwound \in Seq(Record) /\ WellFormed(Unwound)
      /\ \A t : Held(log.cur, t) => Held(Unwound, t)
    BY UnwoundFacts
<1>3. /\ Starts[Len(Names)] <= op.dmark /\ op.dmark <= Total(Names, Current)
      /\ Below(Unwound, op.dmark)
      /\ Durability = "object" => \A l \in log.poss : Below(l, op.dmark)
    BY DEF Core, BatchInv
<1>4. /\ op.dmark \in Nat /\ Newest \in SegName /\ Starts[Len(Names)] \in Nat
      /\ files[Newest].cur \in Seq(Nat) /\ files[Newest].poss \in SUBSET Seq(Nat)
      /\ Total(Names, Current) = Starts[Len(Names)] + Len(files[Newest].cur)
      /\ RowCount = Total(Names, Current)
      /\ log.poss \in SUBSET Seq(Record)
    BY <1>1, OpTypes, Views, FileTypes, OpenViews, LogTypes DEF Core, Shape
<1>5. cut \in Seq(Nat)
  <2> DEFINE n == op.dmark - Starts[Len(Names)]
  <2>1. n \in Nat /\ n <= Len(files[Newest].cur)
    BY <1>3, <1>4, LenProperties
  <2> HIDE DEF n
  <2>2. SubSeq(files[Newest].cur, 1, n) \in Seq(Nat)
    BY <1>4, <2>1, Prefix
  <2> QED
    BY <2>2 DEF n
<1>6. p \in SUBSET Seq(Nat) /\ q \in SUBSET Seq(Record)
    BY <1>2, <1>4, <1>5
<1>7. /\ Names' = Names /\ Newest' = Newest /\ Starts' = Starts
      /\ files'[Newest].cur = cut /\ files'[Newest].poss = p
      /\ \A n \in SegName : n # Newest => files'[n] = files[n]
      /\ files' \in [SegName -> [cur : Seq(Nat), poss : SUBSET Seq(Nat)]]
      /\ \A l, t : Held(l, t)' <=> Held(l, t)
    BY <1>5, <1>6, ActiveChanged DEF Core
<1>8. log'.cur = Unwound /\ log'.poss = q
    OBVIOUS
<1>9. Shape'
    BY <1>2, <1>6, <1>7, <1>8, Returns DEF Core, Shape
<1>10. SegsInv'
  <2>1. \A n \in SegName : n >= manifest.next_id => n # Newest
    <3>1. Newest < manifest.next_id
      <4>1. Len(Names) \in 1..Len(Names)
        BY Views DEF Core, SegSet
      <4> QED
        BY <4>1 DEF Core, SegsInv, Newest
    <3>2. Newest \in Nat /\ manifest.next_id \in Nat
      BY <1>4, StoreAssumption DEF Core, Shape, SegName
    <3> QED
      BY <3>1, <3>2
  <2>2. \A n \in SegName : n >= manifest'.next_id => files'[n] = File(<<>>)
    BY <1>7, <2>1 DEF Core, SegsInv
  <2> QED
    BY <1>1, <1>7, <2>2, Returns DEF Core, SegsInv, MaySeal
<1>11. CertainInv'
  <2>1. ASSUME NEW n \in SegName
        PROVE \/ files'[n].poss = {files'[n].cur}
              \/ n = Newest /\ Durability # "kill" /\ OneObject
    <3>1. CASE n = Newest
      BY <1>7, <3>1 DEF OneObject
    <3>2. CASE n # Newest
      BY <1>7, <3>2 DEF Core, CertainInv
    <3> QED
      BY <3>1, <3>2
  <2>2. Durability = "kill" => q = {Unwound}
    BY DEF OneObject
  <2>3. Durability # "object" => Unwound \in q
    BY DEF OneObject
  <2>4. op'.pc = "idle" /\ ~Rewriting'
    BY Returns
  <2> QED
    BY <1>7, <1>8, <2>1, <2>2, <2>3, <2>4 DEF CertainInv
<1>12. \A l \in log.poss \cup {log.cur} : Held(l, files[Newest].cur)
    BY <1>1 DEF Core, RowsInv
<1>13. Held(Unwound, cut)
    BY <1>2, <1>3, <1>4, <1>12, HeldCut
<1>14. RowsInv'
  <2>0. SUFFICES \A l \in log'.poss : \A t \in p \cup {cut} : Held(l, t)
    BY <1>7, <1>8, <1>13, RowsAfter, Zenon
  <2>1. CASE Durability = "kill" /\ p = {cut} /\ q = {Unwound}
    BY <1>8, <1>13, <2>1
  <2>2. CASE OneObject /\ p = files[Newest].poss /\ q = log.poss
    <3>1. ASSUME NEW l \in log.poss PROVE Held(l, cut)
      BY <1>3, <1>4, <1>12, <2>2, HeldCut DEF OneObject
    <3>2. \A l \in log.poss : \A t \in files[Newest].poss : Held(l, t)
      BY <1>1 DEF Core, RowsInv
    <3> QED
      BY <1>8, <2>2, <3>1, <3>2
  <2> QED
    BY <2>1, <2>2
<1>15. \A l \in q : l = Unwound \/ l \in log.poss
    OBVIOUS
<1>16. IndexInv'
  <2>1. \A l \in log'.poss \cup {log'.cur} : WellFormed(l)
    BY <1>2, <1>8, <1>15 DEF Core, IndexInv
  <2>2. Unwound' = Unwound
    BY <1>8, Returns
  <2> QED
    BY <1>1, <2>1, <2>2, Returns DEF Core, IndexInv, StagedLive
<1>17. PromiseInv'
  <2>1. Unwound' = Unwound
    BY <1>8, Returns
  <2> QED
    BY <1>8, <1>15, <2>1 DEF Core, PromiseInv
<1> QED
    BY <1>9, <1>10, <1>11, <1>14, <1>16, <1>17, Returns DEF Core

LEMMA PutIs ==
    ASSUME Core, up, ~Rewriting, NEW s, PutActive(s)
    PROVE  files' = [files EXCEPT ![Newest] = [cur |-> s, poss |-> Wrote(files[Newest], s).poss]]
<1>1. Active = Newest
    BY OpenViews DEF Core
<1>2. Wrote(files[Newest], s) = [cur |-> s, poss |-> Wrote(files[Newest], s).poss]
    BY WroteIs
<1>3. files' = [files EXCEPT ![Newest] = Wrote(files[Newest], s)]
    BY <1>1 DEF PutActive
<1> HIDE DEF PutActive
<1> QED
    BY <1>2, <1>3

LEMMA CutIs ==
    ASSUME Core, Recoverable, up, Batching, "append" \in Faults \/ Durability = "kill",
           TruncateData(op.dmark)
    PROVE  \E cut, p : /\ cut = SubSeq(files[Newest].cur, 1, op.dmark - Starts[Len(Names)])
                       /\ files' = [files EXCEPT ![Newest] = [cur |-> cut, poss |-> p]]
                       /\ \/ Durability = "kill" /\ p = {cut}
                          \/ OneObject /\ p = files[Newest].poss
<1> DEFINE cut == SubSeq(files[Newest].cur, 1, op.dmark - Starts[Len(Names)])
           p == Wrote(files[Newest], cut).poss
<1>1. ~Rewriting
    BY DEF Batching, Rewriting
<1>2. Active = Newest /\ base[Len(base)] = Starts[Len(Names)]
    BY <1>1, OpenViews DEF Core
<1>3. PutActive(cut)
    BY <1>2 DEF TruncateData
<1>4. files' = [files EXCEPT ![Newest] = [cur |-> cut, poss |-> p]]
    BY <1>1, <1>3, PutIs
<1>5. \/ Durability = "kill" /\ p = {cut}
      \/ OneObject /\ p = files[Newest].poss
    BY Regimes, WroteIs
<1> HIDE DEF cut, p
<1> QED
    BY <1>4, <1>5 DEF cut

LEMMA UpsertDataFails ==
    ASSUME Core, Recoverable, up, op.pc = "data", "append" \in Faults, TruncateData(op.dmark),
           op' = Idle0, UNCHANGED <<log, manifest, ram, aux>>
    PROVE  Core'
<1>1. /\ Batching /\ ~Rewriting
      /\ UNCHANGED <<log, manifest, up, segments, base, next_id, docs, allowed, ahead>>
      /\ UNCHANGED <<pending_barrier, version, stamps>>
    BY DEF Batching, Rewriting, ram, aux
<1>2. PICK cut, p :
           /\ cut = SubSeq(files[Newest].cur, 1, op.dmark - Starts[Len(Names)])
           /\ files' = [files EXCEPT ![Newest] = [cur |-> cut, poss |-> p]]
           /\ \/ Durability = "kill" /\ p = {cut}
              \/ OneObject /\ p = files[Newest].poss
    BY <1>1, CutIs
<1>3. Unwound = log.cur
  <2>1. op.lmark \in Nat /\ op.i = 0 /\ Len(log.cur) = op.lmark + op.i
    BY <1>1, OpTypes DEF Core, BatchInv, Shape
  <2>2. op.lmark = Len(log.cur) /\ log.cur \in Seq(Record)
    BY <2>1, LogTypes DEF Core
  <2> QED
    BY <1>1, <2>2, PrefixWhole DEF Unwound
<1>4. log' = [cur |-> Unwound, poss |-> log.poss]
    BY <1>1, <1>3, LogTypes DEF Core
<1>5. Durability = "kill" => log.poss = {Unwound}
    BY <1>3 DEF Core, CertainInv
<1>6. pending_barrier' \in BOOLEAN /\ version' \in Nat /\ stamps' \in Nat
    BY <1>1 DEF Core, Shape
<1>7. \/ Durability = "kill" /\ p = {cut} /\ log.poss = {Unwound}
      \/ OneObject /\ p = files[Newest].poss /\ log.poss = log.poss
    BY <1>2, <1>5
<1> QED
    BY <1>1, <1>2, <1>4, <1>6, <1>7, RollsBack

\* What a record staged next adds to the rows and to the batch.
LEMMA Stages ==
    ASSUME Core, Recoverable, up, op.pc = "data", NEW v \in Seq(Nat), NEW s \in Nat,
           \A j \in 1..Len(v) : v[j] = s, NEW d \in Docs, NEW x,
           x = [id |-> d, rows |-> RowCount..(RowCount + Len(v) - 1), stamp |-> s]
    PROVE  /\ x \in StagedRecord
           /\ Backed(Append(op.staged, x), Names, With(files[Newest].cur \o v))
           /\ Total(Names, With(files[Newest].cur \o v)) = RowCount + Len(v)
<1> DEFINE t == files[Newest].cur \o v
<1>1. ~Rewriting /\ Batching
    BY DEF Rewriting, Batching
<1>2. /\ SegSet(Names) /\ Current \in Contents /\ Newest \in SegName
      /\ With(files[Newest].cur) = Current /\ Current[Newest] = files[Newest].cur
      /\ files[Newest].cur \in Seq(Nat) /\ Starts[Len(Names)] \in Nat
      /\ RowCount = Starts[Len(Names)] + Len(files[Newest].cur) /\ RowCount \in Nat
      /\ RowCount = Rows(Names, Starts, Current)
    BY <1>1, Views, FileTypes, OpenViews DEF Core, Total, Starts
<1>3. Len(v) \in Nat /\ Len(files[Newest].cur) \in Nat /\ t \in Seq(Nat)
      /\ Len(t) = Len(files[Newest].cur) + Len(v)
    BY <1>2, ConcatProperties, LenProperties
<1>4. x \in StagedRecord /\ x.rows = RowCount..(RowCount + Len(v) - 1) /\ x.stamp = s
  <2>1. RowCount..(RowCount + Len(v) - 1) \subseteq Nat
    BY <1>2, <1>3
  <2> QED
    BY <2>1 DEF StagedRecord
<1>5. /\ op.staged \in Seq(StagedRecord) /\ Len(op.staged) \in Nat
      /\ Backed(op.staged, Names, Current)
      /\ \A k \in DOMAIN op.staged : op.staged[k].rows \subseteq Nat
    BY <1>1, OpTypes DEF Core, Shape, BatchInv
<1>6. With(t) = [Current EXCEPT ![Names[Len(Names)]] = Current[Names[Len(Names)]] \o v]
    BY <1>2 DEF With, Newest
<1>7. Backed(op.staged, Names, With(t))
  <2>1. Backed(op.staged, Names, [Current EXCEPT ![Names[Len(Names)]] = Current[Names[Len(Names)]] \o v])
    BY <1>2, <1>5, BackedMore
  <2> QED
    BY <1>6, <2>1, Zenon
<1>8. /\ With(t) \in Contents /\ With(t)[Newest] = t
      /\ Total(Names, With(t)) = Starts[Len(Names)] + Len(t)
      /\ Bases(Names, With(t)) = Starts
    BY <1>3, Views DEF Core
<1>9. ASSUME NEW r \in x.rows PROVE At(Names, Starts, With(t), r, s)
  <2> DEFINE j == r - RowCount + 1
  <2>0. r \in RowCount..(RowCount + Len(v) - 1)
    BY <1>4
  <2>1. j \in 1..Len(v) /\ RowCount + j - 1 = r
    <3>1. RowCount \in Nat /\ Len(v) \in Nat
      BY <1>2, <1>3
    <3> QED
      BY <2>0, <3>1
  <2>2. Matrix(Names, Starts, Current) /\ Matrix(Names, Starts, With(t))
    BY <1>2, <1>8, SetMatrix DEF Starts
  <2>3. With(t)[Names[Len(Names)]] = Current[Names[Len(Names)]] \o v
    BY <1>2, <1>8 DEF Newest
  <2> HIDE DEF j, t
  <2>4. At(Names, Starts, With(t), Rows(Names, Starts, Current) + j - 1, v[j])
    BY <2>1, <2>2, <2>3, AtAppended
  <2> QED
    BY <1>2, <2>1, <2>4
<1> HIDE DEF t
<1>10. Backed(Append(op.staged, x), Names, With(t))
  <2> DEFINE a == Append(op.staged, x)
             n == Len(op.staged)
  <2>1. /\ DOMAIN a = 1..(n + 1) /\ a[n + 1] = x /\ \A k \in 1..n : a[k] = op.staged[k]
        /\ DOMAIN op.staged = 1..n /\ n \in Nat
    BY <1>4, <1>5, AppendProperties, LenProperties
  <2> HIDE DEF a, n
  <2>2. ASSUME NEW k \in DOMAIN a, NEW r \in a[k].rows
        PROVE At(Names, Starts, With(t), r, a[k].stamp)
    <3>1. CASE k = n + 1
      BY <1>4, <1>9, <2>1, <2>2, <3>1
    <3>2. CASE k # n + 1
      <4>1. k \in 1..n
        BY <2>1, <3>2
      <4> QED
        BY <1>7, <1>8, <2>1, <2>2, <4>1 DEF Backed
    <3> QED
      BY <3>1, <3>2
  <2>3. Backed(a, Names, With(t))
    BY <1>8, <2>2 DEF Backed
  <2> QED
    BY <2>3 DEF a
<1>11. Total(Names, With(t)) = RowCount + Len(v)
  <2>1. Total(Names, With(t)) = Starts[Len(Names)] + (Len(files[Newest].cur) + Len(v))
    BY <1>3, <1>8
  <2>2. /\ RowCount = Starts[Len(Names)] + Len(files[Newest].cur)
        /\ Starts[Len(Names)] \in Nat /\ Len(files[Newest].cur) \in Nat /\ Len(v) \in Nat
    BY <1>2, <1>3
  <2> QED
    BY <2>1, <2>2, SMTT(30)
<1> QED
    BY <1>4, <1>10, <1>11 DEF t

LEMMA NewestOld ==
    ASSUME Core, NEW n \in SegName, n >= manifest.next_id
    PROVE  n # Newest
<1>1. Len(Names) \in 1..Len(Names) /\ Newest \in SegName
    BY Views DEF Core, SegSet
<1>2. Newest < manifest.next_id
    BY <1>1 DEF Core, SegsInv, Newest
<1>3. Newest \in Nat /\ manifest.next_id \in Nat /\ n \in Nat
    BY <1>1, StoreAssumption DEF Core, Shape, SegName
<1> QED
    BY <1>2, <1>3

\* The segment set when only the active segment is written.
LEMMA SegsAfter ==
    ASSUME Core, UNCHANGED <<manifest, up, segments, base, next_id>>, up,
           ~Rewriting, ~Rewriting', Names' = Names, Starts' = Starts,
           \A n \in SegName : n # Newest => files'[n] = files[n], MaySeal'
    PROVE  SegsInv'
<1>1. \A n \in SegName : n >= manifest'.next_id => files'[n] = File(<<>>)
    BY NewestOld DEF Core, SegsInv
<1> QED
    BY <1>1 DEF Core, SegsInv, MaySeal

LEMMA UpsertDatas ==
    ASSUME Core, Recoverable, UpsertData
    PROVE  Core'
<1> DEFINE k == Len(op.staged) + 1
           s == op.first + k
           rec == op.batch[k]
           v == [j \in 1..rec.vecs |-> s]
           x == [id |-> rec.id, rows |-> RowCount..(RowCount + rec.vecs - 1), stamp |-> s]
           f == files[Newest]
           t == f.cur \o v
           p == Wrote(f, t).poss
<1>1. /\ up /\ op.pc = "data" /\ UNCHANGED <<log, manifest, ram, aux>>
      /\ UNCHANGED <<log, manifest, up, segments, base, next_id, docs, allowed, ahead>>
      /\ UNCHANGED <<pending_barrier, version, stamps>>
    BY DEF UpsertData, ram, aux
<1>2. Batching /\ ~Rewriting /\ op.kind = "upsert"
    BY <1>1 DEF Batching, Rewriting, Core, StepInv
<1>3. Active = Newest /\ RowCount = Total(Names, Current) /\ RowCount \in Nat
    BY <1>1, <1>2, OpenViews DEF Core
<1>4. CASE "append" \in Faults /\ TruncateData(op.dmark) /\ Return
    BY <1>1, <1>4, UpsertDataFails DEF Return
<1>5. CASE /\ PutActive(t)
           /\ op' = [op EXCEPT !.staged = Append(@, x),
                               !.pc = IF k < Len(op.batch) THEN "data"
                                      ELSE IF op.barrier THEN "dsync" ELSE "log"]
  <2>1. /\ OpShape /\ op.staged \in Seq(StagedRecord) /\ Len(op.staged) \in Nat
        /\ op.batch \in Seq([id : Docs, vecs : Nat]) /\ op.first \in Nat /\ op.barrier \in BOOLEAN
        /\ op.i \in Nat /\ op.lmark \in Nat /\ op.dmark \in Nat
    BY OpTypes DEF Core, Shape
  <2>2. /\ op.lmark <= Len(log.cur)
        /\ Starts[Len(Names)] <= op.dmark /\ op.dmark <= Total(Names, Current)
        /\ Below(Unwound, op.dmark)
        /\ Durability = "object" => \A l \in log.poss : Below(l, op.dmark)
        /\ \A j \in DOMAIN op.staged : op.staged[j].stamp = op.first + j
        /\ Len(log.cur) = op.lmark + op.i
        /\ op.i = 0
        /\ Len(op.staged) < Len(op.batch)
    BY <1>1, <1>2 DEF Core, BatchInv
  <2>3. k \in 1..Len(op.batch) /\ k \in Nat /\ k > 0 /\ s \in Nat /\ Len(op.batch) \in Nat
    BY <2>1, <2>2, LenProperties, SMTT(30)
  <2> HIDE DEF k, s
  <2>4. rec \in [id : Docs, vecs : Nat]
    BY <2>1, <2>3, ElementOfSeq
  <2>5. rec.id \in Docs /\ rec.vecs \in Nat
    BY <2>4
  <2> HIDE DEF rec
  <2>6. v \in Seq(Nat) /\ Len(v) = rec.vecs /\ \A j \in 1..Len(v) : v[j] = s
    BY <2>3, <2>5
  <2> HIDE DEF v
  <2>7. /\ x \in StagedRecord
        /\ Backed(Append(op.staged, x), Names, With(t))
        /\ Total(Names, With(t)) = RowCount + rec.vecs
    BY <1>1, <2>3, <2>5, <2>6, Stages
  <2>8. x.stamp = s /\ x.id = rec.id
    OBVIOUS
  <2> HIDE DEF x
  <2>9. f.cur \in Seq(Nat) /\ f.poss \in SUBSET Seq(Nat) /\ Newest \in SegName
    BY FileTypes, Views DEF Core
  <2>10. t \in Seq(Nat)
    BY <2>6, <2>9, ConcatProperties
  <2>11. \A u \in p : u = t \/ u \in f.poss
    BY WroteIs, ZenonT(30)
  <2>12. p \in SUBSET Seq(Nat)
    BY <2>9, <2>10, <2>11
  <2>13. files' = [files EXCEPT ![Newest] = [cur |-> t, poss |-> p]]
    BY <1>1, <1>2, <1>5, PutIs
  <2> DEFINE tt == t
             pp == p
  <2> HIDE DEF tt, pp
  <2>14. /\ Names' = Names /\ Newest' = Newest /\ Starts' = Starts /\ Current' = With(t)
         /\ files'[Newest].cur = t /\ files'[Newest].poss = p
         /\ \A n \in SegName : n # Newest => files'[n] = files[n]
         /\ files' \in [SegName -> [cur : Seq(Nat), poss : SUBSET Seq(Nat)]]
         /\ \A l, u : Held(l, u)' <=> Held(l, u)
    <3>1. files' = [files EXCEPT ![Newest] = [cur |-> tt, poss |-> pp]] /\ tt \in Seq(Nat) /\ pp \in SUBSET Seq(Nat)
      BY <2>10, <2>12, <2>13 DEF tt, pp
    <3>2. /\ Names' = Names /\ Newest' = Newest /\ Starts' = Starts /\ Current' = With(tt)
          /\ files'[Newest].cur = tt /\ files'[Newest].poss = pp
          /\ \A n \in SegName : n # Newest => files'[n] = files[n]
          /\ files' \in [SegName -> [cur : Seq(Nat), poss : SUBSET Seq(Nat)]]
          /\ \A l, u : Held(l, u)' <=> Held(l, u)
      BY <1>1, <3>1, ActiveChanged DEF Core
    <3> QED
      BY <3>2 DEF tt, pp
  <2> HIDE DEF t, p
  <2>15. /\ op'.staged = Append(op.staged, x) /\ op'.kind = "upsert" /\ op'.i = op.i
         /\ op'.pc = (IF k < Len(op.batch) THEN "data" ELSE IF op.barrier THEN "dsync" ELSE "log")
         /\ op'.lmark = op.lmark /\ op'.dmark = op.dmark /\ op'.first = op.first
         /\ op'.barrier = op.barrier /\ op'.batch = op.batch
    BY <1>2, <1>5, <2>1 DEF OpShape, Progress
  <2>16. /\ Append(op.staged, x) \in Seq(StagedRecord) /\ Len(Append(op.staged, x)) = k
         /\ DOMAIN Append(op.staged, x) = 1..k /\ Append(op.staged, x)[k] = x
         /\ \A j \in 1..Len(op.staged) : Append(op.staged, x)[j] = op.staged[j]
    BY <2>1, <2>7, AppendProperties, LenProperties DEF k
  <2>17. op'.pc \in {"data", "dsync", "log"}
    BY <2>15
  <2>18. OpShape'
    BY <1>5, <2>1, <2>16 DEF OpShape, Progress, Pcs
  <2>19. Shape'
    <3>1. files' \in [SegName -> [cur : Seq(Nat), poss : SUBSET Seq(Nat)]]
      BY <2>14
    <3>2. UNCHANGED <<log, manifest, up, segments, base, next_id, docs, allowed, ahead,
                      pending_barrier, version, stamps>>
      BY <1>1
    <3> QED
      BY <2>18, <3>1, <3>2 DEF Core, Shape
  <2>20. StepInv' /\ BeginInv' /\ SweepInv' /\ ~Rewriting' /\ Batching' /\ MaySeal' /\ PlanInv' /\ StagedLive'
    <3>1. StepInv'
      BY <1>1, <1>2, <2>15, <2>17 DEF Core, StepInv
    <3>2. BeginInv'
      BY <1>2, <2>15, <2>17 DEF Core, BeginInv
    <3> QED
      BY <2>15, <2>17, <3>1, <3>2 DEF SweepInv, Rewriting, Batching, MaySeal, PlanInv, StagedLive
  <2>21. Unwound' = Unwound
    BY <1>1, <1>2, <2>15, <2>20 DEF Unwound
  <2>22. SegsInv'
    BY <1>1, <1>2, <2>14, <2>20, SegsAfter
  <2>23. CertainInv'
    <3>1. Durability = "kill" => p = {t}
      BY WroteIs DEF p
    <3>2. Durability # "kill" => OneObject \/ op.barrier
      BY <1>2, Regimes DEF Core, StepInv
    <3>3. ASSUME NEW n \in SegName
          PROVE \/ files'[n].poss = {files'[n].cur}
                \/ n = Newest /\ Durability # "kill" /\ (op'.pc \in {"data", "dsync"} \/ OneObject)
      <4>1. CASE n = Newest
        BY <2>14, <2>15, <3>1, <3>2, <4>1
      <4>2. CASE n # Newest
        BY <2>14, <4>2 DEF Core, CertainInv
      <4> QED
        BY <4>1, <4>2
    <3>4. ~(op'.pc = "blog" \/ (op'.pc \in {"log", "lsync"} /\ op'.barrier)) /\ op'.pc # "publish"
      BY <2>15
    <3> QED
      BY <1>1, <2>14, <2>20, <3>3, <3>4 DEF Core, CertainInv
  <2>24. RowsInv'
    <3>1. ASSUME NEW l \in log.poss \cup {log.cur} PROVE Held(l, t)
      <4>1. l \in Seq(Record) /\ Held(l, files[Newest].cur)
        BY <1>2, LogTypes DEF Core, RowsInv
      <4> QED
        BY <2>6, <4>1, HeldMore DEF t
    <3>2. \A l \in log.poss : \A u \in f.poss : Held(l, u)
      BY <1>2 DEF Core, RowsInv
    <3>3. \A l \in log'.poss : \A u \in p \cup {t} : Held(l, u)
      BY <1>1, <2>11, <3>1, <3>2
    <3>4. Held(log'.cur, t)
      BY <1>1, <3>1
    <3>5. Newest' = Newest /\ files'[Newest].cur = t /\ files'[Newest].poss = p
      BY <2>14
    <3>6. \A l, u : Held(l, u)' <=> Held(l, u)
      BY <2>14
    <3> QED
      BY <3>3, <3>4, <3>5, <3>6, RowsAfter
  <2>25. BatchInv'
    <3>1. op'.dmark <= Total(Names', Current')
      <4>1. Total(Names', Current') = RowCount + rec.vecs
        BY <2>7, <2>14
      <4> QED
        BY <1>3, <2>1, <2>2, <2>5, <2>15, <4>1
    <3>2. \A j \in DOMAIN op'.staged : op'.staged[j].stamp = op'.first + j
      <4>1. \A j \in 1..k : j = k \/ j \in 1..Len(op.staged)
        BY <2>1 DEF k
      <4>2. DOMAIN op.staged = 1..Len(op.staged)
        BY <2>1, LenProperties
      <4>3. x.stamp = op.first + k
        BY <2>8 DEF s
      <4> QED
        BY <2>2, <2>15, <2>16, <4>1, <4>2, <4>3
    <3>3. /\ op'.i <= Len(op'.staged) /\ Len(log'.cur) = op'.lmark + op'.i /\ op'.i = 0
          /\ op'.pc = "data" => Len(op'.staged) < Len(op'.batch)
          /\ op'.pc \in {"dsync", "log"} => op'.i < Len(op'.staged)
          /\ op'.pc # "lsync" /\ Len(op'.staged) <= Len(op'.batch)
          /\ op'.lmark <= Len(log'.cur)
      BY <1>1, <2>2, <2>3, <2>15, <2>16, <2>17
    <3>4. \A j \in 1..op'.i : FALSE
      BY <3>3
    <3>5. Backed(op'.staged, Names', Current')
      BY <2>7, <2>14, <2>15
    <3>6. /\ Starts'[Len(Names')] <= op'.dmark
          /\ Below(Unwound', op'.dmark)
          /\ Durability = "object" => \A l \in log'.poss : Below(l, op'.dmark)
      BY <1>1, <2>2, <2>14, <2>15, <2>21
    <3> QED
      BY <3>1, <3>2, <3>3, <3>4, <3>5, <3>6 DEF BatchInv
  <2>26. IndexInv' /\ PromiseInv'
    BY <1>1, <1>2, <2>20, <2>21 DEF Core, IndexInv, PromiseInv, StagedLive
  <2> QED
    BY <2>19, <2>20, <2>22, <2>23, <2>24, <2>25, <2>26 DEF Core
<1>6. \/ /\ PutActive(files[Active].cur \o v)
         /\ op' = [op EXCEPT !.staged = Append(@, x),
                             !.pc = IF k < Len(op.batch) THEN "data"
                                    ELSE IF op.barrier THEN "dsync" ELSE "log"]
      \/ "append" \in Faults /\ TruncateData(op.dmark) /\ Return
    BY DEF UpsertData
<1> QED
    BY <1>3, <1>4, <1>5, <1>6

LEMMA SyncsActive ==
    ASSUME Core, up, ~Rewriting, manifest'.segments = manifest.segments,
           files' = [files EXCEPT ![Active] = Synced(@)]
    PROVE  /\ Names' = Names /\ Newest' = Newest /\ Starts' = Starts /\ Current' = Current
           /\ files'[Newest].cur = files[Newest].cur /\ files'[Newest].poss = {files[Newest].cur}
           /\ \A n \in SegName : n # Newest => files'[n] = files[n]
           /\ files' \in [SegName -> [cur : Seq(Nat), poss : SUBSET Seq(Nat)]]
           /\ \A l, t : Held(l, t)' <=> Held(l, t)
<1>1. Active = Newest /\ Newest \in SegName /\ files[Newest].cur \in Seq(Nat)
      /\ With(files[Newest].cur) = Current
    BY OpenViews, Views, FileTypes DEF Core
<1>2. files' = [files EXCEPT ![Newest] = [cur |-> files[Newest].cur, poss |-> {files[Newest].cur}]]
    BY <1>1 DEF Synced, File
<1> DEFINE c == files[Newest].cur
           p == {files[Newest].cur}
<1>3. c \in Seq(Nat) /\ p \in SUBSET Seq(Nat) /\ With(c) = Current
    BY <1>1
<1>4. files' = [files EXCEPT ![Newest] = [cur |-> c, poss |-> p]]
    BY <1>2
<1> HIDE DEF c, p
<1>5. /\ Names' = Names /\ Newest' = Newest /\ Starts' = Starts /\ Current' = With(c)
      /\ files'[Newest].cur = c /\ files'[Newest].poss = p
      /\ \A n \in SegName : n # Newest => files'[n] = files[n]
      /\ files' \in [SegName -> [cur : Seq(Nat), poss : SUBSET Seq(Nat)]]
      /\ \A l, t : Held(l, t)' <=> Held(l, t)
    BY <1>3, <1>4, ActiveChanged DEF Core
<1> QED
    BY <1>3, <1>5 DEF c, p

LEMMA UpsertSyncDatas ==
    ASSUME Core, Recoverable, UpsertSyncData
    PROVE  Core'
<1>1. /\ up /\ op.pc = "dsync" /\ UNCHANGED <<log, manifest, ram, aux>>
      /\ UNCHANGED <<log, manifest, up, segments, base, next_id, docs, allowed, ahead>>
      /\ UNCHANGED <<pending_barrier, version, stamps>>
    BY DEF UpsertSyncData, ram, aux
<1>2. Batching /\ ~Rewriting /\ op.kind = "upsert"
    BY <1>1 DEF Batching, Rewriting, Core, StepInv
<1>3. CASE files' = [files EXCEPT ![Active] = Synced(@)] /\ op' = [op EXCEPT !.pc = "log"]
  <2>1. /\ Names' = Names /\ Newest' = Newest /\ Starts' = Starts /\ Current' = Current
        /\ files'[Newest].cur = files[Newest].cur /\ files'[Newest].poss = {files[Newest].cur}
        /\ \A n \in SegName : n # Newest => files'[n] = files[n]
        /\ files' \in [SegName -> [cur : Seq(Nat), poss : SUBSET Seq(Nat)]]
        /\ \A l, t : Held(l, t)' <=> Held(l, t)
    BY <1>1, <1>2, <1>3, SyncsActive
  <2>2. /\ op'.pc = "log" /\ op'.staged = op.staged /\ op'.kind = "upsert" /\ op'.i = op.i
        /\ op'.lmark = op.lmark /\ op'.dmark = op.dmark /\ op'.first = op.first
        /\ op'.barrier = op.barrier /\ op'.batch = op.batch /\ OpShape'
    BY <1>2, <1>3 DEF Core, Shape, OpShape, Progress, Pcs
  <2>3. Shape'
    BY <1>1, <2>1, <2>2 DEF Core, Shape
  <2>4. StepInv' /\ BeginInv' /\ SweepInv' /\ ~Rewriting' /\ Batching' /\ MaySeal' /\ PlanInv' /\ StagedLive'
    <3>1. StepInv'
      BY <1>1, <1>2, <2>2 DEF Core, StepInv
    <3>2. BeginInv'
      BY <1>2, <2>2 DEF Core, BeginInv
    <3> QED
      BY <2>2, <3>1, <3>2 DEF SweepInv, Rewriting, Batching, MaySeal, PlanInv, StagedLive
  <2>5. Unwound' = Unwound
    BY <1>1, <1>2, <2>2, <2>4 DEF Unwound
  <2>6. SegsInv'
    BY <1>1, <1>2, <2>1, <2>4, SegsAfter
  <2>7. CertainInv'
    <3>1. \A n \in SegName : n # Newest => files'[n].poss = {files'[n].cur}
      BY <2>1 DEF Core, CertainInv
    <3>2. \A n \in SegName : files'[n].poss = {files'[n].cur}
      BY <2>1, <3>1
    <3>3. Newest' \in SegName
      BY <2>1, Views DEF Core
    <3> QED
      BY <1>1, <2>2, <3>2, <3>3 DEF Core, CertainInv
  <2>8. RowsInv'
    <3>1. \A l \in log'.poss : \A u \in {files[Newest].cur} \cup {files[Newest].cur} : Held(l, u)
      BY <1>1, <1>2 DEF Core, RowsInv
    <3>2. Held(log'.cur, files[Newest].cur)
      BY <1>1, <1>2 DEF Core, RowsInv
    <3> QED
      BY <2>1, <3>1, <3>2, RowsAfter
  <2>9. BatchInv'
    BY <1>1, <1>2, <2>1, <2>2, <2>5 DEF Core, BatchInv
  <2>10. IndexInv' /\ PromiseInv'
    BY <1>1, <1>2, <2>4, <2>5 DEF Core, IndexInv, PromiseInv, StagedLive
  <2> QED
    BY <2>3, <2>4, <2>6, <2>7, <2>8, <2>9, <2>10 DEF Core
<1>4. CASE /\ "sync" \in Faults /\ Return
           /\ LET f == SyncFailed(files[Active]) IN
              files' = [files EXCEPT ![Active] =
                          Wrote(f, SubSeq(f.cur, 1, op.dmark - base[Len(base)]))]
  <2> DEFINE cut == SubSeq(files[Newest].cur, 1, op.dmark - Starts[Len(Names)])
             f == SyncFailed(files[Newest])
  <2>1. Durability = "kill"
    BY <1>4, Regimes
  <2>2. Active = Newest /\ base[Len(base)] = Starts[Len(Names)] /\ Newest \in SegName
    BY <1>1, <1>2, OpenViews, Views DEF Core
  <2>3. f.cur = files[Newest].cur
    <3>1. files[Newest] = [cur |-> files[Newest].cur, poss |-> files[Newest].poss]
      BY <2>2, FileTypes DEF Core
    <3>2. f = [cur |-> files[Newest].cur, poss |-> files[Newest].poss \cup {files[Newest].cur}]
      BY <3>1, SyncFailedIs
    <3> QED
      BY <3>2
  <2>4. files' = [files EXCEPT ![Newest] = Wrote(f, cut)]
    BY <1>4, <2>2, <2>3
  <2> HIDE DEF f, cut
  <2>5. Wrote(f, cut) = [cur |-> cut, poss |-> {cut}]
    <3>1. Wrote(f, cut) = [cur |-> cut, poss |-> Wrote(f, cut).poss]
      BY WroteIs
    <3>2. Wrote(f, cut).poss = {cut}
      BY <2>1, WroteIs
    <3> QED
      BY <3>1, <3>2
  <2>6. files' = [files EXCEPT ![Newest] = [cur |-> cut, poss |-> {cut}]]
    BY <2>4, <2>5
  <2>7. Unwound = log.cur
    <3>1. op.lmark \in Nat /\ op.i = 0 /\ Len(log.cur) = op.lmark + op.i
      BY <1>1, <1>2, OpTypes DEF Core, BatchInv, Shape
    <3>2. op.lmark = Len(log.cur) /\ log.cur \in Seq(Record)
      BY <3>1, LogTypes DEF Core
    <3> QED
      BY <1>2, <3>2, PrefixWhole DEF Unwound
  <2>8. log' = [cur |-> Unwound, poss |-> {Unwound}]
    <3>1. log.poss = {Unwound}
      BY <2>1, <2>7 DEF Core, CertainInv
    <3> QED
      BY <1>1, <2>7, <3>1, LogTypes DEF Core
  <2>9. pending_barrier' \in BOOLEAN /\ version' \in Nat /\ stamps' \in Nat
    BY <1>1 DEF Core, Shape
  <2>10. op' = Idle0 /\ cut = SubSeq(files[Newest].cur, 1, op.dmark - Starts[Len(Names)])
    BY <1>4 DEF Return, cut
  <2> QED
    BY <1>1, <1>2, <2>1, <2>6, <2>8, <2>9, <2>10, RollsBack
<1> QED
    BY <1>3, <1>4 DEF UpsertSyncData

\* A record can go to the end of the log when its rows are there.
LEMMA Appends ==
    ASSUME Core, ~Rewriting, NEW y \in Record, WellFormed(<<y>>),
           \A r \in y.rows : At(Names, Starts, Current, r, y.stamp),
           NEW a, a = Append(log.cur, y)
    PROVE  /\ a \in Seq(Record) /\ Len(a) = Len(log.cur) + 1
           /\ a[Len(log.cur) + 1] = y
           /\ \A i \in 1..Len(log.cur) : a[i] = log.cur[i]
           /\ WellFormed(a) /\ Held(a, files[Newest].cur)
<1>1. log.cur \in Seq(Record) /\ Len(log.cur) \in Nat /\ DOMAIN log.cur = 1..Len(log.cur)
    BY LogTypes DEF Core
<1>2. /\ a \in Seq(Record) /\ Len(a) = Len(log.cur) + 1 /\ a[Len(log.cur) + 1] = y
      /\ \A i \in 1..Len(log.cur) : a[i] = log.cur[i]
    BY <1>1, AppendProperties
<1>3. DOMAIN a = 1..(Len(log.cur) + 1)
    BY <1>2, LenProperties
<1>4. \A i \in DOMAIN a : i \in DOMAIN log.cur \/ i = Len(log.cur) + 1
  <2> DEFINE n == Len(log.cur)
  <2> HIDE DEF n
  <2>1. \A i \in 1..(n + 1) : i \in 1..n \/ i = n + 1
    BY <1>1 DEF n
  <2> QED
    BY <1>1, <1>3, <2>1 DEF n
<1>5. WellFormed(a)
  <2>1. IF y.kind = "upsert" THEN y.stamp > 0 ELSE y.rows = {}
    BY DEF WellFormed
  <2>2. WellFormed(log.cur)
    BY DEF Core, IndexInv
  <2> QED
    BY <1>1, <1>2, <1>4, <2>1, <2>2 DEF WellFormed
<1>6. With(files[Newest].cur) = Current
    BY Views DEF Core
<1>7. Held(a, files[Newest].cur)
  <2>1. Backed(log.cur, Names, Current)
    BY <1>6 DEF Core, RowsInv, Held
  <2>2. Backed(a, Names, Current)
    BY <1>1, <1>2, <1>4, <2>1 DEF Backed, Starts
  <2> QED
    BY <1>6, <2>2 DEF Held
<1> QED
    BY <1>2, <1>5, <1>7

\* The log once the record is there, in every backend.
LEMMA LogAppended ==
    ASSUME Core, Recoverable, up, ~Rewriting, op.pc \notin {"data", "dsync"},
           files' = files, manifest'.segments = manifest.segments,
           NEW y \in Record, WellFormed(<<y>>),
           \A r \in y.rows : At(Names, Starts, Current, r, y.stamp),
           log' = Wrote(log, Append(log.cur, y))
    PROVE  /\ log'.cur = Append(log.cur, y)
           /\ Append(log.cur, y) \in Seq(Record) /\ Len(Append(log.cur, y)) = Len(log.cur) + 1
           /\ Append(log.cur, y)[Len(log.cur) + 1] = y
           /\ \A i \in 1..Len(log.cur) : Append(log.cur, y)[i] = log.cur[i]
           /\ log' \in [cur : Seq(Record), poss : SUBSET Seq(Record)]
           /\ \A l \in log'.poss : l = Append(log.cur, y) \/ l \in log.poss
           /\ \A l \in log'.poss \cup {log'.cur} : WellFormed(l)
           /\ RowsInv'
           /\ Durability = "kill" => log'.poss = {log'.cur}
           /\ Durability # "object" => log'.cur \in log'.poss
           /\ Durability = "object" => log'.poss = log.poss
<1> DEFINE a == Append(log.cur, y)
<1>1. log.poss \in SUBSET Seq(Record)
    BY LogTypes DEF Core
<1> HIDE DEF a
<1>2. /\ a \in Seq(Record) /\ Len(a) = Len(log.cur) + 1 /\ a[Len(log.cur) + 1] = y
      /\ \A i \in 1..Len(log.cur) : a[i] = log.cur[i]
      /\ WellFormed(a) /\ Held(a, files[Newest].cur)
  <2>1. a = Append(log.cur, y)
    BY DEF a
  <2> QED
    BY <2>1, Appends
<1>4. log' = Wrote(log, a)
    BY DEF a
<1>5. log'.cur = a /\ \A l \in log'.poss : l = a \/ l \in log.poss
    BY <1>4, WroteIs
<1>6. log' \in [cur : Seq(Record), poss : SUBSET Seq(Record)]
  <2>1. log' = [cur |-> a, poss |-> log'.poss]
    BY <1>4, WroteIs
  <2>2. log'.poss \in SUBSET Seq(Record)
    BY <1>1, <1>2, <1>5
  <2> QED
    BY <1>2, <2>1, <2>2
<1>7. /\ Durability = "kill" => log'.poss = {a}
      /\ Durability # "object" => a \in log'.poss
      /\ Durability = "object" => log'.poss = log.poss
    BY <1>4, WroteIs, DurabilityAssumption
<1>10. \A l \in log'.poss \cup {log'.cur} : WellFormed(l)
    BY <1>2, <1>5 DEF Core, IndexInv
<1>13. \A l, t : Held(l, t)' <=> Held(l, t)
    BY DiskSame
<1>14. Newest' = Newest /\ files'[Newest].cur = files[Newest].cur /\ files'[Newest].poss = files[Newest].poss
    BY DiskSame
<1>15. Durability # "object" => files[Newest].poss = {files[Newest].cur}
    BY Apart, Views, DurabilityAssumption DEF Core, CertainInv
<1>16. \A l \in log'.poss : \A t \in files[Newest].poss \cup {files[Newest].cur} : Held(l, t)
  <2>1. \A l \in log.poss : \A t \in files[Newest].poss \cup {files[Newest].cur} : Held(l, t)
    BY DEF Core, RowsInv
  <2>2. CASE Durability = "object"
    BY <1>7, <2>1, <2>2
  <2>3. CASE Durability # "object"
    BY <1>2, <1>5, <1>15, <2>1, <2>3
  <2> QED
    BY <2>2, <2>3
<1>17. RowsInv'
    BY <1>2, <1>5, <1>13, <1>14, <1>16, RowsAfter
<1> QED
    BY <1>2, <1>5, <1>6, <1>7, <1>10, <1>17 DEF a

LEMMA UpsertLogAppends ==
    ASSUME Core, Recoverable, up, op.pc = "log", NEW k, k = op.i + 1, NEW r, r = op.staged[k],
           log' = Wrote(log, Append(log.cur, UpsertOp(r.id, r.rows, r.stamp))),
           op' = [op EXCEPT !.i = k, !.pc = IF k < Len(op.staged) THEN "log" ELSE "lsync"],
           allowed' = [allowed EXCEPT ![r.id] = @ \cup {r.stamp}],
           UNCHANGED <<files, manifest, up, segments, base, next_id, version, docs,
                       pending_barrier, stamps, ahead>>
    PROVE  Core'
<1> DEFINE y == UpsertOp(r.id, r.rows, r.stamp)
           a == Append(log.cur, y)
<1>1. Batching /\ ~Rewriting /\ op.kind = "upsert" /\ op.pc \notin {"data", "dsync"}
    BY DEF Batching, Rewriting, Core, StepInv
<1>2. /\ OpShape /\ op.staged \in Seq(StagedRecord) /\ Len(op.staged) \in Nat
      /\ DOMAIN op.staged = 1..Len(op.staged)
      /\ op.first \in Nat /\ op.barrier \in BOOLEAN
      /\ op.i \in Nat /\ op.lmark \in Nat /\ op.dmark \in Nat
    BY OpTypes DEF Core, Shape
<1>3. /\ op.lmark <= Len(log.cur)
      /\ Starts[Len(Names)] <= op.dmark /\ op.dmark <= Total(Names, Current)
      /\ Below(Unwound, op.dmark)
      /\ Durability = "object" => \A l \in log.poss : Below(l, op.dmark)
      /\ \A j \in DOMAIN op.staged : op.staged[j].stamp = op.first + j
      /\ Backed(op.staged, Names, Current)
      /\ Len(log.cur) = op.lmark + op.i
      /\ \A j \in 1..op.i : log.cur[op.lmark + j] =
            UpsertOp(op.staged[j].id, op.staged[j].rows, op.staged[j].stamp)
      /\ op.i < Len(op.staged)
      /\ Len(op.staged) <= Len(op.batch)
    BY <1>1 DEF Core, BatchInv
<1>4. k \in DOMAIN op.staged /\ k \in Nat /\ k > 0 /\ k <= Len(op.staged)
    BY <1>2, <1>3
<1>5. r \in StagedRecord /\ r.stamp = op.first + k
    BY <1>2, <1>3, <1>4
<1>6. r.id \in Docs /\ r.rows \in SUBSET Nat /\ r.stamp \in Nat /\ r.stamp > 0
  <2>1. r.id \in Docs /\ r.rows \in SUBSET Nat /\ r.stamp \in Nat
    BY <1>5 DEF StagedRecord
  <2> QED
    BY <1>2, <1>4, <1>5, <2>1
<1>7. /\ y \in Record /\ y.kind = "upsert" /\ y.id = r.id /\ y.rows = r.rows /\ y.stamp = r.stamp /\ y.acc = 0
    BY <1>6 DEF Record, UpsertOp
<1> HIDE DEF y
<1>8. WellFormed(<<y>>)
    BY <1>6, <1>7 DEF WellFormed
<1>9. \A w \in y.rows : At(Names, Starts, Current, w, y.stamp)
    BY <1>3, <1>4, <1>7 DEF Backed, Starts
<1>10. /\ log'.cur = a
       /\ a \in Seq(Record) /\ Len(a) = Len(log.cur) + 1
       /\ a[Len(log.cur) + 1] = y
       /\ \A i \in 1..Len(log.cur) : a[i] = log.cur[i]
       /\ log' \in [cur : Seq(Record), poss : SUBSET Seq(Record)]
       /\ \A l \in log'.poss : l = a \/ l \in log.poss
       /\ \A l \in log'.poss \cup {log'.cur} : WellFormed(l)
       /\ RowsInv'
       /\ Durability = "kill" => log'.poss = {log'.cur}
       /\ Durability # "object" => log'.cur \in log'.poss
       /\ Durability = "object" => log'.poss = log.poss
  <2>1. log' = Wrote(log, Append(log.cur, y))
    BY DEF y
  <2> QED
    BY <1>1, <1>7, <1>8, <1>9, <2>1, LogAppended
<1> HIDE DEF a
<1>11. /\ op'.pc = (IF k < Len(op.staged) THEN "log" ELSE "lsync") /\ op'.staged = op.staged
       /\ op'.kind = "upsert" /\ op'.i = k
       /\ op'.lmark = op.lmark /\ op'.dmark = op.dmark /\ op'.first = op.first
       /\ op'.barrier = op.barrier /\ op'.batch = op.batch /\ OpShape'
    BY <1>1, <1>2, <1>4 DEF OpShape, Progress, Pcs
<1>12. op'.pc \in {"log", "lsync"}
    BY <1>11
<1>13. log.cur \in Seq(Record) /\ Len(log.cur) \in Nat /\ allowed \in [Docs -> SUBSET Nat]
    BY LogTypes DEF Core, Shape
<1>14. /\ allowed' \in [Docs -> SUBSET Nat] /\ r.stamp \in allowed'[r.id]
       /\ \A d \in Docs : allowed[d] \subseteq allowed'[d]
    BY <1>6, <1>13
<1>15. Shape'
    BY <1>10, <1>11, <1>14 DEF Core, Shape
<1>16. StepInv' /\ BeginInv' /\ SweepInv' /\ ~Rewriting' /\ Batching' /\ MaySeal' /\ PlanInv' /\ StagedLive'
  <2>1. StepInv'
    BY <1>1, <1>11, <1>12 DEF Core, StepInv
  <2>2. BeginInv'
    BY <1>1, <1>11, <1>12 DEF Core, BeginInv
  <2> QED
    BY <1>11, <1>12, <2>1, <2>2 DEF SweepInv, Rewriting, Batching, MaySeal, PlanInv, StagedLive
<1>17. Unwound' = Unwound
  <2>1. SubSeq(a, 1, op.lmark) = SubSeq(log.cur, 1, op.lmark)
    BY <1>2, <1>3, <1>7, <1>13, PrefixAppend DEF a
  <2> QED
    BY <1>1, <1>10, <1>11, <1>16, <2>1 DEF Unwound
<1>18. Names' = Names /\ Newest' = Newest /\ Current' = Current /\ Starts' = Starts
    BY DiskSame
<1>19. SegsInv'
    BY <1>1, <1>16, <1>18, SegsAfter
<1>20. CertainInv'
  <2>1. files[Newest].poss = {files[Newest].cur} \/ ~op.barrier
    BY DEF Core, CertainInv
  <2>2. \A n \in SegName : \/ files[n].poss = {files[n].cur}
                           \/ n = Newest /\ Durability # "kill" /\ OneObject
    BY DEF Core, CertainInv
  <2> QED
    BY <1>10, <1>11, <1>12, <1>16, <1>18, <2>1, <2>2 DEF CertainInv
<1>21. BatchInv'
  <2>1. op'.lmark <= Len(log'.cur) /\ Len(log'.cur) = op'.lmark + op'.i /\ op'.i <= Len(op'.staged)
    <3>1. Len(log'.cur) = Len(log.cur) + 1
      BY <1>10
    <3> QED
      BY <1>2, <1>3, <1>4, <1>11, <1>13, <3>1, SMTT(30)
  <2>2. ASSUME NEW j \in 1..op'.i
        PROVE log'.cur[op'.lmark + j] =
                 UpsertOp(op'.staged[j].id, op'.staged[j].rows, op'.staged[j].stamp)
    <3>1. CASE j = k
      <4>1. op'.lmark + j = Len(log.cur) + 1
        BY <1>2, <1>3, <1>11, <3>1
      <4> QED
        BY <1>10, <1>11, <3>1, <4>1 DEF y
    <3>2. CASE j # k
      <4>1. j \in 1..op.i
        BY <1>2, <1>11, <3>2
      <4>2. op.lmark + j \in 1..Len(log.cur)
        BY <1>2, <1>3, <4>1
      <4>3. log'.cur[op.lmark + j] = log.cur[op.lmark + j]
        BY <1>10, <4>2
      <4> QED
        BY <1>3, <1>11, <4>1, <4>3
    <3> QED
      BY <3>1, <3>2
  <2>3. /\ op'.pc = "log" => op'.i < Len(op'.staged)
        /\ op'.pc = "lsync" => op'.i = Len(op'.staged)
    BY <1>2, <1>4, <1>11
  <2>4. /\ Starts'[Len(Names')] <= op'.dmark /\ op'.dmark <= Total(Names', Current')
        /\ Below(Unwound', op'.dmark)
        /\ Durability = "object" => \A l \in log'.poss : Below(l, op'.dmark)
        /\ \A j \in DOMAIN op'.staged : op'.staged[j].stamp = op'.first + j
        /\ Backed(op'.staged, Names', Current')
        /\ Len(op'.staged) <= Len(op'.batch)
    <3>1. Durability = "object" => \A l \in log'.poss : Below(l, op'.dmark)
      BY <1>3, <1>10, <1>11
    <3>2. Starts'[Len(Names')] <= op'.dmark /\ op'.dmark <= Total(Names', Current')
      BY <1>3, <1>11, <1>18
    <3>3. Below(Unwound', op'.dmark)
      BY <1>3, <1>11, <1>17
    <3>4. Backed(op'.staged, Names', Current')
      BY <1>3, <1>11, <1>18
    <3>5. \A j \in DOMAIN op'.staged : op'.staged[j].stamp = op'.first + j
      BY <1>3, <1>11
    <3> QED
      BY <1>3, <1>11, <3>1, <3>2, <3>3, <3>4, <3>5
  <2> QED
    BY <1>12, <2>1, <2>2, <2>3, <2>4 DEF BatchInv
<1>22. IndexInv'
    BY <1>1, <1>10, <1>16, <1>17 DEF Core, IndexInv, StagedLive
<1>23. PromiseInv'
  <2>1. ASSUME NEW d \in Docs PROVE Replayed(a, d).stamp \in allowed'[d]
    <3>1. CASE d = r.id
      <4>1. Replayed(a, y.id) = [rows |-> y.rows, stamp |-> y.stamp, acc |-> y.acc]
        BY <1>7, <1>13, ReplayedWrite DEF a
      <4> QED
        BY <1>7, <1>14, <3>1, <4>1, SMTT(30)
    <3>2. CASE d # r.id
      <4>1. Replayed(a, d) = Replayed(log.cur, d)
        BY <1>7, <1>13, <3>2, ReplayedOther DEF a
      <4> QED
        BY <1>14, <4>1 DEF Core, PromiseInv
    <3> QED
      BY <3>1, <3>2
  <2>2. ASSUME NEW l \in log.poss \cup {log.cur, Unwound}, NEW d \in Docs
        PROVE Replayed(l, d).stamp \in allowed'[d]
    BY <1>14 DEF Core, PromiseInv
  <2>3. \A l \in log'.poss \cup {log'.cur, Unwound'} : l = a \/ l \in log.poss \cup {log.cur, Unwound}
    BY <1>10, <1>17
  <2> QED
    BY <2>1, <2>2, <2>3 DEF PromiseInv
<1> QED
    BY <1>10, <1>15, <1>16, <1>19, <1>20, <1>21, <1>22, <1>23 DEF Core

\* Store::rollback, whichever of the log's calls failed.
LEMMA RollbackIs ==
    ASSUME Core, Recoverable, up, Batching, NEW f, f.cur = log.cur,
           (f = log /\ "append" \in Faults) \/ Durability = "kill", rollback(f),
           UNCHANGED <<manifest, up, segments, base, next_id, version, docs, pending_barrier,
                       stamps, allowed, ahead>>
    PROVE  Core'
<1>1. "append" \in Faults \/ Durability = "kill"
    OBVIOUS
<1>2. TruncateData(op.dmark) /\ op' = Idle0 /\ log' = Wrote(f, SubSeq(f.cur, 1, op.lmark))
    BY DEF rollback, Return, TruncateLog
<1>3. PICK cut, p :
           /\ cut = SubSeq(files[Newest].cur, 1, op.dmark - Starts[Len(Names)])
           /\ files' = [files EXCEPT ![Newest] = [cur |-> cut, poss |-> p]]
           /\ \/ Durability = "kill" /\ p = {cut}
              \/ OneObject /\ p = files[Newest].poss
    BY <1>1, <1>2, CutIs
<1>4. log' = Wrote(f, Unwound)
    BY <1>2 DEF Unwound
<1> DEFINE q == Wrote(f, Unwound).poss
<1>5. log' = [cur |-> Unwound, poss |-> q]
    BY <1>4, WroteIs
<1>6. \/ Durability = "kill" /\ p = {cut} /\ q = {Unwound}
      \/ OneObject /\ p = files[Newest].poss /\ q = log.poss
  <2>1. Durability = "kill" => q = {Unwound}
    BY WroteIs
  <2>2. OneObject => Durability = "object"
    BY DEF OneObject
  <2>3. Durability = "object" => q = f.poss /\ f = log
    BY WroteIs
  <2> HIDE DEF q
  <2> QED
    BY <1>3, <2>1, <2>2, <2>3
<1> HIDE DEF q
<1>7. pending_barrier' \in BOOLEAN /\ version' \in Nat /\ stamps' \in Nat
    BY DEF Core, Shape
<1> QED
    BY <1>2, <1>3, <1>5, <1>6, <1>7, RollsBack

LEMMA UpsertLogs ==
    ASSUME Core, Recoverable, UpsertLog
    PROVE  Core'
<1>1. /\ up /\ op.pc = "log" /\ Batching
      /\ UNCHANGED <<manifest, up, segments, base, next_id, version, docs, pending_barrier,
                     stamps, ahead>>
    BY DEF UpsertLog, ram, Batching
<1> DEFINE k == op.i + 1
           r == op.staged[k]
<1>2. CASE /\ log' = Wrote(log, Append(log.cur, UpsertOp(r.id, r.rows, r.stamp)))
           /\ op' = [op EXCEPT !.i = k, !.pc = IF k < Len(op.staged) THEN "log" ELSE "lsync"]
           /\ allowed' = [allowed EXCEPT ![r.id] = @ \cup {r.stamp}]
           /\ UNCHANGED files
  <2>1. k = op.i + 1 /\ r = op.staged[k]
    OBVIOUS
  <2> HIDE DEF k, r
  <2> QED
    BY <1>1, <1>2, <2>1, UpsertLogAppends
<1>3. CASE "append" \in Faults /\ rollback(log) /\ UNCHANGED allowed
    BY <1>1, <1>3, RollbackIs
<1> QED
    BY <1>2, <1>3 DEF UpsertLog

\* What a batch has in the log is what it commits to the index.
LEMMA BatchReplay ==
    ASSUME Core, Recoverable, up, op.pc = "lsync", NEW d \in Docs
    PROVE  /\ Committed[d] \in Indexed
           /\ Staged(d) = {} => Committed[d] = docs[d]
           /\ d \notin ahead \/ Staged(d) # {} => Committed[d] = Replayed(log.cur, d)
<1>1. Batching /\ ~Rewriting /\ docs[d] \in Indexed
    BY DEF Batching, Rewriting, Core, Shape
<1>2. /\ OpShape /\ op.staged \in Seq(StagedRecord) /\ Len(op.staged) \in Nat
      /\ DOMAIN op.staged = 1..Len(op.staged) /\ op.lmark \in Nat
      /\ \A j \in DOMAIN op.staged : /\ op.staged[j].id \in Docs /\ op.staged[j].rows \subseteq Nat
                                     /\ op.staged[j].stamp \in Nat
    BY OpTypes DEF Core, Shape
<1>3. /\ op.i = Len(op.staged) /\ Len(log.cur) = op.lmark + op.i /\ op.lmark <= Len(log.cur)
      /\ \A j \in 1..op.i : log.cur[op.lmark + j] =
            UpsertOp(op.staged[j].id, op.staged[j].rows, op.staged[j].stamp)
    BY <1>1 DEF Core, BatchInv
<1>4. log.cur \in Seq(Record) /\ Len(log.cur) \in Nat /\ DOMAIN log.cur = 1..Len(log.cur)
    BY LogTypes DEF Core
<1>5. \A j \in DOMAIN log.cur : j > op.lmark =>
          /\ j - op.lmark \in DOMAIN op.staged
          /\ log.cur[j].id = op.staged[j - op.lmark].id
  <2>1. ASSUME NEW j \in DOMAIN log.cur, j > op.lmark
        PROVE  /\ j - op.lmark \in DOMAIN op.staged
               /\ log.cur[j].id = op.staged[j - op.lmark].id
    <3> DEFINE i == j - op.lmark
    <3>1. i \in 1..op.i /\ op.lmark + i = j
      BY <1>2, <1>3, <1>4, <2>1
    <3> HIDE DEF i
    <3>2. log.cur[op.lmark + i] = UpsertOp(op.staged[i].id, op.staged[i].rows, op.staged[i].stamp)
      BY <1>3, <3>1
    <3>3. log.cur[j].id = op.staged[i].id
      BY <3>1, <3>2 DEF UpsertOp
    <3> QED
      BY <1>2, <1>3, <3>1, <3>3 DEF i
  <2> QED
    BY <2>1
<1>6. CASE Staged(d) = {}
  <2>1. \A j \in DOMAIN log.cur : j > op.lmark => log.cur[j].id # d
    BY <1>5, <1>6 DEF Staged
  <2>2. Replayed(log.cur, d) = Replayed(Unwound, d)
    BY <1>1, <1>2, <1>3, <1>4, <2>1, ReplayedPrefix DEF Unwound
  <2>3. Committed[d] = docs[d]
    BY <1>6 DEF Committed
  <2> QED
    BY <1>1, <1>6, <2>2, <2>3 DEF Core, IndexInv
<1>7. CASE Staged(d) # {}
  <2> DEFINE j == Latest(Staged(d))
             w == op.lmark + j
  <2>1. Staged(d) \in SUBSET Nat /\ \A i \in Staged(d) : i <= Len(op.staged)
    BY <1>2 DEF Staged
  <2>2. j \in Staged(d) /\ \A i \in Staged(d) : i <= j
    BY <1>2, <1>7, <2>1, LatestIn
  <2>3. j \in DOMAIN op.staged /\ op.staged[j].id = d
    BY <2>2 DEF Staged
  <2>4. Committed[d] = [rows |-> op.staged[j].rows, stamp |-> op.staged[j].stamp, acc |-> 0]
    BY <1>7 DEF Committed
  <2> HIDE DEF j
  <2>5. w \in DOMAIN log.cur
    BY <1>2, <1>3, <1>4, <2>3
  <2>6. log.cur[w] = UpsertOp(d, op.staged[j].rows, op.staged[j].stamp)
    BY <1>2, <1>3, <2>3
  <2> HIDE DEF w
  <2>7. /\ log.cur[w].id = d /\ log.cur[w].kind = "upsert" /\ log.cur[w].rows = op.staged[j].rows
        /\ log.cur[w].stamp = op.staged[j].stamp /\ log.cur[w].acc = 0
    BY <2>6 DEF UpsertOp
  <2>8. ASSUME NEW i \in DOMAIN log.cur, i > w, log.cur[i].id = d PROVE FALSE
    <3>1. i > op.lmark
      BY <1>2, <1>4, <2>3, <2>8 DEF w
    <3>2. i - op.lmark \in Staged(d)
      BY <1>5, <2>8, <3>1 DEF Staged
    <3>3. i - op.lmark <= j
      BY <2>2, <3>2
    <3> QED
      BY <1>2, <1>4, <2>3, <2>8, <3>3 DEF w
  <2>9. Replayed(log.cur, log.cur[w].id) =
           [rows |-> log.cur[w].rows, stamp |-> log.cur[w].stamp, acc |-> log.cur[w].acc]
    BY <1>4, <2>5, <2>7, <2>8, ReplayedLast
  <2>10. Committed[d] \in Indexed
    BY <1>2, <2>3, <2>4 DEF Indexed
  <2> QED
    BY <1>7, <2>4, <2>7, <2>9, <2>10
<1> QED
    BY <1>6, <1>7

LEMMA UpsertCommits ==
    ASSUME Core, Recoverable, up, op.pc = "lsync",
           IF op.barrier THEN log' = Synced(log) /\ op' = [op EXCEPT !.pc = "publish"]
                         ELSE log' = log /\ op' = Idle0,
           pending_barrier' \in BOOLEAN, docs' = Committed,
           ahead' = ahead \ {op.staged[k].id : k \in DOMAIN op.staged},
           UNCHANGED <<files, manifest, up, segments, base, next_id, version, stamps, allowed>>
    PROVE  Core'
<1>1. Batching /\ ~Rewriting /\ op.kind = "upsert"
    BY DEF Batching, Rewriting, Core, StepInv
<1>2. /\ OpShape /\ op.barrier \in BOOLEAN
      /\ log.cur \in Seq(Record) /\ log.poss \in SUBSET Seq(Record)
      /\ log = [cur |-> log.cur, poss |-> log.poss]
    BY OpTypes, LogTypes DEF Core, Shape
<1>3. op.barrier => /\ log' = [cur |-> log.cur, poss |-> {log.cur}]
                    /\ op'.pc = "publish" /\ op'.kind = "upsert" /\ op'.staged = op.staged
                    /\ op'.batch = op.batch /\ op'.barrier = op.barrier /\ OpShape'
    BY <1>1, <1>2 DEF Synced, File, OpShape, Progress, Pcs
<1>4. log'.cur = log.cur /\ log'.poss \in SUBSET Seq(Record)
      /\ log' \in [cur : Seq(Record), poss : SUBSET Seq(Record)]
      /\ \A l \in log'.poss : l = log.cur \/ l \in log.poss
    BY <1>2, <1>3
<1>5. /\ OpShape' /\ StepInv' /\ BeginInv' /\ BatchInv' /\ SweepInv' /\ PlanInv'
      /\ MaySeal' /\ ~Rewriting' /\ Unwound' = log.cur /\ op'.pc \in {"idle", "publish"}
      /\ op'.pc = "publish" <=> op.barrier
  <2>1. CASE ~op.barrier
    BY <1>4, <2>1, Returns
  <2>2. CASE op.barrier
    <3>1. ~Rewriting' /\ ~Batching'
      BY <1>3, <2>2 DEF Rewriting, Batching
    <3>2. StepInv'
      BY <1>1, <1>3, <2>2 DEF Core, StepInv
    <3>3. BeginInv'
      BY <1>1, <1>3, <2>2 DEF Core, BeginInv
    <3>4. Unwound' = log.cur
      BY <1>3, <1>4, <2>2, <3>1 DEF Unwound
    <3> QED
      BY <1>3, <2>2, <3>1, <3>2, <3>3, <3>4 DEF BatchInv, SweepInv, PlanInv, MaySeal
  <2> QED
    BY <1>2, <2>1, <2>2
<1>6. /\ \A d \in Docs : Committed[d] \in Indexed
      /\ \A d \in Docs \ ahead' : docs'[d] = Replayed(log.cur, d)
      /\ \A d \in ahead' : docs'[d] = Absent
  <2>1. ASSUME NEW d \in Docs PROVE Staged(d) = {} \/ d \notin ahead'
    BY DEF Staged
  <2>2. ASSUME NEW d \in Docs, d \notin ahead', Staged(d) = {} PROVE d \notin ahead
    BY <2>2 DEF Staged
  <2>3. \A d \in ahead : docs[d] = Absent /\ d \in Docs
    BY DEF Core, IndexInv, Shape
  <2> QED
    BY <2>1, <2>2, <2>3, BatchReplay
<1>7. Shape'
  <2>1. docs' \in [Docs -> Indexed]
    BY <1>6 DEF Committed
  <2> QED
    BY <1>4, <1>5, <2>1 DEF Core, Shape
<1>8. Names' = Names /\ Newest' = Newest /\ Current' = Current /\ Starts' = Starts
      /\ \A l, t : Held(l, t)' <=> Held(l, t)
    BY DiskSame
<1>9. SegsInv'
    BY <1>1, <1>5, <1>8, SegsAfter
<1>10. op.barrier => files[Newest].poss = {files[Newest].cur}
    BY DEF Core, CertainInv
<1>11. CertainInv'
  <2>1. \A n \in SegName : \/ files[n].poss = {files[n].cur}
                           \/ n = Newest /\ Durability # "kill" /\ OneObject
    BY DEF Core, CertainInv
  <2>2. Durability = "kill" \/ op.barrier => log'.poss = {log.cur}
    BY <1>3 DEF Core, CertainInv
  <2>3. Durability # "object" => log.cur \in log'.poss
    BY <1>3 DEF Core, CertainInv
  <2> QED
    BY <1>4, <1>5, <1>8, <2>1, <2>2, <2>3 DEF CertainInv
<1>12. RowsInv'
  <2>1. \A l \in log.poss : \A t \in files[Newest].poss \cup {files[Newest].cur} : Held(l, t)
    BY <1>1 DEF Core, RowsInv
  <2>2. Held(log.cur, files[Newest].cur)
    BY <1>1 DEF Core, RowsInv
  <2>3. \A l \in log'.poss : \A t \in files[Newest].poss \cup {files[Newest].cur} : Held(l, t)
    BY <1>3, <1>10, <2>1, <2>2
  <2> QED
    BY <1>4, <1>8, <2>2, <2>3, RowsAfter
<1>13. IndexInv'
  <2>1. \A l \in log'.poss \cup {log'.cur} : WellFormed(l)
    BY <1>4 DEF Core, IndexInv
  <2>2. StagedLive'
    <3>1. op.barrier => \A k \in DOMAIN op'.staged : op'.staged[k].id \notin ahead'
      BY <1>3
    <3> QED
      BY <1>5, <3>1, Returns DEF StagedLive
  <2> QED
    BY <1>5, <1>6, <2>1, <2>2 DEF IndexInv, StagedLive
<1>14. PromiseInv'
    BY <1>4, <1>5 DEF Core, PromiseInv
<1> QED
    BY <1>5, <1>7, <1>9, <1>11, <1>12, <1>13, <1>14 DEF Core

LEMMA UpsertSyncLogs ==
    ASSUME Core, Recoverable, UpsertSyncLog
    PROVE  Core'
<1>1. /\ up /\ op.pc = "lsync" /\ Batching
      /\ UNCHANGED <<manifest, up, segments, base, next_id, version, stamps, allowed>>
    BY DEF UpsertSyncLog, Batching
<1>2. CASE /\ IF op.barrier
              THEN log' = Synced(log) /\ UNCHANGED pending_barrier
              ELSE pending_barrier' = TRUE /\ UNCHANGED log
           /\ docs' = Committed
           /\ op' = IF op.barrier THEN [op EXCEPT !.pc = "publish"] ELSE Idle0
           /\ ahead' = ahead \ {op.staged[k].id : k \in DOMAIN op.staged}
           /\ UNCHANGED files
  <2>1. pending_barrier' \in BOOLEAN
    BY <1>2 DEF Core, Shape
  <2>2. IF op.barrier THEN log' = Synced(log) /\ op' = [op EXCEPT !.pc = "publish"]
                      ELSE log' = log /\ op' = Idle0
    BY <1>2
  <2> QED
    BY <1>1, <1>2, <2>1, <2>2, UpsertCommits
<1>3. CASE /\ op.barrier /\ "sync" \in Faults
           /\ rollback(SyncFailed(log))
           /\ UNCHANGED <<docs, dead_rows, pending_barrier, ahead>>
  <2>1. Durability = "kill"
    BY <1>3, Regimes
  <2>2. SyncFailed(log).cur = log.cur
    BY LogTypes, SyncFailedIs DEF Core
  <2> DEFINE f == SyncFailed(log)
  <2>3. f.cur = log.cur /\ rollback(f)
    BY <1>3, <2>2
  <2> HIDE DEF f
  <2> QED
    BY <1>1, <1>3, <2>1, <2>3, RollbackIs
<1> QED
    BY <1>2, <1>3 DEF UpsertSyncLog

-----------------------------------------------------------------------------
(* The barrier and the commit point *)

\* A call that fails in its barrier or in its publish.
LEMMA BarrierFails ==
    ASSUME Core, Recoverable, up, ~Rewriting, ~Batching, op' = Idle0, files' = files,
           UNCHANGED <<manifest, up, segments, base, next_id, docs, allowed, ahead, stamps,
                       pending_barrier>>,
           version' \in Nat,
           NEW q, log' = [cur |-> Unwound, poss |-> q],
           \A l \in q : l = Unwound \/ l \in log.poss,
           Durability = "kill" => q = {Unwound},
           Durability # "object" => Unwound \in q,
           Durability = "object" => q \in SUBSET log.poss
    PROVE  Core'
<1>1. /\ Unwound \in Seq(Record) /\ WellFormed(Unwound)
      /\ \A t : Held(log.cur, t) => Held(Unwound, t)
  <2>1. CASE op.kind = "sweep"
    BY <2>1, UnwoundFacts
  <2>2. CASE op.kind # "sweep"
    BY <2>2, UnwoundIs, LogTypes DEF Core, IndexInv
  <2> QED
    BY <2>1, <2>2
<1>2. log'.cur = Unwound /\ log'.poss = q
    OBVIOUS
<1>3. log.poss \in SUBSET Seq(Record)
    BY LogTypes DEF Core
<1>4. Shape'
    BY <1>1, <1>2, <1>3, Returns DEF Core, Shape
<1>5. /\ Names' = Names /\ Newest' = Newest /\ Current' = Current /\ Starts' = Starts
      /\ \A l, t : Held(l, t)' <=> Held(l, t)
    BY DiskSame
<1>6. op.pc \notin {"data", "dsync"} /\ op'.pc = "idle" /\ ~Rewriting' /\ Unwound' = Unwound
    BY <1>2, Returns DEF Batching
<1>7. SegsInv'
    BY <1>5, <1>6, SegsAfter, Returns
<1>8. CertainInv'
  <2>1. \A n \in SegName : \/ files[n].poss = {files[n].cur}
                           \/ n = Newest /\ Durability # "kill" /\ OneObject
    BY <1>6 DEF Core, CertainInv
  <2> QED
    BY <1>2, <1>5, <1>6, <2>1 DEF CertainInv
<1>9. RowsInv'
  <2>1. \A l \in log.poss : \A t \in files[Newest].poss \cup {files[Newest].cur} : Held(l, t)
    BY DEF Core, RowsInv
  <2>2. Held(log.cur, files[Newest].cur)
    BY DEF Core, RowsInv
  <2>3. Held(Unwound, files[Newest].cur)
    BY <1>1, <2>2
  <2>4. Durability # "object" => files[Newest].poss = {files[Newest].cur}
    BY <1>6, Apart, Views, DurabilityAssumption DEF Core, CertainInv
  <2>5. \A l \in log'.poss : \A t \in files[Newest].poss \cup {files[Newest].cur} : Held(l, t)
    <3>1. CASE Durability = "object"
      BY <1>2, <2>1, <3>1
    <3>2. CASE Durability # "object"
      BY <1>2, <2>1, <2>3, <2>4, <3>2
    <3> QED
      BY <3>1, <3>2
  <2>6. Held(log'.cur, files[Newest].cur)
    BY <1>2, <2>3
  <2>7. files'[Newest].cur = files[Newest].cur /\ files'[Newest].poss = files[Newest].poss
    OBVIOUS
  <2> QED
    BY <1>5, <2>5, <2>6, <2>7, RowsAfter
<1>10. IndexInv'
  <2>1. \A l \in log'.poss \cup {log'.cur} : WellFormed(l)
    BY <1>1, <1>2 DEF Core, IndexInv
  <2> QED
    BY <1>6, <2>1, Returns DEF Core, IndexInv, StagedLive
<1>11. PromiseInv'
    BY <1>2, <1>6 DEF Core, PromiseInv
<1> QED
    BY <1>4, <1>7, <1>8, <1>9, <1>10, <1>11, Returns DEF Core

\* The log a failed call leaves, from the log l its failing step left.
LEMMA FailIs ==
    ASSUME Core, Recoverable, ~Batching, NEW f, FailBarrier(f), f.cur = log.cur,
           f = [cur |-> f.cur, poss |-> f.poss],
           f.poss = log.poss \/ (Durability = "kill" /\ f.poss = {log.cur})
    PROVE  /\ op' = Idle0
           /\ \E q : /\ log' = [cur |-> Unwound, poss |-> q]
                     /\ \A l \in q : l = Unwound \/ l \in log.poss
                     /\ Durability = "kill" => q = {Unwound}
                     /\ Durability # "object" => Unwound \in q
                     /\ Durability = "object" => q \in SUBSET log.poss
<1>1. op' = Idle0
    BY DEF FailBarrier, Return
<1>2. CASE op.kind = "sweep"
  <2>1. log' = Wrote(f, Unwound)
    BY <1>2 DEF FailBarrier, TruncateLog, Unwound
  <2> DEFINE q == Wrote(f, Unwound).poss
  <2>2. log' = [cur |-> Unwound, poss |-> q]
    BY <2>1, WroteIs
  <2>3. /\ Durability = "kill" => q = {Unwound}
        /\ Durability = "power" => q = f.poss \cup {Unwound}
        /\ Durability = "object" => q = f.poss
    BY WroteIs
  <2> HIDE DEF q
  <2>4. /\ \A l \in q : l = Unwound \/ l \in log.poss
        /\ Durability # "object" => Unwound \in q
        /\ Durability = "object" => q \in SUBSET log.poss
    BY <2>3, DurabilityAssumption
  <2> QED
    BY <1>1, <2>2, <2>3, <2>4
<1>3. CASE op.kind # "sweep"
  <2>1. log' = f /\ Unwound = log.cur
    BY <1>3, UnwoundIs DEF FailBarrier
  <2>2. /\ Durability = "kill" => log.poss = {log.cur}
        /\ Durability # "object" => log.cur \in log.poss
    BY DEF Core, CertainInv
  <2>3. f.poss = log.poss
    BY <2>2
  <2> QED
    BY <1>1, <2>1, <2>2, <2>3
<1> QED
    BY <1>2, <1>3

\* Segments::sync of the active segment changes no content.
LEMMA SyncKeepsNeed ==
    ASSUME Core, up, ~Rewriting, UNCHANGED <<segments, next_id>>, MaySeal,
           op'.kind = op.kind, op'.pc # "seal", files'[Newest].cur = files[Newest].cur
    PROVE  MaySeal'
<1>1. Active = Newest /\ Active' = Active
    BY OpenViews DEF Core, Active
<1>2. ActiveRows' = ActiveRows
    BY <1>1 DEF ActiveRows
<1> QED
    BY <1>2 DEF MaySeal, NeedsSeal

LEMMA BarrierDatas ==
    ASSUME Core, Recoverable, BarrierData
    PROVE  Core'
<1>1. /\ up /\ op.pc = "bdata"
      /\ UNCHANGED <<manifest, up, segments, base, next_id, docs, allowed, ahead>>
      /\ UNCHANGED <<pending_barrier, version, stamps>>
    BY DEF BarrierData, ram, aux
<1>2. ~Batching /\ ~Rewriting /\ op.kind \in {"delete", "sweep", "commit", "flush"}
    BY <1>1 DEF Batching, Rewriting, Core, StepInv
<1>3. CASE files' = [files EXCEPT ![Active] = Synced(@)] /\ op' = [op EXCEPT !.pc = "blog"] /\ UNCHANGED log
  <2>1. /\ Names' = Names /\ Newest' = Newest /\ Starts' = Starts /\ Current' = Current
        /\ files'[Newest].cur = files[Newest].cur /\ files'[Newest].poss = {files[Newest].cur}
        /\ \A n \in SegName : n # Newest => files'[n] = files[n]
        /\ files' \in [SegName -> [cur : Seq(Nat), poss : SUBSET Seq(Nat)]]
        /\ \A l, t : Held(l, t)' <=> Held(l, t)
    BY <1>1, <1>2, <1>3, SyncsActive
  <2>2. /\ op'.pc = "blog" /\ op'.staged = op.staged /\ op'.kind = op.kind /\ op'.i = op.i
        /\ op'.lmark = op.lmark /\ op'.barrier = op.barrier /\ op'.batch = op.batch /\ OpShape'
    BY <1>3 DEF Core, Shape, OpShape, Progress, Pcs
  <2>3. Shape'
    BY <1>1, <1>3, <2>1, <2>2 DEF Core, Shape
  <2>4. StepInv' /\ BeginInv' /\ SweepInv' /\ ~Rewriting' /\ ~Batching' /\ MaySeal' /\ PlanInv' /\ StagedLive'
        /\ BatchInv'
    <3>1. StepInv'
      BY <1>1, <1>2, <2>2 DEF Core, StepInv
    <3>2. BeginInv'
      BY <1>2, <2>2 DEF BeginInv
    <3>3. SweepInv'
      BY <1>1, <1>3, <2>2 DEF Core, SweepInv
    <3>4. MaySeal
      BY DEF Core, SegsInv, MaySeal
    <3>5. MaySeal'
      BY <1>1, <1>2, <2>1, <2>2, <3>4, SyncKeepsNeed
    <3>6. StagedLive'
      BY <1>1, <1>2, <2>2 DEF Core, IndexInv, StagedLive
    <3> QED
      BY <2>2, <3>1, <3>2, <3>3, <3>5, <3>6 DEF Rewriting, Batching, PlanInv, BatchInv
  <2>5. Unwound' = Unwound
    BY <1>2, <1>3, <2>2, <2>4 DEF Unwound
  <2>6. SegsInv'
    BY <1>1, <1>2, <2>1, <2>4, SegsAfter
  <2>7. CertainInv'
    <3>1. \A n \in SegName : n # Newest => files'[n].poss = {files'[n].cur}
      BY <2>1 DEF Core, CertainInv
    <3>2. \A n \in SegName : files'[n].poss = {files'[n].cur}
      BY <2>1, <3>1
    <3>3. Newest' \in SegName
      BY <2>1, Views DEF Core
    <3> QED
      BY <1>1, <1>3, <2>2, <3>2, <3>3 DEF Core, CertainInv
  <2>8. RowsInv'
    <3>1. \A l \in log'.poss : \A u \in {files[Newest].cur} \cup {files[Newest].cur} : Held(l, u)
      BY <1>2, <1>3 DEF Core, RowsInv
    <3>2. Held(log'.cur, files[Newest].cur)
      BY <1>2, <1>3 DEF Core, RowsInv
    <3> QED
      BY <2>1, <3>1, <3>2, RowsAfter
  <2>9. IndexInv' /\ PromiseInv'
    BY <1>1, <1>2, <1>3, <2>4, <2>5 DEF Core, IndexInv, PromiseInv, StagedLive
  <2> QED
    BY <2>3, <2>4, <2>6, <2>7, <2>8, <2>9 DEF Core
<1>4. CASE "sync" \in Faults /\ files' = [files EXCEPT ![Active] = SyncFailed(@)] /\ FailBarrier(log)
  <2>1. Durability = "kill"
    BY <1>4, Regimes
  <2>2. files' = files
    <3>1. Active = Newest /\ Newest \in SegName
      BY <1>1, <1>2, OpenViews, Views DEF Core
    <3>2. /\ files[Newest] = [cur |-> files[Newest].cur, poss |-> files[Newest].poss]
          /\ files[Newest].poss = {files[Newest].cur}
      BY <2>1, <3>1, FileTypes DEF Core, CertainInv
    <3>3. SyncFailed(files[Newest]) = [cur |-> files[Newest].cur, poss |-> files[Newest].poss \cup {files[Newest].cur}]
      BY <3>2, SyncFailedIs
    <3>4. SyncFailed(files[Newest]) = files[Newest]
      BY <3>2, <3>3
    <3>5. files \in [SegName -> [cur : Seq(Nat), poss : SUBSET Seq(Nat)]]
      BY DEF Core, Shape
    <3> QED
      BY <1>4, <3>1, <3>4, <3>5
  <2>3. PICK q : /\ log' = [cur |-> Unwound, poss |-> q]
                 /\ \A l \in q : l = Unwound \/ l \in log.poss
                 /\ Durability = "kill" => q = {Unwound}
                 /\ Durability # "object" => Unwound \in q
                 /\ Durability = "object" => q \in SUBSET log.poss
    BY <1>2, <1>4, FailIs, LogTypes DEF Core
  <2>4. op' = Idle0 /\ version' \in Nat
    BY <1>1, <1>4 DEF FailBarrier, Return, Core, Shape
  <2> QED
    BY <1>1, <1>2, <2>2, <2>3, <2>4, BarrierFails
<1> QED
    BY <1>3, <1>4 DEF BarrierData

LEMMA BarrierLogs ==
    ASSUME Core, Recoverable, BarrierLog
    PROVE  Core'
<1>1. /\ up /\ op.pc = "blog" /\ files' = files
      /\ UNCHANGED <<manifest, up, segments, base, next_id, docs, allowed, ahead>>
      /\ UNCHANGED <<pending_barrier, version, stamps>>
    BY DEF BarrierLog, ram, aux
<1>2. ~Batching /\ ~Rewriting /\ op.kind \in {"delete", "sweep", "commit", "flush"}
    BY <1>1 DEF Batching, Rewriting, Core, StepInv
<1>3. /\ log.cur \in Seq(Record) /\ log = [cur |-> log.cur, poss |-> log.poss]
    BY LogTypes DEF Core
<1>4. CASE log' = Synced(log) /\ op' = [op EXCEPT !.pc = "publish"]
  <2>1. /\ Names' = Names /\ Newest' = Newest /\ Current' = Current /\ Starts' = Starts
        /\ \A l, t : Held(l, t)' <=> Held(l, t)
    BY <1>1, DiskSame
  <2>2. /\ op'.pc = "publish" /\ op'.staged = op.staged /\ op'.kind = op.kind /\ op'.i = op.i
        /\ op'.lmark = op.lmark /\ op'.barrier = op.barrier /\ op'.batch = op.batch /\ OpShape'
    BY <1>4 DEF Core, Shape, OpShape, Progress, Pcs
  <2>3. log'.cur = log.cur /\ log'.poss = {log.cur} /\ log' \in [cur : Seq(Record), poss : SUBSET Seq(Record)]
    BY <1>3, <1>4 DEF Synced, File
  <2>4. Shape'
    BY <1>1, <2>2, <2>3 DEF Core, Shape
  <2>5. StepInv' /\ BeginInv' /\ SweepInv' /\ ~Rewriting' /\ ~Batching' /\ MaySeal' /\ PlanInv' /\ StagedLive'
        /\ BatchInv'
    <3>1. StepInv'
      BY <1>1, <1>2, <2>2 DEF Core, StepInv
    <3>2. BeginInv'
      BY <1>2, <2>2 DEF BeginInv
    <3>3. SweepInv'
      BY <1>1, <2>2, <2>3 DEF Core, SweepInv
    <3>4. MaySeal
      BY DEF Core, SegsInv, MaySeal
    <3>5. MaySeal'
      BY <1>1, <1>2, <2>2, <3>4, SyncKeepsNeed
    <3>6. StagedLive'
      BY <1>1, <1>2, <2>2 DEF Core, IndexInv, StagedLive
    <3> QED
      BY <2>2, <3>1, <3>2, <3>3, <3>5, <3>6 DEF Rewriting, Batching, PlanInv, BatchInv
  <2>6. Unwound' = Unwound
    BY <1>2, <2>2, <2>3, <2>5 DEF Unwound
  <2>7. SegsInv'
    BY <1>1, <1>2, <2>1, <2>5, SegsAfter
  <2>8. CertainInv'
    <3>1. \A n \in SegName : files[n].poss = {files[n].cur}
      BY <1>1 DEF Core, CertainInv
    <3>2. Newest' \in SegName
      BY <2>1, Views DEF Core
    <3> QED
      BY <1>1, <2>2, <2>3, <3>1, <3>2 DEF CertainInv
  <2>9. RowsInv'
    <3>1. Held(log.cur, files[Newest].cur) /\ files[Newest].poss = {files[Newest].cur}
      BY <1>1, <1>2 DEF Core, RowsInv, CertainInv
    <3>2. \A l \in log'.poss : \A t \in files[Newest].poss \cup {files[Newest].cur} : Held(l, t)
      BY <2>3, <3>1
    <3>3. Held(log'.cur, files[Newest].cur) /\ files'[Newest].cur = files[Newest].cur
          /\ files'[Newest].poss = files[Newest].poss
      BY <1>1, <2>3, <3>1
    <3> QED
      BY <2>1, <3>2, <3>3, RowsAfter
  <2>10. IndexInv' /\ PromiseInv'
    BY <1>1, <1>2, <2>3, <2>5, <2>6 DEF Core, IndexInv, PromiseInv, StagedLive
  <2> QED
    BY <2>4, <2>5, <2>7, <2>8, <2>9, <2>10 DEF Core
<1>5. CASE "sync" \in Faults /\ FailBarrier(SyncFailed(log))
  <2>1. Durability = "kill" /\ log.poss = {log.cur}
    BY <1>5, Regimes DEF Core, CertainInv
  <2>2. SyncFailed(log) = log
    <3>1. SyncFailed(log) = [cur |-> log.cur, poss |-> log.poss \cup {log.cur}]
      BY <1>3, SyncFailedIs
    <3> QED
      BY <1>3, <2>1, <3>1
  <2>3. FailBarrier(log)
    BY <1>5, <2>2
  <2>4. PICK q : /\ log' = [cur |-> Unwound, poss |-> q]
                 /\ \A l \in q : l = Unwound \/ l \in log.poss
                 /\ Durability = "kill" => q = {Unwound}
                 /\ Durability # "object" => Unwound \in q
                 /\ Durability = "object" => q \in SUBSET log.poss
    BY <1>2, <1>3, <2>3, FailIs
  <2>5. op' = Idle0 /\ version' \in Nat
    BY <1>1, <2>3 DEF FailBarrier, Return, Core, Shape
  <2> QED
    BY <1>1, <1>2, <2>4, <2>5, BarrierFails
<1> QED
    BY <1>4, <1>5 DEF BarrierLog

\* What a sweep has in the log is what it takes out of the index.
LEMMA SweepReplay ==
    ASSUME Core, Recoverable, op.kind = "sweep", op.pc # "slog", NEW d \in Docs
    PROVE  Replayed(log.cur, d) = IF Staged(d) # {} THEN Absent ELSE Replayed(Unwound, d)
<1>2. /\ OpShape /\ op.staged \in Seq(StagedRecord) /\ Len(op.staged) \in Nat
      /\ DOMAIN op.staged = 1..Len(op.staged) /\ op.lmark \in Nat
    BY OpTypes DEF Core, Shape
<1>3. /\ op.i = Len(op.staged) /\ Len(log.cur) = op.lmark + op.i
      /\ \A j \in 1..op.i : log.cur[op.lmark + j] = DeleteOp(op.staged[j].id)
    BY DEF Core, SweepInv
<1>4. log.cur \in Seq(Record) /\ Len(log.cur) \in Nat /\ DOMAIN log.cur = 1..Len(log.cur)
    BY LogTypes DEF Core
<1>5. \A j \in DOMAIN log.cur : j > op.lmark =>
          /\ j - op.lmark \in DOMAIN op.staged
          /\ log.cur[j].id = op.staged[j - op.lmark].id
  <2>1. ASSUME NEW j \in DOMAIN log.cur, j > op.lmark
        PROVE  /\ j - op.lmark \in DOMAIN op.staged
               /\ log.cur[j].id = op.staged[j - op.lmark].id
    <3> DEFINE i == j - op.lmark
    <3>1. i \in 1..op.i /\ op.lmark + i = j
      BY <1>2, <1>3, <1>4, <2>1
    <3> HIDE DEF i
    <3>2. log.cur[op.lmark + i] = DeleteOp(op.staged[i].id)
      BY <1>3, <3>1
    <3>3. log.cur[j].id = op.staged[i].id
      BY <3>1, <3>2 DEF DeleteOp
    <3> QED
      BY <1>2, <1>3, <3>1, <3>3 DEF i
  <2> QED
    BY <2>1
<1>6. CASE Staged(d) = {}
  <2>1. \A j \in DOMAIN log.cur : j > op.lmark => log.cur[j].id # d
    BY <1>5, <1>6 DEF Staged
  <2>2. op.lmark <= Len(log.cur)
    BY <1>2, <1>3
  <2>3. Replayed(log.cur, d) = Replayed(Unwound, d)
    BY <1>2, <1>4, <2>1, <2>2, ReplayedPrefix DEF Unwound
  <2> QED
    BY <1>6, <2>3
<1>7. CASE Staged(d) # {}
  <2> DEFINE j == Latest(Staged(d))
             w == op.lmark + j
  <2>1. Staged(d) \in SUBSET Nat /\ \A i \in Staged(d) : i <= Len(op.staged)
    BY <1>2 DEF Staged
  <2>2. j \in Staged(d) /\ \A i \in Staged(d) : i <= j
    BY <1>2, <1>7, <2>1, LatestIn
  <2>3. j \in DOMAIN op.staged /\ op.staged[j].id = d
    BY <2>2 DEF Staged
  <2> HIDE DEF j
  <2>5. w \in DOMAIN log.cur
    BY <1>2, <1>3, <1>4, <2>3
  <2>6. log.cur[w] = DeleteOp(d)
    BY <1>2, <1>3, <2>3
  <2> HIDE DEF w
  <2>7. log.cur[w].id = d /\ log.cur[w].kind = "delete"
    BY <2>6 DEF DeleteOp
  <2>8. ASSUME NEW i \in DOMAIN log.cur, i > w, log.cur[i].id = d PROVE FALSE
    <3>1. i > op.lmark
      BY <1>2, <1>4, <2>3, <2>8 DEF w
    <3>2. i - op.lmark \in Staged(d)
      BY <1>5, <2>8, <3>1 DEF Staged
    <3>3. i - op.lmark <= j
      BY <2>2, <3>2
    <3> QED
      BY <1>2, <1>4, <2>3, <2>8, <3>3 DEF w
  <2>9. Replayed(log.cur, log.cur[w].id) = Absent
    BY <1>4, <2>5, <2>7, <2>8, ReplayedLast
  <2> QED
    BY <1>7, <2>7, <2>9
<1> QED
    BY <1>6, <1>7

\* A call past its barrier returns, and what it promises is in the log.
LEMMA Acknowledges ==
    ASSUME Core, Recoverable, up, op.pc = "publish", files' = files, log' = log,
           UNCHANGED <<up, segments, base, next_id, stamps, ahead>>,
           manifest'.segments = manifest.segments, manifest'.next_id = manifest.next_id,
           manifest' \in [segments : Seq(SegName), next_id : Nat, version : Nat],
           version' \in Nat, pending_barrier' \in BOOLEAN,
           docs' \in [Docs -> Indexed], allowed' \in [Docs -> SUBSET Nat],
           \A d \in Docs \ ahead : docs'[d] = Replayed(log.cur, d),
           \A d \in ahead : docs'[d] = Absent,
           \A d \in Docs : Replayed(log.cur, d).stamp \in allowed'[d],
           op' = Idle0 \/ (op.kind = "flush" /\ op' = [op EXCEPT !.pc = "seal"])
    PROVE  Core'
<1>1. ~Batching /\ ~Rewriting
    BY DEF Batching, Rewriting
<1>2. /\ Names' = Names /\ Newest' = Newest /\ Current' = Current /\ Starts' = Starts
      /\ \A l, t : Held(l, t)' <=> Held(l, t)
    BY DiskSame
<1>3. log.poss = {log.cur}
    BY DEF Core, CertainInv
<1>4. /\ OpShape' /\ StepInv' /\ BeginInv' /\ BatchInv' /\ SweepInv' /\ PlanInv'
      /\ MaySeal' /\ StagedLive' /\ ~Rewriting'
      /\ Unwound' = log'.cur /\ op'.pc \in {"idle", "seal"}
  <2>1. CASE op' = Idle0
    BY <2>1, Returns
  <2>2. CASE op.kind = "flush" /\ op' = [op EXCEPT !.pc = "seal"]
    <3>1. op'.pc = "seal" /\ op'.kind = "flush" /\ OpShape'
      BY <2>2 DEF Core, Shape, OpShape, Progress, Pcs
    <3>2. ~Rewriting' /\ ~Batching'
      BY <3>1 DEF Rewriting, Batching
    <3>3. StepInv'
      BY <3>1 DEF StepInv
    <3>4. NeedsSeal' <=> NeedsSeal
      BY DEF NeedsSeal, ActiveRows, Active
    <3>5. MaySeal'
      BY <2>2, <3>1, <3>4 DEF Core, SegsInv, MaySeal
    <3>6. Unwound' = log'.cur
      BY <3>1, <3>2 DEF Unwound
    <3> QED
      BY <3>1, <3>2, <3>3, <3>5, <3>6 DEF BeginInv, BatchInv, SweepInv, PlanInv, StagedLive
  <2> QED
    BY <2>1, <2>2
<1>5. Shape'
    BY <1>4 DEF Core, Shape
<1>6. SegsInv'
    BY <1>1, <1>2, <1>4 DEF Core, SegsInv, MaySeal
<1>7. CertainInv'
    BY <1>1, <1>2, <1>4 DEF Core, CertainInv
<1>8. RowsInv'
  <2>1. /\ \A l \in log.poss : \A t \in files[Newest].poss \cup {files[Newest].cur} : Held(l, t)
        /\ Held(log.cur, files[Newest].cur)
    BY <1>1 DEF Core, RowsInv
  <2> QED
    BY <1>2, <2>1 DEF RowsInv
<1>9. IndexInv'
    BY <1>4 DEF Core, IndexInv, StagedLive
<1>10. PromiseInv'
    BY <1>3, <1>4 DEF PromiseInv
<1> QED
    BY <1>4, <1>5, <1>6, <1>7, <1>8, <1>9, <1>10 DEF Core

\* What a finished call has promised.
LEMMA Finishes ==
    ASSUME Core, Recoverable, up, op.pc = "publish", Finish
    PROVE  /\ pending_barrier' \in BOOLEAN
           /\ docs' \in [Docs -> Indexed] /\ allowed' \in [Docs -> SUBSET Nat]
           /\ \A d \in Docs \ ahead : docs'[d] = Replayed(log.cur, d)
           /\ \A d \in ahead : docs'[d] = Absent
           /\ \A d \in Docs : Replayed(log.cur, d).stamp \in allowed'[d]
           /\ op' = Idle0 \/ (op.kind = "flush" /\ op' = [op EXCEPT !.pc = "seal"])
<1> DEFINE S == {op.staged[k].id : k \in DOMAIN op.staged}
           swept == [d \in Docs |-> IF d \in S THEN Absent ELSE docs[d]]
<1>1. ~Batching /\ ~Rewriting
    BY DEF Batching, Rewriting
<1>2. /\ docs \in [Docs -> Indexed] /\ allowed \in [Docs -> SUBSET Nat] /\ pending_barrier \in BOOLEAN
      /\ ahead \subseteq Docs /\ log.cur \in Seq(Record)
    BY LogTypes DEF Core, Shape
<1>3. /\ \A d \in Docs \ ahead : docs[d] = Replayed(Unwound, d)
      /\ \A d \in ahead : docs[d] = Absent
    BY <1>1 DEF Core, IndexInv
<1>4. \A d \in Docs : Replayed(log.cur, d).stamp \in allowed[d] /\ Replayed(log.cur, d) \in Indexed
    BY <1>2, ReplayedType DEF Core, PromiseInv
<1>5. \A d \in Docs : docs[d].stamp \in Nat
    BY <1>2 DEF Indexed
<1>6. \A d \in Docs : Staged(d) # {} <=> d \in S
    BY DEF Staged
<1>7. CASE op.kind = "sweep"
  <2>1. /\ docs' = swept /\ allowed' = Promise(S, swept) /\ op' = Idle0
        /\ pending_barrier' = pending_barrier
    BY <1>7 DEF Finish, Return
  <2>2. \A d \in Docs : Replayed(log.cur, d) = IF d \in S THEN Absent ELSE Replayed(Unwound, d)
    BY <1>6, <1>7, SweepReplay
  <2>3. swept \in [Docs -> Indexed]
    BY <1>2 DEF Absent, Indexed
  <2>4. Absent.stamp = 0
    BY DEF Absent
  <2>5. \A d \in Docs : swept[d] = IF d \in S THEN Absent ELSE docs[d]
    OBVIOUS
  <2> HIDE DEF swept, S
  <2>6. allowed' = [d \in Docs |-> IF d \in S THEN {swept[d].stamp} ELSE allowed[d]]
    BY <2>1 DEF Promise
  <2>7. \A d \in Docs : swept[d].stamp \in Nat
    BY <2>3 DEF Indexed
  <2>8. allowed' \in [Docs -> SUBSET Nat]
    BY <1>2, <2>6, <2>7
  <2>9. \A d \in Docs : Replayed(log.cur, d).stamp \in allowed'[d]
    BY <1>4, <2>2, <2>5, <2>6
  <2>10. /\ \A d \in Docs \ ahead : docs'[d] = Replayed(log.cur, d)
         /\ \A d \in ahead : docs'[d] = Absent
    BY <1>2, <1>3, <2>1, <2>2, <2>5
  <2> QED
    BY <1>2, <2>1, <2>3, <2>8, <2>9, <2>10
<1>8. CASE op.kind # "sweep"
  <2>1. Unwound = log.cur
    BY <1>1, <1>8, UnwoundIs
  <2>2. ASSUME NEW T, T \cap ahead = {}, allowed' = Promise(T, docs)
        PROVE  /\ allowed' \in [Docs -> SUBSET Nat]
               /\ \A d \in Docs : Replayed(log.cur, d).stamp \in allowed'[d]
    <3>1. allowed' = [d \in Docs |-> IF d \in T THEN {docs[d].stamp} ELSE allowed[d]]
      BY <2>2 DEF Promise
    <3>2. \A d \in Docs : d \in T => docs[d] = Replayed(log.cur, d)
      BY <1>3, <2>1, <2>2
    <3> QED
      BY <1>2, <1>4, <1>5, <3>1, <3>2
  <2>3. CASE op.kind \in {"commit", "flush"}
    <3>1. /\ allowed' = Promise(Docs \ ahead, docs) /\ pending_barrier' = FALSE /\ docs' = docs
          /\ op' = IF op.kind = "flush" THEN [op EXCEPT !.pc = "seal"] ELSE Idle0
      BY <2>3 DEF Finish, Return
    <3> QED
      BY <1>2, <1>3, <2>1, <2>2, <3>1
  <2>4. CASE op.kind \notin {"commit", "flush"}
    <3>1. /\ allowed' = Promise(S, docs) /\ op' = Idle0
          /\ docs' = docs /\ pending_barrier' = pending_barrier
      BY <1>8, <2>4 DEF Finish, Return
    <3>2. S \cap ahead = {}
      <4>1. op.kind \in {"upsert", "delete", "reinforce"}
        BY <1>8, <2>4 DEF Core, StepInv
      <4>2. \A k \in DOMAIN op.staged : op.staged[k].id \notin ahead
        BY <4>1 DEF Core, IndexInv
      <4> QED
        BY <4>2
    <3> HIDE DEF S
    <3> QED
      BY <1>2, <1>3, <2>1, <2>2, <3>1, <3>2
  <2> QED
    BY <2>3, <2>4
<1> QED
    BY <1>7, <1>8

LEMMA NoteCommitPoints ==
    ASSUME Core, Recoverable, NoteCommitPoint
    PROVE  Core'
<1>1. /\ up /\ op.pc = "publish"
      /\ UNCHANGED <<files, up, segments, base, next_id, stamps, ahead>>
    BY DEF NoteCommitPoint
<1>2. ~Batching /\ ~Rewriting
    BY <1>1 DEF Batching, Rewriting
<1>3. /\ manifest \in [segments : Seq(SegName), next_id : Nat, version : Nat]
      /\ version \in Nat /\ segments \in Seq(SegName) /\ next_id \in Nat
    BY DEF Core, Shape
<1>4. CASE Finish /\ UNCHANGED <<version, manifest, log>>
    BY <1>1, <1>3, <1>4, Finishes, Acknowledges
<1>5. CASE /\ version' = NextVersion /\ manifest' = Manifest(segments, next_id, NextVersion)
           /\ Finish /\ UNCHANGED log
  <2>1. segments = Names /\ next_id = manifest.next_id
    BY <1>1, <1>2, OpenViews DEF Core
  <2>2. /\ version' \in Nat /\ manifest'.segments = manifest.segments
        /\ manifest'.next_id = manifest.next_id
        /\ manifest' \in [segments : Seq(SegName), next_id : Nat, version : Nat]
    BY <1>3, <1>5, <2>1 DEF Manifest, NextVersion, Names
  <2> QED
    BY <1>1, <1>5, <2>2, Finishes, Acknowledges
<1>6. CASE /\ version' = NextVersion /\ FailBarrier(log)
           /\ UNCHANGED <<manifest, docs, dead_rows, pending_barrier, allowed>>
  <2>1. PICK q : /\ log' = [cur |-> Unwound, poss |-> q]
                 /\ \A l \in q : l = Unwound \/ l \in log.poss
                 /\ Durability = "kill" => q = {Unwound}
                 /\ Durability # "object" => Unwound \in q
                 /\ Durability = "object" => q \in SUBSET log.poss
    BY <1>2, <1>6, FailIs, LogTypes DEF Core
  <2>2. op' = Idle0 /\ version' \in Nat
    BY <1>3, <1>6 DEF FailBarrier, Return, NextVersion
  <2> QED
    BY <1>1, <1>2, <1>6, <2>1, <2>2, BarrierFails
<1> QED
    BY <1>4, <1>5, <1>6 DEF NoteCommitPoint

-----------------------------------------------------------------------------
(* delete, delete_where_all and reinforce *)

\* A call that returns with the log as it is and the index changed.
LEMMA IndexChanges ==
    ASSUME Core, Recoverable, up, ~Rewriting, op.pc \notin {"data", "dsync"}, op' = Idle0,
           UNCHANGED <<files, log, manifest, up, segments, base, next_id, version, stamps, allowed>>,
           pending_barrier' \in BOOLEAN, docs' \in [Docs -> Indexed], ahead' \in SUBSET Docs,
           \A d \in Docs \ ahead' : docs'[d] = Replayed(log.cur, d),
           \A d \in ahead' : docs'[d] = Absent
    PROVE  Core'
<1>1. Shape'
    BY Returns DEF Core, Shape
<1>2. /\ Names' = Names /\ Newest' = Newest /\ Current' = Current /\ Starts' = Starts
      /\ \A l, t : Held(l, t)' <=> Held(l, t)
    BY DiskSame
<1>3. op'.pc = "idle" /\ ~Rewriting' /\ Unwound' = log.cur
    BY Returns
<1>4. SegsInv'
    BY <1>2, <1>3, SegsAfter, Returns
<1>5. CertainInv'
    BY <1>2, <1>3 DEF Core, CertainInv
<1>6. RowsInv'
  <2>1. /\ \A l \in log.poss : \A t \in files[Newest].poss \cup {files[Newest].cur} : Held(l, t)
        /\ Held(log.cur, files[Newest].cur)
    BY DEF Core, RowsInv
  <2> QED
    BY <1>2, <2>1 DEF RowsInv
<1>7. IndexInv'
    BY <1>3, Returns DEF Core, IndexInv, StagedLive
<1>8. PromiseInv'
    BY <1>3 DEF Core, PromiseInv
<1> QED
    BY <1>1, <1>4, <1>5, <1>6, <1>7, <1>8, Returns DEF Core

LEMMA SweepDefers ==
    ASSUME Core, Recoverable, SweepDeferred
    PROVE  Core'
<1> DEFINE S == {op.staged[k].id : k \in DOMAIN op.staged}
           swept == [d \in Docs |-> IF d \in S THEN Absent ELSE docs[d]]
<1>1. /\ up /\ op.pc = "sweep" /\ docs' = swept /\ pending_barrier' = TRUE /\ op' = Idle0
      /\ UNCHANGED <<files, log, manifest, up, segments, base, next_id, version, stamps, allowed, ahead>>
    BY DEF SweepDeferred, disk, aux, Return
<1>2. op.kind = "sweep" /\ ~Rewriting
    BY <1>1 DEF Core, StepInv, Rewriting
<1>3. docs \in [Docs -> Indexed] /\ ahead \in SUBSET Docs
    BY DEF Core, Shape
<1>4. \A d \in Docs : Staged(d) # {} <=> d \in S
    BY DEF Staged
<1>5. \A d \in Docs : Replayed(log.cur, d) = IF d \in S THEN Absent ELSE Replayed(Unwound, d)
    BY <1>1, <1>2, <1>4, SweepReplay
<1>6. /\ \A d \in Docs \ ahead : docs[d] = Replayed(Unwound, d)
      /\ \A d \in ahead : docs[d] = Absent
    BY <1>1, <1>2 DEF Core, IndexInv
<1>7. swept \in [Docs -> Indexed] /\ \A d \in Docs : swept[d] = IF d \in S THEN Absent ELSE docs[d]
    BY <1>3 DEF Absent, Indexed
<1> HIDE DEF S, swept
<1>8. /\ \A d \in Docs \ ahead' : docs'[d] = Replayed(log.cur, d)
      /\ \A d \in ahead' : docs'[d] = Absent
    BY <1>1, <1>3, <1>5, <1>6, <1>7
<1>9. docs' \in [Docs -> Indexed] /\ ahead' \in SUBSET Docs /\ pending_barrier' \in BOOLEAN
    BY <1>1, <1>3, <1>7
<1> QED
    BY <1>1, <1>2, <1>8, <1>9, IndexChanges

\* The record of one deletion is in the log.
LEMMA DeleteAppended ==
    ASSUME Core, Recoverable, up, op.pc \in {"dlog", "slog"}, NEW d \in Docs,
           files' = files, manifest'.segments = manifest.segments,
           NEW a, a = Append(log.cur, DeleteOp(d)),
           log' = Wrote(log, a),
           allowed' = [allowed EXCEPT ![d] = @ \cup {0}]
    PROVE  /\ log'.cur = a /\ a \in Seq(Record) /\ Len(a) = Len(log.cur) + 1
           /\ a[Len(log.cur) + 1] = DeleteOp(d)
           /\ \A i \in 1..Len(log.cur) : a[i] = log.cur[i]
           /\ log' \in [cur : Seq(Record), poss : SUBSET Seq(Record)]
           /\ \A l \in log'.poss \cup {log'.cur} : WellFormed(l)
           /\ RowsInv'
           /\ Durability = "kill" => log'.poss = {log'.cur}
           /\ Durability # "object" => log'.cur \in log'.poss
           /\ Replayed(a, d) = Absent
           /\ \A e \in Docs : e # d => Replayed(a, e) = Replayed(log.cur, e)
           /\ allowed' \in [Docs -> SUBSET Nat]
           /\ \A l \in log'.poss \cup {log'.cur, log.cur, Unwound} :
                 \A e \in Docs : Replayed(l, e).stamp \in allowed'[e]
           /\ \A m \in Nat : m <= Len(log.cur) => SubSeq(a, 1, m) = SubSeq(log.cur, 1, m)
<1> DEFINE y == DeleteOp(d)
<1>1. ~Rewriting /\ op.pc \notin {"data", "dsync"}
    BY DEF Rewriting
<1>2. y \in Record /\ y.kind = "delete" /\ y.id = d /\ y.rows = {}
    BY DEF DeleteOp, Record
<1>3. a = Append(log.cur, y)
    OBVIOUS
<1> HIDE DEF y
<1>4. WellFormed(<<y>>)
    BY <1>2 DEF WellFormed
<1>5. \A r \in y.rows : At(Names, Starts, Current, r, y.stamp)
    BY <1>2
<1>6. log.cur \in Seq(Record) /\ allowed \in [Docs -> SUBSET Nat]
    BY LogTypes DEF Core, Shape
<1>7. /\ log'.cur = a /\ a \in Seq(Record) /\ Len(a) = Len(log.cur) + 1
      /\ a[Len(log.cur) + 1] = y
      /\ \A i \in 1..Len(log.cur) : a[i] = log.cur[i]
      /\ log' \in [cur : Seq(Record), poss : SUBSET Seq(Record)]
      /\ \A l \in log'.poss : l = a \/ l \in log.poss
      /\ \A l \in log'.poss \cup {log'.cur} : WellFormed(l)
      /\ RowsInv'
      /\ Durability = "kill" => log'.poss = {log'.cur}
      /\ Durability # "object" => log'.cur \in log'.poss
    BY <1>1, <1>2, <1>3, <1>4, <1>5, LogAppended
<1>8. Replayed(a, d) = Absent
    BY <1>2, <1>3, <1>6, ReplayedWrite
<1>9. \A e \in Docs : e # d => Replayed(a, e) = Replayed(log.cur, e)
    BY <1>2, <1>3, <1>6, ReplayedOther
<1>10. /\ allowed' \in [Docs -> SUBSET Nat] /\ 0 \in allowed'[d]
       /\ \A e \in Docs : allowed[e] \subseteq allowed'[e]
    BY <1>6
<1>11. \A l \in log.poss \cup {log.cur, Unwound} : \A e \in Docs : Replayed(l, e).stamp \in allowed'[e]
    BY <1>10 DEF Core, PromiseInv
<1>12. \A e \in Docs : Replayed(a, e).stamp \in allowed'[e]
  <2>1. Absent.stamp = 0
    BY DEF Absent
  <2> QED
    BY <1>8, <1>9, <1>10, <1>11, <2>1
<1>13. \A m \in Nat : m <= Len(log.cur) => SubSeq(a, 1, m) = SubSeq(log.cur, 1, m)
    BY <1>2, <1>3, <1>6, PrefixAppend
<1>14. \A l \in log'.poss \cup {log'.cur, log.cur, Unwound} :
                 \A e \in Docs : Replayed(l, e).stamp \in allowed'[e]
    BY <1>7, <1>11, <1>12
<1> QED
    BY <1>7, <1>8, <1>9, <1>10, <1>13, <1>14 DEF y

LEMMA SweepLogs ==
    ASSUME Core, Recoverable, SweepLog
    PROVE  Core'
<1> DEFINE k == op.i + 1
           d == op.staged[k].id
           a == Append(log.cur, DeleteOp(d))
<1>1. /\ up /\ op.pc = "slog"
      /\ UNCHANGED <<files, manifest, up, segments, base, next_id, version, docs, pending_barrier,
                     stamps, ahead>>
    BY DEF SweepLog, ram
<1>2. ~Batching /\ ~Rewriting /\ op.kind = "sweep"
    BY <1>1 DEF Batching, Rewriting, Core, StepInv
<1>3. /\ OpShape /\ op.i \in Nat /\ op.lmark \in Nat /\ Len(op.staged) \in Nat
      /\ DOMAIN op.staged = 1..Len(op.staged)
      /\ \A j \in DOMAIN op.staged : op.staged[j].id \in Docs
    BY OpTypes DEF Core, Shape
<1>4. /\ op.i < Len(op.staged) /\ Len(log.cur) = op.lmark + op.i
      /\ \A j \in 1..op.i : log.cur[op.lmark + j] = DeleteOp(op.staged[j].id)
    BY <1>1, <1>2 DEF Core, SweepInv
<1>5. k \in DOMAIN op.staged /\ k \in Nat /\ k <= Len(op.staged)
    BY <1>3, <1>4
<1>6. d \in Docs
    BY <1>3, <1>5
<1>7. CASE /\ log' = Wrote(log, a)
           /\ allowed' = [allowed EXCEPT ![d] = @ \cup {0}]
           /\ op' = [op EXCEPT !.i = k,
                        !.pc = IF k < Len(op.staged) THEN "slog"
                               ELSE IF op.barrier THEN "bdata" ELSE "sweep"]
  <2>1. /\ op'.i = k /\ op'.kind = "sweep" /\ op'.staged = op.staged /\ op'.lmark = op.lmark
        /\ op'.barrier = op.barrier /\ op'.batch = op.batch /\ OpShape'
        /\ op'.pc = (IF k < Len(op.staged) THEN "slog" ELSE IF op.barrier THEN "bdata" ELSE "sweep")
    BY <1>2, <1>3, <1>5, <1>7 DEF OpShape, Progress, Pcs
  <2>2. op'.pc \in {"slog", "bdata", "sweep"}
    BY <2>1
  <2>3. a = Append(log.cur, DeleteOp(d)) /\ log' = Wrote(log, a) /\ allowed' = [allowed EXCEPT ![d] = @ \cup {0}]
    BY <1>7
  <2>4. op.staged[k].id = d
    OBVIOUS
  <2> HIDE DEF a, d
  <2>5. /\ log'.cur = a /\ a \in Seq(Record) /\ Len(a) = Len(log.cur) + 1
        /\ a[Len(log.cur) + 1] = DeleteOp(d)
        /\ \A i \in 1..Len(log.cur) : a[i] = log.cur[i]
        /\ log' \in [cur : Seq(Record), poss : SUBSET Seq(Record)]
        /\ \A l \in log'.poss \cup {log'.cur} : WellFormed(l)
        /\ RowsInv'
        /\ Durability = "kill" => log'.poss = {log'.cur}
        /\ Durability # "object" => log'.cur \in log'.poss
        /\ allowed' \in [Docs -> SUBSET Nat]
        /\ \A l \in log'.poss \cup {log'.cur, log.cur, Unwound} :
              \A e \in Docs : Replayed(l, e).stamp \in allowed'[e]
        /\ \A m \in Nat : m <= Len(log.cur) => SubSeq(a, 1, m) = SubSeq(log.cur, 1, m)
    BY <1>1, <1>6, <2>3, DeleteAppended, ZenonT(30)
  <2>6. Shape'
    BY <1>1, <2>1, <2>5 DEF Core, Shape
  <2>7. /\ StepInv' /\ BeginInv' /\ ~Rewriting' /\ ~Batching' /\ MaySeal' /\ PlanInv' /\ StagedLive'
        /\ BatchInv'
    <3>1. StepInv'
      BY <1>1, <1>2, <2>1, <2>2 DEF Core, StepInv
    <3> QED
      BY <2>1, <2>2, <3>1 DEF BeginInv, Rewriting, Batching, MaySeal, PlanInv, StagedLive, BatchInv
  <2>8. SweepInv'
    <3>1. Len(log.cur) \in Nat
      BY LogTypes DEF Core
    <3>2. Len(log'.cur) = op'.lmark + op'.i
      <4>1. Len(log'.cur) = Len(log.cur) + 1
        BY <2>5
      <4> QED
        BY <1>3, <1>4, <2>1, <4>1
    <3>3. ASSUME NEW j \in 1..op'.i PROVE log'.cur[op'.lmark + j] = DeleteOp(op'.staged[j].id)
      <4>1. CASE j = k
        <5>1. op'.lmark + j = Len(log.cur) + 1
          BY <1>3, <1>4, <2>1, <4>1
        <5> QED
          BY <2>1, <2>4, <2>5, <4>1, <5>1
      <4>2. CASE j # k
        <5>1. j \in 1..op.i
          BY <1>3, <2>1, <4>2
        <5>2. op.lmark + j \in 1..Len(log.cur)
          BY <1>3, <1>4, <5>1
        <5>3. log'.cur[op.lmark + j] = log.cur[op.lmark + j]
          BY <2>5, <5>2
        <5> QED
          BY <1>4, <2>1, <5>1, <5>3
      <4> QED
        BY <4>1, <4>2
    <3>4. /\ op'.i <= Len(op'.staged)
          /\ op'.pc = "slog" => op'.i < Len(op'.staged)
          /\ op'.pc # "slog" => op'.i = Len(op'.staged)
      BY <1>3, <1>5, <2>1
    <3> QED
      BY <3>2, <3>3, <3>4 DEF SweepInv
  <2>9. Unwound' = Unwound
    <3>1. SubSeq(a, 1, op.lmark) = SubSeq(log.cur, 1, op.lmark)
      BY <1>2, <2>5, UnwoundFacts
    <3> QED
      BY <1>2, <2>1, <2>5, <2>7, <3>1 DEF Unwound
  <2>10. /\ Names' = Names /\ Newest' = Newest /\ Current' = Current /\ Starts' = Starts
    BY <1>1, DiskSame
  <2>11. SegsInv'
    BY <1>1, <1>2, <2>7, <2>10, SegsAfter
  <2>12. CertainInv'
    <3>1. \A n \in SegName : \/ files[n].poss = {files[n].cur}
                             \/ n = Newest /\ Durability # "kill" /\ OneObject
      BY <1>1 DEF Core, CertainInv
    <3> QED
      BY <1>1, <2>2, <2>5, <2>7, <2>10, <3>1 DEF CertainInv
  <2>13. IndexInv'
    BY <1>1, <1>2, <2>5, <2>7, <2>9 DEF Core, IndexInv, StagedLive
  <2>14. PromiseInv'
    BY <2>5, <2>9 DEF PromiseInv
  <2> QED
    BY <2>5, <2>6, <2>7, <2>8, <2>11, <2>12, <2>13, <2>14 DEF Core
<1>8. CASE /\ "append" \in Faults /\ log' = TruncateLog(log, op.lmark)
           /\ Return /\ UNCHANGED allowed
  <2>1. FailBarrier(log)
    BY <1>2, <1>8 DEF FailBarrier
  <2>2. PICK q : /\ log' = [cur |-> Unwound, poss |-> q]
                 /\ \A l \in q : l = Unwound \/ l \in log.poss
                 /\ Durability = "kill" => q = {Unwound}
                 /\ Durability # "object" => Unwound \in q
                 /\ Durability = "object" => q \in SUBSET log.poss
    BY <1>2, <2>1, FailIs, LogTypes DEF Core
  <2>3. op' = Idle0 /\ version' \in Nat
    BY <1>1, <1>8 DEF Return, Core, Shape
  <2> QED
    BY <1>1, <1>2, <1>8, <2>2, <2>3, BarrierFails
<1> QED
    BY <1>7, <1>8 DEF SweepLog

LEMMA DeleteLogs ==
    ASSUME Core, Recoverable, DeleteLog
    PROVE  Core'
<1> DEFINE k == op.i + 1
           d == op.staged[k].id
           a == Append(log.cur, DeleteOp(d))
<1>1. /\ up /\ op.pc = "dlog" /\ docs' = [docs EXCEPT ![d] = Absent]
      /\ UNCHANGED <<files, manifest, up, segments, base, next_id, version, stamps>>
    BY DEF DeleteLog
<1>2. ~Batching /\ ~Rewriting /\ op.kind = "delete"
    BY <1>1 DEF Batching, Rewriting, Core, StepInv
<1>3. /\ OpShape /\ op.i \in Nat /\ op.lmark \in Nat /\ Len(op.staged) \in Nat
      /\ DOMAIN op.staged = 1..Len(op.staged) /\ op.barrier \in BOOLEAN
      /\ \A j \in DOMAIN op.staged : op.staged[j].id \in Docs
    BY OpTypes DEF Core, Shape
<1>4. op.i < Len(op.staged)
    BY <1>1 DEF Core, BeginInv
<1>5. k \in DOMAIN op.staged /\ k \in Nat /\ k <= Len(op.staged)
    BY <1>3, <1>4
<1>6. d \in Docs
    BY <1>3, <1>5
<1>7. docs \in [Docs -> Indexed] /\ ahead \in SUBSET Docs /\ pending_barrier \in BOOLEAN
    BY DEF Core, Shape
<1>8. /\ docs' \in [Docs -> Indexed] /\ docs'[d] = Absent
      /\ \A e \in Docs : e # d => docs'[e] = docs[e]
  <2>1. Absent \in Indexed
    BY DEF Absent, Indexed
  <2> HIDE DEF d
  <2> QED
    BY <1>1, <1>6, <1>7, <2>1
<1>9. /\ \A e \in Docs \ ahead : docs[e] = Replayed(log.cur, e)
      /\ \A e \in ahead : docs[e] = Absent
  <2>1. Unwound = log.cur
    BY <1>2, UnwoundIs
  <2> QED
    BY <1>1, <1>2, <2>1 DEF Core, IndexInv
<1>10. CASE /\ log' = Wrote(log, a)
            /\ allowed' = [allowed EXCEPT ![d] = @ \cup {0}]
            /\ IF k < Len(op.staged)
               THEN op' = [op EXCEPT !.i = k] /\ UNCHANGED pending_barrier
               ELSE IF op.barrier
               THEN op' = [op EXCEPT !.pc = "bdata"] /\ UNCHANGED pending_barrier
               ELSE Return /\ pending_barrier' = TRUE
            /\ UNCHANGED ahead
  <2>1. a = Append(log.cur, DeleteOp(d)) /\ log' = Wrote(log, a) /\ allowed' = [allowed EXCEPT ![d] = @ \cup {0}]
    BY <1>10
  <2>0. up /\ op.pc = "dlog" /\ UNCHANGED <<files, manifest>>
    BY <1>1
  <2> HIDE DEF a, d, k
  <2>2. /\ log'.cur = a /\ a \in Seq(Record) /\ Len(a) = Len(log.cur) + 1
        /\ a[Len(log.cur) + 1] = DeleteOp(d)
        /\ \A i \in 1..Len(log.cur) : a[i] = log.cur[i]
        /\ log' \in [cur : Seq(Record), poss : SUBSET Seq(Record)]
        /\ \A l \in log'.poss \cup {log'.cur} : WellFormed(l)
        /\ RowsInv'
        /\ Durability = "kill" => log'.poss = {log'.cur}
        /\ Durability # "object" => log'.cur \in log'.poss
        /\ allowed' \in [Docs -> SUBSET Nat]
        /\ \A l \in log'.poss \cup {log'.cur, log.cur, Unwound} :
              \A e \in Docs : Replayed(l, e).stamp \in allowed'[e]
        /\ \A m \in Nat : m <= Len(log.cur) => SubSeq(a, 1, m) = SubSeq(log.cur, 1, m)
    BY <1>6, <2>0, <2>1, DeleteAppended, ZenonT(30)
  <2>10. Replayed(a, d) = Absent /\ \A e \in Docs : e # d => Replayed(a, e) = Replayed(log.cur, e)
    <3> DEFINE y == DeleteOp(d)
    <3>1. y \in Record /\ y.kind = "delete" /\ y.id = d
      BY <1>6 DEF DeleteOp, Record
    <3>2. a = Append(log.cur, y) /\ log.cur \in Seq(Record)
      BY <2>1, LogTypes DEF Core
    <3> HIDE DEF y
    <3> QED
      BY <3>1, <3>2, ReplayedWrite, ReplayedOther, ZenonT(30)
  <2>3. /\ OpShape' /\ StepInv' /\ BeginInv' /\ BatchInv' /\ SweepInv' /\ PlanInv'
        /\ MaySeal' /\ StagedLive' /\ ~Rewriting' /\ pending_barrier' \in BOOLEAN
        /\ Unwound' = log'.cur /\ op'.pc \in {"idle", "dlog", "bdata"}
    <3>1. CASE op' = Idle0
      BY <1>7, <1>10, <3>1, Returns
    <3>2. CASE op' = [op EXCEPT !.i = k] /\ k < Len(op.staged) /\ UNCHANGED pending_barrier
      <4>1. op'.pc = "dlog" /\ op'.kind = "delete" /\ op'.staged = op.staged /\ op'.i = k
            /\ op'.barrier = op.barrier /\ OpShape'
        BY <1>1, <1>2, <1>3, <1>5, <3>2 DEF OpShape, Progress
      <4>2. StepInv'
        BY <1>1, <1>2, <4>1 DEF Core, StepInv
      <4>3. StagedLive'
        BY <1>2, <1>10, <4>1 DEF Core, IndexInv, StagedLive
      <4>4. ~Rewriting' /\ ~Batching'
        BY <4>1 DEF Rewriting, Batching
      <4>5. BeginInv'
        BY <3>2, <4>1 DEF BeginInv
      <4> QED
        BY <1>7, <3>2, <4>1, <4>2, <4>3, <4>4, <4>5 DEF BatchInv, SweepInv, PlanInv, MaySeal, Unwound
    <3>3. CASE op' = [op EXCEPT !.pc = "bdata"] /\ UNCHANGED pending_barrier
      <4>1. op'.pc = "bdata" /\ op'.kind = "delete" /\ op'.staged = op.staged
            /\ op'.barrier = op.barrier /\ OpShape'
        BY <1>1, <1>2, <1>3, <3>3 DEF OpShape, Progress, Pcs
      <4>2. StepInv'
        BY <1>1, <1>2, <4>1 DEF Core, StepInv
      <4>3. StagedLive'
        BY <1>2, <1>10, <4>1 DEF Core, IndexInv, StagedLive
      <4>4. ~Rewriting' /\ ~Batching'
        BY <4>1 DEF Rewriting, Batching
      <4> QED
        BY <1>7, <3>3, <4>1, <4>2, <4>3, <4>4 DEF BatchInv, SweepInv, PlanInv, MaySeal, Unwound, BeginInv
    <3> QED
      BY <1>10, <3>1, <3>2, <3>3 DEF Return
  <2>4. Shape'
    BY <1>1, <1>8, <1>10, <2>2, <2>3 DEF Core, Shape
  <2>5. /\ Names' = Names /\ Newest' = Newest /\ Current' = Current /\ Starts' = Starts
    BY <1>1, DiskSame
  <2>6. SegsInv'
    BY <1>1, <1>2, <2>3, <2>5, SegsAfter
  <2>7. CertainInv'
    <3>1. \A n \in SegName : \/ files[n].poss = {files[n].cur}
                             \/ n = Newest /\ Durability # "kill" /\ OneObject
      BY <1>1 DEF Core, CertainInv
    <3> QED
      BY <1>1, <2>2, <2>3, <2>5, <3>1 DEF CertainInv
  <2>8. IndexInv'
    <3>1. \A e \in Docs \ ahead' : docs'[e] = Replayed(Unwound', e)
      BY <1>8, <1>9, <1>10, <2>2, <2>3, <2>10
    <3>2. \A e \in ahead' : docs'[e] = Absent
      BY <1>7, <1>8, <1>9, <1>10
    <3> QED
      BY <2>2, <2>3, <3>1, <3>2 DEF IndexInv, StagedLive
  <2>9. PromiseInv'
    BY <2>2, <2>3 DEF PromiseInv
  <2> QED
    BY <2>2, <2>3, <2>4, <2>6, <2>7, <2>8, <2>9 DEF Core
<1>11. CASE /\ ahead' = ahead \cup {d} /\ Return
            /\ UNCHANGED <<log, allowed, pending_barrier>>
  <2>1. /\ \A e \in Docs \ ahead' : docs'[e] = Replayed(log.cur, e)
        /\ \A e \in ahead' : docs'[e] = Absent
    <3> HIDE DEF d
    <3> QED
      BY <1>7, <1>8, <1>9, <1>11
  <2>2. ahead' \in SUBSET Docs /\ pending_barrier' \in BOOLEAN /\ op' = Idle0
    <3> HIDE DEF d
    <3> QED
      BY <1>6, <1>7, <1>11 DEF Return
  <2>3. UNCHANGED <<files, log, manifest, up, segments, base, next_id, version, stamps, allowed>>
    BY <1>1, <1>11
  <2>4. op.pc \notin {"data", "dsync"}
    BY <1>1
  <2> QED
    BY <1>1, <1>2, <1>8, <2>1, <2>2, <2>3, <2>4, IndexChanges
<1> QED
    BY <1>10, <1>11 DEF DeleteLog

\* A call that changes nothing but the count of calls.
LEMMA NothingDone ==
    ASSUME Core, Idle, UNCHANGED <<files, log, manifest, up, segments, base, next_id, version, docs,
                                   pending_barrier, op, stamps, allowed, ahead>>
    PROVE  Core'
<1>1. Shape'
    BY DEF Core, Shape, OpShape
<1>2. /\ Names' = Names /\ Newest' = Newest /\ Current' = Current /\ Starts' = Starts
      /\ \A l, t : Held(l, t)' <=> Held(l, t)
    BY DiskSame
<1>3. /\ StepInv' /\ BeginInv' /\ BatchInv' /\ SweepInv' /\ PlanInv'
      /\ ~Rewriting' /\ ~Rewriting /\ Unwound' = Unwound
  <2>1. op.pc = "idle" /\ op.kind = "none" /\ op'.pc = "idle" /\ op'.kind = "none"
    BY IdleFacts
  <2>2. ~Rewriting' /\ ~Rewriting /\ ~Batching' /\ ~Batching
    BY <2>1 DEF Rewriting, Batching
  <2>3. Unwound' = Unwound
    BY <2>1, <2>2 DEF Unwound
  <2> QED
    BY <2>1, <2>2, <2>3 DEF StepInv, BeginInv, BatchInv, SweepInv, PlanInv
<1>4. SegsInv'
  <2>1. NeedsSeal' <=> NeedsSeal
    BY DEF NeedsSeal, ActiveRows, Active
  <2> QED
    BY <1>2, <1>3, <2>1 DEF Core, SegsInv
<1>5. CertainInv'
    BY <1>2, <1>3 DEF Core, CertainInv
<1>6. RowsInv'
  <2>1. /\ \A l \in log.poss : \A t \in files[Newest].poss \cup {files[Newest].cur} : Held(l, t)
        /\ Held(log.cur, files[Newest].cur)
    BY <1>3 DEF Core, RowsInv
  <2> QED
    BY <1>2, <2>1 DEF RowsInv
<1>7. IndexInv' /\ PromiseInv'
    BY <1>3 DEF Core, IndexInv, PromiseInv
<1> QED
    BY <1>1, <1>3, <1>4, <1>5, <1>6, <1>7 DEF Core

\* The log after an append, synced or not.
LEMMA LogWritten ==
    ASSUME NEW a \in Seq(Record), log.poss \in SUBSET Seq(Record),
           log' = File(a) \/ log' = Wrote(log, a)
    PROVE  /\ log'.cur = a /\ log' \in [cur : Seq(Record), poss : SUBSET Seq(Record)]
           /\ \A l \in log'.poss : l = a \/ l \in log.poss
           /\ Durability = "kill" \/ log' = File(a) => log'.poss = {log'.cur}
           /\ Durability # "object" => log'.cur \in log'.poss
<1>1. CASE log' = File(a)
    BY <1>1 DEF File
<1>2. CASE log' = Wrote(log, a) /\ log' # File(a)
  <2>1. log' = [cur |-> a, poss |-> log'.poss] /\ \A l \in log'.poss : l = a \/ l \in log.poss
    BY <1>2, WroteIs
  <2>2. /\ Durability = "kill" => log'.poss = {a}
        /\ Durability # "object" => a \in log'.poss
    BY <1>2, WroteIs, DurabilityAssumption
  <2>3. log'.cur = a /\ log'.poss \in SUBSET Seq(Record)
    BY <2>1
  <2> QED
    BY <1>2, <2>1, <2>2, <2>3
<1> QED
    BY <1>1, <1>2

\* A stamp is in the index and in the log.
LEMMA Stamped ==
    ASSUME Core, Recoverable, Idle, "reinforce" \in Calls, NEW d \in LiveDocs,
           NEW n, n = docs[d].acc + 1, NEW a, a = Append(log.cur, ReinforceOp(d, n)),
           docs' = [docs EXCEPT ![d].acc = n],
           \/ log' = File(a) /\ op' = [Idle0 EXCEPT !.pc = "publish", !.kind = "reinforce"]
           \/ log' = Wrote(log, a) /\ op' = op,
           pending_barrier' \in BOOLEAN,
           UNCHANGED <<files, manifest, up, segments, base, next_id, version, stamps, allowed, ahead>>
    PROVE  Core'
<1> DEFINE y == ReinforceOp(d, n)
<1>1. /\ up /\ op.pc = "idle" /\ op.kind = "none" /\ ~Rewriting /\ ~Batching
      /\ Unwound = log.cur /\ OpShape /\ op.pc \notin {"data", "dsync"}
    BY IdleFacts
<1>2. /\ docs \in [Docs -> Indexed] /\ d \in Docs /\ docs[d].stamp # 0 /\ log.cur \in Seq(Record)
      /\ log.poss \in SUBSET Seq(Record)
    BY LogTypes DEF Core, Shape, LiveDocs
<1>3. docs[d].acc \in Nat /\ n \in Nat
    BY <1>2 DEF Indexed
<1>4. d \notin ahead /\ docs[d] = Replayed(log.cur, d)
  <2>1. Absent.stamp = 0
    BY DEF Absent
  <2> QED
    BY <1>1, <1>2, <2>1 DEF Core, IndexInv
<1>5. y \in Record /\ y.kind = "reinforce" /\ y.id = d /\ y.rows = {}
    BY <1>2, <1>3 DEF ReinforceOp, Record
<1>6. a = Append(log.cur, y) /\ Replayed(a, d) = [Replayed(log.cur, d) EXCEPT !.acc = n]
    BY <1>2, <1>3, <1>4, ReplayedReinforce
<1> HIDE DEF y
<1>7. WellFormed(<<y>>)
    BY <1>5 DEF WellFormed
<1>8. \A r \in y.rows : At(Names, Starts, Current, r, y.stamp)
    BY <1>5
<1>9. a \in Seq(Record) /\ WellFormed(a) /\ Held(a, files[Newest].cur)
    BY <1>1, <1>5, <1>6, <1>7, <1>8, Appends
<1>10. \A e \in Docs : e # d => Replayed(a, e) = Replayed(log.cur, e)
    BY <1>2, <1>5, <1>6, ReplayedOther
<1>11. /\ docs' \in [Docs -> Indexed] /\ docs'[d] = [docs[d] EXCEPT !.acc = n]
       /\ \A e \in Docs : e # d => docs'[e] = docs[e]
  <2>1. docs[d] \in Indexed
    BY <1>2
  <2>2. [docs[d] EXCEPT !.acc = n] \in Indexed
    BY <1>3, <2>1 DEF Indexed
  <2> QED
    BY <1>2, <2>2
<1>12. \A e \in Docs : Replayed(a, e).stamp = Replayed(log.cur, e).stamp
  <2>1. docs[d] \in Indexed
    BY <1>2
  <2>2. [docs[d] EXCEPT !.acc = n].stamp = docs[d].stamp
    BY <2>1 DEF Indexed
  <2> QED
    BY <1>4, <1>6, <1>10, <2>2
<1>13. \A n1 \in SegName : files[n1].poss = {files[n1].cur}
  <2>1. ~OneObject
    BY DEF OneObject
  <2> QED
    BY <1>1, <2>1 DEF Core, CertainInv
<1>14. /\ Names' = Names /\ Newest' = Newest /\ Current' = Current /\ Starts' = Starts
       /\ \A l, t : Held(l, t)' <=> Held(l, t)
    BY DiskSame
<1>15. /\ log'.cur = a /\ log' \in [cur : Seq(Record), poss : SUBSET Seq(Record)]
       /\ \A l \in log'.poss : l = a \/ l \in log.poss
       /\ Durability = "kill" \/ op'.pc = "publish" => log'.poss = {log'.cur}
       /\ Durability # "object" => log'.cur \in log'.poss
  <2>1. log' = File(a) \/ log' = Wrote(log, a)
    OBVIOUS
  <2>2. op'.pc = "publish" => log' = File(a)
    BY <1>1
  <2> QED
    BY <1>2, <1>9, <2>1, <2>2, LogWritten
<1>16. /\ OpShape' /\ StepInv' /\ BeginInv' /\ BatchInv' /\ SweepInv' /\ PlanInv'
       /\ MaySeal' /\ StagedLive' /\ ~Rewriting'
       /\ Unwound' = log'.cur /\ op'.pc \in {"idle", "publish"}
  <2>1. CASE op' = op
    <3>1. op'.pc = "idle" /\ op'.kind = "none" /\ OpShape'
      BY <1>1, <2>1 DEF OpShape
    <3>2. ~Rewriting' /\ ~Batching'
      BY <3>1 DEF Rewriting, Batching
    <3> QED
      BY <3>1, <3>2 DEF StepInv, BeginInv, BatchInv, SweepInv, PlanInv, MaySeal, StagedLive, Unwound
  <2>2. CASE op' = [Idle0 EXCEPT !.pc = "publish", !.kind = "reinforce"]
    <3>1. op'.pc = "publish" /\ op'.kind = "reinforce" /\ op'.staged = <<>> /\ OpShape'
      <4>1. Idle0 \in Progress /\ Idle0.staged = <<>>
        BY IdleShape DEF Idle0
      <4> QED
        BY <2>2, <4>1 DEF OpShape, Progress, Pcs, Kinds
    <3>2. ~Rewriting' /\ ~Batching'
      BY <3>1 DEF Rewriting, Batching
    <3>3. StepInv'
      BY <1>1, <3>1 DEF StepInv
    <3>4. DOMAIN op'.staged = {}
      BY <3>1
    <3> QED
      BY <3>1, <3>2, <3>3, <3>4 DEF BeginInv, BatchInv, SweepInv, PlanInv, MaySeal, StagedLive, Unwound
  <2> QED
    BY <2>1, <2>2
<1>17. Shape'
    BY <1>11, <1>15, <1>16 DEF Core, Shape
<1>18. SegsInv'
    BY <1>1, <1>14, <1>16, SegsAfter
<1>19. CertainInv'
  <2>1. Newest' \in SegName
    BY <1>14, Views DEF Core
  <2> QED
    BY <1>1, <1>13, <1>14, <1>15, <1>16, <2>1 DEF CertainInv
<1>20. RowsInv'
  <2>1. \A l \in log.poss : \A t \in files[Newest].poss \cup {files[Newest].cur} : Held(l, t)
    BY <1>1 DEF Core, RowsInv
  <2>2. files[Newest].poss = {files[Newest].cur}
    BY <1>13, Views DEF Core
  <2>3. \A l \in log'.poss : \A t \in files[Newest].poss \cup {files[Newest].cur} : Held(l, t)
    BY <1>9, <1>15, <2>1, <2>2
  <2>4. /\ Held(log'.cur, files[Newest].cur) /\ files'[Newest].cur = files[Newest].cur
        /\ files'[Newest].poss = files[Newest].poss
    BY <1>9, <1>15
  <2> QED
    BY <1>14, <2>3, <2>4, RowsAfter
<1>21. IndexInv'
  <2>1. \A l \in log'.poss \cup {log'.cur} : WellFormed(l)
    BY <1>9, <1>15 DEF Core, IndexInv
  <2>2. /\ \A e \in Docs \ ahead : docs[e] = Replayed(log.cur, e)
        /\ \A e \in ahead : docs[e] = Absent /\ e \in Docs
    BY <1>1 DEF Core, IndexInv, Shape
  <2>3. docs'[d] = Replayed(a, d)
    BY <1>4, <1>6, <1>11
  <2>4. \A e \in Docs \ ahead' : docs'[e] = Replayed(Unwound', e)
    BY <1>10, <1>11, <1>15, <1>16, <2>2, <2>3
  <2>5. \A e \in ahead' : docs'[e] = Absent
    BY <1>4, <1>11, <2>2
  <2> QED
    BY <1>16, <2>1, <2>4, <2>5 DEF IndexInv, StagedLive
<1>22. PromiseInv'
  <2>1. \A l \in log.poss \cup {log.cur} : \A e \in Docs : Replayed(l, e).stamp \in allowed[e]
    BY DEF Core, PromiseInv
  <2> QED
    BY <1>12, <1>15, <1>16, <2>1, ZenonT(30) DEF PromiseInv
<1> QED
    BY <1>16, <1>17, <1>18, <1>19, <1>20, <1>21, <1>22 DEF Core

LEMMA Reinforces ==
    ASSUME Core, Recoverable, NEW d \in Docs, NEW defer \in Deferring, Reinforce(d, defer)
    PROVE  Core'
<1> DEFINE n == docs[d].acc + 1
           a == Append(log.cur, ReinforceOp(d, n))
           l == Wrote(log, a)
<1>1. /\ Idle /\ "reinforce" \in Calls /\ d \in LiveDocs
      /\ UNCHANGED <<files, manifest, up, segments, base, next_id, version, stamps, allowed, ahead>>
    BY DEF Reinforce, Call
<1>2. pending_barrier \in BOOLEAN /\ log.cur \in Seq(Record) /\ log = [cur |-> log.cur, poss |-> log.poss]
    BY LogTypes DEF Core, Shape
<1>3. l.cur = a
    BY WroteIs
<1>4. CASE /\ docs' = [docs EXCEPT ![d].acc = n]
           /\ IF barrier_now(defer)
              THEN /\ log' = Synced(l)
                   /\ op' = [Idle0 EXCEPT !.pc = "publish", !.kind = "reinforce"]
                   /\ UNCHANGED pending_barrier
              ELSE log' = l /\ pending_barrier' = TRUE /\ UNCHANGED op
  <2>1. \/ log' = File(a) /\ op' = [Idle0 EXCEPT !.pc = "publish", !.kind = "reinforce"]
        \/ log' = Wrote(log, a) /\ op' = op
    BY <1>3, <1>4 DEF Synced
  <2>2. n = docs[d].acc + 1 /\ a = Append(log.cur, ReinforceOp(d, n)) /\ docs' = [docs EXCEPT ![d].acc = n]
        /\ pending_barrier' \in BOOLEAN
    BY <1>2, <1>4
  <2> HIDE DEF n, a
  <2> QED
    BY <1>1, <2>1, <2>2, Stamped
<1>5. CASE /\ "sync" \in Faults
           /\ log' = TruncateLog(SyncFailed(l), Len(log.cur))
           /\ UNCHANGED <<docs, op, pending_barrier>>
  <2>1. Durability = "kill" /\ log.poss = {log.cur}
    BY <1>5, Regimes DEF Core, CertainInv
  <2>2. SyncFailed(l).cur = a
    <3>1. l = [cur |-> a, poss |-> l.poss]
      BY WroteIs
    <3> HIDE DEF l, a
    <3>2. SyncFailed(l) = [cur |-> a, poss |-> l.poss \cup {a}]
      BY <3>1, SyncFailedIs
    <3> QED
      BY <3>2
  <2>3. SubSeq(a, 1, Len(log.cur)) = log.cur
    <3> DEFINE y == ReinforceOp(d, n)
    <3>1. y \in Record
      <4>1. docs[d] \in Indexed
        BY DEF Core, Shape
      <4>2. n \in Nat
        BY <4>1 DEF Indexed
      <4> HIDE DEF n
      <4> QED
        BY <4>2 DEF ReinforceOp, Record
    <3> HIDE DEF y
    <3>2. SubSeq(Append(log.cur, y), 1, Len(log.cur)) = SubSeq(log.cur, 1, Len(log.cur))
      <4>1. Len(log.cur) \in Nat /\ Len(log.cur) <= Len(log.cur)
        BY <1>2, LenProperties
      <4> QED
        BY <1>2, <3>1, <4>1, PrefixAppend
    <3>3. SubSeq(log.cur, 1, Len(log.cur)) = log.cur
      BY <1>2, PrefixWhole
    <3> QED
      BY <3>2, <3>3 DEF y
  <2>4. log' = Wrote(SyncFailed(l), log.cur)
    BY <1>5, <2>2, <2>3 DEF TruncateLog
  <2>5. log' = [cur |-> log.cur, poss |-> {log.cur}]
    <3> DEFINE f == SyncFailed(l)
    <3>1. log' = Wrote(f, log.cur)
      BY <2>4
    <3> HIDE DEF f
    <3>2. Wrote(f, log.cur) = [cur |-> log.cur, poss |-> Wrote(f, log.cur).poss]
          /\ Wrote(f, log.cur).poss = {log.cur}
      BY <2>1, WroteIs
    <3> QED
      BY <3>1, <3>2
  <2>6. log' = log
    BY <1>2, <2>1, <2>5
  <2> QED
    BY <1>1, <1>5, <2>6, NothingDone
<1>6. CASE UNCHANGED <<log, docs, op, pending_barrier>>
    BY <1>1, <1>6, NothingDone
<1> QED
    BY <1>4, <1>5, <1>6 DEF Reinforce

-----------------------------------------------------------------------------
(* Crash and reopen *)

\* A crash leaves one of the logs and one of the active segment's contents.
LEMMA CrashViews ==
    ASSUME Core, Recoverable, ~Rewriting, NEW c \in CrashContents, NEW l \in log.poss
    PROVE  /\ c[Newest] \in files[Newest].poss /\ c = With(c[Newest]) /\ c \in Contents
           /\ \A n \in SegName : c[n] \in files[n].poss /\ c[n] \in Seq(Nat)
           /\ \A n \in SegName : n # Newest => c[n] = files[n].cur
           /\ l \in Seq(Record) /\ Held(l, c[Newest]) /\ Backed(l, Names, c)
           /\ Below(l, Total(Names, c))
<1>1. /\ c \in [SegName -> UNION {files[n].poss : n \in SegName}]
      /\ \A n \in SegName : c[n] \in files[n].poss
    BY DEF CrashContents
<1>2. Newest \in SegName /\ SegSet(Names)
    BY Views DEF Core
<1>3. \A n \in SegName : c[n] \in Seq(Nat)
    BY <1>1, FileTypes DEF Core
<1>4. \A n \in SegName : n # Newest => c[n] = files[n].cur
    BY <1>1 DEF Core, CertainInv
<1>5. c \in Contents
    BY <1>1, <1>3 DEF Contents
<1>6. c = With(c[Newest])
    BY <1>1, <1>2, <1>4 DEF With, Current
<1>7. l \in Seq(Record) /\ Held(l, c[Newest])
    BY <1>1, <1>2, LogTypes DEF Core, RowsInv
<1>8. Backed(l, Names, c)
    BY <1>6, <1>7 DEF Held
<1>9. Below(l, Total(Names, c))
    BY <1>2, <1>5, <1>7, <1>8, RecordRows, BackedBelow
<1> QED
    BY <1>1, <1>2, <1>3, <1>4, <1>5, <1>6, <1>7, <1>8, <1>9

LEMMA Crashes ==
    ASSUME Core, Recoverable, Crash
    PROVE  Core'
<1>1. /\ up /\ up' = FALSE /\ op' = Idle0 /\ log' \in AfterCrash(log)
      /\ UNCHANGED <<manifest, segments, base, next_id, version, docs, pending_barrier, stamps, allowed, ahead>>
    BY DEF Crash, Return
<1>2. ~Rewriting
    BY Regimes DEF Crash, CrashPossible, Core, StepInv, Rewriting
<1>3. PICK c \in CrashContents : files' = [n \in SegName |-> File(c[n])]
    BY DEF Crash
<1>4. PICK l \in log.poss : log' = File(l)
    BY <1>1 DEF AfterCrash
<1>0. PICK t : t = c[Newest]
    OBVIOUS
<1>5. /\ t \in files[Newest].poss /\ c = With(t) /\ c \in Contents
      /\ \A n \in SegName : c[n] \in files[n].poss /\ c[n] \in Seq(Nat)
      /\ \A n \in SegName : n # Newest => c[n] = files[n].cur
      /\ l \in Seq(Record) /\ Held(l, t) /\ Backed(l, Names, c)
    BY <1>0, <1>2, CrashViews
<1>6. /\ \A n \in SegName : files'[n].cur = c[n] /\ files'[n].poss = {c[n]} /\ files'[n] = File(c[n])
      /\ files' \in [SegName -> [cur : Seq(Nat), poss : SUBSET Seq(Nat)]]
    BY <1>3, <1>5 DEF File
<1>7. log'.cur = l /\ log'.poss = {l} /\ log' \in [cur : Seq(Record), poss : SUBSET Seq(Record)]
    BY <1>4, <1>5 DEF File
<1>8. Names' = Names /\ Newest' = Newest /\ Newest \in SegName
    BY <1>1, Views DEF Names, Newest, Core
<1>9. Current' = c
    BY <1>5, <1>6 DEF Current, Contents
<1>10. Held(l, t)'
  <2>1. With(t)' = [c EXCEPT ![Newest] = t]
    BY <1>8, <1>9 DEF With
  <2>2. [c EXCEPT ![Newest] = t] = c
    BY <1>0, <1>5 DEF Contents
  <2> QED
    BY <1>5, <1>8, <2>1, <2>2 DEF Held
<1>11. Shape'
    BY <1>1, <1>6, <1>7, Returns DEF Core, Shape
<1>12. SegsInv'
  <2>1. \A n \in SegName : n >= manifest'.next_id => files'[n] = File(<<>>)
    <3>1. ASSUME NEW n \in SegName, n >= manifest.next_id PROVE files'[n] = File(<<>>)
      <4>1. n # Newest /\ files[n] = File(<<>>)
        BY <3>1, NewestOld DEF Core, SegsInv
      <4>2. c[n] = <<>>
        BY <1>5, <4>1 DEF File
      <4> QED
        BY <1>6, <4>2
    <3> QED
      BY <1>1, <3>1
  <2> QED
    BY <1>1, <1>8, <2>1, Returns DEF Core, SegsInv, MaySeal
<1>13. CertainInv'
    BY <1>1, <1>6, <1>7, <1>8, Returns DEF CertainInv
<1>14. RowsInv'
  <2>1. files'[Newest'].poss = {t} /\ files'[Newest'].cur = t
    BY <1>0, <1>6, <1>8
  <2> QED
    BY <1>7, <1>10, <2>1 DEF RowsInv
<1>15. IndexInv'
    BY <1>1, <1>7, Returns DEF Core, IndexInv, StagedLive
<1>16. PromiseInv'
    BY <1>1, <1>7, Returns DEF Core, PromiseInv
<1> QED
    BY <1>1, <1>11, <1>12, <1>13, <1>14, <1>15, <1>16, Returns DEF Core

LEMMA Opens ==
    ASSUME Core, Recoverable, Open
    PROVE  Core'
<1> DEFINE n == Total(Names, Current)
<1>1. /\ ~up /\ up' = TRUE /\ segments' = Names /\ next_id' = manifest.next_id
      /\ version' = manifest.version /\ base' = Starts
      /\ docs' = replay_ops(log.cur, n)
      /\ allowed' = [d \in Docs |-> {docs'[d].stamp}]
      /\ pending_barrier' = FALSE /\ ahead' = {}
      /\ UNCHANGED <<files, log, manifest, op, stamps>>
    BY DEF Open, disk, Names, Starts, Total
<1>2. op.pc = "idle" /\ op.kind = "none" /\ ~Rewriting /\ ~Batching
    BY <1>1 DEF Core, StepInv, Rewriting, Batching
<1>3. log.poss = {log.cur} /\ log.cur \in Seq(Record)
    BY <1>1, LogTypes DEF Core, CertainInv
<1>4. Below(log.cur, n)
    BY <1>2, <1>3, LogsBacked
<1> HIDE DEF n
<1>5. docs' \in [Docs -> Indexed] /\ \A d \in Docs : docs'[d] = Replayed(log.cur, d)
  <2>1. \A d \in Docs : ReplayDoc(log.cur, n, d) = Replayed(log.cur, d) /\ Replayed(log.cur, d) \in Indexed
    BY <1>3, <1>4, ReplayCounts, ReplayedType
  <2> QED
    BY <1>1, <2>1 DEF replay_ops
<1>6. allowed' \in [Docs -> SUBSET Nat] /\ \A d \in Docs : docs'[d].stamp \in allowed'[d]
  <2>1. \A d \in Docs : docs'[d].stamp \in Nat
    BY <1>5 DEF Indexed
  <2> QED
    BY <1>1, <2>1
<1>7. /\ Names' = Names /\ Newest' = Newest /\ Current' = Current /\ Starts' = Starts
      /\ \A l, t : Held(l, t)' <=> Held(l, t)
    BY <1>1, DiskSame
<1>8. /\ manifest.next_id \in Nat /\ manifest.version \in Nat /\ Starts \in Seq(Nat) /\ Names \in Seq(SegName)
  <2>1. Segs(Names, Current)
    BY Views, FileTypes DEF Core, SegSet, Segs, Contents
  <2> QED
    BY <2>1, BasesIs DEF Core, Shape, Names, Starts
<1>9. Shape'
    BY <1>1, <1>5, <1>6, <1>8 DEF Core, Shape, OpShape
<1>10. /\ StepInv' /\ BeginInv' /\ BatchInv' /\ SweepInv' /\ PlanInv' /\ ~Rewriting' /\ ~Batching'
       /\ MaySeal' /\ StagedLive' /\ Unwound' = log.cur
  <2>1. op'.pc = "idle" /\ op'.kind = "none"
    BY <1>1, <1>2
  <2>2. ~Rewriting' /\ ~Batching'
    BY <2>1 DEF Rewriting, Batching
  <2> QED
    BY <1>1, <2>1, <2>2 DEF StepInv, BeginInv, BatchInv, SweepInv, PlanInv, MaySeal, StagedLive, Unwound
<1>11. SegsInv'
    BY <1>1, <1>2, <1>7, <1>10 DEF Core, SegsInv, MaySeal
<1>12. CertainInv'
    BY <1>1, <1>2, <1>3, <1>7 DEF Core, CertainInv
<1>13. RowsInv'
  <2>1. /\ \A l \in log.poss : \A t \in files[Newest].poss \cup {files[Newest].cur} : Held(l, t)
        /\ Held(log.cur, files[Newest].cur)
    BY <1>2 DEF Core, RowsInv
  <2> QED
    BY <1>1, <1>7, <2>1 DEF RowsInv
<1>14. IndexInv'
    BY <1>1, <1>5, <1>10 DEF Core, IndexInv, StagedLive
<1>15. PromiseInv'
    BY <1>1, <1>3, <1>5, <1>6, <1>10 DEF PromiseInv
<1> QED
    BY <1>9, <1>10, <1>11, <1>12, <1>13, <1>14, <1>15 DEF Core

-----------------------------------------------------------------------------
(* compact *)

\* A segment set of the base segment alone starts at row 0.
LEMMA OneBase ==
    ASSUME NEW c \in Contents
    PROVE  /\ SegSet(<<BASE_SEGMENT>>) /\ Bases(<<BASE_SEGMENT>>, c) = <<0>>
           /\ Total(<<BASE_SEGMENT>>, c) = Len(c[BASE_SEGMENT])
           /\ \A r \in Nat : \A s : At(<<BASE_SEGMENT>>, <<0>>, c, r, s) <=>
                    r < Len(c[BASE_SEGMENT]) /\ c[BASE_SEGMENT][r + 1] = s
<1> DEFINE names == <<BASE_SEGMENT>>
<1>1. names \in Seq(SegName) /\ Len(names) = 1 /\ names[1] = BASE_SEGMENT /\ DOMAIN names = 1..1
    BY StoreAssumption DEF SegName, BASE_SEGMENT
<1> HIDE DEF names
<1>2. SegSet(names)
    BY <1>1 DEF SegSet
<1>3. Segs(names, c)
    BY <1>1 DEF Segs, Contents
<1>4. /\ Bases(names, c) \in Seq(Nat) /\ Len(Bases(names, c)) = 1
      /\ Bases(names, c)[1] = Cardinality(Cells(names, c, 1))
    BY <1>1, <1>3, BasesIs
<1>5. Cells(names, c, 1) = {}
    BY DEF Cells
<1>6. Bases(names, c)[1] = 0
    BY <1>4, <1>5, FS_EmptySet
<1>7. Bases(names, c) = <<0>>
    BY <1>4, <1>6
<1>8. c[BASE_SEGMENT] \in Seq(Nat) /\ Len(c[BASE_SEGMENT]) \in Nat
    BY StoreAssumption DEF Contents, SegName, BASE_SEGMENT
<1>9. Total(names, c) = Len(c[BASE_SEGMENT])
    BY <1>1, <1>7, <1>8 DEF Total, Rows
<1>10. ASSUME NEW r \in Nat, NEW s
       PROVE  At(names, <<0>>, c, r, s) <=> r < Len(c[BASE_SEGMENT]) /\ c[BASE_SEGMENT][r + 1] = s
  <2>1. Holds(names, <<0>>, c, 1, r) <=> r < Len(c[BASE_SEGMENT])
    BY <1>1, <1>8 DEF Holds
  <2>2. r - <<0>>[1] + 1 = r + 1
    OBVIOUS
  <2>3. \A i \in DOMAIN names : i = 1
    BY <1>1
  <2> QED
    BY <1>1, <2>1, <2>2, <2>3 DEF At
<1> QED
    BY <1>2, <1>7, <1>9, <1>10 DEF names

\* Every doc of the index is served with the vectors of its own stamp.
LEMMA ServedRows ==
    ASSUME Core, Recoverable, up, ~Rewriting, NEW d \in Docs, NEW r \in docs[d].rows
    PROVE  /\ r \in Nat /\ r < RowCount /\ RowOf(segments, base, Current, r) = docs[d].stamp
<1>1. segments = Names /\ base = Starts /\ RowCount = Total(Names, Current)
    BY OpenViews DEF Core
<1>2. SegSet(Names) /\ Current \in Contents
    BY Views, FileTypes DEF Core
<1>3. Matrix(Names, Starts, Current)
    BY <1>2, SetMatrix DEF Starts
<1>4. docs[d] # Absent
    BY DEF Absent
<1>5. docs[d] = Replayed(Unwound, d)
    BY <1>4 DEF Core, IndexInv
<1>6. Unwound \in Seq(Record) /\ Backed(Unwound, Names, Current)
  <2>1. log.cur \in Seq(Record) /\ Backed(log.cur, Names, Current)
    BY LogsBacked
  <2>2. CASE Batching \/ op.kind = "sweep"
    <3>1. /\ Unwound \in Seq(Record) /\ Unwound = SubSeq(log.cur, 1, op.lmark)
          /\ op.lmark \in Nat /\ op.lmark <= Len(log.cur)
      BY <2>2, UnwoundFacts
    <3> QED
      BY <2>1, <3>1, BackedPrefix
  <2>3. CASE ~(Batching \/ op.kind = "sweep")
    BY <2>1, <2>3 DEF Unwound
  <2> QED
    BY <2>2, <2>3
<1>7. PICK k \in 1..Len(Unwound) : /\ docs[d].rows = Unwound[k].rows
                                   /\ docs[d].stamp = Unwound[k].stamp
    BY <1>4, <1>5, <1>6, ReplayedIs
<1>8. k \in DOMAIN Unwound
    BY <1>6
<1>9. At(Names, Starts, Current, r, docs[d].stamp)
    BY <1>6, <1>7, <1>8 DEF Backed, Starts
<1>10. r \in Nat
    BY <1>6, <1>7, <1>8, RecordRows
<1> QED
    BY <1>1, <1>3, <1>9, <1>10, RowOfAt DEF Total, Starts

\* An ordering of a set has every one of its elements, once.
LEMMA OrderCovers ==
    ASSUME NEW S \in SUBSET Docs, NEW order \in Orders(S), NEW d \in S
    PROVE  \E k \in DOMAIN order : order[k] = d /\ \A j \in DOMAIN order : j > k => order[j] # d
<1>1. /\ IsFiniteSet(S) /\ Cardinality(S) \in Nat /\ DOMAIN order = 1..Cardinality(S)
      /\ \A k \in DOMAIN order : order[k] \in S
      /\ \A i, j \in DOMAIN order : i < j => order[i] < order[j]
    BY OrderFacts
<1> DEFINE N == Cardinality(S)
           T == S \ {d}
<1>2. \A k \in 1..N : order[k] \in Nat
    BY <1>1, StoreAssumption
<1>3. \A i, j \in 1..N : order[i] = order[j] => i = j
  <2> SUFFICES ASSUME NEW i \in 1..N, NEW j \in 1..N, order[i] = order[j], i # j PROVE FALSE
    OBVIOUS
  <2>1. i < j \/ j < i
    BY <1>1
  <2> QED
    BY <1>1, <1>2, <2>1
<1>4. \E k \in 1..N : order[k] = d
  <2> SUFFICES ASSUME \A k \in 1..N : order[k] # d PROVE FALSE
    OBVIOUS
  <2>1. IsFiniteSet(T) /\ Cardinality(T) = N - 1
    BY <1>1, FS_RemoveElement
  <2>2. order \in [1..N -> T]
    BY <1>1 DEF Orders
  <2>3. IsFiniteSet(1..N) /\ Cardinality(1..N) = N
    BY <1>1, FS_Interval
  <2> HIDE DEF N, T
  <2>4. order \in Injection(1..N, T)
    BY <1>3, <2>2 DEF Injection, IsInjective
  <2>5. Cardinality(1..N) <= Cardinality(T)
    BY <2>1, <2>4, FS_Injection
  <2> QED
    BY <1>1, <2>1, <2>3, <2>5 DEF N
<1>5. PICK k \in 1..N : order[k] = d
    BY <1>4
<1>6. \A j \in 1..N : j > k => order[j] # d
    BY <1>3, <1>5
<1> QED
    BY <1>1, <1>5, <1>6

\* Compact gives the live rows the places 0, 1, ... without a gap, so the rows
\* it writes are the vectors of the docs whose rows they become.
LEMMA CompactedIs ==
    ASSUME Core, Recoverable, up, op.pc = "crows",
           NEW place \in [LiveRows -> 0..(Cardinality(LiveRows) - 1)], Renumbers(place)
    PROVE  /\ CompactedRows(place) \in Seq(Nat)
           /\ \A d \in Docs : \A r \in docs[d].rows :
                 /\ <<d, r>> \in LiveRows /\ place[<<d, r>>] \in Nat
                 /\ place[<<d, r>>] < Len(CompactedRows(place))
                 /\ CompactedRows(place)[place[<<d, r>>] + 1] = docs[d].stamp
<1> DEFINE N == Cardinality(LiveRows)
<1>1. ~Rewriting
    BY DEF Rewriting
<1>2. \A d \in Docs : \A r \in docs[d].rows :
          r \in Nat /\ r < RowCount /\ RowOf(segments, base, Current, r) = docs[d].stamp
    BY <1>1, ServedRows
<1>3. RowCount \in Nat /\ Docs \subseteq Nat /\ IsFiniteSet(Docs)
    BY <1>1, OpenViews, StoreAssumption DEF Core
<1>4. \A p \in LiveRows : /\ p = <<p[1], p[2]>> /\ p[1] \in Docs /\ p[2] \in docs[p[1]].rows
                          /\ p[1] \in Nat /\ p[2] \in Nat /\ p[2] \in 0..RowCount
    BY <1>2, <1>3 DEF LiveRows
<1>5. IsFiniteSet(LiveRows)
  <2>1. LiveRows \in SUBSET (Docs \X (0..RowCount))
    BY <1>4
  <2>2. IsFiniteSet(0..RowCount)
    BY <1>3, FS_Interval
  <2>3. IsFiniteSet(Docs \X (0..RowCount))
    BY <1>3, <2>2, FS_Product
  <2> QED
    BY <2>1, <2>3, FS_Subset
<1>6. N \in Nat
    BY <1>5, FS_CardinalityType
<1>7. \A p, q \in LiveRows : place[p] = place[q] => p = q
  <2> SUFFICES ASSUME NEW p \in LiveRows, NEW q \in LiveRows, place[p] = place[q], p # q PROVE FALSE
    OBVIOUS
  <2>1. /\ p = <<p[1], p[2]>> /\ q = <<q[1], q[2]>>
        /\ p[1] \in Nat /\ p[2] \in Nat /\ q[1] \in Nat /\ q[2] \in Nat
    BY <1>4
  <2>2. p[1] # q[1] \/ p[2] # q[2]
    BY <2>1
  <2>3. \/ p[1] < q[1] \/ (p[1] = q[1] /\ p[2] < q[2])
        \/ q[1] < p[1] \/ (q[1] = p[1] /\ q[2] < p[2])
    BY <2>1, <2>2
  <2>4. place[p] < place[q] \/ place[q] < place[p]
    BY <2>3 DEF Renumbers
  <2>5. place[p] \in Nat /\ place[q] \in Nat
    BY <1>6
  <2> QED
    BY <2>4, <2>5
<1>8. \A k \in 0..(N - 1) : \E p \in LiveRows : place[p] = k
    BY DEF Renumbers
<1>9. ASSUME NEW p \in LiveRows
      PROVE  CompactedRows(place)[place[p] + 1] = docs[p[1]].stamp /\ place[p] \in 0..(N - 1)
  <2>0. PICK k : k = place[p] + 1
    OBVIOUS
  <2>1. place[p] \in 0..(N - 1)
    OBVIOUS
  <2>2. k \in 1..N /\ k - 1 = place[p]
    BY <1>6, <2>0, <2>1
  <2>3. (CHOOSE q \in LiveRows : place[q] = k - 1) = p
    BY <1>7, <2>2
  <2>4. CompactedRows(place)[k] = RowOf(segments, base, Current, p[2])
    BY <2>2, <2>3 DEF CompactedRows
  <2>5. RowOf(segments, base, Current, p[2]) = docs[p[1]].stamp
    BY <1>2, <1>4
  <2> QED
    BY <2>0, <2>1, <2>4, <2>5
<1>10. \A d \in Docs : docs[d].stamp \in Nat
    BY DEF Core, Shape, Indexed
<1>11. ASSUME NEW k \in 1..N PROVE CompactedRows(place)[k] \in Nat
  <2>1. k - 1 \in 0..(N - 1)
    BY <1>6
  <2>2. PICK p \in LiveRows : place[p] = k - 1
    BY <1>8, <2>1
  <2>3. place[p] + 1 = k
    BY <1>6, <2>2
  <2> QED
    BY <1>4, <1>9, <1>10, <2>3
<1>12. CompactedRows(place) \in Seq(Nat) /\ Len(CompactedRows(place)) = N
  <2>1. CompactedRows(place) = [k \in 1..N |-> CompactedRows(place)[k]]
    BY DEF CompactedRows
  <2>2. PICK m : m = CompactedRows(place)
    OBVIOUS
  <2>3. m = [k \in 1..N |-> m[k]] /\ \A k \in 1..N : m[k] \in Nat
    BY <1>11, <2>1, <2>2
  <2> HIDE DEF N
  <2>4. m \in [1..N -> Nat]
    BY <2>3
  <2> QED
    BY <1>6, <2>2, <2>4
<1>13. ASSUME NEW d \in Docs, NEW r \in docs[d].rows PROVE <<d, r>> \in LiveRows
    BY DEF LiveRows
<1> HIDE DEF N
<1> QED
  <2> SUFFICES ASSUME NEW d \in Docs, NEW r \in docs[d].rows
               PROVE  /\ <<d, r>> \in LiveRows /\ place[<<d, r>>] \in Nat
                      /\ place[<<d, r>>] < Len(CompactedRows(place))
                      /\ CompactedRows(place)[place[<<d, r>>] + 1] = docs[d].stamp
    BY <1>12
  <2>1. <<d, r>> \in LiveRows
    BY <1>13
  <2>2. PICK p : p = <<d, r>>
    OBVIOUS
  <2>3. place[p] \in 0..(N - 1) /\ CompactedRows(place)[place[p] + 1] = docs[p[1]].stamp
    BY <1>9, <2>1, <2>2
  <2>4. p[1] = d
    BY <2>2
  <2> QED
    BY <1>6, <1>12, <2>1, <2>2, <2>3, <2>4

\* What compact has decided on: the relocated index is what its log replays to,
\* and every row the log names is in the rewritten matrix.
LEMMA PlanIs ==
    ASSUME Core, Recoverable, up, op.pc = "crows",
           NEW place \in [LiveRows -> 0..(Cardinality(LiveRows) - 1)], Renumbers(place),
           NEW order \in Orders(LiveDocs),
           NEW c \in Contents, c[BASE_SEGMENT] = CompactedRows(place)
    PROVE  /\ Relocated(place) \in [Docs -> Indexed]
           /\ CompactedLog(place, order) \in Seq(Record) /\ WellFormed(CompactedLog(place, order))
           /\ Backed(CompactedLog(place, order), <<BASE_SEGMENT>>, c)
           /\ \A d \in Docs : /\ Replayed(CompactedLog(place, order), d) = Relocated(place)[d]
                              /\ Relocated(place)[d].stamp = docs[d].stamp
<1>0. PICK l : l = CompactedLog(place, order)
    OBVIOUS
<1>1. \A d \in Docs : \A r \in docs[d].rows :
         /\ place[<<d, r>>] \in Nat /\ place[<<d, r>>] < Len(c[BASE_SEGMENT])
         /\ c[BASE_SEGMENT][place[<<d, r>>] + 1] = docs[d].stamp
    BY CompactedIs
<1>2. \A d \in Docs : docs[d] \in Indexed
    BY DEF Core, Shape
<1>3. PICK rel : rel = Relocated(place)
    OBVIOUS
<1>4. PICK m : m = [d \in Docs |-> {place[<<d, r>>] : r \in docs[d].rows}]
    OBVIOUS
<1>5. \A d \in Docs : rel[d] = [rows |-> m[d], stamp |-> docs[d].stamp, acc |-> docs[d].acc]
  <2>1. \A d \in Docs : rel[d] = [docs[d] EXCEPT !.rows = m[d]]
    BY <1>4, <1>3 DEF Relocated
  <2>2. \A d \in Docs : docs[d] = [rows |-> docs[d].rows, stamp |-> docs[d].stamp, acc |-> docs[d].acc]
    BY <1>2 DEF Indexed
  <2> QED
    BY <2>1, <2>2
<1>6. \A d \in Docs : \A r \in m[d] : \E q \in docs[d].rows : r = place[<<d, q>>]
    BY <1>4
<1>7. ASSUME NEW d \in Docs PROVE rel[d].rows = m[d] /\ rel[d].stamp = docs[d].stamp
  <2>1. rel[d] = [rows |-> m[d], stamp |-> docs[d].stamp, acc |-> docs[d].acc]
    BY <1>5, Zenon
  <2> QED
    BY <2>1
<1>8. \A d \in Docs : m[d] \subseteq Nat
  <2> SUFFICES ASSUME NEW d \in Docs, NEW r \in m[d] PROVE r \in Nat
    OBVIOUS
  <2>1. PICK q \in docs[d].rows : r = place[<<d, q>>]
    BY <1>6
  <2> QED
    BY <1>1, <2>1
<1>9. \A d \in Docs : docs[d].rows = {} => m[d] = {}
    BY <1>6
<1>10. \A d \in Docs : docs[d].stamp \in Nat /\ docs[d].acc \in Nat
    BY <1>2 DEF Indexed
<1>11. rel \in [Docs -> Indexed]
  <2>1. ASSUME NEW d \in Docs PROVE rel[d] \in Indexed
    <3>1. m[d] \subseteq Nat /\ docs[d].stamp \in Nat /\ docs[d].acc \in Nat
      BY <1>8, <1>10
    <3>2. rel[d] = [rows |-> m[d], stamp |-> docs[d].stamp, acc |-> docs[d].acc]
      BY <1>5, Zenon
    <3> QED
      BY <3>1, <3>2 DEF Indexed
  <2>2. rel = [d \in Docs |-> rel[d]]
    BY <1>3 DEF Relocated
  <2> QED
    BY <2>1, <2>2
<1>12. /\ LiveDocs \in SUBSET Docs /\ Cardinality(LiveDocs) \in Nat
      /\ DOMAIN order = 1..Cardinality(LiveDocs)
      /\ \A k \in DOMAIN order : order[k] \in LiveDocs /\ order[k] \in Docs
  <2>1. LiveDocs \in SUBSET Docs
    BY DEF LiveDocs
  <2> QED
    BY <2>1, OrderFacts
<1>13. DOMAIN l = DOMAIN order /\
      \A k \in DOMAIN order :
          l[k] = [kind |-> "upsert", id |-> order[k], rows |-> rel[order[k]].rows,
                  stamp |-> docs[order[k]].stamp, acc |-> docs[order[k]].acc]
    BY <1>0, <1>3 DEF CompactedLog, UpsertOp
<1>14. ASSUME NEW k \in DOMAIN order PROVE l[k] \in Record
  <2>1. PICK d : d = order[k]
    OBVIOUS
  <2>2. d \in Docs
    BY <1>12, <2>1
  <2>3. m[d] \subseteq Nat /\ docs[d].stamp \in Nat /\ docs[d].acc \in Nat /\ rel[d].rows = m[d]
    BY <1>7, <1>8, <1>10, <2>2
  <2>4. l[k] = [kind |-> "upsert", id |-> d, rows |-> rel[d].rows,
                stamp |-> docs[d].stamp, acc |-> docs[d].acc]
    BY <1>13, <2>1
  <2> QED
    BY <2>2, <2>3, <2>4 DEF Record
<1>15. l \in Seq(Record)
  <2>1. l = [k \in DOMAIN order |-> l[k]]
    BY <1>0 DEF CompactedLog
  <2>2. l \in [1..Cardinality(LiveDocs) -> Record]
    BY <1>12, <1>14, <2>1
  <2> QED
    BY <1>12, <2>2
<1>16. WellFormed(l)
  <2>1. \A k \in DOMAIN l : l[k].stamp > 0
    BY <1>10, <1>12, <1>13 DEF LiveDocs
  <2> QED
    BY <1>13, <2>1 DEF WellFormed
<1>17. Backed(l, <<BASE_SEGMENT>>, c)
  <2> SUFFICES ASSUME NEW k \in DOMAIN l, NEW r \in l[k].rows
               PROVE  At(<<BASE_SEGMENT>>, Bases(<<BASE_SEGMENT>>, c), c, r, l[k].stamp)
    BY DEF Backed
  <2>1. PICK d : d = order[k]
    OBVIOUS
  <2>2. d \in Docs /\ l[k].rows = rel[d].rows /\ l[k].stamp = docs[d].stamp
    BY <1>12, <1>13, <2>1
  <2>3. PICK q \in docs[d].rows : r = place[<<d, q>>]
    BY <1>7, <1>6, <2>2
  <2>4. r \in Nat /\ r < Len(c[BASE_SEGMENT]) /\ c[BASE_SEGMENT][r + 1] = docs[d].stamp
    BY <1>1, <2>2, <2>3
  <2> QED
    BY <2>2, <2>4, OneBase
<1>18. ASSUME NEW d \in Docs PROVE Replayed(l, d) = rel[d]
  <2>1. CASE d \in LiveDocs
    <3>1. PICK k \in DOMAIN order : order[k] = d /\ \A j \in DOMAIN order : j > k => order[j] # d
      BY <1>12, <2>1, OrderCovers
    <3>2. /\ k \in DOMAIN l /\ l[k].kind = "upsert" /\ l[k].id = d
          /\ l[k].rows = rel[d].rows /\ l[k].stamp = docs[d].stamp /\ l[k].acc = docs[d].acc
      BY <1>13, <3>1
    <3>3. \A j \in DOMAIN l : j > k => l[j].id # l[k].id
      BY <1>13, <3>1, <3>2
    <3>4. Replayed(l, d) = [rows |-> l[k].rows, stamp |-> l[k].stamp, acc |-> l[k].acc]
      BY <1>15, <3>2, <3>3, ReplayedLast
    <3>5. rel[d] = [rows |-> m[d], stamp |-> docs[d].stamp, acc |-> docs[d].acc] /\ rel[d].rows = m[d]
      BY <1>5, <1>7, Zenon
    <3>6. Replayed(l, d) = [rows |-> m[d], stamp |-> docs[d].stamp, acc |-> docs[d].acc]
      BY <3>2, <3>4, <3>5, Zenon
    <3> QED
      BY <3>5, <3>6, Zenon
  <2>2. CASE d \notin LiveDocs
    <3>1. \A j \in DOMAIN l : l[j].id # d
      BY <1>12, <1>13, <2>2
    <3>2. Replayed(l, d) = Absent
      BY <3>1, ReplayedNone
    <3>3. docs[d].stamp = 0
      BY <2>2 DEF LiveDocs
    <3>4. docs[d] = Absent
      <4>1. CASE d \in ahead
        BY <4>1 DEF Core, IndexInv
      <4>2. CASE d \notin ahead
        <5>1. ~Rewriting /\ ~Batching /\ op.kind = "compact"
          BY DEF Rewriting, Batching, Core, StepInv
        <5>2. docs[d] = Replayed(log.cur, d)
          BY <4>2, <5>1, UnwoundIs DEF Core, IndexInv
        <5>3. log.cur \in Seq(Record) /\ WellFormed(log.cur)
          BY LogTypes DEF Core, IndexInv
        <5> QED
          BY <3>3, <5>2, <5>3, ReplayedStamp
      <4> QED
        BY <4>1, <4>2
    <3>5. m[d] = {}
      BY <1>9, <3>4 DEF Absent
    <3>6. rel[d] = [rows |-> m[d], stamp |-> docs[d].stamp, acc |-> docs[d].acc]
      BY <1>5, Zenon
    <3>7. docs[d].stamp = 0 /\ docs[d].acc = 0
      BY <3>4 DEF Absent
    <3>8. rel[d] = Absent
      BY <3>5, <3>6, <3>7, Zenon DEF Absent
    <3> QED
      BY <3>2, <3>8
  <2> QED
    BY <2>1, <2>2
<1>19. \A d \in Docs : rel[d].stamp = docs[d].stamp
    BY <1>7
<1> QED
    BY <1>0, <1>3, <1>11, <1>15, <1>16, <1>17, <1>18, <1>19

\* Where the base segment starts.
FirstBase == <<0>>

\* The step of compact that replaces the rows.
LEMMA CompactRewrites ==
    ASSUME Core, Recoverable, up, op.pc = "crows",
           NEW place \in [LiveRows -> 0..(Cardinality(LiveRows) - 1)], Renumbers(place),
           NEW order \in Orders(LiveDocs),
           NEW v, v = CompactedRows(place),
           files' = [files EXCEPT ![BASE_SEGMENT] = File(v)],
           NEW p, p = [docs |-> Relocated(place), log |-> CompactedLog(place, order),
                       dropped |-> {segments[i] : i \in 2..Len(segments)}],
           op' = [op EXCEPT !.pc = "clog", !.plan = p],
           segments' = <<BASE_SEGMENT>>, base' = FirstBase, version' = version + 1,
           UNCHANGED <<log, manifest, up, next_id, docs, pending_barrier, stamps, allowed, ahead>>
    PROVE  Core'
<1>1. /\ ~Rewriting /\ ~Batching /\ op.kind = "compact" /\ Unwound = log.cur /\ OpShape
      /\ segments = Names
  <2>1. ~Rewriting /\ ~Batching /\ op.kind = "compact" /\ OpShape
    BY DEF Rewriting, Batching, Core, StepInv, Shape
  <2> QED
    BY <2>1, UnwoundIs, OpenViews DEF Core
<1>2. op' = [pc |-> "clog", kind |-> op.kind, batch |-> op.batch, staged |-> op.staged,
             dmark |-> op.dmark, lmark |-> op.lmark, barrier |-> op.barrier,
             first |-> op.first, i |-> op.i, plan |-> p]
    BY <1>1 DEF OpShape, Progress
<1>3. op'.pc = "clog" /\ op'.kind = "compact" /\ op'.plan = p /\ op'.barrier = op.barrier
    BY <1>1, <1>2
<1>4. Rewriting' /\ ~Batching' /\ Unwound' = log.cur
  <2>1. Rewriting' /\ ~Batching'
    BY <1>3 DEF Rewriting, Batching
  <2> QED
    BY <1>3, <2>1 DEF Unwound
<1>5. 0 \in SegName /\ BASE_SEGMENT = 0 /\ v \in Seq(Nat) /\ SegSet(Names)
    BY Views, CompactedIs DEF Core, BASE_SEGMENT
<1>6. /\ files'[0] = File(v) /\ files'[0].cur = v /\ files'[0].poss = {v}
      /\ \A n \in SegName : n # 0 => files'[n] = files[n]
      /\ files' \in [SegName -> [cur : Seq(Nat), poss : SUBSET Seq(Nat)]]
  <2>1. files \in [SegName -> [cur : Seq(Nat), poss : SUBSET Seq(Nat)]]
    BY DEF Core, Shape
  <2>2. File(v) \in [cur : Seq(Nat), poss : SUBSET Seq(Nat)] /\ File(v).cur = v /\ File(v).poss = {v}
    BY <1>5 DEF File
  <2> QED
    BY <1>5, <2>1, <2>2
<1>7. Current' \in Contents /\ Current'[BASE_SEGMENT] = v
    BY <1>5, <1>6 DEF Current, Contents
<1>8. PICK c : c = Current'
    OBVIOUS
<1>9. /\ p.docs = Relocated(place) /\ p.log = CompactedLog(place, order)
      /\ p.dropped = {segments[i] : i \in 2..Len(segments)}
    BY Zenon
<1>10. /\ p.docs \in [Docs -> Indexed] /\ p.log \in Seq(Record) /\ WellFormed(p.log)
       /\ Backed(p.log, <<BASE_SEGMENT>>, c)
       /\ \A d \in Docs : Replayed(p.log, d) = p.docs[d] /\ p.docs[d].stamp = docs[d].stamp
  <2>1. c \in Contents /\ c[BASE_SEGMENT] = CompactedRows(place)
    BY <1>7, <1>8
  <2>2. /\ Relocated(place) \in [Docs -> Indexed]
        /\ CompactedLog(place, order) \in Seq(Record) /\ WellFormed(CompactedLog(place, order))
        /\ Backed(CompactedLog(place, order), <<BASE_SEGMENT>>, c)
        /\ \A d \in Docs : /\ Replayed(CompactedLog(place, order), d) = Relocated(place)[d]
                           /\ Relocated(place)[d].stamp = docs[d].stamp
    BY <2>1, PlanIs
  <2> QED
    BY <1>9, <2>2, Zenon
<1>11. p.dropped \in SUBSET SegName /\ BASE_SEGMENT \notin p.dropped
  <2>1. \A n \in p.dropped : \E i \in 2..Len(Names) : n = Names[i]
    BY <1>1, <1>9
  <2>2. ASSUME NEW i \in 2..Len(Names) PROVE Names[i] \in SegName /\ Names[i] # BASE_SEGMENT
    <3>1. Len(Names) \in Nat /\ i \in 1..Len(Names) /\ 1 \in 1..Len(Names) /\ i # 1
      BY <1>5 DEF SegSet
    <3>2. Names[1] = BASE_SEGMENT
      BY DEF Core, SegsInv
    <3> QED
      BY <1>5, <3>1, <3>2, SMTT(30) DEF SegSet
  <2> QED
    BY <2>1, <2>2
<1>12. Names' = Names /\ Newest' = Newest /\ Newest \in SegName
    BY Views DEF Names, Newest, Core
<1>13. Shape'
  <2>1. p \in Plan
    BY <1>9, <1>10, <1>11 DEF Plan
  <2>2. op' \in Progress
    BY <1>1, <1>2, <2>1, OpTypes DEF Progress, Pcs
  <2>3. <<BASE_SEGMENT>> \in Seq(SegName) /\ FirstBase \in Seq(Nat)
    BY <1>5 DEF FirstBase
  <2>4. version' \in Nat
    BY DEF Core, Shape
  <2> QED
    BY <1>6, <2>2, <2>3, <2>4 DEF Core, Shape, OpShape
<1>14. StepInv' /\ BeginInv'
    BY <1>1, <1>3 DEF Core, StepInv, BeginInv
<1>15. BatchInv' /\ SweepInv' /\ RowsInv'
    BY <1>3, <1>4 DEF BatchInv, SweepInv, RowsInv
<1>16. SegsInv'
  <2>1. 0 < manifest.next_id
    <3>1. 1 \in 1..Len(Names) /\ Names[1] = 0
      BY <1>5 DEF SegSet, Core, SegsInv
    <3> QED
      BY <3>1 DEF Core, SegsInv
  <2>2. ASSUME NEW n \in SegName, n >= manifest.next_id PROVE files'[n] = File(<<>>)
    <3>1. n # 0
      BY <2>1, <2>2 DEF Core, Shape
    <3> QED
      BY <1>6, <2>2, <3>1 DEF Core, SegsInv
  <2> QED
    BY <1>3, <1>4, <1>12, <2>2 DEF Core, SegsInv, FirstBase
<1>17. CertainInv'
  <2>1. ASSUME NEW n \in SegName PROVE files'[n].poss = {files'[n].cur}
    <3>1. CASE n = 0
      BY <1>6, <3>1
    <3>2. CASE n # 0
      <4>1. files'[n] = files[n]
        BY <1>6, <3>2
      <4>2. SUFFICES ASSUME files[n].poss # {files[n].cur} PROVE FALSE
        BY <4>1
      <4>3. n = Newest /\ OneObject
        BY <4>2 DEF Core, CertainInv
      <4>4. Len(Names) = 1 /\ Names[1] = 0
        BY <1>5, <4>3 DEF Core, SegsInv, OneObject
      <4> QED
        BY <3>2, <4>3, <4>4 DEF Newest
    <3> QED
      BY <3>1, <3>2
  <2> QED
    BY <1>3, <1>12, <2>1 DEF Core, CertainInv
<1>18. IndexInv'
    BY <1>3, <1>4 DEF Core, IndexInv
<1>19. PromiseInv'
    BY <1>1, <1>4 DEF Core, PromiseInv
<1>20. PlanInv'
    BY <1>3, <1>8, <1>10, <1>11 DEF PlanInv
<1> QED
    BY <1>13, <1>14, <1>15, <1>16, <1>17, <1>18, <1>19, <1>20 DEF Core

LEMMA CompactDatas ==
    ASSUME Core, Recoverable, CompactData
    PROVE  Core'
<1>1. /\ up /\ op.pc = "crows" /\ "rewrite" \notin Faults
      /\ UNCHANGED <<log, manifest, up, next_id, docs, pending_barrier, stamps, allowed, ahead>>
    BY Regimes DEF CompactData, aux
<1>2. CASE /\ op' = Idle0 /\ UNCHANGED <<files, segments, base, version>>
  <2>1. ~Rewriting /\ ~Batching /\ op.kind = "compact"
    BY <1>1 DEF Rewriting, Batching, Core, StepInv
  <2>2. Unwound = log.cur
    BY <2>1, UnwoundIs
  <2>3. /\ OpShape' /\ StepInv' /\ BeginInv' /\ BatchInv' /\ SweepInv' /\ MaySeal' /\ StagedLive'
        /\ ~Rewriting' /\ Unwound' = log'.cur /\ op'.pc = "idle"
    BY <1>2, Returns
  <2>4. pending_barrier' \in BOOLEAN /\ version' \in Nat /\ stamps' \in Nat
    BY <1>1, <1>2 DEF Core, Shape
  <2> QED
    BY <1>1, <1>2, <2>1, <2>2, <2>3, <2>4, Quiet
<1>3. CASE ~(op' = Idle0 /\ UNCHANGED <<files, segments, base, version>>)
  <2>1. PICK place \in [LiveRows -> 0..(Cardinality(LiveRows) - 1)], order \in Orders(LiveDocs) :
           /\ Renumbers(place)
           /\ files' = [files EXCEPT ![BASE_SEGMENT] = File(CompactedRows(place))]
           /\ op' = [op EXCEPT !.pc = "clog",
                        !.plan = [docs |-> Relocated(place), log |-> CompactedLog(place, order),
                                  dropped |-> {segments[i] : i \in 2..Len(segments)}]]
           /\ segments' = <<BASE_SEGMENT>> /\ base' = <<0>> /\ version' = version + 1
    BY <1>1, <1>3, Zenon DEF CompactData, NextVersion, Return
  <2> QED
    BY <1>1, <2>1, CompactRewrites DEF FirstBase
<1> QED
    BY <1>2, <1>3

\* The step of compact that replaces the log.
LEMMA CompactLogs ==
    ASSUME Core, Recoverable, CompactLog
    PROVE  Core'
<1>1. /\ up /\ op.pc = "clog" /\ "rewrite" \notin Faults
      /\ log' = File(op.plan.log) /\ op' = [op EXCEPT !.pc = "cpublish"]
      /\ allowed' = Promise(Docs, docs)
      /\ UNCHANGED <<files, manifest, up, segments, base, next_id, version, docs, pending_barrier,
                     stamps, ahead>>
    BY Regimes DEF CompactLog, ram
<1>2. Rewriting /\ ~Batching /\ op.kind = "compact" /\ OpShape
    BY <1>1 DEF Rewriting, Batching, Core, StepInv, Shape
<1>3. op' = [pc |-> "cpublish", kind |-> op.kind, batch |-> op.batch, staged |-> op.staged,
             dmark |-> op.dmark, lmark |-> op.lmark, barrier |-> op.barrier,
             first |-> op.first, i |-> op.i, plan |-> op.plan]
    BY <1>1, <1>2 DEF OpShape, Progress
<1>4. op'.pc = "cpublish" /\ op'.kind = "compact" /\ op'.plan = op.plan /\ op'.barrier = op.barrier
    BY <1>2, <1>3
<1>5. PICK l : l = op.plan.log
    OBVIOUS
<1>6. /\ log' = File(l) /\ log'.cur = l /\ log'.poss = {l}
    BY <1>1, <1>5 DEF File
<1>7. Rewriting' /\ ~Batching' /\ Unwound' = l
  <2>1. Rewriting' /\ ~Batching'
    BY <1>4 DEF Rewriting, Batching
  <2> QED
    BY <1>4, <1>6, <2>1 DEF Unwound
<1>8. /\ WellFormed(l) /\ Backed(l, <<BASE_SEGMENT>>, Current) /\ BASE_SEGMENT \notin op.plan.dropped
      /\ \A d \in Docs : Replayed(l, d) = op.plan.docs[d] /\ op.plan.docs[d].stamp = docs[d].stamp
    BY <1>2, <1>5 DEF Core, PlanInv
<1>9. l \in Seq(Record) /\ op.plan \in Plan
    BY <1>2, <1>5, OpTypes DEF Plan
<1>10. \A d \in Docs : docs[d].stamp \in Nat /\ allowed'[d] = {docs[d].stamp}
    BY <1>1 DEF Core, Shape, Indexed, Promise
<1>11. allowed' \in [Docs -> SUBSET Nat]
    BY <1>1, <1>10 DEF Promise
<1>12. /\ Names' = Names /\ Newest' = Newest /\ Current' = Current /\ Starts' = Starts
    BY <1>1, DiskSame
<1>13. Shape'
  <2>1. op' \in Progress
    BY <1>2, <1>3, OpTypes DEF Progress, Pcs
  <2>2. log' \in [cur : Seq(Record), poss : SUBSET Seq(Record)]
    BY <1>1, <1>5, <1>9 DEF File
  <2> QED
    BY <1>1, <1>11, <2>1, <2>2 DEF Core, Shape, OpShape
<1>14. StepInv' /\ BeginInv'
    BY <1>1, <1>2, <1>4 DEF Core, StepInv, BeginInv
<1>15. BatchInv' /\ SweepInv' /\ RowsInv'
    BY <1>4, <1>7 DEF BatchInv, SweepInv, RowsInv
<1>16. SegsInv'
    BY <1>1, <1>2, <1>4, <1>7, <1>12 DEF Core, SegsInv
<1>17. CertainInv'
    BY <1>1, <1>2, <1>4, <1>6, <1>12 DEF Core, CertainInv
<1>18. IndexInv'
    BY <1>1, <1>4, <1>6, <1>7, <1>8 DEF Core, IndexInv
<1>19. PromiseInv'
    BY <1>6, <1>7, <1>8, <1>10 DEF PromiseInv
<1>20. PlanInv'
    BY <1>1, <1>4, <1>5, <1>6, <1>8, <1>10, <1>12 DEF PlanInv
<1> QED
    BY <1>13, <1>14, <1>15, <1>16, <1>17, <1>18, <1>19, <1>20 DEF Core

\* The step of compact that publishes what the two before it wrote.
LEMMA CompactPublishes ==
    ASSUME Core, Recoverable, CompactPublish
    PROVE  Core'
<1>1. up /\ op.pc = "cpublish" /\ op.kind = "compact" /\ Rewriting /\ OpShape
    BY DEF CompactPublish, Core, StepInv, Rewriting, Shape
<1>2. "publish" \notin Faults /\ "rewrite" \notin Faults
    BY <1>1, Regimes DEF Core, StepInv
<1>3. /\ manifest' = Manifest(segments, next_id, version)
      /\ files' = [n \in SegName |-> IF n \in op.plan.dropped THEN File(<<>>) ELSE files[n]]
      /\ docs' = op.plan.docs /\ ahead' = {} /\ op' = Idle0
      /\ UNCHANGED <<log, up, segments, base, next_id, version, pending_barrier, stamps, allowed>>
    BY <1>2 DEF CompactPublish, Return
<1>4. segments = <<BASE_SEGMENT>> /\ base = <<0>> /\ next_id = manifest.next_id
    BY <1>1 DEF Core, SegsInv
<1>5. PICK l : l = op.plan.log
    OBVIOUS
<1>6. /\ WellFormed(l) /\ Backed(l, <<BASE_SEGMENT>>, Current) /\ BASE_SEGMENT \notin op.plan.dropped
      /\ \A d \in Docs : Replayed(l, d) = op.plan.docs[d] /\ op.plan.docs[d].stamp = docs[d].stamp
      /\ log = File(l) /\ \A d \in Docs : allowed[d] = {docs[d].stamp}
    BY <1>1, <1>5 DEF Core, PlanInv
<1>7. log.cur = l /\ log.poss = {l}
    BY <1>6 DEF File
<1>8. l \in Seq(Record) /\ op.plan.docs \in [Docs -> Indexed] /\ op.plan.dropped \in SUBSET SegName
    BY <1>1, <1>5, OpTypes DEF Plan
<1>9. 0 \in SegName /\ BASE_SEGMENT = 0 /\ SegSet(<<BASE_SEGMENT>>) /\ SegSet(Names)
  <2>1. Current \in Contents
    BY FileTypes DEF Core
  <2> QED
    BY <2>1, Views, OneBase DEF Core, BASE_SEGMENT
<1>10. /\ manifest'.segments = <<BASE_SEGMENT>> /\ manifest'.next_id = next_id /\ manifest'.version = version
       /\ manifest' \in [segments : Seq(SegName), next_id : Nat, version : Nat]
  <2>1. <<BASE_SEGMENT>> \in Seq(SegName) /\ next_id \in Nat /\ version \in Nat
    BY <1>9 DEF SegSet, Core, Shape
  <2> QED
    BY <1>3, <1>4, <2>1 DEF Manifest
<1>11. Names' = <<BASE_SEGMENT>> /\ Newest' = 0 /\ Len(Names') = 1 /\ Names'[1] = 0
    BY <1>9, <1>10 DEF Names, Newest
<1>12. /\ files'[0] = files[0] /\ \A n \in SegName : files'[n] \in {File(<<>>), files[n]}
       /\ files' \in [SegName -> [cur : Seq(Nat), poss : SUBSET Seq(Nat)]]
  <2>1. files \in [SegName -> [cur : Seq(Nat), poss : SUBSET Seq(Nat)]]
    BY DEF Core, Shape
  <2>2. File(<<>>) \in [cur : Seq(Nat), poss : SUBSET Seq(Nat)]
    BY DEF File
  <2> QED
    BY <1>3, <1>6, <1>9, <2>1, <2>2
<1>13. \A n \in SegName : files'[n].poss = {files'[n].cur}
  <2>1. \A n \in SegName : files[n].poss = {files[n].cur}
    BY <1>1 DEF Core, CertainInv
  <2>2. File(<<>>).poss = {File(<<>>).cur}
    BY DEF File
  <2> QED
    BY <1>12, <2>1, <2>2
<1>14. PICK c : c = Current'
    OBVIOUS
<1>15. c \in Contents /\ c[0] = Current[0] /\ Current \in Contents
  <2>1. \A n \in SegName : files'[n].cur \in Seq(Nat)
    BY <1>12
  <2> QED
    BY <1>9, <1>12, <1>14, <2>1, FileTypes DEF Current, Contents, Core
<1>16. Backed(l, <<BASE_SEGMENT>>, c)
  <2> SUFFICES ASSUME NEW k \in DOMAIN l, NEW r \in l[k].rows
               PROVE  At(<<BASE_SEGMENT>>, Bases(<<BASE_SEGMENT>>, c), c, r, l[k].stamp)
    BY DEF Backed
  <2>1. r \in Nat
    BY <1>8, RecordRows
  <2>2. At(<<BASE_SEGMENT>>, Bases(<<BASE_SEGMENT>>, Current), Current, r, l[k].stamp)
    BY <1>6 DEF Backed
  <2>3. At(<<BASE_SEGMENT>>, <<0>>, Current, r, l[k].stamp)
    BY <1>15, <2>2, OneBase
  <2>4. r < Len(c[0]) /\ c[0][r + 1] = l[k].stamp
    BY <1>9, <1>15, <2>1, <2>3, OneBase
  <2>5. At(<<BASE_SEGMENT>>, <<0>>, c, r, l[k].stamp)
    BY <1>9, <1>15, <2>1, <2>4, OneBase
  <2> QED
    BY <1>15, <2>5, OneBase
<1>17. Starts' = <<0>>
    BY <1>11, <1>14, <1>15, OneBase DEF Starts
<1>18. /\ OpShape' /\ StepInv' /\ BeginInv' /\ BatchInv' /\ SweepInv' /\ PlanInv'
       /\ MaySeal' /\ StagedLive' /\ ~Rewriting' /\ Unwound' = l /\ op'.pc = "idle"
    BY <1>3, <1>7, Returns
<1>19. Shape'
    BY <1>3, <1>8, <1>10, <1>12, <1>18 DEF Core, Shape
<1>20. SegsInv'
  <2>1. 0 < manifest.next_id
    <3>1. 1 \in 1..Len(Names) /\ Names[1] = 0
      BY <1>9 DEF SegSet, Core, SegsInv
    <3> QED
      BY <3>1 DEF Core, SegsInv
  <2>2. \A n \in SegName : n >= manifest'.next_id => files'[n] = File(<<>>)
    BY <1>4, <1>10, <1>12 DEF Core, SegsInv
  <2>3. \A i, j \in 1..Len(Names') : Names'[i] = Names'[j] => i = j
    BY <1>11
  <2>4. \A i \in 1..Len(Names') : Names'[i] < manifest'.next_id
    BY <1>4, <1>10, <1>11, <2>1
  <2>5. Len(Names') > 0 /\ Names'[1] = BASE_SEGMENT
    BY <1>9, <1>11
  <2>6. segments' = Names' /\ base' = Starts' /\ next_id' = manifest'.next_id
    BY <1>3, <1>4, <1>10, <1>11, <1>17
  <2> QED
    BY <1>11, <1>18, <2>2, <2>3, <2>4, <2>5, <2>6 DEF SegsInv, MaySeal
<1>21. CertainInv'
    BY <1>3, <1>7, <1>13, <1>18 DEF CertainInv
<1>22. RowsInv'
  <2>0. PICK t : t = files'[0].cur
    OBVIOUS
  <2>1. files'[Newest'].poss = {t} /\ files'[Newest'].cur = t /\ c[0] = t
    BY <1>9, <1>11, <1>13, <1>14, <2>0 DEF Current
  <2>2. [c EXCEPT ![0] = t] = c
    BY <1>9, <1>15, <2>1 DEF Contents
  <2>3. With(t)' = c
    BY <1>11, <1>14, <2>2 DEF With
  <2>4. Held(l, t)'
    BY <1>11, <1>16, <2>3 DEF Held
  <2> QED
    BY <1>3, <1>7, <2>1, <2>4 DEF RowsInv
<1>23. IndexInv'
    BY <1>3, <1>6, <1>7, <1>18 DEF IndexInv, StagedLive
<1>24. PromiseInv'
    BY <1>3, <1>6, <1>7, <1>18 DEF PromiseInv
<1> QED
    BY <1>18, <1>19, <1>20, <1>21, <1>22, <1>23, <1>24 DEF Core

-----------------------------------------------------------------------------
(* The invariant, and what it says of a crash *)

\* Nothing happens.
LEMMA Stutters ==
    ASSUME Core, UNCHANGED vars
    PROVE  Core'
<1>1. UNCHANGED <<files, log, manifest, up, segments, base, next_id, version, docs,
                  pending_barrier, op, stamps, allowed, ahead>>
    BY DEF vars, disk, ram, aux
<1>2. /\ Names' = Names /\ Newest' = Newest /\ Current' = Current /\ Starts' = Starts
      /\ \A l, t : Held(l, t)' <=> Held(l, t)
    BY <1>1, DiskSame
<1>3. (Rewriting' <=> Rewriting) /\ (Batching' <=> Batching) /\ Unwound' = Unwound
    BY <1>1 DEF Rewriting, Batching, Unwound
<1>4. Shape' /\ StepInv' /\ BeginInv' /\ SweepInv'
    BY <1>1 DEF Core, Shape, OpShape, StepInv, BeginInv, SweepInv
<1>5. SegsInv'
  <2>1. NeedsSeal' <=> NeedsSeal
    BY <1>1 DEF NeedsSeal, ActiveRows, Active
  <2> QED
    BY <1>1, <1>2, <1>3, <2>1 DEF Core, SegsInv
<1>6. CertainInv'
    BY <1>1, <1>2, <1>3 DEF Core, CertainInv
<1>7. RowsInv'
    BY <1>1, <1>2, <1>3 DEF Core, RowsInv
<1>8. BatchInv'
    BY <1>1, <1>2, <1>3 DEF Core, BatchInv
<1>9. IndexInv' /\ PromiseInv'
    BY <1>1, <1>3 DEF Core, IndexInv, PromiseInv
<1>10. PlanInv'
    BY <1>1, <1>2, <1>3 DEF Core, PlanInv
<1> QED
    BY <1>4, <1>5, <1>6, <1>7, <1>8, <1>9, <1>10 DEF Core

\* A new store.
LEMMA CoreInit ==
    ASSUME Init
    PROVE  Core
<1>1. /\ files = [n \in SegName |-> File(<<>>)] /\ log = File(<<>>)
      /\ manifest = [segments |-> <<BASE_SEGMENT>>, next_id |-> 1, version |-> 1]
      /\ up = TRUE /\ segments = <<BASE_SEGMENT>> /\ base = <<0>> /\ next_id = 1 /\ version = 1
      /\ docs = [d \in Docs |-> Absent] /\ pending_barrier = FALSE /\ op = Idle0 /\ stamps = 0
      /\ allowed = [d \in Docs |-> {0}] /\ ahead = {}
    BY DEF Init, Manifest
<1>2. op.pc = "idle" /\ op.kind = "none"
    BY <1>1 DEF Idle0
<1>3. ~Rewriting /\ ~Batching
    BY <1>2 DEF Rewriting, Batching
<1>4. 0 \in SegName /\ BASE_SEGMENT = 0 /\ <<BASE_SEGMENT>> \in Seq(SegName)
    BY StoreAssumption DEF SegName, BASE_SEGMENT
<1>5. /\ Names = <<BASE_SEGMENT>> /\ Len(Names) = 1 /\ Names[1] = 0 /\ Newest = 0
      /\ manifest.next_id = 1
    BY <1>1, <1>4 DEF Names, Newest
<1>6. /\ \A n \in SegName : files[n].cur = <<>> /\ files[n].poss = {<<>>} /\ files[n] = File(<<>>)
      /\ files \in [SegName -> [cur : Seq(Nat), poss : SUBSET Seq(Nat)]]
    BY <1>1 DEF File
<1>7. /\ log.cur = <<>> /\ log.poss = {<<>>}
      /\ log \in [cur : Seq(Record), poss : SUBSET Seq(Record)]
    BY <1>1 DEF File
<1>8. Shape
  <2>1. Absent \in Indexed
    BY DEF Absent, Indexed
  <2>2. manifest \in [segments : Seq(SegName), next_id : Nat, version : Nat]
    BY <1>1, <1>4
  <2>3. <<0>> \in Seq(Nat)
    OBVIOUS
  <2>4. OpShape
    BY <1>1, IdleShape DEF OpShape
  <2>5. allowed \in [Docs -> SUBSET Nat] /\ docs \in [Docs -> Indexed]
    BY <1>1, <2>1
  <2> QED
    BY <1>1, <1>4, <1>6, <1>7, <2>2, <2>3, <2>4, <2>5 DEF Shape
<1>9. StepInv /\ BeginInv /\ BatchInv /\ SweepInv /\ PlanInv
    BY <1>1, <1>2, <1>3 DEF StepInv, BeginInv, BatchInv, SweepInv, PlanInv
<1>10. SegsInv
  <2>1. Starts = <<0>>
    BY <1>5, <1>8, OneBase, FileTypes DEF Starts
  <2>2. \A i, j \in 1..Len(Names) : Names[i] = Names[j] => i = j
    BY <1>5
  <2>3. \A i \in 1..Len(Names) : Names[i] < manifest.next_id
    BY <1>5
  <2> QED
    BY <1>1, <1>2, <1>3, <1>4, <1>5, <1>6, <2>1, <2>2, <2>3 DEF SegsInv
<1>11. CertainInv
    BY <1>2, <1>4, <1>5, <1>6, <1>7 DEF CertainInv
<1>12. \A t : Held(<<>>, t)
    BY DEF Held, Backed
<1>13. RowsInv
    BY <1>7, <1>12 DEF RowsInv
<1>14. Unwound = <<>>
    BY <1>2, <1>3, <1>7 DEF Unwound
<1>15. \A d : Replayed(<<>>, d) = Absent
    BY ReplayedNone
<1>16. IndexInv
    BY <1>1, <1>2, <1>7, <1>14, <1>15 DEF IndexInv, WellFormed
<1>17. PromiseInv
    BY <1>1, <1>7, <1>14, <1>15 DEF PromiseInv, Absent
<1> QED
    BY <1>8, <1>9, <1>10, <1>11, <1>13, <1>16, <1>17 DEF Core

\* One step of the writer.
LEMMA CoreStep ==
    ASSUME Core, Recoverable, [Next]_vars
    PROVE  Core'
<1>1. CASE \E b \in Batches, defer \in Deferring : UpsertBegin(b, defer)
    BY <1>1, UpsertBegins
<1>2. CASE SealSkip
    BY <1>2, SealSkips
<1>3. CASE Seal
    BY <1>3, Seals
<1>4. CASE SealFails
    BY <1>4, SealFailsQuietly
<1>5. CASE UpsertData
    BY <1>5, UpsertDatas
<1>6. CASE UpsertSyncData
    BY <1>6, UpsertSyncDatas
<1>7. CASE UpsertLog
    BY <1>7, UpsertLogs
<1>8. CASE UpsertSyncLog
    BY <1>8, UpsertSyncLogs
<1>9. CASE BarrierData
    BY <1>9, BarrierDatas
<1>10. CASE BarrierLog
    BY <1>10, BarrierLogs
<1>11. CASE NoteCommitPoint
    BY <1>11, NoteCommitPoints
<1>12. CASE \E S \in SUBSET Docs, defer \in Deferring, kind \in {"delete", "sweep"} :
               DeleteBegin(kind, S, defer)
    BY <1>12, DeleteBegins
<1>13. CASE \E d \in Docs, defer \in Deferring : Reinforce(d, defer)
    BY <1>13, Reinforces
<1>14. CASE DeleteLog
    BY <1>14, DeleteLogs
<1>15. CASE SweepLog
    BY <1>15, SweepLogs
<1>16. CASE SweepDeferred
    BY <1>16, SweepDefers
<1>17. CASE Commit \/ Flush \/ Compact
    BY <1>17, CallBegins
<1>18. CASE CompactData
    BY <1>18, CompactDatas
<1>19. CASE CompactLog
    BY <1>19, CompactLogs
<1>20. CASE CompactPublish
    BY <1>20, CompactPublishes
<1>21. CASE Crash
    BY <1>21, Crashes
<1>22. CASE Open
    BY <1>22, Opens
<1>23. CASE UNCHANGED vars
    BY <1>23, Stutters
<1> QED
    BY <1>1, <1>2, <1>3, <1>4, <1>5, <1>6, <1>7, <1>8, <1>9, <1>10, <1>11, <1>12,
       <1>13, <1>14, <1>15, <1>16, <1>17, <1>18, <1>19, <1>20, <1>21, <1>22, <1>23,
       Zenon DEF Next

LEMMA CoreInvariant == Recoverable /\ Spec => [](Recoverable /\ Core)
<1>1. Init => Core
    BY CoreInit
<1>2. Recoverable /\ Core /\ [Next]_vars => Core' /\ Recoverable'
    BY CoreStep DEF Recoverable, Barriers, OneObject
<1> QED
    BY <1>1, <1>2, PTL DEF Spec

\* No crash falls between the steps of a rewrite.
LEMMA CrashApart ==
    ASSUME Core, Recoverable, CrashPossible
    PROVE  ~Rewriting
BY Regimes DEF Core, StepInv, CrashPossible, Rewriting

\* What a crash now and the open after it would find, doc by doc: what the log
\* that was left replays to, over rows that are all there.
LEMMA Found ==
    ASSUME Core, Recoverable, CrashPossible, NEW c \in CrashContents, NEW l \in log.poss, NEW d \in Docs
    PROVE  /\ ReplayDoc(l, Rows(Names, Bases(Names, c), c), d) = Replayed(l, d)
           /\ Replayed(l, d).stamp \in allowed[d]
           /\ \A r \in Replayed(l, d).rows : RowOf(Names, Bases(Names, c), c, r) = Replayed(l, d).stamp
<1>1. ~Rewriting
    BY CrashApart
<1>2. c \in Contents /\ l \in Seq(Record) /\ Backed(l, Names, c) /\ Below(l, Total(Names, c))
    BY <1>1, CrashViews
<1>3. ReplayDoc(l, Rows(Names, Bases(Names, c), c), d) = Replayed(l, d)
    BY <1>2, ReplayCounts DEF Total
<1>4. Replayed(l, d).stamp \in allowed[d]
    BY DEF Core, PromiseInv
<1>5. ASSUME NEW r \in Replayed(l, d).rows
      PROVE  RowOf(Names, Bases(Names, c), c, r) = Replayed(l, d).stamp
  <2>1. Replayed(l, d) # Absent
    BY DEF Absent
  <2>2. PICK k \in 1..Len(l) : /\ Replayed(l, d).rows = l[k].rows
                               /\ Replayed(l, d).stamp = l[k].stamp
    BY <1>2, <2>1, ReplayedIs
  <2>3. k \in DOMAIN l
    BY <1>2
  <2>4. At(Names, Bases(Names, c), c, r, l[k].stamp)
    BY <1>2, <2>2, <2>3 DEF Backed
  <2>5. r \in Nat
    BY <1>2, <2>2, <2>3, RecordRows
  <2>6. Matrix(Names, Bases(Names, c), c)
    BY <1>2, Views, SetMatrix DEF Core
  <2> QED
    BY <2>2, <2>4, <2>5, <2>6, RowOfAt
<1> QED
    BY <1>3, <1>4, <1>5

\* In the configurations that survive a crash, whatever fails and wherever the
\* process dies: a doc whose upsert, delete or sweep was reported successful is
\* recovered as that call left it, and a doc whose call has not returned as it
\* was before or after the call (Store::upsert, write_barrier, rollback,
\* replay_ops).
THEOREM AcknowledgedWritesSurvive == Recoverable /\ Spec => []AckedSurvives
<1>1. Recoverable /\ Core => AckedSurvives
  <2> SUFFICES ASSUME Recoverable, Core, CrashPossible, NEW c \in CrashContents, NEW l \in log.poss,
                      NEW d \in Docs
               PROVE  ReplayDoc(l, Rows(manifest.segments, Bases(manifest.segments, c), c), d).stamp
                        \in allowed[d]
    BY DEF AckedSurvives, Recovery
  <2> QED
    BY Found DEF Names
<1> QED
    BY <1>1, CoreInvariant, PTL

\* In the same configurations a recovered doc is served with its own vectors:
\* every row its log record names is in the segments a crash leaves and holds
\* what that record's upsert appended (the data barrier before the log's).
THEOREM RecoveredRowsAreOwn == Recoverable /\ Spec => []OwnVector
<1>1. Recoverable /\ Core => OwnVector
  <2> SUFFICES ASSUME Recoverable, Core, CrashPossible, NEW c \in CrashContents, NEW l \in log.poss,
                      NEW d \in Docs,
                      NEW r \in ReplayDoc(l, Rows(manifest.segments, Bases(manifest.segments, c), c), d).rows
               PROVE  RowOf(manifest.segments, Bases(manifest.segments, c), c, r) =
                        ReplayDoc(l, Rows(manifest.segments, Bases(manifest.segments, c), c), d).stamp
    BY DEF OwnVector, Recovery
  <2> QED
    BY Found DEF Names
<1> QED
    BY <1>1, CoreInvariant, PTL

\* And a search of the open store reads each live doc's own vector at every
\* moment outside compact, whatever append, sync or publish failed before.
THEOREM ServedRowsAreOwn == Recoverable /\ Spec => []ServedVector
<1>1. Recoverable /\ Core => ServedVector
  <2> SUFFICES ASSUME Recoverable, Core, up, op.kind # "compact", NEW d \in Docs, NEW r \in docs[d].rows
               PROVE  r < RowCount /\ RowOf(segments, base, Current, r) = docs[d].stamp
    BY DEF ServedVector
  <2>1. ~Rewriting
    BY DEF Core, StepInv, Rewriting
  <2> QED
    BY <2>1, ServedRows
<1> QED
    BY <1>1, CoreInvariant, PTL

-----------------------------------------------------------------------------
(***************************************************************************)
(* Whatever a crash leaves can be opened: it fits max_vector_bytes         *)
(***************************************************************************)

\* The vectors of the first n records of batch b.
Pairs(b, n) == UNION {{<<k, v>> : v \in 1..b[k].vecs} : k \in 1..n}

\* The rows fit, those of a batch half staged counted with what is to come.
FitsInv ==
    /\ ~Rewriting => \A t \in files[Newest].poss \cup {files[Newest].cur} :
                        Starts[Len(Names)] + Len(t) <= Capacity
    /\ Rewriting => Len(files[BASE_SEGMENT].cur) <= Capacity
    /\ op.pc = "data" =>
          /\ RowCount = op.dmark + Cardinality(Pairs(op.batch, Len(op.staged)))
          /\ op.dmark + Cardinality(Pairs(op.batch, Len(op.batch))) <= Capacity

\* A stamp is of one doc, and is at most s.
Dated(l, s) ==
    /\ \A j, k \in DOMAIN l :
          l[j].kind = "upsert" /\ l[k].kind = "upsert" /\ l[j].stamp = l[k].stamp => l[j].id = l[k].id
    /\ \A k \in DOMAIN l : l[k].stamp <= s

\* No two docs have a row in common, because no two have a stamp in common: a
\* compaction writes no more rows than there were.
StampInv ==
    /\ \A l \in log.poss \cup {log.cur} : Dated(l, stamps)
    /\ op.kind = "upsert" /\ op.pc = "seal" => Dated(log.cur, op.first)
    /\ Batching => Dated(Unwound, op.first)
    /\ op.kind = "upsert" /\ op.pc # "publish" => op.first + Len(op.batch) <= stamps
    /\ Rewriting => Dated(op.plan.log, stamps)

LEMMA DatedMore ==
    ASSUME NEW l \in Seq(Record), NEW s \in Nat, Dated(l, s), NEW z \in Nat, s <= z
    PROVE  Dated(l, z)
<1>1. \A k \in DOMAIN l : l[k] \in Record
    OBVIOUS
<1>2. \A k \in DOMAIN l : l[k].stamp \in Nat
    BY <1>1 DEF Record
<1> QED
    BY <1>2 DEF Dated

LEMMA DatedPrefix ==
    ASSUME NEW l \in Seq(Record), NEW m \in Nat, m <= Len(l), NEW s, Dated(l, s)
    PROVE  Dated(SubSeq(l, 1, m), s)
<1> DEFINE p == SubSeq(l, 1, m)
<1>1. DOMAIN p = 1..m /\ \A i \in 1..m : p[i] = l[i] /\ i \in DOMAIN l
    BY Prefix
<1> HIDE DEF p
<1>2. Dated(p, s)
    BY <1>1 DEF Dated
<1> QED
    BY <1>2 DEF p

\* A record that is no upsert has no stamp of its own; an upsert's is new.
LEMMA DatedAppend ==
    ASSUME NEW l \in Seq(Record), NEW s \in Nat, Dated(l, s), NEW y \in Record, y.stamp <= s,
           y.kind # "upsert" \/ \A k \in DOMAIN l : l[k].stamp # y.stamp
    PROVE  Dated(Append(l, y), s)
<1> DEFINE a == Append(l, y)
           n == Len(l)
<1>1. n \in Nat /\ DOMAIN l = 1..n /\ DOMAIN a = 1..(n + 1) /\ a[n + 1] = y /\ \A i \in 1..n : a[i] = l[i]
    BY AppendProperties
<1>2. \A i \in DOMAIN a : i = n + 1 \/ i \in DOMAIN l
    BY <1>1
<1> HIDE DEF a, n
<1>3. \A k \in DOMAIN a : a[k].stamp <= s
    BY <1>1, <1>2 DEF Dated
<1>4. ASSUME NEW j \in DOMAIN a, NEW k \in DOMAIN a, a[j].kind = "upsert", a[k].kind = "upsert",
             a[j].stamp = a[k].stamp
      PROVE  a[j].id = a[k].id
  <2>1. CASE j \in DOMAIN l /\ k \in DOMAIN l
    BY <1>1, <1>4, <2>1 DEF Dated
  <2>2. CASE j = n + 1
    BY <1>1, <1>2, <1>4, <2>2
  <2>3. CASE k = n + 1
    BY <1>1, <1>2, <1>4, <2>3
  <2> QED
    BY <1>2, <2>1, <2>2, <2>3
<1>5. Dated(a, s)
    BY <1>3, <1>4 DEF Dated
<1> QED
    BY <1>5 DEF a

\* A call that returns, and one that is no upsert and no compaction.
LEMMA StampsOut ==
    ASSUME \A l \in log'.poss \cup {log'.cur} : Dated(l, stamps'),
           op'.kind # "upsert" \/ op'.pc = "publish", ~Batching', ~Rewriting'
    PROVE  StampInv'
BY DEF StampInv, Batching

\* The log is as it was, or is one that was possible.
LEMMA StampsSame ==
    ASSUME Core, StampInv, stamps' = stamps,
           \A l \in log'.poss \cup {log'.cur} :
               \/ l \in log.poss \cup {log.cur}
               \/ \E m \in Nat : m <= Len(log.cur) /\ l = SubSeq(log.cur, 1, m)
               \/ \E y \in Record : y.kind # "upsert" /\ y.stamp = 0 /\ l = Append(log.cur, y)
    PROVE  \A l \in log'.poss \cup {log'.cur} : Dated(l, stamps')
<1>1. stamps \in Nat /\ log.cur \in Seq(Record) /\ Dated(log.cur, stamps)
    BY LogTypes DEF Core, Shape, StampInv
<1> SUFFICES ASSUME NEW l \in log'.poss \cup {log'.cur} PROVE Dated(l, stamps)
    OBVIOUS
<1>2. CASE l \in log.poss \cup {log.cur}
    BY <1>2 DEF StampInv
<1>3. CASE \E m \in Nat : m <= Len(log.cur) /\ l = SubSeq(log.cur, 1, m)
    BY <1>1, <1>3, DatedPrefix
<1>4. CASE \E y \in Record : y.kind # "upsert" /\ y.stamp = 0 /\ l = Append(log.cur, y)
  <2>1. PICK y \in Record : y.kind # "upsert" /\ y.stamp = 0 /\ l = Append(log.cur, y)
    BY <1>4
  <2>2. y.stamp <= stamps
    BY <1>1, <2>1
  <2> QED
    BY <1>1, <2>1, <2>2, DatedAppend
<1> QED
    BY <1>2, <1>3, <1>4

\* The log an action writes is the one it asked for or was possible before.
LEMMA LogIs ==
    ASSUME Shape, NEW f, f.cur = log.cur, \A l \in f.poss : l \in log.poss \cup {log.cur}
    PROVE  /\ \A s : log' = Wrote(f, s) =>
                 log'.cur = s /\ \A l \in log'.poss : l = s \/ l \in log.poss \cup {log.cur}
           /\ log' = Synced(f) =>
                 log'.cur = log.cur /\ \A l \in log'.poss : l = log.cur
           /\ log' = f => log'.cur = log.cur /\ \A l \in log'.poss : l \in log.poss \cup {log.cur}
<1>1. ASSUME NEW s, log' = Wrote(f, s)
      PROVE  log'.cur = s /\ \A l \in log'.poss : l = s \/ l \in log.poss \cup {log.cur}
    BY <1>1, WroteIs
<1>2. log' = Synced(f) => log'.cur = log.cur /\ \A l \in log'.poss : l = log.cur
    BY DEF Synced, File
<1> QED
    BY <1>1, <1>2

LEMMA SyncFailedLog ==
    ASSUME Shape
    PROVE  /\ SyncFailed(log).cur = log.cur
           /\ \A l \in SyncFailed(log).poss : l \in log.poss \cup {log.cur}
<1>1. log = [cur |-> log.cur, poss |-> log.poss]
    BY LogTypes
<1>2. SyncFailed(log) = [cur |-> log.cur, poss |-> log.poss \cup {log.cur}]
    BY <1>1, SyncFailedIs
<1> QED
    BY <1>2

\* The call moves on to its next step.
LEMMA Moves ==
    ASSUME OpShape, NEW x, op' = [op EXCEPT !.pc = x]
    PROVE  /\ op'.pc = x /\ op'.kind = op.kind /\ op'.batch = op.batch /\ op'.staged = op.staged
           /\ op'.dmark = op.dmark /\ op'.lmark = op.lmark /\ op'.first = op.first
           /\ op'.i = op.i /\ op'.plan = op.plan
BY DEF OpShape, Progress

\* A step of a batch that is not its last.
LEMMA BatchStamps ==
    ASSUME Core, StampInv, Batching, Batching', stamps' = stamps,
           op'.first = op.first, op'.batch = op.batch, op'.lmark = op.lmark,
           SubSeq(log'.cur, 1, op.lmark) = SubSeq(log.cur, 1, op.lmark),
           \A l \in log'.poss \cup {log'.cur} : Dated(l, stamps')
    PROVE  StampInv'
<1>1. op.kind = "upsert" /\ op.pc # "publish" /\ op'.pc # "seal" /\ ~Rewriting'
    BY DEF Core, StepInv, Batching, Rewriting
<1>2. Unwound' = Unwound
    BY DEF Unwound
<1> QED
    BY <1>1, <1>2 DEF StampInv

\* A batch takes its marks.
LEMMA MarkStamps ==
    ASSUME Core, StampInv, op.pc = "seal", op.kind = "upsert", UNCHANGED <<log, stamps>>, NEW rows,
           op' = [op EXCEPT !.pc = "data", !.dmark = rows, !.lmark = Len(log.cur)]
    PROVE  StampInv'
<1>1. OpShape /\ log.cur \in Seq(Record)
    BY LogTypes DEF Core, Shape
<1>2. /\ op'.pc = "data" /\ op'.kind = "upsert" /\ op'.batch = op.batch /\ op'.first = op.first
      /\ op'.lmark = Len(log.cur)
    BY <1>1 DEF OpShape, Progress
<1>3. Batching' /\ ~Rewriting'
    BY <1>2 DEF Batching, Rewriting
<1>4. Unwound' = log.cur
    BY <1>1, <1>2, <1>3, PrefixWhole DEF Unwound
<1> QED
    BY <1>2, <1>3, <1>4 DEF StampInv

LEMMA SealStamps ==
    ASSUME Core, Recoverable, StampInv, SealSkip \/ Seal \/ SealFails
    PROVE  StampInv'
<1>1. op.pc = "seal" /\ UNCHANGED <<log, stamps>> /\ op.kind \in {"upsert", "flush"}
    BY DEF SealSkip, Seal, SealFails, disk, aux, Core, StepInv
<1>2. CASE op' = Idle0
  <2>1. op'.kind = "none" /\ ~Batching' /\ ~Rewriting'
    BY <1>2, Returns
  <2> QED
    BY <1>1, <2>1 DEF StampInv
<1>3. CASE op' # Idle0
  <2>1. PICK rows : AfterSeal(rows)
    BY <1>3 DEF SealSkip, Seal, SealFails, Return
  <2>2. op.kind = "upsert" /\ op' = [op EXCEPT !.pc = "data", !.dmark = rows, !.lmark = Len(log.cur)]
    BY <1>1, <1>3, <2>1 DEF AfterSeal, Return
  <2> QED
    BY <1>1, <2>2, MarkStamps
<1> QED
    BY <1>2, <1>3

\* A batch is admitted: its stamps are the next ones.
LEMMA BeginStamps ==
    ASSUME Core, StampInv, NEW b \in Batches, NEW defer \in Deferring, UpsertBegin(b, defer)
    PROVE  StampInv'
<1>1. /\ log' = log /\ stamps' = stamps + Len(b)
      /\ op' = [Idle0 EXCEPT !.pc = "seal", !.kind = "upsert", !.batch = b,
                             !.barrier = barrier_now(defer), !.first = stamps]
    BY DEF UpsertBegin, disk
<1>2. op'.pc = "seal" /\ op'.kind = "upsert" /\ op'.batch = b /\ op'.first = stamps
    BY <1>1 DEF Idle0
<1>3. Len(b) \in Nat /\ stamps \in Nat /\ log.cur \in Seq(Record) /\ log.poss \in SUBSET Seq(Record)
    BY BatchType, LogTypes DEF Core, Shape
<1>4. stamps' \in Nat /\ stamps <= stamps'
    BY <1>1, <1>3
<1>5. ASSUME NEW l \in log.poss \cup {log.cur} PROVE Dated(l, stamps')
    BY <1>3, <1>4, DatedMore DEF StampInv
<1>6. ~Batching' /\ ~Rewriting'
    BY <1>2 DEF Batching, Rewriting
<1>7. Dated(log.cur, stamps)
    BY DEF StampInv
<1> QED
    BY <1>1, <1>2, <1>3, <1>5, <1>6, <1>7 DEF StampInv

\* The rows of a batch go to the active segment and are synced.
LEMMA DataStamps ==
    ASSUME Core, StampInv, UpsertData \/ UpsertSyncData
    PROVE  StampInv'
<1>1. Batching /\ UNCHANGED <<log, stamps>> /\ OpShape
    BY DEF UpsertData, UpsertSyncData, aux, Batching, Core, Shape
<1>2. \A l \in log'.poss \cup {log'.cur} : Dated(l, stamps')
    BY <1>1 DEF StampInv
<1>3. CASE op' = Idle0
    BY <1>2, <1>3, Returns, StampsOut
<1>4. CASE UpsertData /\ op' # Idle0
  <2>1. PICK x, y : op' = [op EXCEPT !.staged = Append(@, x),
                              !.pc = IF y < Len(op.batch) THEN "data"
                                     ELSE IF op.barrier THEN "dsync" ELSE "log"]
    BY <1>4 DEF UpsertData, Return
  <2>2. /\ op'.pc \in {"data", "dsync", "log"} /\ op'.first = op.first
        /\ op'.batch = op.batch /\ op'.lmark = op.lmark
    BY <1>1, <2>1 DEF OpShape, Progress
  <2>3. Batching'
    BY <2>2 DEF Batching
  <2> QED
    BY <1>1, <1>2, <2>2, <2>3, BatchStamps
<1>5. CASE UpsertSyncData /\ op' # Idle0
  <2>1. op' = [op EXCEPT !.pc = "log"]
    BY <1>5 DEF UpsertSyncData, Return
  <2>2. op'.pc = "log" /\ op'.first = op.first /\ op'.batch = op.batch /\ op'.lmark = op.lmark
    BY <1>1, <2>1, Moves
  <2>3. Batching'
    BY <2>2 DEF Batching
  <2> QED
    BY <1>1, <1>2, <2>2, <2>3, BatchStamps
<1> QED
    BY <1>3, <1>4, <1>5

\* A rollback leaves a prefix of the log or a log that was possible.
LEMMA RollbackStamps ==
    ASSUME Core, StampInv, Batching \/ op.kind = "sweep", stamps' = stamps, op' = Idle0,
           NEW f, f.cur = log.cur, \A l \in f.poss : l \in log.poss \cup {log.cur},
           log' = TruncateLog(f, op.lmark)
    PROVE  StampInv'
<1>1. op.lmark \in Nat /\ op.lmark <= Len(log.cur)
  <2>1. op.lmark \in Nat /\ Len(log.cur) \in Nat /\ op.i \in Nat
    BY OpTypes, LogTypes DEF Core, Shape
  <2> QED
    BY <2>1 DEF Core, BatchInv, SweepInv
<1>2. log' = Wrote(f, SubSeq(log.cur, 1, op.lmark))
    BY DEF TruncateLog
<1>3. \A l \in log'.poss \cup {log'.cur} :
          l \in log.poss \cup {log.cur} \/ l = SubSeq(log.cur, 1, op.lmark)
    BY <1>2, LogIs DEF Core
<1>4. \A l \in log'.poss \cup {log'.cur} : Dated(l, stamps')
    BY <1>1, <1>3, StampsSame
<1> QED
    BY <1>4, Returns, StampsOut

\* A record of the batch goes to the log: its stamp is the batch's next one.
LEMMA LogStamps ==
    ASSUME Core, StampInv, UpsertLog
    PROVE  StampInv'
<1>1. op.pc = "log" /\ Batching /\ stamps' = stamps /\ OpShape /\ op.kind = "upsert"
    BY DEF UpsertLog, Batching, Core, Shape, StepInv
<1>2. CASE rollback(log)
  <2>1. log' = TruncateLog(log, op.lmark) /\ op' = Idle0
    BY <1>2 DEF rollback, Return
  <2> QED
    BY <1>1, <2>1, RollbackStamps
<1>3. CASE ~rollback(log)
  <2>1. PICK k, r : k = op.i + 1 /\ r = op.staged[k]
    OBVIOUS
  <2>2. PICK y : y = UpsertOp(r.id, r.rows, r.stamp)
    OBVIOUS
  <2>3. /\ log' = Wrote(log, Append(log.cur, y))
        /\ op' = [op EXCEPT !.i = k, !.pc = IF k < Len(op.staged) THEN "log" ELSE "lsync"]
    BY <1>3, <2>1, <2>2 DEF UpsertLog
  <2>4. /\ op'.pc \in {"log", "lsync"} /\ op'.first = op.first /\ op'.batch = op.batch
        /\ op'.lmark = op.lmark
    BY <1>1, <2>3 DEF OpShape, Progress
  <2>5. Batching'
    BY <2>4 DEF Batching
  <2>6. /\ op.first \in Nat /\ op.i \in Nat /\ op.lmark \in Nat /\ Len(op.staged) \in Nat
        /\ DOMAIN op.staged = 1..Len(op.staged)
        /\ \A j \in DOMAIN op.staged : op.staged[j] \in StagedRecord
        /\ op.batch \in Seq([id : Docs, vecs : Nat])
    BY <1>1, OpTypes
  <2>7. /\ op.lmark <= Len(log.cur) /\ Len(log.cur) = op.lmark + op.i
        /\ \A j \in DOMAIN op.staged : op.staged[j].stamp = op.first + j
        /\ \A j \in 1..op.i : log.cur[op.lmark + j] =
              UpsertOp(op.staged[j].id, op.staged[j].rows, op.staged[j].stamp)
        /\ op.i < Len(op.staged) /\ Len(op.staged) <= Len(op.batch)
    BY <1>1 DEF Core, BatchInv
  <2>8. k \in Nat /\ k \in DOMAIN op.staged /\ r.stamp = op.first + k /\ k <= Len(op.batch)
    <3>1. k \in Nat /\ k \in DOMAIN op.staged
      BY <2>1, <2>6, <2>7
    <3>2. Len(op.batch) \in Nat
      BY <2>6
    <3>3. op.staged[k].stamp = op.first + k
      BY <2>7, <3>1, Zenon
    <3>4. k <= Len(op.batch)
      BY <2>1, <2>6, <2>7, <3>2
    <3> QED
      BY <2>1, <3>1, <3>3, <3>4
  <2>9. y \in Record /\ y.stamp = op.first + k
    <3>1. r \in StagedRecord
      BY <2>1, <2>6, <2>8
    <3> QED
      BY <2>2, <2>8, <3>1 DEF UpsertOp, Record, StagedRecord
  <2>10. stamps \in Nat /\ log.cur \in Seq(Record) /\ Dated(log.cur, stamps) /\ Len(log.cur) \in Nat
         /\ DOMAIN log.cur = 1..Len(log.cur)
    BY LogTypes DEF Core, Shape, StampInv
  <2>11. y.stamp <= stamps
    <3>1. op.first + Len(op.batch) <= stamps
      BY <1>1 DEF StampInv
    <3>2. Len(op.batch) \in Nat
      BY <2>6
    <3> QED
      BY <2>6, <2>8, <2>9, <2>10, <3>1, <3>2
  <2>12. ASSUME NEW m \in DOMAIN log.cur PROVE log.cur[m].stamp # y.stamp
    <3>1. CASE m <= op.lmark
      <4>1. PICK u : u = SubSeq(log.cur, 1, op.lmark)
        OBVIOUS
      <4>2. m \in DOMAIN u /\ u[m] = log.cur[m]
        <5>1. /\ DOMAIN u = 1..op.lmark
              /\ \A i \in 1..op.lmark : u[i] = log.cur[i]
          <6>1. op.lmark \in Nat /\ op.lmark <= Len(log.cur) /\ log.cur \in Seq(Record)
            BY <2>6, <2>7, <2>10
          <6>2. /\ DOMAIN SubSeq(log.cur, 1, op.lmark) = 1..op.lmark
                /\ \A i \in 1..op.lmark : SubSeq(log.cur, 1, op.lmark)[i] = log.cur[i]
            BY <6>1, Prefix
          <6> QED
            BY <4>1, <6>2
        <5>2. m \in 1..op.lmark
          BY <2>6, <2>10, <3>1
        <5> QED
          BY <5>1, <5>2
      <4>3. Dated(u, op.first)
        BY <1>1, <4>1 DEF StampInv, Unwound
      <4>4. log.cur[m].stamp <= op.first
        BY <4>2, <4>3 DEF Dated
      <4>5. log.cur[m].stamp \in Nat
        <5>1. log.cur[m] \in Record
          BY <2>10
        <5> QED
          BY <5>1 DEF Record
      <4> QED
        BY <2>6, <2>8, <2>9, <4>4, <4>5
    <3>2. CASE m > op.lmark
      <4>1. PICK j \in 1..op.i : m = op.lmark + j
        <5>1. m - op.lmark \in 1..op.i /\ m = op.lmark + (m - op.lmark)
          BY <2>6, <2>7, <2>10, <3>2
        <5> QED
          BY <5>1
      <4>2. log.cur[m] = UpsertOp(op.staged[j].id, op.staged[j].rows, op.staged[j].stamp)
        BY <2>7, <4>1
      <4>3. log.cur[m].stamp = op.first + j
        <5>1. log.cur[m].stamp = op.staged[j].stamp
          BY <4>2 DEF UpsertOp
        <5>2. j \in DOMAIN op.staged
          BY <2>6, <2>7
        <5> QED
          BY <2>7, <5>1, <5>2
      <4> QED
        BY <2>1, <2>6, <2>8, <2>9, <4>3
    <3> QED
      BY <2>6, <2>10, <3>1, <3>2
  <2>13. Dated(Append(log.cur, y), stamps)
    BY <2>9, <2>10, <2>11, <2>12, DatedAppend
  <2>14. /\ log'.cur = Append(log.cur, y)
         /\ \A l \in log'.poss : l = Append(log.cur, y) \/ l \in log.poss
    BY <2>3, WroteIs
  <2>15. \A l \in log'.poss \cup {log'.cur} : Dated(l, stamps')
    BY <1>1, <2>13, <2>14 DEF StampInv
  <2>16. SubSeq(log'.cur, 1, op.lmark) = SubSeq(log.cur, 1, op.lmark)
    BY <2>6, <2>7, <2>9, <2>10, <2>14, PrefixAppend
  <2> QED
    BY <1>1, <2>4, <2>5, <2>15, <2>16, BatchStamps
<1> QED
    BY <1>2, <1>3

\* The log is left alone by a call that is no batch.
LEMMA QuietStamps ==
    ASSUME StampInv, UNCHANGED <<log, stamps>>, op'.pc \in Pcs \ {"data", "dsync", "log", "lsync", "clog", "cpublish"},
           op'.kind # "upsert" \/ op'.pc = "publish"
    PROVE  StampInv'
<1>1. ~Batching' /\ ~Rewriting'
    BY DEF Batching, Rewriting
<1>2. \A l \in log'.poss \cup {log'.cur} : Dated(l, stamps')
    BY DEF StampInv
<1> QED
    BY <1>1, <1>2, StampsOut

\* A deletion or a reinforcement is appended, or the log is synced.
LEMMA AppendStamps ==
    ASSUME Core, StampInv, stamps' = stamps, op'.pc \in Pcs \ {"data", "dsync", "log", "lsync", "clog", "cpublish"},
           op'.kind # "upsert" \/ op'.pc = "publish",
           \A l \in log'.poss \cup {log'.cur} :
               \/ l \in log.poss \cup {log.cur}
               \/ \E m \in Nat : m <= Len(log.cur) /\ l = SubSeq(log.cur, 1, m)
               \/ \E y \in Record : y.kind # "upsert" /\ y.stamp = 0 /\ l = Append(log.cur, y)
    PROVE  StampInv'
<1>1. ~Batching' /\ ~Rewriting'
    BY DEF Batching, Rewriting
<1>2. \A l \in log'.poss \cup {log'.cur} : Dated(l, stamps')
    BY StampsSame
<1> QED
    BY <1>1, <1>2, StampsOut

LEMMA FailStamps ==
    ASSUME Core, StampInv, stamps' = stamps, NEW f, FailBarrier(f), f.cur = log.cur,
           \A l \in f.poss : l \in log.poss \cup {log.cur}
    PROVE  StampInv'
<1>1. op' = Idle0
    BY DEF FailBarrier, Return
<1>2. CASE op.kind = "sweep"
  <2>1. log' = TruncateLog(f, op.lmark)
    BY <1>2 DEF FailBarrier
  <2> QED
    BY <1>1, <1>2, <2>1, RollbackStamps
<1>3. CASE op.kind # "sweep"
  <2>1. log' = f
    BY <1>3 DEF FailBarrier
  <2>2. \A l \in log'.poss \cup {log'.cur} : l \in log.poss \cup {log.cur}
    BY <2>1
  <2>3. op'.pc = "idle" /\ op'.kind = "none"
    BY <1>1, Returns
  <2> QED
    BY <2>2, <2>3, AppendStamps DEF Pcs
<1> QED
    BY <1>2, <1>3

\* The log of a batch is synced or left to a later barrier.
LEMMA SyncLogStamps ==
    ASSUME Core, StampInv, UpsertSyncLog
    PROVE  StampInv'
<1>1. op.pc = "lsync" /\ Batching /\ stamps' = stamps /\ OpShape /\ Shape
    BY DEF UpsertSyncLog, Batching, Core, Shape
<1>2. CASE rollback(SyncFailed(log))
  <2>1. log' = TruncateLog(SyncFailed(log), op.lmark) /\ op' = Idle0
    BY <1>2 DEF rollback, Return
  <2> QED
    BY <1>1, <2>1, SyncFailedLog, RollbackStamps
<1>3. CASE ~rollback(SyncFailed(log))
  <2>1. log' = Synced(log) \/ log' = log
    BY <1>3 DEF UpsertSyncLog
  <2>2. \A l \in log'.poss \cup {log'.cur} : l \in log.poss \cup {log.cur}
    BY <2>1 DEF Synced, File
  <2>3. op' = [op EXCEPT !.pc = "publish"] \/ op' = Idle0
    BY <1>3 DEF UpsertSyncLog
  <2>4. op'.pc = "publish" \/ (op'.pc = "idle" /\ op'.kind = "none")
    BY <1>1, <2>3, Moves, Returns
  <2> QED
    BY <1>1, <2>2, <2>4, AppendStamps DEF Pcs
<1> QED
    BY <1>2, <1>3

\* The barrier and the commit point add no record.
LEMMA BarrierStamps ==
    ASSUME Core, StampInv, BarrierData \/ BarrierLog \/ NoteCommitPoint
    PROVE  StampInv'
<1>1. stamps' = stamps /\ OpShape /\ Shape /\ op.pc \in {"bdata", "blog", "publish"}
    BY DEF BarrierData, BarrierLog, NoteCommitPoint, aux, Core, Shape
<1>2. CASE FailBarrier(log)
    BY <1>1, <1>2, FailStamps
<1>3. CASE FailBarrier(SyncFailed(log))
    BY <1>1, <1>3, SyncFailedLog, FailStamps
<1>4. CASE BarrierData /\ ~FailBarrier(log)
  <2>1. op' = [op EXCEPT !.pc = "blog"] /\ log' = log
    BY <1>4 DEF BarrierData
  <2>2. op'.pc = "blog" /\ op'.kind # "upsert"
    <3>1. op.kind # "upsert"
      BY <1>4 DEF BarrierData, Core, StepInv
    <3> QED
      BY <1>1, <2>1, <3>1, Moves
  <2> QED
    BY <1>1, <2>1, <2>2, QuietStamps DEF Pcs
<1>5. CASE BarrierLog /\ ~FailBarrier(SyncFailed(log))
  <2>1. op' = [op EXCEPT !.pc = "publish"] /\ log' = Synced(log)
    BY <1>5 DEF BarrierLog
  <2>2. op'.pc = "publish"
    BY <1>1, <2>1, Moves
  <2>3. \A l \in log'.poss \cup {log'.cur} : l \in log.poss \cup {log.cur}
    BY <2>1 DEF Synced, File
  <2> QED
    BY <1>1, <2>2, <2>3, AppendStamps DEF Pcs
<1>6. CASE NoteCommitPoint /\ ~FailBarrier(log)
  <2>1. log' = log /\ Finish
    BY <1>6 DEF NoteCommitPoint
  <2>2. op' = Idle0 \/ (op.kind = "flush" /\ op' = [op EXCEPT !.pc = "seal"])
    BY <2>1, Zenon DEF Finish, Return
  <2>3. (op'.pc = "seal" /\ op'.kind = "flush") \/ (op'.pc = "idle" /\ op'.kind = "none")
    BY <1>1, <2>2, Moves, Returns
  <2> QED
    BY <1>1, <2>1, <2>3, QuietStamps DEF Pcs
<1> QED
    BY <1>2, <1>3, <1>4, <1>5, <1>6

LEMMA BeginsStamps ==
    ASSUME Core, StampInv,
           \/ \E S \in SUBSET Docs, defer \in Deferring, kind \in {"delete", "sweep"} :
                 DeleteBegin(kind, S, defer)
           \/ Commit \/ Flush \/ Compact \/ SweepDeferred \/ CompactPublish
    PROVE  StampInv'
<1>1. UNCHANGED <<log, stamps>>
    BY DEF DeleteBegin, Commit, Flush, Compact, SweepDeferred, CompactPublish, disk, aux
<1>2. CASE \E S \in SUBSET Docs, defer \in Deferring, kind \in {"delete", "sweep"} :
              DeleteBegin(kind, S, defer)
  <2>1. PICK kind \in {"delete", "sweep"} : \E x, b :
           op' = [Idle0 EXCEPT !.pc = IF kind = "sweep" THEN "slog" ELSE "dlog", !.kind = kind,
                     !.staged = x, !.lmark = Len(log.cur), !.barrier = b]
    BY <1>2, Zenon DEF DeleteBegin
  <2>2. op'.pc \in {"slog", "dlog"} /\ op'.kind = kind
    BY <2>1 DEF Idle0
  <2> QED
    BY <1>1, <2>2, QuietStamps DEF Pcs
<1>3. CASE Commit \/ Flush \/ Compact
  <2>1. op'.pc \in {"bdata", "crows"} /\ op'.kind \in {"commit", "flush", "compact"}
    BY <1>3 DEF Commit, Flush, Compact, Idle0
  <2> QED
    BY <1>1, <2>1, QuietStamps DEF Pcs
<1>4. CASE SweepDeferred \/ CompactPublish
  <2>1. op' = Idle0
    BY <1>4 DEF SweepDeferred, CompactPublish, Return
  <2>2. op'.pc = "idle" /\ op'.kind = "none"
    BY <2>1, Returns
  <2> QED
    BY <1>1, <2>2, QuietStamps DEF Pcs
<1> QED
    BY <1>2, <1>3, <1>4

\* The records of a delete, a sweep and a reinforcement have no stamp.
LEMMA DeleteStamps ==
    ASSUME Core, StampInv, DeleteLog \/ SweepLog
    PROVE  StampInv'
<1>1. /\ stamps' = stamps /\ OpShape /\ Shape /\ op.pc \in {"dlog", "slog"}
      /\ op.kind \in {"delete", "sweep"}
    BY DEF DeleteLog, SweepLog, Core, Shape, StepInv
<1>2. PICK k, d : k = op.i + 1 /\ d = op.staged[k].id
    OBVIOUS
<1>3. op.i \in Nat /\ op.i < Len(op.staged) /\ DOMAIN op.staged = 1..Len(op.staged)
      /\ Len(op.staged) \in Nat
      /\ \A j \in DOMAIN op.staged : op.staged[j].id \in Docs
  <2>1. op.i < Len(op.staged)
    BY <1>1 DEF Core, BeginInv, SweepInv, StepInv
  <2> QED
    BY <1>1, <2>1, OpTypes
<1>4. d \in Docs
    BY <1>2, <1>3
<1>5. DeleteOp(d) \in Record /\ DeleteOp(d).kind = "delete" /\ DeleteOp(d).stamp = 0
    BY <1>4 DEF DeleteOp, Record
<1>6. \/ log' = Wrote(log, Append(log.cur, DeleteOp(d)))
      \/ log' = TruncateLog(log, op.lmark) /\ op' = Idle0 /\ op.kind = "sweep"
      \/ log' = log
    BY <1>1, <1>2 DEF DeleteLog, SweepLog, Return, Core, StepInv
<1>7. CASE log' = TruncateLog(log, op.lmark) /\ op' = Idle0 /\ op.kind = "sweep"
    BY <1>1, <1>7, RollbackStamps
<1>8. CASE log' = log \/ log' = Wrote(log, Append(log.cur, DeleteOp(d)))
  <2>1. \A l \in log'.poss \cup {log'.cur} :
            l \in log.poss \cup {log.cur} \/ l = Append(log.cur, DeleteOp(d))
    <3>1. CASE log' = log
      BY <3>1
    <3>2. CASE log' = Wrote(log, Append(log.cur, DeleteOp(d)))
      <4>1. PICK a : a = Append(log.cur, DeleteOp(d))
        OBVIOUS
      <4>2. log'.cur = a /\ \A l \in log'.poss : l = a \/ l \in log.poss
        <5>1. log' = Wrote(log, a)
          BY <3>2, <4>1
        <5> QED
          BY <5>1, WroteIs
      <4> QED
        BY <4>1, <4>2
    <3> QED
      BY <1>8, <3>1, <3>2
  <2>2. \/ op' = Idle0
        \/ op' = [op EXCEPT !.i = k]
        \/ \E x \in {"slog", "bdata", "sweep"} : op' = [op EXCEPT !.i = k, !.pc = x]
        \/ op' = [op EXCEPT !.pc = "bdata"]
    <3>1. CASE DeleteLog
      BY <1>2, <3>1 DEF DeleteLog, Return
    <3>2. CASE SweepLog
      BY <1>2, <3>2 DEF SweepLog, Return
    <3> QED
      BY <3>1, <3>2
  <2>3. /\ op'.pc \in {"idle", "dlog", "slog", "bdata", "sweep"}
        /\ op'.kind \in {"none", "delete", "sweep"}
    <3>1. CASE op' = Idle0
      BY <3>1, Returns
    <3>2. CASE op' # Idle0
      BY <1>1, <2>2, <3>2 DEF OpShape, Progress
    <3> QED
      BY <3>1, <3>2
  <2> QED
    BY <1>1, <1>5, <2>1, <2>3, AppendStamps DEF Pcs
<1> QED
    BY <1>6, <1>7, <1>8

LEMMA ReinforceStamps ==
    ASSUME Core, StampInv, NEW d \in Docs, NEW defer \in Deferring, Reinforce(d, defer)
    PROVE  StampInv'
<1>1. /\ stamps' = stamps /\ Shape /\ Idle /\ docs[d].acc \in Nat
      /\ op.pc = "idle" /\ op.kind = "none"
  <2>1. stamps' = stamps /\ Idle /\ Shape
    BY DEF Reinforce, Call, Core
  <2>2. docs[d] \in Indexed
    BY <2>1 DEF Shape
  <2> QED
    BY <2>1, <2>2, IdleFacts DEF Indexed
<1>2. PICK y : y = ReinforceOp(d, docs[d].acc + 1)
    OBVIOUS
<1>3. y \in Record /\ y.kind = "reinforce" /\ y.stamp = 0
    BY <1>1, <1>2 DEF ReinforceOp, Record
<1>4. PICK w : w = Wrote(log, Append(log.cur, y))
    OBVIOUS
<1>5. w.cur = Append(log.cur, y) /\ \A l \in w.poss : l = Append(log.cur, y) \/ l \in log.poss
    BY <1>4, WroteIs
<1>6. op' = op \/ op' = [Idle0 EXCEPT !.pc = "publish", !.kind = "reinforce"]
    BY DEF Reinforce
<1>7. op'.pc \in {"idle", "publish"} /\ op'.kind \in {"none", "reinforce"}
    BY <1>1, <1>6 DEF Idle0
<1>8. \/ log' = Synced(w) \/ log' = w \/ log' = log
      \/ log' = TruncateLog(SyncFailed(w), Len(log.cur))
    BY <1>2, <1>4 DEF Reinforce
<1>9. SyncFailed(w).poss = w.poss \cup {w.cur} /\ SyncFailed(w).cur = w.cur
  <2>1. w = [cur |-> w.cur, poss |-> w.poss]
    BY <1>4, WroteIs
  <2>2. SyncFailed(w) = [cur |-> w.cur, poss |-> w.poss \cup {w.cur}]
    BY <2>1, SyncFailedIs
  <2> QED
    BY <2>2
<1>10. SubSeq(Append(log.cur, y), 1, Len(log.cur)) = log.cur
  <2>1. log.cur \in Seq(Record) /\ Len(log.cur) \in Nat /\ Len(log.cur) <= Len(log.cur)
    BY <1>1, LogTypes
  <2> QED
    BY <1>3, <2>1, PrefixAppend, PrefixWhole
<1>11. \A l \in log'.poss \cup {log'.cur} :
           l \in log.poss \cup {log.cur} \/ l = Append(log.cur, y)
  <2>1. CASE log' = Synced(w) \/ log' = w \/ log' = log
    BY <1>5, <2>1 DEF Synced, File
  <2>2. CASE log' = TruncateLog(SyncFailed(w), Len(log.cur))
    <3>1. log' = Wrote(SyncFailed(w), log.cur)
      BY <1>5, <1>9, <1>10, <2>2 DEF TruncateLog
    <3>2. log'.cur = log.cur /\ \A l \in log'.poss : l = log.cur \/ l \in SyncFailed(w).poss
      BY <3>1, WroteIs
    <3> QED
      BY <1>5, <1>9, <3>2
  <2> QED
    BY <1>8, <2>1, <2>2
<1> QED
    BY <1>1, <1>3, <1>7, <1>11, AppendStamps DEF Pcs

\* Live docs have stamps, each its own.
LEMMA DocsDated ==
    ASSUME Core, StampInv, up, ~Rewriting, Unwound = log.cur
    PROVE  /\ \A d \in Docs : docs[d] = Absent \/ docs[d].stamp \in Nat \ {0}
           /\ \A d \in LiveDocs : docs[d].stamp <= stamps
           /\ \A d, e \in LiveDocs : docs[d].stamp = docs[e].stamp => d = e
<1>1. Absent.stamp = 0
    BY DEF Absent
<1>2. log.cur \in Seq(Record) /\ WellFormed(log.cur) /\ Dated(log.cur, stamps)
    BY LogTypes DEF Core, IndexInv, StampInv
<1>3. ASSUME NEW d \in Docs, docs[d] # Absent
      PROVE  \E k \in DOMAIN log.cur : /\ log.cur[k].id = d /\ log.cur[k].kind = "upsert"
                                       /\ docs[d].stamp = log.cur[k].stamp
                                       /\ log.cur[k].stamp \in Nat \ {0}
  <2>1. docs[d] = Replayed(log.cur, d)
    BY <1>3 DEF Core, IndexInv
  <2>2. PICK k \in 1..Len(log.cur) : /\ log.cur[k].id = d /\ log.cur[k].kind = "upsert"
                                     /\ docs[d].stamp = log.cur[k].stamp
    BY <1>2, <1>3, <2>1, ReplayedIs
  <2>3. k \in DOMAIN log.cur /\ log.cur[k] \in Record
    BY <1>2, <2>2
  <2>4. log.cur[k].stamp > 0 /\ log.cur[k].stamp \in Nat
    BY <1>2, <2>2, <2>3 DEF WellFormed, Record
  <2> QED
    BY <2>2, <2>3, <2>4
<1>4. \A d \in Docs : docs[d] = Absent \/ docs[d].stamp \in Nat \ {0}
    BY <1>3
<1>5. \A d \in LiveDocs : d \in Docs /\ docs[d] # Absent
    BY <1>1 DEF LiveDocs
<1>6. \A d \in LiveDocs : docs[d].stamp <= stamps
  <2> TAKE d \in LiveDocs
  <2>1. PICK k \in DOMAIN log.cur : docs[d].stamp = log.cur[k].stamp
    BY <1>3, <1>5
  <2> QED
    BY <1>2, <2>1 DEF Dated
<1>7. \A d, e \in LiveDocs : docs[d].stamp = docs[e].stamp => d = e
  <2> TAKE d, e \in LiveDocs
  <2> HAVE docs[d].stamp = docs[e].stamp
  <2>1. PICK k \in DOMAIN log.cur : /\ log.cur[k].id = d /\ log.cur[k].kind = "upsert"
                                    /\ docs[d].stamp = log.cur[k].stamp
    BY <1>3, <1>5
  <2>2. PICK j \in DOMAIN log.cur : /\ log.cur[j].id = e /\ log.cur[j].kind = "upsert"
                                    /\ docs[e].stamp = log.cur[j].stamp
    BY <1>3, <1>5
  <2> QED
    BY <1>2, <2>1, <2>2 DEF Dated
<1> QED
    BY <1>4, <1>6, <1>7

\* The log of a compaction keeps the stamps of the live docs.
LEMMA PlanDated ==
    ASSUME Core, StampInv, up, ~Rewriting, Unwound = log.cur,
           NEW place, NEW order \in Orders(LiveDocs)
    PROVE  Dated(CompactedLog(place, order), stamps)
<1>1. \A k \in DOMAIN order : order[k] \in LiveDocs
  <2>1. LiveDocs \in SUBSET Docs
    BY DEF LiveDocs
  <2> QED
    BY <2>1, OrderFacts
<1>2. PICK m : m = [d \in Docs |-> Relocated(place)[d].rows]
    OBVIOUS
<1>3. PICK l : l = CompactedLog(place, order)
    OBVIOUS
<1>4. /\ DOMAIN l = DOMAIN order
      /\ \A k \in DOMAIN order :
            l[k] = [UpsertOp(order[k], Relocated(place)[order[k]].rows, docs[order[k]].stamp)
                       EXCEPT !.acc = docs[order[k]].acc]
    BY <1>3, Zenon DEF CompactedLog
<1>5. ASSUME NEW k \in DOMAIN order
      PROVE  l[k].id = order[k] /\ l[k].stamp = docs[order[k]].stamp
  <2>1. PICK rows : rows = Relocated(place)[order[k]].rows
    OBVIOUS
  <2>2. l[k] = [UpsertOp(order[k], rows, docs[order[k]].stamp) EXCEPT !.acc = docs[order[k]].acc]
    BY <1>4, <2>1, Zenon
  <2> QED
    BY <2>2 DEF UpsertOp
<1>6. Dated(l, stamps)
    BY <1>1, <1>4, <1>5, DocsDated DEF Dated
<1> QED
    BY <1>3, <1>6

LEMMA CompactStamps ==
    ASSUME Core, Recoverable, StampInv, CompactData \/ CompactLog
    PROVE  StampInv'
<1>1. stamps' = stamps /\ op.kind = "compact" /\ OpShape /\ up
    BY DEF CompactData, CompactLog, aux, Core, StepInv, Shape
<1>2. CASE op' = Idle0
  <2>1. log' = log \/ log' = File(op.plan.log)
    BY DEF CompactData, CompactLog
  <2>2. op'.pc = "idle" /\ op'.kind = "none" /\ op' # [op EXCEPT !.pc = "cpublish"]
    <3>1. op'.pc = "idle" /\ op'.kind = "none"
      BY <1>2, Returns
    <3> QED
      BY <1>1, <3>1, Moves
  <2>3. log' = log
    BY <2>2 DEF CompactData, CompactLog
  <2> QED
    BY <1>1, <2>2, <2>3, QuietStamps DEF Pcs
<1>3. CASE CompactData /\ op' # Idle0
  <2>0. PICK order \in Orders(LiveDocs) : \E place \in [LiveRows -> 0..(Cardinality(LiveRows) - 1)] :
           op' = [op EXCEPT !.pc = "clog",
                        !.plan = [docs |-> Relocated(place), log |-> CompactedLog(place, order),
                                  dropped |-> {segments[i] : i \in 2..Len(segments)}]]
    BY <1>3, Zenon DEF CompactData, Return
  <2>1. PICK place, x, y :
           op' = [op EXCEPT !.pc = "clog",
                        !.plan = [docs |-> x, log |-> CompactedLog(place, order), dropped |-> y]]
    BY <2>0, Zenon
  <2>2. op'.pc = "clog" /\ op'.kind = "compact" /\ op'.plan.log = CompactedLog(place, order)
    BY <1>1, <2>1 DEF OpShape, Progress
  <2>3. log' = log /\ op.pc = "crows"
    BY <1>3 DEF CompactData
  <2>4. ~Rewriting /\ ~Batching /\ ~Batching'
    BY <2>2, <2>3 DEF Rewriting, Batching
  <2>5. Unwound = log.cur
    BY <1>1, <2>4, UnwoundIs
  <2>6. Dated(op'.plan.log, stamps)
    BY <1>1, <2>2, <2>4, <2>5, PlanDated
  <2> QED
    BY <1>1, <2>2, <2>3, <2>4, <2>6 DEF StampInv
<1>4. CASE CompactLog /\ op' # Idle0
  <2>1. log' = File(op.plan.log) /\ op' = [op EXCEPT !.pc = "cpublish"] /\ Rewriting
    BY <1>4 DEF CompactLog, Return, Rewriting
  <2>2. op'.pc = "cpublish" /\ op'.kind = "compact" /\ op'.plan = op.plan
    BY <1>1, <2>1, Moves
  <2>3. ~Batching'
    BY <2>2 DEF Batching
  <2>4. log'.cur = op.plan.log /\ log'.poss = {op.plan.log}
    BY <2>1 DEF File
  <2> QED
    BY <1>1, <2>1, <2>2, <2>3, <2>4 DEF StampInv
<1> QED
    BY <1>2, <1>3, <1>4

LEMMA CrashStamps ==
    ASSUME Core, StampInv, Crash \/ Open \/ UNCHANGED vars
    PROVE  StampInv'
<1>1. CASE Crash
  <2>1. PICK s \in log.poss : log' = File(s)
    BY <1>1 DEF Crash, AfterCrash
  <2>2. log'.cur = s /\ log'.poss = {s} /\ stamps' = stamps /\ op' = Idle0
    BY <1>1, <2>1 DEF Crash, File, Return
  <2>3. op'.pc = "idle" /\ op'.kind = "none"
    BY <2>2, Returns
  <2> QED
    BY <2>2, <2>3, AppendStamps DEF Pcs
<1>2. CASE Open \/ UNCHANGED vars
  <2>1. UNCHANGED <<log, op, stamps>>
    BY <1>2 DEF Open, vars, disk, aux
  <2>2. (Batching' <=> Batching) /\ (Rewriting' <=> Rewriting) /\ Unwound' = Unwound
    BY <2>1 DEF Batching, Rewriting, Unwound
  <2> QED
    BY <2>1, <2>2 DEF StampInv
<1> QED
    BY <1>1, <1>2

LEMMA StampStep ==
    ASSUME Core, Recoverable, StampInv, [Next]_vars
    PROVE  StampInv'
<1>1. CASE \E b \in Batches, defer \in Deferring : UpsertBegin(b, defer)
    BY <1>1, BeginStamps
<1>2. CASE SealSkip \/ Seal \/ SealFails
    BY <1>2, SealStamps
<1>3. CASE UpsertData \/ UpsertSyncData
    BY <1>3, DataStamps
<1>4. CASE UpsertLog
    BY <1>4, LogStamps
<1>5. CASE UpsertSyncLog
    BY <1>5, SyncLogStamps
<1>6. CASE BarrierData \/ BarrierLog \/ NoteCommitPoint
    BY <1>6, BarrierStamps
<1>7. CASE \/ \E S \in SUBSET Docs, defer \in Deferring, kind \in {"delete", "sweep"} :
                 DeleteBegin(kind, S, defer)
           \/ Commit \/ Flush \/ Compact \/ SweepDeferred \/ CompactPublish
    BY <1>7, BeginsStamps
<1>8. CASE \E d \in Docs, defer \in Deferring : Reinforce(d, defer)
    BY <1>8, ReinforceStamps
<1>9. CASE DeleteLog \/ SweepLog
    BY <1>9, DeleteStamps
<1>10. CASE CompactData \/ CompactLog
    BY <1>10, CompactStamps
<1>11. CASE Crash \/ Open \/ UNCHANGED vars
    BY <1>11, CrashStamps
<1> QED
    BY <1>1, <1>2, <1>3, <1>4, <1>5, <1>6, <1>7, <1>8, <1>9, <1>10, <1>11, Zenon DEF Next

-----------------------------------------------------------------------------
(* The rows a batch adds *)

LEMMA UptoCount ==
    ASSUME NEW m \in Nat
    PROVE  IsFiniteSet(1..m) /\ Cardinality(1..m) = m
<1>1. IsFiniteSet(1..m) /\ Cardinality(1..m) = IF 1 > m THEN 0 ELSE m - 1 + 1
    BY FS_Interval
<1> QED
    BY <1>1

LEMMA ColumnCount ==
    ASSUME NEW k, NEW m \in Nat
    PROVE  IsFiniteSet({k} \X (1..m)) /\ Cardinality({k} \X (1..m)) = m
<1>1. IsFiniteSet(1..m) /\ Cardinality(1..m) = m
    BY UptoCount
<1>2. IsFiniteSet({k}) /\ Cardinality({k}) = 1
    BY FS_Singleton
<1>3. IsFiniteSet({k} \X (1..m)) /\ Cardinality({k} \X (1..m)) = 1 * m
    BY <1>1, <1>2, FS_Product, ZenonT(30)
<1> QED
    BY <1>3

LEMMA ApartCount ==
    ASSUME NEW S, NEW T, IsFiniteSet(S), IsFiniteSet(T), S \cap T = {}
    PROVE  IsFiniteSet(S \cup T) /\ Cardinality(S \cup T) = Cardinality(S) + Cardinality(T)
<1>1. /\ IsFiniteSet(S \cup T)
      /\ Cardinality(S \cup T) = Cardinality(S) + Cardinality(T) - Cardinality({})
    BY FS_Union
<1>2. Cardinality({}) = 0 /\ Cardinality(S) \in Nat /\ Cardinality(T) \in Nat
    BY FS_EmptySet, FS_CardinalityType
<1> QED
    BY <1>1, <1>2

LEMMA PairsAre ==
    ASSUME NEW b, NEW n, NEW x
    PROVE  x \in Pairs(b, n) <=> \E j \in 1..n : \E v \in 1..b[j].vecs : x = <<j, v>>
BY DEF Pairs

LEMMA PairsStep ==
    ASSUME NEW b \in Seq([id : Docs, vecs : Nat]), NEW n \in Nat, n + 1 <= Len(b),
           IsFiniteSet(Pairs(b, n))
    PROVE  /\ IsFiniteSet(Pairs(b, n + 1))
           /\ Cardinality(Pairs(b, n + 1)) = Cardinality(Pairs(b, n)) + b[n + 1].vecs
<1>0. PICK k, m, old, new : k = n + 1 /\ m = b[k].vecs /\ old = Pairs(b, n) /\ new = {k} \X (1..m)
    OBVIOUS
<1>1. k \in Nat /\ b[k] \in [id : Docs, vecs : Nat]
  <2>1. k \in 1..Len(b) /\ k \in Nat
    <3>1. Len(b) \in Nat
      BY LenProperties
    <3> QED
      BY <1>0, <3>1
  <2> QED
    BY <2>1, ElementOfSeq
<1>2. m \in Nat
    BY <1>0, <1>1
<1>3. Pairs(b, n + 1) = old \cup new
  <2>1. 1..(n + 1) = 1..n \cup {k}
    BY <1>0
  <2>3. \A x : x \in new <=> \E v \in 1..b[k].vecs : x = <<k, v>>
    BY <1>0
  <2>4. ASSUME NEW x PROVE x \in Pairs(b, n + 1) <=> x \in old \/ x \in new
    <3>1. x \in Pairs(b, n + 1) <=> \E j \in 1..(n + 1) : \E v \in 1..b[j].vecs : x = <<j, v>>
      BY PairsAre
    <3>2. x \in Pairs(b, n) <=> \E j \in 1..n : \E v \in 1..b[j].vecs : x = <<j, v>>
      BY DEF Pairs
    <3>3. \A j : j \in 1..(n + 1) <=> j \in 1..n \/ j = k
      BY <2>1
    <3> QED
      BY <1>0, <2>3, <3>1, <3>2, <3>3, ZenonT(30)
  <2> QED
    BY <2>4
<1>4. old \cap new = {}
  <2>1. \A x \in old : \E j \in 1..n : x[1] = j
    BY <1>0 DEF Pairs
  <2>2. \A x \in new : x[1] = k
    BY <1>0
  <2>3. k \notin 1..n
    BY <1>0
  <2> QED
    BY <2>1, <2>2, <2>3
<1>5. IsFiniteSet(new) /\ Cardinality(new) = m
    BY <1>0, <1>2, ColumnCount
<1>6. IsFiniteSet(old)
    BY <1>0
<1>7. /\ IsFiniteSet(old \cup new)
      /\ Cardinality(old \cup new) = Cardinality(old) + Cardinality(new)
    BY <1>4, <1>5, <1>6, ApartCount
<1> QED
    BY <1>0, <1>3, <1>5, <1>7

LEMMA PairsFinite ==
    ASSUME NEW b \in Seq([id : Docs, vecs : Nat])
    PROVE  /\ Pairs(b, 0) = {}
           /\ \A n \in 0..Len(b) : IsFiniteSet(Pairs(b, n)) /\ Cardinality(Pairs(b, n)) \in Nat
           /\ \A n \in 0..Len(b) : Cardinality(Pairs(b, n)) <= Cardinality(Pairs(b, Len(b)))
<1> DEFINE T == {n \in Nat : n \in 0..Len(b) /\ ~IsFiniteSet(Pairs(b, n))}
<1>1. Len(b) \in Nat
    BY LenProperties
<1>2. Pairs(b, 0) = {}
  <2>1. 1..0 = {}
    OBVIOUS
  <2> QED
    BY <2>1 DEF Pairs
<1>3. T = {}
  <2> SUFFICES ASSUME T # {} PROVE FALSE
    OBVIOUS
  <2>1. PICK k \in T : \A j \in T : k <= j
    BY LeastNat
  <2>2. k # 0
    BY <1>2, FS_EmptySet
  <2>3. k - 1 \in 0..Len(b) /\ k - 1 \in Nat /\ (k - 1) + 1 = k /\ k <= Len(b)
    BY <1>1, <2>2
  <2>4. IsFiniteSet(Pairs(b, k - 1))
    BY <2>1, <2>3
  <2> QED
    BY <2>3, <2>4, PairsStep
<1>4. \A n \in 0..Len(b) : IsFiniteSet(Pairs(b, n))
    BY <1>1, <1>3
<1>5. ASSUME NEW n \in 0..Len(b)
      PROVE Cardinality(Pairs(b, n)) \in Nat /\ Cardinality(Pairs(b, n)) <= Cardinality(Pairs(b, Len(b)))
  <2>1. Pairs(b, n) \subseteq Pairs(b, Len(b))
    <3>1. 1..n \subseteq 1..Len(b)
      BY <1>1
    <3> QED
      BY <3>1, SMTT(30) DEF Pairs
  <2>2. Len(b) \in 0..Len(b)
    BY <1>1
  <2> QED
    BY <1>4, <2>1, <2>2, FS_Subset, FS_CardinalityType
<1> QED
    BY <1>2, <1>4, <1>5

-----------------------------------------------------------------------------
(* A step that adds no row *)

LEMMA FitsQuiet ==
    ASSUME FitsInv, files' = files, manifest'.segments = manifest.segments, op'.pc # "data",
           Rewriting' <=> Rewriting
    PROVE  FitsInv'
BY DiskSame DEF FitsInv

LEMMA FitsActive ==
    ASSUME Core, ~Rewriting', manifest'.segments = manifest.segments, op'.pc # "data",
           NEW c \in Seq(Nat), NEW p \in SUBSET Seq(Nat),
           files' = [files EXCEPT ![Newest] = [cur |-> c, poss |-> p]],
           \A t \in p \cup {c} : Starts[Len(Names)] + Len(t) <= Capacity
    PROVE  FitsInv'
<1>1. /\ Names' = Names /\ Newest' = Newest /\ Starts' = Starts
      /\ files'[Newest].cur = c /\ files'[Newest].poss = p
    BY ActiveChanged DEF Core
<1> QED
    BY <1>1 DEF FitsInv

LEMMA FitsSynced ==
    ASSUME Core, FitsInv, up, ~Rewriting, ~Rewriting', manifest'.segments = manifest.segments,
           op'.pc # "data",
           files' = [files EXCEPT ![Active] = Synced(@)] \/ files' = [files EXCEPT ![Active] = SyncFailed(@)]
    PROVE  FitsInv'
<1>1. /\ Active = Newest /\ Newest \in SegName /\ files[Newest].cur \in Seq(Nat)
      /\ files[Newest].poss \in SUBSET Seq(Nat)
      /\ files[Newest] = [cur |-> files[Newest].cur, poss |-> files[Newest].poss]
    BY OpenViews, Views, FileTypes DEF Core, Shape
<1>2. SyncFailed(files[Newest]) = [cur |-> files[Newest].cur, poss |-> files[Newest].poss \cup {files[Newest].cur}]
    BY <1>1, SyncFailedIs
<1>3. PICK c, p : /\ c = files[Newest].cur
                  /\ p = {files[Newest].cur} \/ p = files[Newest].poss \cup {files[Newest].cur}
                  /\ files' = [files EXCEPT ![Newest] = [cur |-> c, poss |-> p]]
  <2>1. Synced(files[Newest]) = [cur |-> files[Newest].cur, poss |-> {files[Newest].cur}]
    BY DEF Synced, File
  <2>2. CASE files' = [files EXCEPT ![Active] = Synced(@)]
    <3>1. files' = [files EXCEPT ![Newest] = [cur |-> files[Newest].cur, poss |-> {files[Newest].cur}]]
      BY <1>1, <2>1, <2>2
    <3> QED
      BY <3>1, Zenon
  <2>3. CASE files' = [files EXCEPT ![Active] = SyncFailed(@)]
    <3>1. files' = [files EXCEPT ![Newest] = [cur |-> files[Newest].cur,
                                              poss |-> files[Newest].poss \cup {files[Newest].cur}]]
      BY <1>1, <1>2, <2>3
    <3> QED
      BY <3>1, Zenon
  <2> QED
    BY <2>2, <2>3
<1>4. c \in Seq(Nat) /\ p \in SUBSET Seq(Nat)
    BY <1>1, <1>3
<1>5. \A t \in p \cup {c} : Starts[Len(Names)] + Len(t) <= Capacity
    BY <1>3 DEF FitsInv
<1> QED
    BY <1>3, <1>4, <1>5, FitsActive

LEMMA WroteLeft ==
    ASSUME NEW f, NEW s, NEW t \in Wrote(f, s).poss
    PROVE  t = s \/ t \in f.poss
BY WroteIs

\* A rollback shortens the active segment.
LEMMA FitsCut ==
    ASSUME Core, FitsInv, up, Batching, manifest'.segments = manifest.segments, op' = Idle0,
           NEW f, f.cur = files[Newest].cur, \A t \in f.poss : t \in files[Newest].poss \cup {files[Newest].cur},
           NEW cut, cut = SubSeq(files[Newest].cur, 1, op.dmark - Starts[Len(Names)]),
           files' = [files EXCEPT ![Newest] = Wrote(f, cut)]
    PROVE  FitsInv'
<1>1. ~Rewriting /\ ~Rewriting' /\ op'.pc = "idle"
    BY Returns DEF Batching, Rewriting
<1>2. /\ op.dmark \in Nat /\ Newest \in SegName /\ Starts[Len(Names)] \in Nat
      /\ files[Newest].cur \in Seq(Nat) /\ files[Newest].poss \in SUBSET Seq(Nat)
      /\ Total(Names, Current) = Starts[Len(Names)] + Len(files[Newest].cur)
    BY <1>1, OpTypes, Views, FileTypes, OpenViews DEF Core, Shape
<1>3. Starts[Len(Names)] <= op.dmark /\ op.dmark <= Total(Names, Current)
    BY DEF Core, BatchInv
<1>4. PICK n : n = op.dmark - Starts[Len(Names)]
    OBVIOUS
<1>5. n \in Nat /\ n <= Len(files[Newest].cur) /\ Len(files[Newest].cur) \in Nat
    BY <1>2, <1>3, <1>4, LenProperties
<1>6. cut \in Seq(Nat) /\ Len(cut) = n
  <2>1. cut = SubSeq(files[Newest].cur, 1, n)
    BY <1>4
  <2>2. PICK z : z = files[Newest].cur
    OBVIOUS
  <2>3. z \in Seq(Nat) /\ n \in Nat /\ n <= Len(z) /\ cut = SubSeq(z, 1, n)
    BY <1>2, <1>5, <2>1, <2>2
  <2>4. SubSeq(z, 1, n) \in Seq(Nat) /\ Len(SubSeq(z, 1, n)) = n
    BY <2>3, Prefix
  <2> QED
    BY <2>3, <2>4
<1>7. PICK p : p = Wrote(f, cut).poss
    OBVIOUS
<1>8. /\ files' = [files EXCEPT ![Newest] = [cur |-> cut, poss |-> p]]
      /\ \A t \in p : t = cut \/ t \in files[Newest].poss \cup {files[Newest].cur}
  <2>1. Wrote(f, cut) = [cur |-> cut, poss |-> p]
    BY <1>7, WroteIs
  <2>2. \A t \in p : t = cut \/ t \in f.poss
    <3>1. \A t \in Wrote(f, cut).poss : t = cut \/ t \in f.poss
      BY WroteLeft
    <3> QED
      BY <1>7, <3>1
  <2> QED
    BY <2>1, <2>2
<1>9. p \in SUBSET Seq(Nat)
    BY <1>2, <1>6, <1>8
<1>10. Starts[Len(Names)] + Len(cut) <= Capacity
  <2>1. Starts[Len(Names)] + Len(files[Newest].cur) <= Capacity
    BY <1>1 DEF FitsInv
  <2> QED
    BY <1>2, <1>5, <1>6, <2>1, StoreAssumption, SMTT(30)
<1>11. \A t \in p \cup {cut} : Starts[Len(Names)] + Len(t) <= Capacity
    BY <1>1, <1>8, <1>10 DEF FitsInv
<1> QED
    BY <1>1, <1>6, <1>8, <1>9, <1>11, FitsActive

\* A batch that was found to fit takes its marks.
LEMMA FitsMarked ==
    ASSUME Core, op.pc = "seal", op.kind # "flush", NEW rows \in Nat, Fits(rows), RowCount' = rows,
           op' = [op EXCEPT !.pc = "data", !.dmark = rows, !.lmark = Len(log.cur)]
    PROVE  /\ RowCount' = op'.dmark + Cardinality(Pairs(op'.batch, Len(op'.staged)))
           /\ op'.dmark + Cardinality(Pairs(op'.batch, Len(op'.batch))) <= Capacity
           /\ ~Rewriting'
<1>1. op.kind = "upsert" /\ OpShape /\ op.batch \in Seq([id : Docs, vecs : Nat])
    BY OpTypes DEF Core, StepInv, Shape
<1>2. op'.dmark = rows /\ op'.batch = op.batch /\ op'.staged = <<>> /\ op'.pc = "data"
    BY <1>1 DEF Core, BeginInv, OpShape, Progress
<1>3. Len(op'.staged) = 0 /\ Cardinality(Pairs(op.batch, 0)) = 0
    BY <1>1, <1>2, PairsFinite, FS_EmptySet
<1>4. rows + Cardinality(Pairs(op.batch, Len(op.batch))) <= Capacity
  <2>1. DOMAIN op.batch = 1..Len(op.batch)
    BY <1>1, LenProperties
  <2> QED
    BY <2>1 DEF Fits, Pairs
<1> QED
    BY <1>2, <1>3, <1>4 DEF Rewriting

LEMMA FitsSealed ==
    ASSUME Core, Recoverable, FitsInv, SealSkip \/ Seal \/ SealFails
    PROVE  FitsInv'
<1>1. up /\ op.pc = "seal" /\ ~Rewriting
    BY DEF SealSkip, Seal, SealFails, Rewriting
<1>2. /\ RowCount \in Nat /\ RowCount = Starts[Len(Names)] + Len(files[Newest].cur)
      /\ RowCount <= Capacity /\ base \in Seq(Nat) /\ segments \in Seq(SegName)
      /\ Len(base) = Len(segments)
    BY <1>1, OpenViews DEF Core, FitsInv, Shape
<1>3. CASE SealFails
  <2>1. files' = files /\ op' = Idle0 /\ manifest' = manifest
    BY <1>1, <1>3, NextIsNew DEF SealFails, Return
  <2> QED
    BY <1>1, <2>1, Returns, FitsQuiet
<1>4. CASE SealSkip
  <2>1. UNCHANGED <<files, segments, base>> /\ manifest' = manifest /\ AfterSeal(RowCount)
    BY <1>4 DEF SealSkip, disk, ram
  <2>2. CASE op' = Idle0
    BY <1>1, <2>1, <2>2, Returns, FitsQuiet
  <2>3. CASE op' # Idle0
    <3>1. /\ op.kind # "flush" /\ Fits(RowCount)
          /\ op' = [op EXCEPT !.pc = "data", !.dmark = RowCount, !.lmark = Len(log.cur)]
      BY <2>1, <2>3 DEF AfterSeal, Return
    <3>2. RowCount' = RowCount
      BY <2>1 DEF RowCount, Current
    <3>3. PICK rows \in Nat : rows = RowCount
      BY <1>2
    <3>4. /\ RowCount' = op'.dmark + Cardinality(Pairs(op'.batch, Len(op'.staged)))
          /\ op'.dmark + Cardinality(Pairs(op'.batch, Len(op'.batch))) <= Capacity
          /\ ~Rewriting'
      BY <1>1, <3>1, <3>2, <3>3, FitsMarked
    <3> QED
      BY <1>1, <2>1, <3>4, DiskSame DEF FitsInv
  <2> QED
    BY <2>2, <2>3
<1>5. CASE Seal
  <2>1. /\ NeedsSeal /\ files' = [files EXCEPT ![next_id] = Synced(@)]
        /\ segments' = Append(segments, next_id) /\ base' = Append(base, RowCount)
    BY <1>5 DEF Seal
  <2>2. /\ next_id \in SegName /\ files[next_id] = File(<<>>) /\ files[next_id].cur = <<>>
        /\ files' = files
    BY <1>1, <2>1, NextIsNew
  <2>3. /\ manifest' = Manifest(Append(segments, next_id), next_id + 1, NextVersion)
        /\ AfterSeal(RowCount + Len(files[next_id].cur))
    <3>1. "publish" \notin Faults
      BY <2>1, Regimes, StoreAssumption DEF NeedsSeal
    <3> QED
      BY <1>5, <3>1 DEF Seal
  <2>4. Newest' = next_id /\ Starts'[Len(Names')] = RowCount
    BY <1>1, <2>1, <2>2, <2>3, SealedSegs
  <2>5. files'[next_id].cur = <<>> /\ files'[next_id].poss = {<<>>}
    BY <2>2 DEF File
  <2>6. \A t \in files'[Newest'].poss \cup {files'[Newest'].cur} : Starts'[Len(Names')] + Len(t) <= Capacity
    BY <1>2, <2>4, <2>5
  <2>7. RowCount + Len(files[next_id].cur) = RowCount
    BY <1>2, <2>2
  <2>8. RowCount' = RowCount
    <3>1. /\ Len(segments') = Len(segments) + 1 /\ segments'[Len(segments) + 1] = next_id
          /\ base'[Len(segments) + 1] = RowCount
      BY <1>2, <2>1, <2>2, AppendProperties
    <3>2. Current'[next_id] = <<>>
      BY <2>2, <2>5 DEF Current
    <3> QED
      BY <1>2, <3>1, <3>2 DEF RowCount, Rows
  <2>9. CASE op' = Idle0
    BY <2>6, <2>9, Returns DEF FitsInv
  <2>10. CASE op' # Idle0
    <3>1. /\ op.kind # "flush" /\ Fits(RowCount)
          /\ op' = [op EXCEPT !.pc = "data", !.dmark = RowCount, !.lmark = Len(log.cur)]
      BY <2>3, <2>7, <2>10 DEF AfterSeal, Return
    <3>3. PICK rows \in Nat : rows = RowCount
      BY <1>2
    <3>4. /\ RowCount' = op'.dmark + Cardinality(Pairs(op'.batch, Len(op'.staged)))
          /\ op'.dmark + Cardinality(Pairs(op'.batch, Len(op'.batch))) <= Capacity
          /\ ~Rewriting'
      BY <1>1, <2>8, <3>1, <3>3, FitsMarked
    <3> QED
      BY <2>6, <3>4 DEF FitsInv
  <2> QED
    BY <2>9, <2>10
<1> QED
    BY <1>3, <1>4, <1>5

\* The rows of one record of the batch: what was counted before.
LEMMA FitsStaged ==
    ASSUME Core, Recoverable, FitsInv, UpsertData
    PROVE  FitsInv'
<1>1. /\ up /\ op.pc = "data" /\ manifest' = manifest /\ UNCHANGED <<segments, base>>
      /\ Batching /\ ~Rewriting
    BY DEF UpsertData, ram, Batching, Rewriting
<1>2. /\ Active = Newest /\ RowCount = Starts[Len(Names)] + Len(files[Newest].cur) /\ RowCount \in Nat
      /\ base[Len(base)] = Starts[Len(Names)] /\ segments = Names /\ Len(base) = Len(segments)
      /\ Newest \in SegName /\ files[Newest].cur \in Seq(Nat) /\ files[Newest].poss \in SUBSET Seq(Nat)
      /\ Starts[Len(Names)] \in Nat
    BY <1>1, OpenViews, Views, FileTypes DEF Core
<1>3. CASE op' = Idle0
  <2>1. /\ op.pc = "data" /\ Idle0.pc = "idle" /\ OpShape
    BY <1>1 DEF Idle0, Core, Shape
  <2>2. TruncateData(op.dmark)
    <3>1. ASSUME NEW x, NEW y, op' = [op EXCEPT !.staged = x, !.pc = y] PROVE y = "idle"
      BY <1>3, <2>1, <3>1 DEF OpShape, Progress
    <3> QED
      BY <3>1 DEF UpsertData
  <2>3. PICK cut : cut = SubSeq(files[Newest].cur, 1, op.dmark - Starts[Len(Names)])
    OBVIOUS
  <2>4. files' = [files EXCEPT ![Newest] = Wrote(files[Newest], cut)]
    BY <1>2, <2>2, <2>3 DEF TruncateData, PutActive
  <2>5. \A t \in files[Newest].poss : t \in files[Newest].poss \cup {files[Newest].cur}
    OBVIOUS
  <2> QED
    BY <1>1, <1>3, <2>3, <2>4, <2>5, FitsCut
<1>4. CASE op' # Idle0
  <2>1. PICK k, s, rec, v : /\ k = Len(op.staged) + 1 /\ s = op.first + k /\ rec = op.batch[k]
                            /\ v = [j \in 1..rec.vecs |-> s]
    OBVIOUS
  <2>2. PICK x : x = [id |-> rec.id, rows |-> RowCount..(RowCount + rec.vecs - 1), stamp |-> s]
    OBVIOUS
  <2>3. /\ PutActive(files[Active].cur \o v)
        /\ op' = [op EXCEPT !.staged = Append(@, x),
                            !.pc = IF k < Len(op.batch) THEN "data"
                                   ELSE IF op.barrier THEN "dsync" ELSE "log"]
    BY <1>4, <2>1, <2>2 DEF UpsertData, Return
  <2>4. /\ OpShape /\ op.staged \in Seq(StagedRecord) /\ Len(op.staged) \in Nat
        /\ op.batch \in Seq([id : Docs, vecs : Nat]) /\ op.first \in Nat /\ op.dmark \in Nat
    BY OpTypes DEF Core, Shape
  <2>5. Len(op.staged) < Len(op.batch) /\ Len(op.batch) \in Nat
    BY <1>1, <2>4, LenProperties DEF Core, BatchInv
  <2>6. k \in Nat /\ k \in 1..Len(op.batch) /\ s \in Nat
    BY <2>1, <2>4, <2>5, SMTT(30)
  <2>7. rec.vecs \in Nat
    <3>1. rec \in [id : Docs, vecs : Nat]
      BY <2>1, <2>4, <2>6, ElementOfSeq
    <3> QED
      BY <3>1
  <2>8. v \in Seq(Nat) /\ Len(v) = rec.vecs
    BY <2>1, <2>6, <2>7
  <2>9. /\ op'.dmark = op.dmark /\ op'.batch = op.batch /\ op'.staged = Append(op.staged, x)
        /\ op'.pc \in {"data", "dsync", "log"}
    BY <2>3, <2>4 DEF OpShape, Progress
  <2>10. Len(op'.staged) = k
    <3>1. PICK u : u = op.staged
      OBVIOUS
    <3>2. Len(Append(u, x)) = Len(u) + 1
      BY <2>4, <3>1
    <3> QED
      BY <2>1, <2>9, <3>1, <3>2
  <2>11. PICK t : t = files[Newest].cur \o v
    OBVIOUS
  <2>12. t \in Seq(Nat) /\ Len(t) = Len(files[Newest].cur) + rec.vecs /\ Len(files[Newest].cur) \in Nat
    <3>1. PICK z : z = files[Newest].cur
      OBVIOUS
    <3>2. z \in Seq(Nat) /\ v \in Seq(Nat)
      BY <1>2, <2>8, <3>1
    <3>3. z \o v \in Seq(Nat) /\ Len(z \o v) = Len(z) + Len(v) /\ Len(z) \in Nat
      BY <3>2, ConcatProperties, LenProperties
    <3> QED
      BY <2>8, <2>11, <3>1, <3>3
  <2>13. PICK p : p = Wrote(files[Newest], t).poss
    OBVIOUS
  <2>14. /\ files' = [files EXCEPT ![Newest] = [cur |-> t, poss |-> p]]
         /\ \A u \in p : u = t \/ u \in files[Newest].poss
    <3>1. PutActive(t)
      BY <1>2, <2>3, <2>11
    <3>2. \A u \in p : u = t \/ u \in files[Newest].poss
      BY <2>13, WroteLeft
    <3> QED
      BY <1>1, <2>13, <3>1, <3>2, PutIs
  <2>15. p \in SUBSET Seq(Nat)
    BY <1>2, <2>12, <2>14
  <2>16. /\ Names' = Names /\ Newest' = Newest /\ Starts' = Starts
         /\ files'[Newest].cur = t /\ files'[Newest].poss = p
    BY <1>1, <2>12, <2>14, <2>15, ActiveChanged DEF Core
  <2>17. PICK m : m = Len(op.staged)
    OBVIOUS
  <2>18. /\ RowCount = op.dmark + Cardinality(Pairs(op.batch, m))
         /\ op.dmark + Cardinality(Pairs(op.batch, Len(op.batch))) <= Capacity
    BY <1>1, <2>17 DEF FitsInv
  <2>19. /\ Cardinality(Pairs(op.batch, k)) = Cardinality(Pairs(op.batch, m)) + rec.vecs
         /\ Cardinality(Pairs(op.batch, m)) \in Nat /\ Cardinality(Pairs(op.batch, k)) \in Nat
         /\ Cardinality(Pairs(op.batch, k)) <= Cardinality(Pairs(op.batch, Len(op.batch)))
         /\ Cardinality(Pairs(op.batch, Len(op.batch))) \in Nat
    <3>1. /\ m \in 0..Len(op.batch) /\ k \in 0..Len(op.batch) /\ m \in Nat /\ k = m + 1
          /\ m + 1 <= Len(op.batch) /\ Len(op.batch) \in 0..Len(op.batch)
      BY <2>1, <2>4, <2>5, <2>6, <2>17
    <3>2. IsFiniteSet(Pairs(op.batch, m))
      BY <2>4, <3>1, PairsFinite
    <3>3. Cardinality(Pairs(op.batch, m + 1)) = Cardinality(Pairs(op.batch, m)) + op.batch[m + 1].vecs
      BY <2>4, <3>1, <3>2, PairsStep
    <3>4. /\ Cardinality(Pairs(op.batch, m)) \in Nat /\ Cardinality(Pairs(op.batch, k)) \in Nat
          /\ Cardinality(Pairs(op.batch, k)) <= Cardinality(Pairs(op.batch, Len(op.batch)))
          /\ Cardinality(Pairs(op.batch, Len(op.batch))) \in Nat
      BY <2>4, <3>1, PairsFinite
    <3> QED
      BY <2>1, <3>1, <3>3, <3>4
  <2>20. RowCount' = Starts[Len(Names)] + Len(t)
    <3>1. segments' = Names /\ base' = base /\ base[Len(Names)] = Starts[Len(Names)]
      BY <1>1, <1>2
    <3>2. Current'[Newest] = t
      BY <1>2, <2>16 DEF Current
    <3> QED
      BY <3>1, <3>2 DEF RowCount, Rows, Newest
  <2>21. Starts[Len(Names)] + Len(t) = op.dmark + Cardinality(Pairs(op.batch, k))
    <3>1. PICK a, b, e, g, h, j :
             /\ a = Starts[Len(Names)] /\ b = Len(files[Newest].cur) /\ e = rec.vecs /\ g = op.dmark
             /\ h = Cardinality(Pairs(op.batch, m)) /\ j = Cardinality(Pairs(op.batch, k))
      OBVIOUS
    <3>2. a \in Nat /\ b \in Nat /\ e \in Nat /\ g \in Nat /\ h \in Nat /\ j \in Nat
      BY <1>2, <2>4, <2>7, <2>12, <2>19, <3>1
    <3>3. a + b = g + h /\ j = h + e /\ Len(t) = b + e
      BY <1>2, <2>12, <2>18, <2>19, <3>1
    <3>4. a + Len(t) = g + j
      BY <3>2, <3>3
    <3> QED
      BY <3>1, <3>4
  <2>22. Starts[Len(Names)] + Len(t) <= Capacity
    BY <2>4, <2>18, <2>19, <2>21, StoreAssumption
  <2>23. \A u \in p \cup {t} : Starts[Len(Names)] + Len(u) <= Capacity
    BY <1>1, <2>14, <2>22 DEF FitsInv
  <2>24. ~Rewriting'
    BY <2>9 DEF Rewriting
  <2> QED
    BY <2>9, <2>10, <2>16, <2>18, <2>20, <2>21, <2>23, <2>24 DEF FitsInv
<1> QED
    BY <1>3, <1>4

\* A compaction writes no more rows than there were: no row is of two docs.
LEMMA FewerRows ==
    ASSUME Core, Recoverable, StampInv, up, ~Rewriting, Unwound = log.cur
    PROVE  Cardinality(LiveRows) \in Nat /\ Cardinality(LiveRows) <= RowCount
<1>1. RowCount \in Nat /\ Docs \subseteq Nat /\ IsFiniteSet(Docs)
    BY OpenViews, StoreAssumption DEF Core
<1>2. \A d \in Docs : \A r \in docs[d].rows :
          r \in Nat /\ r < RowCount /\ RowOf(segments, base, Current, r) = docs[d].stamp
    BY ServedRows
<1>3. \A p \in LiveRows : p = <<p[1], p[2]>> /\ p[1] \in Docs /\ p[2] \in docs[p[1]].rows
    BY DEF LiveRows
<1>4. \A d \in Docs : docs[d].rows # {} => d \in LiveDocs
    BY DocsDated DEF Absent, LiveDocs
<1>5. ASSUME NEW p \in LiveRows, NEW q \in LiveRows, p[2] = q[2] PROVE p = q
  <2>1. docs[p[1]].stamp = docs[q[1]].stamp
    BY <1>2, <1>3, <1>5
  <2>2. p[1] \in LiveDocs /\ q[1] \in LiveDocs
    BY <1>3, <1>4
  <2>3. p[1] = q[1]
    BY <2>1, <2>2, DocsDated
  <2>4. p = <<p[1], p[2]>> /\ q = <<q[1], q[2]>>
    BY <1>3
  <2> QED
    BY <1>5, <2>3, <2>4
<1>6. PICK T : T = 0..(RowCount - 1)
    OBVIOUS
<1>7. IsFiniteSet(T) /\ Cardinality(T) = RowCount
  <2>1. PICK n \in Nat : n = RowCount
    BY <1>1
  <2>2. IsFiniteSet(0..(n - 1)) /\ Cardinality(0..(n - 1)) = IF 0 > n - 1 THEN 0 ELSE n - 1 - 0 + 1
    BY <2>1, FS_Interval
  <2>3. Cardinality(0..(n - 1)) = n
    BY <2>2
  <2> QED
    BY <1>6, <2>1, <2>2, <2>3
<1>8. \A p \in LiveRows : p[2] \in T
    BY <1>1, <1>2, <1>3, <1>6
<1>9. PICK g : g = [p \in LiveRows |-> p[2]]
    OBVIOUS
<1>10. g \in Injection(LiveRows, T)
  <2>1. g \in [LiveRows -> T]
    BY <1>8, <1>9
  <2>2. \A p, q \in LiveRows : g[p] = g[q] => p = q
    BY <1>5, <1>9
  <2> QED
    BY <2>1, <2>2 DEF Injection, IsInjective
<1>11. IsFiniteSet(LiveRows) /\ Cardinality(LiveRows) <= Cardinality(T)
    BY <1>7, <1>10, FS_Injection
<1> QED
    BY <1>7, <1>11, FS_CardinalityType

LEMMA FitsCompacted ==
    ASSUME Core, Recoverable, FitsInv, StampInv, CompactData
    PROVE  FitsInv'
<1>1. up /\ op.pc = "crows" /\ manifest' = manifest /\ ~Rewriting /\ ~Batching /\ op.kind = "compact"
    BY DEF CompactData, Rewriting, Batching, Core, StepInv
<1>2. Unwound = log.cur
    BY <1>1, UnwoundIs
<1>3. CASE op' = Idle0 /\ files' = files
    BY <1>1, <1>3, Returns, FitsQuiet
<1>4. CASE ~(op' = Idle0 /\ files' = files)
  <2>1. PICK place \in [LiveRows -> 0..(Cardinality(LiveRows) - 1)], order \in Orders(LiveDocs) :
           /\ Renumbers(place)
           /\ files' = [files EXCEPT ![BASE_SEGMENT] = File(CompactedRows(place))]
           /\ op' = [op EXCEPT !.pc = "clog",
                        !.plan = [docs |-> Relocated(place), log |-> CompactedLog(place, order),
                                  dropped |-> {segments[i] : i \in 2..Len(segments)}]]
    BY <1>4, Regimes, Zenon DEF CompactData, Return
  <2>2. op'.pc = "clog" /\ Rewriting'
    <3>1. PICK x : op' = [op EXCEPT !.pc = "clog", !.plan = x]
      BY <2>1, Zenon
    <3>2. OpShape
      BY DEF Core, Shape
    <3> QED
      BY <3>1, <3>2 DEF OpShape, Progress, Rewriting
  <2>3. PICK v : v = CompactedRows(place)
    OBVIOUS
  <2>4. BASE_SEGMENT \in SegName /\ files'[BASE_SEGMENT].cur = v
    <3>1. BASE_SEGMENT \in SegName
      BY Views DEF Core, BASE_SEGMENT
    <3>2. files \in [SegName -> [cur : Seq(Nat), poss : SUBSET Seq(Nat)]]
      BY DEF Core, Shape
    <3>3. files' = [files EXCEPT ![BASE_SEGMENT] = File(v)]
      BY <2>1, <2>3
    <3> QED
      BY <3>1, <3>2, <3>3 DEF File
  <2>5. Cardinality(LiveRows) \in Nat /\ Cardinality(LiveRows) <= RowCount
    BY <1>1, <1>2, FewerRows
  <2>6. Len(v) = Cardinality(LiveRows)
    <3>1. PICK n \in Nat : n = Cardinality(LiveRows)
      BY <2>5
    <3>2. v \in Seq(Nat) /\ DOMAIN v = 1..n
      BY <1>1, <2>1, <2>3, <3>1, CompactedIs DEF CompactedRows
    <3> QED
      BY <3>1, <3>2, LenProperties
  <2>7. RowCount <= Capacity /\ RowCount \in Nat
    BY <1>1, OpenViews DEF Core, FitsInv
  <2>8. Len(files'[BASE_SEGMENT].cur) <= Capacity
    BY <2>4, <2>5, <2>6, <2>7, StoreAssumption
  <2> QED
    BY <2>2, <2>8 DEF FitsInv
<1> QED
    BY <1>3, <1>4

LEMMA FitsPublished ==
    ASSUME Core, Recoverable, FitsInv, CompactPublish
    PROVE  FitsInv'
<1>1. up /\ op.pc = "cpublish" /\ Rewriting /\ op.kind = "compact" /\ op' = Idle0 /\ "publish" \notin Faults
  <2>1. up /\ op.pc = "cpublish" /\ Rewriting /\ op.kind = "compact" /\ op' = Idle0
    BY DEF CompactPublish, Rewriting, Return, Core, StepInv
  <2> QED
    BY <2>1, Regimes DEF Core, StepInv, Recoverable
<1>2. /\ manifest' = Manifest(segments, next_id, version)
      /\ \E kept \in SUBSET op.plan.dropped :
            files' = [n \in SegName |-> IF n \in op.plan.dropped \ kept THEN File(<<>>) ELSE files[n]]
    BY <1>1 DEF CompactPublish
<1>3. segments = <<BASE_SEGMENT>> /\ BASE_SEGMENT \notin op.plan.dropped /\ BASE_SEGMENT \in SegName
    BY <1>1, Views DEF Core, SegsInv, PlanInv, BASE_SEGMENT
<1>4. Names' = <<BASE_SEGMENT>> /\ Newest' = BASE_SEGMENT /\ Len(Names') = 1
    BY <1>2, <1>3 DEF Names, Newest, Manifest
<1>5. files'[BASE_SEGMENT] = files[BASE_SEGMENT]
    BY <1>2, <1>3
<1>6. /\ files[BASE_SEGMENT].poss = {files[BASE_SEGMENT].cur}
      /\ Len(files[BASE_SEGMENT].cur) <= Capacity /\ Len(files[BASE_SEGMENT].cur) \in Nat
  <2>1. files[BASE_SEGMENT].cur \in Seq(Nat)
    BY <1>3, FileTypes DEF Core
  <2>2. files[BASE_SEGMENT].poss = {files[BASE_SEGMENT].cur}
    BY <1>1, <1>3 DEF Core, CertainInv
  <2> QED
    BY <1>1, <2>1, <2>2, LenProperties DEF FitsInv
<1>7. Starts'[Len(Names')] = 0
  <2>1. Shape'
    BY CoreStep DEF Core, Next
  <2>2. Current' \in Contents
    <3>1. \A n \in SegName : files'[n].cur \in Seq(Nat)
      BY <2>1 DEF Shape
    <3> QED
      BY <3>1 DEF Current, Contents
  <2>3. Bases(<<BASE_SEGMENT>>, Current') = <<0>>
    BY <2>2, OneBase
  <2>4. Starts' = <<0>>
    BY <1>4, <2>3 DEF Starts
  <2> QED
    BY <1>4, <2>4
<1>8. ~Rewriting' /\ op'.pc = "idle"
    BY <1>1, Returns
<1> QED
    BY <1>4, <1>5, <1>6, <1>7, <1>8 DEF FitsInv

LEMMA FitsCrashed ==
    ASSUME Core, Recoverable, FitsInv, Crash
    PROVE  FitsInv'
<1>1. /\ up /\ CrashPossible /\ op' = Idle0 /\ manifest' = manifest
    BY DEF Crash, Return
<1>2. ~Rewriting /\ ~Rewriting' /\ op'.pc = "idle"
    BY <1>1, CrashApart, Returns
<1>3. PICK c \in CrashContents : files' = [n \in SegName |-> File(c[n])]
    BY DEF Crash
<1>4. PICK l \in log.poss : TRUE
    BY DEF Crash, AfterCrash
<1>5. c[Newest] \in files[Newest].poss /\ c = With(c[Newest]) /\ c \in Contents
    BY <1>2, CrashViews
<1>6. /\ Newest \in SegName /\ files[Newest].poss \in SUBSET Seq(Nat)
      /\ \A t \in Seq(Nat) : Bases(Names, With(t)) = Starts
    BY Views, FileTypes DEF Core
<1>7. Names' = Names /\ Newest' = Newest
    BY <1>1 DEF Names, Newest
<1>8. /\ \A n \in SegName : files'[n].cur = c[n] /\ files'[n].poss = {c[n]}
      /\ Current' = c
  <2>1. \A n \in SegName : files'[n].cur = c[n] /\ files'[n].poss = {c[n]}
    BY <1>3 DEF File
  <2> QED
    BY <1>5, <2>1 DEF Current, Contents
<1>9. Starts' = Starts
  <2>1. Bases(Names, With(c[Newest])) = Starts
    BY <1>5, <1>6
  <2> QED
    BY <1>5, <1>7, <1>8, <2>1 DEF Starts
<1>10. Starts[Len(Names)] + Len(c[Newest]) <= Capacity
    BY <1>2, <1>5 DEF FitsInv
<1> QED
    BY <1>2, <1>6, <1>7, <1>8, <1>9, <1>10 DEF FitsInv

\* The steps that leave the segments alone, the batch's rollbacks and the syncs.
LEMMA FitsBatch ==
    ASSUME Core, Recoverable, FitsInv, UpsertSyncData \/ UpsertLog \/ UpsertSyncLog
    PROVE  FitsInv'
<1>1. /\ up /\ Batching /\ ~Rewriting /\ manifest' = manifest /\ OpShape
      /\ op.pc \in {"dsync", "log", "lsync"}
    BY DEF UpsertSyncData, UpsertLog, UpsertSyncLog, Batching, Rewriting, Core, Shape
<1>2. /\ Active = Newest /\ base[Len(base)] = Starts[Len(Names)]
      /\ files[Newest] = [cur |-> files[Newest].cur, poss |-> files[Newest].poss]
  <2>1. Newest \in SegName /\ Active = Newest /\ base[Len(base)] = Starts[Len(Names)]
    BY <1>1, Views, OpenViews DEF Core
  <2> QED
    BY <2>1 DEF Core, Shape
<1>3. PICK cut : cut = SubSeq(files[Newest].cur, 1, op.dmark - Starts[Len(Names)])
    OBVIOUS
<1>4. CASE TruncateData(op.dmark) /\ op' = Idle0
  <2>1. files' = [files EXCEPT ![Newest] = Wrote(files[Newest], cut)]
    BY <1>2, <1>3, <1>4 DEF TruncateData, PutActive
  <2>2. \A t \in files[Newest].poss : t \in files[Newest].poss \cup {files[Newest].cur}
    OBVIOUS
  <2> QED
    BY <1>1, <1>3, <1>4, <2>1, <2>2, FitsCut
<1>5. CASE UpsertSyncData
  <2>1. CASE files' = [files EXCEPT ![Active] = Synced(@)] /\ op' = [op EXCEPT !.pc = "log"]
    <3>1. op'.pc = "log"
      BY <1>1, <2>1, Moves
    <3>2. ~Rewriting'
      BY <3>1 DEF Rewriting
    <3> QED
      BY <1>1, <2>1, <3>1, <3>2, FitsSynced
  <2>2. CASE ~(files' = [files EXCEPT ![Active] = Synced(@)] /\ op' = [op EXCEPT !.pc = "log"])
    <3>1. PICK f : f = SyncFailed(files[Newest])
      OBVIOUS
    <3>2. f = [cur |-> files[Newest].cur, poss |-> files[Newest].poss \cup {files[Newest].cur}]
      BY <1>2, <3>1, SyncFailedIs
    <3>3. f.cur = files[Newest].cur /\ \A t \in f.poss : t \in files[Newest].poss \cup {files[Newest].cur}
      BY <3>2
    <3>4. /\ files' = [files EXCEPT ![Active] =
                          Wrote(SyncFailed(files[Active]),
                                SubSeq(SyncFailed(files[Active]).cur, 1, op.dmark - base[Len(base)]))]
          /\ op' = Idle0
      BY <1>5, <2>2 DEF UpsertSyncData, Return
    <3>5. files' = [files EXCEPT ![Newest] = Wrote(f, cut)]
      BY <1>2, <1>3, <3>1, <3>3, <3>4
    <3> QED
      BY <1>1, <1>3, <3>3, <3>4, <3>5, FitsCut
  <2> QED
    BY <2>1, <2>2
<1>6. CASE (UpsertLog \/ UpsertSyncLog) /\ ~(TruncateData(op.dmark) /\ op' = Idle0)
  <2>1. files' = files
    BY <1>6 DEF UpsertLog, UpsertSyncLog, rollback, Return
  <2>2. \/ op' = Idle0 \/ op' = [op EXCEPT !.pc = "publish"]
        \/ \E x : \E y \in {"log", "lsync"} : op' = [op EXCEPT !.i = x, !.pc = y]
    <3>1. CASE UpsertLog
      <4>1. op' = [op EXCEPT !.i = op.i + 1, !.pc = IF op.i + 1 < Len(op.staged) THEN "log" ELSE "lsync"]
        BY <1>6, <3>1 DEF UpsertLog, rollback, Return
      <4> QED
        BY <4>1
    <3>2. CASE UpsertSyncLog
      BY <1>6, <3>2 DEF UpsertSyncLog, rollback, Return
    <3> QED
      BY <1>6, <3>1, <3>2
  <2>3. op'.pc \in {"idle", "publish", "log", "lsync"}
    <3>1. op' = Idle0 => op'.pc = "idle"
      BY Returns
    <3>2. op' = [op EXCEPT !.pc = "publish"] => op'.pc = "publish"
      BY <1>1, Moves
    <3>3. ASSUME NEW x, NEW y, op' = [op EXCEPT !.i = x, !.pc = y] PROVE op'.pc = y
      BY <1>1, <3>3 DEF OpShape, Progress
    <3> QED
      BY <2>2, <3>1, <3>2, <3>3
  <2>4. ~Rewriting'
    BY <2>3 DEF Rewriting
  <2> QED
    BY <1>1, <2>1, <2>3, <2>4, FitsQuiet
<1> QED
    BY <1>4, <1>5, <1>6 DEF UpsertLog, UpsertSyncLog

LEMMA FitsBarrier ==
    ASSUME Core, FitsInv, BarrierData
    PROVE  FitsInv'
<1>1. up /\ ~Rewriting /\ OpShape /\ manifest' = manifest
    BY DEF BarrierData, Rewriting, Core, Shape
<1>2. op' = Idle0 \/ op' = [op EXCEPT !.pc = "blog"]
    BY DEF BarrierData, FailBarrier, Return
<1>3. op'.pc \in {"idle", "blog"}
    BY <1>1, <1>2, Moves, Returns
<1>4. ~Rewriting'
    BY <1>3 DEF Rewriting
<1>5. files' = [files EXCEPT ![Active] = Synced(@)] \/ files' = [files EXCEPT ![Active] = SyncFailed(@)]
    BY DEF BarrierData
<1> QED
    BY <1>1, <1>3, <1>4, <1>5, FitsSynced

\* A call that begins, a call that only writes the log or the manifest.
LEMMA FitsAway ==
    ASSUME Core, FitsInv,
           \/ \E b \in Batches, defer \in Deferring : UpsertBegin(b, defer)
           \/ BarrierLog \/ NoteCommitPoint
           \/ \E S \in SUBSET Docs, defer \in Deferring, kind \in {"delete", "sweep"} :
                 DeleteBegin(kind, S, defer)
           \/ \E d \in Docs, defer \in Deferring : Reinforce(d, defer)
           \/ DeleteLog \/ SweepLog \/ SweepDeferred \/ Commit \/ Flush \/ Compact \/ Open
    PROVE  FitsInv'
<1>1. op.pc \in Pcs \ {"data", "clog", "cpublish"}
    <2>1. ~up => op.pc = "idle"
      BY DEF Core, StepInv
    <2>2. op.pc \in Pcs
      BY OpTypes DEF Core, Shape
    <2>3. CASE up
      BY <2>2, <2>3 DEF UpsertBegin, BarrierLog, NoteCommitPoint, DeleteBegin, Reinforce, DeleteLog, SweepLog,
                SweepDeferred, Commit, Flush, Compact, Open, Call, Idle
    <2> QED
      BY <2>1, <2>2, <2>3
<1>2. ~Rewriting
    BY <1>1 DEF Rewriting
<1>3. files' = files
    BY DEF UpsertBegin, BarrierLog, NoteCommitPoint, DeleteBegin, Reinforce, DeleteLog, SweepLog,
           SweepDeferred, Commit, Flush, Compact, Open, disk
<1>4. manifest'.segments = manifest.segments
  <2>1. CASE NoteCommitPoint
    <3>1. segments = manifest.segments
      BY <1>2, <2>1, OpenViews DEF NoteCommitPoint, Core, Names
    <3> QED
      BY <2>1, <3>1 DEF NoteCommitPoint, Manifest
  <2>2. CASE ~NoteCommitPoint
    BY <2>2 DEF UpsertBegin, BarrierLog, DeleteBegin, Reinforce, DeleteLog, SweepLog,
           SweepDeferred, Commit, Flush, Compact, Open, disk
  <2> QED
    BY <2>1, <2>2
<1>5. op'.pc \in Pcs \ {"data", "clog", "cpublish"}
  <2>0. OpShape /\ Idle0.pc = "idle"
    BY DEF Core, Shape, Idle0
  <2>1. CASE \/ \E b \in Batches, defer \in Deferring : UpsertBegin(b, defer)
             \/ Commit \/ Flush \/ Compact
    BY <2>1, ZenonT(30) DEF UpsertBegin, Commit, Flush, Compact, Idle0, Pcs
  <2>2. CASE \E S \in SUBSET Docs, defer \in Deferring, kind \in {"delete", "sweep"} :
                 DeleteBegin(kind, S, defer)
    <3>1. PICK kind \in {"delete", "sweep"} : \E y, b :
             op' = [Idle0 EXCEPT !.pc = IF kind = "sweep" THEN "slog" ELSE "dlog", !.kind = kind,
                       !.staged = y, !.lmark = Len(log.cur), !.barrier = b]
      BY <2>2, Zenon DEF DeleteBegin
    <3>2. op'.pc \in {"slog", "dlog"}
      BY <3>1 DEF Idle0
    <3> QED
      BY <3>2 DEF Pcs
  <2>3. CASE \E d \in Docs, defer \in Deferring : Reinforce(d, defer)
    <3>1. op' = op \/ op' = [Idle0 EXCEPT !.pc = "publish", !.kind = "reinforce"]
      BY <2>3 DEF Reinforce
    <3> QED
      BY <1>1, <3>1 DEF Idle0, Pcs
  <2>4. CASE BarrierLog
    <3>1. op' = Idle0 \/ op' = [op EXCEPT !.pc = "publish"]
      BY <2>4 DEF BarrierLog, FailBarrier, Return
    <3> QED
      BY <2>0, <3>1, Moves DEF Pcs
  <2>5. CASE NoteCommitPoint
    <3>1. op' = Idle0 \/ op' = [op EXCEPT !.pc = "seal"]
      BY <2>5, Zenon DEF NoteCommitPoint, Finish, FailBarrier, Return
    <3> QED
      BY <2>0, <3>1, Moves DEF Pcs
  <2>6. CASE DeleteLog
    <3>1. \/ op' = Idle0 \/ op' = [op EXCEPT !.pc = "bdata"]
          \/ op' = [op EXCEPT !.i = op.i + 1]
      BY <2>6 DEF DeleteLog, Return
    <3> QED
      BY <1>1, <2>0, <3>1 DEF Pcs, OpShape, Progress
  <2>7. CASE SweepLog
    <3>1. \/ op' = Idle0
          \/ op' = [op EXCEPT !.i = op.i + 1, !.pc = IF op.i + 1 < Len(op.staged) THEN "slog"
                                                     ELSE IF op.barrier THEN "bdata" ELSE "sweep"]
      BY <2>7 DEF SweepLog, Return
    <3> QED
      BY <2>0, <3>1 DEF Pcs, OpShape, Progress
  <2>8. CASE SweepDeferred \/ Open
    <3>1. op' = Idle0 \/ op' = op
      BY <2>8 DEF SweepDeferred, Open, Return
    <3> QED
      BY <1>1, <2>0, <3>1 DEF Pcs
  <2> QED
    BY <2>1, <2>2, <2>3, <2>4, <2>5, <2>6, <2>7, <2>8
<1>6. ~Rewriting'
    BY <1>5 DEF Rewriting
<1> QED
    BY <1>2, <1>3, <1>4, <1>5, <1>6, FitsQuiet

LEMMA FitsStep ==
    ASSUME Core, Recoverable, StampInv, FitsInv, [Next]_vars
    PROVE  FitsInv'
<1>1. CASE SealSkip \/ Seal \/ SealFails
    BY <1>1, FitsSealed
<1>2. CASE UpsertData
    BY <1>2, FitsStaged
<1>3. CASE UpsertSyncData \/ UpsertLog \/ UpsertSyncLog
    BY <1>3, FitsBatch
<1>4. CASE BarrierData
    BY <1>4, FitsBarrier
<1>5. CASE \/ \E b \in Batches, defer \in Deferring : UpsertBegin(b, defer)
           \/ BarrierLog \/ NoteCommitPoint
           \/ \E S \in SUBSET Docs, defer \in Deferring, kind \in {"delete", "sweep"} :
                 DeleteBegin(kind, S, defer)
           \/ \E d \in Docs, defer \in Deferring : Reinforce(d, defer)
           \/ DeleteLog \/ SweepLog \/ SweepDeferred \/ Commit \/ Flush \/ Compact \/ Open
    BY <1>5, FitsAway
<1>6. CASE CompactData
    BY <1>6, FitsCompacted
<1>7. CASE CompactLog
  <2>1. files' = files /\ manifest' = manifest /\ Rewriting /\ OpShape
    BY <1>7 DEF CompactLog, Rewriting, Core, Shape
  <2>2. "rewrite" \notin Faults
    BY Regimes
  <2>3. op' = [op EXCEPT !.pc = "cpublish"]
    BY <1>7, <2>2 DEF CompactLog
  <2>4. op'.pc = "cpublish"
    BY <2>1, <2>3, Moves
  <2>5. Rewriting'
    BY <2>4 DEF Rewriting
  <2> QED
    BY <2>1, <2>4, <2>5, FitsQuiet
<1>8. CASE CompactPublish
    BY <1>8, FitsPublished
<1>9. CASE Crash
    BY <1>9, FitsCrashed
<1>10. CASE UNCHANGED vars
  <2>1. UNCHANGED <<files, manifest, op, segments, base>>
    BY <1>10 DEF vars, disk, ram
  <2>2. RowCount' = RowCount /\ (Rewriting' <=> Rewriting)
    BY <2>1 DEF RowCount, Current, Rewriting
  <2> QED
    BY <2>1, <2>2, DiskSame DEF FitsInv
<1> QED
    BY <1>1, <1>2, <1>3, <1>4, <1>5, <1>6, <1>7, <1>8, <1>9, <1>10, Zenon DEF Next

\* In the configurations that survive a crash, what a crash leaves is never over
\* max_vector_bytes, so that Segments::open never refuses a store the writer
\* made: the capacity check counts the rows of the whole batch before the first
\* append, a rollback or a lost write only shortens the active segment, and
\* compact writes no more rows than there were, since no row is of two docs.
THEOREM StoreReopens == Recoverable /\ Spec => []Reopens
<1>1. Init => Core /\ StampInv /\ FitsInv
  <2> SUFFICES ASSUME Init PROVE Core /\ StampInv /\ FitsInv
    OBVIOUS
  <2>1. Core
    BY CoreInit
  <2>2. op.pc = "idle" /\ op.kind = "none" /\ stamps = 0 /\ log.cur = <<>> /\ log.poss = {<<>>}
    BY DEF Init, Idle0, File
  <2>3. ~Batching /\ ~Rewriting
    BY <2>2 DEF Batching, Rewriting
  <2>4. StampInv
    BY <2>2, <2>3 DEF StampInv, Dated
  <2>5. FitsInv
    <3>1. Names = <<BASE_SEGMENT>> /\ Newest = BASE_SEGMENT /\ Len(Names) = 1
      BY DEF Init, Manifest, Names, Newest
    <3>2. BASE_SEGMENT \in SegName /\ Current \in Contents
      BY <2>1, Views, FileTypes DEF Core, BASE_SEGMENT
    <3>3. files[BASE_SEGMENT].cur = <<>> /\ files[BASE_SEGMENT].poss = {<<>>}
      BY <3>2 DEF Init, File
    <3>4. Starts = <<0>>
      BY <3>1, <3>2, OneBase DEF Starts
    <3>5. Starts[Len(Names)] + Len(<<>>) <= Capacity
      BY <3>1, <3>4, StoreAssumption
    <3> QED
      BY <2>2, <2>3, <3>1, <3>3, <3>5 DEF FitsInv
  <2> QED
    BY <2>1, <2>4, <2>5
<1>2. Recoverable /\ Core /\ StampInv /\ FitsInv /\ [Next]_vars
        => (Core /\ StampInv /\ FitsInv)' /\ Recoverable'
    BY CoreStep, StampStep, FitsStep DEF Recoverable, Barriers, OneObject
<1>3. Recoverable /\ Core /\ FitsInv => Reopens
  <2> SUFFICES ASSUME Recoverable, Core, FitsInv, CrashPossible,
                      NEW c \in CrashContents, NEW l \in log.poss
               PROVE  Rows(manifest.segments, Bases(manifest.segments, c), c) <= Capacity
    BY DEF Reopens, Recovery
  <2>1. ~Rewriting
    BY CrashApart
  <2>2. c[Newest] \in files[Newest].poss /\ c = With(c[Newest]) /\ c[Newest] \in Seq(Nat)
    BY <2>1, CrashViews, Views DEF Core
  <2>3. Total(Names, With(c[Newest])) = Starts[Len(Names)] + Len(c[Newest])
    BY <2>2, Views DEF Core
  <2>4. Starts[Len(Names)] + Len(c[Newest]) <= Capacity
    BY <2>1, <2>2 DEF FitsInv
  <2>5. Total(Names, c) <= Capacity
    BY <2>2, <2>3, <2>4
  <2> QED
    BY <2>5 DEF Total, Names
<1> QED
    BY <1>1, <1>2, <1>3, PTL DEF Spec

\* In the same configurations the index of the open store is, between calls,
\* what a replay of its log would build (Store::docs against replay_ops),
\* whatever failed and was rolled back before: only a doc that a delete with a
\* failed append took out of RAM is ahead of the log.
THEOREM IndexFollowsTheLog ==
    Recoverable /\ Spec => [](Idle => \A d \in Docs \ ahead : docs[d] = ReplayDoc(log.cur, RowCount, d))
<1>1. Core /\ Idle => \A d \in Docs \ ahead : docs[d] = ReplayDoc(log.cur, RowCount, d)
  <2> SUFFICES ASSUME Core, Idle, NEW d \in Docs \ ahead
               PROVE  docs[d] = ReplayDoc(log.cur, RowCount, d)
    OBVIOUS
  <2>1. up /\ ~Rewriting /\ Unwound = log.cur
    BY IdleFacts
  <2>2. docs[d] = Replayed(log.cur, d)
    BY <2>1 DEF Core, IndexInv
  <2>3. RowCount = Total(Names, Current)
    BY <2>1, OpenViews DEF Core
  <2>4. Below(log.cur, RowCount)
    BY <2>1, <2>3, LogsBacked
  <2> QED
    BY <2>2, <2>4, ReplayCounts
<1> QED
    BY <1>1, CoreInvariant, PTL

=============================================================================
