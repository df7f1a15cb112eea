-------------------------- MODULE ClusterStoreProofs --------------------------
(***************************************************************************)
(* Theorems about cooperating writers, for any number of instances, opens  *)
(* and batches.  The log: with seals, fresh stores and replayed requests.  *)
(* Rows and acknowledged batches: over one segment (OneSegment), where the *)
(* configurations beside the shared run show that they need it.            *)
(***************************************************************************)
EXTENDS MCClusterShared, FiniteSetTheorems, SequenceTheorems, TLAPS

IsSeq(s) == \E S : s \in Seq(S)

LEMMA AppendGrows ==
    ASSUME NEW s, IsSeq(s), NEW x
    PROVE  /\ IsSeq(Append(s, x))
           /\ Len(s) <= Len(Append(s, x))
           /\ \A k \in DOMAIN s : Append(s, x)[k] = s[k]
<1>1. PICK S : s \in Seq(S)
    BY DEF IsSeq
<1>2. s \in Seq(S \cup {x})
    BY <1>1
<1>3. Append(s, x) \in Seq(S \cup {x})
    BY <1>2
<1>4. Len(s) <= Len(Append(s, x)) /\ \A k \in DOMAIN s : Append(s, x)[k] = s[k]
    BY <1>2
<1> QED BY <1>3, <1>4 DEF IsSeq

Fields == {"pc", "seen", "rows", "log", "stamp"}
IsStore(r) == r = [f \in Fields |-> r[f]]

\* Every instance has a record of these fields.
Shape ==
    /\ w = [i \in Instances |-> w[i]]
    /\ \A i \in Instances : IsStore(w[i])

\* The places at which the log has been loaded.
Loaded == {"open", "seal", "sealsync", "sealpublish", "data", "put", "publish"}

\* A writer whose log token is still the object's holds the log as it is.
LogSeen ==
    \A i \in Instances : w[i].pc \in Loaded /\ <<i, Log>> \in fresh => w[i].log = log

LogInv == IsSeq(log) /\ Shape /\ LogSeen

Grows == Len(log) <= Len(log') /\ \A k \in DOMAIN log : log'[k] = log[k]

LEMMA LogInit == Init => LogInv
<1> SUFFICES ASSUME Init PROVE LogInv
    OBVIOUS
<1>1. IsSeq(log)
  <2>1. log \in Seq({})
    BY DEF Init
  <2> QED BY <2>1 DEF IsSeq
<1>2. Shape
    BY DEF Init, Shape, IsStore, Fields, Out
<1>3. LogSeen
    BY DEF Init, LogSeen
<1> QED BY <1>1, <1>2, <1>3 DEF LogInv

LEMMA LogUnchangedGrows == IsSeq(log) /\ log' = log => IsSeq(log') /\ Grows
<1> SUFFICES ASSUME IsSeq(log), log' = log PROVE IsSeq(log') /\ Grows
    OBVIOUS
<1>1. PICK S : log \in Seq(S)
    BY DEF IsSeq
<1>2. Len(log) <= Len(log)
    BY <1>1
<1> QED BY <1>2 DEF IsSeq, Grows

\* A step of one instance moves that instance alone.
LEMMA StepMoves ==
    ASSUME Shape, NEW i \in Instances, NEW r, IsStore(r), Step(i, r)
    PROVE  /\ Shape'
           /\ w'[i] = r
           /\ \A j \in Instances : j # i => w'[j] = w[j]
BY DEF Shape, Step, IsStore

\* A step that leaves the log alone, keeps the instance's log buffer or has it
\* unloaded, and adds no log token.
LEMMA QuietStep ==
    ASSUME LogInv, NEW i \in Instances, NEW r, IsStore(r), Step(i, r),
           log' = log,
           \A j \in Instances : <<j, Log>> \in fresh' => <<j, Log>> \in fresh,
           r.pc \in Loaded => r.log = w[i].log /\ w[i].pc \in Loaded
    PROVE  LogInv' /\ Grows
<1>1. Shape' /\ w'[i] = r /\ \A j \in Instances : j # i => w'[j] = w[j]
    BY StepMoves DEF LogInv
<1>2. LogSeen'
    BY <1>1 DEF LogInv, LogSeen
<1>3. IsSeq(log') /\ Grows
    BY LogUnchangedGrows DEF LogInv
<1> QED BY <1>1, <1>2, <1>3 DEF LogInv

\* The objects other than the log have tokens of their own.
LEMMA TokensApart ==
    /\ \A n : Seg(n) # Log
    /\ Man # Log
BY DEF Seg, Log, Man

\* Tokens of other objects may be taken, passed on and lost: none of it adds
\* a token of the log.
LEMMA OtherTokens ==
    ASSUME NEW i, NEW o, o # Log,
           \/ Token(i, o) \/ Landed(i, o) \/ LandedUnseen(i, o)
           \/ fresh' = WithoutTokens(o) \/ UNCHANGED fresh
    PROVE  \A j \in Instances : <<j, Log>> \in fresh' => <<j, Log>> \in fresh
BY DEF Token, Landed, LandedUnseen, WithoutTokens

-----------------------------------------------------------------------------
(* Opening *)

LEMMA AcquireKeeps ==
    ASSUME LogInv, NEW i \in Instances, Acquire(i) PROVE LogInv' /\ Grows
<1> DEFINE r == [w[i] EXCEPT !.pc = "manifest"]
<1>1. IsStore(r) /\ r.pc = "manifest"
    BY DEF LogInv, Shape, IsStore, Fields
<1>2. Step(i, r) /\ log' = log /\ fresh' = fresh
    BY DEF Acquire, Goto
<1> QED BY <1>1, <1>2, QuietStep DEF Loaded

LEMMA LoadManifestKeeps ==
    ASSUME LogInv, NEW i \in Instances, LoadManifest(i) PROVE LogInv' /\ Grows
<1> DEFINE m == IF manifest = NoManifest THEN FreshManifest ELSE manifest
           n == IF manifest = NoManifest THEN 1 ELSE 0
           r == [w[i] EXCEPT !.pc = "segments", !.seen = m, !.stamp = n]
<1>1. IsStore(r) /\ r.pc = "segments"
  <2> HIDE DEF m, n
  <2> QED BY DEF LogInv, Shape, IsStore, Fields
<1>2. Step(i, r) /\ log' = log /\ fresh' = fresh
    BY DEF LoadManifest
<1> QED BY <1>1, <1>2, QuietStep DEF Loaded

LEMMA LoadSegmentKeeps ==
    ASSUME LogInv, NEW i \in Instances, LoadSegment(i) PROVE LogInv' /\ Grows
<1> DEFINE k == Len(w[i].rows) + 1
           n == Names(i)[k]
           p == IF k < Len(Names(i)) THEN "segments"
                ELSE IF w[i].stamp = 1 THEN "create" ELSE "token"
           x == Append(w[i].rows, segs[n])
           r == [w[i] EXCEPT !.rows = x, !.pc = p]
<1>1. IsStore(r) /\ r.pc = p
  <2> HIDE DEF p, x
  <2> QED BY DEF LogInv, Shape, IsStore, Fields
<1>2. Step(i, r) /\ log' = log /\ Token(i, Seg(n))
    BY DEF LoadSegment
<1>3. r.pc \notin Loaded
    BY <1>1 DEF Loaded
<1>4. \A j \in Instances : <<j, Log>> \in fresh' => <<j, Log>> \in fresh
  <2> HIDE DEF n
  <2> QED BY <1>2, OtherTokens, TokensApart
<1> HIDE DEF r
<1> QED BY <1>1, <1>2, <1>3, <1>4, QuietStep

LEMMA CreateManifestKeeps ==
    ASSUME LogInv, NEW i \in Instances, CreateManifest(i) PROVE LogInv' /\ Grows
<1> DEFINE r == [w[i] EXCEPT !.pc = "token"]
<1>1. IsStore(r) /\ r.pc = "token"
    BY DEF LogInv, Shape, IsStore, Fields
<1>2. Step(i, r) /\ log' = log /\ fresh' = WithoutTokens(Man)
    BY DEF CreateManifest, Goto
<1>3. \A j \in Instances : <<j, Log>> \in fresh' => <<j, Log>> \in fresh
    BY <1>2, OtherTokens, TokensApart
<1> QED BY <1>1, <1>2, <1>3, QuietStep DEF Loaded

LEMMA ReadTokenKeeps ==
    ASSUME LogInv, NEW i \in Instances, ReadToken(i) PROVE LogInv' /\ Grows
<1> DEFINE r == [w[i] EXCEPT !.pc = "log"]
<1>1. IsStore(r) /\ r.pc = "log"
    BY DEF LogInv, Shape, IsStore, Fields
<1>2. Step(i, r) /\ log' = log /\ Token(i, Man)
    BY DEF ReadToken, Goto
<1>3. \A j \in Instances : <<j, Log>> \in fresh' => <<j, Log>> \in fresh
    BY <1>2, OtherTokens, TokensApart
<1> QED BY <1>1, <1>2, <1>3, QuietStep DEF Loaded

\* The log is read with its token in one request.
LEMMA LoadLogKeeps ==
    ASSUME LogInv, NEW i \in Instances, LoadLog(i) PROVE LogInv' /\ Grows
<1> DEFINE r == [w[i] EXCEPT !.pc = "open", !.log = log, !.stamp = 0]
<1>1. IsStore(r) /\ r.log = log
    BY DEF LogInv, Shape, IsStore, Fields
<1>2. Step(i, r) /\ log' = log /\ fresh' = fresh \cup {<<i, Log>>}
    BY DEF LoadLog, Token
<1>3. Shape' /\ w'[i] = r /\ \A j \in Instances : j # i => w'[j] = w[j]
  <2> HIDE DEF r
  <2> QED BY <1>1, <1>2, StepMoves DEF LogInv
<1>4. LogSeen'
  <2> SUFFICES ASSUME NEW j \in Instances, w'[j].pc \in Loaded, <<j, Log>> \in fresh'
               PROVE  w'[j].log = log'
    BY DEF LogSeen
  <2>1. CASE j = i
    BY <2>1, <1>1, <1>2, <1>3
  <2>2. CASE j # i
    BY <2>2, <1>2, <1>3 DEF LogInv, LogSeen
  <2> QED BY <2>1, <2>2
<1>5. IsSeq(log') /\ Grows
    BY <1>2, LogUnchangedGrows DEF LogInv
<1> QED BY <1>3, <1>4, <1>5 DEF LogInv

-----------------------------------------------------------------------------
(* A batch *)

LEMMA BeginKeeps ==
    ASSUME LogInv, NEW i \in Instances, Begin(i) PROVE LogInv' /\ Grows
<1> DEFINE p == IF NeedsSeal(i) THEN "seal" ELSE "data"
           r == [w[i] EXCEPT !.stamp = batches + 1, !.pc = p]
<1>1. IsStore(r) /\ r.pc = p /\ r.log = w[i].log
  <2> HIDE DEF p
  <2> QED BY DEF LogInv, Shape, IsStore, Fields
<1>2. Step(i, r) /\ log' = log /\ fresh' = fresh /\ w[i].pc = "open"
    BY DEF Begin
<1>3. w[i].pc \in Loaded
    BY <1>2 DEF Loaded
<1> HIDE DEF r
<1> QED BY <1>1, <1>2, <1>3, QuietStep

LEMMA SealOpenKeeps ==
    ASSUME LogInv, NEW i \in Instances, SealOpen(i) PROVE LogInv' /\ Grows
<1> DEFINE n == w[i].seen.next_id
           x == Append(w[i].rows, segs[n])
           r == [w[i] EXCEPT !.pc = "sealsync", !.rows = x]
<1>1. IsStore(r) /\ r.log = w[i].log
  <2> HIDE DEF x
  <2> QED BY DEF LogInv, Shape, IsStore, Fields
<1>2. Step(i, r) /\ log' = log /\ Token(i, Seg(n)) /\ w[i].pc = "seal"
    BY DEF SealOpen
<1>3. \A j \in Instances : <<j, Log>> \in fresh' => <<j, Log>> \in fresh
  <2> HIDE DEF n
  <2> QED BY <1>2, OtherTokens, TokensApart
<1>4. w[i].pc \in Loaded
    BY <1>2 DEF Loaded
<1> HIDE DEF r
<1> QED BY <1>1, <1>2, <1>3, <1>4, QuietStep

LEMMA SealSyncKeeps ==
    ASSUME LogInv, NEW i \in Instances, SealSync(i) PROVE LogInv' /\ Grows
<1> DEFINE n == w[i].seen.next_id
           m == w[i].seen
           x == SubSeq(w[i].rows, 1, Len(w[i].rows) - 1)
           y == [names |-> Append(m.names, n), next_id |-> n + 1,
                 version |-> m.version + 1]
           q == [w[i] EXCEPT !.pc = "sealpublish", !.seen = y]
           r == [w[i] EXCEPT !.pc = "open", !.rows = x]
<1>1. IsStore(q) /\ q.log = w[i].log
  <2> HIDE DEF y
  <2> QED BY DEF LogInv, Shape, IsStore, Fields
<1>2. IsStore(r) /\ r.log = w[i].log
  <2> HIDE DEF x
  <2> QED BY DEF LogInv, Shape, IsStore, Fields
<1>3. /\ Step(i, q) \/ Step(i, r)
      /\ log' = log /\ w[i].pc = "sealsync"
      /\ Landed(i, Seg(n)) \/ LandedUnseen(i, Seg(n)) \/ UNCHANGED fresh
    BY DEF SealSync
<1>4. \A j \in Instances : <<j, Log>> \in fresh' => <<j, Log>> \in fresh
  <2> HIDE DEF n
  <2> QED BY <1>3, OtherTokens, TokensApart
<1>5. w[i].pc \in Loaded
    BY <1>3 DEF Loaded
<1> HIDE DEF q, r
<1>6. CASE Step(i, q)
    BY <1>1, <1>3, <1>4, <1>5, <1>6, QuietStep
<1>7. CASE Step(i, r)
    BY <1>2, <1>3, <1>4, <1>5, <1>7, QuietStep
<1> QED BY <1>3, <1>6, <1>7

\* Either way a manifest put ends.
LEMMA PublishingKeeps ==
    ASSUME LogInv, NEW i \in Instances, NEW m, NEW p,
           w[i].pc \in Loaded, log' = log,
           Publish(i, m, p) \/ PublishFails(i, m)
    PROVE  LogInv' /\ Grows
<1> DEFINE q == [w[i] EXCEPT !.pc = p, !.seen = m]
           r == [w[i] EXCEPT !.pc = "open", !.seen = m]
<1>1. IsStore(q) /\ q.log = w[i].log /\ IsStore(r) /\ r.log = w[i].log
    BY DEF LogInv, Shape, IsStore, Fields
<1>2. /\ Step(i, q) \/ Step(i, r)
      /\ Landed(i, Man) \/ LandedUnseen(i, Man) \/ UNCHANGED fresh
    BY DEF Publish, PublishFails
<1>3. \A j \in Instances : <<j, Log>> \in fresh' => <<j, Log>> \in fresh
    BY <1>2, OtherTokens, TokensApart
<1> HIDE DEF q, r
<1>4. CASE Step(i, q)
    BY <1>1, <1>3, <1>4, QuietStep
<1>5. CASE Step(i, r)
    BY <1>1, <1>3, <1>5, QuietStep
<1> QED BY <1>2, <1>4, <1>5

LEMMA SealPublishKeeps ==
    ASSUME LogInv, NEW i \in Instances, SealPublish(i) PROVE LogInv' /\ Grows
<1>1. w[i].pc \in Loaded /\ log' = log
    BY DEF SealPublish, Loaded
<1>2. Publish(i, w[i].seen, "data") \/ PublishFails(i, w[i].seen)
    BY DEF SealPublish
<1> QED BY <1>1, <1>2, PublishingKeeps

LEMMA NoteCommitPointKeeps ==
    ASSUME LogInv, NEW i \in Instances, NoteCommitPoint(i) PROVE LogInv' /\ Grows
<1> DEFINE m == [w[i].seen EXCEPT !.version = @ + 1]
<1>1. w[i].pc \in Loaded /\ log' = log
    BY DEF NoteCommitPoint, Loaded
<1>2. Publish(i, m, "open") \/ PublishFails(i, m)
    BY DEF NoteCommitPoint
<1> HIDE DEF m
<1> QED BY <1>1, <1>2, PublishingKeeps

LEMMA PutDataKeeps ==
    ASSUME LogInv, NEW i \in Instances, PutData(i) PROVE LogInv' /\ Grows
<1> DEFINE o == Seg(Active(i))
           x == WithActive(i, Append(ActiveRows(i), w[i].stamp))
           q == [w[i] EXCEPT !.rows = x, !.pc = "put"]
           r == [w[i] EXCEPT !.pc = "open"]
<1>1. IsStore(q) /\ q.log = w[i].log /\ IsStore(r) /\ r.log = w[i].log
  <2> HIDE DEF x
  <2> QED BY DEF LogInv, Shape, IsStore, Fields
<1>2. /\ Step(i, q) \/ Step(i, r)
      /\ log' = log /\ w[i].pc = "data"
      /\ Landed(i, o) \/ LandedUnseen(i, o) \/ UNCHANGED fresh
    BY DEF PutData, Fail, Goto
<1>3. \A j \in Instances : <<j, Log>> \in fresh' => <<j, Log>> \in fresh
  <2>1. o # Log
    BY TokensApart
  <2> HIDE DEF o
  <2> QED BY <2>1, <1>2, OtherTokens
<1>4. w[i].pc \in Loaded
    BY <1>2 DEF Loaded
<1> HIDE DEF q, r
<1>5. CASE Step(i, q)
    BY <1>1, <1>2, <1>3, <1>4, <1>5, QuietStep
<1>6. CASE Step(i, r)
    BY <1>1, <1>2, <1>3, <1>4, <1>6, QuietStep
<1> QED BY <1>2, <1>5, <1>6

\* The one step that writes the log.  It lands on a token that is still the
\* object's, so the buffer it appended to is the log; every other token of the
\* log goes stale with it.
LEMMA PutLogKeeps ==
    ASSUME LogInv, NEW i \in Instances, PutLog(i) PROVE LogInv' /\ Grows
<1> DEFINE e == [row |-> Total(w[i].rows) - 1, stamp |-> w[i].stamp]
           l == Append(w[i].log, e)
           x == WithActive(i, SubSeq(ActiveRows(i), 1, Len(ActiveRows(i)) - 1))
           q == [w[i] EXCEPT !.log = l, !.pc = "publish"]
           r == [w[i] EXCEPT !.pc = "open", !.rows = x]
<1>1. /\ w[i].pc = "put"
      /\ \/ Landed(i, Log) /\ log' = l /\ Step(i, q)
         \/ LandedUnseen(i, Log) /\ log' = l /\ Step(i, r)
         \/ UNCHANGED fresh /\ log' = log /\ Step(i, r)
    BY DEF PutLog, RolledBack
<1>2. w[i].pc \in Loaded
    BY <1>1 DEF Loaded
<1>3. IsStore(q) /\ q.log = l
  <2> HIDE DEF l
  <2> QED BY DEF LogInv, Shape, IsStore, Fields
<1>4. IsStore(r) /\ r.log = w[i].log
  <2> HIDE DEF x
  <2> QED BY DEF LogInv, Shape, IsStore, Fields
<1> HIDE DEF e, q, r
<1>5. ASSUME <<i, Log>> \in fresh, log' = l
      PROVE  IsSeq(log') /\ Grows
  <2>1. w[i].log = log
    BY <1>2, <1>5 DEF LogInv, LogSeen
  <2>2. log' = Append(log, e)
    BY <2>1, <1>5
  <2> QED BY <2>2, AppendGrows DEF LogInv, Grows
<1> HIDE DEF l
<1>6. CASE Landed(i, Log) /\ log' = l /\ Step(i, q)
  <2>1. IsSeq(log') /\ Grows
    BY <1>5, <1>6 DEF Landed, Stale
  <2>2. Shape' /\ w'[i] = q
    BY <1>3, <1>6, StepMoves DEF LogInv
  <2>3. \A j \in Instances : <<j, Log>> \in fresh' => j = i
    BY <1>6 DEF Landed, WithoutTokens
  <2>4. LogSeen'
    BY <2>2, <2>3, <1>3, <1>6 DEF LogSeen
  <2> QED BY <2>1, <2>2, <2>4 DEF LogInv
<1>7. CASE LandedUnseen(i, Log) /\ log' = l /\ Step(i, r)
  <2>1. IsSeq(log') /\ Grows
    BY <1>5, <1>7 DEF LandedUnseen, Stale
  <2>2. Shape'
    BY <1>4, <1>7, StepMoves DEF LogInv
  <2>3. \A j \in Instances : <<j, Log>> \notin fresh'
    BY <1>7 DEF LandedUnseen, WithoutTokens
  <2>4. LogSeen'
    BY <2>3 DEF LogSeen
  <2> QED BY <2>1, <2>2, <2>4 DEF LogInv
<1>8. CASE UNCHANGED fresh /\ log' = log /\ Step(i, r)
    BY <1>2, <1>4, <1>8, QuietStep
<1> QED BY <1>1, <1>6, <1>7, <1>8

LEMMA CrashKeeps ==
    ASSUME LogInv, NEW i \in Instances, Crash(i) PROVE LogInv' /\ Grows
<1>1. IsStore(Out) /\ Out.pc = "out"
    BY DEF IsStore, Fields, Out
<1>2. Step(i, Out) /\ log' = log
    BY DEF Crash
<1>3. \A j \in Instances : <<j, Log>> \in fresh' => <<j, Log>> \in fresh
    BY DEF Crash
<1>4. Out.pc \notin Loaded
    BY <1>1 DEF Loaded
<1> QED BY <1>1, <1>2, <1>3, <1>4, QuietStep

LEMMA LogStep == LogInv /\ [Next]_vars => LogInv' /\ (Grows \/ UNCHANGED vars)
<1> SUFFICES ASSUME LogInv, [Next]_vars PROVE LogInv' /\ (Grows \/ UNCHANGED vars)
    OBVIOUS
<1>1. CASE UNCHANGED vars
    BY <1>1 DEF vars, LogInv, LogSeen, Shape, IsStore, IsSeq
<1>2. CASE Next
  <2> PICK i \in Instances :
        \/ Acquire(i) \/ LoadManifest(i) \/ LoadSegment(i) \/ CreateManifest(i)
        \/ ReadToken(i) \/ LoadLog(i)
        \/ Begin(i) \/ SealOpen(i) \/ SealSync(i) \/ SealPublish(i)
        \/ PutData(i) \/ PutLog(i) \/ NoteCommitPoint(i)
        \/ Crash(i)
    BY <1>2 DEF Next
  <2>1. CASE \/ Acquire(i) \/ LoadManifest(i) \/ LoadSegment(i) \/ CreateManifest(i)
             \/ ReadToken(i) \/ LoadLog(i)
    BY <2>1, AcquireKeeps, LoadManifestKeeps, LoadSegmentKeeps, CreateManifestKeeps,
       ReadTokenKeeps, LoadLogKeeps
  <2>2. CASE Begin(i) \/ SealOpen(i) \/ SealSync(i) \/ SealPublish(i)
    BY <2>2, BeginKeeps, SealOpenKeeps, SealSyncKeeps, SealPublishKeeps
  <2>3. CASE PutData(i) \/ PutLog(i) \/ NoteCommitPoint(i) \/ Crash(i)
    BY <2>3, PutDataKeeps, PutLogKeeps, NoteCommitPointKeeps, CrashKeeps
  <2> QED BY <2>1, <2>2, <2>3
<1> QED BY <1>1, <1>2

\* However many writers are superseded, restarted or have a put replayed, a
\* record in the log is never moved or lost: the conditional puts of
\* ObjectAppender::flush_object are enough for it, whatever the lease says.
THEOREM LogIsNeverOverwritten == Spec => LogOnlyGrows
<1>1. Init => LogInv
    BY LogInit
<1>2. LogInv /\ [Next]_vars => LogInv'
    BY LogStep
<1>3. LogInv /\ [Next]_vars => [Grows]_vars
    BY LogStep DEF vars
<1> QED BY <1>1, <1>2, <1>3, PTL DEF Spec, LogOnlyGrows, Grows

-----------------------------------------------------------------------------
(* Writers over one segment *)

\* Nobody seals, the store exists from the start, and a request is answered
\* once: Config's default, over a store that was made.
OneSegment == SegmentMaxRows = 0 /\ ~Unmade /\ ~Retries

\* The rows of a store of one segment.
LEMMA OneTotal ==
    ASSUME NEW c \in Seq(Seq(Nat)), Len(c) = 1
    PROVE  Total(c) = Len(c[1])
<1>1. 1 .. (Len(c) - 1) = {}
    OBVIOUS
<1>2. UNION {{k} \X DOMAIN c[k] : k \in 1 .. (Len(c) - 1)} = {}
    BY <1>1
<1>3. Before(c) = 0
    BY <1>2, FS_EmptySet DEF Before
<1>4. Len(c[1]) \in Nat
    OBVIOUS
<1> QED
    BY <1>3, <1>4 DEF Total

LEMMA OneRow ==
    ASSUME NEW c \in Seq(Seq(Nat)), Len(c) = 1, NEW r \in Nat, r < Len(c[1])
    PROVE  RowOf(c, r) = c[1][r + 1]
<1> DEFINE start(k) == Cardinality(UNION {{j} \X DOMAIN c[j] : j \in 1 .. (k - 1)})
           P(n) == start(n) <= r /\ r < start(n) + Len(c[n])
           k == CHOOSE n \in DOMAIN c : P(n)
<1>1. start(1) = 0
  <2>1. 1 .. (1 - 1) = {}
    OBVIOUS
  <2>2. UNION {{j} \X DOMAIN c[j] : j \in 1 .. (1 - 1)} = {}
    BY <2>1
  <2> QED
    BY <2>2, FS_EmptySet
<1>2. DOMAIN c = {1} /\ Len(c[1]) \in Nat
    OBVIOUS
<1>3. P(1)
    BY <1>1, <1>2
<1>4. k \in DOMAIN c
  <2> HIDE DEF P
  <2> QED
    BY <1>2, <1>3
<1>5. k = 1
    BY <1>2, <1>4
<1>6. RowOf(c, r) = c[k][r - start(k) + 1]
    BY DEF RowOf
<1> HIDE DEF k, start
<1>7. start(k) = 0
    BY <1>1, <1>5
<1>8. RowOf(c, r) = c[1][r - 0 + 1]
    BY <1>5, <1>6, <1>7
<1> QED
    BY <1>8

\* A manifest of the one segment.
Flat(m) == m = [names |-> <<0>>, next_id |-> m.next_id, version |-> m.version]

\* The places before the segment is loaded, and after.
Unloaded == {"out", "manifest", "segments"}
Rowed == {"token", "log", "open", "data", "put", "publish"}

\* What an instance's store is at each place.
Place(r) ==
    /\ r.pc \in Unloaded \cup Rowed /\ r.stamp \in Nat
    /\ r.pc \in Unloaded => r.rows = <<>> /\ r.stamp = 0
    /\ r.pc \in {"segments"} \cup Rowed => Flat(r.seen)
    /\ r.pc \in Rowed => r.rows \in Seq(Seq(Nat)) /\ Len(r.rows) = 1
    /\ r.pc = "put" => Len(r.rows[1]) # 0 /\ r.rows[1][Len(r.rows[1])] = r.stamp

\* The rows an instance goes back to when the put of its log is refused, and
\* the rows the next batch is appended to.
Base(r) == IF r.pc = "put" THEN SubSeq(r.rows[1], 1, Len(r.rows[1]) - 1) ELSE r.rows[1]

\* Rows s hold, at position n, the vector of batch x.
Has(s, n, x) == n \in 1 .. Len(s) /\ s[n] = x

\* Rows s hold the vector of every record of log l, and of the batch whose
\* record instance r is about to put.
Covers(s, l) == \A k \in DOMAIN l : l[k].row \in Nat /\ Has(s, l[k].row + 1, l[k].stamp)
Pending(r, s) == r.pc = "put" => Has(s, Len(r.rows[1]), r.stamp)

Mine(i) == <<i, Seg(0)>> \in fresh

Logged(l, s) == \E k \in DOMAIN l : l[k].stamp = s

Places ==
    /\ segs = [n \in SegName |-> segs[n]] /\ segs[0] \in Seq(Nat)
    /\ batches \in Nat /\ Flat(manifest)
    /\ \A i \in Instances : Place(w[i]) /\ (Mine(i) => w[i].pc \in Rowed)

\* What is in the log, and what may still come into it, is in the segment.
SegmentCovers == Covers(segs[0], log) /\ \A i \in Instances : Pending(w[i], segs[0])

\* It is also in the base of every writer that could still overwrite the
\* segment: a row such a writer takes back is its own and in no log.
BasesCover ==
    \A k \in Instances : Mine(k) =>
        /\ Covers(Base(w[k]), log)
        /\ \A i \in Instances : i # k => Pending(w[i], Base(w[k]))

Committed ==
    /\ \A i \in Instances : w[i].pc = "publish" => Logged(log, w[i].stamp)
    /\ \A s \in acked : Logged(log, s)

SharedInv == Places /\ SegmentCovers /\ BasesCover /\ Committed

\* A step that writes neither the segment nor the log: the instance keeps its
\* base, or has just loaded the segment.
LEMMA KeepsSegment ==
    ASSUME LogInv, SharedInv, NEW i \in Instances, NEW r, IsStore(r), Step(i, r),
           Place(r), r.pc \notin {"put", "publish"},
           segs' = segs, log' = log, Flat(manifest'), batches' \in Nat,
           \A s \in acked' : s \in acked \/ Logged(log, s),
           \A j \in Instances : j # i /\ Mine(j)' => Mine(j),
           Mine(i)' => /\ r.pc \in Rowed
                       /\ Base(r) = segs[0] \/ (Mine(i) /\ Base(r) = Base(w[i]))
    PROVE  SharedInv'
<1>0. Places /\ SegmentCovers /\ BasesCover /\ Committed
    BY DEF SharedInv
<1>1. w'[i] = r /\ \A j \in Instances : j # i => w'[j] = w[j]
    BY StepMoves DEF LogInv
<1>2. Places'
    BY <1>0, <1>1 DEF Places
<1>3. SegmentCovers'
    BY <1>0, <1>1 DEF SegmentCovers, Pending
<1>4. BasesCover'
  <2> SUFFICES ASSUME NEW k \in Instances, Mine(k)'
               PROVE  /\ Covers(Base(w'[k]), log)
                      /\ \A j \in Instances : j # k => Pending(w'[j], Base(w'[k]))
    BY DEF BasesCover
  <2>1. CASE k # i
    <3>1. Mine(k) /\ w'[k] = w[k]
      BY <1>1, <2>1
    <3>2. Covers(Base(w[k]), log) /\ \A j \in Instances : j # k => Pending(w[j], Base(w[k]))
      BY <1>0, <3>1 DEF BasesCover
    <3>3. \A j \in Instances : j # k => Pending(w'[j], Base(w[k]))
      BY <1>1, <3>2 DEF Pending
    <3> QED
      BY <3>1, <3>2, <3>3
  <2>2. CASE k = i
    <3>1. CASE Base(r) = segs[0]
      BY <1>0, <1>1, <2>2, <3>1 DEF SegmentCovers
    <3>2. CASE Mine(i) /\ Base(r) = Base(w[i])
      BY <1>0, <1>1, <2>2, <3>2 DEF BasesCover
    <3> QED
      BY <2>2, <3>1, <3>2
  <2> QED
    BY <2>1, <2>2
<1>5. Committed'
    BY <1>0, <1>1 DEF Committed
<1> QED
    BY <1>2, <1>3, <1>4, <1>5 DEF SharedInv

LEMMA SharedInit ==
    ASSUME ClusterStoreAssumption, OneSegment, Init
    PROVE  SharedInv
<1>1. /\ segs = [n \in SegName |-> <<>>] /\ log = <<>> /\ manifest = FreshManifest
      /\ fresh = {} /\ acked = {} /\ batches = 0 /\ w = [i \in Instances |-> Out]
    BY DEF Init, OneSegment
<1>2. 0 \in SegName /\ <<>> \in Seq(Nat)
    BY DEF SegName, ClusterStoreAssumption
<1>3. Place(Out)
    BY DEF Place, Out, Unloaded, Rowed
<1>4. Flat(manifest)
    BY <1>1 DEF Flat, FreshManifest
<1>5. Places
    BY <1>1, <1>2, <1>3, <1>4 DEF Places, Mine
<1>6. \A i \in Instances : w[i].pc = "out"
    BY <1>1 DEF Out
<1>7. SegmentCovers /\ BasesCover /\ Committed
    BY <1>1, <1>6 DEF SegmentCovers, Covers, Pending, BasesCover, Mine, Committed
<1> QED
    BY <1>5, <1>7 DEF SharedInv

\* The log and the manifest have tokens of their own.
LEMMA SegmentApart == Man # Seg(0) /\ Log # Seg(0)
BY DEF Man, Log, Seg

\* Taking or passing on another object's token adds none of the segment.
LEMMA SegmentTokens ==
    ASSUME NEW i, NEW o, o # Seg(0), Token(i, o) \/ Landed(i, o) \/ UNCHANGED fresh
    PROVE  \A j \in Instances : Mine(j)' => Mine(j)
BY DEF Token, Landed, WithoutTokens, Mine

\* Before the segment is loaded, and between that and the batch, an instance
\* changes nothing that is shared.
LEMMA AcquireShares ==
    ASSUME LogInv, SharedInv, NEW i \in Instances, Acquire(i) PROVE SharedInv'
<1> DEFINE r == [w[i] EXCEPT !.pc = "manifest"]
<1>0. Place(w[i]) /\ (Mine(i) => w[i].pc \in Rowed) /\ batches \in Nat /\ Flat(manifest)
    BY DEF SharedInv, Places
<1>1. IsStore(r) /\ r.pc = "manifest" /\ r.rows = w[i].rows /\ r.stamp = w[i].stamp
    BY DEF LogInv, Shape, IsStore, Fields
<1>2. /\ Step(i, r) /\ log' = log /\ fresh' = fresh /\ w[i].pc = "out"
      /\ segs' = segs /\ manifest' = manifest /\ acked' = acked /\ batches' = batches
    BY DEF Acquire, Goto
<1> HIDE DEF r
<1>3. Place(r)
    BY <1>0, <1>1, <1>2 DEF Place, Unloaded, Rowed
<1>4. \A j \in Instances : Mine(j)' => Mine(j)
    BY <1>2 DEF Mine
<1>5. ~Mine(i)
    BY <1>0, <1>2 DEF Rowed
<1> QED
    BY <1>0, <1>1, <1>2, <1>3, <1>4, <1>5, KeepsSegment

LEMMA LoadManifestShares ==
    ASSUME LogInv, SharedInv, NEW i \in Instances, LoadManifest(i) PROVE SharedInv'
<1> DEFINE r == [w[i] EXCEPT !.pc = "segments", !.seen = manifest, !.stamp = 0]
<1>0. Place(w[i]) /\ (Mine(i) => w[i].pc \in Rowed) /\ batches \in Nat /\ Flat(manifest)
    BY DEF SharedInv, Places
<1>1. IsStore(r) /\ r.pc = "segments" /\ r.rows = w[i].rows /\ r.stamp = 0 /\ r.seen = manifest
    BY DEF LogInv, Shape, IsStore, Fields
<1>2. manifest # NoManifest
  <2>1. manifest.names = <<0>>
    BY <1>0 DEF Flat
  <2>2. NoManifest.names = <<>>
    BY DEF NoManifest
  <2> QED
    BY <2>1, <2>2
<1>3. /\ Step(i, r) /\ log' = log /\ fresh' = fresh /\ w[i].pc = "manifest"
      /\ segs' = segs /\ manifest' = manifest /\ acked' = acked /\ batches' = batches
    BY <1>2 DEF LoadManifest
<1> HIDE DEF r
<1>4. Place(r)
    BY <1>0, <1>1, <1>3 DEF Place, Unloaded, Rowed
<1>5. \A j \in Instances : Mine(j)' => Mine(j)
    BY <1>3 DEF Mine
<1>6. ~Mine(i)
    BY <1>0, <1>3 DEF Rowed
<1> QED
    BY <1>0, <1>1, <1>3, <1>4, <1>5, <1>6, KeepsSegment

\* The segment is read with its token in one request.
LEMMA LoadSegmentShares ==
    ASSUME LogInv, SharedInv, NEW i \in Instances, LoadSegment(i) PROVE SharedInv'
<1> DEFINE r == [w[i] EXCEPT !.rows = Append(@, segs[0]), !.pc = "token"]
<1>0. /\ Place(w[i]) /\ batches \in Nat /\ Flat(manifest) /\ segs[0] \in Seq(Nat)
    BY DEF SharedInv, Places
<1>1. w[i].pc = "segments"
    BY DEF LoadSegment
<1>2. w[i].rows = <<>> /\ w[i].stamp = 0 /\ Flat(w[i].seen)
    BY <1>0, <1>1 DEF Place, Unloaded
<1>3. Names(i) = <<0>> /\ Len(w[i].rows) + 1 = 1 /\ Len(Names(i)) = 1 /\ Names(i)[1] = 0
    BY <1>2 DEF Flat, Names
<1>4. /\ Token(i, Seg(0)) /\ Step(i, r) /\ log' = log
      /\ segs' = segs /\ manifest' = manifest /\ acked' = acked /\ batches' = batches
  <2>1. /\ Token(i, Seg(Names(i)[1]))
        /\ Step(i, [w[i] EXCEPT !.rows = Append(@, segs[Names(i)[1]]),
                       !.pc = IF 1 < Len(Names(i)) THEN "segments"
                              ELSE IF w[i].stamp = 1 THEN "create" ELSE "token"])
    BY <1>3 DEF LoadSegment
  <2> QED
    BY <1>2, <1>3, <2>1 DEF LoadSegment
<1>5. Append(w[i].rows, segs[0]) \in Seq(Seq(Nat)) /\ Len(Append(w[i].rows, segs[0])) = 1
      /\ Append(w[i].rows, segs[0])[1] = segs[0]
    BY <1>0, <1>2
<1>6. /\ IsStore(r) /\ r.pc = "token" /\ r.rows = Append(w[i].rows, segs[0])
      /\ r.stamp = w[i].stamp /\ r.seen = w[i].seen
    BY DEF LogInv, Shape, IsStore, Fields
<1> HIDE DEF r
<1>7. Place(r)
    BY <1>2, <1>5, <1>6 DEF Place, Unloaded, Rowed
<1>8. Base(r) = segs[0] /\ r.pc \in Rowed
    BY <1>5, <1>6 DEF Base, Rowed
<1>9. \A j \in Instances : j # i /\ Mine(j)' => Mine(j)
    BY <1>4 DEF Mine, Token
<1> QED
    BY <1>0, <1>4, <1>6, <1>7, <1>8, <1>9, KeepsSegment

LEMMA ReadTokenShares ==
    ASSUME LogInv, SharedInv, NEW i \in Instances, ReadToken(i) PROVE SharedInv'
<1> DEFINE r == [w[i] EXCEPT !.pc = "log"]
<1>0. Place(w[i]) /\ batches \in Nat /\ Flat(manifest)
    BY DEF SharedInv, Places
<1>1. /\ IsStore(r) /\ r.pc = "log" /\ r.rows = w[i].rows /\ r.stamp = w[i].stamp
      /\ r.seen = w[i].seen
    BY DEF LogInv, Shape, IsStore, Fields
<1>2. /\ Step(i, r) /\ log' = log /\ Token(i, Man) /\ w[i].pc = "token"
      /\ segs' = segs /\ manifest' = manifest /\ acked' = acked /\ batches' = batches
    BY DEF ReadToken, Goto
<1> HIDE DEF r
<1>3. Place(r) /\ r.pc \in Rowed /\ Base(r) = Base(w[i])
    BY <1>0, <1>1, <1>2 DEF Place, Unloaded, Rowed, Base
<1>4. \A j \in Instances : Mine(j)' => Mine(j)
    BY <1>2, SegmentApart, SegmentTokens
<1> QED
    BY <1>0, <1>1, <1>2, <1>3, <1>4, KeepsSegment

LEMMA LoadLogShares ==
    ASSUME LogInv, SharedInv, NEW i \in Instances, LoadLog(i) PROVE SharedInv'
<1> DEFINE r == [w[i] EXCEPT !.pc = "open", !.log = log, !.stamp = 0]
<1>0. Place(w[i]) /\ batches \in Nat /\ Flat(manifest)
    BY DEF SharedInv, Places
<1>1. /\ IsStore(r) /\ r.pc = "open" /\ r.rows = w[i].rows /\ r.stamp = 0
      /\ r.seen = w[i].seen
    BY DEF LogInv, Shape, IsStore, Fields
<1>2. /\ Step(i, r) /\ log' = log /\ Token(i, Log) /\ w[i].pc = "log"
      /\ segs' = segs /\ manifest' = manifest /\ acked' = acked /\ batches' = batches
    BY DEF LoadLog
<1> HIDE DEF r
<1>3. Place(r) /\ r.pc \in Rowed /\ Base(r) = Base(w[i])
    BY <1>0, <1>1, <1>2 DEF Place, Unloaded, Rowed, Base
<1>4. \A j \in Instances : Mine(j)' => Mine(j)
    BY <1>2, SegmentApart, SegmentTokens
<1> QED
    BY <1>0, <1>1, <1>2, <1>3, <1>4, KeepsSegment

LEMMA BeginShares ==
    ASSUME OneSegment, LogInv, SharedInv, NEW i \in Instances, Begin(i) PROVE SharedInv'
<1> DEFINE r == [w[i] EXCEPT !.stamp = batches + 1, !.pc = "data"]
<1>0. Place(w[i]) /\ batches \in Nat /\ Flat(manifest)
    BY DEF SharedInv, Places
<1>1. /\ IsStore(r) /\ r.pc = "data" /\ r.rows = w[i].rows /\ r.stamp = batches + 1
      /\ r.seen = w[i].seen
    BY DEF LogInv, Shape, IsStore, Fields
<1>2. ~NeedsSeal(i)
    BY DEF NeedsSeal, OneSegment
<1>3. /\ Step(i, r) /\ log' = log /\ fresh' = fresh /\ w[i].pc = "open"
      /\ segs' = segs /\ manifest' = manifest /\ acked' = acked /\ batches' = batches + 1
    BY <1>2 DEF Begin
<1> HIDE DEF r
<1>4. Place(r) /\ r.pc \in Rowed /\ Base(r) = Base(w[i])
    BY <1>0, <1>1, <1>3 DEF Place, Unloaded, Rowed, Base
<1>5. \A j \in Instances : Mine(j)' => Mine(j)
    BY <1>3 DEF Mine
<1> QED
    BY <1>0, <1>1, <1>3, <1>4, <1>5, KeepsSegment

LEMMA CrashShares ==
    ASSUME LogInv, SharedInv, NEW i \in Instances, Crash(i) PROVE SharedInv'
<1>0. batches \in Nat /\ Flat(manifest)
    BY DEF SharedInv, Places
<1>1. IsStore(Out) /\ Out.pc = "out" /\ Place(Out)
    BY DEF IsStore, Fields, Out, Place, Unloaded, Rowed
<1>2. /\ Step(i, Out) /\ log' = log
      /\ segs' = segs /\ manifest' = manifest /\ acked' = acked /\ batches' = batches
    BY DEF Crash
<1>3. ~Mine(i)' /\ \A j \in Instances : Mine(j)' => Mine(j)
    BY DEF Crash, Mine
<1> QED
    BY <1>0, <1>1, <1>2, <1>3, KeepsSegment

\* The manifest, the last of the three puts: the batch's record is in the log,
\* so it may be reported.
LEMMA NoteCommitPointShares ==
    ASSUME OneSegment, LogInv, SharedInv, NEW i \in Instances, NoteCommitPoint(i) PROVE SharedInv'
<1> DEFINE m == [w[i].seen EXCEPT !.version = @ + 1]
           r == [w[i] EXCEPT !.pc = "open", !.seen = m]
<1>0. Place(w[i]) /\ batches \in Nat /\ Flat(manifest) /\ Committed
    BY DEF SharedInv, Places
<1>1. w[i].pc = "publish" /\ log' = log /\ segs' = segs /\ batches' = batches
    BY DEF NoteCommitPoint
<1>2. Flat(w[i].seen)
    BY <1>0, <1>1 DEF Place, Rowed
<1>3. Flat(m)
  <2> DEFINE s == w[i].seen
  <2>1. s = [names |-> <<0>>, next_id |-> s.next_id, version |-> s.version]
    BY <1>2 DEF Flat
  <2> HIDE DEF s
  <2>2. [s EXCEPT !.version = @ + 1]
          = [names |-> <<0>>, next_id |-> s.next_id, version |-> s.version + 1]
    BY <2>1
  <2> QED
    BY <2>2 DEF Flat, s
<1> HIDE DEF m
<1>4. /\ IsStore(r) /\ r.pc = "open" /\ r.rows = w[i].rows /\ r.stamp = w[i].stamp /\ r.seen = m
    BY DEF LogInv, Shape, IsStore, Fields
<1>5. /\ Step(i, r)
      /\ \/ Landed(i, Man) /\ manifest' = m /\ acked' = acked \cup {w[i].stamp}
         \/ UNCHANGED <<fresh, manifest, acked>>
    BY DEF NoteCommitPoint, Publish, PublishFails, LandedUnseen, OneSegment, m
<1> HIDE DEF r
<1>6. Place(r) /\ r.pc \in Rowed /\ Base(r) = Base(w[i])
    BY <1>0, <1>1, <1>3, <1>4 DEF Place, Unloaded, Rowed, Base
<1>7. \A j \in Instances : Mine(j)' => Mine(j)
    BY <1>5, SegmentApart, SegmentTokens
<1>8. \A s \in acked' : s \in acked \/ Logged(log, s)
    BY <1>0, <1>1, <1>5 DEF Committed
<1>9. Flat(manifest')
    BY <1>0, <1>3, <1>5
<1> QED
    BY <1>0, <1>1, <1>4, <1>5, <1>6, <1>7, <1>8, <1>9, KeepsSegment

\* A row appended, and taken back.
LEMMA OneMore ==
    ASSUME NEW s \in Seq(Nat), NEW x \in Nat
    PROVE  /\ Append(s, x) \in Seq(Nat) /\ Len(Append(s, x)) = Len(s) + 1
           /\ SubSeq(Append(s, x), 1, Len(Append(s, x)) - 1) = s
           /\ Has(Append(s, x), Len(Append(s, x)), x)
           /\ \A n, y : Has(s, n, y) => Has(Append(s, x), n, y)
<1> DEFINE t == Append(s, x)
<1>1. /\ t \in Seq(Nat) /\ Len(t) = Len(s) + 1 /\ t[Len(s) + 1] = x
      /\ \A n \in 1 .. Len(s) : t[n] = s[n]
    BY AppendProperties
<1>2. Len(s) \in Nat
    OBVIOUS
<1> HIDE DEF t
<1>3. SubSeq(t, 1, Len(t) - 1) = s
  <2>1. Len(t) - 1 = Len(s)
    BY <1>1, <1>2
  <2>2. /\ SubSeq(t, 1, Len(s)) \in Seq(Nat) /\ Len(SubSeq(t, 1, Len(s))) = Len(s)
        /\ \A n \in 1 .. Len(s) : SubSeq(t, 1, Len(s))[n] = t[n]
    BY <1>1, <1>2
  <2> HIDE DEF t
  <2> QED
    BY <1>1, <2>1, <2>2, SeqEqual
<1>4. Has(t, Len(t), x) /\ \A n, y : Has(s, n, y) => Has(t, n, y)
    BY <1>1, <1>2 DEF Has
<1> QED
    BY <1>1, <1>3, <1>4 DEF t

LEMMA OneLess ==
    ASSUME NEW t \in Seq(Nat), Len(t) # 0
    PROVE  /\ SubSeq(t, 1, Len(t) - 1) \in Seq(Nat)
           /\ \A n, y : Has(SubSeq(t, 1, Len(t) - 1), n, y) => Has(t, n, y)
<1>1. Len(t) - 1 \in Nat /\ Len(t) \in Nat
    OBVIOUS
<1> DEFINE m == Len(t) - 1
<1>2. m \in Nat /\ m <= Len(t)
    BY <1>1
<1> HIDE DEF m
<1>3. /\ SubSeq(t, 1, m) \in Seq(Nat) /\ Len(SubSeq(t, 1, m)) = m
      /\ \A n \in 1 .. m : SubSeq(t, 1, m)[n] = t[n]
    BY <1>1, <1>2
<1> QED
    BY <1>1, <1>2, <1>3 DEF Has, m

\* The one segment of a store, replaced.
LEMMA OneReplaced ==
    ASSUME NEW c \in Seq(Seq(Nat)), Len(c) = 1, NEW s \in Seq(Nat)
    PROVE  /\ [c EXCEPT ![Len(c)] = s] \in Seq(Seq(Nat))
           /\ Len([c EXCEPT ![Len(c)] = s]) = 1 /\ [c EXCEPT ![Len(c)] = s][1] = s
<1> DEFINE S == Seq(Nat)
           d == [c EXCEPT ![Len(c)] = s]
<1>1. s \in S /\ Len(c) \in DOMAIN c /\ DOMAIN c = 1 .. 1
    OBVIOUS
<1> HIDE DEF S
<1>2. DOMAIN d = DOMAIN c /\ d[Len(c)] = s
    BY <1>1
<1>3. d = [j \in DOMAIN c |-> d[j]]
    BY <1>1, Zenon
<1> HIDE DEF d
<1>4. d = [j \in 1 .. 1 |-> s]
    BY <1>1, <1>2, <1>3
<1>5. [j \in 1 .. 1 |-> s] \in Seq(S) /\ Len([j \in 1 .. 1 |-> s]) = 1
    BY <1>1
<1>6. d \in Seq(S) /\ Len(d) = 1 /\ d[1] = s
    BY <1>4, <1>5
<1> QED
    BY <1>6 DEF S, d

\* The put of the segment lands on a token that is still the object's: it
\* replaces the segment by the writer's base and one row, and only this writer
\* may overwrite it next.
LEMMA PutDataShares ==
    ASSUME ClusterStoreAssumption, OneSegment, LogInv, SharedInv, NEW i \in Instances, PutData(i)
    PROVE  SharedInv'
<1> DEFINE s == w[i].rows[1]
           t == Append(s, w[i].stamp)
           x == [w[i].rows EXCEPT ![Len(w[i].rows)] = t]
           q == [w[i] EXCEPT !.rows = x, !.pc = "put"]
           r == [w[i] EXCEPT !.pc = "open"]
<1>0. /\ Places /\ SegmentCovers /\ BasesCover /\ Committed
      /\ Place(w[i]) /\ batches \in Nat /\ Flat(manifest)
    BY DEF SharedInv, Places
<1>1. /\ w[i].pc = "data" /\ log' = log /\ manifest' = manifest /\ acked' = acked
      /\ batches' = batches
    BY DEF PutData
<1>2. /\ w[i].rows \in Seq(Seq(Nat)) /\ Len(w[i].rows) = 1 /\ Flat(w[i].seen)
      /\ w[i].stamp \in Nat
    BY <1>0, <1>1 DEF Place, Rowed
<1>3. ActiveRows(i) = s /\ Active(i) = 0 /\ WithActive(i, t) = x /\ s \in Seq(Nat)
  <2>1. Names(i) = <<0>>
    BY <1>2 DEF Flat, Names
  <2>2. Active(i) = 0
    BY <2>1 DEF Active
  <2>3. s \in Seq(Nat)
    BY <1>2
  <2> QED
    BY <1>2, <2>2, <2>3 DEF ActiveRows, WithActive
<1>4. \/ Landed(i, Seg(0)) /\ segs' = [segs EXCEPT ![0] = t] /\ Step(i, q)
      \/ UNCHANGED <<fresh, segs>> /\ Step(i, r)
    BY <1>3 DEF PutData, Fail, Goto, LandedUnseen, OneSegment
<1>5. CASE UNCHANGED <<fresh, segs>> /\ Step(i, r)
  <2>1. /\ IsStore(r) /\ r.pc = "open" /\ r.rows = w[i].rows /\ r.stamp = w[i].stamp
        /\ r.seen = w[i].seen
    BY DEF LogInv, Shape, IsStore, Fields
  <2> HIDE DEF r
  <2>2. Place(r) /\ r.pc \in Rowed /\ Base(r) = Base(w[i])
    BY <1>0, <1>1, <2>1 DEF Place, Unloaded, Rowed, Base
  <2>3. \A j \in Instances : Mine(j)' => Mine(j)
    BY <1>5 DEF Mine
  <2> QED
    BY <1>0, <1>1, <1>5, <2>1, <2>2, <2>3, KeepsSegment
<1>6. CASE Landed(i, Seg(0)) /\ segs' = [segs EXCEPT ![0] = t] /\ Step(i, q)
  <2>1. /\ t \in Seq(Nat) /\ Len(t) = Len(s) + 1 /\ SubSeq(t, 1, Len(t) - 1) = s
        /\ Has(t, Len(t), w[i].stamp) /\ \A n, y : Has(s, n, y) => Has(t, n, y)
    BY <1>2, <1>3, OneMore
  <2> HIDE DEF t
  <2>2. x \in Seq(Seq(Nat)) /\ Len(x) = 1 /\ x[1] = t
    BY <1>2, <2>1, OneReplaced
  <2> HIDE DEF x
  <2>3. /\ IsStore(q) /\ q.pc = "put" /\ q.rows = x /\ q.stamp = w[i].stamp /\ q.seen = w[i].seen
    BY DEF LogInv, Shape, IsStore, Fields
  <2> HIDE DEF q
  <2>4. w'[i] = q /\ \A j \in Instances : j # i => w'[j] = w[j]
    BY <1>6, <2>3, StepMoves DEF LogInv
  <2>5. Mine(i) /\ \A j \in Instances : Mine(j)' => j = i
    BY <1>6 DEF Landed, Stale, WithoutTokens, Mine
  <2>6. /\ Covers(s, log) /\ \A j \in Instances : j # i => Pending(w[j], s)
    BY <1>0, <1>1, <2>5 DEF BasesCover, Base
  <2>7. segs'[0] = t /\ segs' = [n \in SegName |-> segs'[n]]
    <3>1. 0 \in SegName
      BY DEF SegName, ClusterStoreAssumption
    <3>2. segs = [n \in SegName |-> segs[n]]
      BY <1>0 DEF Places
    <3> QED
      BY <1>6, <3>1, <3>2
  <2>8. Has(t, Len(t), q.stamp) /\ Len(t) # 0 /\ t[Len(t)] = q.stamp
    BY <2>1, <2>3 DEF Has
  <2>9. Place(q) /\ q.pc \in Rowed
    BY <1>2, <2>2, <2>3, <2>8 DEF Place, Unloaded, Rowed
  <2>10. Places'
    BY <1>0, <1>1, <2>1, <2>4, <2>5, <2>7, <2>9 DEF Places
  <2>11. Covers(t, log) /\ \A j \in Instances : Pending(w'[j], t)
    BY <2>1, <2>2, <2>3, <2>4, <2>6, <2>8 DEF Covers, Pending
  <2>12. SegmentCovers'
    BY <1>1, <2>7, <2>11 DEF SegmentCovers
  <2>13. Base(q) = s
    BY <2>1, <2>2, <2>3 DEF Base
  <2>14. BasesCover'
    <3>1. \A j \in Instances : j # i => Pending(w'[j], s)
      BY <2>4, <2>6
    <3> QED
      BY <1>1, <2>4, <2>5, <2>6, <2>13, <3>1 DEF BasesCover
  <2>15. Committed'
    BY <1>0, <1>1, <2>3, <2>4 DEF Committed
  <2> QED
    BY <2>10, <2>12, <2>14, <2>15 DEF SharedInv
<1> QED
    BY <1>4, <1>5, <1>6

\* The put of the log lands on a token that is still the object's: the record
\* names the row this writer put, which is where it was left by whoever put
\* the segment since.  A refused put takes the row back, in RAM only.
LEMMA PutLogShares ==
    ASSUME OneSegment, LogInv, SharedInv, NEW i \in Instances, PutLog(i)
    PROVE  SharedInv'
<1> DEFINE s == w[i].rows[1]
           u == SubSeq(s, 1, Len(s) - 1)
           e == [row |-> Len(s) - 1, stamp |-> w[i].stamp]
           l == Append(w[i].log, e)
           x == [w[i].rows EXCEPT ![Len(w[i].rows)] = u]
           q == [w[i] EXCEPT !.log = l, !.pc = "publish"]
           r == [w[i] EXCEPT !.pc = "open", !.rows = x]
<1>0. /\ Places /\ SegmentCovers /\ BasesCover /\ Committed
      /\ Place(w[i]) /\ batches \in Nat /\ Flat(manifest)
    BY DEF SharedInv, Places
<1>1. /\ w[i].pc = "put" /\ segs' = segs /\ manifest' = manifest /\ acked' = acked
      /\ batches' = batches
    BY DEF PutLog
<1>2. /\ w[i].rows \in Seq(Seq(Nat)) /\ Len(w[i].rows) = 1 /\ Flat(w[i].seen)
      /\ w[i].stamp \in Nat /\ Len(s) # 0 /\ s[Len(s)] = w[i].stamp
    BY <1>0, <1>1 DEF Place, Rowed
<1>3. ActiveRows(i) = s /\ s \in Seq(Nat) /\ Total(w[i].rows) = Len(s)
    BY <1>2, OneTotal DEF ActiveRows
<1>4. WithActive(i, u) = x
    BY <1>2 DEF WithActive
<1>5. \/ Landed(i, Log) /\ log' = l /\ Step(i, q)
      \/ UNCHANGED <<fresh, log>> /\ Step(i, r)
    BY <1>3, <1>4 DEF PutLog, RolledBack, LandedUnseen, OneSegment
<1>6. u \in Seq(Nat) /\ \A n, y : Has(u, n, y) => Has(s, n, y)
    BY <1>2, <1>3, OneLess
<1>7. Base(w[i]) = u
    BY <1>1 DEF Base
<1> HIDE DEF u
<1>8. x \in Seq(Seq(Nat)) /\ Len(x) = 1 /\ x[1] = u
    BY <1>2, <1>6, OneReplaced
<1> HIDE DEF x
<1>9. CASE UNCHANGED <<fresh, log>> /\ Step(i, r)
  <2>1. /\ IsStore(r) /\ r.pc = "open" /\ r.rows = x /\ r.stamp = w[i].stamp
        /\ r.seen = w[i].seen
    BY DEF LogInv, Shape, IsStore, Fields
  <2> HIDE DEF r
  <2>2. Place(r) /\ r.pc \in Rowed
    BY <1>2, <1>8, <2>1 DEF Place, Unloaded, Rowed
  <2>3. Base(r) = Base(w[i])
    BY <1>7, <1>8, <2>1 DEF Base
  <2>4. \A j \in Instances : Mine(j)' => Mine(j)
    BY <1>9 DEF Mine
  <2> QED
    BY <1>0, <1>1, <1>9, <2>1, <2>2, <2>3, <2>4, KeepsSegment
<1>10. CASE Landed(i, Log) /\ log' = l /\ Step(i, q)
  <2>1. w[i].log = log
    BY <1>1, <1>10 DEF LogInv, LogSeen, Loaded, Landed, Stale
  <2>2. /\ IsStore(q) /\ q.pc = "publish" /\ q.rows = w[i].rows /\ q.stamp = w[i].stamp
        /\ q.seen = w[i].seen
    <3> HIDE DEF l
    <3> QED
      BY DEF LogInv, Shape, IsStore, Fields
  <2> HIDE DEF q
  <2>3. w'[i] = q /\ \A j \in Instances : j # i => w'[j] = w[j]
    BY <1>10, <2>2, StepMoves DEF LogInv
  <2>4. e.row \in Nat /\ e.row + 1 = Len(s) /\ e.stamp = w[i].stamp /\ Has(s, Len(s), w[i].stamp)
    BY <1>2, <1>3 DEF Has
  <2> HIDE DEF e, s
  <2>5. log' = Append(log, e)
    BY <1>10, <2>1
  <2>6. \A k \in DOMAIN log' : log'[k] = e \/ (k \in DOMAIN log /\ log'[k] = log[k])
    <3>1. PICK S : log \in Seq(S)
      BY DEF LogInv, IsSeq
    <3>2. log \in Seq(S \cup {e})
      BY <3>1
    <3> QED
      BY <2>5, <3>2
  <2>7. /\ \A k \in DOMAIN log : k \in DOMAIN log' /\ log'[k] = log[k]
        /\ \E k \in DOMAIN log' : log'[k] = e
    <3>1. PICK S : log \in Seq(S)
      BY DEF LogInv, IsSeq
    <3>2. log \in Seq(S \cup {e})
      BY <3>1
    <3>3. /\ DOMAIN log = 1 .. Len(log) /\ Len(log) \in Nat
          /\ DOMAIN log' = 1 .. (Len(log) + 1) /\ log'[Len(log) + 1] = e
          /\ \A k \in 1 .. Len(log) : log'[k] = log[k]
      BY <2>5, <3>2, AppendProperties, LenProperties
    <3> QED
      BY <3>3
  <2>8. \A z : Covers(z, log) /\ Has(z, Len(s), w[i].stamp) => Covers(z, log')
    BY <2>4, <2>6 DEF Covers
  <2>9. \A y : Logged(log, y) => Logged(log', y)
    BY <2>7 DEF Logged
  <2>10. \A j \in Instances : Mine(j)' => Mine(j)
    BY <1>10, SegmentApart, SegmentTokens
  <2>11. Place(q) /\ q.pc \in Rowed
    BY <1>2, <2>2 DEF Place, Unloaded, Rowed
  <2>12. Places'
    BY <1>0, <1>1, <2>3, <2>10, <2>11 DEF Places
  <2>13. Pending(w[i], segs[0]) /\ Covers(segs[0], log)
    BY <1>0 DEF SegmentCovers
  <2>14. \A j \in Instances : \A z : Pending(w[j], z) => Pending(w'[j], z)
    BY <2>2, <2>3 DEF Pending
  <2>15. SegmentCovers'
    <3>1. Has(segs[0], Len(s), w[i].stamp)
      BY <1>1, <2>13 DEF Pending, s
    <3> QED
      BY <1>0, <1>1, <2>8, <2>13, <2>14, <3>1 DEF SegmentCovers
  <2>16. BasesCover'
    <3> SUFFICES ASSUME NEW k \in Instances, Mine(k)'
                 PROVE  /\ Covers(Base(w'[k]), log')
                        /\ \A j \in Instances : j # k => Pending(w'[j], Base(w'[k]))
      BY DEF BasesCover
    <3>1. Covers(Base(w[k]), log) /\ \A j \in Instances : j # k => Pending(w[j], Base(w[k]))
      BY <1>0, <2>10 DEF BasesCover
    <3>2. CASE k # i
      <4>1. Has(Base(w[k]), Len(s), w[i].stamp)
        BY <1>1, <3>1, <3>2 DEF Pending, s
      <4> QED
        BY <2>3, <2>8, <2>14, <3>1, <3>2, <4>1
    <3>3. CASE k = i
      <4>1. Base(q) = s
        BY <2>2 DEF Base, s
      <4>2. Covers(s, log)
        BY <1>6, <1>7, <3>1, <3>3 DEF Covers
      <4>3. \A j \in Instances : j # k => Pending(w[j], s)
        BY <1>6, <1>7, <3>1, <3>3 DEF Pending
      <4> QED
        BY <2>3, <2>4, <2>8, <2>14, <3>3, <4>1, <4>2, <4>3
    <3> QED
      BY <3>2, <3>3
  <2>17. Committed'
    <3>1. Logged(log', w[i].stamp)
      BY <2>4, <2>7 DEF Logged
    <3>2. \A j \in Instances : w'[j].pc = "publish" => Logged(log', w'[j].stamp)
      BY <1>0, <2>2, <2>3, <2>9, <3>1 DEF Committed
    <3>3. \A y \in acked' : Logged(log', y)
      BY <1>0, <1>1, <2>9 DEF Committed
    <3> QED
      BY <3>2, <3>3 DEF Committed
  <2> QED
    BY <2>12, <2>15, <2>16, <2>17 DEF SharedInv
<1> QED
    BY <1>5, <1>9, <1>10

LEMMA SharedStep ==
    ASSUME ClusterStoreAssumption, OneSegment, LogInv, SharedInv, [Next]_vars
    PROVE  SharedInv'
<1>1. CASE UNCHANGED vars
    BY <1>1 DEF vars, SharedInv, Places, SegmentCovers, BasesCover, Committed, Mine
<1>2. CASE Next
  <2> PICK i \in Instances :
        \/ Acquire(i) \/ LoadManifest(i) \/ LoadSegment(i) \/ CreateManifest(i)
        \/ ReadToken(i) \/ LoadLog(i)
        \/ Begin(i) \/ SealOpen(i) \/ SealSync(i) \/ SealPublish(i)
        \/ PutData(i) \/ PutLog(i) \/ NoteCommitPoint(i)
        \/ Crash(i)
    BY <1>2 DEF Next
  <2>1. ~(CreateManifest(i) \/ SealOpen(i) \/ SealSync(i) \/ SealPublish(i))
    <3>1. w[i].pc \in Unloaded \cup Rowed
      BY DEF SharedInv, Places, Place
    <3> QED
      BY <3>1 DEF Unloaded, Rowed, CreateManifest, SealOpen, SealSync, SealPublish
  <2>2. CASE Acquire(i) \/ LoadManifest(i) \/ LoadSegment(i) \/ ReadToken(i) \/ LoadLog(i)
    BY <2>2, AcquireShares, LoadManifestShares, LoadSegmentShares, ReadTokenShares, LoadLogShares
  <2>3. CASE Begin(i) \/ PutData(i) \/ PutLog(i) \/ NoteCommitPoint(i) \/ Crash(i)
    BY <2>3, BeginShares, PutDataShares, PutLogShares, NoteCommitPointShares, CrashShares
  <2> QED
    BY <2>1, <2>2, <2>3
<1> QED
    BY <1>1, <1>2

\* What an open would find: the one segment, with every record of the log.
LEMMA SharedKept ==
    ASSUME ClusterStoreAssumption, SharedInv
    PROVE  AckedKept /\ OwnRow
<1>0. /\ segs[0] \in Seq(Nat) /\ Flat(manifest) /\ Covers(segs[0], log)
      /\ \A s \in acked : Logged(log, s)
    BY DEF SharedInv, Places, SegmentCovers, Committed
<1>1. manifest.names = <<0>>
    BY <1>0 DEF Flat
<1>2. Published = [k \in 1 .. 1 |-> segs[0]]
  <2>1. DOMAIN manifest.names = 1 .. 1 /\ \A k \in 1 .. 1 : manifest.names[k] = 0
    BY <1>1
  <2> QED
    BY <2>1 DEF Published
<1>3. Published \in Seq(Seq(Nat)) /\ Len(Published) = 1 /\ Published[1] = segs[0]
  <2> DEFINE S == Seq(Nat)
  <2>1. segs[0] \in S
    BY <1>0
  <2> HIDE DEF S
  <2>2. [k \in 1 .. 1 |-> segs[0]] \in Seq(S) /\ Len([k \in 1 .. 1 |-> segs[0]]) = 1
    BY <2>1
  <2> QED
    BY <1>2, <2>2 DEF S
<1>4. Total(Published) = Len(segs[0]) /\ Len(segs[0]) \in Nat
    BY <1>0, <1>3, OneTotal
<1>5. \A k \in DOMAIN log : log[k].row \in Nat /\ log[k].row < Len(segs[0]) /\ Replayed(k)
    BY <1>0, <1>4 DEF Covers, Has, Replayed
<1>6. \A k \in DOMAIN log : RowOf(Published, log[k].row) = log[k].stamp
    BY <1>0, <1>3, <1>5, OneRow DEF Covers, Has
<1> QED
    BY <1>0, <1>5, <1>6 DEF AckedKept, OwnRow, Logged

\* Any number of instances, superseded at any moment of a batch, over a store
\* of one segment (Store::check_writable, ObjectAppender::flush_object): no
\* batch that was reported committed is lost, and every record of the log has
\* its own vector in the row it names.
THEOREM OneSegmentIsShared == OneSegment /\ Spec => [](AckedKept /\ OwnRow)
<1>1. OneSegment /\ Init => LogInv /\ SharedInv
    BY LogInit, SharedInit, ClusterStoreAssumption
<1>2. OneSegment /\ LogInv /\ SharedInv /\ [Next]_vars => LogInv' /\ SharedInv' /\ OneSegment'
    BY LogStep, SharedStep, ClusterStoreAssumption DEF OneSegment
<1>3. SharedInv => AckedKept /\ OwnRow
    BY SharedKept, ClusterStoreAssumption
<1> QED
    BY <1>1, <1>2, <1>3, PTL DEF Spec

\* The half of the shared run that nobody seals in keeps the same invariant.
UnsealedInv == ~seals => LogInv /\ SharedInv

LEMMA UnsealedInvariant == OneSegment /\ MCSpec => []UnsealedInv
<1>1. OneSegment /\ MCInit => UnsealedInv
    BY LogInit, SharedInit, ClusterStoreAssumption DEF MCInit, UnsealedInv
<1>2. OneSegment /\ UnsealedInv /\ [MCNext]_<<vars, seals>> => UnsealedInv' /\ OneSegment'
  <2> SUFFICES ASSUME OneSegment, UnsealedInv, [MCNext]_<<vars, seals>>, ~seals'
               PROVE  LogInv' /\ SharedInv'
    BY DEF UnsealedInv, OneSegment
  <2>1. ~seals /\ [Next]_vars
    BY DEF MCNext, vars
  <2>2. LogInv /\ SharedInv
    BY <2>1 DEF UnsealedInv
  <2> QED
    BY <2>1, <2>2, LogStep, SharedStep, ClusterStoreAssumption
<1> QED
    BY <1>1, <1>2, PTL DEF MCSpec

\* What the shared run checks of acknowledged batches, for any number of
\* instances, opens and batches: superseded writers lose none of them
\* (Store::check_writable, ObjectAppender::flush_object).
THEOREM BatchesAreKept == OneSegment /\ MCSpec => []AckedKeptUnsealed
<1>1. UnsealedInv => AckedKeptUnsealed
    BY SharedKept, ClusterStoreAssumption DEF UnsealedInv, AckedKeptUnsealed
<1> QED
    BY <1>1, UnsealedInvariant, PTL

\* What it checks of rows: no superseded writer puts its row under another
\* batch's record.
THEOREM RowsAreOwn == OneSegment /\ MCSpec => []OwnRowUnsealed
<1>1. UnsealedInv => OwnRowUnsealed
    BY SharedKept, ClusterStoreAssumption DEF UnsealedInv, OwnRowUnsealed
<1> QED
    BY <1>1, UnsealedInvariant, PTL

=============================================================================
