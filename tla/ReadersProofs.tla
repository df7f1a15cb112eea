---------------------------- MODULE ReadersProofs ----------------------------
(***************************************************************************)
(* Theorems about the commit history, for any ids, segment size, retention *)
(* window, pruning batch, and any number of writes, compactions and kills. *)
(*                                                                         *)
(* Outside a compaction every object only grows at its end, so whatever    *)
(* was rebuilt from it once is rebuilt from it again; the fence is what    *)
(* takes a commit out of reach before a rewrite ends that.                 *)
(***************************************************************************)
EXTENDS Readers, FiniteSetTheorems, SequenceTheorems, WellFoundedInduction, TLAPS

-----------------------------------------------------------------------------
(* The inductive invariant *)

\* b is a with something after it.
Grown(a, b) == Len(a) <= Len(b) /\ \A i \in 1 .. Len(a) : b[i] = a[i]

\* What the names of a list lead to in S, as Contents does in segs.
Of(S, names) == [k \in DOMAIN names |-> S[names[k]]]

AllRows(names) == Rows(Of(segs, names))

Record == [id : Ids, row : Nat, n : Nat]
DocOf == [n : Nat, vec : Nat]

\* A list of segments: it starts at the base and names nothing twice.
Chain(names) ==
    /\ names \in Seq(0 .. MaxSegment) /\ Len(names) > 0 /\ names[1] = 0
    /\ \A i, j \in 1 .. Len(names) : names[i] = names[j] => i = j

\* A compaction has rewritten the base and not yet published it.
Rewritten == w.pc = "relog" \/ (w.pc = "publish" /\ w.after = "drop")

WFields == {"pc", "after", "version", "names", "next", "pruned", "docs", "before", "rec",
            "dropped", "reclaim", "writes", "compactions", "crashes", "torn"}
RFields == {"pc", "man", "names", "contents", "version", "held", "loaded", "pinned", "to",
            "floor", "entry", "staged", "opened", "read", "view", "legal", "overlap"}

Shape ==
    /\ segs \in [0 .. MaxSegment -> Seq(Nat)]
    /\ logs \in Seq(Seq(Record)) /\ Len(logs) > 0
    /\ manifest.version \in Nat /\ manifest.next \in Nat /\ Chain(manifest.names)
    /\ floor \in Nat
    /\ DOMAIN w = WFields /\ DOMAIN r = RFields
    /\ w.version \in Nat /\ w.pruned \in Nat /\ w.writes \in Nat /\ Chain(w.names)
    /\ w.docs \in [Ids -> DocOf] /\ (w.pc = "log" => w.rec \in Record)

\* The writer's segment list and the published one.
NamesInv ==
    /\ w.after \in {"idle", "drop"}
    /\ w.pc \in {"idle", "log"} => w.after = "idle"
    /\ w.pc \in {"rewrite", "relog"} => w.after = "drop"
    /\ w.pc \notin {"relog", "publish"} =>
          w.names = manifest.names /\ w.next = manifest.next /\ w.version = manifest.version
    /\ w.pc = "publish" /\ w.after = "idle" =>
          \/ w.names = manifest.names /\ w.next = manifest.next
          \/ /\ w.names = Append(manifest.names, manifest.next) /\ w.next = manifest.next + 1
             /\ manifest.next <= MaxSegment
    /\ Rewritten => w.next = manifest.next
    /\ w.pc \in {"relog", "drop"} \/ (w.after = "drop" /\ w.pc # "rewrite") => w.names = <<0>>
    /\ w.version >= manifest.version /\ 0 \notin w.dropped
    /\ \A i \in 1 .. Len(manifest.names) : manifest.names[i] < manifest.next
    /\ \A s \in 0 .. MaxSegment : s >= manifest.next => segs[s] = <<>>

\* The writer's documents are what its objects would be replayed to.
DocsInv ==
    ~w.torn /\ w.pc # "relog" =>
        /\ \A k \in DOMAIN Current : /\ Current[k].row <= Len(AllRows(w.names))
                                     /\ Current[k].row <= Len(AllRows(manifest.names))
        /\ w.docs = replay_ops(Current, AllRows(w.names), Len(AllRows(w.names)))
        /\ w.pc = "log" /\ w.rec.row # 0 =>
              w.rec.row = Len(AllRows(w.names)) /\ AllRows(w.names)[w.rec.row] = w.rec.n

\* Half way through a compaction the base holds what the log will name.
RelogInv == w.pc = "relog" => segs[0] = [k \in DOMAIN Live |-> w.docs[Live[k]].vec]

\* A commit that segments S and log l can be replayed to, its list of segments
\* the start of m.
SafeAt(S, l, m, e) ==
    /\ e.rows \in Nat /\ e.recs \in Nat /\ Chain(e.names) /\ Grown(e.names, m)
    /\ Len(Rows(Of(S, e.names))) >= e.rows /\ Len(l) >= e.recs
    /\ replay_ops(SubSeq(l, 1, e.recs), Rows(Of(S, e.names)), e.rows) = e.docs

Safe(e) == SafeAt(segs, Current, manifest.names, e)

\* A compaction fences every entry before it rewrites, and the fence stays.
HistInv ==
    /\ floor <= w.pruned + 1
    /\ \A e \in hist : e.version \in Nat /\ e.version <= manifest.version
    /\ w.pc = "rewrite" \/ Rewritten => \A e \in hist : e.version < floor
    /\ ~w.torn => \A e \in hist : e.version >= floor => Safe(e)

\* What a pin in progress has read.
Staged ==
    /\ r.staged \in Seq(Seq(Nat)) /\ Len(r.staged) <= Len(r.entry.names)
    /\ Len(r.staged) < Len(r.entry.names) =>
          \A k \in 1 .. Len(r.staged) : r.staged[k] = segs[r.entry.names[k]]
    /\ Len(r.staged) = Len(r.entry.names) =>
          Len(Rows(r.staged)) >= r.entry.rows /\ Grown(Rows(r.staged), AllRows(r.entry.names))

PinInv ==
    /\ r.pc \in {"idle", "stat", "swap"} => r.to = 0
    /\ Rewritten /\ r.pc # "idle" => r.overlap
    /\ ~w.torn /\ ~r.overlap =>
          /\ r.pc = "entry" => \A e \in hist : e.version >= r.floor => Safe(e)
          /\ r.pc = "segs" /\ r.to # 0 => Safe(r.entry) /\ r.man.names = r.entry.names /\ Staged

HistoryInv == Shape /\ NamesInv /\ DocsInv /\ RelogInv /\ HistInv /\ PinInv

-----------------------------------------------------------------------------
(* Least elements, induction, greatest elements *)

\* A set of naturals that is not empty has a least element.
LEMMA LeastNat ==
    ASSUME NEW T \in SUBSET Nat, T # {}
    PROVE  \E k \in T : \A j \in T : k <= j
<1> DEFINE Below == {0 .. k : k \in T}
<1>1. \A k \in Nat : 0 .. k \in FiniteSubsetsOf(Nat)
    BY FS_Interval DEF FiniteSubsetsOf
<1>2. Below \subseteq FiniteSubsetsOf(Nat) /\ Below # {}
    BY <1>1
<1>3. PICK x \in Below : \A y \in Below : <<y, x>> \notin StrictSubsetOrdering(Nat)
  <2>1. IsWellFoundedOn(StrictSubsetOrdering(Nat), FiniteSubsetsOf(Nat))
    BY FS_StrictSubsetOrderingWellFounded
  <2> HIDE DEF Below
  <2> QED
    BY <1>2, <2>1, WFMin
<1>4. PICK k \in T : x = 0 .. k
    BY <1>3
<1>5. ASSUME NEW j \in T PROVE k <= j
  <2>1. SUFFICES ASSUME j < k PROVE FALSE
    OBVIOUS
  <2>2. 0 .. j \subseteq 0 .. k /\ 0 .. j # 0 .. k
    <3>1. k \in 0 .. k /\ k \notin 0 .. j
      BY <2>1
    <3> QED
      BY <2>1, <3>1
  <2>3. <<0 .. j, 0 .. k>> \in StrictSubsetOrdering(Nat)
    BY <2>2 DEF StrictSubsetOrdering
  <2> QED
    BY <1>3, <1>4, <2>3
<1> QED
    BY <1>5

\* Induction from 1 to n.
LEMMA UpTo ==
    ASSUME NEW n \in Nat, NEW S, 1 \in S, \A k \in 1 .. n : k + 1 <= n /\ k \in S => k + 1 \in S
    PROVE  1 .. n \subseteq S
<1> DEFINE Bad == {k \in 1 .. n : k \notin S}
<1>1. SUFFICES ASSUME Bad # {} PROVE FALSE
    OBVIOUS
<1>2. PICK k \in Bad : \A j \in Bad : k <= j
  <2>1. Bad \in SUBSET Nat
    OBVIOUS
  <2> HIDE DEF Bad
  <2> QED
    BY <1>1, <2>1, LeastNat
<1>3. k # 1
    BY <1>2
<1>4. k - 1 \in 1 .. n /\ k - 1 \notin Bad /\ (k - 1) + 1 = k /\ k <= n
    BY <1>2, <1>3
<1>5. k - 1 \in S
    BY <1>4
<1> QED
    BY <1>2, <1>4, <1>5

\* Max of positions.
LEMMA MaxOf ==
    ASSUME NEW n \in Nat, NEW T \in SUBSET (1 .. n), T # {}
    PROVE  Max(T) \in T /\ \A j \in T : j <= Max(T)
<1> DEFINE Left == {n - k : k \in T}
<1>1. Left \in SUBSET Nat /\ Left # {}
  <2>1. \A k \in T : n - k \in Nat
    OBVIOUS
  <2> QED
    BY <2>1
<1>2. PICK l \in Left : \A j \in Left : l <= j
  <2> HIDE DEF Left
  <2> QED
    BY <1>1, LeastNat
<1>3. PICK k \in T : l = n - k
    BY <1>2
<1>4. \A j \in T : k >= j
  <2> TAKE j \in T
  <2>1. n - j \in Left
    OBVIOUS
  <2>2. n - k <= n - j
    BY <1>2, <1>3, <2>1
  <2> QED
    BY <2>2
<1>5. Max(T) \in T /\ \A j \in T : Max(T) >= j
    BY <1>4 DEF Max
<1> QED
    BY <1>5

LEMMA LesserIs == ASSUME NEW a \in Int, NEW b \in Int PROVE Min({a, b}) \in {a, b}
<1>1. \E x \in {a, b} : \A y \in {a, b} : x <= y
    OBVIOUS
<1> QED
    BY <1>1 DEF Min

LEMMA GreaterIs ==
    ASSUME NEW a \in Nat, NEW b \in Nat
    PROVE  Max({a, b}) \in {a, b} /\ Max({a, b}) \in Nat /\ a <= Max({a, b}) /\ b <= Max({a, b})
<1>1. \E x \in {a, b} : \A y \in {a, b} : x >= y
    OBVIOUS
<1>2. Max({a, b}) \in {a, b} /\ \A y \in {a, b} : Max({a, b}) >= y
    BY <1>1 DEF Max
<1> QED
    BY <1>2

-----------------------------------------------------------------------------
(* Segments, one after the other *)

Cat(a, b) == a \o b

LEMMA CatIs ==
    ASSUME NEW a \in Seq(Nat), NEW b \in Seq(Nat)
    PROVE  /\ Cat(a, b) \in Seq(Nat) /\ Len(Cat(a, b)) = Len(a) + Len(b) /\ Grown(a, Cat(a, b))
           /\ \A i \in 1 .. Len(b) : Cat(a, b)[Len(a) + i] = b[i]
<1>1. Len(a) \in Nat /\ Len(b) \in Nat
    OBVIOUS
<1>2. /\ a \o b \in Seq(Nat) /\ Len(a \o b) = Len(a) + Len(b)
      /\ \A i \in 1 .. Len(a) + Len(b) : (a \o b)[i] = IF i <= Len(a) THEN a[i] ELSE b[i - Len(a)]
    BY ConcatProperties
<1> DEFINE c == a \o b
<1> HIDE DEF c
<1>3. /\ c \in Seq(Nat) /\ Len(c) = Len(a) + Len(b)
      /\ \A i \in 1 .. Len(a) + Len(b) : c[i] = IF i <= Len(a) THEN a[i] ELSE b[i - Len(a)]
    BY <1>2 DEF c
<1>4. Grown(a, c)
    BY <1>1, <1>3 DEF Grown
<1>5. ASSUME NEW i \in 1 .. Len(b) PROVE c[Len(a) + i] = b[i]
  <2>1. Len(a) + i \in 1 .. Len(a) + Len(b) /\ ~(Len(a) + i <= Len(a)) /\ (Len(a) + i) - Len(a) = i
    BY <1>1
  <2> QED
    BY <1>3, <2>1
<1> QED
    BY <1>3, <1>4, <1>5 DEF Cat, c

LEMMA GrownTrans ==
    ASSUME NEW a \in Seq(Nat), NEW b \in Seq(Nat), NEW c \in Seq(Nat), Grown(a, b), Grown(b, c)
    PROVE  Grown(a, c)
<1>1. Len(a) \in Nat /\ Len(b) \in Nat /\ Len(c) \in Nat /\ Len(a) <= Len(b) /\ Len(b) <= Len(c)
    BY DEF Grown
<1>2. (\A i \in 1 .. Len(a) : b[i] = a[i]) /\ (\A i \in 1 .. Len(b) : c[i] = b[i])
    BY DEF Grown
<1> DEFINE n == Len(a)
           m == Len(b)
<1> HIDE DEF n, m
<1>3. n \in Nat /\ m \in Nat /\ n <= m
    BY <1>1 DEF n, m
<1>4. \A i \in 1 .. n : i \in 1 .. m
    BY <1>3
<1>5. \A i \in 1 .. n : c[i] = a[i]
    BY <1>2, <1>4, Zenon DEF n, m
<1>6. Len(a) <= Len(c)
    BY <1>1
<1> QED
    BY <1>5, <1>6 DEF Grown, n

LEMMA CatKeeps ==
    ASSUME NEW a \in Seq(Nat), NEW b \in Seq(Nat), NEW c \in Seq(Nat), Grown(a, b)
    PROVE  Cat(b, c) \in Seq(Nat) /\ Grown(a, Cat(b, c))
<1>1. Cat(b, c) \in Seq(Nat) /\ Grown(b, Cat(b, c))
    BY CatIs
<1> DEFINE d == Cat(b, c)
<1> HIDE DEF d
<1>2. d \in Seq(Nat) /\ Grown(b, d)
    BY <1>1 DEF d
<1>3. Grown(a, d)
    BY <1>2, GrownTrans
<1> QED
    BY <1>2, <1>3 DEF d

LEMMA CatMonotone ==
    ASSUME NEW a \in Seq(Nat), NEW b \in Seq(Nat), NEW c \in Seq(Nat), Grown(b, c)
    PROVE  Grown(Cat(a, b), Cat(a, c))
<1> DEFINE p == Cat(a, b)
           q == Cat(a, c)
<1>1. p \in Seq(Nat) /\ Len(p) = Len(a) + Len(b) /\ Grown(a, p) /\ \A i \in 1 .. Len(b) : p[Len(a) + i] = b[i]
    BY CatIs
<1>2. q \in Seq(Nat) /\ Len(q) = Len(a) + Len(c) /\ Grown(a, q) /\ \A i \in 1 .. Len(c) : q[Len(a) + i] = c[i]
    BY CatIs
<1> HIDE DEF p, q
<1>3. Len(a) \in Nat /\ Len(b) \in Nat /\ Len(c) \in Nat /\ Len(b) <= Len(c)
    BY DEF Grown
<1>4. ASSUME NEW i \in 1 .. Len(p) PROVE q[i] = p[i]
  <2>1. CASE i <= Len(a)
    BY <1>1, <1>2, <1>3, <2>1 DEF Grown
  <2>2. CASE i > Len(a)
    <3>1. i - Len(a) \in 1 .. Len(b) /\ i - Len(a) \in 1 .. Len(c) /\ Len(a) + (i - Len(a)) = i
      BY <1>1, <1>3, <2>2
    <3>2. p[i] = b[i - Len(a)] /\ q[i] = c[i - Len(a)]
      BY <1>1, <1>2, <3>1
    <3> QED
      BY <3>1, <3>2 DEF Grown
  <2> QED
    BY <1>1, <1>3, <2>1, <2>2
<1>5. Len(p) <= Len(q)
    BY <1>1, <1>2, <1>3
<1>6. Grown(p, q)
    BY <1>4, <1>5 DEF Grown
<1> QED
    BY <1>6 DEF p, q

\* f[i] is the first i segments of s put together.
Unrolls(f, s) ==
    /\ DOMAIN f = 1 .. Len(s) /\ f[1] = s[1]
    /\ \A i \in 2 .. Len(s) : f[i] = Cat(f[i - 1], s[i])

LEMMA UnrollsOnce ==
    ASSUME NEW s, Len(s) \in Nat \ {0}, NEW f, Unrolls(f, s), NEW g, Unrolls(g, s)
    PROVE  f[Len(s)] = g[Len(s)]
<1> DEFINE n == Len(s)
           S == {i \in 1 .. n : f[i] = g[i]}
<1>1. 1 \in S
    BY DEF Unrolls
<1>2. ASSUME NEW k \in 1 .. n, k + 1 <= n, k \in S PROVE k + 1 \in S
  <2>1. k + 1 \in 2 .. n /\ (k + 1) - 1 = k
    BY <1>2
  <2>2. f[k + 1] = Cat(f[k], s[k + 1]) /\ g[k + 1] = Cat(g[k], s[k + 1])
    BY <2>1 DEF Unrolls
  <2> QED
    BY <1>2, <2>1, <2>2
<1>3. 1 .. n \subseteq S
  <2> HIDE DEF S
  <2> QED
    BY <1>1, <1>2, UpTo
<1>4. n \in 1 .. n
    OBVIOUS
<1> QED
    BY <1>3, <1>4

LEMMA FlattenIs ==
    ASSUME NEW s, Len(s) \in Nat \ {0}, NEW f, Unrolls(f, s)
    PROVE  FlattenSeq(s) = f[Len(s)]
<1> DEFINE n == Len(s)
           Eq(x) == x = [i \in 1 .. n |-> IF i = 1 THEN s[i] ELSE Cat(x[i - 1], s[i])]
           h == [i \in 1 .. n |-> f[i]]
<1>1. Eq(h)
  <2>1. \A i \in 1 .. n : h[i] = IF i = 1 THEN s[i] ELSE Cat(h[i - 1], s[i])
    BY DEF Unrolls
  <2> QED
    BY <2>1
<1> DEFINE x == CHOOSE y : Eq(y)
<1>2. Eq(x)
  <2> HIDE DEF Eq, h
  <2> QED
    BY <1>1
<1>3. FlattenSeq(s) = x[n]
    BY DEF FlattenSeq, Cat
<1> HIDE DEF x
<1>4. Unrolls(x, s)
    BY <1>2 DEF Unrolls
<1> QED
    BY <1>3, <1>4, UnrollsOnce

\* The segments of s can be put together, and what holds rows gives rows.
LEMMA FlattenHas ==
    ASSUME NEW s \in Seq(Seq(Nat)), Len(s) > 0
    PROVE  \E f : Unrolls(f, s) /\ \A i \in 1 .. Len(s) : f[i] \in Seq(Nat) /\ Grown(s[1], f[i])
<1> DEFINE n == Len(s)
           Good(f, k) == /\ DOMAIN f = 1 .. k /\ f[1] = s[1]
                         /\ \A i \in 2 .. k : f[i] = Cat(f[i - 1], s[i])
                         /\ \A i \in 1 .. k : f[i] \in Seq(Nat) /\ Grown(s[1], f[i])
           S == {k \in 1 .. n : \E f : Good(f, k)}
<1>0. n \in Nat /\ n # 0 /\ \A i \in 1 .. n : s[i] \in Seq(Nat)
    OBVIOUS
<1>1. 1 \in S
  <2> DEFINE f == [i \in 1 .. 1 |-> s[1]]
  <2>1. Good(f, 1)
    BY <1>0 DEF Grown
  <2> HIDE DEF Good
  <2> QED
    BY <1>0, <2>1
<1>2. ASSUME NEW k \in 1 .. n, k + 1 <= n, k \in S PROVE k + 1 \in S
  <2>1. PICK f : Good(f, k)
    BY <1>2
  <2> DEFINE g == [i \in 1 .. k + 1 |-> IF i = k + 1 THEN Cat(f[k], s[k + 1]) ELSE f[i]]
  <2>2. k \in 1 .. k /\ f[k] \in Seq(Nat) /\ Grown(s[1], f[k]) /\ s[1] \in Seq(Nat) /\ s[k + 1] \in Seq(Nat)
    BY <1>0, <1>2, <2>1
  <2>3. Cat(f[k], s[k + 1]) \in Seq(Nat) /\ Grown(s[1], Cat(f[k], s[k + 1]))
    BY <2>2, CatKeeps
  <2>4. Good(g, k + 1)
    <3>1. DOMAIN g = 1 .. k + 1 /\ g[1] = s[1]
      BY <2>1
    <3>2. \A i \in 2 .. k + 1 : g[i] = Cat(g[i - 1], s[i])
      <4> TAKE i \in 2 .. k + 1
      <4>1. i - 1 \in 1 .. k + 1 /\ i - 1 # k + 1 /\ g[i - 1] = f[i - 1]
        OBVIOUS
      <4>2. CASE i = k + 1
        BY <4>1, <4>2
      <4>3. CASE i # k + 1
        BY <2>1, <4>1, <4>3
      <4> QED
        BY <4>2, <4>3
    <3>3. \A i \in 1 .. k + 1 : g[i] \in Seq(Nat) /\ Grown(s[1], g[i])
      BY <2>1, <2>3
    <3> QED
      BY <3>1, <3>2, <3>3
  <2> HIDE DEF Good, g
  <2> QED
    BY <1>0, <1>2, <2>4
<1>3. 1 .. n \subseteq S
  <2> HIDE DEF S
  <2> QED
    BY <1>0, <1>1, <1>2, UpTo
<1>4. n \in S
  <2>1. n \in 1 .. n
    BY <1>0
  <2> HIDE DEF S
  <2> QED
    BY <1>3, <2>1
<1>5. PICK f : Good(f, n)
    BY <1>4
<1> QED
    BY <1>5 DEF Unrolls

\* The pieces of an unrolling hold rows, and each grows into the next.
LEMMA UnrollsGrow ==
    ASSUME NEW s \in Seq(Seq(Nat)), Len(s) > 0, NEW f, Unrolls(f, s), NEW k \in 1 .. Len(s),
           \A i \in 1 .. Len(s) : f[i] \in Seq(Nat)
    PROVE  Grown(f[k], f[Len(s)])
<1> DEFINE n == Len(s)
           S == {j \in 1 .. n - k + 1 : Grown(f[k], f[k + j - 1])}
<1>0. n \in Nat /\ n # 0 /\ k \in Nat /\ k <= n /\ \A i \in 1 .. n : s[i] \in Seq(Nat)
    OBVIOUS
<1>1. 1 \in S
  <2>1. k + 1 - 1 = k /\ 1 \in 1 .. n - k + 1
    BY <1>0
  <2>2. Grown(f[k], f[k])
    BY DEF Grown
  <2> QED
    BY <2>1, <2>2
<1>2. ASSUME NEW j \in 1 .. n - k + 1, j + 1 <= n - k + 1, j \in S PROVE j + 1 \in S
  <2> DEFINE m == k + j - 1
  <2>1. m \in 1 .. n /\ m + 1 \in 2 .. n /\ (m + 1) - 1 = m /\ k + (j + 1) - 1 = m + 1 /\ m + 1 \in 1 .. n
    BY <1>0, <1>2
  <2>2. Grown(f[k], f[m])
    BY <1>2
  <2> HIDE DEF m
  <2>3. f[m + 1] = Cat(f[m], s[m + 1]) /\ f[m] \in Seq(Nat) /\ f[k] \in Seq(Nat) /\ s[m + 1] \in Seq(Nat)
    BY <1>0, <2>1 DEF Unrolls
  <2>4. Grown(f[k], f[m + 1])
    BY <2>2, <2>3, CatKeeps
  <2>5. j + 1 \in 1 .. n - k + 1
    BY <1>0, <1>2
  <2>6. Grown(f[k], f[k + (j + 1) - 1])
    BY <2>1, <2>4
  <2> QED
    BY <2>5, <2>6
<1>3. n - k + 1 \in Nat /\ n - k + 1 \in 1 .. n - k + 1 /\ k + (n - k + 1) - 1 = n
    BY <1>0
<1>4. 1 .. n - k + 1 \subseteq S
  <2> DEFINE p == n - k + 1
  <2>1. p \in Nat /\ \A j \in 1 .. p : j + 1 <= p /\ j \in S => j + 1 \in S
    BY <1>2, <1>3
  <2> HIDE DEF S, p
  <2>2. 1 .. p \subseteq S
    BY <1>1, <2>1, UpTo
  <2> QED
    BY <2>2 DEF p
<1> QED
    BY <1>3, <1>4

AgreeBefore(s, t, k) ==
    /\ Len(s) \in Nat /\ Len(t) \in Nat /\ k <= Len(s) /\ k <= Len(t)
    /\ \A i \in 1 .. k - 1 : s[i] = t[i]

\* Two lists of segments that agree before k are unrolled alike before k.
LEMMA UnrollsAgree ==
    ASSUME NEW s, NEW t, NEW k \in Nat, AgreeBefore(s, t, k),
           NEW f, Unrolls(f, s), NEW g, Unrolls(g, t)
    PROVE  \A i \in 1 .. k - 1 : f[i] = g[i]
<1> DEFINE n == k - 1
           S == {i \in 1 .. n : f[i] = g[i]}
<1>1. CASE k <= 1
    BY <1>1
<1>2. CASE k > 1
  <2>1. 1 \in S
    BY <1>2 DEF Unrolls, AgreeBefore
  <2>2. ASSUME NEW j \in 1 .. n, j + 1 <= n, j \in S PROVE j + 1 \in S
    <3>1. j + 1 \in 2 .. Len(s) /\ j + 1 \in 2 .. Len(t) /\ (j + 1) - 1 = j /\ j + 1 \in 1 .. n
      BY <2>2 DEF AgreeBefore
    <3>2. f[j + 1] = Cat(f[j], s[j + 1]) /\ g[j + 1] = Cat(g[j], t[j + 1])
      BY <3>1 DEF Unrolls
    <3> QED
      BY <2>2, <3>1, <3>2 DEF AgreeBefore
  <2>3. n \in Nat
    BY <1>2
  <2> HIDE DEF S, n
  <2>4. 1 .. n \subseteq S
    BY <2>1, <2>2, <2>3, UpTo
  <2> QED
    BY <2>4 DEF S, n
<1> QED
    BY <1>1, <1>2

LEMMA FlattenUnrolled ==
    ASSUME NEW s \in Seq(Seq(Nat)), Len(s) > 0
    PROVE  \E f : /\ Unrolls(f, s) /\ FlattenSeq(s) = f[Len(s)]
                  /\ \A i \in 1 .. Len(s) : f[i] \in Seq(Nat) /\ Grown(s[1], f[i])
<1>1. PICK f : Unrolls(f, s) /\ \A i \in 1 .. Len(s) : f[i] \in Seq(Nat) /\ Grown(s[1], f[i])
    BY FlattenHas
<1>2. Len(s) \in Nat \ {0}
    OBVIOUS
<1>3. FlattenSeq(s) = f[Len(s)]
    BY <1>1, <1>2, FlattenIs
<1> QED
    BY <1>1, <1>3

\* What is put together has the first segment at its start.
LEMMA RowsType ==
    ASSUME NEW s \in Seq(Seq(Nat)), Len(s) > 0
    PROVE  Rows(s) \in Seq(Nat) /\ Grown(s[1], Rows(s))
<1>1. Len(s) \in 1 .. Len(s)
    OBVIOUS
<1> QED
    BY <1>1, FlattenUnrolled DEF Rows

\* One segment.
LEMMA RowsOne ==
    ASSUME NEW s \in Seq(Seq(Nat)), Len(s) = 1
    PROVE  Rows(s) = s[1]
<1>1. Len(s) > 0
    OBVIOUS
<1>2. PICK f : Unrolls(f, s) /\ FlattenSeq(s) = f[Len(s)]
    BY <1>1, FlattenUnrolled
<1> QED
    BY <1>2 DEF Rows, Unrolls

\* A list of segments that agrees with a longer one, but for its last segment,
\* which may have grown there.
LEMMA RowsGrow ==
    ASSUME NEW s \in Seq(Seq(Nat)), NEW t \in Seq(Seq(Nat)), Len(s) > 0, Len(s) <= Len(t),
           \A i \in 1 .. Len(s) - 1 : s[i] = t[i], Grown(s[Len(s)], t[Len(s)])
    PROVE  Grown(Rows(s), Rows(t))
<1> DEFINE k == Len(s)
<1>0. k \in Nat /\ k # 0 /\ Len(t) \in Nat /\ Len(t) > 0 /\ k \in 1 .. k /\ k \in 1 .. Len(t) /\ k <= Len(t)
    OBVIOUS
<1>1. PICK f : /\ Unrolls(f, s) /\ FlattenSeq(s) = f[Len(s)]
               /\ \A i \in 1 .. Len(s) : f[i] \in Seq(Nat) /\ Grown(s[1], f[i])
    BY FlattenUnrolled
<1>2. PICK g : /\ Unrolls(g, t) /\ FlattenSeq(t) = g[Len(t)]
               /\ \A i \in 1 .. Len(t) : g[i] \in Seq(Nat) /\ Grown(t[1], g[i])
    BY <1>0, FlattenUnrolled
<1>3. \A i \in 1 .. k - 1 : f[i] = g[i]
  <2>1. \A i \in 1 .. k - 1 : s[i] = t[i]
    OBVIOUS
  <2>2. Len(s) \in Nat /\ k <= Len(s)
    BY <1>0
  <2>3. Unrolls(f, s) /\ Unrolls(g, t) /\ k \in Nat /\ AgreeBefore(s, t, k)
    BY <1>0, <1>1, <1>2, <2>1, <2>2 DEF AgreeBefore
  <2> HIDE DEF k
  <2> QED
    BY <2>3, UnrollsAgree
<1>4. Grown(f[k], g[k])
  <2>1. CASE k = 1
    BY <2>1, <1>1, <1>2 DEF Unrolls
  <2>2. CASE k # 1
    <3>1. k - 1 \in 1 .. k - 1 /\ k \in 2 .. Len(s) /\ k \in 2 .. Len(t) /\ k - 1 \in 1 .. Len(s)
      <4>1. Len(s) = k
        OBVIOUS
      <4> HIDE DEF k
      <4> QED
        BY <1>0, <2>2, <4>1
    <3>2. f[k] = Cat(f[k - 1], s[k]) /\ g[k] = Cat(f[k - 1], t[k]) /\ f[k - 1] \in Seq(Nat)
      BY <1>1, <1>2, <1>3, <3>1 DEF Unrolls
    <3>3. s[k] \in Seq(Nat) /\ t[k] \in Seq(Nat)
      BY <1>0
    <3> QED
      BY <3>2, <3>3, CatMonotone
  <2> QED
    BY <2>1, <2>2
<1>5. Grown(g[k], g[Len(t)])
    BY <1>0, <1>2, UnrollsGrow
<1>6. f[k] \in Seq(Nat) /\ g[k] \in Seq(Nat) /\ g[Len(t)] \in Seq(Nat)
  <2>1. Len(t) \in 1 .. Len(t)
    BY <1>0
  <2> QED
    BY <1>0, <1>1, <1>2, <2>1
<1>7. Grown(f[k], g[Len(t)])
    BY <1>4, <1>5, <1>6, GrownTrans
<1> QED
    BY <1>1, <1>2, <1>7 DEF Rows

\* A row appended to the last segment is the last row.
LEMMA RowsLast ==
    ASSUME NEW s \in Seq(Seq(Nat)), NEW t \in Seq(Seq(Nat)), Len(s) > 0, Len(t) = Len(s),
           \A i \in 1 .. Len(s) - 1 : s[i] = t[i], NEW x \in Nat,
           Len(t[Len(s)]) = Len(s[Len(s)]) + 1, t[Len(s)][Len(s[Len(s)]) + 1] = x
    PROVE  Len(Rows(t)) = Len(Rows(s)) + 1 /\ Rows(t)[Len(Rows(s)) + 1] = x
<1> DEFINE k == Len(s)
           a == s[k]
           b == t[k]
<1>0. /\ k \in Nat /\ k # 0 /\ Len(t) = k /\ a \in Seq(Nat) /\ b \in Seq(Nat)
      /\ Len(b) = Len(a) + 1 /\ b[Len(a) + 1] = x /\ Len(a) \in Nat
    OBVIOUS
<1>1. PICK f : /\ Unrolls(f, s) /\ FlattenSeq(s) = f[Len(s)]
               /\ \A i \in 1 .. Len(s) : f[i] \in Seq(Nat) /\ Grown(s[1], f[i])
    BY FlattenUnrolled
<1>2. PICK g : /\ Unrolls(g, t) /\ FlattenSeq(t) = g[Len(t)]
               /\ \A i \in 1 .. Len(t) : g[i] \in Seq(Nat) /\ Grown(t[1], g[i])
    BY <1>0, FlattenUnrolled
<1>3. \A i \in 1 .. k - 1 : f[i] = g[i]
  <2>1. Unrolls(f, s) /\ Unrolls(g, t) /\ k \in Nat /\ AgreeBefore(s, t, k)
    BY <1>0, <1>1, <1>2 DEF AgreeBefore
  <2> HIDE DEF k
  <2> QED
    BY <2>1, UnrollsAgree
<1>4. CASE k = 1
  <2>1. Rows(s) = a /\ Rows(t) = b
    BY <1>0, <1>1, <1>2, <1>4 DEF Unrolls, Rows
  <2> QED
    BY <1>0, <2>1
<1>5. CASE k # 1
  <2>1. k - 1 \in 1 .. k - 1 /\ k \in 2 .. k /\ k - 1 \in 1 .. k
    <3> HIDE DEF k
    <3> QED
      BY <1>0, <1>5
  <2>2. Rows(s) = Cat(f[k - 1], a) /\ Rows(t) = Cat(f[k - 1], b) /\ f[k - 1] \in Seq(Nat)
    BY <1>0, <1>1, <1>2, <1>3, <2>1 DEF Unrolls, Rows
  <2> DEFINE p == f[k - 1]
  <2> HIDE DEF a, b, p
  <2>3. p \in Seq(Nat) /\ Rows(s) = Cat(p, a) /\ Rows(t) = Cat(p, b) /\ Len(p) \in Nat
    BY <2>2 DEF p
  <2>4. Len(Cat(p, a)) = Len(p) + Len(a)
    BY <1>0, <2>3, CatIs
  <2>5. Len(Cat(p, b)) = Len(p) + Len(b) /\ \A i \in 1 .. Len(b) : Cat(p, b)[Len(p) + i] = b[i]
    BY <1>0, <2>3, CatIs
  <2>6. Len(a) + 1 \in 1 .. Len(b) /\ Len(p) + (Len(a) + 1) = (Len(p) + Len(a)) + 1
    BY <1>0, <2>3
  <2> QED
    BY <1>0, <2>3, <2>4, <2>5, <2>6
<1> QED
    BY <1>4, <1>5

\* An empty segment behind the others changes nothing.
LEMMA RowsEmpty ==
    ASSUME NEW s \in Seq(Seq(Nat)), Len(s) > 0, NEW t \in Seq(Seq(Nat)), Len(t) = Len(s) + 1,
           \A i \in 1 .. Len(s) : t[i] = s[i], t[Len(s) + 1] = <<>>
    PROVE  Rows(t) = Rows(s)
<1> DEFINE k == Len(s)
<1>0. k \in Nat /\ k # 0 /\ Len(t) = k + 1 /\ Len(t) > 0 /\ t[k + 1] = <<>>
    OBVIOUS
<1>2. PICK g : /\ Unrolls(g, t) /\ FlattenSeq(t) = g[Len(t)]
               /\ \A i \in 1 .. Len(t) : g[i] \in Seq(Nat) /\ Grown(t[1], g[i])
    BY <1>0, FlattenUnrolled
<1> DEFINE f == [i \in 1 .. k |-> g[i]]
<1>3. Unrolls(f, s)
  <2>1. DOMAIN f = 1 .. Len(s) /\ f[1] = s[1]
    BY <1>0, <1>2 DEF Unrolls
  <2>2. ASSUME NEW i \in 2 .. Len(s) PROVE f[i] = Cat(f[i - 1], s[i])
    <3>1. i \in 2 .. Len(t) /\ i \in 1 .. k /\ i - 1 \in 1 .. k
      BY <1>0
    <3>2. g[i] = Cat(g[i - 1], t[i])
      BY <1>2, <3>1 DEF Unrolls
    <3>3. f[i] = g[i] /\ f[i - 1] = g[i - 1]
      BY <3>1
    <3>4. t[i] = s[i]
      BY <3>1
    <3> QED
      BY <3>2, <3>3, <3>4
  <2> HIDE DEF f
  <2> QED
    BY <2>1, <2>2 DEF Unrolls
<1>4. FlattenSeq(s) = f[Len(s)]
  <2>1. Len(s) \in Nat \ {0}
    BY <1>0
  <2> HIDE DEF f
  <2> QED
    BY <1>3, <2>1, FlattenIs
<1>5. f[Len(s)] = g[k]
    BY <1>0
<1>6. g[Len(t)] = Cat(g[k], <<>>)
  <2>1. k + 1 \in 2 .. Len(t) /\ (k + 1) - 1 = k
    BY <1>0
  <2> QED
    BY <1>0, <1>2, <2>1 DEF Unrolls
<1>7. g[k] \in Seq(Nat)
    BY <1>0, <1>2
<1>8. Cat(g[k], <<>>) = g[k]
    BY <1>7, ConcatEmptySeq DEF Cat
<1> QED
    BY <1>2, <1>4, <1>5, <1>6, <1>8 DEF Rows

-----------------------------------------------------------------------------
(* Replays *)

LEMMA RecordRow ==
    ASSUME NEW recs \in Seq(Record), NEW k \in DOMAIN recs
    PROVE  recs[k] \in Record /\ recs[k].row \in Nat
<1>1. recs[k] \in Record
    OBVIOUS
<1> QED
    BY <1>1 DEF Record

Mine(recs, id, bound) == {i \in DOMAIN recs : recs[i].id = id /\ recs[i].row <= bound}

\* The last record of an id below the bound.
LEMMA LastMine ==
    ASSUME NEW recs \in Seq(Record), NEW bound \in Nat, NEW id, Mine(recs, id, bound) # {}
    PROVE  /\ Max(Mine(recs, id, bound)) \in 1 .. Len(recs)
           /\ recs[Max(Mine(recs, id, bound))] \in Record
           /\ recs[Max(Mine(recs, id, bound))].row \in Nat
           /\ recs[Max(Mine(recs, id, bound))].n \in Nat
           /\ recs[Max(Mine(recs, id, bound))].row <= bound
<1>1. Len(recs) \in Nat /\ DOMAIN recs = 1 .. Len(recs)
    OBVIOUS
<1>2. Mine(recs, id, bound) \in SUBSET (1 .. Len(recs))
    BY <1>1 DEF Mine
<1>3. Max(Mine(recs, id, bound)) \in Mine(recs, id, bound)
    BY <1>1, <1>2, MaxOf
<1> DEFINE m == Max(Mine(recs, id, bound))
<1> HIDE DEF m
<1>4. m \in 1 .. Len(recs) /\ recs[m].row <= bound
    BY <1>1, <1>3 DEF Mine, m
<1>5. recs[m] \in Record
    BY <1>4
<1>6. recs[m].row \in Nat /\ recs[m].n \in Nat
    BY <1>5 DEF Record
<1> QED
    BY <1>4, <1>5, <1>6 DEF m

LEMMA ReplayType ==
    ASSUME NEW recs \in Seq(Record), NEW rows \in Seq(Nat)
    PROVE  replay_ops(recs, rows, Len(rows)) \in [Ids -> DocOf]
<1> DEFINE d == replay_ops(recs, rows, Len(rows))
           b == Len(rows)
<1>0. b \in Nat
    OBVIOUS
<1>1. ASSUME NEW id \in Ids PROVE d[id] \in DocOf
  <2> DEFINE m == Mine(recs, id, b)
  <2>1. d[id] = IF m = {} \/ recs[Max(m)].row = 0 THEN NoDoc
                ELSE [n |-> recs[Max(m)].n, vec |-> rows[recs[Max(m)].row]]
    BY DEF replay_ops, Mine
  <2>2. NoDoc \in DocOf
    BY DEF NoDoc, DocOf
  <2>3. ASSUME m # {}, recs[Max(m)].row # 0
        PROVE  recs[Max(m)].n \in Nat /\ rows[recs[Max(m)].row] \in Nat
    <3>1. recs[Max(m)].row \in Nat /\ recs[Max(m)].n \in Nat /\ recs[Max(m)].row <= b
      BY <1>0, <2>3, LastMine
    <3>2. recs[Max(m)].row \in 1 .. Len(rows)
      BY <1>0, <2>3, <3>1
    <3> HIDE DEF m
    <3> QED
      BY <3>1, <3>2
  <2> HIDE DEF m, d
  <2> QED
    BY <2>1, <2>2, <2>3 DEF DocOf
<1>2. d = [id \in Ids |-> d[id]]
    BY DEF replay_ops
<1> HIDE DEF d
<1> QED
    BY <1>1, <1>2 DEF d

\* Rows past the bound play no part.
LEMMA ReplayRows ==
    ASSUME NEW recs \in Seq(Record), NEW bound \in Nat, NEW a, NEW b,
           \A i \in 1 .. bound : a[i] = b[i]
    PROVE  replay_ops(recs, a, bound) = replay_ops(recs, b, bound)
<1>1. ASSUME NEW id \in Ids PROVE replay_ops(recs, a, bound)[id] = replay_ops(recs, b, bound)[id]
  <2> DEFINE m == Mine(recs, id, bound)
  <2>1. replay_ops(recs, a, bound)[id] = IF m = {} \/ recs[Max(m)].row = 0 THEN NoDoc
                ELSE [n |-> recs[Max(m)].n, vec |-> a[recs[Max(m)].row]]
    BY DEF replay_ops, Mine
  <2>2. replay_ops(recs, b, bound)[id] = IF m = {} \/ recs[Max(m)].row = 0 THEN NoDoc
                ELSE [n |-> recs[Max(m)].n, vec |-> b[recs[Max(m)].row]]
    BY DEF replay_ops, Mine
  <2>3. ASSUME m # {}, recs[Max(m)].row # 0 PROVE a[recs[Max(m)].row] = b[recs[Max(m)].row]
    <3>1. recs[Max(m)].row \in Nat /\ recs[Max(m)].row <= bound
      BY <2>3, LastMine
    <3>2. recs[Max(m)].row \in 1 .. bound
      BY <2>3, <3>1
    <3> HIDE DEF m
    <3> QED
      BY <3>2
  <2> HIDE DEF m
  <2> QED
    BY <2>1, <2>2, <2>3
<1>2. replay_ops(recs, a, bound) = [id \in Ids |-> replay_ops(recs, a, bound)[id]]
    BY DEF replay_ops
<1>3. replay_ops(recs, b, bound) = [id \in Ids |-> replay_ops(recs, b, bound)[id]]
    BY DEF replay_ops
<1> QED
    BY <1>1, <1>2, <1>3, Zenon

\* Of rows that were all there, more rows make the same documents.
LEMMA ReplayMore ==
    ASSUME NEW recs \in Seq(Record), NEW a \in Seq(Nat), NEW b \in Seq(Nat), Grown(a, b),
           \A k \in DOMAIN recs : recs[k].row <= Len(a)
    PROVE  replay_ops(recs, b, Len(b)) = replay_ops(recs, a, Len(a))
<1>1. Len(a) \in Nat /\ Len(b) \in Nat /\ Len(a) <= Len(b) /\ \A i \in 1 .. Len(a) : b[i] = a[i]
    BY DEF Grown
<1>2. \A k \in DOMAIN recs : recs[k].row \in Nat /\ recs[k].row <= Len(a) /\ recs[k].row <= Len(b)
  <2> TAKE k \in DOMAIN recs
  <2>1. recs[k] \in Record
    OBVIOUS
  <2>2. recs[k].row \in Nat
    BY <2>1 DEF Record
  <2> QED
    BY <1>1, <2>2
<1>3. \A id : Mine(recs, id, Len(a)) = Mine(recs, id, Len(b))
    BY <1>2 DEF Mine
<1>4. replay_ops(recs, b, Len(b)) = replay_ops(recs, b, Len(a))
  <2>1. replay_ops(recs, b, Len(b))
          = [id \in Ids |-> IF Mine(recs, id, Len(b)) = {} \/ recs[Max(Mine(recs, id, Len(b)))].row = 0 THEN NoDoc
                            ELSE [n |-> recs[Max(Mine(recs, id, Len(b)))].n,
                                  vec |-> b[recs[Max(Mine(recs, id, Len(b)))].row]]]
    BY DEF replay_ops, Mine
  <2>2. replay_ops(recs, b, Len(a))
          = [id \in Ids |-> IF Mine(recs, id, Len(a)) = {} \/ recs[Max(Mine(recs, id, Len(a)))].row = 0 THEN NoDoc
                            ELSE [n |-> recs[Max(Mine(recs, id, Len(a)))].n,
                                  vec |-> b[recs[Max(Mine(recs, id, Len(a)))].row]]]
    BY DEF replay_ops, Mine
  <2> QED
    BY <1>3, <2>1, <2>2, SMTT(30)
<1>5. replay_ops(recs, b, Len(a)) = replay_ops(recs, a, Len(a))
    BY <1>1, ReplayRows
<1> QED
    BY <1>4, <1>5

\* A log that grew has the same first records.
LEMMA SubSeqGrown ==
    ASSUME NEW a \in Seq(Record), NEW b \in Seq(Record), Grown(a, b), NEW k \in Nat, k <= Len(a)
    PROVE  SubSeq(b, 1, k) = SubSeq(a, 1, k) /\ SubSeq(a, 1, k) \in Seq(Record)
<1>1. Len(a) \in Nat /\ Len(b) \in Nat /\ Len(a) <= Len(b) /\ \A i \in 1 .. Len(a) : b[i] = a[i]
    BY DEF Grown
<1>2. \A i \in 1 .. k : a[i] \in Record /\ b[i] \in Record
    BY <1>1
<1>3. /\ SubSeq(a, 1, k) \in Seq(Record) /\ Len(SubSeq(a, 1, k)) = k
      /\ \A i \in 1 .. k : SubSeq(a, 1, k)[i] = a[i]
    BY <1>1, <1>2, SubSeqProperties
<1>4. /\ SubSeq(b, 1, k) \in Seq(Record) /\ Len(SubSeq(b, 1, k)) = k
      /\ \A i \in 1 .. k : SubSeq(b, 1, k)[i] = b[i]
    BY <1>1, <1>2, SubSeqProperties
<1> DEFINE p == SubSeq(a, 1, k)
           q == SubSeq(b, 1, k)
<1> HIDE DEF p, q
<1>5. /\ p \in Seq(Record) /\ q \in Seq(Record) /\ Len(p) = k /\ Len(q) = k
      /\ \A i \in 1 .. k : p[i] = a[i] /\ q[i] = b[i]
    BY <1>3, <1>4 DEF p, q
<1>6. q = p
    BY <1>1, <1>5, SeqEqual
<1> QED
    BY <1>5, <1>6 DEF p, q

\* A record at the end of the log decides its id and no other.
LEMMA ReplayAppend ==
    ASSUME NEW recs \in Seq(Record), NEW x \in Record, NEW rows, NEW bound \in Nat, x.row <= bound
    PROVE  replay_ops(Append(recs, x), rows, bound)
             = [replay_ops(recs, rows, bound) EXCEPT ![x.id] =
                   IF x.row = 0 THEN NoDoc ELSE [n |-> x.n, vec |-> rows[x.row]]]
<1> DEFINE l == Append(recs, x)
           n == Len(recs)
           old == replay_ops(recs, rows, bound)
           new == replay_ops(l, rows, bound)
<1>0. n \in Nat /\ DOMAIN recs = 1 .. n
    OBVIOUS
<1>1. l \in Seq(Record) /\ DOMAIN l = 1 .. n + 1 /\ l[n + 1] = x /\ \A i \in 1 .. n : l[i] = recs[i]
    BY AppendProperties
<1> HIDE DEF l, n
<1>2. ASSUME NEW id \in Ids, id # x.id PROVE new[id] = old[id]
  <2>1. Mine(l, id, bound) = Mine(recs, id, bound)
    BY <1>0, <1>1, <1>2 DEF Mine
  <2> DEFINE m == Mine(recs, id, bound)
  <2>2. old[id] = IF m = {} \/ recs[Max(m)].row = 0 THEN NoDoc
                  ELSE [n |-> recs[Max(m)].n, vec |-> rows[recs[Max(m)].row]]
    BY DEF replay_ops, Mine
  <2>3. new[id] = IF m = {} \/ l[Max(m)].row = 0 THEN NoDoc
                  ELSE [n |-> l[Max(m)].n, vec |-> rows[l[Max(m)].row]]
    <3>1. new[id] = IF Mine(l, id, bound) = {} \/ l[Max(Mine(l, id, bound))].row = 0 THEN NoDoc
                    ELSE [n |-> l[Max(Mine(l, id, bound))].n, vec |-> rows[l[Max(Mine(l, id, bound))].row]]
      BY DEF replay_ops, Mine
    <3> QED
      BY <2>1, <3>1
  <2>4. m # {} => l[Max(m)] = recs[Max(m)]
    BY <1>0, <1>1, LastMine DEF n
  <2> HIDE DEF m, old, new
  <2> QED
    BY <2>2, <2>3, <2>4
<1>3. x.id \in Ids /\ new[x.id] = IF x.row = 0 THEN NoDoc ELSE [n |-> x.n, vec |-> rows[x.row]]
  <2> DEFINE m == Mine(l, x.id, bound)
  <2>1. x.id \in Ids
    BY DEF Record
  <2>2. m \in SUBSET (1 .. n + 1) /\ n + 1 \in m
    BY <1>0, <1>1 DEF Mine
  <2>3. n + 1 \in Nat /\ m # {}
    BY <1>0, <2>2
  <2>4. Max(m) \in m /\ n + 1 <= Max(m)
    BY <2>2, <2>3, MaxOf
  <2>5. Max(m) = n + 1
    BY <1>0, <2>2, <2>4
  <2>6. new[x.id] = IF m = {} \/ l[Max(m)].row = 0 THEN NoDoc
                    ELSE [n |-> l[Max(m)].n, vec |-> rows[l[Max(m)].row]]
    BY <2>1 DEF replay_ops, Mine
  <2> HIDE DEF m, new
  <2> QED
    BY <1>1, <2>1, <2>3, <2>5, <2>6
<1>4. new = [id \in Ids |-> new[id]] /\ old = [id \in Ids |-> old[id]]
    BY DEF replay_ops
<1> DEFINE upd == [old EXCEPT ![x.id] = IF x.row = 0 THEN NoDoc ELSE [n |-> x.n, vec |-> rows[x.row]]]
<1>5. \A id \in Ids : new[id] = upd[id]
  <2> HIDE DEF new, old
  <2> QED
    BY <1>2, <1>3, <1>4
<1>6. upd = [id \in Ids |-> upd[id]]
  <2> HIDE DEF new, old
  <2> QED
    BY <1>4
<1>7. new = upd
  <2> HIDE DEF new, old, upd
  <2> QED
    BY <1>4, <1>5, <1>6
<1> QED
    BY <1>7 DEF l

-----------------------------------------------------------------------------
(* The live documents in order *)

Ascending(s) == \A i, j \in DOMAIN s : i < j => s[i] < s[j]
Orderings(T) == {s \in [1 .. Cardinality(T) -> T] : Ascending(s)}

\* A finite set of naturals can be put in order.
LEMMA OrderingExists ==
    ASSUME NEW T \in SUBSET Nat, IsFiniteSet(T)
    PROVE  Orderings(T) # {}
<1> DEFINE Bad == {n \in Nat : \E S \in SUBSET Nat : IsFiniteSet(S) /\ Cardinality(S) = n /\ Orderings(S) = {}}
<1>1. SUFFICES Bad = {}
    BY FS_CardinalityType
<1>2. SUFFICES ASSUME Bad # {} PROVE FALSE
    OBVIOUS
<1>3. PICK n \in Bad : \A j \in Bad : n <= j
  <2>1. Bad \in SUBSET Nat
    OBVIOUS
  <2> HIDE DEF Bad
  <2> QED
    BY <1>2, <2>1, LeastNat
<1>4. PICK S \in SUBSET Nat : IsFiniteSet(S) /\ Cardinality(S) = n /\ Orderings(S) = {}
    BY <1>3
<1>5. n \in Nat
    BY <1>3
<1>6. CASE S = {}
  <2>1. Cardinality(S) = 0
    BY <1>6, FS_EmptySet
  <2> DEFINE s == [i \in 1 .. 0 |-> 0]
  <2>2. s \in [1 .. 0 -> S] /\ DOMAIN s = 1 .. 0
    OBVIOUS
  <2>3. Ascending(s)
    BY <2>2 DEF Ascending
  <2> HIDE DEF s
  <2> QED
    BY <1>4, <2>1, <2>2, <2>3 DEF Orderings
<1>7. CASE S # {}
  <2>1. PICK m \in S : \A j \in S : m <= j
    BY <1>4, <1>7, LeastNat
  <2> DEFINE R == S \ {m}
  <2>2. IsFiniteSet(R) /\ Cardinality(R) = n - 1
    BY <1>4, FS_RemoveElement
  <2>3. n # 0
    BY <1>4, <1>7, FS_EmptySet
  <2>4. n - 1 \in Nat /\ n - 1 \notin Bad
    BY <1>3, <1>5, <2>3
  <2>5. Orderings(R) # {}
    BY <2>2, <2>4
  <2>6. PICK t : t \in [1 .. n - 1 -> R] /\ Ascending(t)
    BY <2>2, <2>5 DEF Orderings
  <2> DEFINE s == [i \in 1 .. n |-> IF i = 1 THEN m ELSE t[i - 1]]
  <2>7. ASSUME NEW i \in 1 .. n, i # 1 PROVE i - 1 \in 1 .. n - 1 /\ t[i - 1] \in R
    <3>1. i - 1 \in 1 .. n - 1
      BY <1>5, <2>7
    <3> QED
      BY <2>6, <3>1
  <2>8. s \in [1 .. n -> S]
    BY <2>7
  <2>9. ASSUME NEW i \in 1 .. n, NEW j \in 1 .. n, i < j PROVE s[i] < s[j]
    <3>1. j # 1 /\ s[j] = t[j - 1]
      BY <1>5, <2>9
    <3>2. t[j - 1] \in R /\ t[j - 1] \in Nat
      BY <2>7, <3>1
    <3>3. CASE i = 1
      <4>1. s[i] = m /\ m \in Nat
        BY <3>3
      <4>2. m <= t[j - 1] /\ m # t[j - 1]
        BY <2>1, <3>2
      <4> QED
        BY <3>1, <3>2, <4>1, <4>2
    <3>4. CASE i # 1
      <4>1. s[i] = t[i - 1] /\ i - 1 \in 1 .. n - 1 /\ j - 1 \in 1 .. n - 1 /\ i - 1 < j - 1
        BY <1>5, <2>7, <2>9, <3>1, <3>4
      <4>2. i - 1 \in DOMAIN t /\ j - 1 \in DOMAIN t
        BY <2>6, <4>1
      <4>3. t[i - 1] < t[j - 1]
        BY <2>6, <4>1, <4>2 DEF Ascending
      <4> QED
        BY <3>1, <4>1, <4>3
    <3> QED
      BY <3>3, <3>4
  <2>10. Ascending(s)
    <3>1. DOMAIN s = 1 .. n
      OBVIOUS
    <3> HIDE DEF s
    <3> QED
      BY <2>9, <3>1 DEF Ascending
  <2> HIDE DEF s
  <2> QED
    BY <1>4, <2>8, <2>10 DEF Orderings
<1> QED
    BY <1>6, <1>7

\* An order of a finite set has everything of it, once.
LEMMA OrderingIsWhole ==
    ASSUME NEW T \in SUBSET Nat, IsFiniteSet(T), NEW s \in Orderings(T)
    PROVE  /\ Cardinality(T) \in Nat /\ s \in [1 .. Cardinality(T) -> T]
           /\ \A i, j \in 1 .. Cardinality(T) : s[i] = s[j] => i = j
           /\ \A x \in T : \E i \in 1 .. Cardinality(T) : s[i] = x
<1> DEFINE c == Cardinality(T)
<1>1. c \in Nat
    BY FS_CardinalityType
<1>2. s \in [1 .. c -> T] /\ Ascending(s)
    BY DEF Orderings
<1> HIDE DEF c
<1>3. ASSUME NEW i \in 1 .. c, NEW j \in 1 .. c, s[i] = s[j] PROVE i = j
  <2>1. s[i] \in Nat /\ s[j] \in Nat /\ DOMAIN s = 1 .. c
    BY <1>2
  <2>2. ~(i < j) /\ ~(j < i)
    BY <1>2, <1>3, <2>1 DEF Ascending
  <2> QED
    BY <1>1, <2>2
<1>4. s \in Injection(1 .. c, T)
    BY <1>2, <1>3 DEF Injection, IsInjective
<1>5. IsFiniteSet(1 .. c) /\ Cardinality(1 .. c) = c
    BY <1>1, FS_Interval
<1>6. s \in Surjection(1 .. c, T)
    BY <1>4, <1>5, FS_Injection DEF c
<1>7. \A x \in T : \E i \in 1 .. c : s[i] = x
    BY <1>6 DEF Surjection
<1> QED
    BY <1>1, <1>2, <1>3, <1>7 DEF c

LiveIds == {id \in Ids : w.docs[id] # NoDoc}

LEMMA LiveIs ==
    /\ Cardinality(LiveIds) \in Nat
    /\ Live \in [1 .. Cardinality(LiveIds) -> LiveIds] /\ DOMAIN Live = 1 .. Cardinality(LiveIds)
    /\ \A i, j \in 1 .. Cardinality(LiveIds) : Live[i] = Live[j] => i = j
    /\ \A x \in LiveIds : \E i \in 1 .. Cardinality(LiveIds) : Live[i] = x
<1>1. LiveIds \in SUBSET Nat /\ IsFiniteSet(LiveIds)
  <2>1. LiveIds \subseteq Ids
    BY DEF LiveIds
  <2> QED
    BY <2>1, ReadersAssumption, FS_Subset
<1>2. Live = CHOOSE s \in [1 .. Cardinality(LiveIds) -> LiveIds] : Ascending(s)
    BY DEF Live, LiveIds, Ascending
<1>3. \E s \in [1 .. Cardinality(LiveIds) -> LiveIds] : Ascending(s)
    BY <1>1, OrderingExists DEF Orderings
<1>4. Live \in Orderings(LiveIds)
    BY <1>2, <1>3 DEF Orderings
<1> QED
    BY <1>1, <1>4, OrderingIsWhole

\* What a compaction writes: the live rows, and the log that names them.
LiveRows == [k \in DOMAIN Live |-> w.docs[Live[k]].vec]
LiveRecs == [k \in DOMAIN Live |-> [id |-> Live[k], row |-> k, n |-> w.docs[Live[k]].n]]

\* A compaction writes the documents the writer holds.
LEMMA CompactedIsSame ==
    ASSUME w.docs \in [Ids -> DocOf]
    PROVE  /\ LiveRows \in Seq(Nat) /\ LiveRecs \in Seq(Record)
           /\ \A k \in DOMAIN LiveRecs : LiveRecs[k].row <= Len(LiveRows)
           /\ replay_ops(LiveRecs, LiveRows, Len(LiveRows)) = w.docs
<1> DEFINE c == Cardinality(LiveIds)
           L == Live
           docs == w.docs
           new == replay_ops(LiveRecs, LiveRows, c)
<1>1. /\ c \in Nat /\ L \in [1 .. c -> LiveIds] /\ DOMAIN L = 1 .. c
      /\ \A i, j \in 1 .. c : L[i] = L[j] => i = j
      /\ \A x \in LiveIds : \E i \in 1 .. c : L[i] = x
    BY LiveIs
<1>2. LiveRows = [k \in 1 .. c |-> docs[L[k]].vec]
    BY <1>1 DEF LiveRows
<1>3. LiveRecs = [k \in 1 .. c |-> [id |-> L[k], row |-> k, n |-> docs[L[k]].n]]
    BY <1>1 DEF LiveRecs
<1>0. docs \in [Ids -> DocOf] /\ \A id \in Ids : id \in LiveIds <=> docs[id] # NoDoc
    BY DEF LiveIds
<1> HIDE DEF c, L, docs
<1>4. ASSUME NEW k \in 1 .. c
      PROVE  L[k] \in Ids /\ docs[L[k]].vec \in Nat /\ docs[L[k]].n \in Nat /\ k \in Nat /\ k # 0
  <2>1. L[k] \in LiveIds /\ L[k] \in Ids
    BY <1>1 DEF LiveIds
  <2>2. docs[L[k]] \in DocOf
    BY <1>0, <2>1
  <2> QED
    BY <1>1, <2>1, <2>2 DEF DocOf
<1>5. LiveRows \in [1 .. c -> Nat] /\ LiveRows \in Seq(Nat) /\ Len(LiveRows) = c
  <2>1. LiveRows \in [1 .. c -> Nat]
    BY <1>2, <1>4
  <2> QED
    BY <1>1, <2>1
<1>6. LiveRecs \in [1 .. c -> Record] /\ LiveRecs \in Seq(Record) /\ DOMAIN LiveRecs = 1 .. c
  <2>1. ASSUME NEW k \in 1 .. c PROVE [id |-> L[k], row |-> k, n |-> docs[L[k]].n] \in Record
    BY <1>4 DEF Record
  <2>2. LiveRecs \in [1 .. c -> Record]
    BY <1>3, <2>1
  <2> QED
    BY <1>1, <2>2
<1>7. ASSUME NEW k \in 1 .. c
      PROVE  LiveRecs[k].id = L[k] /\ LiveRecs[k].row = k /\ LiveRecs[k].n = docs[L[k]].n
    BY <1>3
<1>8. ASSUME NEW id \in Ids PROVE new[id] = docs[id]
  <2> DEFINE m == Mine(LiveRecs, id, c)
  <2>1. new[id] = IF m = {} \/ LiveRecs[Max(m)].row = 0 THEN NoDoc
                  ELSE [n |-> LiveRecs[Max(m)].n, vec |-> LiveRows[LiveRecs[Max(m)].row]]
    BY DEF replay_ops, Mine
  <2>2. m = {k \in 1 .. c : L[k] = id}
    BY <1>1, <1>6, <1>7 DEF Mine
  <2> HIDE DEF m, new
  <2>3. CASE id \notin LiveIds
    <3>1. m = {}
      BY <1>1, <2>2, <2>3
    <3> QED
      BY <1>0, <2>1, <2>3, <3>1
  <2>4. CASE id \in LiveIds
    <3>1. PICK k \in 1 .. c : L[k] = id
      BY <1>1, <2>4
    <3>2. m \in SUBSET (1 .. c) /\ m # {} /\ \A i \in m : i = k
      BY <1>1, <2>2, <3>1
    <3>3. Max(m) = k
      BY <1>1, <3>2, MaxOf
    <3>4. new[id] = [n |-> docs[id].n, vec |-> docs[id].vec]
      BY <1>2, <1>4, <1>7, <2>1, <3>1, <3>2, <3>3
    <3>5. docs[id] \in DocOf
      BY <1>0
    <3> QED
      BY <3>4, <3>5 DEF DocOf
  <2> QED
    BY <2>3, <2>4
<1>9. new = [id \in Ids |-> new[id]]
    BY DEF replay_ops
<1>10. new = docs
  <2> HIDE DEF new
  <2> QED
    BY <1>0, <1>8, <1>9
<1>11. \A k \in DOMAIN LiveRecs : LiveRecs[k].row <= Len(LiveRows)
    BY <1>1, <1>5, <1>6, <1>7
<1> QED
    BY <1>5, <1>6, <1>10, <1>11 DEF docs

-----------------------------------------------------------------------------
(* Lists of segments over the segments *)

Segments == [0 .. MaxSegment -> Seq(Nat)]

LEMMA ChainIs ==
    ASSUME NEW c, Chain(c)
    PROVE  /\ Len(c) \in Nat /\ Len(c) > 0 /\ DOMAIN c = 1 .. Len(c)
           /\ \A k \in 1 .. Len(c) : c[k] \in 0 .. MaxSegment
           /\ Len(c) \in 1 .. Len(c) /\ 1 \in 1 .. Len(c)
<1> DEFINE X == 0 .. MaxSegment
<1>1. c \in Seq(X) /\ Len(c) > 0
    BY DEF Chain
<1> HIDE DEF X
<1>2. Len(c) \in Nat /\ Len(c) > 0 /\ DOMAIN c = 1 .. Len(c) /\ \A k \in 1 .. Len(c) : c[k] \in X
    BY <1>1
<1>3. Len(c) \in 1 .. Len(c) /\ 1 \in 1 .. Len(c)
    BY <1>2
<1> QED
    BY <1>2, <1>3 DEF X

LEMMA OfIs ==
    ASSUME NEW S \in Segments, NEW c, Chain(c)
    PROVE  /\ Of(S, c) \in Seq(Seq(Nat)) /\ Len(Of(S, c)) = Len(c)
           /\ \A k \in 1 .. Len(c) : Of(S, c)[k] = S[c[k]] /\ S[c[k]] \in Seq(Nat)
<1>1. /\ Len(c) \in Nat /\ DOMAIN c = 1 .. Len(c)
      /\ \A k \in 1 .. Len(c) : c[k] \in 0 .. MaxSegment
    BY ChainIs
<1>2. \A k \in 1 .. Len(c) : S[c[k]] \in Seq(Nat)
    BY <1>1 DEF Segments
<1> DEFINE n == Len(c)
           o == [k \in 1 .. n |-> S[c[k]]]
<1>3. Of(S, c) = o
    BY <1>1 DEF Of
<1>4. o \in [1 .. n -> Seq(Nat)] /\ n \in Nat
    BY <1>1, <1>2
<1>5. \A k \in 1 .. n : o[k] = S[c[k]]
    OBVIOUS
<1> HIDE DEF o, n
<1>6. o \in Seq(Seq(Nat)) /\ Len(o) = n
    BY <1>4
<1> QED
    BY <1>2, <1>3, <1>5, <1>6 DEF n

LEMMA OfRows ==
    ASSUME NEW S \in Segments, NEW c, Chain(c)
    PROVE  Rows(Of(S, c)) \in Seq(Nat) /\ Grown(S[0], Rows(Of(S, c)))
<1>1. Of(S, c) \in Seq(Seq(Nat)) /\ Len(Of(S, c)) > 0 /\ Of(S, c)[1] = S[c[1]]
    BY OfIs, ChainIs
<1>2. c[1] = 0
    BY DEF Chain
<1> QED
    BY <1>1, <1>2, RowsType

LEMMA ShapeOf ==
    ASSUME NEW S \in Segments, NEW l \in Seq(Seq(Record)), Len(l) > 0
    PROVE  /\ l[Len(l)] \in Seq(Record) /\ Len(l[Len(l)]) \in Nat
           /\ \A c : Chain(c) => Rows(Of(S, c)) \in Seq(Nat) /\ Len(Rows(Of(S, c))) \in Nat
<1>1. l[Len(l)] \in Seq(Record) /\ Len(l[Len(l)]) \in Nat
  <2> DEFINE x == l[Len(l)]
  <2>1. x \in Seq(Record)
    OBVIOUS
  <2> HIDE DEF x
  <2>2. Len(x) \in Nat
    BY <2>1
  <2> QED
    BY <2>1, <2>2 DEF x
<1>2. ASSUME NEW c, Chain(c) PROVE Rows(Of(S, c)) \in Seq(Nat) /\ Len(Rows(Of(S, c))) \in Nat
  <2> DEFINE x == Rows(Of(S, c))
  <2>1. x \in Seq(Nat)
    BY <1>2, OfRows
  <2> HIDE DEF x
  <2>2. Len(x) \in Nat
    BY <2>1
  <2> QED
    BY <2>1, <2>2 DEF x
<1> QED
    BY <1>1, <1>2

\* The list c over S, and a longer list over what S has become.
LEMMA OfGrows ==
    ASSUME NEW S \in Segments, NEW T \in Segments, NEW c, Chain(c), NEW d, Chain(d), Grown(c, d),
           \A k \in 1 .. Len(c) - 1 : T[c[k]] = S[c[k]], Grown(S[c[Len(c)]], T[c[Len(c)]])
    PROVE  Grown(Rows(Of(S, c)), Rows(Of(T, d)))
<1> DEFINE n == Len(c)
           a == Of(S, c)
           b == Of(T, d)
<1>1. a \in Seq(Seq(Nat)) /\ Len(a) = n /\ \A k \in 1 .. n : a[k] = S[c[k]]
    BY OfIs
<1>2. b \in Seq(Seq(Nat)) /\ Len(b) = Len(d) /\ \A k \in 1 .. Len(d) : b[k] = T[d[k]]
    BY OfIs
<1>3. n \in Nat /\ n > 0 /\ Len(d) \in Nat /\ n <= Len(d) /\ \A k \in 1 .. n : d[k] = c[k]
    BY ChainIs DEF Grown
<1>4. \A k \in 1 .. n - 1 : T[c[k]] = S[c[k]]
    OBVIOUS
<1>5. Grown(S[c[n]], T[c[n]])
    OBVIOUS
<1> HIDE DEF n, a, b
<1>6. \A k \in 1 .. n - 1 : a[k] = b[k]
  <2> TAKE k \in 1 .. n - 1
  <2>1. k \in 1 .. n /\ k \in 1 .. Len(d)
    BY <1>3
  <2>2. a[k] = S[c[k]]
    BY <1>1, <2>1, Zenon
  <2>3. b[k] = T[d[k]] /\ d[k] = c[k]
    BY <1>2, <1>3, <2>1, Zenon
  <2> QED
    BY <1>4, <2>2, <2>3, Zenon
<1>7. Grown(a[n], b[n])
  <2>1. n \in 1 .. n /\ n \in 1 .. Len(d)
    BY <1>3
  <2> QED
    BY <1>1, <1>2, <1>3, <1>5, <2>1
<1>8. Grown(Rows(a), Rows(b))
  <2>1. Len(a) > 0 /\ Len(a) <= Len(b) /\ Grown(a[Len(a)], b[Len(a)])
    BY <1>1, <1>2, <1>3, <1>7
  <2>2. \A k \in 1 .. Len(a) - 1 : a[k] = b[k]
    BY <1>1, <1>6
  <2> QED
    BY <1>1, <1>2, <2>1, <2>2, RowsGrow
<1> QED
    BY <1>8 DEF a, b

LEMMA ChainGrown ==
    ASSUME NEW a, Chain(a), NEW b, Chain(b), NEW c, Chain(c), Grown(a, b), Grown(b, c)
    PROVE  Grown(a, c)
<1>1. Len(a) \in Nat /\ Len(b) \in Nat /\ Len(c) \in Nat /\ Len(a) <= Len(b) /\ Len(b) <= Len(c)
    BY ChainIs DEF Grown
<1>2. \A i \in 1 .. Len(a) : i \in 1 .. Len(b) /\ c[i] = b[i] /\ b[i] = a[i]
    BY <1>1 DEF Grown
<1> QED
    BY <1>1, <1>2 DEF Grown

LEMMA ChainSelf == ASSUME NEW a, Chain(a) PROVE Grown(a, a)
    BY ChainIs DEF Grown

-----------------------------------------------------------------------------
(* Steps that only add *)

\* The rows a list leads to are there after the step, the segments before its
\* last one as they were.
Keeps(names) ==
    /\ Grown(Rows(Of(segs, names)), Rows(Of(segs', names)))
    /\ \A k \in 1 .. Len(names) - 1 : segs'[names[k]] = segs[names[k]]

\* A step that only adds to the log, to the manifest and to the active segment.
Calm ==
    /\ Grown(Current, Current') /\ Grown(manifest.names, manifest'.names)
    /\ \A names : Chain(names) /\ Grown(names, manifest.names) => Keeps(names)

LEMMA ShapeFacts ==
    ASSUME Shape
    PROVE  /\ segs \in Segments /\ Current \in Seq(Record) /\ Len(Current) \in Nat
           /\ \A c : Chain(c) => Rows(Of(segs, c)) \in Seq(Nat) /\ Len(Rows(Of(segs, c))) \in Nat
<1>1. segs \in Segments
    BY DEF Shape, Segments
<1>2. logs \in Seq(Seq(Record)) /\ Len(logs) > 0
    BY DEF Shape
<1> QED
    BY <1>1, <1>2, ShapeOf DEF Current

LEMMA ShapeFactsNext ==
    ASSUME Shape'
    PROVE  /\ segs' \in Segments /\ Current' \in Seq(Record) /\ Len(Current') \in Nat
           /\ \A c : Chain(c) => Rows(Of(segs', c)) \in Seq(Nat) /\ Len(Rows(Of(segs', c))) \in Nat
<1>1. segs' \in Segments
    BY DEF Shape, Segments
<1>2. logs' \in Seq(Seq(Record)) /\ Len(logs') > 0
    BY DEF Shape
<1> QED
    BY <1>1, <1>2, ShapeOf DEF Current

\* A commit over a log and rows, and over what they grew into.
LEMMA GrowsExact ==
    ASSUME NEW e, e.rows \in Nat, e.recs \in Nat,
           NEW l \in Seq(Record), NEW m \in Seq(Record), Grown(l, m),
           NEW a \in Seq(Nat), NEW b \in Seq(Nat), Grown(a, b),
           Len(a) >= e.rows, Len(l) >= e.recs
    PROVE  /\ Len(b) >= e.rows /\ Len(m) >= e.recs
           /\ replay_ops(SubSeq(m, 1, e.recs), b, e.rows) = replay_ops(SubSeq(l, 1, e.recs), a, e.rows)
<1>1. SubSeq(m, 1, e.recs) = SubSeq(l, 1, e.recs) /\ SubSeq(l, 1, e.recs) \in Seq(Record)
    BY SubSeqGrown
<1>2. /\ Len(a) \in Nat /\ Len(b) \in Nat /\ Len(l) \in Nat /\ Len(m) \in Nat
      /\ Len(a) <= Len(b) /\ Len(l) <= Len(m) /\ \A i \in 1 .. Len(a) : b[i] = a[i]
    BY DEF Grown
<1>3. \A i \in 1 .. e.rows : b[i] = a[i]
    BY <1>2
<1> DEFINE s == SubSeq(l, 1, e.recs)
<1> HIDE DEF s
<1>4. s \in Seq(Record)
    BY <1>1 DEF s
<1>5. replay_ops(s, b, e.rows) = replay_ops(s, a, e.rows)
    BY <1>3, <1>4, ReplayRows
<1>6. Len(b) >= e.rows /\ Len(m) >= e.recs
    BY <1>2
<1>7. SubSeq(m, 1, e.recs) = s /\ SubSeq(l, 1, e.recs) = s
    BY <1>1 DEF s
<1>8. replay_ops(SubSeq(m, 1, e.recs), b, e.rows) = replay_ops(SubSeq(l, 1, e.recs), a, e.rows)
    BY <1>5, <1>7, Zenon
<1> QED
    BY <1>6, <1>8, Zenon

LEMMA CalmSafe ==
    ASSUME Shape, Shape', Calm, NEW e, Safe(e)
    PROVE  SafeAt(segs', Current', manifest'.names, e)
<1> DEFINE l == Current
           m == Current'
           a == Rows(Of(segs, e.names))
           b == Rows(Of(segs', e.names))
<1>1. /\ e.rows \in Nat /\ e.recs \in Nat /\ Chain(e.names) /\ Grown(e.names, manifest.names)
      /\ Len(a) >= e.rows /\ Len(l) >= e.recs
      /\ replay_ops(SubSeq(l, 1, e.recs), a, e.rows) = e.docs
    BY DEF Safe, SafeAt
<1>2. Grown(a, b)
    BY <1>1 DEF Calm, Keeps
<1>3. l \in Seq(Record) /\ a \in Seq(Nat)
    BY <1>1, ShapeFacts
<1>4. m \in Seq(Record) /\ b \in Seq(Nat)
    BY <1>1, ShapeFactsNext
<1>5. Grown(l, m)
    BY DEF Calm
<1>6. Grown(e.names, manifest'.names)
  <2>1. Chain(manifest.names) /\ Grown(manifest.names, manifest'.names)
    BY DEF Shape, Calm
  <2>2. Chain(manifest'.names)
    BY DEF Shape, Chain
  <2> QED
    BY <1>1, <2>1, <2>2, ChainGrown
<1> HIDE DEF l, m, a, b
<1>7. /\ Len(b) >= e.rows /\ Len(m) >= e.recs
      /\ replay_ops(SubSeq(m, 1, e.recs), b, e.rows) = replay_ops(SubSeq(l, 1, e.recs), a, e.rows)
    BY <1>1, <1>2, <1>3, <1>4, <1>5, GrowsExact
<1>8. replay_ops(SubSeq(m, 1, e.recs), b, e.rows) = e.docs
    BY <1>1, <1>7, Zenon
<1> QED
    BY <1>1, <1>6, <1>7, <1>8 DEF SafeAt, m, b

\* What of a reading handle a pin goes by.
SamePin ==
    /\ r'.pc = r.pc /\ r'.to = r.to /\ r'.floor = r.floor /\ r'.entry = r.entry
    /\ r'.man = r.man /\ r'.staged = r.staged /\ (r.overlap => r'.overlap)

LEMMA CalmStaged ==
    ASSUME Shape, Shape', Calm, SamePin, Safe(r.entry), Staged
    PROVE  Staged'
<1> DEFINE e == r.entry
           t == r.staged
           n == Len(r.staged)
<1>1. Chain(e.names) /\ Grown(e.names, manifest.names) /\ Len(e.names) \in Nat
    BY ChainIs DEF Safe, SafeAt
<1>2. /\ Grown(Rows(Of(segs, e.names)), Rows(Of(segs', e.names)))
      /\ \A k \in 1 .. Len(e.names) - 1 : segs'[e.names[k]] = segs[e.names[k]]
    BY <1>1 DEF Calm, Keeps
<1>3. t \in Seq(Seq(Nat)) /\ n \in Nat /\ n <= Len(e.names)
  <2>1. t \in Seq(Seq(Nat)) /\ n <= Len(e.names)
    BY DEF Staged
  <2>2. n \in Nat
    BY <2>1
  <2> QED
    BY <2>1, <2>2
<1>4. ASSUME n < Len(e.names), NEW k \in 1 .. n PROVE t[k] = segs'[e.names[k]]
  <2>1. t[k] = segs[e.names[k]]
    BY <1>4 DEF Staged
  <2>2. k \in 1 .. Len(e.names) - 1
    <3> HIDE DEF n, e
    <3> QED
      BY <1>1, <1>3, <1>4
  <2> QED
    BY <1>2, <2>1, <2>2 DEF Keeps
<1>5. ASSUME n = Len(e.names)
      PROVE  Len(Rows(t)) >= e.rows /\ Grown(Rows(t), Rows(Of(segs', e.names)))
  <2> DEFINE a == Rows(t)
             b == Rows(Of(segs, e.names))
             c == Rows(Of(segs', e.names))
  <2>1. Len(a) >= e.rows /\ Grown(a, b)
    BY <1>5 DEF Staged, AllRows
  <2>2. n > 0
    BY <1>1, <1>5, ChainIs
  <2>3. a \in Seq(Nat)
    BY <1>3, <2>2, RowsType
  <2>4. b \in Seq(Nat)
    BY <1>1, ShapeFacts
  <2>5. c \in Seq(Nat)
    BY <1>1, ShapeFactsNext
  <2>6. Grown(b, c)
    BY <1>2
  <2> HIDE DEF a, b, c
  <2>7. Grown(a, c)
    BY <2>1, <2>3, <2>4, <2>5, <2>6, GrownTrans
  <2> QED
    BY <2>1, <2>7 DEF a, c
<1> QED
    BY <1>3, <1>4, <1>5 DEF Staged, SamePin, AllRows

SafeNext(e) == SafeAt(segs', Current', manifest'.names, e)

\* The entries after a step that only adds.
LEMMA HistStep ==
    ASSUME Shape, Shape', HistInv, Calm, ~w'.torn => ~w.torn, floor' <= w'.pruned + 1,
           manifest.version <= manifest'.version,
           \A e \in hist' : \/ e \in hist /\ (e.version >= floor' => e.version >= floor)
                            \/ e.version = manifest'.version /\ (~w'.torn => SafeNext(e)),
           w'.pc = "rewrite" \/ Rewritten' => \A e \in hist' : e.version < floor'
    PROVE  HistInv'
<1>1. manifest.version \in Nat /\ manifest'.version \in Nat
    BY DEF Shape
<1>2. \A e \in hist' : e.version \in Nat /\ e.version <= manifest'.version
    BY <1>1 DEF HistInv
<1>3. ASSUME ~w'.torn, NEW e \in hist', e.version >= floor' PROVE SafeAt(segs', Current', manifest'.names, e)
  <2>1. CASE e \in hist /\ e.version >= floor
    <3>1. Safe(e)
      BY <1>3, <2>1 DEF HistInv
    <3> QED
      BY <3>1, CalmSafe
  <2>2. CASE SafeNext(e)
    BY <2>2 DEF SafeNext
  <2> QED
    BY <1>3, <2>1, <2>2
<1> QED
    BY <1>2, <1>3 DEF HistInv, Safe

\* A pin beside a step that only adds.
LEMMA PinStep ==
    ASSUME Shape, Shape', PinInv, Calm, SamePin, ~w'.torn => ~w.torn, Rewritten' => Rewritten,
           \A e \in hist' : e \in hist \/ (~w'.torn => SafeNext(e))
    PROVE  PinInv'
<1>1. r'.pc \in {"idle", "stat", "swap"} => r'.to = 0
    BY DEF PinInv, SamePin
<1>2. Rewritten' /\ r'.pc # "idle" => r'.overlap
    BY DEF PinInv, SamePin
<1>3. ASSUME ~w'.torn, ~r'.overlap, r'.pc = "entry", NEW e \in hist', e.version >= r'.floor
      PROVE  SafeAt(segs', Current', manifest'.names, e)
  <2>1. CASE e \in hist
    <3>1. Safe(e)
      BY <1>3, <2>1 DEF PinInv, SamePin
    <3> QED
      BY <3>1, CalmSafe
  <2>2. CASE SafeNext(e)
    BY <2>2 DEF SafeNext
  <2> QED
    BY <1>3, <2>1, <2>2
<1>4. ASSUME ~w'.torn, ~r'.overlap, r'.pc = "segs", r'.to # 0
      PROVE  SafeAt(segs', Current', manifest'.names, r.entry) /\ r'.man.names = r'.entry.names /\ Staged'
  <2>1. Safe(r.entry) /\ r.man.names = r.entry.names /\ Staged
    BY <1>4 DEF PinInv, SamePin
  <2>2. SafeAt(segs', Current', manifest'.names, r.entry)
    BY <2>1, CalmSafe
  <2> QED
    BY <2>1, <2>2, CalmStaged DEF SamePin
<1> QED
    BY <1>1, <1>2, <1>3, <1>4 DEF PinInv, Safe, SamePin

\* A step that leaves the objects alone.
LEMMA QuietCalm ==
    ASSUME Shape, UNCHANGED <<segs, logs>>, Grown(manifest.names, manifest'.names)
    PROVE  Calm
<1>1. Current' = Current /\ Grown(Current, Current)
  <2>1. Len(Current) \in Nat
    BY ShapeFacts
  <2> QED
    BY <2>1 DEF Current, Grown
<1>2. ASSUME NEW names, Chain(names) PROVE Keeps(names)
  <2>1. Len(Rows(Of(segs, names))) \in Nat
    BY <1>2, ShapeFacts
  <2> QED
    BY <2>1 DEF Keeps, Grown
<1> QED
    BY <1>1, <1>2 DEF Calm

\* T is S with row x behind the rows that d leads to, and behind no others.
Appended(S, T, d, x) ==
    /\ T \in Segments
    /\ \A c : Chain(c) /\ Grown(c, d) =>
          /\ Grown(Rows(Of(S, c)), Rows(Of(T, c)))
          /\ \A k \in 1 .. Len(c) - 1 : T[c[k]] = S[c[k]]
    /\ Len(Rows(Of(T, d))) = Len(Rows(Of(S, d))) + 1
    /\ Rows(Of(T, d))[Len(Rows(Of(S, d))) + 1] = x
    /\ \A s \in 0 .. MaxSegment : s # d[Len(d)] => T[s] = S[s]

\* A row appended to the last segment of a list.
LEMMA AppendGrows ==
    ASSUME NEW S \in Segments, NEW d, Chain(d), NEW x \in Nat, NEW T,
           T = [S EXCEPT ![d[Len(d)]] = Append(@, x)]
    PROVE  Appended(S, T, d, x)
<1> DEFINE z == d[Len(d)]
           n == Len(d)
<1>1. n \in Nat /\ n > 0 /\ n \in 1 .. n /\ z \in 0 .. MaxSegment
    BY ChainIs
<1>2. S[z] \in Seq(Nat) /\ DOMAIN S = 0 .. MaxSegment
    BY <1>1 DEF Segments
<1> DEFINE a == S[z]
           b == Append(S[z], x)
<1>3. b \in Seq(Nat) /\ Len(b) = Len(a) + 1 /\ b[Len(a) + 1] = x /\ Grown(a, b)
  <2> HIDE DEF a
  <2>1. a \in Seq(Nat)
    BY <1>2 DEF a
  <2>2. Append(a, x) \in Seq(Nat) /\ Len(Append(a, x)) = Len(a) + 1 /\ Append(a, x)[Len(a) + 1] = x
        /\ \A i \in 1 .. Len(a) : Append(a, x)[i] = a[i]
    BY <2>1, AppendProperties
  <2>3. Len(a) \in Nat
    BY <2>1
  <2>4. Grown(a, Append(a, x))
    BY <2>2, <2>3 DEF Grown
  <2> QED
    BY <2>2, <2>4 DEF a
<1>4. T[z] = b /\ \A s \in 0 .. MaxSegment : s # z => T[s] = S[s]
    BY <1>1, <1>2
<1>5. T \in Segments
    BY <1>1, <1>2, <1>3 DEF Segments
<1> HIDE DEF z, b, a
<1>6. \A s \in 0 .. MaxSegment : Grown(S[s], T[s])
  <2> TAKE s \in 0 .. MaxSegment
  <2>1. CASE s = z
    BY <1>3, <1>4, <2>1 DEF a
  <2>2. CASE s # z
    <3> DEFINE y == S[s]
    <3>1. y \in Seq(Nat) /\ T[s] = y
      BY <1>4, <2>2 DEF Segments
    <3> HIDE DEF y
    <3>2. Grown(y, y)
      BY <3>1 DEF Grown
    <3> QED
      BY <3>1, <3>2 DEF y
  <2> QED
    BY <2>1, <2>2
<1>7. ASSUME NEW c, Chain(c), Grown(c, d)
      PROVE  /\ Grown(Rows(Of(S, c)), Rows(Of(T, c)))
             /\ \A k \in 1 .. Len(c) - 1 : T[c[k]] = S[c[k]]
  <2>1. Len(c) \in Nat /\ Len(c) > 0 /\ Len(c) <= n /\ \A k \in 1 .. Len(c) : c[k] = d[k] /\ c[k] \in 0 .. MaxSegment
    BY <1>7, ChainIs DEF Grown
  <2>2. \A i, j \in 1 .. n : d[i] = d[j] => i = j
    BY DEF Chain
  <2>3. ASSUME NEW k \in 1 .. Len(c) - 1 PROVE T[c[k]] = S[c[k]]
    <3>1. k \in 1 .. n /\ k # n /\ k \in 1 .. Len(c)
      BY <1>1, <2>1
    <3>2. d[k] # z
      BY <1>1, <2>2, <3>1 DEF z
    <3> QED
      BY <1>4, <2>1, <3>1, <3>2
  <2>4. Grown(S[c[Len(c)]], T[c[Len(c)]])
    <3>1. c[Len(c)] \in 0 .. MaxSegment
      BY <1>7, ChainIs
    <3> QED
      BY <1>6, <3>1
  <2>5. Grown(c, c)
    BY <1>7, ChainSelf
  <2> QED
    BY <1>5, <1>7, <2>3, <2>4, <2>5, OfGrows
<1>8. /\ Len(Rows(Of(T, d))) = Len(Rows(Of(S, d))) + 1
      /\ Rows(Of(T, d))[Len(Rows(Of(S, d))) + 1] = x
  <2> DEFINE s == Of(S, d)
             t == Of(T, d)
  <2>1. s \in Seq(Seq(Nat)) /\ Len(s) = n /\ \A k \in 1 .. n : s[k] = S[d[k]]
    BY OfIs
  <2>2. t \in Seq(Seq(Nat)) /\ Len(t) = n /\ \A k \in 1 .. n : t[k] = T[d[k]]
    <3>1. \A U \in Segments : /\ Of(U, d) \in Seq(Seq(Nat)) /\ Len(Of(U, d)) = Len(d)
                               /\ \A k \in 1 .. Len(d) : Of(U, d)[k] = U[d[k]]
      BY OfIs
    <3> QED
      BY <1>5, <3>1, Zenon
  <2>3. \A k \in 1 .. n - 1 : T[d[k]] = S[d[k]]
    BY <1>7, ChainSelf
  <2> HIDE DEF s, t, n
  <2>4. \A k \in 1 .. n - 1 : s[k] = t[k]
    <3> TAKE k \in 1 .. n - 1
    <3>1. k \in 1 .. n
      BY <1>1
    <3> QED
      BY <2>1, <2>2, <2>3, <3>1
  <2>5. s[n] = a /\ t[n] = b
    BY <1>1, <1>4, <2>1, <2>2 DEF z, a, n
  <2>6. /\ Len(s) > 0 /\ Len(t) = Len(s) /\ Len(t[Len(s)]) = Len(s[Len(s)]) + 1
        /\ t[Len(s)][Len(s[Len(s)]) + 1] = x /\ \A k \in 1 .. Len(s) - 1 : s[k] = t[k]
    <3>1. Len(s) = n /\ Len(t) = n /\ t[Len(s)] = b /\ s[Len(s)] = a
      BY <2>1, <2>2, <2>5, Zenon
    <3>2. Len(b) = Len(a) + 1 /\ b[Len(a) + 1] = x /\ n > 0
      BY <1>1, <1>3, Zenon
    <3> QED
      BY <2>4, <3>1, <3>2, Zenon
  <2>7. Len(Rows(t)) = Len(Rows(s)) + 1 /\ Rows(t)[Len(Rows(s)) + 1] = x
    BY <2>1, <2>2, <2>6, RowsLast
  <2> QED
    BY <2>7 DEF s, t
<1> QED
    BY <1>4, <1>5, <1>7, <1>8 DEF z, Appended

LEMMA BoundTypes == MaxSegment \in Nat /\ MaxWrites \in Nat /\ HistoryVersions \in Nat /\ PruneBatch \in Nat
    BY ReadersAssumption DEF MaxSegment

\* A list with a new, empty segment behind it.
LEMMA LongerChain ==
    ASSUME NEW S \in Segments, NEW d, Chain(d), NEW x \in 0 .. MaxSegment, S[x] = <<>>,
           \A k \in 1 .. Len(d) : d[k] < x
    PROVE  Chain(Append(d, x)) /\ Rows(Of(S, Append(d, x))) = Rows(Of(S, d))
<1> DEFINE X == 0 .. MaxSegment
           n == Len(d)
           a == Append(d, x)
<1>1. n \in Nat /\ n > 0 /\ \A k \in 1 .. n : d[k] \in X
    BY ChainIs
<1>2. d \in Seq(X) /\ d[1] = 0 /\ \A i, j \in 1 .. n : d[i] = d[j] => i = j
    BY DEF Chain
<1>3. x \in X
    OBVIOUS
<1>4. \A k \in X : k \in Int
    BY BoundTypes
<1>5. \A k \in 1 .. n : d[k] < x
    OBVIOUS
<1> HIDE DEF X
<1>6. a \in Seq(X) /\ Len(a) = n + 1 /\ a[n + 1] = x /\ \A k \in 1 .. n : a[k] = d[k]
    BY <1>2, <1>3, AppendProperties
<1> HIDE DEF a, n
<1>7. \A i, j \in 1 .. n + 1 : a[i] = a[j] => i = j
  <2> TAKE i, j \in 1 .. n + 1
  <2> HAVE a[i] = a[j]
  <2>1. \A k \in 1 .. n : d[k] # x
    BY <1>1, <1>3, <1>4, <1>5
  <2>2. CASE i \in 1 .. n /\ j \in 1 .. n
    BY <1>2, <1>6, <2>2
  <2>3. CASE i = n + 1 /\ j \in 1 .. n
    BY <1>6, <2>1, <2>3
  <2>4. CASE j = n + 1 /\ i \in 1 .. n
    BY <1>6, <2>1, <2>4
  <2> QED
    BY <1>1, <2>2, <2>3, <2>4
<1>8. Chain(a)
  <2>1. a[1] = 0 /\ Len(a) > 0
    BY <1>1, <1>2, <1>6
  <2> QED
    BY <1>6, <1>7, <2>1 DEF Chain, X
<1>9. Rows(Of(S, a)) = Rows(Of(S, d))
  <2> DEFINE s == Of(S, d)
             t == Of(S, a)
  <2>1. s \in Seq(Seq(Nat)) /\ Len(s) = n /\ \A k \in 1 .. n : s[k] = S[d[k]]
    BY OfIs DEF n
  <2>2. t \in Seq(Seq(Nat)) /\ Len(t) = n + 1 /\ \A k \in 1 .. n + 1 : t[k] = S[a[k]]
    BY <1>6, <1>8, OfIs
  <2> HIDE DEF s, t
  <2>3. \A k \in 1 .. n : t[k] = s[k]
    <3> TAKE k \in 1 .. n
    <3>1. k \in 1 .. n + 1
      BY <1>1
    <3> QED
      BY <1>6, <2>1, <2>2, <3>1, ZenonT(40)
  <2>4. t[n + 1] = <<>>
    <3>1. n + 1 \in 1 .. n + 1
      BY <1>1
    <3> QED
      BY <1>6, <2>2, <3>1
  <2>5. Len(s) > 0 /\ Len(t) = Len(s) + 1 /\ (\A k \in 1 .. Len(s) : t[k] = s[k]) /\ t[Len(s) + 1] = <<>>
    BY <1>1, <2>1, <2>2, <2>3, <2>4
  <2>6. Rows(t) = Rows(s)
    BY <2>1, <2>2, <2>5, RowsEmpty
  <2> QED
    BY <2>6 DEF s, t
<1> QED
    BY <1>8, <1>9 DEF a

-----------------------------------------------------------------------------
(* One lemma per action of the writer *)

\* Between calls the writer's list is the published one.
LEMMA PublishedNames ==
    ASSUME NamesInv, w.pc \notin {"relog", "publish"}
    PROVE  /\ w.names = manifest.names /\ w.next = manifest.next /\ w.version = manifest.version
           /\ ~Rewritten
    BY DEF NamesInv, Rewritten

LEMMA UpsertStep ==
    ASSUME HistoryInv, NEW id \in Ids, Upsert(id)
    PROVE  HistoryInv'
<1> DEFINE x == w.writes + 1
           d == manifest.names
<1>1. /\ Shape /\ NamesInv /\ DocsInv /\ HistInv /\ PinInv
    BY DEF HistoryInv
<1>2. w.pc = "idle" /\ w.after = "idle" /\ w.names = d /\ w.next = manifest.next /\ w.version = manifest.version
    BY <1>1, PublishedNames DEF Upsert, NamesInv
<1>3. Chain(d) /\ x \in Nat /\ segs \in Segments /\ DOMAIN w = WFields
    BY <1>1 DEF Shape, Segments
<1>4. Active = d[Len(d)] /\ RowCount = Len(Rows(Of(segs, d)))
    BY <1>2 DEF Active, Last, RowCount, Contents, Of
<1>5. segs' = [segs EXCEPT ![d[Len(d)]] = Append(@, x)]
    BY <1>4 DEF Upsert
<1>6. UNCHANGED <<logs, manifest, hist, floor, r>>
    BY DEF Upsert
<1>7. w' = [w EXCEPT !.pc = "log", !.writes = x, !.rec = [id |-> id, row |-> RowCount + 1, n |-> x]]
    BY DEF Upsert
<1>8. /\ DOMAIN w' = WFields /\ w'.pc = "log" /\ w'.after = w.after /\ w'.names = w.names
      /\ w'.next = w.next /\ w'.version = w.version /\ w'.docs = w.docs /\ w'.pruned = w.pruned
      /\ w'.writes = x /\ w'.torn = w.torn /\ w'.dropped = w.dropped
      /\ w'.rec = [id |-> id, row |-> RowCount + 1, n |-> x]
    BY <1>3, <1>7 DEF WFields
<1> HIDE DEF d, x
<1>9. /\ segs' \in Segments
      /\ \A c : Chain(c) /\ Grown(c, d) =>
                 /\ Grown(Rows(Of(segs, c)), Rows(Of(segs', c)))
                 /\ \A k \in 1 .. Len(c) - 1 : segs'[c[k]] = segs[c[k]]
      /\ Len(Rows(Of(segs', d))) = Len(Rows(Of(segs, d))) + 1
      /\ Rows(Of(segs', d))[Len(Rows(Of(segs, d))) + 1] = x
      /\ \A s \in 0 .. MaxSegment : s # d[Len(d)] => segs'[s] = segs[s]
  <2>1. Appended(segs, segs', d, x)
    BY <1>3, <1>5, AppendGrows
  <2> QED
    BY <2>1 DEF Appended
<1>10. Shape'
  <2>1. Len(Rows(Of(segs, d))) + 1 \in Nat
    BY <1>1, <1>3, ShapeFacts
  <2>2. w'.rec \in Record
    BY <1>3, <1>4, <1>8, <2>1 DEF Record
  <2> QED
    BY <1>1, <1>3, <1>6, <1>8, <1>9, <2>2 DEF Shape, Segments
<1>11. NamesInv'
  <2>1. \A s \in 0 .. MaxSegment : s >= manifest.next => segs'[s] = <<>>
    <3>1. d[Len(d)] < manifest.next /\ d[Len(d)] \in 0 .. MaxSegment /\ manifest.next \in Nat
      BY <1>1, <1>3, ChainIs DEF NamesInv, d, Shape
    <3>2. \A s \in 0 .. MaxSegment : s >= manifest.next => s # d[Len(d)]
      BY <3>1
    <3> QED
      BY <1>1, <1>9, <3>2 DEF NamesInv
  <2>2. ~Rewritten'
    BY <1>8 DEF Rewritten
  <2> QED
    BY <1>1, <1>2, <1>6, <1>8, <2>1, <2>2 DEF NamesInv, d
<1>12. Calm
  <2>1. \A c : Chain(c) /\ Grown(c, manifest.names) => Keeps(c)
    BY <1>9 DEF Keeps, d
  <2>2. Grown(Current, Current')
    <3>1. Len(Current) \in Nat
      BY <1>1, ShapeFacts
    <3> QED
      BY <1>6, <3>1 DEF Current, Grown
  <2>3. Grown(manifest.names, manifest'.names)
    BY <1>3, <1>6, ChainSelf, SMTT(30) DEF d
  <2> QED
    BY <2>1, <2>2, <2>3 DEF Calm
<1>13. DocsInv'
  <2> SUFFICES ASSUME ~w.torn PROVE DocsInv'
    BY <1>8 DEF DocsInv
  <2> DEFINE a == Rows(Of(segs, d))
             b == Rows(Of(segs', d))
             l == Current
  <2>1. /\ \A k \in DOMAIN l : l[k].row <= Len(a)
        /\ w.docs = replay_ops(l, a, Len(a))
    BY <1>1, <1>2 DEF DocsInv, AllRows, d
  <2>2. a \in Seq(Nat) /\ Len(a) \in Nat /\ l \in Seq(Record) /\ Current' = l
    BY <1>1, <1>3, <1>6, ShapeFacts DEF Current
  <2>3. b \in Seq(Nat) /\ Len(b) = Len(a) + 1 /\ b[Len(a) + 1] = x /\ Grown(a, b)
    BY <1>3, <1>9, <1>10, ShapeFactsNext, ChainSelf
  <2>4. AllRows(w.names)' = b /\ AllRows(manifest.names)' = b
    BY <1>2, <1>6, <1>8 DEF AllRows, d
  <2>5. RowCount = Len(a)
    BY <1>4
  <2> HIDE DEF a, b, l
  <2>6. \A k \in DOMAIN l : l[k].row <= Len(b)
    <3> TAKE k \in DOMAIN l
    <3>1. l[k].row \in Nat /\ l[k].row <= Len(a)
      BY <2>1, <2>2, RecordRow
    <3> QED
      BY <2>2, <2>3, <3>1
  <2>7. w.docs = replay_ops(l, b, Len(b))
    BY <2>1, <2>2, <2>3, ReplayMore
  <2>8. w'.rec \in Record /\ w'.rec.row = Len(b) /\ b[w'.rec.row] = w'.rec.n
    BY <1>3, <1>8, <2>2, <2>3, <2>5 DEF Record
  <2>9. w'.docs = replay_ops(l, b, Len(b))
    BY <1>8, <2>7
  <2>10. /\ \A k \in DOMAIN Current' : Current'[k].row <= Len(AllRows(w.names)') /\ Current'[k].row <= Len(AllRows(manifest.names)')
         /\ w'.docs = replay_ops(Current', AllRows(w.names)', Len(AllRows(w.names)'))
         /\ w'.rec \in Record
         /\ w'.rec.row # 0 => w'.rec.row = Len(AllRows(w.names)') /\ AllRows(w.names)'[w'.rec.row] = w'.rec.n
    BY <2>2, <2>4, <2>6, <2>8, <2>9
  <2> QED
    BY <2>10 DEF DocsInv, replay_ops, Record
<1>14. RelogInv'
    BY <1>8 DEF RelogInv
<1>15. HistInv'
  <2>1. floor' <= w'.pruned + 1 /\ manifest.version <= manifest'.version /\ w'.torn = w.torn
    BY <1>1, <1>6, <1>8 DEF HistInv, Shape
  <2>2. w'.pc # "rewrite" /\ ~Rewritten'
    BY <1>8 DEF Rewritten
  <2> QED
    BY <1>1, <1>6, <1>10, <1>12, <2>1, <2>2, HistStep
<1>16. PinInv'
  <2>1. SamePin /\ w'.torn = w.torn /\ ~Rewritten' /\ hist' = hist
    BY <1>6, <1>8 DEF SamePin, Rewritten
  <2> QED
    BY <1>1, <1>10, <1>12, <2>1, PinStep
<1> QED
    BY <1>10, <1>11, <1>13, <1>14, <1>15, <1>16 DEF HistoryInv

\* A step of the writer that leaves segments, log, manifest and documents alone.
LEMMA QuietStep ==
    ASSUME HistoryInv, UNCHANGED <<segs, logs, manifest, r>>, Shape', NamesInv',
           w.pc # "relog", w'.pc # "relog", ~Rewritten',
           w'.docs = w.docs, w'.torn = w.torn, AllRows(w.names)' = AllRows(w.names),
           w'.pc = "log" => w'.rec.row = 0,
           floor' <= w'.pruned + 1,
           \A e \in hist' : \/ e \in hist /\ (e.version >= floor' => e.version >= floor)
                            \/ e.version = manifest.version /\ (~w.torn => Safe(e)),
           w'.pc = "rewrite" => \A e \in hist' : e.version < floor'
    PROVE  HistoryInv'
<1>1. Shape /\ NamesInv /\ DocsInv /\ HistInv /\ PinInv
    BY DEF HistoryInv
<1>2. Calm
  <2>1. Grown(manifest.names, manifest'.names)
    BY <1>1, ChainSelf DEF Shape
  <2> QED
    BY <1>1, <2>1, QuietCalm
<1>3. Current' = Current /\ AllRows(manifest.names)' = AllRows(manifest.names)
    BY DEF Current, AllRows
<1>4. \A e : Safe(e) => SafeNext(e)
    BY <1>3 DEF Safe, SafeNext
<1>5. HistInv'
  <2>1. manifest.version <= manifest'.version /\ manifest'.version = manifest.version
    BY <1>1, SMTT(30) DEF Shape
  <2> QED
    BY <1>1, <1>2, <1>4, <2>1, HistStep
<1>6. PinInv'
  <2>1. SamePin
    BY DEF SamePin
  <2> QED
    BY <1>1, <1>2, <1>4, <2>1, PinStep
<1>7. DocsInv'
    BY <1>1, <1>3, SMTT(30) DEF DocsInv, replay_ops, Record
<1>8. RelogInv'
    BY DEF RelogInv
<1> QED
    BY <1>5, <1>6, <1>7, <1>8 DEF HistoryInv

LEMMA DeleteStep ==
    ASSUME HistoryInv, NEW id \in Ids, Delete(id)
    PROVE  HistoryInv'
<1>1. Shape /\ NamesInv /\ HistInv /\ w.pc = "idle" /\ DOMAIN w = WFields
    BY DEF HistoryInv, Delete, Shape
<1>2. w' = [w EXCEPT !.pc = "log", !.writes = @ + 1, !.rec = [id |-> id, row |-> 0, n |-> w.writes + 1]]
    BY DEF Delete
<1>3. /\ DOMAIN w' = WFields /\ w'.pc = "log" /\ w'.after = w.after /\ w'.names = w.names
      /\ w'.next = w.next /\ w'.version = w.version /\ w'.docs = w.docs /\ w'.pruned = w.pruned
      /\ w'.writes = w.writes + 1 /\ w'.torn = w.torn /\ w'.dropped = w.dropped
      /\ w'.rec = [id |-> id, row |-> 0, n |-> w.writes + 1]
    BY <1>1, <1>2 DEF WFields
<1>4. UNCHANGED <<segs, logs, manifest, hist, floor, r>>
    BY DEF Delete
<1>8. w'.rec \in Record /\ w'.rec.row = 0
    BY <1>1, <1>3 DEF Record, Shape
<1>5. Shape'
    BY <1>1, <1>3, <1>4, <1>8 DEF Shape
<1>6. ~Rewritten' /\ AllRows(w.names)' = AllRows(w.names)
    BY <1>3, <1>4 DEF Rewritten, AllRows
<1>7. NamesInv'
    BY <1>1, <1>3, <1>4, <1>6 DEF NamesInv
<1>9. floor' <= w'.pruned + 1
    BY <1>1, <1>3, <1>4 DEF HistInv
<1> QED
    BY <1>1, <1>3, <1>4, <1>5, <1>6, <1>7, <1>8, <1>9, QuietStep

LEMMA SealStep ==
    ASSUME HistoryInv, Seal
    PROVE  HistoryInv'
<1> DEFINE d == manifest.names
           x == manifest.next
<1>1. Shape /\ NamesInv /\ HistInv /\ w.pc = "idle" /\ DOMAIN w = WFields
    BY DEF HistoryInv, Seal, Shape
<1>2. w.names = d /\ w.next = x /\ w.version = manifest.version /\ w.after = "idle"
    BY <1>1, PublishedNames DEF NamesInv
<1>3. x \in 0 .. MaxSegment /\ Chain(d)
    BY <1>1, <1>2, BoundTypes DEF Seal, Shape
<1>4. w' = [w EXCEPT !.pc = "publish", !.names = Append(@, w.next), !.next = @ + 1, !.version = @ + 1]
    BY DEF Seal
<1>5. /\ DOMAIN w' = WFields /\ w'.pc = "publish" /\ w'.after = "idle" /\ w'.names = Append(d, x)
      /\ w'.next = x + 1 /\ w'.version = w.version + 1 /\ w'.docs = w.docs /\ w'.pruned = w.pruned
      /\ w'.writes = w.writes /\ w'.torn = w.torn /\ w'.dropped = w.dropped
    BY <1>1, <1>2, <1>4 DEF WFields
<1>6. UNCHANGED <<segs, logs, manifest, hist, floor, r>>
    BY DEF Seal
<1>7. Chain(Append(d, x)) /\ Rows(Of(segs, Append(d, x))) = Rows(Of(segs, d))
  <2>1. \A k \in 1 .. Len(d) : d[k] < x
    BY <1>1 DEF NamesInv
  <2>2. segs[x] = <<>>
    BY <1>1, <1>3 DEF NamesInv, Shape
  <2>3. segs \in Segments
    BY <1>1 DEF Shape, Segments
  <2> HIDE DEF d, x
  <2> QED
    BY <1>3, <2>1, <2>2, <2>3, LongerChain
<1>8. Shape'
    BY <1>1, <1>5, <1>6, <1>7, SMTT(30) DEF Shape
<1>9. ~Rewritten' /\ AllRows(w.names)' = AllRows(w.names)
    BY <1>2, <1>5, <1>6, <1>7 DEF Rewritten, AllRows
<1>10. NamesInv'
  <2>1. w'.version >= manifest'.version
    BY <1>1, <1>2, <1>5, <1>6 DEF Shape
  <2>2. x <= MaxSegment
    BY <1>3, BoundTypes
  <2> QED
    BY <1>1, <1>5, <1>6, <1>9, <2>1, <2>2 DEF NamesInv
<1>11. floor' <= w'.pruned + 1
    BY <1>1, <1>5, <1>6 DEF HistInv
<1> HIDE DEF d, x
<1> QED
    BY <1>1, <1>5, <1>6, <1>8, <1>9, <1>10, <1>11, QuietStep

\* What the writer commits at this moment.
LEMMA EntrySafe ==
    ASSUME Shape, DocsInv, NamesInv, w.pc = "record"
    PROVE  Entry.version = manifest.version /\ (~w.torn => Safe(Entry))
<1> DEFINE a == Rows(Of(segs, w.names))
           l == Current
<1>1. w.names = manifest.names /\ w.version = manifest.version
    BY PublishedNames
<1>2. /\ Entry.version = w.version /\ Entry.names = w.names /\ Entry.rows = Len(a)
      /\ Entry.recs = Len(l) /\ Entry.docs = w.docs
    BY DEF Entry, RowCount, Contents, Of
<1>3. Chain(w.names) /\ Grown(w.names, manifest.names)
    BY <1>1, ChainSelf DEF Shape
<1>4. Len(a) \in Nat /\ l \in Seq(Record) /\ Len(l) \in Nat
    BY <1>3, ShapeFacts
<1>5. ASSUME ~w.torn PROVE SafeAt(segs, l, manifest.names, Entry)
  <2>1. w.docs = replay_ops(l, a, Len(a))
    BY <1>5 DEF DocsInv, AllRows
  <2> HIDE DEF a, l
  <2>2. SubSeq(l, 1, Len(l)) = l
    BY <1>4, SubSeqFull
  <2>3. Rows(Of(segs, Entry.names)) = a
    BY <1>2 DEF a
  <2>4. replay_ops(SubSeq(l, 1, Entry.recs), Rows(Of(segs, Entry.names)), Entry.rows) = Entry.docs
    BY <1>2, <2>1, <2>2, <2>3, Zenon
  <2>5. Entry.rows \in Nat /\ Entry.recs \in Nat /\ Chain(Entry.names) /\ Grown(Entry.names, manifest.names)
    BY <1>2, <1>3, <1>4, Zenon
  <2>6. Len(Rows(Of(segs, Entry.names))) >= Entry.rows /\ Len(l) >= Entry.recs
    <3>1. Len(Rows(Of(segs, Entry.names))) = Len(a) /\ Entry.rows = Len(a) /\ Entry.recs = Len(l)
      BY <1>2, <2>3, Zenon
    <3> QED
      BY <1>4, <3>1
  <2> QED
    BY <2>4, <2>5, <2>6, Zenon DEF SafeAt
<1> QED
    BY <1>1, <1>2, <1>5 DEF Safe

\* A step of the writer behind its commit point: it only turns to what is next.
LEMMA OnwardStep ==
    ASSUME HistoryInv, UNCHANGED <<segs, logs, manifest, r>>, DOMAIN w' = WFields,
           w.pc \in {"record", "prune", "floor"},
           \/ w'.pc = w.after /\ w'.after = "idle"
           \/ w'.pc \in {"prune", "floor"} /\ w'.after = w.after,
           w'.names = w.names, w'.next = w.next, w'.version = w.version, w'.docs = w.docs,
           w'.writes = w.writes, w'.torn = w.torn, w'.dropped = w.dropped,
           w'.pruned \in Nat, floor' \in Nat, floor' <= w'.pruned + 1,
           \A e \in hist' : \/ e \in hist /\ (e.version >= floor' => e.version >= floor)
                            \/ e.version = manifest.version /\ (~w.torn => Safe(e))
    PROVE  HistoryInv'
<1>1. Shape /\ NamesInv
    BY DEF HistoryInv
<1>2. w.after \in {"idle", "drop"}
    BY <1>1 DEF NamesInv
<1>3. Shape'
  <2>1. w'.pc # "log"
    BY <1>2
  <2> QED
    BY <1>1, <2>1 DEF Shape
<1>4. ~Rewritten' /\ AllRows(w.names)' = AllRows(w.names) /\ w'.pc \notin {"relog", "log", "rewrite", "publish"}
    BY <1>2 DEF Rewritten, AllRows
<1>5. NamesInv'
    BY <1>1, <1>2, <1>4 DEF NamesInv
<1> QED
    BY <1>3, <1>4, <1>5, QuietStep

LEMMA ReturnedIs ==
    ASSUME DOMAIN w = WFields, NEW pc, w' = Returned(pc)
    PROVE  /\ DOMAIN w' = WFields /\ w'.pc = pc /\ w'.after = "idle"
           /\ w'.names = w.names /\ w'.next = w.next /\ w'.version = w.version /\ w'.docs = w.docs
           /\ w'.writes = w.writes /\ w'.torn = w.torn /\ w'.dropped = w.dropped /\ w'.pruned = w.pruned
    BY DEF Returned, WFields

LEMMA RecordEntryStep ==
    ASSUME HistoryInv, RecordEntry
    PROVE  HistoryInv'
<1>1. Shape /\ NamesInv /\ DocsInv /\ HistInv /\ w.pc = "record" /\ DOMAIN w = WFields
    BY DEF HistoryInv, RecordEntry, Shape
<1>2. UNCHANGED <<segs, logs, manifest, floor, r>>
    BY DEF RecordEntry
<1>3. floor \in Nat /\ w.pruned \in Nat /\ floor <= w.pruned + 1
    BY <1>1 DEF Shape, HistInv
<1>4. CASE hist' = {e \in hist : e.version # w.version} \cup {Entry} /\ w' = [w EXCEPT !.pc = "prune"]
  <2>1. \A e \in hist' : e \in hist \/ (e.version = manifest.version /\ (~w.torn => Safe(e)))
    BY <1>1, <1>4, EntrySafe
  <2>2. /\ DOMAIN w' = WFields /\ w'.pc = "prune" /\ w'.after = w.after
        /\ w'.names = w.names /\ w'.next = w.next /\ w'.version = w.version /\ w'.docs = w.docs
        /\ w'.writes = w.writes /\ w'.torn = w.torn /\ w'.dropped = w.dropped /\ w'.pruned = w.pruned
    BY <1>1, <1>4 DEF WFields
  <2> QED
    BY <1>1, <1>2, <1>3, <2>1, <2>2, OnwardStep
<1>5. CASE w' = Returned(w.after) /\ UNCHANGED hist
  <2>1. /\ DOMAIN w' = WFields /\ w'.pc = w.after /\ w'.after = "idle"
        /\ w'.names = w.names /\ w'.next = w.next /\ w'.version = w.version /\ w'.docs = w.docs
        /\ w'.writes = w.writes /\ w'.torn = w.torn /\ w'.dropped = w.dropped /\ w'.pruned = w.pruned
    BY <1>1, <1>5, ReturnedIs
  <2> QED
    BY <1>1, <1>2, <1>3, <1>5, <2>1, OnwardStep
<1> QED
    BY <1>4, <1>5 DEF RecordEntry

LEMMA PruneHistoryStep ==
    ASSUME HistoryInv, PruneHistory
    PROVE  HistoryInv'
<1> DEFINE target == w.version - HistoryVersions
           through == Min({target, w.pruned + PruneBatch})
<1>1. Shape /\ NamesInv /\ DocsInv /\ HistInv /\ w.pc = "prune" /\ DOMAIN w = WFields
    BY DEF HistoryInv, PruneHistory, Shape
<1>2. UNCHANGED <<segs, logs, manifest, floor, r>>
    BY DEF PruneHistory
<1>3. floor \in Nat /\ w.pruned \in Nat /\ floor <= w.pruned + 1 /\ w.version \in Nat
    BY <1>1 DEF Shape, HistInv
<1>4. CASE target <= w.pruned
  <2>1. w' = Returned(w.after) /\ UNCHANGED hist
    BY <1>4 DEF PruneHistory
  <2>2. /\ DOMAIN w' = WFields /\ w'.pc = w.after /\ w'.after = "idle"
        /\ w'.names = w.names /\ w'.next = w.next /\ w'.version = w.version /\ w'.docs = w.docs
        /\ w'.writes = w.writes /\ w'.torn = w.torn /\ w'.dropped = w.dropped /\ w'.pruned = w.pruned
    BY <1>1, <2>1, ReturnedIs
  <2> QED
    BY <1>1, <1>2, <1>3, <2>1, <2>2, OnwardStep
<1>5. CASE ~(target <= w.pruned)
  <2>1. /\ \E kept \in Undeleted({e \in hist : e.version \in w.pruned + 1 .. through}) :
             hist' = {e \in hist : e.version \notin w.pruned + 1 .. through} \cup kept
        /\ w' = [w EXCEPT !.pc = "floor", !.pruned = through]
    BY <1>5 DEF PruneHistory
  <2>2. through \in Nat /\ through >= w.pruned
    <3>1. target \in Int /\ w.pruned + PruneBatch \in Int /\ target > w.pruned /\ w.pruned + PruneBatch >= w.pruned
      BY <1>3, <1>5, BoundTypes
    <3>2. through \in {target, w.pruned + PruneBatch}
      <4> HIDE DEF target
      <4> QED
        BY <3>1, LesserIs
    <3> HIDE DEF target, through
    <3> QED
      BY <1>3, <3>1, <3>2
  <2> HIDE DEF through, target
  <2>3. hist' \subseteq hist
    BY <2>1 DEF Undeleted
  <2>4. /\ DOMAIN w' = WFields /\ w'.pc = "floor" /\ w'.after = w.after
        /\ w'.names = w.names /\ w'.next = w.next /\ w'.version = w.version /\ w'.docs = w.docs
        /\ w'.writes = w.writes /\ w'.torn = w.torn /\ w'.dropped = w.dropped /\ w'.pruned = through
    BY <1>1, <2>1 DEF WFields
  <2>5. floor <= through + 1
    BY <1>3, <2>2
  <2> QED
    BY <1>1, <1>2, <1>3, <2>2, <2>3, <2>4, <2>5, OnwardStep
<1> QED
    BY <1>4, <1>5

LEMMA StoreFloorStep ==
    ASSUME HistoryInv, StoreFloor
    PROVE  HistoryInv'
<1>1. Shape /\ NamesInv /\ DocsInv /\ HistInv /\ w.pc = "floor" /\ DOMAIN w = WFields
    BY DEF HistoryInv, StoreFloor, Shape
<1>2. UNCHANGED <<segs, logs, manifest, hist, r>> /\ w' = Returned(w.after)
    BY DEF StoreFloor
<1>3. floor \in Nat /\ w.pruned \in Nat /\ floor <= w.pruned + 1
    BY <1>1 DEF Shape, HistInv
<1>4. floor' = w.pruned + 1 \/ floor' = floor
    BY DEF StoreFloor
<1>5. floor' \in Nat /\ floor' <= w.pruned + 1 /\ floor <= floor'
    BY <1>3, <1>4
<1>6. \A e \in hist' : e \in hist /\ (e.version >= floor' => e.version >= floor)
  <2> TAKE e \in hist'
  <2>1. e \in hist /\ e.version \in Nat
    BY <1>1, <1>2 DEF HistInv
  <2> QED
    BY <1>3, <1>5, <2>1
<1>7. /\ DOMAIN w' = WFields /\ w'.pc = w.after /\ w'.after = "idle"
      /\ w'.names = w.names /\ w'.next = w.next /\ w'.version = w.version /\ w'.docs = w.docs
      /\ w'.writes = w.writes /\ w'.torn = w.torn /\ w'.dropped = w.dropped /\ w'.pruned = w.pruned
    BY <1>1, <1>2, ReturnedIs
<1> QED
    BY <1>1, <1>2, <1>3, <1>5, <1>6, <1>7, OnwardStep

LEMMA CompactStep ==
    ASSUME HistoryInv, Compact
    PROVE  HistoryInv'
<1>1. Shape /\ NamesInv /\ HistInv /\ w.pc = "idle" /\ DOMAIN w = WFields
    BY DEF HistoryInv, Compact, Shape
<1>2. UNCHANGED <<segs, logs, manifest, hist, r>>
    BY DEF Compact
<1>3. floor \in Nat /\ w.pruned \in Nat /\ floor <= w.pruned + 1 /\ w.version \in Nat /\ w.version = manifest.version
    BY <1>1, PublishedNames DEF Shape, HistInv
<1>4. /\ DOMAIN w' = WFields /\ w'.pc = "rewrite" /\ w'.after = "drop"
      /\ w'.names = w.names /\ w'.next = w.next /\ w'.version = w.version /\ w'.docs = w.docs
      /\ w'.writes = w.writes /\ w'.torn = w.torn /\ w'.dropped = w.dropped
      /\ w'.pruned = IF hist = {} THEN w.pruned ELSE Max({w.pruned, w.version})
    BY <1>1 DEF Compact, WFields
<1>5. floor' = IF hist = {} THEN floor ELSE w.version + 1
    BY DEF Compact
<1>6. Max({w.pruned, w.version}) \in Nat /\ w.version <= Max({w.pruned, w.version})
    BY <1>3, GreaterIs
<1>7. w'.pruned \in Nat /\ floor' \in Nat /\ floor' <= w'.pruned + 1
    BY <1>3, <1>4, <1>5, <1>6
<1>8. \A e \in hist' : e.version < floor' /\ e.version \in Nat /\ e \in hist
    BY <1>1, <1>2, <1>3, <1>5 DEF HistInv
<1>9. \A e \in hist' : e \in hist /\ (e.version >= floor' => e.version >= floor)
    BY <1>7, <1>8
<1>10. Shape'
    BY <1>1, <1>2, <1>4, <1>7 DEF Shape
<1>11. ~Rewritten' /\ AllRows(w.names)' = AllRows(w.names)
    BY <1>2, <1>4 DEF Rewritten, AllRows
<1>12. NamesInv'
    BY <1>1, <1>2, <1>4, <1>11 DEF NamesInv
<1> QED
    BY <1>1, <1>2, <1>4, <1>7, <1>8, <1>9, <1>10, <1>11, <1>12, QuietStep

\* What Witness adds to the reading handle is no part of a pin.
LEMMA WitnessIs ==
    ASSUME DOMAIN r = RFields, NEW docs, r' = Witness(docs)
    PROVE  SamePin /\ DOMAIN r' = RFields /\ r'.overlap = r.overlap
<1>1. CASE r.pc = "idle"
    BY <1>1 DEF Witness, SamePin
<1>2. CASE r.pc # "idle"
    BY <1>2, SMTT(30) DEF Witness, SamePin, RFields
<1> QED
    BY <1>1, <1>2

\* The files m are the files l with record x at the end of the last.
Logged(l, m, x) ==
    /\ m \in Seq(Seq(Record)) /\ Len(m) = Len(l) /\ Len(m) > 0
    /\ m[Len(m)] = Append(l[Len(l)], x) /\ Grown(l[Len(l)], Append(l[Len(l)], x))

\* A log with a record appended to its file.
LEMMA LogGrows ==
    ASSUME NEW l \in Seq(Seq(Record)), Len(l) > 0, NEW x \in Record, NEW m,
           m = [l EXCEPT ![Len(l)] = Append(@, x)]
    PROVE  Logged(l, m, x)
<1> DEFINE X == Seq(Record)
           n == Len(l)
           a == l[n]
<1>1. n \in Nat /\ n > 0 /\ n \in 1 .. n /\ a \in Seq(Record)
    OBVIOUS
<1>2. Append(a, x) \in Seq(Record)
  <2> HIDE DEF a
  <2> QED
    BY <1>1
<1>3. l \in [1 .. n -> X]
    OBVIOUS
<1>4. m \in [1 .. n -> X] /\ m[n] = Append(a, x)
  <2>1. m = [l EXCEPT ![n] = Append(a, x)] /\ Append(a, x) \in X
    BY <1>2
  <2> HIDE DEF n, a, X
  <2> QED
    BY <1>1, <1>3, <2>1
<1>5. m \in Seq(X) /\ Len(m) = n
  <2>1. \A q \in [1 .. n -> X] : q \in Seq(X) /\ Len(q) = n
    <3> HIDE DEF n, X
    <3> QED
      BY <1>1
  <2> HIDE DEF n, X
  <2> QED
    BY <1>4, <2>1, Zenon
<1>6. Grown(a, Append(a, x))
  <2> HIDE DEF a
  <2>1. Len(a) \in Nat
    BY <1>1
  <2>2. Len(Append(a, x)) = Len(a) + 1 /\ \A i \in 1 .. Len(a) : Append(a, x)[i] = a[i]
    BY <1>1, AppendProperties
  <2> QED
    BY <2>1, <2>2 DEF Grown
<1> QED
    BY <1>1, <1>4, <1>5, <1>6 DEF Logged

LEMMA LogAppendStep ==
    ASSUME HistoryInv, LogAppend
    PROVE  HistoryInv'
<1> DEFINE doc == IF w.rec.row = 0 THEN NoDoc ELSE [n |-> w.rec.n, vec |-> w.rec.n]
           docs == [w.docs EXCEPT ![w.rec.id] = doc]
           l == Current
           d == manifest.names
           a == Rows(Of(segs, d))
<1>1. /\ Shape /\ NamesInv /\ DocsInv /\ HistInv /\ PinInv /\ w.pc = "log"
      /\ DOMAIN w = WFields /\ DOMAIN r = RFields /\ w.rec \in Record
    BY DEF HistoryInv, LogAppend, Shape
<1>2. w.names = d /\ w.next = manifest.next /\ w.version = manifest.version /\ w.after = "idle"
    BY <1>1, PublishedNames DEF NamesInv
<1>3. UNCHANGED <<segs, manifest, hist, floor>> /\ r' = Witness(docs)
    BY DEF LogAppend
<1>4. /\ DOMAIN w' = WFields /\ w'.pc \in {"idle", "publish"} /\ w'.after = w.after
      /\ w'.names = w.names /\ w'.next = w.next /\ w'.docs = docs
      /\ w'.writes = w.writes /\ w'.torn = w.torn /\ w'.dropped = w.dropped /\ w'.pruned = w.pruned
      /\ \/ w'.pc = "idle" /\ w'.version = w.version
         \/ w'.pc = "publish" /\ w'.version = w.version + 1
  <2>1. CASE HistoryVersions = 0
    <3>1. w' = [w EXCEPT !.pc = "idle", !.rec = NoRec, !.docs = docs, !.before = docs]
      BY <2>1 DEF LogAppend
    <3> HIDE DEF docs
    <3> QED
      BY <1>1, <3>1 DEF WFields
  <2>2. CASE HistoryVersions # 0
    <3>1. w' = [w EXCEPT !.pc = "publish", !.rec = NoRec, !.docs = docs, !.version = @ + 1]
      BY <2>2 DEF LogAppend
    <3> HIDE DEF docs
    <3> QED
      BY <1>1, <3>1 DEF WFields
  <2> QED
    BY <2>1, <2>2
<1>5. SamePin /\ DOMAIN r' = RFields /\ r'.overlap = r.overlap
    BY <1>1, <1>3, WitnessIs
<1>6. /\ logs' \in Seq(Seq(Record)) /\ Len(logs') > 0
      /\ Current' = Append(l, w.rec) /\ Grown(l, Current')
  <2>1. logs' = [logs EXCEPT ![Len(logs)] = Append(@, w.rec)] /\ logs \in Seq(Seq(Record)) /\ Len(logs) > 0
    BY <1>1 DEF LogAppend, Shape
  <2>2. /\ logs' \in Seq(Seq(Record)) /\ Len(logs') > 0
        /\ logs'[Len(logs')] = Append(logs[Len(logs)], w.rec)
        /\ Grown(logs[Len(logs)], Append(logs[Len(logs)], w.rec))
    <3>1. Logged(logs, logs', w.rec)
      BY <1>1, <2>1, LogGrows
    <3> QED
      BY <3>1 DEF Logged
  <2> QED
    BY <2>2 DEF Current
<1>7. docs \in [Ids -> DocOf]
  <2>1. doc \in DocOf
    BY <1>1 DEF DocOf, NoDoc, Record
  <2>2. w.docs \in [Ids -> DocOf] /\ w.rec.id \in Ids
    BY <1>1 DEF Shape, Record
  <2> HIDE DEF doc
  <2> QED
    BY <2>1, <2>2
<1> HIDE DEF docs
<1>8. Shape'
    BY <1>1, <1>3, <1>4, <1>5, <1>6, <1>7, SMTT(30) DEF Shape
<1>9. ~Rewritten'
    BY <1>2, <1>4 DEF Rewritten
<1>10. NamesInv'
  <2>1. w'.version >= manifest'.version /\ (w'.pc # "publish" => w'.version = manifest'.version)
    BY <1>1, <1>2, <1>3, <1>4 DEF Shape
  <2> QED
    BY <1>1, <1>2, <1>3, <1>4, <1>9, <2>1 DEF NamesInv
<1>11. Calm
  <2>1. \A names : Chain(names) => Keeps(names)
    <3> TAKE names
    <3> HAVE Chain(names)
    <3>1. Len(Rows(Of(segs, names))) \in Nat
      BY <1>1, ShapeFacts
    <3> QED
      BY <1>3, <3>1 DEF Keeps, Grown
  <2>2. Grown(manifest.names, manifest'.names)
    BY <1>1, <1>3, ChainSelf DEF Shape
  <2> QED
    BY <1>6, <2>1, <2>2 DEF Calm
<1>12. DocsInv'
  <2> SUFFICES ASSUME ~w.torn PROVE DocsInv'
    BY <1>4 DEF DocsInv
  <2>1. /\ \A k \in DOMAIN l : l[k].row <= Len(a)
        /\ w.docs = replay_ops(l, a, Len(a))
        /\ w.rec.row # 0 => w.rec.row = Len(a) /\ a[w.rec.row] = w.rec.n
    BY <1>1, <1>2 DEF DocsInv, AllRows
  <2>2. Len(a) \in Nat /\ l \in Seq(Record)
    BY <1>1, ShapeFacts DEF Shape
  <2>3. AllRows(w.names)' = a /\ AllRows(manifest.names)' = a
    BY <1>2, <1>3, <1>4 DEF AllRows
  <2>4. w.rec.row \in Nat /\ w.rec.row <= Len(a)
    BY <1>1, <2>1, <2>2 DEF Record
  <2> HIDE DEF a, l
  <2>5. replay_ops(Append(l, w.rec), a, Len(a))
          = [replay_ops(l, a, Len(a)) EXCEPT ![w.rec.id] =
                IF w.rec.row = 0 THEN NoDoc ELSE [n |-> w.rec.n, vec |-> a[w.rec.row]]]
    BY <1>1, <2>2, <2>4, ReplayAppend
  <2>6. docs = replay_ops(Append(l, w.rec), a, Len(a))
    <3>1. doc = IF w.rec.row = 0 THEN NoDoc ELSE [n |-> w.rec.n, vec |-> a[w.rec.row]]
      BY <2>1
    <3> HIDE DEF doc
    <3> QED
      BY <2>1, <2>5, <3>1, Zenon DEF docs
  <2>7. \A k \in DOMAIN Append(l, w.rec) : Append(l, w.rec)[k].row <= Len(a)
    <3>1. /\ DOMAIN Append(l, w.rec) = 1 .. Len(l) + 1 /\ Append(l, w.rec)[Len(l) + 1] = w.rec
          /\ \A i \in 1 .. Len(l) : Append(l, w.rec)[i] = l[i]
      BY <1>1, <2>2, AppendProperties
    <3>2. Len(l) \in Nat /\ DOMAIN l = 1 .. Len(l)
      BY <2>2
    <3> TAKE k \in DOMAIN Append(l, w.rec)
    <3>3. CASE k = Len(l) + 1
      BY <2>4, <3>1, <3>3
    <3>4. CASE k \in 1 .. Len(l)
      BY <2>1, <3>1, <3>2, <3>4
    <3> QED
      BY <3>1, <3>2, <3>3, <3>4
  <2>8. /\ \A k \in DOMAIN Current' : Current'[k].row <= Len(AllRows(w.names)') /\ Current'[k].row <= Len(AllRows(manifest.names)')
        /\ w'.docs = replay_ops(Current', AllRows(w.names)', Len(AllRows(w.names)'))
    BY <1>4, <1>6, <2>3, <2>6, <2>7
  <2>9. w'.pc # "log"
    BY <1>4
  <2> QED
    BY <2>8, <2>9 DEF DocsInv, replay_ops
<1>13. RelogInv'
    BY <1>4 DEF RelogInv
<1>14. HistInv'
  <2>1. floor' <= w'.pruned + 1 /\ manifest.version <= manifest'.version
    BY <1>1, <1>3, <1>4 DEF HistInv, Shape
  <2>2. w'.pc # "rewrite"
    BY <1>4
  <2> QED
    BY <1>1, <1>3, <1>4, <1>8, <1>9, <1>11, <2>1, <2>2, HistStep
<1>15. PinInv'
    BY <1>1, <1>3, <1>4, <1>5, <1>8, <1>9, <1>11, PinStep
<1> QED
    BY <1>8, <1>10, <1>12, <1>13, <1>14, <1>15 DEF HistoryInv

\* No pin goes on unnoticed across a step of a compaction.
LEMMA OverlapStep ==
    ASSUME HistInv, PinInv, Shape, UNCHANGED <<hist, floor>>, Rewritten \/ w.pc = "rewrite",
           w'.pruned = w.pruned, manifest.version <= manifest'.version, manifest'.version \in Nat,
           r'.pc = r.pc, r'.to = r.to, r.pc # "idle" => r'.overlap = TRUE
    PROVE  HistInv' /\ PinInv'
<1>1. floor \in Nat /\ manifest.version \in Nat
    BY DEF Shape
<1>2. \A e \in hist' : e.version \in Nat /\ e.version <= manifest'.version /\ e.version < floor'
    BY <1>1 DEF HistInv
<1>3. \A e \in hist' : ~(e.version >= floor')
    BY <1>1, <1>2
<1>4. HistInv'
    BY <1>2, <1>3 DEF HistInv
<1>5. PinInv'
    BY DEF PinInv
<1> QED
    BY <1>4, <1>5

LEMMA PublishStep ==
    ASSUME HistoryInv, Publish
    PROVE  HistoryInv'
<1> DEFINE a == AllRows(w.names)
<1>1. /\ Shape /\ NamesInv /\ DocsInv /\ HistInv /\ PinInv /\ w.pc = "publish"
      /\ DOMAIN w = WFields /\ DOMAIN r = RFields /\ w.after \in {"idle", "drop"}
    BY DEF HistoryInv, Publish, Shape, NamesInv
<1>2. manifest' = [version |-> w.version, names |-> w.names, next |-> w.next] /\ UNCHANGED <<segs, logs, hist, floor>>
    BY DEF Publish
<1>3. manifest'.version = w.version /\ manifest'.names = w.names /\ manifest'.next = w.next
    BY <1>2
<1>4. /\ DOMAIN w' = WFields /\ w'.pc \in {w.after, "record"} /\ w'.after = w.after
      /\ w'.names = w.names /\ w'.next = w.next /\ w'.version = w.version /\ w'.docs = w.docs
      /\ w'.writes = w.writes /\ w'.torn = w.torn /\ w'.dropped = w.dropped /\ w'.pruned = w.pruned
    BY <1>1 DEF Publish, WFields
<1>5. w.version \in Nat /\ manifest.version \in Nat /\ manifest.version <= w.version /\ manifest.next \in Nat
    BY <1>1 DEF Shape, NamesInv
<1>6. \/ w.after = "idle" /\ w.names = manifest.names /\ w.next = manifest.next
      \/ /\ w.after = "idle" /\ w.names = Append(manifest.names, manifest.next)
         /\ w.next = manifest.next + 1 /\ manifest.next <= MaxSegment
      \/ w.after = "drop" /\ w.next = manifest.next /\ w.names = <<0>>
    BY <1>1 DEF NamesInv, Rewritten
<1>7. DOMAIN r' = RFields /\ r'.pc = r.pc /\ r'.to = r.to /\ (w.after = "idle" => r' = r)
      /\ (w.after = "drop" /\ r.pc # "idle" => r'.overlap = TRUE)
    BY <1>1 DEF Publish, RFields
<1>8. w.next \in Nat
    BY <1>5, <1>6
<1>9. Shape'
  <2>1. w'.pc # "log"
    BY <1>1, <1>4
  <2> QED
    BY <1>1, <1>2, <1>3, <1>4, <1>7, <1>8, <2>1 DEF Shape
<1>10. ~Rewritten' /\ w'.pc \notin {"log", "rewrite", "relog", "publish"}
    BY <1>1, <1>4 DEF Rewritten
<1>11. /\ \A i \in 1 .. Len(w.names) : w.names[i] < w.next
       /\ \A s \in 0 .. MaxSegment : s >= w.next => segs[s] = <<>>
       /\ w.after = "idle" => Grown(manifest.names, w.names)
  <2> DEFINE d == manifest.names
             x == manifest.next
  <2>1. /\ Chain(d) /\ \A i \in 1 .. Len(d) : d[i] < x
        /\ \A s \in 0 .. MaxSegment : s >= x => segs[s] = <<>>
    BY <1>1 DEF Shape, NamesInv
  <2>2. Len(d) \in Nat /\ Len(d) > 0 /\ d[1] = 0 /\ d \in Seq(0 .. MaxSegment) /\ Grown(d, d)
    BY <2>1, ChainIs, ChainSelf DEF Chain
  <2>3. CASE w.after = "idle" /\ w.names = d /\ w.next = x
    BY <2>1, <2>2, <2>3
  <2>4. CASE w.after = "drop" /\ w.next = x /\ w.names = <<0>>
    <3>1. Len(<<0>>) = 1 /\ <<0>>[1] = 0
      OBVIOUS
    <3>2. 0 < x
      BY <2>1, <2>2
    <3> HIDE DEF d, x
    <3> QED
      BY <2>1, <2>4, <3>1, <3>2
  <2>5. CASE w.after = "idle" /\ w.names = Append(d, x) /\ w.next = x + 1 /\ x <= MaxSegment
    <3>1. x \in 0 .. MaxSegment /\ x \in Nat /\ MaxSegment \in Nat
      BY <1>5, <2>5, BoundTypes
    <3>2. \A i \in 1 .. Len(d) : d[i] \in Nat
      BY <2>1, ChainIs, BoundTypes
    <3> HIDE DEF d, x
    <3>3. /\ Len(Append(d, x)) = Len(d) + 1 /\ Append(d, x)[Len(d) + 1] = x
          /\ \A i \in 1 .. Len(d) : Append(d, x)[i] = d[i]
      BY <2>2, <3>1, AppendProperties
    <3>4. ASSUME NEW i \in 1 .. Len(d) + 1 PROVE Append(d, x)[i] < x + 1
      <4>1. CASE i = Len(d) + 1
        BY <3>1, <3>3, <4>1
      <4>2. CASE i \in 1 .. Len(d)
        BY <2>1, <3>1, <3>2, <3>3, <4>2
      <4> QED
        BY <2>2, <4>1, <4>2
    <3>5. \A s \in 0 .. MaxSegment : s >= x + 1 => s >= x
      BY <3>1
    <3>6. Grown(d, Append(d, x))
      BY <2>2, <3>3 DEF Grown
    <3> DEFINE p == Append(d, x)
    <3>7. w.names = p /\ Len(p) = Len(d) + 1 /\ (\A i \in 1 .. Len(d) + 1 : p[i] < x + 1) /\ Grown(d, p)
      BY <2>5, <3>3, <3>4, <3>6
    <3> HIDE DEF p
    <3>8. \A s \in 0 .. MaxSegment : s >= w.next => segs[s] = <<>>
      BY <2>1, <2>5, <3>5
    <3> QED
      BY <2>5, <3>7, <3>8 DEF d
  <2> HIDE DEF d, x
  <2> QED
    BY <1>6, <2>3, <2>4, <2>5 DEF d, x
<1>12. NamesInv'
  <2>1. w'.version >= manifest'.version
    BY <1>3, <1>4, <1>5
  <2>2. w'.names = manifest'.names /\ w'.next = manifest'.next /\ w'.version = manifest'.version
    BY <1>3, <1>4
  <2>3. 0 \notin w'.dropped /\ (w'.after = "drop" => w'.names = <<0>>)
    BY <1>1, <1>4 DEF NamesInv
  <2>4. /\ \A i \in 1 .. Len(manifest'.names) : manifest'.names[i] < manifest'.next
        /\ \A s \in 0 .. MaxSegment : s >= manifest'.next => segs'[s] = <<>>
    BY <1>2, <1>3, <1>11, SMTT(30)
  <2> QED
    BY <1>1, <1>4, <1>10, <2>1, <2>2, <2>3, <2>4 DEF NamesInv
<1>13. DocsInv'
  <2> SUFFICES ASSUME ~w.torn PROVE DocsInv'
    BY <1>4 DEF DocsInv
  <2>1. (\A k \in DOMAIN Current : Current[k].row <= Len(a)) /\ w.docs = replay_ops(Current, a, Len(a))
    BY <1>1 DEF DocsInv
  <2>2. AllRows(w.names)' = a /\ AllRows(manifest.names)' = a /\ Current' = Current
    BY <1>2, <1>3, <1>4 DEF AllRows, Current
  <2> HIDE DEF a
  <2> QED
    BY <1>4, <1>10, <2>1, <2>2, SMTT(30) DEF DocsInv, replay_ops
<1>14. RelogInv'
    BY <1>10 DEF RelogInv
<1>15. HistInv' /\ PinInv'
  <2>1. CASE w.after = "drop"
    <3>1. Rewritten
      BY <1>1, <2>1 DEF Rewritten
    <3> QED
      BY <1>1, <1>2, <1>3, <1>4, <1>5, <1>7, <2>1, <3>1, OverlapStep
  <2>2. CASE w.after = "idle"
    <3>1. Calm
      BY <1>1, <1>2, <1>3, <1>11, <2>2, QuietCalm
    <3>2. floor' <= w'.pruned + 1 /\ manifest.version <= manifest'.version
      BY <1>1, <1>2, <1>3, <1>4, <1>5 DEF HistInv
    <3>3. SamePin
      BY <1>7, <2>2 DEF SamePin
    <3>4. HistInv'
      BY <1>1, <1>2, <1>4, <1>9, <1>10, <3>1, <3>2, HistStep
    <3>5. PinInv'
      BY <1>1, <1>2, <1>4, <1>9, <1>10, <3>1, <3>3, PinStep
    <3> QED
      BY <3>4, <3>5
  <2> QED
    BY <1>1, <2>1, <2>2
<1> QED
    BY <1>9, <1>12, <1>13, <1>14, <1>15 DEF HistoryInv

\* The list of a store that was just compacted.
Base == <<0>>

LEMMA BaseIs ==
    /\ Chain(Base) /\ Len(Base) = 1 /\ Base[1] = 0
    /\ \A S \in Segments : Rows(Of(S, Base)) = S[0]
    /\ \A c : Chain(c) /\ Grown(c, Base) => \A S, T \in Segments : S[0] = T[0] => Of(S, c) = Of(T, c)
<1>1. Len(Base) = 1 /\ Base[1] = 0
    BY DEF Base
<1>2. Chain(Base)
  <2>1. 0 \in 0 .. MaxSegment
    BY BoundTypes
  <2>2. Base \in Seq(0 .. MaxSegment)
    BY <2>1 DEF Base
  <2>3. 1 .. Len(Base) = {1}
    BY <1>1
  <2> QED
    BY <1>1, <2>2, <2>3 DEF Chain
<1>3. ASSUME NEW S \in Segments PROVE Rows(Of(S, Base)) = S[0]
  <2>1. Of(S, Base) \in Seq(Seq(Nat)) /\ Len(Of(S, Base)) = 1 /\ Of(S, Base)[1] = S[0]
    BY <1>1, <1>2, <1>3, OfIs
  <2> QED
    BY <2>1, RowsOne
<1>4. ASSUME NEW c, Chain(c), Grown(c, Base), NEW S \in Segments, NEW T \in Segments, S[0] = T[0]
      PROVE  Of(S, c) = Of(T, c)
  <2>1. Len(c) \in Nat /\ Len(c) > 0 /\ DOMAIN c = 1 .. Len(c) /\ c[1] = 0 /\ Len(c) <= 1
    BY <1>1, <1>4, ChainIs DEF Grown, Chain
  <2>2. DOMAIN c = {1} /\ c[1] = 0
    BY <2>1
  <2>3. \A k \in DOMAIN c : S[c[k]] = T[c[k]]
    BY <1>4, <2>2
  <2> QED
    BY <2>3 DEF Of
<1> QED
    BY <1>1, <1>2, <1>3, <1>4

LEMMA RewriteDataStep ==
    ASSUME HistoryInv, RewriteData
    PROVE  HistoryInv'
<1>1. /\ Shape /\ NamesInv /\ HistInv /\ PinInv /\ w.pc = "rewrite"
      /\ DOMAIN w = WFields /\ DOMAIN r = RFields
    BY DEF HistoryInv, RewriteData, Shape
<1>2. w.next = manifest.next /\ w.version = manifest.version /\ w.after = "drop"
    BY <1>1, PublishedNames DEF NamesInv
<1>3. UNCHANGED <<logs, manifest, hist, floor>> /\ segs' = [segs EXCEPT ![0] = LiveRows]
    BY DEF RewriteData, LiveRows
<1>4. /\ DOMAIN w' = WFields /\ w'.pc = "relog" /\ w'.after = w.after /\ w'.names = Base
      /\ w'.next = w.next /\ w'.version = w.version + 1 /\ w'.docs = w.docs /\ w'.pruned = w.pruned
      /\ w'.writes = w.writes /\ w'.torn = w.torn /\ w'.dropped = Range(w.names) \ {0}
    BY <1>1 DEF RewriteData, WFields, Base
<1>5. /\ DOMAIN r' = RFields /\ r'.pc = r.pc /\ r'.to = r.to
      /\ r.pc # "idle" => r'.overlap = TRUE
  <2>1. r' = [r EXCEPT !.overlap = @ \/ r.pc # "idle"]
    BY DEF RewriteData
  <2>2. DOMAIN r' = RFields /\ r'.pc = r.pc /\ r'.to = r.to /\ r'.overlap = (r.overlap \/ r.pc # "idle")
    BY <1>1, <2>1 DEF RFields
  <2> QED
    BY <2>2, Zenon
<1>6. LiveRows \in Seq(Nat)
    BY <1>1, CompactedIsSame DEF Shape
<1>7. segs' \in Segments /\ segs'[0] = LiveRows /\ \A s \in 0 .. MaxSegment : s # 0 => segs'[s] = segs[s]
  <2>1. 0 \in 0 .. MaxSegment /\ segs \in [0 .. MaxSegment -> Seq(Nat)]
    BY <1>1, BoundTypes DEF Shape
  <2> DEFINE D == 0 .. MaxSegment
             v == LiveRows
  <2> HIDE DEF D, v
  <2>2. segs \in [D -> Seq(Nat)] /\ 0 \in D /\ v \in Seq(Nat) /\ segs' = [segs EXCEPT ![0] = v]
    BY <1>3, <1>6, <2>1 DEF D, v
  <2>3. segs' \in [D -> Seq(Nat)] /\ segs'[0] = v /\ \A s \in D : s # 0 => segs'[s] = segs[s]
    BY <2>2
  <2> QED
    BY <2>3 DEF D, v, Segments
<1>8. Shape'
  <2>1. w'.version \in Nat
    BY <1>1, <1>4 DEF Shape
  <2> QED
    BY <1>1, <1>3, <1>4, <1>5, <1>7, <2>1, BaseIs DEF Shape, Segments
<1>9. NamesInv'
  <2>1. 0 < manifest.next
    <3>1. Chain(manifest.names) /\ \A i \in 1 .. Len(manifest.names) : manifest.names[i] < manifest.next
      BY <1>1 DEF NamesInv, Shape
    <3>2. 1 \in 1 .. Len(manifest.names)
      BY <3>1, ChainIs
    <3>3. manifest.names[1] = 0
      BY <3>1 DEF Chain
    <3> QED
      BY <3>1, <3>2, <3>3
  <2>2. \A s \in 0 .. MaxSegment : s >= manifest.next => s # 0 /\ segs[s] = <<>>
    BY <1>1, <2>1 DEF NamesInv, Shape
  <2>3. w'.version >= manifest'.version /\ 0 \notin w'.dropped
    BY <1>1, <1>2, <1>3, <1>4 DEF Shape
  <2> QED
    BY <1>1, <1>2, <1>3, <1>4, <1>7, <2>2, <2>3 DEF NamesInv, Base, Rewritten
<1>10. DocsInv'
    BY <1>4 DEF DocsInv
<1>11. RelogInv'
  <2>1. Live' = Live
    BY <1>4 DEF Live
  <2>2. [k \in DOMAIN Live' |-> w'.docs[Live'[k]].vec] = LiveRows
    BY <1>4, <2>1 DEF LiveRows
  <2> QED
    BY <1>7, <2>2 DEF RelogInv
<1>12. HistInv' /\ PinInv'
  <2>1. manifest.version <= manifest'.version /\ manifest'.version \in Nat
    BY <1>1, <1>3 DEF Shape
  <2> QED
    BY <1>1, <1>3, <1>4, <1>5, <2>1, OverlapStep
<1> QED
    BY <1>8, <1>9, <1>10, <1>11, <1>12 DEF HistoryInv

LEMMA RewriteLogStep ==
    ASSUME HistoryInv, RewriteLog
    PROVE  HistoryInv'
<1>1. /\ Shape /\ NamesInv /\ RelogInv /\ HistInv /\ PinInv /\ w.pc = "relog"
      /\ DOMAIN w = WFields /\ DOMAIN r = RFields /\ segs \in Segments
    BY DEF HistoryInv, RewriteLog, Shape, Segments
<1>2. w.next = manifest.next /\ w.names = Base /\ Rewritten /\ w.after = "drop"
    BY <1>1 DEF NamesInv, Rewritten, Base
<1>3. UNCHANGED <<segs, manifest, hist, floor>> /\ logs' = Append(logs, LiveRecs)
    BY DEF RewriteLog, LiveRecs
<1>4. /\ DOMAIN w' = WFields /\ w'.pc = "publish" /\ w'.after = w.after /\ w'.names = w.names
      /\ w'.next = w.next /\ w'.version = w.version /\ w'.docs = w.docs /\ w'.pruned = w.pruned
      /\ w'.writes = w.writes /\ w'.torn = w.torn /\ w'.dropped = w.dropped
    BY <1>1 DEF RewriteLog, WFields
<1>5. /\ DOMAIN r' = RFields /\ r'.pc = r.pc /\ r'.to = r.to
      /\ r.pc # "idle" => r'.overlap = TRUE
  <2>1. r' = [r EXCEPT !.overlap = @ \/ r.pc # "idle"]
    BY DEF RewriteLog
  <2>2. DOMAIN r' = RFields /\ r'.pc = r.pc /\ r'.to = r.to /\ r'.overlap = (r.overlap \/ r.pc # "idle")
    BY <1>1, <2>1 DEF RFields
  <2> QED
    BY <2>2, Zenon
<1>6. /\ LiveRows \in Seq(Nat) /\ LiveRecs \in Seq(Record)
      /\ \A k \in DOMAIN LiveRecs : LiveRecs[k].row <= Len(LiveRows)
      /\ replay_ops(LiveRecs, LiveRows, Len(LiveRows)) = w.docs
    BY <1>1, CompactedIsSame DEF Shape
<1>7. logs' \in Seq(Seq(Record)) /\ Len(logs') > 0 /\ Current' = LiveRecs
  <2> DEFINE X == Seq(Record)
             v == LiveRecs
             n == Len(logs)
  <2>1. logs \in Seq(X) /\ v \in X /\ n \in Nat
    BY <1>1, <1>6 DEF Shape
  <2> HIDE DEF X, v
  <2>2. Append(logs, v) \in Seq(X) /\ Len(Append(logs, v)) = n + 1 /\ Append(logs, v)[n + 1] = v
    BY <2>1, AppendProperties
  <2> HIDE DEF n
  <2>3. Len(logs') > 0 /\ logs'[Len(logs')] = v /\ logs' \in Seq(X)
    BY <1>3, <2>1, <2>2 DEF v
  <2> QED
    BY <2>3 DEF Current, X, v
<1>8. Shape'
    BY <1>1, <1>3, <1>4, <1>5, <1>7 DEF Shape
<1>9. NamesInv'
    BY <1>1, <1>2, <1>3, <1>4 DEF NamesInv, Rewritten
<1>10. DocsInv'
  <2> DEFINE a == LiveRows
             b == Rows(Of(segs, manifest.names))
  <2>1. segs[0] = a
    BY <1>1 DEF RelogInv, LiveRows
  <2>2. AllRows(w.names)' = a /\ AllRows(manifest.names)' = b
    BY <1>1, <1>2, <1>3, <1>4, <2>1, BaseIs DEF AllRows
  <2>3. Grown(a, b) /\ b \in Seq(Nat)
    BY <1>1, <2>1, OfRows DEF Shape
  <2> HIDE DEF a, b
  <2>4. a \in Seq(Nat) /\ LiveRecs \in Seq(Record)
    BY <1>6 DEF a
  <2>5. ASSUME NEW k \in DOMAIN LiveRecs PROVE LiveRecs[k].row <= Len(a) /\ LiveRecs[k].row <= Len(b)
    <3>1. LiveRecs[k].row \in Nat /\ LiveRecs[k].row <= Len(a)
      BY <1>6, <2>5, RecordRow DEF a
    <3>2. Len(a) \in Nat /\ Len(b) \in Nat /\ Len(a) <= Len(b)
      BY <2>3, <2>4 DEF Grown
    <3> DEFINE x == LiveRecs[k].row
    <3> HIDE DEF x
    <3>3. x \in Nat /\ x <= Len(a)
      BY <3>1 DEF x
    <3>4. x <= Len(b)
      BY <3>2, <3>3
    <3> QED
      BY <3>1, <3>4 DEF x
  <2>6. w'.docs = replay_ops(LiveRecs, a, Len(a))
    BY <1>4, <1>6 DEF a
  <2>7. /\ \A k \in DOMAIN Current' : Current'[k].row <= Len(AllRows(w.names)') /\ Current'[k].row <= Len(AllRows(manifest.names)')
        /\ w'.docs = replay_ops(Current', AllRows(w.names)', Len(AllRows(w.names)'))
    BY <1>7, <2>2, <2>5, <2>6
  <2> QED
    BY <1>4, <2>7 DEF DocsInv, replay_ops
<1>11. RelogInv'
    BY <1>4 DEF RelogInv
<1>12. HistInv' /\ PinInv'
  <2>1. manifest.version <= manifest'.version /\ manifest'.version \in Nat
    BY <1>1, <1>3 DEF Shape
  <2> QED
    BY <1>1, <1>2, <1>3, <1>4, <1>5, <2>1, OverlapStep
<1> QED
    BY <1>8, <1>9, <1>10, <1>11, <1>12 DEF HistoryInv

LEMMA ReclaimStep ==
    ASSUME HistoryInv, Reclaim
    PROVE  HistoryInv'
<1>1. /\ Shape /\ NamesInv /\ DocsInv /\ HistInv /\ PinInv /\ w.pc = "drop"
      /\ DOMAIN w = WFields /\ segs \in Segments
    BY DEF HistoryInv, Reclaim, Shape, Segments
<1>2. /\ w.next = manifest.next /\ w.names = Base /\ manifest.names = Base
      /\ w.version = manifest.version /\ 0 \notin w.dropped
    BY <1>1 DEF NamesInv, Base
<1>3. UNCHANGED <<logs, manifest, floor, r>>
    BY DEF Reclaim
<1>4. PICK kept : segs' = [s \in DOMAIN segs |-> IF s \in w.dropped \ kept THEN <<>> ELSE segs[s]]
    BY DEF Reclaim
<1>5. hist' \subseteq hist
  <2> DEFINE first == IF w.reclaim = {} THEN {}
                      ELSE {v \in w.reclaim : v < Min(w.reclaim) + PruneBatch}
  <2>1. \E left \in Undeleted({e \in hist : e.version \in first}) :
           hist' = {e \in hist : e.version \notin first} \cup left
    BY DEF Reclaim
  <2> HIDE DEF first
  <2> QED
    BY <2>1 DEF Undeleted
<1>6. /\ DOMAIN w' = WFields /\ w'.pc = "idle" /\ w'.after = "idle" /\ w'.names = w.names
      /\ w'.next = w.next /\ w'.version = w.version /\ w'.docs = w.docs /\ w'.pruned = w.pruned
      /\ w'.writes = w.writes /\ w'.torn = w.torn /\ w'.dropped = {}
    BY <1>1 DEF Reclaim, Returned, WFields
<1>7. /\ segs' \in Segments /\ segs'[0] = segs[0]
      /\ \A s \in 0 .. MaxSegment : segs[s] = <<>> => segs'[s] = <<>>
  <2> DEFINE D == 0 .. MaxSegment
             f(s) == IF s \in w.dropped \ kept THEN <<>> ELSE segs[s]
  <2>1. DOMAIN segs = D /\ segs \in [D -> Seq(Nat)] /\ 0 \in D
    BY <1>1, BoundTypes DEF Segments
  <2> HIDE DEF D
  <2>2. segs' = [s \in D |-> f(s)]
    BY <1>4, <2>1
  <2>3. \A s \in D : f(s) \in Seq(Nat) /\ (f(s) = segs[s] \/ f(s) = <<>>)
    BY <2>1
  <2>4. f(0) = segs[0]
    BY <1>2
  <2> HIDE DEF f
  <2>5. segs' \in [D -> Seq(Nat)] /\ \A s \in D : segs'[s] = f(s)
    BY <2>2, <2>3
  <2> QED
    BY <2>1, <2>3, <2>4, <2>5 DEF D, Segments
<1>8. Shape'
    BY <1>1, <1>3, <1>6, <1>7 DEF Shape, Segments
<1>9. ~Rewritten'
    BY <1>6 DEF Rewritten
<1>10. NamesInv'
    BY <1>1, <1>2, <1>3, <1>6, <1>7, <1>9 DEF NamesInv
<1>11. \A c : Chain(c) /\ Grown(c, Base) => Of(segs', c) = Of(segs, c)
    BY <1>1, <1>7, BaseIs
<1>12. Calm
  <2>1. Current' = Current /\ Grown(Current, Current)
    <3>1. Len(Current) \in Nat
      BY <1>1, ShapeFacts
    <3> QED
      BY <1>3, <3>1 DEF Current, Grown
  <2>2. ASSUME NEW c, Chain(c), Grown(c, Base) PROVE Keeps(c)
    <3>1. Len(Rows(Of(segs, c))) \in Nat /\ Len(c) \in Nat /\ Len(c) > 0 /\ Len(c) <= 1
      BY <1>1, <2>2, ShapeFacts, ChainIs, BaseIs DEF Grown
    <3>2. 1 .. Len(c) - 1 = {}
      BY <3>1
    <3>3. Rows(Of(segs', c)) = Rows(Of(segs, c))
      BY <1>11, <2>2
    <3> QED
      BY <3>1, <3>2, <3>3 DEF Keeps, Grown
  <2>3. Grown(manifest.names, manifest'.names)
    BY <1>1, <1>3, ChainSelf, SMTT(30) DEF Shape
  <2> QED
    BY <1>2, <2>1, <2>2, <2>3 DEF Calm
<1>13. DocsInv'
  <2> SUFFICES ASSUME ~w.torn PROVE DocsInv'
    BY <1>6 DEF DocsInv
  <2> DEFINE a == AllRows(w.names)
  <2>1. (\A k \in DOMAIN Current : Current[k].row <= Len(a)) /\ w.docs = replay_ops(Current, a, Len(a))
    BY <1>1 DEF DocsInv
  <2>2. Rows(Of(segs', Base)) = Rows(Of(segs, Base))
    BY <1>1, <1>7, BaseIs
  <2>3. AllRows(w.names)' = a /\ AllRows(manifest.names)' = a /\ Current' = Current
    BY <1>2, <1>3, <1>6, <2>2 DEF AllRows, Current
  <2> HIDE DEF a
  <2> QED
    BY <1>6, <2>1, <2>3, SMTT(30) DEF DocsInv, replay_ops
<1>14. RelogInv'
    BY <1>6 DEF RelogInv
<1>15. HistInv'
  <2>1. floor' <= w'.pruned + 1 /\ manifest.version <= manifest'.version
    BY <1>1, <1>3, <1>6 DEF HistInv, Shape
  <2>2. \A e \in hist' : e \in hist /\ (e.version >= floor' => e.version >= floor)
    BY <1>3, <1>5
  <2> QED
    BY <1>1, <1>6, <1>8, <1>9, <1>12, <2>1, <2>2, HistStep
<1>16. PinInv'
  <2>1. SamePin
    BY <1>3 DEF SamePin
  <2>2. \A e \in hist' : e \in hist
    BY <1>5
  <2> QED
    BY <1>1, <1>6, <1>8, <1>9, <1>12, <2>1, <2>2, PinStep
<1> QED
    BY <1>8, <1>10, <1>13, <1>14, <1>15, <1>16 DEF HistoryInv

LEMMA ReopenStep ==
    ASSUME HistoryInv, Reopen
    PROVE  HistoryInv'
<1> DEFINE a == AllRows(manifest.names)
           l == Current
           docs == replay_ops(l, a, Len(a))
<1>1. /\ Shape /\ NamesInv /\ DocsInv /\ HistInv /\ PinInv
      /\ DOMAIN w = WFields /\ DOMAIN r = RFields
    BY DEF HistoryInv, Shape
<1>2. UNCHANGED <<segs, logs, manifest, hist, floor>> /\ r' = Witness(docs)
    BY DEF Reopen, AllRows, Of, Contents
<1>3. w' = [w EXCEPT !.pc = "idle", !.crashes = @ + 1, !.after = "idle",
                     !.torn = @ \/ w.pc = "relog", !.rec = NoRec,
                     !.version = manifest.version, !.names = manifest.names,
                     !.next = manifest.next, !.dropped = {}, !.reclaim = {},
                     !.pruned = IF floor = 0 THEN 0 ELSE floor - 1,
                     !.docs = docs, !.before = docs]
    BY DEF Reopen, AllRows, Of, Contents
<1>4. a \in Seq(Nat) /\ l \in Seq(Record) /\ Len(a) \in Nat
    BY <1>1, ShapeFacts DEF AllRows, Shape
<1>5. docs \in [Ids -> DocOf]
  <2> HIDE DEF a, l
  <2> QED
    BY <1>4, ReplayType
<1> HIDE DEF docs
<1>6. /\ DOMAIN w' = WFields /\ w'.pc = "idle" /\ w'.after = "idle" /\ w'.names = manifest.names
      /\ w'.next = manifest.next /\ w'.version = manifest.version /\ w'.docs = docs
      /\ w'.pruned = (IF floor = 0 THEN 0 ELSE floor - 1)
      /\ w'.writes = w.writes /\ w'.torn = (w.torn \/ w.pc = "relog") /\ w'.dropped = {}
    BY <1>1, <1>3 DEF WFields
<1>7. SamePin /\ DOMAIN r' = RFields
    BY <1>1, <1>2, WitnessIs
<1>8. w'.pruned \in Nat /\ floor <= w'.pruned + 1
    BY <1>1, <1>6 DEF Shape
<1>9. Shape'
    BY <1>1, <1>2, <1>5, <1>6, <1>7, <1>8 DEF Shape
<1>10. ~Rewritten'
    BY <1>6 DEF Rewritten
<1>11. NamesInv'
  <2>1. w'.version >= manifest'.version
    BY <1>1, <1>2, <1>6 DEF Shape
  <2> QED
    BY <1>1, <1>2, <1>6, <1>10, <2>1 DEF NamesInv
<1>12. Calm
  <2>1. Grown(manifest.names, manifest'.names)
    BY <1>1, <1>2, ChainSelf DEF Shape
  <2> QED
    BY <1>1, <1>2, <2>1, QuietCalm
<1>13. ~w'.torn => ~w.torn /\ w.pc # "relog"
    BY <1>6, ZenonT(40)
<1>14. DocsInv'
  <2>1. AllRows(w.names)' = a /\ AllRows(manifest.names)' = a /\ Current' = l
    BY <1>2, <1>6 DEF AllRows, Current
  <2>2. ~w'.torn => \A k \in DOMAIN l : l[k].row <= Len(a)
    BY <1>1, <1>13 DEF DocsInv
  <2>3. w'.docs = replay_ops(l, a, Len(a))
    BY <1>6 DEF docs
  <2> HIDE DEF a, l
  <2> QED
    BY <1>6, <2>1, <2>2, <2>3, SMTT(30) DEF DocsInv, replay_ops
<1>15. RelogInv'
    BY <1>6 DEF RelogInv
<1>16. HistInv'
  <2>1. floor' <= w'.pruned + 1 /\ manifest.version <= manifest'.version
    BY <1>1, <1>2, <1>8 DEF Shape
  <2>2. w'.pc # "rewrite"
    BY <1>6
  <2> QED
    BY <1>1, <1>2, <1>9, <1>10, <1>12, <1>13, <2>1, <2>2, HistStep
<1>17. PinInv'
    BY <1>1, <1>2, <1>7, <1>9, <1>10, <1>12, <1>13, PinStep
<1> QED
    BY <1>9, <1>11, <1>14, <1>15, <1>16, <1>17 DEF HistoryInv

-----------------------------------------------------------------------------
(* One lemma per action of the reading handle *)

LEMMA IdleIs ==
    ASSUME DOMAIN r = RFields
    PROVE  DOMAIN Idle(r) = RFields /\ Idle(r).pc = "idle" /\ Idle(r).to = 0
    BY DEF Idle, RFields

\* A step of the reading handle leaves every object and the writer alone.
LEMMA ReadStep ==
    ASSUME HistoryInv, UNCHANGED <<segs, logs, manifest, hist, floor, w>>, DOMAIN r' = RFields,
           r'.pc \in {"idle", "stat", "swap"} => r'.to = 0,
           Rewritten /\ r'.pc # "idle" => r'.overlap,
           ~w.torn /\ ~r'.overlap /\ r'.pc = "entry" => \A e \in hist : e.version >= r'.floor => Safe(e),
           ~w.torn /\ ~r'.overlap /\ r'.pc = "segs" /\ r'.to # 0 =>
              Safe(r'.entry) /\ r'.man.names = r'.entry.names /\ Staged'
    PROVE  HistoryInv'
<1>1. Shape /\ NamesInv /\ DocsInv /\ RelogInv /\ HistInv
    BY DEF HistoryInv
<1>2. Current' = Current /\ Rewritten' = Rewritten
    BY DEF Current, Rewritten
<1>3. Shape'
    BY <1>1 DEF Shape
<1>4. NamesInv'
    BY <1>1, <1>2, SMTT(30) DEF NamesInv
<1>5. DocsInv'
    BY <1>1, <1>2, SMTT(30) DEF DocsInv, AllRows, replay_ops
<1>6. RelogInv'
    BY <1>1, SMTT(30) DEF RelogInv, Live
<1>7. \A e : Safe(e) => SafeAt(segs', Current', manifest'.names, e)
    BY <1>2 DEF Safe
<1>8. HistInv'
  <2>1. \A e \in hist' : ~w'.torn /\ e.version >= floor' => SafeAt(segs', Current', manifest'.names, e)
    BY <1>1, <1>7 DEF HistInv
  <2> QED
    BY <1>1, <1>2, <2>1 DEF HistInv, Safe
<1>9. PinInv'
  <2>1. ~w'.torn /\ ~r'.overlap /\ r'.pc = "entry" =>
           \A e \in hist' : e.version >= r'.floor => SafeAt(segs', Current', manifest'.names, e)
    BY <1>7
  <2>2. ~w'.torn /\ ~r'.overlap /\ r'.pc = "segs" /\ r'.to # 0 =>
           SafeAt(segs', Current', manifest'.names, r'.entry) /\ r'.man.names = r'.entry.names /\ Staged'
    BY <1>7
  <2> QED
    BY <1>2, <2>1, <2>2 DEF PinInv, Safe
<1> QED
    BY <1>3, <1>4, <1>5, <1>6, <1>8, <1>9 DEF HistoryInv

\* While a compaction is half way, whoever starts to read overlaps it.
LEMMA CompactingIs == ASSUME NamesInv, Rewritten PROVE Compacting
    BY DEF NamesInv, Rewritten, Compacting

LEMMA RefreshManifestStep == ASSUME HistoryInv, RefreshManifest PROVE HistoryInv'
<1>1. DOMAIN r = RFields /\ NamesInv /\ PinInv /\ r.pc = "idle"
    BY DEF HistoryInv, Shape, RefreshManifest
<1>2. DOMAIN r' = RFields /\ r'.pc = "stat" /\ r'.overlap = Compacting /\ r'.to = r.to
    BY <1>1 DEF RefreshManifest, RFields
<1>3. r.to = 0
    BY <1>1 DEF PinInv
<1>4. UNCHANGED <<segs, logs, manifest, hist, floor, w>>
    BY DEF RefreshManifest
<1> QED
    BY <1>1, <1>2, <1>3, <1>4, CompactingIs, ReadStep

LEMMA RefreshStatStep == ASSUME HistoryInv, RefreshStat PROVE HistoryInv'
<1>1. DOMAIN r = RFields /\ PinInv /\ r.pc = "stat"
    BY DEF HistoryInv, Shape, RefreshStat
<1>2. r.to = 0 /\ (Rewritten => r.overlap)
    BY <1>1 DEF PinInv
<1>3. UNCHANGED <<segs, logs, manifest, hist, floor, w>>
    BY DEF RefreshStat
<1>4. CASE r' = Idle(r)
    BY <1>1, <1>3, <1>4, IdleIs, ReadStep
<1>5. ASSUME NEW t, r' = [r EXCEPT !.pc = "segs", !.staged = t] PROVE HistoryInv'
  <2>1. DOMAIN r' = RFields /\ r'.pc = "segs" /\ r'.to = r.to /\ r'.overlap = r.overlap
    BY <1>1, <1>5 DEF RFields
  <2> QED
    BY <1>2, <1>3, <2>1, ReadStep
<1> QED
    BY <1>4, <1>5 DEF RefreshStat

LEMMA LoadLogStep == ASSUME HistoryInv, LoadLog PROVE HistoryInv'
<1>1. DOMAIN r = RFields /\ PinInv /\ r.pc = "segs" /\ r.to = 0
    BY DEF HistoryInv, Shape, LoadLog
<1>2. Rewritten => r.overlap
    BY <1>1 DEF PinInv
<1>3. UNCHANGED <<segs, logs, manifest, hist, floor, w>>
    BY DEF LoadLog
<1>4. DOMAIN r' = RFields /\ r'.pc = "swap" /\ r'.to = r.to /\ r'.overlap = r.overlap
    BY <1>1 DEF LoadLog, RFields
<1> QED
    BY <1>1, <1>2, <1>3, <1>4, ReadStep

LEMMA RefreshSwapStep == ASSUME HistoryInv, RefreshSwap PROVE HistoryInv'
<1>1. DOMAIN r = RFields
    BY DEF HistoryInv, Shape
<1>2. UNCHANGED <<segs, logs, manifest, hist, floor, w>>
    BY DEF RefreshSwap
<1>3. DOMAIN r' = RFields /\ r'.pc = "idle" /\ r'.to = 0
  <2>1. PICK a, b, c, d, f, g :
           r' = [Idle(r) EXCEPT !.names = a, !.contents = b, !.version = c, !.held = d, !.loaded = f, !.view = g]
    BY DEF RefreshSwap
  <2> QED
    BY <1>1, <2>1, IdleIs
<1> QED
    BY <1>2, <1>3, ReadStep

LEMMA PinCeilingStep == ASSUME HistoryInv, NEW v, PinCeiling(v) PROVE HistoryInv'
<1>1. DOMAIN r = RFields /\ NamesInv
    BY DEF HistoryInv, Shape
<1>2. DOMAIN r' = RFields /\ r'.pc = "floor" /\ r'.overlap = Compacting
    BY <1>1 DEF PinCeiling, RFields
<1>3. UNCHANGED <<segs, logs, manifest, hist, floor, w>>
    BY DEF PinCeiling
<1> QED
    BY <1>1, <1>2, <1>3, CompactingIs, ReadStep

LEMMA PinFloorStep == ASSUME HistoryInv, PinFloor PROVE HistoryInv'
<1>1. DOMAIN r = RFields /\ PinInv /\ HistInv /\ r.pc = "floor"
    BY DEF HistoryInv, Shape, PinFloor
<1>2. DOMAIN r' = RFields /\ r'.pc = "entry" /\ r'.floor = floor /\ r'.overlap = r.overlap
    BY <1>1 DEF PinFloor, RFields
<1>3. UNCHANGED <<segs, logs, manifest, hist, floor, w>>
    BY DEF PinFloor
<1>4. Rewritten => r.overlap
    BY <1>1 DEF PinInv
<1>5. ~w.torn => \A e \in hist : e.version >= floor => Safe(e)
    BY <1>1 DEF HistInv
<1> QED
    BY <1>2, <1>3, <1>4, <1>5, ReadStep

LEMMA PinEntryStep == ASSUME HistoryInv, PinEntry PROVE HistoryInv'
<1>1. DOMAIN r = RFields /\ PinInv /\ r.pc = "entry"
    BY DEF HistoryInv, Shape, PinEntry
<1>2. UNCHANGED <<segs, logs, manifest, hist, floor, w>>
    BY DEF PinEntry
<1>3. Rewritten => r.overlap
    BY <1>1 DEF PinInv
<1>4. CASE r' = Idle(r)
    BY <1>1, <1>2, <1>4, IdleIs, ReadStep
<1>5. ASSUME NEW e \in hist, e.version = r.to, r.to >= r.floor,
             r' = [r EXCEPT !.pc = "segs", !.entry = e, !.staged = <<>>,
                            !.man = [version |-> e.version, names |-> e.names, next |-> 0]]
      PROVE  HistoryInv'
  <2>1. /\ DOMAIN r' = RFields /\ r'.pc = "segs" /\ r'.overlap = r.overlap /\ r'.entry = e
        /\ r'.staged = <<>> /\ r'.man.names = e.names
    BY <1>1, <1>5 DEF RFields
  <2>2. ASSUME ~w.torn, ~r.overlap PROVE Safe(e) /\ Staged'
    <3>1. Safe(e)
      BY <1>1, <1>5, <2>2 DEF PinInv
    <3>2. Len(e.names) \in Nat /\ Len(e.names) > 0
      BY <3>1, ChainIs DEF Safe, SafeAt
    <3>3. <<>> \in Seq(Seq(Nat)) /\ Len(<<>>) = 0
      OBVIOUS
    <3>4. /\ r'.staged \in Seq(Seq(Nat)) /\ Len(r'.staged) <= Len(r'.entry.names)
          /\ Len(r'.staged) # Len(r'.entry.names) /\ 1 .. Len(r'.staged) = {}
      BY <2>1, <3>2, <3>3, SMTT(30)
    <3> QED
      BY <3>1, <3>4 DEF Staged
  <2> QED
    BY <1>2, <1>3, <2>1, <2>2, ReadStep
<1>6. CASE r.to >= r.floor /\ \E e \in hist : e.version = r.to
  <2>1. PICK e \in hist : e = (CHOOSE x \in hist : x.version = r.to) /\ e.version = r.to
    BY <1>6
  <2> QED
    BY <1>5, <1>6, <2>1 DEF PinEntry
<1> QED
    BY <1>4, <1>6 DEF PinEntry

LEMMA PinSwapStep == ASSUME HistoryInv, PinSwap PROVE HistoryInv'
<1>1. DOMAIN r = RFields
    BY DEF HistoryInv, Shape
<1>2. UNCHANGED <<segs, logs, manifest, hist, floor, w>>
    BY DEF PinSwap
<1>3. DOMAIN r' = RFields /\ r'.pc = "idle" /\ r'.to = 0
  <2>1. CASE r' = Idle(r)
    BY <1>1, <2>1, IdleIs
  <2>2. ASSUME NEW a, NEW b, NEW c, NEW d, NEW f, NEW g, NEW h,
               r' = [Idle(r) EXCEPT !.pinned = a, !.names = b, !.contents = c, !.version = d,
                                    !.held = f, !.loaded = g, !.view = h]
        PROVE  DOMAIN r' = RFields /\ r'.pc = "idle" /\ r'.to = 0
    BY <1>1, <2>2, IdleIs
  <2> QED
    BY <2>1, <2>2, ZenonT(40) DEF PinSwap
<1> QED
    BY <1>2, <1>3, ReadStep

\* What was loaded of a list, and one segment more.
Loaded(S, c, u) ==
    /\ u \in Seq(Seq(Nat)) /\ Len(u) \in Nat /\ Len(u) <= Len(c)
    /\ \A k \in 1 .. Len(u) : u[k] = S[c[k]]
    /\ Len(u) = Len(c) => u = Of(S, c)

LEMMA LoadedMore ==
    ASSUME NEW S \in Segments, NEW c, Chain(c), NEW t \in Seq(Seq(Nat)), Len(t) < Len(c),
           \A k \in 1 .. Len(t) : t[k] = S[c[k]]
    PROVE  Loaded(S, c, Append(t, S[c[Len(t) + 1]]))
<1> DEFINE n == Len(t)
           x == S[c[n + 1]]
           u == Append(t, x)
           o == Of(S, c)
<1>1. n \in Nat /\ Len(c) \in Nat /\ n < Len(c)
    BY ChainIs
<1>2. /\ o \in Seq(Seq(Nat)) /\ Len(o) = Len(c)
      /\ \A k \in 1 .. Len(c) : o[k] = S[c[k]] /\ S[c[k]] \in Seq(Nat)
    BY OfIs
<1>3. x \in Seq(Nat)
  <2>1. n + 1 \in 1 .. Len(c)
    BY <1>1
  <2> QED
    BY <1>2, <2>1
<1>4. \A k \in 1 .. n : t[k] = S[c[k]]
    OBVIOUS
<1> DEFINE X == Seq(Nat)
<1> HIDE DEF X
<1>5. t \in Seq(X) /\ x \in X
    BY <1>3 DEF X
<1>6. n = Len(t)
    OBVIOUS
<1> HIDE DEF x, o
<1>7. /\ u \in Seq(X) /\ Len(u) = n + 1 /\ u[n + 1] = x
      /\ \A k \in 1 .. n : u[k] = t[k]
    BY <1>5, AppendProperties
<1> HIDE DEF u, n
<1>8. Len(u) \in Nat /\ Len(u) <= Len(c)
    BY <1>1, <1>7
<1>9. ASSUME NEW k \in 1 .. Len(u) PROVE u[k] = S[c[k]]
  <2>1. CASE k = n + 1
    BY <1>7, <2>1 DEF x
  <2>2. CASE k \in 1 .. n
    BY <1>4, <1>7, <2>2
  <2> QED
    BY <1>1, <1>7, <1>9, <2>1, <2>2
<1>10. ASSUME Len(u) = Len(c) PROVE u = o
  <2>1. \A k \in 1 .. Len(u) : u[k] = o[k]
    BY <1>2, <1>9, <1>10
  <2>2. o \in Seq(X) /\ Len(o) = Len(u)
    BY <1>2, <1>10 DEF X
  <2> QED
    BY <1>7, <2>1, <2>2, SeqEqual
<1>11. Loaded(S, c, u)
    BY <1>7, <1>8, <1>9, <1>10 DEF Loaded, X, o
<1> QED
    BY <1>11 DEF u, x, n

LEMMA LoadSegmentStep == ASSUME HistoryInv, LoadSegment PROVE HistoryInv'
<1> DEFINE e == r.entry
           c == r.entry.names
           u == Append(r.staged, segs[r.man.names[Len(r.staged) + 1]])
<1>1. DOMAIN r = RFields /\ PinInv /\ Shape /\ r.pc = "segs" /\ Len(r.staged) < Len(r.man.names)
    BY DEF HistoryInv, Shape, LoadSegment
<1>2. UNCHANGED <<segs, logs, manifest, hist, floor, w>>
    BY DEF LoadSegment
<1>3. Rewritten => r.overlap
    BY <1>1 DEF PinInv
<1>4. r' = [r EXCEPT !.staged = u]
    BY DEF LoadSegment
<1> HIDE DEF u
<1>5. /\ DOMAIN r' = RFields /\ r'.pc = "segs" /\ r'.overlap = r.overlap /\ r'.to = r.to
      /\ r'.entry = e /\ r'.man = r.man /\ r'.staged = u
    BY <1>1, <1>4 DEF RFields
<1>6. ASSUME ~w.torn, ~r.overlap, r.to # 0 PROVE Safe(e) /\ r.man.names = c /\ Staged'
  <2>1. Safe(e) /\ r.man.names = c /\ Staged
    BY <1>1, <1>6 DEF PinInv
  <2>2. /\ Chain(c) /\ e.rows \in Nat /\ segs \in Segments /\ Len(AllRows(c)) \in Nat
        /\ Len(AllRows(c)) >= e.rows
    BY <1>1, <2>1, ShapeFacts DEF Safe, SafeAt, AllRows
  <2>3. r.staged \in Seq(Seq(Nat)) /\ \A k \in 1 .. Len(r.staged) : r.staged[k] = segs[c[k]]
    BY <1>1, <2>1 DEF Staged
  <2>4. Loaded(segs, c, u)
    BY <1>1, <2>1, <2>2, <2>3, LoadedMore DEF u
  <2>5. ASSUME Len(u) = Len(c) PROVE Len(Rows(u)) >= e.rows /\ Grown(Rows(u), AllRows(c))
    <3>1. Rows(u) = AllRows(c)
      BY <2>4, <2>5 DEF Loaded, AllRows
    <3> QED
      BY <2>2, <3>1 DEF Grown
  <2>6. Rows(Of(segs', c)) = AllRows(c)
    BY <1>2 DEF AllRows
  <2>7. /\ u \in Seq(Seq(Nat)) /\ Len(u) <= Len(c)
        /\ Len(u) < Len(c) => \A k \in 1 .. Len(u) : u[k] = segs'[c[k]]
        /\ Len(u) = Len(c) => Len(Rows(u)) >= e.rows /\ Grown(Rows(u), Rows(Of(segs', c)))
    BY <1>2, <2>4, <2>5, <2>6 DEF Loaded
  <2> QED
    BY <1>5, <2>1, <2>7 DEF Staged, AllRows
<1> QED
    BY <1>1, <1>2, <1>3, <1>5, <1>6, ReadStep

-----------------------------------------------------------------------------
(* The invariant, and what follows from it *)

LEMMA InitHistoryInv == Init => HistoryInv
<1> SUFFICES ASSUME Init PROVE HistoryInv
    OBVIOUS
<1> DEFINE D == 0 .. MaxSegment
<1>1. segs = [s \in D |-> <<>>] /\ 0 \in D
    BY BoundTypes DEF Init
<1>2. segs \in [D -> Seq(Nat)] /\ \A s \in D : segs[s] = <<>>
    BY <1>1
<1>3. segs \in Segments /\ segs[0] = <<>>
    BY <1>1, <1>2 DEF Segments
<1>4. /\ logs \in Seq(Seq(Record)) /\ Len(logs) > 0 /\ Current = <<>>
    BY DEF Init, Current
<1>5. /\ manifest.version = 1 /\ manifest.names = Base /\ manifest.next = 1 /\ hist = {} /\ floor = 0
    BY DEF Init, Base
<1>6. /\ DOMAIN w = WFields /\ w.pc = "idle" /\ w.after = "idle" /\ w.version = 1 /\ w.names = Base
      /\ w.next = 1 /\ w.pruned = 0 /\ w.docs = Nothing /\ w.dropped = {} /\ w.writes = 0
    BY DEF Init, WFields, Base
<1>7. DOMAIN r = RFields /\ r.pc = "idle" /\ r.to = 0
    BY DEF Init, RFields
<1>8. Nothing \in [Ids -> DocOf]
    BY DEF Nothing, NoDoc, DocOf
<1>9. Shape
    BY <1>3, <1>4, <1>5, <1>6, <1>7, <1>8, BaseIs DEF Shape, Segments
<1>10. ~Rewritten
    BY <1>6 DEF Rewritten
<1>11. NamesInv
  <2>1. \A i \in 1 .. Len(manifest.names) : manifest.names[i] < manifest.next
    <3>1. 1 .. Len(manifest.names) = {1} /\ manifest.names[1] = 0 /\ manifest.next = 1
      BY <1>5, BaseIs
    <3> QED
      BY <3>1
  <2> QED
    BY <1>2, <1>5, <1>6, <1>10, <2>1 DEF NamesInv
<1>12. DocsInv
  <2>1. AllRows(w.names) = <<>> /\ AllRows(manifest.names) = <<>>
    BY <1>3, <1>5, <1>6, BaseIs DEF AllRows
  <2>2. DOMAIN Current = {}
    BY <1>4
  <2>3. \A rows, bound : replay_ops(Current, rows, bound) = Nothing
    BY <2>2 DEF replay_ops, Nothing
  <2> QED
    BY <1>6, <2>1, <2>2, <2>3 DEF DocsInv
<1>13. RelogInv
    BY <1>6 DEF RelogInv
<1>14. HistInv
    BY <1>5, <1>6, <1>10 DEF HistInv
<1>15. PinInv
    BY <1>7, <1>10 DEF PinInv
<1> QED
    BY <1>9, <1>11, <1>12, <1>13, <1>14, <1>15 DEF HistoryInv

LEMMA HistoryInvStep == HistoryInv /\ [Next]_vars => HistoryInv'
<1> SUFFICES ASSUME HistoryInv, [Next]_vars PROVE HistoryInv'
    OBVIOUS
<1>1. CASE \E id \in Ids : Upsert(id) \/ Delete(id)
    BY <1>1, UpsertStep, DeleteStep
<1>2. CASE Seal \/ Compact \/ Reopen
    BY <1>2, SealStep, CompactStep, ReopenStep
<1>3. CASE WriterStep
    BY <1>3, LogAppendStep, PublishStep, RecordEntryStep, PruneHistoryStep, StoreFloorStep,
       RewriteDataStep, RewriteLogStep, ReclaimStep DEF WriterStep
<1>4. CASE RefreshManifest \/ ReaderStep
    BY <1>4, RefreshManifestStep, RefreshStatStep, LoadSegmentStep, LoadLogStep, RefreshSwapStep,
       PinFloorStep, PinEntryStep, PinSwapStep DEF ReaderStep
<1>5. CASE \E v \in 1 .. manifest.version : PinCeiling(v)
    BY <1>5, PinCeilingStep
<1>6. CASE UNCHANGED vars
  <2>1. UNCHANGED <<segs, logs, manifest, hist, floor, w, r>>
    BY <1>6 DEF vars
  <2>2. DOMAIN r = RFields /\ PinInv
    BY DEF HistoryInv, Shape
  <2>3. Staged' = Staged
    BY <2>1 DEF Staged, AllRows
  <2> QED
    BY <2>1, <2>2, <2>3, ReadStep DEF PinInv
<1> QED
    BY <1>1, <1>2, <1>3, <1>4, <1>5, <1>6 DEF Next

\* Outside a compaction the objects only grow, no compaction rewrites before
\* its fence, and a pin has read what its entry names or knows it overlapped.
THEOREM HistoryHolds == Spec => []HistoryInv
<1>1. Init => HistoryInv
    BY InitHistoryInv
<1>2. HistoryInv /\ [Next]_vars => HistoryInv'
    BY HistoryInvStep
<1> QED
    BY <1>1, <1>2, PTL DEF Spec

\* Every version that resolve_pinned_entry would accept is rebuilt exactly from
\* the objects as they are, at every instant of any number of writes, seals,
\* prunings, compactions and kills, but for a kill between the two rewrites.
THEOREM ReadableHistoryIsExact == Spec => []ReadableIsExact
<1>1. HistoryInv => ReadableIsExact
  <2> SUFFICES ASSUME HistoryInv, NEW e \in hist, e.version >= floor, ~w.torn
               PROVE  /\ Len(Rows(Contents(e.names))) >= e.rows /\ Len(Current) >= e.recs
                      /\ replay_ops(SubSeq(Current, 1, e.recs), Rows(Contents(e.names)), e.rows) = e.docs
    BY DEF ReadableIsExact
  <2>1. Safe(e)
    BY DEF HistoryInv, HistInv
  <2>2. Contents(e.names) = Of(segs, e.names)
    BY DEF Contents, Of
  <2> QED
    BY <2>1, <2>2 DEF Safe, SafeAt
<1> QED
    BY <1>1, HistoryHolds, PTL

\* Of the calls that are loading segments only a pin ends by its next step.
LEMMA OnlyPinSwap ==
    ASSUME HistoryInv, Next, r.pc = "segs", r'.pc = "idle"
    PROVE  PinSwap
<1>1. DOMAIN r = RFields
    BY DEF HistoryInv, Shape
<1>2. r' # r
    OBVIOUS
<1>3. ASSUME NEW docs, r' = Witness(docs) PROVE FALSE
    BY <1>1, <1>3, WitnessIs DEF SamePin
<1>4. ASSUME NEW x, r' = [r EXCEPT !.overlap = x] PROVE FALSE
    BY <1>1, <1>4, SMTT(30) DEF RFields
<1>5. ~\E id \in Ids : Upsert(id) \/ Delete(id)
    BY <1>2 DEF Upsert, Delete
<1>6. ~Seal /\ ~Compact /\ ~RecordEntry /\ ~PruneHistory /\ ~StoreFloor /\ ~Reclaim
    BY <1>2 DEF Seal, Compact, RecordEntry, PruneHistory, StoreFloor, Reclaim
<1>7. ~LogAppend /\ ~Reopen
    BY <1>3 DEF LogAppend, Reopen
<1>8. ~Publish
    BY <1>2, <1>4 DEF Publish
<1>9. ~RewriteData /\ ~RewriteLog
    BY <1>4 DEF RewriteData, RewriteLog
<1>10. ~RefreshManifest /\ ~RefreshStat /\ ~RefreshSwap /\ ~PinFloor /\ ~PinEntry
    BY DEF RefreshManifest, RefreshStat, RefreshSwap, PinFloor, PinEntry
<1>11. ~\E v \in 1 .. manifest.version : PinCeiling(v)
    BY DEF PinCeiling
<1>12. ~LoadSegment
  <2>1. ASSUME NEW x, r' = [r EXCEPT !.staged = x] PROVE FALSE
    BY <1>1, <2>1 DEF RFields
  <2> QED
    BY <2>1 DEF LoadSegment
<1>13. ~LoadLog
    BY <1>1 DEF LoadLog, RFields
<1> QED
    BY <1>5, <1>6, <1>7, <1>8, <1>9, <1>10, <1>11, <1>12, <1>13 DEF Next, WriterStep, ReaderStep

LEMMA PinSwapExact ==
    ASSUME HistoryInv, PinSwap, ~r.overlap, ~w.torn
    PROVE  r'.view = r.entry.docs
<1> DEFINE e == r.entry
           a == Rows(r.staged)
           b == Rows(Of(segs, r.entry.names))
           l == Current
           s == SubSeq(Current, 1, r.entry.recs)
<1>1. DOMAIN r = RFields /\ Shape /\ PinInv
    BY DEF HistoryInv, Shape
<1>2. r.pc = "segs" /\ r.to # 0 /\ Len(r.staged) = Len(r.man.names)
    BY DEF PinSwap
<1>3. Safe(e) /\ r.man.names = e.names /\ Staged
    BY <1>1, <1>2 DEF PinInv
<1>4. /\ e.rows \in Nat /\ e.recs \in Nat /\ Chain(e.names) /\ Len(l) >= e.recs
      /\ replay_ops(s, b, e.rows) = e.docs
    BY <1>3 DEF Safe, SafeAt
<1>5. Len(a) >= e.rows /\ Grown(a, b) /\ r.staged \in Seq(Seq(Nat)) /\ Len(r.staged) > 0
    BY <1>2, <1>3, <1>4, ChainIs DEF Staged, AllRows
<1>6. Len(a) \in Nat
  <2>1. a \in Seq(Nat)
    BY <1>5, RowsType
  <2> HIDE DEF a
  <2> QED
    BY <2>1
<1>7. Len(l) \in Nat /\ s \in Seq(Record)
  <2>1. l \in Seq(Record) /\ Len(l) \in Nat
    BY <1>1, ShapeFacts
  <2> QED
    BY <1>4, <2>1, SubSeqGrown DEF Grown
<1>8. ~(Len(a) < e.rows \/ Len(l) < e.recs)
    BY <1>4, <1>5, <1>6, <1>7
<1>9. r'.view = replay_ops(s, a, e.rows)
  <2>1. ASSUME NEW p, NEW q, NEW c, NEW d, NEW f, NEW g, NEW h,
               r' = [Idle(r) EXCEPT !.pinned = p, !.names = q, !.contents = c, !.version = d,
                                    !.held = f, !.loaded = g, !.view = h]
        PROVE  r'.view = h
    BY <1>1, <2>1, IdleIs DEF RFields
  <2>2. r' = [Idle(r) EXCEPT !.pinned = r.to, !.names = r.man.names, !.contents = r.staged,
                             !.version = r.man.version, !.held = Len(logs), !.loaded = r.entry.recs,
                             !.view = replay_ops(s, a, e.rows)]
    BY <1>8 DEF PinSwap
  <2> QED
    BY <2>1, <2>2
<1>10. \A i \in 1 .. e.rows : a[i] = b[i]
  <2> HIDE DEF a, b, e
  <2> QED
    BY <1>4, <1>5, <1>6 DEF Grown
<1> HIDE DEF a, b, s, e, l
<1>11. replay_ops(s, a, e.rows) = replay_ops(s, b, e.rows)
    BY <1>4, <1>7, <1>10, ReplayRows
<1> QED
    BY <1>4, <1>9, <1>11, Zenon DEF e

\* A pin no compaction overlapped serves exactly the commit it names: what
\* refresh_to read object by object, while the writer went on, is the entry's.
THEOREM PinsAreExact == Spec => PinExact
<1>1. HistoryInv /\ [Next]_vars =>
         [r'.pinned # 0 /\ r.pc = "segs" /\ r'.pc = "idle" /\ ~r.overlap /\ ~w.torn /\ r'.pinned = r.to =>
            r'.view = r.entry.docs]_vars
    BY OnlyPinSwap, PinSwapExact
<1> QED
    BY <1>1, HistoryHolds, PTL DEF Spec, PinExact

=============================================================================
