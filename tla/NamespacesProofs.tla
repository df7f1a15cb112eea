-------------------------- MODULE NamespacesProofs --------------------------
(***************************************************************************)
(* Theorems about the warm set, for any namespaces, requests, budget,      *)
(* number of openings and of renewal ticks.                                *)
(*                                                                         *)
(* One call of Namespaces::get evicts any number of stores, so its result  *)
(* is a recursive function, and what holds of it is shown by induction: a  *)
(* least eviction that breaks it is the step that breaks it.               *)
(***************************************************************************)
EXTENDS Namespaces, FiniteSetTheorems, SequenceTheorems, WellFoundedInduction, TLAPS

-----------------------------------------------------------------------------
(* Least elements and recursive functions *)

\* A set of naturals that is not empty has a least element.
LEMMA LeastNat ==
    ASSUME NEW T \in SUBSET Nat, T # {}
    PROVE  \E k \in T : \A j \in T : k <= j
<1> DEFINE Below == {0 .. k : k \in T}
<1>1. \A k \in Nat : 0 .. k \in FiniteSubsetsOf(Nat)
    BY FS_Interval DEF FiniteSubsetsOf
<1>2. Below \subseteq FiniteSubsetsOf(Nat) /\ Below # {}
    BY <1>1
<1>3. PICK x \in Below : \A y \in Below : <<y, x>> \notin StrictSubsetOrdering(Nat)
  <2>1. IsWellFoundedOn(StrictSubsetOrdering(Nat), FiniteSubsetsOf(Nat))
    BY FS_StrictSubsetOrderingWellFounded
  <2> HIDE DEF Below
  <2> QED
    BY <1>2, <2>1, WFMin
<1>4. PICK k \in T : x = 0 .. k
    BY <1>3
<1>5. ASSUME NEW j \in T PROVE k <= j
  <2>1. SUFFICES ASSUME j < k PROVE FALSE
    OBVIOUS
  <2>2. 0 .. j \subseteq 0 .. k /\ 0 .. j # 0 .. k
    <3>1. k \in 0 .. k /\ k \notin 0 .. j
      BY <2>1
    <3> QED
      BY <2>1, <3>1
  <2>3. <<0 .. j, 0 .. k>> \in StrictSubsetOrdering(Nat)
    BY <2>2 DEF StrictSubsetOrdering
  <2> QED
    BY <1>3, <1>4, <2>3
<1> QED
    BY <1>5

\* What the evictions up to the k-th leave, written out.
Unfolds(f, g, victims, k) ==
  /\ f[0] = g
  /\ \A i \in 1 .. k : f[i] = Evicted(f[i - 1], victims[i])

LEMMA EvictedInOrderDef ==
    ASSUME NEW g, NEW victims, Len(victims) \in Nat
    PROVE  Unfolds(EvictedInOrder(g, victims), g, victims, Len(victims))
<1> DEFINE n == Len(victims)
           Has(k) == \E f : DOMAIN f = 0 .. k /\ Unfolds(f, g, victims, k)
           Bad == {k \in 0 .. n : ~Has(k)}
<1>1. Bad = {}
  <2>1. SUFFICES ASSUME Bad # {} PROVE FALSE
    OBVIOUS
  <2>2. PICK k \in Bad : \A j \in Bad : k <= j
    <3>1. Bad \in SUBSET Nat
      OBVIOUS
    <3> HIDE DEF Bad
    <3> QED
      BY <2>1, <3>1, LeastNat
  <2>3. k # 0
    <3>1. DOMAIN [i \in 0 .. 0 |-> g] = 0 .. 0 /\ Unfolds([i \in 0 .. 0 |-> g], g, victims, 0)
      BY DEF Unfolds
    <3> QED
      BY <2>2, <3>1
  <2>4. k - 1 \in 0 .. n /\ k \in Nat /\ k \in 1 .. n
    BY <2>2, <2>3
  <2>5. Has(k - 1)
    BY <2>2, <2>4
  <2>6. PICK f : DOMAIN f = 0 .. k - 1 /\ Unfolds(f, g, victims, k - 1)
    BY <2>5
  <2> DEFINE h == [i \in 0 .. k |-> IF i = k THEN Evicted(f[k - 1], victims[k]) ELSE f[i]]
  <2>7. Unfolds(h, g, victims, k)
    BY <2>4, <2>6 DEF Unfolds
  <2>8. Has(k)
    BY <2>7
  <2> QED
    BY <2>2, <2>8
<1>2. PICK f : DOMAIN f = 0 .. n /\ Unfolds(f, g, victims, n)
  <2>1. n \in 0 .. n
    OBVIOUS
  <2> QED
    BY <1>1, <2>1
<1> DEFINE h == [k \in 0 .. n |-> f[k]]
<1>4. h = [k \in 0 .. n |-> IF k = 0 THEN g ELSE Evicted(h[k - 1], victims[k])]
  <2>1. \A k \in 0 .. n : h[k] = IF k = 0 THEN g ELSE Evicted(h[k - 1], victims[k])
    BY <1>2 DEF Unfolds
  <2> QED
    BY <2>1
<1> HIDE DEF h
<1>5. EvictedInOrder(g, victims) =
        CHOOSE x : x = [k \in 0 .. n |-> IF k = 0 THEN g ELSE Evicted(x[k - 1], victims[k])]
    BY DEF EvictedInOrder
<1>6. EvictedInOrder(g, victims) =
        [k \in 0 .. n |-> IF k = 0 THEN g ELSE Evicted(EvictedInOrder(g, victims)[k - 1], victims[k])]
    BY <1>4, <1>5
<1>7. ASSUME NEW x, x = [k \in 0 .. n |-> IF k = 0 THEN g ELSE Evicted(x[k - 1], victims[k])]
      PROVE  Unfolds(x, g, victims, n)
    BY <1>7 DEF Unfolds
<1> QED
    BY <1>6, <1>7

\* Induction over the first n steps of something.
LEMMA UpTo ==
    ASSUME NEW n \in Nat, NEW S, 0 \in S, \A k \in 1 .. n : k - 1 \in S => k \in S
    PROVE  0 .. n \subseteq S
<1> DEFINE Bad == {k \in 0 .. n : k \notin S}
<1>1. SUFFICES ASSUME Bad # {} PROVE FALSE
    OBVIOUS
<1>2. PICK k \in Bad : \A j \in Bad : k <= j
  <2>1. Bad \in SUBSET Nat
    OBVIOUS
  <2> HIDE DEF Bad
  <2> QED
    BY <1>1, <2>1, LeastNat
<1>3. k \in 1 .. n /\ k - 1 \in 0 .. n /\ k - 1 \notin Bad
    BY <1>2
<1> QED
    BY <1>2, <1>3

-----------------------------------------------------------------------------
(* The warm names *)

\* A list of names, each of them once.
Listing(s) == s \in Seq(Names) /\ IsInjective(s)

LEMMA WithoutName ==
    ASSUME NEW s, Listing(s), NEW n
    PROVE  /\ Listing(Without(s, n))
           /\ \A m : m \in Range(Without(s, n)) <=> m \in Range(s) /\ m # n
<1>1. CASE n \notin Range(s)
    BY <1>1 DEF Without, Range
<1>2. CASE n \in Range(s)
  <2>0. s \in Seq(Names) /\ Len(s) \in Nat /\ DOMAIN s = 1 .. Len(s) /\ IsInjective(s)
    BY DEF Listing
  <2> DEFINE p == CHOOSE i \in DOMAIN s : s[i] = n
  <2>1. p \in 1 .. Len(s) /\ s[p] = n
    BY <1>2, <2>0 DEF Range
  <2>2. Without(s, n) = SubSeq(s, 1, p - 1) \o SubSeq(s, p + 1, Len(s))
    BY <1>2 DEF Without, RemoveAt
  <2> HIDE DEF p
  <2> DEFINE a == SubSeq(s, 1, p - 1)
             b == SubSeq(s, p + 1, Len(s))
             w == Without(s, n)
  <2>3. a \in Seq(Names) /\ Len(a) = p - 1 /\ \A i \in 1 .. p - 1 : a[i] = s[i]
    BY <2>0, <2>1
  <2>4. b \in Seq(Names) /\ Len(b) = Len(s) - p /\ \A i \in 1 .. Len(s) - p : b[i] = s[p + i]
    <3>1. \A i \in p + 1 .. Len(s) : s[i] \in Names
      BY <2>0, <2>1
    <3>2. /\ b \in Seq(Names)
          /\ Len(b) = IF p + 1 <= Len(s) THEN Len(s) - (p + 1) + 1 ELSE 0
          /\ \A i \in 1 .. Len(s) - (p + 1) + 1 : b[i] = s[(p + 1) + i - 1]
      BY <2>0, <2>1, <3>1, SubSeqProperties
    <3> HIDE DEF b
    <3>3. Len(b) = Len(s) - p
      <4>1. ASSUME NEW l \in Nat, NEW i \in 1 .. l
            PROVE  (IF i + 1 <= l THEN l - (i + 1) + 1 ELSE 0) = l - i
        OBVIOUS
      <4> QED
        BY <2>0, <2>1, <3>2, <4>1
    <3>4. ASSUME NEW i \in 1 .. Len(s) - p PROVE b[i] = s[p + i]
      <4>1. i \in 1 .. Len(s) - (p + 1) + 1 /\ (p + 1) + i - 1 = p + i
        BY <2>0, <2>1
      <4> QED
        BY <3>2, <4>1
    <3> QED
      BY <3>2, <3>3, <3>4
  <2> HIDE DEF a, b
  <2>5. /\ w \in Seq(Names) /\ Len(w) = Len(s) - 1 /\ DOMAIN w = 1 .. Len(s) - 1
        /\ \A i \in 1 .. Len(s) - 1 : w[i] = IF i < p THEN s[i] ELSE s[i + 1]
    <3>1. w = a \o b
      BY <2>2 DEF a, b
    <3>2. /\ a \o b \in Seq(Names) /\ Len(a \o b) = Len(s) - 1
          /\ \A i \in 1 .. Len(s) - 1 :
               (a \o b)[i] = IF i <= p - 1 THEN a[i] ELSE b[i - (p - 1)]
      <4>1. /\ a \o b \in Seq(Names) /\ Len(a \o b) = Len(a) + Len(b)
            /\ \A i \in 1 .. Len(a) + Len(b) :
                 (a \o b)[i] = IF i <= Len(a) THEN a[i] ELSE b[i - Len(a)]
        BY <2>3, <2>4, ConcatProperties
      <4>2. Len(a) + Len(b) = Len(s) - 1
        BY <2>0, <2>1, <2>3, <2>4
      <4> QED
        BY <2>3, <4>1, <4>2
    <3>3. ASSUME NEW i \in 1 .. Len(s) - 1
          PROVE  (a \o b)[i] = IF i < p THEN s[i] ELSE s[i + 1]
      <4>1. CASE i < p
        BY <2>0, <2>1, <2>3, <3>2, <4>1
      <4>2. CASE ~(i < p)
        <5>1. i - (p - 1) \in 1 .. Len(s) - p /\ p + (i - (p - 1)) = i + 1
          BY <2>0, <2>1, <4>2
        <5>2. b[i - (p - 1)] = s[p + (i - (p - 1))]
          BY <2>4, <5>1
        <5> QED
          BY <2>0, <2>1, <3>2, <4>2, <5>1, <5>2
      <4> QED
        BY <4>1, <4>2
    <3> QED
      BY <3>1, <3>2, <3>3
  <2> HIDE DEF w
  <2>6. IsInjective(w)
    <3> SUFFICES ASSUME NEW i \in 1 .. Len(s) - 1, NEW j \in 1 .. Len(s) - 1, w[i] = w[j] PROVE i = j
      BY <2>5 DEF IsInjective
    <3> DEFINE k == IF i < p THEN i ELSE i + 1
               l == IF j < p THEN j ELSE j + 1
    <3>1. k \in 1 .. Len(s) /\ l \in 1 .. Len(s)
      BY <2>0, <2>1
    <3>2. w[i] = s[k] /\ w[j] = s[l]
      BY <2>5
    <3> HIDE DEF w
    <3>3. k = l
      <4> HIDE DEF k, l
      <4> QED
        BY <2>0, <3>1, <3>2 DEF IsInjective
    <3> QED
      BY <2>0, <2>1, <3>3
  <2>7. ASSUME NEW m \in Range(w) PROVE m \in Range(s) /\ m # n
    <3>1. PICK i \in 1 .. Len(s) - 1 : m = w[i]
      BY <2>5 DEF Range
    <3>2. PICK j \in 1 .. Len(s) : m = s[j] /\ j # p
      BY <2>0, <2>1, <2>5, <3>1
    <3> QED
      BY <2>0, <2>1, <3>2 DEF Range, IsInjective
  <2>8. ASSUME NEW m \in Range(s), m # n PROVE m \in Range(w)
    <3>1. PICK j \in 1 .. Len(s) : m = s[j]
      BY <2>0 DEF Range
    <3>2. j # p
      BY <2>1, <2>8, <3>1
    <3>3. CASE j < p
      <4>1. j \in 1 .. Len(s) - 1 /\ w[j] = s[j]
        BY <2>0, <2>1, <2>5, <3>3
      <4> QED
        BY <2>5, <3>1, <4>1 DEF Range
    <3>4. CASE j > p
      <4>1. j - 1 \in 1 .. Len(s) - 1 /\ w[j - 1] = s[j]
        BY <2>0, <2>1, <2>5, <3>4
      <4> QED
        BY <2>5, <3>1, <4>1 DEF Range
    <3> QED
      BY <2>0, <2>1, <3>2, <3>3, <3>4
  <2> QED
    BY <2>5, <2>6, <2>7, <2>8 DEF Listing, w
<1> QED
    BY <1>1, <1>2

-----------------------------------------------------------------------------
(* What the registry keeps *)

Documents == Writes \cup {Old}
Opening == [name: Names, docs: SUBSET Documents, alive: BOOLEAN]

\* The fields of the registry; a record over them is not typed further where
\* the argument does not need it.
RegFields == {"warm", "size", "lru", "store", "file", "stale", "stolen", "evicted", "ok"}

RegShape(g) ==
  /\ DOMAIN g = RegFields
  /\ g.warm \in [Names -> Nat] /\ g.file \in [Names -> Nat]
  /\ g.store \in Seq(Opening) /\ g.stale \subseteq Names /\ g.stolen \subseteq Names
  /\ Listing(g.lru) /\ \A n \in Range(g.lru) : g.warm[n] # 0

\* Opening o of namespace n is there and alive.
OpenAs(g, o, n) == o \in DOMAIN g.store /\ g.store[o].alive /\ g.store[o].name = n

\* A warm namespace's opening is alive.
WarmOpen(g) == \A n \in Names : g.warm[n] # 0 => OpenAs(g, g.warm[n], n)

\* So is one that a request holds, warm or evicted since.
Holding(r) == r.pc \in {"held", "inside"}
HeldOpen(g, rq) == \A q \in Requests : Holding(rq[q]) => OpenAs(g, rq[q].inc, rq[q].name)

\* Whoever is alive has the lock file, and has read every write on the disk,
\* unless its namespace's lock was reclaimed.
Locked(g, dk) ==
  \A o \in DOMAIN g.store :
    g.store[o].alive /\ g.store[o].name \notin g.stolen =>
      g.file[g.store[o].name] = o /\ dk[g.store[o].name] \subseteq g.store[o].docs

RegInv(g) == RegShape(g) /\ WarmOpen(g) /\ HeldOpen(g, req) /\ Locked(g, disk)

LEMMA LenDomain ==
    ASSUME NEW s \in Seq(Opening), NEW t \in Seq(Opening), DOMAIN s = DOMAIN t
    PROVE  Len(s) = Len(t)
<1>1. Len(s) \in Nat /\ Len(t) \in Nat /\ 1 .. Len(s) = 1 .. Len(t)
    OBVIOUS
<1> QED
    BY <1>1

LEMMA OpeningFields ==
    ASSUME NEW s \in Seq(Opening), NEW i \in DOMAIN s
    PROVE  /\ s[i] \in Opening /\ s[i].name \in Names
           /\ s[i].docs \subseteq Documents /\ s[i].alive \in BOOLEAN
<1>1. s[i] \in Opening
    BY ElementOfSeq
<1> QED
    BY <1>1 DEF Opening

\* The store of opening o is gone.
Closed(s, o) == [s EXCEPT ![o].alive = FALSE]

LEMMA DroppedFields ==
    ASSUME NEW g, DOMAIN g = RegFields, NEW o
    PROVE  /\ DOMAIN Dropped(g, o) = RegFields
           /\ Dropped(g, o).warm = g.warm /\ Dropped(g, o).lru = g.lru
           /\ Dropped(g, o).store = Closed(g.store, o)
           /\ Dropped(g, o).file = [g.file EXCEPT ![g.store[o].name] = 0]
           /\ Dropped(g, o).stale = g.stale \ {g.store[o].name}
           /\ Dropped(g, o).stolen = g.stolen
           /\ Dropped(g, o).evicted = g.evicted
BY DEF Dropped, RegFields, Closed

LEMMA DroppedStore ==
    ASSUME NEW g, DOMAIN g = RegFields, NEW o
    PROVE  Dropped(g, o).warm = g.warm /\ Dropped(g, o).store = Closed(g.store, o)
BY DroppedFields

LEMMA ClosedOpening ==
    ASSUME NEW s \in Seq(Opening), NEW o \in DOMAIN s
    PROVE  /\ Closed(s, o) \in Seq(Opening) /\ DOMAIN Closed(s, o) = DOMAIN s
           /\ ~Closed(s, o)[o].alive
           /\ \A i \in DOMAIN s : /\ Closed(s, o)[i].name = s[i].name
                                  /\ Closed(s, o)[i].docs = s[i].docs
                                  /\ i # o => Closed(s, o)[i] = s[i]
<1>0. DOMAIN s = 1 .. Len(s) /\ Len(s) \in Nat /\ s[o] \in Opening
    OBVIOUS
<1> DEFINE x == [s[o] EXCEPT !.alive = FALSE]
<1>1. x \in Opening /\ x.name = s[o].name /\ x.docs = s[o].docs /\ ~x.alive
    BY <1>0 DEF Opening
<1>2. Closed(s, o) = [s EXCEPT ![o] = x]
    BY DEF Closed
<1> HIDE DEF x
<1>3. Closed(s, o) \in Seq(Opening) /\ DOMAIN Closed(s, o) = DOMAIN s
    BY <1>0, <1>1, <1>2, ExceptSeq
<1>4. Closed(s, o)[o] = x /\ \A i \in DOMAIN s : i # o => Closed(s, o)[i] = s[i]
    BY <1>0, <1>2
<1> QED
    BY <1>1, <1>3, <1>4

\* A store nobody holds is dropped: the others keep their lock files.
LEMMA DropKeeps ==
    ASSUME NEW g, NEW dk, RegShape(g), WarmOpen(g), Locked(g, dk),
           NEW o \in DOMAIN g.store, g.store[o].alive,
           \A n \in Names : g.warm[n] # o,
           NEW rq, \A q \in Requests : Holding(rq[q]) => rq[q].inc # o /\ OpenAs(g, rq[q].inc, rq[q].name)
    PROVE  /\ RegShape(Dropped(g, o)) /\ WarmOpen(Dropped(g, o))
           /\ HeldOpen(Dropped(g, o), rq) /\ Locked(Dropped(g, o), dk)
<1> DEFINE d == Dropped(g, o)
           m == g.store[o].name
<1>0. /\ DOMAIN d = RegFields /\ d.warm = g.warm /\ d.lru = g.lru
      /\ d.store = Closed(g.store, o) /\ d.file = [g.file EXCEPT ![m] = 0]
      /\ d.stale = g.stale \ {m} /\ d.stolen = g.stolen
    BY DroppedFields DEF RegShape
<1>1. g.store \in Seq(Opening) /\ g.file \in [Names -> Nat] /\ g.warm \in [Names -> Nat]
    BY DEF RegShape
<1>2. /\ d.store \in Seq(Opening) /\ DOMAIN d.store = DOMAIN g.store
      /\ ~d.store[o].alive
      /\ \A i \in DOMAIN g.store : /\ d.store[i].name = g.store[i].name
                                   /\ d.store[i].docs = g.store[i].docs
                                   /\ i # o => d.store[i] = g.store[i]
    BY <1>0, <1>1, ClosedOpening
<1>3. m \in Names
    BY <1>1, OpeningFields
<1> HIDE DEF d, m
<1>4. RegShape(d)
    BY <1>0, <1>1, <1>2, <1>3 DEF RegShape
<1>5. \A i, n : i # o /\ OpenAs(g, i, n) => OpenAs(d, i, n)
    BY <1>2 DEF OpenAs
<1>6. WarmOpen(d)
    BY <1>0, <1>5 DEF WarmOpen
<1>7. HeldOpen(d, rq)
    BY <1>5 DEF HeldOpen
<1>8. Locked(d, dk)
  <2> SUFFICES ASSUME NEW i \in DOMAIN d.store, d.store[i].alive, d.store[i].name \notin d.stolen
               PROVE  /\ d.file[d.store[i].name] = i
                      /\ dk[d.store[i].name] \subseteq d.store[i].docs
    BY DEF Locked
  <2>1. i # o /\ i \in DOMAIN g.store /\ d.store[i] = g.store[i] /\ g.store[i].name \notin g.stolen
    BY <1>0, <1>2
  <2>2. g.file[g.store[i].name] = i /\ dk[g.store[i].name] \subseteq g.store[i].docs
    BY <2>1 DEF Locked
  <2>3. g.store[i].name # m
    <3>1. SUFFICES ASSUME g.store[i].name = m PROVE FALSE
      OBVIOUS
    <3>2. g.file[m] = o
      BY <2>1, <3>1 DEF Locked, m
    <3> QED
      BY <2>1, <2>2, <3>1, <3>2
  <2>4. g.store[i].name \in Names
    BY <1>1, <2>1, OpeningFields
  <2> QED
    BY <1>0, <1>1, <2>1, <2>2, <2>3, <2>4
<1> QED
    BY <1>4, <1>6, <1>7, <1>8 DEF d

\* One eviction.
EvictedOut(g, n) ==
  [g EXCEPT !.warm[n] = 0, !.size[n] = 0, !.evicted = @ \cup {g.warm[n]}, !.lru = Without(@, n)]

LEMMA EvictedKeeps ==
    ASSUME NEW g, RegInv(g), NEW n \in Names, g.warm[n] # 0
    PROVE  /\ RegInv(Evicted(g, n))
           /\ \A m \in Names \ {n} : Evicted(g, n).warm[m] = g.warm[m]
           /\ Len(Evicted(g, n).store) = Len(g.store)
<1> DEFINE out == EvictedOut(g, n)
           o == g.warm[n]
<1>0. /\ RegShape(g) /\ WarmOpen(g) /\ HeldOpen(g, req) /\ Locked(g, disk)
      /\ DOMAIN g = RegFields /\ g.warm \in [Names -> Nat] /\ Listing(g.lru)
      /\ \A m \in Range(g.lru) : g.warm[m] # 0
    BY DEF RegInv, RegShape
<1>1. /\ DOMAIN out = RegFields /\ out.warm = [g.warm EXCEPT ![n] = 0]
      /\ out.lru = Without(g.lru, n) /\ out.store = g.store /\ out.file = g.file
      /\ out.stale = g.stale /\ out.stolen = g.stolen
    BY <1>0 DEF EvictedOut, RegFields
<1>2. Evicted(g, n) = IF Holders(o) = {} THEN Dropped(out, o) ELSE out
    BY DEF Evicted, EvictedOut
<1>3. OpenAs(g, o, n)
    BY <1>0 DEF WarmOpen
<1> HIDE DEF out
<1>4. RegShape(out)
  <2>1. Listing(Without(g.lru, n)) /\ \A m \in Range(Without(g.lru, n)) : m \in Range(g.lru) /\ m # n
    BY <1>0, WithoutName
  <2>2. \A m \in Range(out.lru) : out.warm[m] # 0
    <3>1. \A m \in Range(g.lru) : m \in Names
      BY <1>0 DEF Listing, Range
    <3> QED
      BY <1>0, <1>1, <2>1, <3>1
  <2> QED
    BY <1>0, <1>1, <2>1, <2>2 DEF RegShape
<1>5. \A i, m : OpenAs(out, i, m) <=> OpenAs(g, i, m)
    BY <1>1 DEF OpenAs
<1>6. WarmOpen(out)
    BY <1>0, <1>1, <1>5 DEF WarmOpen
<1>7. HeldOpen(out, req)
    BY <1>0, <1>5 DEF HeldOpen
<1>8. Locked(out, disk)
    BY <1>0, <1>1 DEF Locked
<1>9. \A m \in Names : out.warm[m] # o
  <2>1. \A m \in Names \ {n} : out.warm[m] = g.warm[m] /\ (g.warm[m] # 0 => OpenAs(g, g.warm[m], m))
    BY <1>0, <1>1 DEF WarmOpen
  <2>2. out.warm[n] = 0
    BY <1>0, <1>1
  <2> QED
    BY <1>3, <2>1, <2>2 DEF OpenAs
<1>10. CASE Holders(o) # {}
    BY <1>0, <1>1, <1>2, <1>4, <1>6, <1>7, <1>8, <1>10 DEF RegInv
<1>11. CASE Holders(o) = {}
  <2>1. o \in DOMAIN out.store /\ out.store[o].alive
    BY <1>1, <1>3 DEF OpenAs
  <2>2. \A q \in Requests : Holding(req[q]) => req[q].inc # o /\ OpenAs(out, req[q].inc, req[q].name)
    BY <1>7, <1>11 DEF HeldOpen, Holders, Holding
  <2>3. RegInv(Dropped(out, o))
    BY <1>4, <1>6, <1>8, <1>9, <2>1, <2>2, DropKeeps DEF RegInv
  <2>4. Dropped(out, o).warm = out.warm /\ Dropped(out, o).store = Closed(out.store, o)
    BY <1>1, DroppedStore
  <2>5. Len(Closed(out.store, o)) = Len(out.store)
    <3>1. out.store \in Seq(Opening) /\ o \in DOMAIN out.store
      BY <1>4, <2>1 DEF RegShape
    <3>2. Closed(out.store, o) \in Seq(Opening) /\ DOMAIN Closed(out.store, o) = DOMAIN out.store
      BY <3>1, ClosedOpening
    <3> QED
      BY <3>1, <3>2, LenDomain
  <2> QED
    BY <1>0, <1>1, <1>2, <1>11, <2>3, <2>4, <2>5
<1> QED
    BY <1>10, <1>11

\* Two registries that differ in nothing the invariant is about.
LEMMA SameReg ==
    ASSUME NEW g, NEW h, RegInv(g), DOMAIN h = RegFields,
           h.warm = g.warm, h.lru = g.lru, h.store = g.store, h.file = g.file,
           h.stale = g.stale, h.stolen = g.stolen
    PROVE  RegInv(h)
BY DEF RegInv, RegShape, WarmOpen, HeldOpen, OpenAs, Locked

\* A measurement changes sizes only.
LEMMA MeasuredKeeps ==
    ASSUME NEW g, RegInv(g)
    PROVE  /\ RegInv(Measured(g)) /\ Measured(g).warm = g.warm /\ Measured(g).lru = g.lru
           /\ Measured(g).store = g.store
<1>0. DOMAIN g = RegFields
    BY DEF RegInv, RegShape
<1> DEFINE h == Measured(g)
<1>1. /\ DOMAIN h = RegFields /\ h.warm = g.warm /\ h.lru = g.lru /\ h.store = g.store
      /\ h.file = g.file /\ h.stale = g.stale /\ h.stolen = g.stolen
    BY <1>0 DEF Measured, RegFields
<1> HIDE DEF h
<1>2. RegInv(h)
    BY <1>1, SameReg
<1> QED
    BY <1>1, <1>2 DEF h

\* What evictions of others leave of registry g and of namespace keep.
Spared(g, h, keep) ==
  RegInv(h) /\ h.warm[keep] = g.warm[keep] /\ Len(h.store) = Len(g.store)

\* Evictions one after the other, none of them of keep.
LEMMA EvictedInOrderKeeps ==
    ASSUME NEW g, RegInv(g), NEW keep \in Names, NEW victims, Listing(victims),
           \A m \in Range(victims) : m # keep /\ g.warm[m] # 0
    PROVE  \A k \in 0 .. Len(victims) : Spared(g, EvictedInOrder(g, victims)[k], keep)
<1>0. /\ victims \in Seq(Names) /\ Len(victims) \in Nat /\ DOMAIN victims = 1 .. Len(victims)
      /\ \A i \in 1 .. Len(victims) : victims[i] \in Names
      /\ \A i, j \in 1 .. Len(victims) : victims[i] = victims[j] => i = j
    BY DEF Listing, IsInjective
<1> DEFINE n == Len(victims)
           f == EvictedInOrder(g, victims)
           P(k) == /\ RegInv(f[k]) /\ f[k].warm[keep] = g.warm[keep] /\ Len(f[k].store) = Len(g.store)
                   /\ \A j \in k + 1 .. n : f[k].warm[victims[j]] # 0
           S == {k \in 0 .. n : P(k)}
<1>1. f[0] = g /\ \A k \in 1 .. n : f[k] = Evicted(f[k - 1], victims[k])
    BY <1>0, EvictedInOrderDef DEF Unfolds
<1>2. \A i \in 1 .. n : victims[i] # keep /\ g.warm[victims[i]] # 0
    BY <1>0 DEF Range
<1> HIDE DEF f
<1>3. P(0)
    BY <1>0, <1>1, <1>2
<1>4. ASSUME NEW k \in 1 .. n, P(k - 1) PROVE P(k)
  <2>1. RegInv(f[k - 1]) /\ f[k - 1].warm[keep] = g.warm[keep] /\ Len(f[k - 1].store) = Len(g.store)
    BY <1>4
  <2>2. \A j \in k .. n : f[k - 1].warm[victims[j]] # 0
    BY <1>0, <1>4
  <2>3. /\ RegInv(f[k]) /\ Len(f[k].store) = Len(f[k - 1].store)
        /\ \A m \in Names \ {victims[k]} : f[k].warm[m] = f[k - 1].warm[m]
    BY <1>0, <1>1, <2>1, <2>2, EvictedKeeps
  <2>4. f[k].warm[keep] = g.warm[keep]
    BY <1>2, <2>1, <2>3
  <2>5. ASSUME NEW j \in k + 1 .. n PROVE f[k].warm[victims[j]] # 0
    <3>1. j \in 1 .. n /\ j # k /\ j \in k .. n
      BY <1>0
    <3>2. victims[j] \in Names \ {victims[k]}
      BY <1>0, <3>1
    <3> QED
      BY <2>2, <2>3, <3>1, <3>2
  <2> QED
    BY <2>1, <2>3, <2>4, <2>5
<1>5. 0 .. n \subseteq S
  <2>1. 0 \in S
    BY <1>0, <1>3
  <2>2. ASSUME NEW k \in 1 .. n, k - 1 \in S PROVE k \in S
    BY <1>0, <1>4, <2>2
  <2> HIDE DEF S
  <2> QED
    BY <1>0, <2>1, <2>2, UpTo
<1> QED
    BY <1>5 DEF f, Spared

\* What enforce leaves, after each of its evictions.
LEMMA EvictionsKeep ==
    ASSUME NEW g, RegInv(g), NEW keep \in Names, g.warm[keep] # 0
    PROVE  \E last, f :
              /\ last \in Nat
              /\ Evictions(g, keep) = [k \in 1 .. last + 1 |-> f[k - 1]]
              /\ \A k \in 0 .. last : /\ RegInv(f[k]) /\ f[k].warm[keep] # 0
                                      /\ Len(f[k].store) = Len(g.store)
<1> DEFINE m == Measured(g)
           victims == Without(m.lru, keep)
           f == EvictedInOrder(m, victims)
           fits == {k \in 0 .. Len(victims) : Total(f[k]) <= Budget}
           last == IF fits = {} THEN Len(victims) ELSE CHOOSE k \in fits : \A j \in fits : k <= j
<1>1. RegInv(m) /\ m.warm = g.warm /\ m.store = g.store
    BY MeasuredKeeps
<1>2. Listing(m.lru) /\ \A x \in Range(m.lru) : m.warm[x] # 0
    BY <1>1 DEF RegInv, RegShape
<1> HIDE DEF m
<1>3. /\ Listing(victims) /\ Len(victims) \in Nat
      /\ \A x \in Range(victims) : x # keep /\ m.warm[x] # 0
  <2>1. Listing(victims) /\ \A x \in Range(victims) : x # keep /\ m.warm[x] # 0
    BY <1>2, WithoutName
  <2> QED
    BY <2>1 DEF Listing
<1> HIDE DEF victims
<1>4. \A k \in 0 .. Len(victims) : Spared(m, f[k], keep)
    BY <1>1, <1>3, EvictedInOrderKeeps
<1>5. Evictions(g, keep) = [k \in 1 .. last + 1 |-> f[k - 1]]
    BY DEF Evictions, m, victims
<1> HIDE DEF f
<1>6. last \in 0 .. Len(victims)
  <2>1. CASE fits = {}
    BY <1>3, <2>1
  <2>2. CASE fits # {}
    <3>1. fits \in SUBSET Nat
      BY <1>3
    <3>2. fits \subseteq 0 .. Len(victims)
      OBVIOUS
    <3> HIDE DEF fits
    <3>3. \E k \in fits : \A j \in fits : k <= j
      BY <2>2, <3>1, LeastNat
    <3>4. last \in fits
      BY <2>2, <3>3
    <3> QED
      BY <3>2, <3>4
  <2> QED
    BY <2>1, <2>2
<1> HIDE DEF last
<1>7. last \in Nat /\ \A k \in 0 .. last : /\ RegInv(f[k]) /\ f[k].warm[keep] # 0
                                           /\ Len(f[k].store) = Len(g.store)
    BY <1>1, <1>3, <1>4, <1>6 DEF Spared
<1> QED
    BY <1>5, <1>7

LEMMA RegOfFields ==
    /\ DOMAIN Reg = RegFields /\ Reg.warm = warm /\ Reg.lru = lru /\ Reg.store = store
    /\ Reg.file = file /\ Reg.stale = stale /\ Reg.stolen = stolen /\ Reg.size = size
BY DEF Reg, RegFields

LEMMA ListingAppend ==
    ASSUME NEW s, Listing(s), NEW n \in Names, n \notin Range(s)
    PROVE  Listing(Append(s, n)) /\ \A m \in Range(Append(s, n)) : m = n \/ m \in Range(s)
<1>0. s \in Seq(Names) /\ Len(s) \in Nat /\ DOMAIN s = 1 .. Len(s) /\ IsInjective(s)
    BY DEF Listing
<1> DEFINE a == Append(s, n)
<1>1. /\ a \in Seq(Names) /\ Len(a) = Len(s) + 1 /\ DOMAIN a = 1 .. Len(s) + 1
      /\ \A i \in 1 .. Len(s) : a[i] = s[i]
      /\ a[Len(s) + 1] = n
    BY <1>0, AppendProperties, LenProperties
<1> HIDE DEF a
<1>2. \A i \in 1 .. Len(s) : s[i] # n
    BY <1>0 DEF Range
<1>3. IsInjective(a)
    BY <1>0, <1>1, <1>2 DEF IsInjective
<1>4. \A m \in Range(a) : m = n \/ m \in Range(s)
    BY <1>0, <1>1 DEF Range
<1> QED
    BY <1>1, <1>3, <1>4 DEF Listing, a

\* A cold namespace is opened: nobody alive has its lock file, or it was
\* reclaimed.
LEMMA OpenedKeeps ==
    ASSUME RegInv(Reg), disk \in [Names -> SUBSET Documents],
           NEW n \in Names, warm[n] = 0, CanOpen(n)
    PROVE  RegInv(Opened(Reg, n)) /\ Opened(Reg, n).warm[n] # 0
<1> DEFINE h == Opened(Reg, n)
           o == Len(store) + 1
           x == [name |-> n, docs |-> disk[n], alive |-> TRUE]
<1>0. /\ RegShape(Reg) /\ WarmOpen(Reg) /\ HeldOpen(Reg, req) /\ Locked(Reg, disk)
      /\ warm \in [Names -> Nat] /\ file \in [Names -> Nat] /\ store \in Seq(Opening)
      /\ stale \subseteq Names /\ stolen \subseteq Names
      /\ Listing(lru) /\ \A m \in Range(lru) : warm[m] # 0
    BY RegOfFields DEF RegInv, RegShape
<1>1. /\ DOMAIN h = RegFields /\ h.store = Append(store, x)
      /\ h.warm = [warm EXCEPT ![n] = o] /\ h.lru = Append(lru, n)
      /\ h.file = [file EXCEPT ![n] = o] /\ h.stale = stale \ {n}
      /\ h.stolen = IF n \in stale THEN stolen \cup {n} ELSE stolen
    BY RegOfFields DEF Opened, RegFields
<1>2. x \in Opening /\ x.name = n /\ x.docs = disk[n] /\ x.alive
    BY DEF Opening
<1> HIDE DEF h, x
<1>3. Len(store) \in Nat /\ DOMAIN store = 1 .. Len(store)
    BY <1>0
<1>4. /\ h.store \in Seq(Opening) /\ DOMAIN h.store = 1 .. o
      /\ \A i \in DOMAIN store : i \in DOMAIN h.store /\ h.store[i] = store[i]
      /\ h.store[o] = x
    BY <1>0, <1>1, <1>2, <1>3, AppendProperties, LenProperties
<1>5. RegShape(h)
  <2>1. n \notin Range(lru)
    BY <1>0
  <2>2. Listing(h.lru) /\ \A m \in Range(h.lru) : m = n \/ m \in Range(lru)
    BY <1>0, <1>1, <2>1, ListingAppend
  <2>3. \A m \in Range(lru) : m \in Names
    BY <1>0 DEF Listing, Range
  <2>4. \A m \in Range(h.lru) : h.warm[m] # 0
    BY <1>0, <1>1, <1>3, <2>2, <2>3
  <2> QED
    BY <1>0, <1>1, <1>3, <1>4, <2>2, <2>4 DEF RegShape
<1>6. \A i, m : OpenAs(Reg, i, m) => OpenAs(h, i, m)
    BY <1>4, RegOfFields DEF OpenAs
<1>7. OpenAs(h, o, n)
    BY <1>2, <1>3, <1>4 DEF OpenAs
<1>8. WarmOpen(h)
    BY <1>0, <1>1, <1>6, <1>7, RegOfFields DEF WarmOpen
<1>9. HeldOpen(h, req)
    BY <1>0, <1>6 DEF HeldOpen
<1>10. Locked(h, disk)
  <2> SUFFICES ASSUME NEW i \in DOMAIN h.store, h.store[i].alive, h.store[i].name \notin h.stolen
               PROVE  /\ h.file[h.store[i].name] = i
                      /\ disk[h.store[i].name] \subseteq h.store[i].docs
    BY DEF Locked
  <2>1. CASE i = o
    BY <1>0, <1>1, <1>2, <1>4, <2>1
  <2>2. CASE i # o
    <3>1. i \in DOMAIN store /\ h.store[i] = store[i] /\ i # 0
      BY <1>3, <1>4, <2>2
    <3>2. store[i].name \notin stolen
      BY <1>1, <3>1
    <3>3. file[store[i].name] = i /\ disk[store[i].name] \subseteq store[i].docs
      BY <1>0, <3>1, <3>2, RegOfFields DEF Locked
    <3>4. store[i].name # n
      <4>1. SUFFICES ASSUME store[i].name = n PROVE FALSE
        OBVIOUS
      <4>2. n \in stale
        BY <3>1, <3>3, <4>1 DEF CanOpen
      <4> QED
        BY <1>1, <3>1, <4>1, <4>2
    <3>5. store[i].name \in Names
      BY <1>0, <3>1, OpeningFields
    <3> QED
      BY <1>0, <1>1, <3>1, <3>3, <3>4, <3>5
  <2> QED
    BY <2>1, <2>2
<1>11. h.warm[n] # 0
    BY <1>0, <1>1, <1>3
<1> QED
    BY <1>5, <1>8, <1>9, <1>10, <1>11 DEF RegInv, h

LEMMA AdmittedKeeps ==
    ASSUME RegInv(Reg), disk \in [Names -> SUBSET Documents], NEW n \in Names, Available(n)
    PROVE  RegInv(Admitted(n)) /\ Admitted(n).warm[n] # 0
BY OpenedKeeps, RegOfFields DEF Admitted, Available

LEMMA TouchedKeeps ==
    ASSUME NEW g, RegInv(g), NEW n \in Names, g.warm[n] # 0
    PROVE  RegInv(Touched(g, n)) /\ Touched(g, n).warm = g.warm /\ Touched(g, n).store = g.store
<1> DEFINE h == Touched(g, n)
<1>0. /\ RegShape(g) /\ WarmOpen(g) /\ HeldOpen(g, req) /\ Locked(g, disk)
      /\ DOMAIN g = RegFields /\ Listing(g.lru) /\ \A m \in Range(g.lru) : g.warm[m] # 0
    BY DEF RegInv, RegShape
<1>1. /\ DOMAIN h = RegFields /\ h.warm = g.warm /\ h.lru = Append(Without(g.lru, n), n)
      /\ h.store = g.store /\ h.file = g.file /\ h.stale = g.stale /\ h.stolen = g.stolen
    BY <1>0 DEF Touched, RegFields
<1> HIDE DEF h
<1>2. Listing(h.lru) /\ \A m \in Range(h.lru) : h.warm[m] # 0
  <2>1. Listing(Without(g.lru, n)) /\ \A m : m \in Range(Without(g.lru, n)) <=> m \in Range(g.lru) /\ m # n
    BY <1>0, WithoutName
  <2>2. /\ Listing(Append(Without(g.lru, n), n))
        /\ \A m \in Range(Append(Without(g.lru, n), n)) : m = n \/ m \in Range(Without(g.lru, n))
    BY <2>1, ListingAppend
  <2> QED
    BY <1>0, <1>1, <2>1, <2>2
<1>3. RegShape(h)
    BY <1>0, <1>1, <1>2 DEF RegShape
<1>4. WarmOpen(h) /\ HeldOpen(h, req) /\ Locked(h, disk)
    BY <1>0, <1>1 DEF WarmOpen, HeldOpen, OpenAs, Locked
<1> QED
    BY <1>1, <1>3, <1>4 DEF RegInv, h

\* What a call of get leaves.
LEMMA GetKeeps ==
    ASSUME RegInv(Reg), disk \in [Names -> SUBSET Documents], NEW n \in Names, Available(n)
    PROVE  RegInv(Get(n)) /\ Get(n).warm[n] # 0 /\ Len(Get(n).store) = Len(Admitted(n).store)
<1>1. RegInv(Admitted(n)) /\ Admitted(n).warm[n] # 0
    BY AdmittedKeeps
<1>2. PICK last, f :
         /\ last \in Nat
         /\ Evictions(Admitted(n), n) = [k \in 1 .. last + 1 |-> f[k - 1]]
         /\ \A k \in 0 .. last : /\ RegInv(f[k]) /\ f[k].warm[n] # 0
                                 /\ Len(f[k].store) = Len(Admitted(n).store)
    BY <1>1, EvictionsKeep
<1>3. Last(Evictions(Admitted(n), n)) = f[last]
  <2>1. Len([k \in 1 .. last + 1 |-> f[k - 1]]) = last + 1
    BY <1>2
  <2>2. [k \in 1 .. last + 1 |-> f[k - 1]][last + 1] = f[last]
    BY <1>2
  <2> QED
    BY <1>2, <2>1, <2>2 DEF Last
<1>4. RegInv(f[last]) /\ f[last].warm[n] # 0 /\ Len(f[last].store) = Len(Admitted(n).store)
    BY <1>2
<1> QED
    BY <1>3, <1>4, TouchedKeeps DEF Get

\* What it leaves when a flush fails half way.
LEMMA FlushFailedKeeps ==
    ASSUME RegInv(Reg), disk \in [Names -> SUBSET Documents], NEW n \in Names, Available(n),
           NEW g \in FlushFailed(n)
    PROVE  RegInv(g) /\ Len(g.store) = Len(Admitted(n).store)
<1>1. RegInv(Admitted(n)) /\ Admitted(n).warm[n] # 0
    BY AdmittedKeeps
<1>2. PICK last, f :
         /\ last \in Nat
         /\ Evictions(Admitted(n), n) = [k \in 1 .. last + 1 |-> f[k - 1]]
         /\ \A k \in 0 .. last : /\ RegInv(f[k]) /\ f[k].warm[n] # 0
                                 /\ Len(f[k].store) = Len(Admitted(n).store)
    BY <1>1, EvictionsKeep
<1> DEFINE s == [k \in 1 .. last + 1 |-> f[k - 1]]
<1>3. Len(s) = last + 1 /\ \A i \in 1 .. last : Tail(s)[i] = s[i + 1]
    BY <1>2
<1>4. DOMAIN Tail(s) = 1 .. last
    BY <1>2
<1>5. PICK i \in 1 .. last : g = f[i]
    BY <1>2, <1>3, <1>4 DEF FlushFailed, Range
<1> QED
    BY <1>2, <1>5

\* A request that has left its store lets go of it.
LEMMA ReleaseKeeps ==
    ASSUME NEW h, NEW dk, NEW rq, NEW q \in Requests,
           RegShape(h), h.warm = warm, WarmOpen(h), Locked(h, dk),
           OpenAs(h, req[q].inc, req[q].name),
           \A p \in Requests : Holding(rq[p]) =>
              p # q /\ rq[p] = req[p] /\ OpenAs(h, req[p].inc, req[p].name)
    PROVE  /\ RegShape(Release(q, h)) /\ WarmOpen(Release(q, h))
           /\ HeldOpen(Release(q, h), rq) /\ Locked(Release(q, h), dk)
<1> DEFINE o == req[q].inc
<1>1. CASE o \notin {warm[n] : n \in Names} /\ Holders(o) = {q}
  <2>1. Release(q, h) = Dropped(h, o)
    BY <1>1 DEF Release
  <2>2. o \in DOMAIN h.store /\ h.store[o].alive /\ \A n \in Names : h.warm[n] # o
    BY <1>1 DEF OpenAs
  <2>3. \A p \in Requests : Holding(rq[p]) => rq[p].inc # o /\ OpenAs(h, rq[p].inc, rq[p].name)
    BY <1>1 DEF Holders, Holding
  <2> QED
    BY <2>1, <2>2, <2>3, DropKeeps
<1>2. CASE ~(o \notin {warm[n] : n \in Names} /\ Holders(o) = {q})
  <2>1. Release(q, h) = h
    BY <1>2 DEF Release
  <2> QED
    BY <2>1 DEF HeldOpen
<1> QED
    BY <1>1, <1>2

-----------------------------------------------------------------------------
(* The invariant of the registry and its requests *)

Stages == {"new", "queued", "held", "inside", "done", "failed"}
Request == [pc: Stages, name: Names \cup {"none"}, inc: Nat, com: Nat, must: SUBSET Documents]
Side == [com: Nat, ready: Nat]

\* An answered write is on the disk of its namespace.
AckedStored ==
  acked \subseteq Writes
  /\ \A w \in acked : req[w].pc = "done" /\ req[w].name \in Names /\ w \in disk[req[w].name]

\* What a read in progress has to see is on the disk of its namespace.
MustStored == \A q \in Reads : Holding(req[q]) => req[q].must \subseteq disk[req[q].name]

Typed ==
  /\ req \in [Requests -> Request] /\ side \in [Names -> Side]
  /\ disk \in [Names -> SUBSET Documents]
  /\ \A q \in Requests : req[q].pc = "queued" => req[q].name \in Names

NsInv == Typed /\ RegInv(Reg) /\ AckedStored /\ MustStored

LEMMA Installed ==
    ASSUME NEW g, Install(g), RegShape(g), WarmOpen(g), HeldOpen(g, req'), Locked(g, disk')
    PROVE  RegInv(Reg)'
<1>1. /\ DOMAIN Reg' = RegFields /\ Reg'.warm = g.warm /\ Reg'.lru = g.lru
      /\ Reg'.store = g.store /\ Reg'.file = g.file /\ Reg'.stale = g.stale /\ Reg'.stolen = g.stolen
    BY DEF Install, Reg, RegFields
<1>2. RegShape(Reg')
    BY <1>1 DEF RegShape
<1>3. WarmOpen(Reg') /\ HeldOpen(Reg', req') /\ Locked(Reg', disk')
    BY <1>1 DEF WarmOpen, HeldOpen, OpenAs, Locked
<1> QED
    BY <1>2, <1>3 DEF RegInv, HeldOpen, Locked

LEMMA ReconciledType ==
    ASSUME NEW g, RegShape(g), Typed, NEW n \in Names
    PROVE  Reconciled(g, n) \in [Names -> Side]
<1>1. NoSide \in Side /\ \A o \in Nat : [com |-> o, ready |-> o] \in Side
    BY DEF NoSide, Side
<1>2. g.warm \in [Names -> Nat] /\ side \in [Names -> Side]
    BY DEF RegShape, Typed
<1>3. \A m \in Names : Reconciled(g, n)[m] \in Side
    BY <1>1, <1>2 DEF Reconciled
<1> QED
    BY <1>3 DEF Reconciled

\* Only the stage of request q changes.
LEMMA StageOf ==
    ASSUME Typed, NEW q \in Requests, NEW pc \in Stages, req' = [req EXCEPT ![q].pc = pc]
    PROVE  /\ req' \in [Requests -> Request]
           /\ req'[q].pc = pc /\ req'[q].name = req[q].name /\ req'[q].inc = req[q].inc
           /\ req'[q].must = req[q].must
           /\ \A p \in Requests \ {q} : req'[p] = req[p]
<1>0. req \in [Requests -> Request] /\ req[q] \in Request
    BY DEF Typed
<1> DEFINE r == [req[q] EXCEPT !.pc = pc]
<1>1. r \in Request /\ r.pc = pc /\ r.name = req[q].name /\ r.inc = req[q].inc /\ r.must = req[q].must
    BY <1>0 DEF Request
<1>2. req' = [req EXCEPT ![q] = r]
    OBVIOUS
<1> HIDE DEF r
<1> QED
    BY <1>0, <1>1, <1>2

\* A request gets past the mutex: as a new handle, or into a queue.
LEMMA AdmissionStep ==
    ASSUME NsInv, NEW n \in Names, Available(n), Install(Get(n)),
           side' = Reconciled(Get(n), n) \/ side' = side,
           NEW q \in Requests, req[q].pc \in {"new", "queued"},
           NEW r \in Request, req' = [req EXCEPT ![q] = r],
           Holding(r) => r.inc = Get(n).warm[n] /\ r.name = n,
           r.pc = "queued" => r.name = n,
           q \in Reads => r.must \subseteq disk[n],
           UNCHANGED <<disk, acked>>
    PROVE  NsInv'
<1> DEFINE g == Get(n)
<1>0. Typed /\ RegInv(Reg) /\ AckedStored /\ MustStored
    BY DEF NsInv
<1>1. req \in [Requests -> Request] /\ disk \in [Names -> SUBSET Documents]
    BY <1>0 DEF Typed
<1>2. RegInv(g) /\ g.warm[n] # 0
    BY <1>0, <1>1, GetKeeps
<1>3. req'[q] = r /\ \A p \in Requests \ {q} : req'[p] = req[p]
    BY <1>1
<1>4. RegInv(Reg)'
  <2>1. RegShape(g) /\ WarmOpen(g) /\ HeldOpen(g, req) /\ Locked(g, disk)
    BY <1>2 DEF RegInv
  <2>2. OpenAs(g, g.warm[n], n)
    BY <1>2, <2>1 DEF WarmOpen
  <2> HIDE DEF g
  <2>3. HeldOpen(g, req')
    BY <1>3, <2>1, <2>2 DEF HeldOpen, g
  <2>4. Locked(g, disk')
    BY <2>1
  <2> QED
    BY <2>1, <2>3, <2>4, Installed DEF g
<1>5. Typed'
  <2>1. side' \in [Names -> Side]
    BY <1>0, <1>2, ReconciledType DEF RegInv, Typed
  <2>2. req' \in [Requests -> Request] /\ disk' \in [Names -> SUBSET Documents]
    BY <1>1
  <2>3. \A p \in Requests : req'[p].pc = "queued" => req'[p].name \in Names
    BY <1>0, <1>3 DEF Typed
  <2> QED
    BY <2>1, <2>2, <2>3 DEF Typed
<1>6. AckedStored'
  <2>1. \A w \in acked : w # q /\ w \in Requests
    BY <1>0 DEF AckedStored, Requests, Clients
  <2> QED
    BY <1>0, <1>3, <2>1 DEF AckedStored
<1>7. MustStored'
    BY <1>0, <1>3 DEF MustStored, Requests, Clients
<1> QED
    BY <1>4, <1>5, <1>6, <1>7 DEF NsInv

\* A step after which request q holds no more than it did.
LEMMA StageStep ==
    ASSUME NsInv, NEW g, Install(g), RegInv(g), NEW q \in Requests, NEW pc \in Stages,
           req' = [req EXCEPT ![q].pc = pc], req[q].pc # "done",
           pc # "queued", pc \in {"held", "inside"} => Holding(req[q]),
           UNCHANGED <<side, disk, acked>>
    PROVE  NsInv'
<1>0. Typed /\ RegInv(Reg) /\ AckedStored /\ MustStored
    BY DEF NsInv
<1>1. /\ req' \in [Requests -> Request]
      /\ req'[q].pc = pc /\ req'[q].name = req[q].name /\ req'[q].inc = req[q].inc
      /\ req'[q].must = req[q].must
      /\ \A p \in Requests \ {q} : req'[p] = req[p]
    BY <1>0, StageOf
<1>2. \A p \in Requests : Holding(req'[p]) =>
        Holding(req[p]) /\ req'[p].inc = req[p].inc /\ req'[p].name = req[p].name /\ req'[p].must = req[p].must
    BY <1>1 DEF Holding
<1>3. RegInv(Reg)'
  <2>1. RegShape(g) /\ WarmOpen(g) /\ HeldOpen(g, req) /\ Locked(g, disk)
    BY DEF RegInv
  <2>2. HeldOpen(g, req')
    BY <1>2, <2>1 DEF HeldOpen
  <2> QED
    BY <2>1, <2>2, Installed
<1>4. Typed'
    BY <1>0, <1>1 DEF Typed
<1>5. AckedStored'
  <2>1. \A w \in acked : w # q /\ w \in Requests
    BY <1>0 DEF AckedStored, Requests, Clients
  <2> QED
    BY <1>0, <1>1, <2>1 DEF AckedStored
<1>6. MustStored'
    BY <1>0, <1>2 DEF MustStored, Requests, Clients
<1> QED
    BY <1>3, <1>4, <1>5, <1>6 DEF NsInv

\* A step of the registry alone.
LEMMA RegistryStep ==
    ASSUME NsInv, NEW g, Install(g), RegInv(g), UNCHANGED <<side, disk, req, acked>>
    PROVE  NsInv'
<1>1. RegInv(Reg)'
    BY Installed DEF RegInv
<1>2. Typed' /\ AckedStored' /\ MustStored'
    BY DEF NsInv, Typed, AckedStored, MustStored
<1> QED
    BY <1>1, <1>2 DEF NsInv

\* A write is applied to the store it holds and to the files behind it.
LEMMA FinishWriteStep ==
    ASSUME NamespacesAssumption, NsInv, NEW q \in Requests, FinishWrite(q)
    PROVE  NsInv'
<1> DEFINE o == req[q].inc
           m == req[q].name
           h == [Reg EXCEPT !.store[o].docs = @ \cup {q}]
<1>0. /\ Typed /\ RegInv(Reg) /\ AckedStored /\ MustStored
      /\ RegShape(Reg) /\ WarmOpen(Reg) /\ HeldOpen(Reg, req) /\ Locked(Reg, disk)
    BY DEF NsInv, RegInv
<1>1. /\ q \in Writes /\ req[q].pc = "inside" /\ Install(Release(q, h))
      /\ disk' = [disk EXCEPT ![m] = @ \cup {q}] /\ acked' = acked \cup {q}
      /\ req' = [req EXCEPT ![q].pc = "done"] /\ side' = side
    BY DEF FinishWrite
<1>2. store \in Seq(Opening) /\ file \in [Names -> Nat] /\ disk \in [Names -> SUBSET Documents]
    BY <1>0, RegOfFields DEF RegShape, Typed
<1>3. o \in DOMAIN store /\ store[o].alive /\ store[o].name = m
    BY <1>0, <1>1, RegOfFields DEF HeldOpen, OpenAs, Holding
<1>4. m \in Names /\ store[o] \in Opening /\ store[o].docs \subseteq Documents
    BY <1>2, <1>3, OpeningFields
<1>5. /\ req' \in [Requests -> Request]
      /\ req'[q].pc = "done" /\ req'[q].name = m
      /\ \A p \in Requests \ {q} : req'[p] = req[p]
    BY <1>0, <1>1, StageOf DEF Stages
<1> DEFINE x == [store[o] EXCEPT !.docs = @ \cup {q}]
<1>6. x \in Opening /\ x.name = m /\ x.alive /\ x.docs = store[o].docs \cup {q}
    BY <1>1, <1>3, <1>4 DEF Opening, Documents
<1>7. /\ DOMAIN h = RegFields /\ h.warm = warm /\ h.lru = lru /\ h.file = file
      /\ h.stale = stale /\ h.stolen = stolen /\ h.store = [store EXCEPT ![o] = x]
    BY DEF Reg, RegFields
<1> HIDE DEF x, h
<1>8. h.store \in Seq(Opening) /\ DOMAIN h.store = DOMAIN store
    BY <1>2, <1>3, <1>6, <1>7, ExceptSeq
<1>9. h.store[o] = x /\ \A i \in DOMAIN store : i # o => h.store[i] = store[i]
    BY <1>2, <1>3, <1>7
<1>10. \A i, n : OpenAs(Reg, i, n) => OpenAs(h, i, n)
    BY <1>3, <1>6, <1>8, <1>9, RegOfFields DEF OpenAs
<1>11. RegShape(h)
    BY <1>0, <1>7, <1>8, RegOfFields DEF RegShape
<1>12. WarmOpen(h)
    BY <1>0, <1>7, <1>10, RegOfFields DEF WarmOpen
<1>13. Locked(h, disk')
  <2> SUFFICES ASSUME NEW i \in DOMAIN h.store, h.store[i].alive, h.store[i].name \notin h.stolen
               PROVE  /\ h.file[h.store[i].name] = i
                      /\ disk'[h.store[i].name] \subseteq h.store[i].docs
    BY DEF Locked
  <2>1. i \in DOMAIN store /\ h.store[i].name = store[i].name /\ store[i].alive /\ store[i].name \notin stolen
    BY <1>3, <1>6, <1>7, <1>8, <1>9
  <2>2. file[store[i].name] = i /\ disk[store[i].name] \subseteq store[i].docs
    BY <1>0, <2>1, RegOfFields DEF Locked
  <2>3. store[i].name \in Names
    BY <1>2, <2>1, OpeningFields
  <2>4. CASE i = o
    BY <1>1, <1>2, <1>3, <1>4, <1>6, <1>7, <1>9, <2>1, <2>2, <2>4
  <2>5. CASE i # o
    <3>1. store[i].name # m
      <4>1. SUFFICES ASSUME store[i].name = m PROVE FALSE
        OBVIOUS
      <4>2. file[m] = o
        BY <1>0, <1>3, <2>1, <4>1, RegOfFields DEF Locked
      <4> QED
        BY <2>2, <2>5, <4>1, <4>2
    <3> QED
      BY <1>1, <1>2, <1>7, <1>9, <2>1, <2>2, <2>3, <2>5, <3>1
  <2> QED
    BY <2>4, <2>5
<1>14. \A p \in Requests : Holding(req'[p]) =>
          p # q /\ req'[p] = req[p] /\ OpenAs(h, req[p].inc, req[p].name)
    BY <1>0, <1>5, <1>10 DEF HeldOpen, Holding
<1>15. OpenAs(h, req[q].inc, req[q].name)
    BY <1>3, <1>10, RegOfFields DEF OpenAs
<1>16. RegInv(Reg)'
  <2> DEFINE g == Release(q, h)
  <2>1. RegShape(g) /\ WarmOpen(g) /\ HeldOpen(g, req') /\ Locked(g, disk')
    BY <1>7, <1>11, <1>12, <1>13, <1>14, <1>15, ReleaseKeeps
  <2>2. Install(g)
    BY <1>1
  <2> HIDE DEF g
  <2> QED
    BY <2>1, <2>2, Installed
<1>17. disk' \in [Names -> SUBSET Documents] /\ \A n \in Names : disk[n] \subseteq disk'[n]
    BY <1>1, <1>2, <1>4 DEF Documents
<1>18. Typed'
  <2>1. \A p \in Requests : req'[p].pc = "queued" => req'[p].name \in Names
    BY <1>0, <1>5 DEF Typed
  <2> QED
    BY <1>0, <1>1, <1>5, <1>17, <2>1 DEF Typed
<1>19. AckedStored'
  <2>1. \A w \in acked : w # q /\ w \in Requests
    BY <1>0, <1>1 DEF AckedStored, Requests, Clients
  <2>2. \A w \in acked : req'[w].pc = "done" /\ req'[w].name \in Names /\ w \in disk'[req'[w].name]
    BY <1>0, <1>5, <1>17, <2>1 DEF AckedStored
  <2>3. q \in disk'[m]
    BY <1>1, <1>2, <1>4
  <2> QED
    BY <1>0, <1>1, <1>4, <1>5, <2>2, <2>3 DEF AckedStored
<1>20. MustStored'
  <2> SUFFICES ASSUME NEW p \in Reads, Holding(req'[p]) PROVE req'[p].must \subseteq disk'[req'[p].name]
    BY DEF MustStored
  <2>1. p \in Requests /\ req'[p] = req[p] /\ req[p].must \subseteq disk[req[p].name]
    BY <1>0, <1>14 DEF MustStored, Requests, Clients
  <2>2. req[p].name \in Names
    <3>1. OpenAs(Reg, req[p].inc, req[p].name)
      BY <1>0, <2>1 DEF HeldOpen
    <3> QED
      BY <1>2, <3>1, OpeningFields, RegOfFields DEF OpenAs
  <2> QED
    BY <1>17, <2>1, <2>2
<1> QED
    BY <1>16, <1>18, <1>19, <1>20 DEF NsInv

\* A read lets go of its store.
\* A read or a tick lets its handle go.
LEMMA FinishReadStep ==
    ASSUME NsInv, NEW q \in Requests, FinishRead(q) \/ Renew(q)
    PROVE  NsInv'
<1>0. /\ Typed /\ RegInv(Reg) /\ AckedStored /\ MustStored
      /\ RegShape(Reg) /\ WarmOpen(Reg) /\ HeldOpen(Reg, req) /\ Locked(Reg, disk)
    BY DEF NsInv, RegInv
<1>1. /\ req[q].pc \in {"held", "inside"} /\ Install(Release(q, Reg))
      /\ req' = [req EXCEPT ![q].pc = "done"] /\ UNCHANGED <<side, disk, acked>>
    BY DEF FinishRead, Renew
<1>2. /\ req' \in [Requests -> Request]
      /\ req'[q].pc = "done" /\ \A p \in Requests \ {q} : req'[p] = req[p]
    BY <1>0, <1>1, StageOf DEF Stages
<1>3. \A p \in Requests : Holding(req'[p]) =>
          p # q /\ req'[p] = req[p] /\ OpenAs(Reg, req[p].inc, req[p].name)
    BY <1>0, <1>2 DEF HeldOpen, Holding
<1>4. OpenAs(Reg, req[q].inc, req[q].name) /\ Reg.warm = warm
    BY <1>0, <1>1, RegOfFields DEF HeldOpen, Holding
<1>5. RegInv(Reg)'
  <2> DEFINE g == Release(q, Reg)
  <2>1. RegShape(g) /\ WarmOpen(g) /\ HeldOpen(g, req') /\ Locked(g, disk)
    BY <1>0, <1>3, <1>4, ReleaseKeeps
  <2>2. Install(g)
    BY <1>1
  <2> HIDE DEF g
  <2> QED
    BY <1>1, <2>1, <2>2, Installed
<1>6. Typed'
    BY <1>0, <1>1, <1>2 DEF Typed
<1>7. AckedStored'
  <2>1. \A w \in acked : w # q /\ w \in Requests
    BY <1>0, <1>1 DEF AckedStored, Requests, Clients
  <2> QED
    BY <1>0, <1>1, <1>2, <2>1 DEF AckedStored
<1>8. MustStored'
    BY <1>0, <1>1, <1>3 DEF MustStored, Requests, Clients
<1> QED
    BY <1>5, <1>6, <1>7, <1>8 DEF NsInv

\* The lock file of a namespace grows older than its lifetime.
LEMMA ExpireStep ==
    ASSUME NamespacesAssumption, NsInv, NEW n \in Names, Expire(n)
    PROVE  NsInv'
<1> DEFINE g == [Reg EXCEPT !.stale = @ \cup {n}]
<1>0. RegShape(Reg) /\ WarmOpen(Reg) /\ HeldOpen(Reg, req) /\ Locked(Reg, disk)
    BY DEF NsInv, RegInv
<1>1. /\ DOMAIN g = RegFields /\ g.warm = warm /\ g.lru = lru /\ g.store = store
      /\ g.file = file /\ g.stale = stale \cup {n} /\ g.stolen = stolen /\ g.size = size
    BY DEF Reg, RegFields
<1> HIDE DEF g
<1>2. RegInv(g)
  <2>1. RegShape(g)
    BY <1>0, <1>1, RegOfFields DEF RegShape
  <2>2. WarmOpen(g) /\ HeldOpen(g, req) /\ Locked(g, disk)
    BY <1>0, <1>1, RegOfFields DEF WarmOpen, HeldOpen, OpenAs, Locked
  <2> QED
    BY <2>1, <2>2 DEF RegInv
<1>3. Install(g) /\ UNCHANGED <<side, disk, req, acked>>
    BY <1>1 DEF Expire, Install
<1> QED
    BY <1>2, <1>3, RegistryStep

LEMMA SameInstall ==
    ASSUME UNCHANGED <<warm, size, lru, store, file, stale, stolen>>
    PROVE  Install(Reg)
BY RegOfFields DEF Install

LEMMA AtRequest ==
    ASSUME NEW pc \in Stages, NEW n \in Names, NEW inc \in Nat, NEW com \in Nat
    PROVE  /\ At(pc, n, inc, com) \in Request
           /\ At(pc, n, inc, com).pc = pc /\ At(pc, n, inc, com).name = n
           /\ At(pc, n, inc, com).inc = inc /\ At(pc, n, inc, com).must = {}
BY DEF At, Request

LEMMA AdmitReadStep ==
    ASSUME NsInv, NEW q \in Requests, NEW n \in Names, AdmitRead(q, n)
    PROVE  NsInv'
<1> DEFINE g == Get(n)
           must == {w \in acked : req[w].name = n}
           r == [At("held", n, g.warm[n], 0) EXCEPT !.must = must]
<1>0. Typed /\ RegInv(Reg) /\ AckedStored /\ disk \in [Names -> SUBSET Documents]
    BY DEF NsInv, Typed
<1>1. /\ req[q].pc = "new" /\ Available(n) /\ Install(g) /\ side' = Reconciled(g, n)
      /\ req' = [req EXCEPT ![q] = r] /\ UNCHANGED <<disk, acked>>
    BY DEF AdmitRead
<1>2. RegInv(g)
    BY <1>0, <1>1, GetKeeps
<1>3. g.warm[n] \in Nat
    BY <1>2 DEF RegInv, RegShape
<1>4. must \subseteq disk[n] /\ must \in SUBSET Documents
    BY <1>0 DEF AckedStored
<1> HIDE DEF must, g
<1>5. r \in Request /\ r.pc = "held" /\ r.name = n /\ r.inc = g.warm[n] /\ r.must = must
    BY <1>3, <1>4 DEF At, Request, Stages
<1> HIDE DEF r
<1> QED
    BY <1>1, <1>4, <1>5, AdmissionStep DEF g

LEMMA AdmitWriteStep ==
    ASSUME NsInv, NEW q \in Requests, NEW n \in Names, AdmitWrite(q, n)
    PROVE  NsInv'
<1> DEFINE g == Get(n)
           r == At("queued", n, 0, Reconciled(g, n)[n].com)
<1>0. Typed /\ RegInv(Reg) /\ disk \in [Names -> SUBSET Documents]
    BY DEF NsInv, Typed
<1>1. /\ req[q].pc = "new" /\ Available(n) /\ Install(g) /\ side' = Reconciled(g, n)
      /\ req' = [req EXCEPT ![q] = r] /\ UNCHANGED <<disk, acked>>
    BY DEF AdmitWrite
<1>2. RegInv(g)
    BY <1>0, <1>1, GetKeeps
<1>3. Reconciled(g, n)[n].com \in Nat
    BY <1>0, <1>2, ReconciledType DEF RegInv, Side
<1> HIDE DEF g
<1>4. r \in Request /\ r.pc = "queued" /\ r.name = n /\ r.must = {}
    BY <1>3, AtRequest DEF Stages
<1> HIDE DEF r
<1> QED
    BY <1>1, <1>4, AdmissionStep DEF g, Holding

LEMMA LeadStep ==
    ASSUME NsInv, NEW q \in Requests, Lead(q)
    PROVE  NsInv'
<1> DEFINE n == req[q].name
           g == Get(n)
           r == At("held", n, g.warm[n], req[q].com)
<1>0. Typed /\ RegInv(Reg) /\ disk \in [Names -> SUBSET Documents] /\ req \in [Requests -> Request]
    BY DEF NsInv, Typed
<1>1. /\ req[q].pc = "queued" /\ Available(n) /\ Install(g) /\ side' = Reconciled(g, n)
      /\ req' = [req EXCEPT ![q] = r] /\ UNCHANGED <<disk, acked>>
    BY DEF Lead
<1>2. n \in Names /\ req[q].com \in Nat
    BY <1>0, <1>1 DEF Typed, Request
<1>3. RegInv(g)
    BY <1>0, <1>1, <1>2, GetKeeps
<1>4. g.warm[n] \in Nat
    BY <1>2, <1>3 DEF RegInv, RegShape
<1> HIDE DEF g, n
<1>5. r \in Request /\ r.pc = "held" /\ r.name = n /\ r.inc = g.warm[n] /\ r.must = {}
    BY <1>2, <1>4, AtRequest DEF Stages
<1> HIDE DEF r
<1> QED
    BY <1>1, <1>2, <1>5, AdmissionStep DEF g

LEMMA AdmitFlushFailsStep ==
    ASSUME NsInv, NEW q \in Requests, NEW n \in Names, AdmitFlushFails(q, n)
    PROVE  NsInv'
<1>0. RegInv(Reg) /\ disk \in [Names -> SUBSET Documents]
    BY DEF NsInv, Typed
<1>1. PICK g \in FlushFailed(n) : Install(g)
    BY DEF AdmitFlushFails
<1>2. /\ Available(n) /\ req[q].pc # "done" /\ req' = [req EXCEPT ![q].pc = "failed"]
      /\ UNCHANGED <<side, disk, acked>>
    BY DEF AdmitFlushFails
<1>3. RegInv(g)
    BY <1>0, <1>2, FlushFailedKeeps
<1>4. "failed" \in Stages
    BY DEF Stages
<1> QED
    BY <1>1, <1>2, <1>3, <1>4, StageStep

\* A request is refused, or enters its store: the registry stays.
LEMMA QuietStep ==
    ASSUME NsInv, NEW q \in Requests, Refuse(q) \/ Enter(q)
    PROVE  NsInv'
<1>0. RegInv(Reg) /\ "failed" \in Stages /\ "inside" \in Stages
    BY DEF NsInv, Stages
<1>1. Install(Reg) /\ UNCHANGED <<side, disk, acked>>
    BY SameInstall DEF Refuse, Enter
<1>2. CASE Refuse(q)
    BY <1>0, <1>1, <1>2, StageStep DEF Refuse
<1>3. CASE Enter(q)
    BY <1>0, <1>1, <1>3, StageStep DEF Enter, Holding
<1> QED
    BY <1>2, <1>3

LEMMA TickStep ==
    ASSUME NamespacesAssumption, NsInv, NEW q \in Requests, NEW n \in Names, Tick(q, n)
    PROVE  NsInv'
<1> DEFINE r == At("held", n, Get(n).warm[n], 0)
<1>0. RegInv(Reg) /\ disk \in [Names -> SUBSET Documents] /\ "failed" \in Stages /\ "held" \in Stages
    BY DEF NsInv, Typed, Stages
<1>1. /\ q \in Ticks /\ req[q].pc = "new" /\ warm[n] # 0 /\ UNCHANGED <<side, disk, acked>>
      /\ \/ Install(Get(n)) /\ req' = [req EXCEPT ![q] = r]
         \/ (\E g \in FlushFailed(n) : Install(g)) /\ req' = [req EXCEPT ![q].pc = "failed"]
    BY DEF Tick
<1>2. Available(n)
    BY <1>1 DEF Available
<1>3. CASE Install(Get(n)) /\ req' = [req EXCEPT ![q] = r]
  <2>1. Get(n).warm[n] \in Nat
    BY <1>0, <1>2, GetKeeps DEF RegInv, RegShape
  <2>2. r \in Request /\ r.pc = "held" /\ r.name = n /\ r.inc = Get(n).warm[n] /\ r.must = {}
    BY <1>0, <2>1, AtRequest
  <2> HIDE DEF r
  <2> QED
    BY <1>1, <1>2, <1>3, <2>2, AdmissionStep
<1>4. CASE (\E g \in FlushFailed(n) : Install(g)) /\ req' = [req EXCEPT ![q].pc = "failed"]
  <2>1. PICK g \in FlushFailed(n) : Install(g)
    BY <1>4
  <2>2. RegInv(g)
    BY <1>0, <1>2, FlushFailedKeeps
  <2> QED
    BY <1>0, <1>1, <1>4, <2>1, <2>2, StageStep
<1> QED
    BY <1>1, <1>3, <1>4

LEMMA NsInit ==
    ASSUME NamespacesAssumption, Init
    PROVE  NsInv
<1>0. /\ warm = [n \in Names |-> 0] /\ file = [n \in Names |-> 0] /\ lru = <<>> /\ store = <<>>
      /\ stale = {} /\ stolen = {} /\ side = [n \in Names |-> NoSide] /\ acked = {}
      /\ disk \in [Names -> {{}, {Old}}]
    BY DEF Init
<1>1. Listing(lru) /\ Range(lru) = {}
    BY <1>0 DEF Listing, IsInjective, Range
<1>2. RegShape(Reg)
    BY <1>0, <1>1, RegOfFields DEF RegShape
<1>3. \A q \in Requests : req[q].pc = "new" /\ req[q] \in Request
    BY DEF Init, Request, Stages
<1>4. WarmOpen(Reg) /\ HeldOpen(Reg, req) /\ Locked(Reg, disk)
    BY <1>0, <1>3, RegOfFields DEF WarmOpen, HeldOpen, Holding, Locked
<1>5. disk \in [Names -> SUBSET Documents] /\ NoSide \in Side
    BY <1>0 DEF Documents, NoSide, Side
<1>6. req \in [Requests -> Request]
    BY <1>3 DEF Init
<1>7. Typed
    BY <1>0, <1>3, <1>5, <1>6 DEF Typed
<1>8. AckedStored /\ MustStored
    BY <1>0, <1>3 DEF AckedStored, MustStored, Holding, Requests, Clients
<1> QED
    BY <1>2, <1>4, <1>7, <1>8 DEF NsInv, RegInv

LEMMA NsStep ==
    ASSUME NamespacesAssumption, NsInv, [Next]_vars
    PROVE  NsInv'
<1>1. ASSUME NEW q \in Requests, Serve(q) PROVE NsInv'
    BY <1>1, LeadStep, QuietStep, FinishWriteStep, FinishReadStep DEF Serve
<1>2. ASSUME NEW q \in Requests, NEW n \in Names,
             AdmitRead(q, n) \/ AdmitWrite(q, n) \/ AdmitFlushFails(q, n) \/ Tick(q, n)
      PROVE  NsInv'
    BY <1>2, AdmitReadStep, AdmitWriteStep, AdmitFlushFailsStep, TickStep
<1>3. ASSUME NEW n \in Names, Expire(n) PROVE NsInv'
    BY <1>3, ExpireStep
<1>4. CASE UNCHANGED vars
  <2>1. Install(Reg) /\ UNCHANGED <<side, disk, req, acked>>
    BY <1>4, SameInstall DEF vars
  <2> QED
    BY <2>1, RegistryStep DEF NsInv
<1> QED
    BY <1>1, <1>2, <1>3, <1>4 DEF Next

LEMMA NsInvariant == Spec => []NsInv
<1>1. Init => NsInv
    BY NsInit, NamespacesAssumption
<1>2. NsInv /\ [Next]_vars => NsInv'
    BY NsStep, NamespacesAssumption
<1> QED
    BY <1>1, <1>2, PTL DEF Spec

\* One writer per namespace (Handle's comment in namespaces/mod.rs, SPEC 6.3):
\* whatever is opened, evicted, held past its eviction and opened again, in any
\* order, two stores of a namespace are never alive together unless its lock
\* file outlived lock_ttl in a holder's hands.
THEOREM OneOpeningAtATime == Spec => []OneOpening
<1>1. NsInv => OneOpening
  <2> SUFFICES ASSUME NsInv, NEW n \in Names \ stolen PROVE Cardinality(Alive(n)) <= 1
    BY DEF OneOpening
  <2>1. Locked(Reg, disk)
    BY DEF NsInv, RegInv
  <2>2. Alive(n) \subseteq {file[n]}
    BY <2>1, RegOfFields DEF Locked, Alive
  <2>3. Alive(n) = {} \/ Alive(n) = {file[n]}
    BY <2>2
  <2>4. Cardinality({}) = 0 /\ Cardinality({file[n]}) = 1
    BY FS_EmptySet, FS_Singleton
  <2> QED
    BY <2>3, <2>4
<1> QED
    BY <1>1, NsInvariant, PTL

\* Read your writes across evictions (Registry::admit_handle, Namespaces::get):
\* a write that was answered is in the store of every read admitted after it,
\* though the namespace may have been evicted and opened again in between.
THEOREM AnsweredWritesAreRead == Spec => []ReadYourWrites
<1>1. NsInv => ReadYourWrites
  <2> SUFFICES ASSUME NsInv, NEW q \in Reads, req[q].pc = "inside", req[q].name \notin stolen
               PROVE  req[q].must \subseteq store[req[q].inc].docs
    BY DEF ReadYourWrites
  <2>1. HeldOpen(Reg, req) /\ Locked(Reg, disk) /\ MustStored
    BY DEF NsInv, RegInv
  <2>2. OpenAs(Reg, req[q].inc, req[q].name)
    BY <2>1 DEF HeldOpen, Holding, Requests, Clients
  <2>3. disk[req[q].name] \subseteq store[req[q].inc].docs
    BY <2>1, <2>2, RegOfFields DEF OpenAs, Locked
  <2>4. req[q].must \subseteq disk[req[q].name]
    BY <2>1 DEF MustStored, Holding
  <2> QED
    BY <2>3, <2>4
<1> QED
    BY <1>1, NsInvariant, PTL

-----------------------------------------------------------------------------
(* How many stores the requests can ask for *)

\* The requests that were admitted once, and the writes admitted a second time.
Past == {q \in Requests : req[q].pc # "new"}
Led == {q \in Writes : req[q].pc \notin {"new", "queued"}}

\* An admission opens one store at most, and only writes wait in a queue.
FewOpened ==
  /\ Len(store) <= Cardinality(Past) + Cardinality(Led)
  /\ \A q \in Requests : req[q].pc = "queued" => q \in Writes

\* The bound on openings leaves room for all of them.
Room == IsFiniteSet(Requests) /\ MaxOpenings >= Cardinality(Requests) + Cardinality(Writes)

LEMMA AdmittedLen ==
    ASSUME RegInv(Reg), NEW n \in Names, Available(n)
    PROVE  /\ Len(Admitted(n).store) \in Nat /\ Len(store) \in Nat
           /\ Len(Admitted(n).store) <= Len(store) + 1
           /\ warm[n] # 0 => Len(Admitted(n).store) = Len(store)
<1>1. store \in Seq(Opening) /\ Len(store) \in Nat
    BY RegOfFields DEF RegInv, RegShape
<1>2. CASE warm[n] # 0
    BY <1>1, <1>2, RegOfFields DEF Admitted
<1>3. CASE warm[n] = 0
  <2> DEFINE x == [name |-> n, docs |-> disk[n], alive |-> TRUE]
  <2>1. Admitted(n).store = Append(store, x)
    BY <1>3, RegOfFields DEF Admitted, Opened, RegFields
  <2> HIDE DEF x
  <2>2. store \in Seq(Opening \cup {x})
    BY <1>1
  <2>3. Len(Append(store, x)) = Len(store) + 1
    BY <2>2, AppendProperties
  <2> QED
    BY <1>1, <1>3, <2>1, <2>3
<1> QED
    BY <1>2, <1>3

\* The requests move on, and with one of them a store may be opened.
LEMMA Growth ==
    ASSUME IsFiniteSet(Requests), Past \subseteq Past', Led \subseteq Led',
           Len(store) \in Nat, Len(store') \in Nat,
           Len(store) <= Cardinality(Past) + Cardinality(Led),
           \/ Len(store') = Len(store)
           \/ Len(store') <= Len(store) + 1 /\ (Past # Past' \/ Led # Led')
    PROVE  Len(store') <= Cardinality(Past') + Cardinality(Led')
<1>1. Past' \subseteq Requests /\ Led' \subseteq Requests
    BY DEF Past, Led, Requests, Clients
<1>2. IsFiniteSet(Past') /\ IsFiniteSet(Led')
    BY <1>1, FS_Subset
<1>3. /\ IsFiniteSet(Past) /\ Cardinality(Past) <= Cardinality(Past')
      /\ Cardinality(Past') = Cardinality(Past) => Past' = Past
    BY <1>2, FS_Subset
<1>4. /\ IsFiniteSet(Led) /\ Cardinality(Led) <= Cardinality(Led')
      /\ Cardinality(Led') = Cardinality(Led) => Led' = Led
    BY <1>2, FS_Subset
<1>5. {Cardinality(Past), Cardinality(Past'), Cardinality(Led), Cardinality(Led')} \subseteq Nat
    BY <1>2, <1>3, <1>4, FS_CardinalityType
<1> QED
    BY <1>3, <1>4, <1>5

\* A request in stage `from` gets to another one.
LEMMA Moves ==
    ASSUME Typed, NEW q \in Requests, NEW r, req' = [req EXCEPT ![q] = r], r.pc # "new",
           \A p \in Requests : req[p].pc = "queued" => p \in Writes,
           r.pc = "queued" => req[q].pc = "new" /\ q \in Writes
    PROVE  /\ Past \subseteq Past' /\ Led \subseteq Led'
           /\ \A p \in Requests : req'[p].pc = "queued" => p \in Writes
           /\ req[q].pc = "new" => Past # Past'
           /\ req[q].pc = "queued" => Led # Led'
<1>1. req'[q] = r /\ \A p \in Requests \ {q} : req'[p] = req[p]
    BY DEF Typed
<1>2. Past \subseteq Past' /\ (req[q].pc = "new" => q \in Past' /\ q \notin Past)
    BY <1>1 DEF Past
<1>3. Led \subseteq Led' /\ (req[q].pc = "queued" => q \in Led' /\ q \notin Led)
    BY <1>1 DEF Led, Requests, Clients
<1>4. \A p \in Requests : req'[p].pc = "queued" => p \in Writes
    BY <1>1
<1> QED
    BY <1>2, <1>3, <1>4

\* What a request releases does not forget an opening.
LEMMA ReleaseLen ==
    ASSUME NEW h, DOMAIN h = RegFields, h.store \in Seq(Opening), NEW q, req[q].inc \in DOMAIN h.store
    PROVE  Release(q, h).store \in Seq(Opening) /\ Len(Release(q, h).store) = Len(h.store)
<1> DEFINE o == req[q].inc
<1>1. Dropped(h, o).store = Closed(h.store, o)
    BY DroppedStore
<1>2. Closed(h.store, o) \in Seq(Opening) /\ DOMAIN Closed(h.store, o) = DOMAIN h.store
    BY ClosedOpening
<1>3. Len(Closed(h.store, o)) = Len(h.store)
    BY <1>2, LenDomain
<1> QED
    BY <1>1, <1>2, <1>3 DEF Release

\* A step that moves request q on, opening one store at most if it was waiting
\* for admission.
LEMMA MoveStep ==
    ASSUME IsFiniteSet(Requests), NsInv, NsInv', FewOpened, NEW q \in Requests, NEW r,
           req' = [req EXCEPT ![q] = r], r.pc # "new",
           r.pc = "queued" => req[q].pc = "new" /\ q \in Writes,
           \/ Len(store') = Len(store)
           \/ Len(store') <= Len(store) + 1 /\ req[q].pc \in {"new", "queued"}
    PROVE  FewOpened'
<1>1. store \in Seq(Opening) /\ store' \in Seq(Opening)
  <2>1. store \in Seq(Opening)
    BY RegOfFields DEF NsInv, RegInv, RegShape
  <2>2. RegShape(Reg)'
    BY DEF NsInv, RegInv
  <2>3. store' \in Seq(Opening)
    BY <2>2 DEF RegShape, Reg
  <2> QED
    BY <2>1, <2>3
<1>2. Len(store) \in Nat /\ Len(store') \in Nat
    BY <1>1
<1>3. /\ Past \subseteq Past' /\ Led \subseteq Led'
      /\ \A p \in Requests : req'[p].pc = "queued" => p \in Writes
      /\ req[q].pc = "new" => Past # Past'
      /\ req[q].pc = "queued" => Led # Led'
    BY Moves DEF NsInv, FewOpened
<1>4. Len(store') <= Cardinality(Past') + Cardinality(Led')
    BY <1>2, <1>3, Growth DEF FewOpened
<1> QED
    BY <1>3, <1>4 DEF FewOpened

\* A step that leaves the requests where they are.
LEMMA StayStep ==
    ASSUME FewOpened, req' = req, Len(store') = Len(store)
    PROVE  FewOpened'
BY DEF FewOpened, Past, Led

LEMMA StageMoves ==
    ASSUME IsFiniteSet(Requests), NsInv, NsInv', FewOpened, NEW q \in Requests, NEW pc \in Stages,
           req' = [req EXCEPT ![q].pc = pc], pc \notin {"new", "queued"},
           \/ Len(store') = Len(store)
           \/ Len(store') <= Len(store) + 1 /\ req[q].pc \in {"new", "queued"}
    PROVE  FewOpened'
<1> DEFINE r == [req[q] EXCEPT !.pc = pc]
<1>1. req' = [req EXCEPT ![q] = r]
    OBVIOUS
<1>2. r.pc = pc
    BY DEF NsInv, Typed, Request
<1> HIDE DEF r
<1> QED
    BY <1>1, <1>2, MoveStep

LEMMA FewServe ==
    ASSUME IsFiniteSet(Requests), NsInv, NsInv', FewOpened, NEW q \in Requests, Serve(q)
    PROVE  FewOpened'
<1>0. /\ Typed /\ RegInv(Reg) /\ RegShape(Reg) /\ HeldOpen(Reg, req) /\ store \in Seq(Opening)
      /\ disk \in [Names -> SUBSET Documents] /\ Len(store) \in Nat
      /\ {"failed", "inside", "done"} \subseteq Stages
    BY RegOfFields DEF NsInv, RegInv, RegShape, Typed, Stages
<1>1. CASE Lead(q)
  <2> DEFINE n == req[q].name
             r == At("held", n, Get(n).warm[n], req[q].com)
  <2>1. /\ req[q].pc = "queued" /\ Available(n) /\ Install(Get(n))
        /\ req' = [req EXCEPT ![q] = r]
    BY <1>1 DEF Lead
  <2>2. n \in Names
    BY <1>0, <2>1 DEF Typed
  <2>3. Len(store') <= Len(store) + 1
    BY <1>0, <2>1, <2>2, GetKeeps, AdmittedLen DEF Install
  <2>4. r.pc = "held"
    BY DEF At
  <2> HIDE DEF r
  <2> QED
    BY <2>1, <2>3, <2>4, MoveStep
<1>2. CASE Enter(q)
  <2>1. Len(store') = Len(store) /\ req' = [req EXCEPT ![q].pc = "inside"]
    BY <1>2 DEF Enter
  <2> QED
    BY <1>0, <2>1, StageMoves
<1>3. CASE Refuse(q)
  <2>1. Len(store') = Len(store) /\ req' = [req EXCEPT ![q].pc = "failed"]
    BY <1>3 DEF Refuse
  <2> QED
    BY <1>0, <2>1, StageMoves
<1>4. ASSUME req[q].pc \in {"held", "inside"} PROVE req[q].inc \in DOMAIN store
    BY <1>0, <1>4, RegOfFields DEF HeldOpen, OpenAs, Holding
<1>5. CASE FinishRead(q) \/ Renew(q)
  <2>1. /\ req[q].pc \in {"held", "inside"} /\ Install(Release(q, Reg))
        /\ req' = [req EXCEPT ![q].pc = "done"]
    BY <1>5 DEF FinishRead, Renew
  <2>2. Len(store') = Len(store)
    BY <1>0, <1>4, <2>1, ReleaseLen, RegOfFields DEF Install
  <2> QED
    BY <1>0, <2>1, <2>2, StageMoves
<1>6. CASE FinishWrite(q)
  <2> DEFINE o == req[q].inc
             x == [store[o] EXCEPT !.docs = @ \cup {q}]
             h == [Reg EXCEPT !.store[o].docs = @ \cup {q}]
  <2>1. /\ q \in Writes /\ req[q].pc = "inside" /\ Install(Release(q, h))
        /\ req' = [req EXCEPT ![q].pc = "done"]
    BY <1>6 DEF FinishWrite
  <2>2. o \in DOMAIN store /\ store[o] \in Opening
    BY <1>0, <1>4, <2>1, OpeningFields
  <2>3. x \in Opening
    BY <2>1, <2>2 DEF Opening, Documents
  <2>4. DOMAIN h = RegFields /\ h.store = [store EXCEPT ![o] = x]
    BY DEF Reg, RegFields
  <2> HIDE DEF x, h
  <2>5. h.store \in Seq(Opening) /\ DOMAIN h.store = DOMAIN store
    BY <1>0, <2>2, <2>3, <2>4, ExceptSeq
  <2>6. Len(h.store) = Len(store)
    BY <1>0, <2>5, LenDomain
  <2>7. Len(store') = Len(store)
    BY <2>1, <2>2, <2>4, <2>5, <2>6, ReleaseLen DEF Install
  <2> QED
    BY <1>0, <2>1, <2>7, StageMoves
<1> QED
    BY <1>1, <1>2, <1>3, <1>5, <1>6 DEF Serve

LEMMA FewAdmit ==
    ASSUME IsFiniteSet(Requests), NsInv, NsInv', FewOpened, NEW q \in Requests, NEW n \in Names,
           AdmitRead(q, n) \/ AdmitWrite(q, n) \/ AdmitFlushFails(q, n)
    PROVE  FewOpened'
<1>0. /\ RegInv(Reg) /\ disk \in [Names -> SUBSET Documents] /\ "failed" \in Stages
    BY DEF NsInv, Typed, Stages
<1>1. Available(n)
    BY DEF AdmitRead, AdmitWrite, AdmitFlushFails
<1>2. Install(Get(n)) => Len(store') <= Len(store) + 1
    BY <1>0, <1>1, GetKeeps, AdmittedLen DEF Install
<1>3. CASE AdmitRead(q, n)
  <2> DEFINE r == [At("held", n, Get(n).warm[n], 0) EXCEPT !.must = {w \in acked : req[w].name = n}]
  <2>1. req[q].pc = "new" /\ Install(Get(n)) /\ req' = [req EXCEPT ![q] = r]
    BY <1>3 DEF AdmitRead
  <2>2. r.pc = "held"
    BY DEF At
  <2> HIDE DEF r
  <2> QED
    BY <1>2, <2>1, <2>2, MoveStep
<1>4. CASE AdmitWrite(q, n)
  <2> DEFINE r == At("queued", n, 0, Reconciled(Get(n), n)[n].com)
  <2>1. q \in Writes /\ req[q].pc = "new" /\ Install(Get(n)) /\ req' = [req EXCEPT ![q] = r]
    BY <1>4 DEF AdmitWrite
  <2>2. r.pc = "queued"
    BY DEF At
  <2> HIDE DEF r
  <2> QED
    BY <1>2, <2>1, <2>2, MoveStep
<1>5. CASE AdmitFlushFails(q, n)
  <2>1. PICK g \in FlushFailed(n) : Install(g)
    BY <1>5 DEF AdmitFlushFails
  <2>2. req[q].pc \in {"new", "queued"} /\ req' = [req EXCEPT ![q].pc = "failed"]
    BY <1>5 DEF AdmitFlushFails
  <2>3. Len(store') <= Len(store) + 1
    BY <1>0, <1>1, <2>1, FlushFailedKeeps, AdmittedLen DEF Install
  <2> QED
    BY <1>0, <2>2, <2>3, StageMoves
<1> QED
    BY <1>3, <1>4, <1>5

LEMMA FewStep ==
    ASSUME IsFiniteSet(Requests), NsInv, NsInv', FewOpened, [Next]_vars
    PROVE  FewOpened'
<1>0. RegInv(Reg) /\ disk \in [Names -> SUBSET Documents]
    BY DEF NsInv, Typed
<1>1. ASSUME NEW q \in Requests, Serve(q) PROVE FewOpened'
    BY <1>1, FewServe
<1>2. ASSUME NEW q \in Requests, NEW n \in Names,
             AdmitRead(q, n) \/ AdmitWrite(q, n) \/ AdmitFlushFails(q, n)
      PROVE  FewOpened'
    BY <1>2, FewAdmit
<1>3. ASSUME NEW q \in Requests, NEW n \in Names, Tick(q, n) PROVE FewOpened'
  <2> DEFINE r == At("held", n, Get(n).warm[n], 0)
  <2>1. /\ warm[n] # 0 /\ req[q].pc = "new"
        /\ req' = [req EXCEPT ![q] = r] \/ req' = [req EXCEPT ![q].pc = "failed"]
    BY <1>3 DEF Tick
  <2>2. PICK g \in {Get(n)} \cup FlushFailed(n) : Install(g)
    BY <1>3 DEF Tick
  <2>3. Available(n)
    BY <2>1 DEF Available
  <2>4. Len(g.store) = Len(store)
    BY <1>0, <2>1, <2>3, GetKeeps, FlushFailedKeeps, AdmittedLen
  <2>5. Len(store') = Len(store)
    BY <2>2, <2>4 DEF Install
  <2>6. r.pc = "held" /\ "failed" \in Stages
    BY DEF At, Stages
  <2> HIDE DEF r
  <2>7. CASE req' = [req EXCEPT ![q] = r]
    BY <2>5, <2>6, <2>7, MoveStep
  <2>8. CASE req' = [req EXCEPT ![q].pc = "failed"]
    BY <2>5, <2>6, <2>8, StageMoves
  <2> QED
    BY <2>1, <2>7, <2>8
<1>4. ASSUME NEW n \in Names, Expire(n) PROVE FewOpened'
    BY <1>4, StayStep DEF Expire
<1>5. CASE UNCHANGED vars
    BY <1>5, StayStep DEF vars
<1> QED
    BY <1>1, <1>2, <1>3, <1>4, <1>5 DEF Next

\* Nobody waits for everybody (Registry::admit, Registry::write, the store's
\* RwLock and Inner::leader): while a request is under way some request can
\* take its next step.  Whoever is inside a store finishes without the mutex;
\* when none is, a holder enters; when none holds, every leader's place is free
\* and no eviction has to wait.  The code opens without end; here the bound has
\* to leave room for one opening per request and a second one per write, which
\* is all that any schedule of evictions makes them ask for.
THEOREM NobodyWaitsForAll == Room /\ Spec => []NobodyStuck
<1>1. Room /\ NsInv /\ FewOpened => NobodyStuck
  <2> SUFFICES ASSUME Room, NsInv, FewOpened,
                      NEW q \in Requests, req[q].pc \in {"queued", "held", "inside"}
               PROVE  \E p \in Requests : CanMove(p)
    BY DEF NobodyStuck
  <2>1. CASE \E p \in Requests : req[p].pc = "inside"
    BY <2>1 DEF CanMove
  <2>2. ASSUME \A p \in Requests : req[p].pc # "inside"
        PROVE  \E p \in Requests : CanMove(p)
    <3>1. \A o : Inside(o) = {} /\ ~Writing(o)
      BY <2>2 DEF Inside, Writing, Holders
    <3>2. CASE \E p \in Requests : req[p].pc = "held"
      BY <3>1, <3>2 DEF CanMove
    <3>3. ASSUME \A p \in Requests : req[p].pc # "held" PROVE CanMove(q)
      <4> DEFINE n == req[q].name
      <4>1. req[q].pc = "queued" /\ Leading(req[q].com) = {}
        BY <2>2, <3>3 DEF Leading, Requests, Clients
      <4>2. Ready(Get(n), n)
        BY <3>1 DEF Ready, Flushable
      <4>3. Len(store) < MaxOpenings
        <5>1. q \in Writes /\ q \notin Led /\ Led \subseteq Writes \ {q} /\ Past \subseteq Requests
          BY <4>1 DEF FewOpened, Led, Past
        <5>2. IsFiniteSet(Writes) /\ Cardinality(Past) <= Cardinality(Requests) /\ IsFiniteSet(Past)
          BY <5>1, FS_Subset DEF Requests, Clients, Room
        <5>3. /\ IsFiniteSet(Writes \ {q}) /\ Cardinality(Writes \ {q}) = Cardinality(Writes) - 1
          BY <5>1, <5>2, FS_RemoveElement
        <5>4. IsFiniteSet(Led) /\ Cardinality(Led) <= Cardinality(Writes \ {q})
          BY <5>1, <5>3, FS_Subset
        <5>5. {Cardinality(Past), Cardinality(Led), Cardinality(Requests), Cardinality(Writes)} \subseteq Nat
          BY <5>2, <5>4, FS_CardinalityType DEF Room
        <5>6. Len(store) \in Nat /\ MaxOpenings \in Nat
          BY RegOfFields, NamespacesAssumption DEF NsInv, RegInv, RegShape
        <5>7. Len(store) <= Cardinality(Past) + Cardinality(Led)
          BY DEF FewOpened
        <5> QED
          BY <5>2, <5>3, <5>4, <5>5, <5>6, <5>7 DEF Room
      <4>4. (warm[n] = 0 /\ ~CanOpen(n)) \/ Available(n)
        BY <4>3 DEF Available
      <4> QED
        BY <4>1, <4>2, <4>4 DEF CanMove
    <3> QED
      BY <3>2, <3>3
  <2> QED
    BY <2>1, <2>2
<1>2. Init => FewOpened
  <2> SUFFICES ASSUME Init PROVE FewOpened
    OBVIOUS
  <2>1. Past = {} /\ Led = {} /\ store = <<>> /\ \A q \in Requests : req[q].pc # "queued"
    BY DEF Init, Past, Led, Requests, Clients
  <2> QED
    BY <2>1, FS_EmptySet DEF FewOpened
<1>3. Room /\ NsInv /\ NsInv' /\ FewOpened /\ [Next]_vars => FewOpened' /\ Room'
    BY FewStep DEF Room, Requests, Clients
<1> QED
    BY <1>1, <1>2, <1>3, NsInvariant, PTL DEF Spec

=============================================================================
