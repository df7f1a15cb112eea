----------------------------- MODULE Namespaces -----------------------------
(***************************************************************************)
(* Many stores behind one warm set (src/server/registry.rs,                *)
(* src/namespaces/mod.rs, src/namespaces/warm.rs): a request admits its    *)
(* namespace under the registry's mutex, which opens it when cold and      *)
(* evicts least-recently-used others past the byte budget, and then uses   *)
(* the store through a shared handle the mutex no longer protects.         *)
(*                                                                         *)
(* A store is known by its opening: two openings of one namespace are two  *)
(* values of Nidus over the same files, and the lock file (src/lock/mod.rs)*)
(* is what keeps them apart.  A write is the request that made it, and it  *)
(* costs one byte.  Waiting for a store inside the mutex is a disabled     *)
(* action: whoever is inside a store never asks for the mutex there.       *)
(***************************************************************************)
EXTENDS Naturals, Sequences, FiniteSets, SequencesExt

CONSTANTS
    Names,       \* namespaces
    Reads,       \* read requests
    Writes,      \* write requests
    Ticks,       \* lease-renewal ticks that find their namespace warm
    Budget,      \* Namespaces::budget, in writes
    MaxOpenings, \* bound: stores opened in a behaviour
    Expiring,    \* namespaces whose lock file may outlive Config::lock_ttl
    FlushFails   \* whether the flush of an eviction may fail

ASSUME NamespacesAssumption ==
    /\ {Budget, MaxOpenings} \subseteq Nat
    /\ Expiring \subseteq Names /\ FlushFails \in BOOLEAN
    /\ Reads \cap Writes = {} /\ Ticks \cap (Reads \cup Writes) = {}

VARIABLES
    warm,    \* WarmSet::entries: the opening each warm namespace holds, 0 when cold
    size,    \* Entry::size, as last measured
    lru,     \* warm names by access stamp, least recent first
    side,    \* Inner::side: per namespace its committer and whose readiness it reports
    store,   \* every opening so far: its namespace, its documents, whether it is alive
    file,    \* per namespace the opening that made `lock`, 0 when there is no file
    stale,   \* namespaces whose lock file is older than lock_ttl
    stolen,  \* namespaces opened by reclaiming the file of a store still held
    disk,    \* per namespace the writes its files hold
    req,     \* per request or tick where it is and what it holds
    acked    \* writes answered successfully

vars == <<warm, size, lru, side, store, file, stale, stolen, disk, req, acked>>

Clients == Reads \cup Writes
Requests == Clients \cup Ticks
NoSide == [com |-> 0, ready |-> 0]

\* A document of an earlier run.
Old == "old"

Warm == {n \in Names : warm[n] # 0}

\* The requests that hold a handle of opening o, and the ones inside it.
Holders(o) == {q \in Requests : req[q].pc \in {"held", "inside"} /\ req[q].inc = o}
Inside(o) == {q \in Holders(o) : req[q].pc = "inside"}
Writing(o) == Inside(o) \cap Writes # {}

-----------------------------------------------------------------------------
(* Namespaces::get *)

\* The registry as one call of get leaves it; ok is its result.
Reg == [warm |-> warm, size |-> size, lru |-> lru, store |-> store, file |-> file,
        stale |-> stale, stolen |-> stolen, evicted |-> {}, ok |-> TRUE]

\* The warm names without n: a name is warm once.
Without(s, n) ==
    IF n \in Range(s) THEN RemoveAt(s, CHOOSE i \in DOMAIN s : s[i] = n) ELSE s

\* Mutant: the lock file does not keep a second opening out.
CanOpenAlways(n) == TRUE

\* Nidus::open takes the lock file: free, or held past its lifetime and
\* reclaimed; a fresh one refuses the open.
CanOpen(n) == file[n] = 0 \/ n \in stale

\* WarmSet::admit of a store just opened: its documents are the files'.
Opened(g, n) ==
    LET o == Len(g.store) + 1 IN
    [g EXCEPT !.store = Append(@, [name |-> n, docs |-> disk[n], alive |-> TRUE]),
              !.warm[n] = o, !.size[n] = Cardinality(disk[n]),
              !.lru = Append(@, n), !.file[n] = o, !.stale = @ \ {n},
              !.stolen = IF n \in stale THEN @ \cup {n} ELSE @]

\* The last handle is gone: the store drops and its WriteLock removes the
\* file at its path, whoever made it.
Dropped(g, o) ==
    [g EXCEPT !.store[o].alive = FALSE, !.file[g.store[o].name] = 0,
              !.stale = @ \ {g.store[o].name}]

\* Mutant: an evicted store gives up its lock file at once.
EvictedUnlocked(g, n) ==
    LET o == g.warm[n] IN
    [g EXCEPT !.warm[n] = 0, !.size[n] = 0, !.evicted = @ \cup {o}, !.file[n] = 0,
              !.lru = Without(@, n),
              !.store[o].alive = Holders(o) # {}]

\* WarmSet::remove: out of the set first, then flushed under the store's lock.
Evicted(g, n) ==
    LET o == g.warm[n]
        out == [g EXCEPT !.warm[n] = 0, !.size[n] = 0, !.evicted = @ \cup {o},
                         !.lru = Without(@, n)] IN
    IF Holders(o) = {} THEN Dropped(out, o) ELSE out

Total(g) == FoldFunctionOnSet(+, 0, g.size, Names)

\* Every warm store that nobody writes to is measured again.
Measured(g) ==
    [g EXCEPT !.size = [n \in Names |->
        IF g.warm[n] # 0 /\ ~Writing(g.warm[n]) THEN Cardinality(g.store[g.warm[n]].docs) ELSE @[n]]]

\* The registry after the first k of the victims are evicted, in their order.
EvictedInOrder(g, victims) ==
    LET after[k \in 0 .. Len(victims)] == IF k = 0 THEN g ELSE Evicted(after[k - 1], victims[k])
    IN  after

\* enforce: the registry before and after each eviction of the least recently
\* used entry other than keep, until the budget is met or none is left.
Evictions(g, keep) ==
    LET m == Measured(g)
        victims == Without(m.lru, keep)
        after == EvictedInOrder(m, victims)
        fits == {k \in 0 .. Len(victims) : Total(after[k]) <= Budget}
        last == IF fits = {} THEN Len(victims) ELSE CHOOSE k \in fits : \A j \in fits : k <= j IN
    [k \in 1 .. last + 1 |-> after[k - 1]]

\* handle: the entry's stamp becomes the latest.
Touched(g, n) == [g EXCEPT !.lru = Append(Without(@, n), n)]

Admitted(n) == IF warm[n] = 0 THEN Opened(Reg, n) ELSE Reg

Get(n) == Touched(Last(Evictions(Admitted(n), n)), n)

\* What get leaves when the flush of one of its evictions fails: the victim is
\* out of the set and released, the victims after it stay, and the caller is
\* not touched.
FlushFailed(n) == Range(Tail(Evictions(Admitted(n), n)))

\* There is a store to open or one to share.
Available(n) == warm[n] # 0 \/ (CanOpen(n) /\ Len(store) < MaxOpenings)

\* No store the call has to flush is in use.
Flushable(g) == \A o \in g.evicted : Inside(o) = {}

\* Nor is the one it reads: the call can run to its end.
Ready(g, n) ==
    /\ Flushable(g)
    /\ warm[n] # 0 => ~Writing(warm[n])

Install(g) ==
    /\ warm' = g.warm /\ size' = g.size /\ lru' = g.lru
    /\ store' = g.store /\ file' = g.file /\ stale' = g.stale /\ stolen' = g.stolen

-----------------------------------------------------------------------------
(* Registry *)

\* retain and ensure_side: entries of namespaces that went cold are dropped,
\* and n gets a committer and the readiness of its store unless it has them.
\* A committer is known by the opening it was made for.
Reconciled(g, n) ==
    [m \in Names |->
        IF g.warm[m] = 0 THEN NoSide
        ELSE IF m = n /\ side[m] = NoSide THEN [com |-> g.warm[m], ready |-> g.warm[m]]
        ELSE side[m]]

At(pc, n, inc, com) == [pc |-> pc, name |-> n, inc |-> inc, com |-> com, must |-> {}]

\* admit_handle, for a read: the handle comes out of the mutex.
AdmitRead(q, n) ==
    /\ q \in Reads /\ req[q].pc = "new" /\ Available(n)
    /\ \E g \in {Get(n)} :
       /\ Ready(g, n) /\ Install(g)
       /\ side' = Reconciled(g, n)
       /\ req' = [req EXCEPT ![q] = [At("held", n, g.warm[n], 0) EXCEPT
                                        !.must = {w \in acked : req[w].name = n}]]
    /\ UNCHANGED <<disk, acked>>

\* admit, for a write: only the committer comes out, the handle is dropped.
AdmitWrite(q, n) ==
    /\ q \in Writes /\ req[q].pc = "new" /\ Available(n)
    /\ \E g \in {Get(n)} :
       /\ Ready(g, n) /\ Install(g)
       /\ side' = Reconciled(g, n)
       /\ req' = [req EXCEPT ![q] = At("queued", n, 0, Reconciled(g, n)[n].com)]
    /\ UNCHANGED <<disk, acked>>

\* Mutant: a write that waits in the queue counts as leading it.
LeadingFromQueue(c) == {q \in Writes : req[q].com = c /\ req[q].pc \in {"queued", "held", "inside"}}

\* Inner::leader: one group of a committer at a time.
Leading(c) == {q \in Writes : req[q].com = c /\ req[q].pc \in {"held", "inside"}}

\* Registry::write under the leader of the request's committer: the namespace
\* is admitted again, and may be another opening by now.
Lead(q) ==
    /\ req[q].pc = "queued" /\ Leading(req[q].com) = {} /\ Available(req[q].name)
    /\ \E n \in {req[q].name} : \E g \in {Get(n)} :
       /\ Ready(g, n) /\ Install(g)
       /\ side' = Reconciled(g, n)
       /\ req' = [req EXCEPT ![q] = At("held", n, g.warm[n], @.com)]
    /\ UNCHANGED <<disk, acked>>

\* Nidus::open refuses: "store is locked by another writer".
Refuse(q) ==
    /\ q \in Clients
    /\ \/ \E n \in Names : req[q].pc = "new" /\ warm[n] = 0 /\ ~CanOpen(n)
       \/ req[q].pc = "queued" /\ warm[req[q].name] = 0 /\ ~CanOpen(req[q].name)
    /\ req' = [req EXCEPT ![q].pc = "failed"]
    /\ UNCHANGED <<warm, size, lru, side, store, file, stale, stolen, disk, acked>>

\* An admission, of a new request or of a leader, whose eviction could not
\* flush: the error returns before the side-tables are reconciled.
AdmitFlushFails(q, n) ==
    /\ q \in Clients /\ FlushFails /\ Available(n)
    /\ \/ req[q].pc = "new"
       \/ req[q].pc = "queued" /\ req[q].name = n /\ Leading(req[q].com) = {}
    /\ \E g \in FlushFailed(n) : Flushable(g) /\ Install(g)
    /\ req' = [req EXCEPT ![q].pc = "failed"]
    /\ UNCHANGED <<side, disk, acked>>

\* The store's RwLock.
Enter(q) ==
    /\ q \in Clients /\ req[q].pc = "held"
    /\ ~Writing(req[q].inc) /\ (q \in Writes => Inside(req[q].inc) = {})
    /\ req' = [req EXCEPT ![q].pc = "inside"]
    /\ UNCHANGED <<warm, size, lru, side, store, file, stale, stolen, disk, acked>>

\* The request leaves the store, and with the last handle of an evicted store
\* the store itself goes.
Release(q, g) ==
    LET o == req[q].inc IN
    IF o \notin {warm[n] : n \in Names} /\ Holders(o) = {q} THEN Dropped(g, o) ELSE g

\* A group of one: applied, made durable, answered.
FinishWrite(q) ==
    /\ q \in Writes /\ req[q].pc = "inside"
    /\ \E g \in {Release(q, [Reg EXCEPT !.store[req[q].inc].docs = @ \cup {q}])} : Install(g)
    /\ disk' = [disk EXCEPT ![req[q].name] = @ \cup {q}]
    /\ acked' = acked \cup {q}
    /\ req' = [req EXCEPT ![q].pc = "done"]
    /\ UNCHANGED side

FinishRead(q) ==
    /\ q \in Reads /\ req[q].pc = "inside"
    /\ \E g \in {Release(q, Reg)} : Install(g)
    /\ req' = [req EXCEPT ![q].pc = "done"]
    /\ UNCHANGED <<side, disk, acked>>

\* spawn_namespace_lease_renewal: a tick that finds its namespace warm goes
\* through Namespaces::get like a request and reconciles nothing; the handle
\* outlives the mutex.
Tick(q, n) ==
    /\ q \in Ticks /\ req[q].pc = "new" /\ side[n] # NoSide /\ warm[n] # 0
    /\ \/ \E g \in {Get(n)} :
            /\ Ready(g, n) /\ Install(g)
            /\ req' = [req EXCEPT ![q] = At("held", n, g.warm[n], 0)]
       \/ /\ FlushFails /\ \E g \in FlushFailed(n) : Flushable(g) /\ Install(g)
          /\ req' = [req EXCEPT ![q].pc = "failed"]
    /\ UNCHANGED <<side, disk, acked>>

\* The tick takes the renewer out of the store, renews, and lets its handle go.
Renew(q) ==
    /\ q \in Ticks /\ req[q].pc = "held" /\ ~Writing(req[q].inc)
    /\ \E g \in {Release(q, Reg)} : Install(g)
    /\ req' = [req EXCEPT ![q].pc = "done"]
    /\ UNCHANGED <<side, disk, acked>>

\* The lock file of a local store is never touched again by its holder.
Expire(n) ==
    /\ n \in Expiring \ stale /\ file[n] # 0
    /\ stale' = stale \cup {n}
    /\ UNCHANGED <<warm, size, lru, side, store, file, stolen, disk, req, acked>>

Init ==
    /\ warm = [n \in Names |-> 0] /\ size = [n \in Names |-> 0] /\ lru = <<>>
    /\ side = [n \in Names |-> NoSide]
    /\ store = <<>> /\ file = [n \in Names |-> 0] /\ stale = {} /\ stolen = {}
    /\ disk \in [Names -> {{}, {Old}}]
    /\ req = [q \in Requests |-> [pc |-> "new", name |-> "none", inc |-> 0, com |-> 0, must |-> {}]]
    /\ acked = {}

Serve(q) == Lead(q) \/ Enter(q) \/ FinishWrite(q) \/ FinishRead(q) \/ Renew(q) \/ Refuse(q)

Next ==
    \/ \E q \in Requests : Serve(q)
    \/ \E q \in Requests, n \in Names : AdmitRead(q, n) \/ AdmitWrite(q, n) \/ AdmitFlushFails(q, n) \/ Tick(q, n)
    \/ \E n \in Names : Expire(n)

Spec == Init /\ [][Next]_vars

-----------------------------------------------------------------------------
(* Properties *)

\* The shape of the warm set, of the side-tables and of the requests.
TypeOK ==
    /\ warm \in [Names -> 0 .. Len(store)] /\ file \in [Names -> 0 .. Len(store)]
    /\ Range(lru) = Warm /\ Len(lru) = Cardinality(Warm)
    /\ \A n \in Names : warm[n] # 0 => store[warm[n]].name = n
    /\ \A q \in Requests : req[q].pc \in {"new", "queued", "held", "inside", "done", "failed"}

Alive(n) == {o \in DOMAIN store : store[o].alive /\ store[o].name = n}

\* One writer per namespace: an evicted store that a request still holds keeps
\* its lock file, so the namespace is not opened a second time until the last
\* handle is gone (Handle's comment); only a lock file that outlived lock_ttl
\* in a holder's hands lets a second one in.
OneOpening == \A n \in Names \ stolen : Cardinality(Alive(n)) <= 1

\* A write that was answered is seen by every read admitted after it, across
\* evictions and re-openings of the namespace in between, as long as its lock
\* file was not reclaimed under a holder.
ReadYourWrites ==
    \A q \in Reads : req[q].pc = "inside" /\ req[q].name \notin stolen => req[q].must \subseteq store[req[q].inc].docs

CanMove(q) ==
    \/ req[q].pc = "inside"
    \/ req[q].pc = "held" /\ ~Writing(req[q].inc) /\ (q \in Writes => Inside(req[q].inc) = {})
    \/ /\ req[q].pc = "queued" /\ Leading(req[q].com) = {}
       /\ \/ warm[req[q].name] = 0 /\ ~CanOpen(req[q].name)
          \/ Available(req[q].name) /\ Ready(Get(req[q].name), req[q].name)

\* Nobody waits for everybody: while a request is under way some request can
\* take its next step, though admissions wait inside the mutex for stores they
\* have to flush, writes for the leader of a committer whose namespace may
\* have gone cold, and stores for the last handle of an earlier opening.
NobodyStuck ==
    (\E q \in Requests : req[q].pc \in {"queued", "held", "inside"}) => \E q \in Requests : CanMove(q)

\* The side-tables track the warm set exactly (registry.rs, module comment):
\* a warm namespace's readiness is that of the store it has open.
SideIsCurrent == \A n \in Warm : side[n] # NoSide => side[n].ready = warm[n]

\* The writer lock excludes a second writer (SPEC 6.3), whatever the age of
\* the file.
OneWriter == \A n \in Names : Cardinality(Alive(n)) <= 1

=============================================================================
