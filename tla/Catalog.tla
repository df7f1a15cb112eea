------------------------------- MODULE Catalog -------------------------------
(***************************************************************************)
(* The catalog of one store: collections, aliases and the declared filter  *)
(* index (src/store/write.rs, src/findex, src/filter/narrow.rs), over the  *)
(* three places that keep it: the op log (collections, docs, declarations),*)
(* the manifest (aliases) and the `findex` cache (the built index).        *)
(*                                                                         *)
(* A document is the text of its indexed field, one string or none, known  *)
(* by its tokens in order and by its trigrams.  What the fuzzy and regular *)
(* expression evaluators accept is part of a predicate, under the bound the*)
(* index relies on.  Every log record has length one, so an offset is a    *)
(* number of records and two logs may end at the same offset with other    *)
(* records in them.  A call is one step: each writes one object, and what  *)
(* happens between the writes of compact is module Store's.                *)
(***************************************************************************)
EXTENDS Integers, SequencesExt, FiniteSets, Functions, TLC

CONSTANTS
    Names,          \* what collections and aliases are called
    Ids,            \* document ids, a set of integers (ids are sorted)
    Texts,          \* the texts of documents; "" is a document without the field
    Words,          \* text -> its tokens, a sequence
    Grams,          \* text -> its trigrams, a set
    Filters,        \* the filters asked of the narrowing
    Environments,   \* the calls and faults a behaviour may have, its names and
                    \* ids and texts, and the bound of its calls
    MaxCrashes      \* bound: kills in a behaviour

VARIABLES
    log,            \* the op log, whole and synced
    published,      \* the aliases of the manifest
    cache,          \* the `findex` object
    up,             \* a writer has the store open
    collections,    \* name -> docs (id -> text)
    aliases,        \* name -> target
    schema,         \* Findex::schema, name -> what it indexes
    fields,         \* Findex::fields, name -> its FieldIndex
    dirty,          \* Store::findex_dirty
    env,            \* the calls, faults and names of this behaviour
    calls, crashes,
    outlived        \* history: the collections whose index was adopted from a
                    \* cache that a compaction of the log has outlived

disk == <<log, published, cache>>
index == <<schema, fields, dirty>>
ram == <<up, collections, aliases, index>>
vars == <<disk, ram, env, calls, crashes, outlived>>

Empty == <<>>
Put(f, k, v) == (k :> v) @@ f
Without(f, k) == Restrict(f, DOMAIN f \ {k})

-----------------------------------------------------------------------------
(* FieldIndex: docnum -> owner and what it indexed; a tombstone owns nothing *)

TOMBSTONE == 0

tombstone(idx, id) == [n \in DOMAIN idx |-> IF idx[n].id = id THEN [idx[n] EXCEPT !.id = TOMBSTONE] ELSE idx[n]]

\* index: tombstones the previous docnum and leaves its postings dangling.
reindex(idx, id, text) == Append(tombstone(idx, id), [id |-> id, text |-> text])

\* Findex::index_doc, for a collection that declares an index.
index_doc(f, c, id, text) == IF c \in DOMAIN f THEN [f EXCEPT ![c] = reindex(@, id, text)] ELSE f

\* Findex::remove_doc.
remove_doc(f, c, id) == IF c \in DOMAIN f THEN [f EXCEPT ![c] = tombstone(@, id)] ELSE f

\* The docs of a collection, indexed from nothing in the order of their ids.
Built(docs) ==
    FoldLeft(LAMBDA idx, id : reindex(idx, id, docs[id]), <<>>, SetToSortSeq(DOMAIN docs, <))

\* rebuild_findex: every declared collection that exists.
Rebuilt(s, cols) ==
    [c \in DOMAIN s |-> IF c \in DOMAIN cols THEN Built(cols[c]) ELSE <<>>]

-----------------------------------------------------------------------------
(* Narrowing *)

\* What a declaration indexes: tokens, trigrams or, by default, both.
Structures == {"tokens", "trigrams", "both"}

\* A predicate: one of tokens, with its query's tokens q; Fuzzy or Regex, with
\* the texts its evaluator accepts, the trigrams q of the needle or of the
\* literals the pattern requires, and the edits allowed; or one no index serves.
\* A filter is one predicate or a group of them.
Kinds == {"all", "sequence", "any", "fuzzy", "regex", "other"}
Wanted(p) == Range(p.q)

\* One edit destroys at most three windows of the needle, and a match of a
\* pattern contains its literals whole.
Lost(p) == 3 * p.edits

ASSUME CatalogAssumption ==
    /\ Ids \subseteq Nat \ {0} /\ IsFiniteSet(Ids)
    /\ \A f \in Filters : f.kind \in {"All", "Any"} /\ \A p \in f.q :
        /\ p.kind \in Kinds /\ p.edits \in Nat /\ p.accepts \subseteq Texts \ {""}
        /\ p.kind = "regex" => p.edits = 0
        /\ p.kind \in {"fuzzy", "regex"} =>
            \A text \in p.accepts : Cardinality(Wanted(p) \ Grams[text]) <= Lost(p)
    /\ \A e \in Environments : e.names \subseteq Names /\ e.ids \subseteq Ids /\ e.texts \subseteq Texts /\ e.limit \in Nat
    /\ MaxCrashes \in Nat

\* starts_with_tokens from some token of the text.
HasRun(words, q) ==
    \E i \in 0..Len(words) : i + Len(q) <= Len(words) /\ \A k \in DOMAIN q : words[i + k] = q[k]

\* The evaluator on one leaf: none matches without the field.
matches_leaf(p, text) ==
    CASE text = "" -> FALSE
      [] p.kind = "all" -> Wanted(p) \subseteq Range(Words[text])
      [] p.kind = "sequence" -> HasRun(Words[text], p.q)
      [] p.kind = "any" -> Wanted(p) \cap Range(Words[text]) # {}
      [] OTHER -> text \in p.accepts

matches_pred(p, text) == matches_leaf(p, text) # p.not

\* filter::matches: the whole evaluator decides, whatever the index proposed.
matches(f, text) ==
    IF f.kind = "Any" THEN \E p \in f.q : matches_pred(p, text) ELSE \A p \in f.q : matches_pred(p, text)

\* None: every document is to be considered.
Everything == [all |-> TRUE, ids |-> {}]
Some(ids) == [all |-> FALSE, ids |-> ids]

\* A declaration's cfg_tokens and cfg_trigrams.
cfg(kind) == [tokens |-> kind # "trigrams", trigrams |-> kind # "tokens"]

\* The structure that serves a predicate, if any.
Structure(p) ==
    CASE p.kind \in {"all", "sequence", "any"} -> "tokens"
      [] p.kind \in {"fuzzy", "regex"} -> "trigrams"
      [] OTHER -> "none"
Serves(kind, p) == Structure(p) # "none" /\ cfg(kind)[Structure(p)]

\* What a text is posted under in the structure that serves p.
Terms(kind, p, text) ==
    CASE ~Serves(kind, p) -> {}
      [] Structure(p) = "tokens" -> Range(Words[text])
      [] OTHER -> Grams[text]

\* The docnums in the posting list of t, tombstoned ones included.
postings(kind, idx, p, t) == {n \in DOMAIN idx : t \in Terms(kind, p, idx[n].text)}

\* The terms a docnum must share with p: one, all, or fuzzy_threshold's.
threshold(p) ==
    CASE p.kind = "any" -> 1
      [] p.kind = "fuzzy" -> Cardinality(Wanted(p)) - Lost(p)
      [] OTHER -> Cardinality(Wanted(p))

\* intersect, union and at_least: a docnum in no list is in no result.
Sharing(kind, idx, p) ==
    {n \in DOMAIN idx :
        \E shared \in {Wanted(p) \cap Terms(kind, p, idx[n].text)} :
            shared # {} /\ Cardinality(shared) >= threshold(p)}

\* The bound on the posting lists, before any of them is walked; fuzzy has none.
TooLong(kind, idx, p, limit) ==
    LET long == {t \in Wanted(p) : Cardinality(postings(kind, idx, p, t)) > limit}
    IN  CASE p.kind = "any" -> long # {}
          [] p.kind = "fuzzy" -> FALSE
          [] OTHER -> long = Wanted(p)

\* Findex::candidates and candidate_ids for one leaf, under the budget.  A query
\* without terms and a vacuous threshold exclude nothing.
candidates(kind, idx, p, limit) ==
    IF \/ ~Serves(kind, p)
       \/ threshold(p) <= 0
       \/ TooLong(kind, idx, p, limit)
       \/ Cardinality(Sharing(kind, idx, p)) > limit
    THEN Everything
    ELSE Some({idx[n].id : n \in Sharing(kind, idx, p)} \ {TOMBSTONE})

\* narrow::one on a leaf or its negation: a negation never narrows.
one(kind, idx, p, limit) == IF p.not THEN Everything ELSE candidates(kind, idx, p, limit)

\* AND: the children that narrow, intersected.
conjunction(S) ==
    LET here == {s \in S : ~s.all}
    IN  IF here = {} THEN Everything
        ELSE Some({id \in UNION {s.ids : s \in here} : \A s \in here : id \in s.ids})

\* OR: every child must narrow, or the whole does not.
disjunction(S) ==
    IF \E s \in S : s.all THEN Everything ELSE Some(UNION {s.ids : s \in S})

\* live_count: the docnums that own a document.
live_count(idx) == Cardinality({n \in DOMAIN idx : idx[n].id # TOMBSTONE})

\* narrow::candidate_ids of a declared collection: half of the live docs is the
\* budget.
candidate_ids(c, f) ==
    LET limit == live_count(fields[c]) \div 2
        below == {one(schema[c], fields[c], p, limit) : p \in f.q}
        set == IF f.kind = "Any" THEN disjunction(below) ELSE conjunction(below)
    IN  IF Cardinality(set.ids) > limit THEN Everything ELSE set

-----------------------------------------------------------------------------
(* The log *)

Rec(kind, c, id, text) == [kind |-> kind, c |-> c, id |-> id, text |-> text]
Create(c) == Rec("create", c, 0, "")
Declare(c, s) == Rec(s, c, 0, "")

\* or_insert_with(Collection::new)
Made(cols, c) == IF c \in DOMAIN cols THEN cols ELSE Put(cols, c, Empty)

\* Findex::set_schema: no fields is no declaration.
Declared(s, c, kind) == IF kind = "undeclare" THEN Without(s, c) ELSE Put(s, c, kind)

\* replay_ops, one record.  A drop takes the collection, not its declaration.
replay(acc, r) ==
    CASE r.kind = "create" -> [acc EXCEPT !.cols = Made(@, r.c)]
      [] r.kind = "drop" -> [acc EXCEPT !.cols = Without(@, r.c)]
      [] r.kind = "upsert" -> [acc EXCEPT !.cols = Put(@, r.c, Put(Made(@, r.c)[r.c], r.id, r.text))]
      [] r.kind = "delete" ->
            IF r.c \in DOMAIN acc.cols
            THEN [acc EXCEPT !.cols = Put(@, r.c, Without(@[r.c], r.id))]
            ELSE acc
      [] OTHER -> [cols |-> Made(acc.cols, r.c), schema |-> Declared(acc.schema, r.c, r.kind)]

replay_ops(l) == FoldLeft(replay, [cols |-> Empty, schema |-> Empty], l)

\* Mutant: a collection is written back by its documents alone.
EmittedDocs(c) ==
    LET docs == collections[c]
    IN  (IF c \in DOMAIN schema THEN <<Declare(c, schema[c])>> ELSE <<>>)
        \o FoldLeft(LAMBDA l, id : Append(l, Rec("upsert", c, id, docs[id])), <<>>,
                    SetToSortSeq(DOMAIN docs, <))

\* What compact writes back for collection c.
Emitted(c) ==
    LET docs == collections[c]
    IN  <<Create(c)>>
        \o (IF c \in DOMAIN schema THEN <<Declare(c, schema[c])>> ELSE <<>>)
        \o FoldLeft(LAMBDA l, id : Append(l, Rec("upsert", c, id, docs[id])), <<>>,
                    SetToSortSeq(DOMAIN docs, <))

-----------------------------------------------------------------------------
(* Calls *)

Call(name) ==
    /\ up /\ name \in env.calls /\ calls < env.limit
    /\ calls' = calls + 1
    /\ UNCHANGED <<up, env, crashes>>

\* The append of r succeeds, or fails and leaves the log alone.
Appends(r) ==
    \/ log' = Append(log, r)
    \/ "append" \in env.faults /\ UNCHANGED log

Logged == log' # log

create_collection(c) ==
    /\ Call("create") /\ c \notin DOMAIN aliases
    /\ c \notin DOMAIN collections
    /\ collections' = Put(collections, c, Empty)
    /\ Appends(Create(c))
    /\ UNCHANGED <<published, cache, aliases, index, outlived>>

\* Mutant: a collection is dropped under its aliases.
drop_aliased(c) ==
    /\ Call("drop") /\ c \notin DOMAIN aliases
    /\ c \in DOMAIN collections
    /\ collections' = Without(collections, c)
    /\ schema' = Without(schema, c) /\ fields' = Without(fields, c) /\ outlived' = outlived \ {c}
    /\ dirty' = (dirty \/ schema # Empty)
    /\ Appends(Rec("drop", c, 0, ""))
    /\ UNCHANGED <<published, cache, aliases>>

\* drop_collection: refused on an alias and under one; the declaration goes too.
drop_collection(c) ==
    /\ Call("drop") /\ c \notin DOMAIN aliases
    /\ c \notin Range(aliases)
    /\ c \in DOMAIN collections
    /\ collections' = Without(collections, c)
    /\ schema' = Without(schema, c) /\ fields' = Without(fields, c) /\ outlived' = outlived \ {c}
    /\ dirty' = (dirty \/ schema # Empty)
    /\ Appends(Rec("drop", c, 0, ""))
    /\ UNCHANGED <<published, cache, aliases>>

\* set_filter_index: the declaration is logged, then the index built from the
\* docs already there.
set_filter_index(c, kind) ==
    /\ Call(kind) /\ c \notin DOMAIN aliases
    /\ collections' = Made(collections, c)
    /\ Appends(Declare(c, kind))
    /\ IF Logged
       THEN /\ schema' = Declared(schema, c, kind)
            /\ fields' = IF kind = "undeclare" THEN Without(fields, c)
                         ELSE Put(fields, c, Built(collections'[c]))
            /\ dirty' = TRUE /\ outlived' = outlived \ {c}
       ELSE UNCHANGED <<index, outlived>>
    /\ UNCHANGED <<published, cache, aliases>>

\* Nidus::concrete, one hop.
concrete(name) == IF name \in DOMAIN aliases THEN aliases[name] ELSE name

\* upsert of one record through a collection's name or an alias: the batch is
\* logged whole, with the collection's creation, or rolled back.
upsert(name, id, text) ==
    LET c == concrete(name)
        ops == (IF c \in DOMAIN collections THEN <<>> ELSE <<Create(c)>>) \o <<Rec("upsert", c, id, text)>>
    IN  /\ Call("upsert")
        /\ log' = log \o ops
        /\ collections' = Put(collections, c, Put(Made(collections, c)[c], id, text))
        /\ fields' = index_doc(fields, c, id, text)
        /\ dirty' = (dirty \/ schema # Empty)
        /\ UNCHANGED <<published, cache, aliases, schema, outlived>>

\* delete of one doc: out of the index and of the map before it is logged; a
\* failed append returns before the index is marked dirty.
delete(name, id) ==
    LET c == concrete(name)
    IN  /\ Call("delete")
        /\ c \in DOMAIN collections /\ id \in DOMAIN collections[c]
        /\ collections' = [collections EXCEPT ![c] = Without(@, id)]
        /\ fields' = remove_doc(fields, c, id)
        /\ Appends(Rec("delete", c, id, ""))
        /\ dirty' = (dirty \/ (Logged /\ schema # Empty))
        /\ UNCHANGED <<published, cache, aliases, schema, outlived>>

\* persist_manifest with the aliases a, or a failure that rolls them back; the
\* put of a failed publish may have landed all the same.
Publishes(a) ==
    \/ aliases' = a /\ published' = a
    \/ "publish" \in env.faults /\ UNCHANGED <<aliases, published>>
    \/ "landed" \in env.faults /\ published' = a /\ UNCHANGED aliases

\* set_alias: never at itself, at an alias, over a collection or at nothing.
set_alias(name, target) ==
    /\ Call("alias")
    /\ name # target /\ target \notin DOMAIN aliases
    /\ name \notin DOMAIN collections /\ target \in DOMAIN collections
    /\ ~(name \in DOMAIN aliases /\ aliases[name] = target)
    /\ Publishes(Put(aliases, name, target))
    /\ UNCHANGED <<log, cache, collections, index, outlived>>

drop_alias(name) ==
    /\ Call("alias") /\ name \in DOMAIN aliases
    /\ Publishes(Without(aliases, name))
    /\ UNCHANGED <<log, cache, collections, index, outlived>>

\* The `findex` object: the built index, the declarations it is keyed on and
\* the log offset it reflects.  History: the collections it has no true index of.
Cached(s, f, mark, out) == [schema |-> s, fields |-> f, mark |-> mark, outlived |-> out]
NoCache == Cached(Empty, Empty, 0, {})

\* persist_index, of an active and dirty index.
persist_index ==
    /\ Call("persist") /\ schema # Empty /\ dirty
    /\ cache' = Cached(schema, fields, Len(log), outlived)
    /\ dirty' = FALSE
    /\ UNCHANGED <<log, published, collections, aliases, schema, fields, outlived>>

\* compact: the log rewritten from the live catalog, the manifest published, the
\* index rebuilt and its cache refreshed; the cache of an index that is inactive
\* stays where it is, beside a log it does not describe.
compact ==
    /\ Call("compact")
    /\ log' = FlattenSeq([i \in 1..Cardinality(DOMAIN collections) |->
                             Emitted(SetToSeq(DOMAIN collections)[i])])
    /\ published' = aliases
    /\ IF schema = Empty
       THEN cache' = [cache EXCEPT !.outlived = DOMAIN cache.fields] /\ UNCHANGED <<fields, dirty, outlived>>
       ELSE /\ fields' = Rebuilt(schema, collections)
            /\ cache' = Cached(schema, fields', Len(log'), {})
            /\ dirty' = FALSE /\ outlived' = {}
    /\ UNCHANGED <<collections, aliases, schema>>

-----------------------------------------------------------------------------
(* Kill and reopen *)

Kill ==
    /\ up /\ crashes < MaxCrashes
    /\ up' = FALSE
    /\ crashes' = crashes + 1
    /\ collections' = Empty /\ aliases' = Empty
    /\ schema' = Empty /\ fields' = Empty /\ dirty' = FALSE /\ outlived' = {}
    /\ UNCHANGED <<disk, env, calls>>

\* Mutant: the cache is adopted whatever was written since.
CurrentAnyMark(s) == cache.schema = s

\* load_or_build_findex: the cache is keyed on the declarations and current
\* when its watermark is the log's offset.
Current(s) == cache.schema = s /\ cache.mark = Len(log)

Open ==
    LET r == replay_ops(log)
    IN  /\ ~up
        /\ up' = TRUE
        /\ collections' = r.cols /\ aliases' = published
        /\ schema' = r.schema
        /\ IF r.schema # Empty /\ Current(r.schema)
           THEN fields' = cache.fields /\ dirty' = FALSE /\ outlived' = cache.outlived
           ELSE fields' = Rebuilt(r.schema, r.cols) /\ dirty' = (r.schema # Empty) /\ outlived' = {}
        /\ UNCHANGED <<disk, env, calls, crashes>>

Init ==
    /\ log = <<>> /\ published = Empty /\ cache = NoCache
    /\ up = TRUE
    /\ collections = Empty /\ aliases = Empty
    /\ schema = Empty /\ fields = Empty /\ dirty = FALSE
    /\ env \in Environments
    /\ calls = 0 /\ crashes = 0 /\ outlived = {}

Next ==
    \/ persist_index \/ compact \/ Kill \/ Open
    \/ \E c \in env.names :
        \/ create_collection(c) \/ drop_collection(c) \/ drop_alias(c)
        \/ \E kind \in Structures \cup {"undeclare"} : set_filter_index(c, kind)
        \/ \E t \in env.names : set_alias(c, t)
        \/ \E id \in env.ids : delete(c, id) \/ \E text \in env.texts : upsert(c, id, text)

Spec == Init /\ [][Next]_vars

-----------------------------------------------------------------------------
(* Properties *)

PartialTo(f, S, T) == DOMAIN f \subseteq S /\ Range(f) \subseteq T

\* The shape of the catalog: its maps, an index per declaration, one live docnum
\* per document.
TypeOK ==
    /\ DOMAIN collections \subseteq Names
    /\ \A c \in DOMAIN collections : PartialTo(collections[c], Ids, Texts)
    /\ PartialTo(aliases, Names, Names) /\ PartialTo(published, Names, Names)
    /\ PartialTo(schema, Names, Structures)
    /\ DOMAIN fields = DOMAIN schema
    /\ \A c \in DOMAIN fields : \A n \in DOMAIN fields[c] :
        /\ fields[c][n].id \in Ids \cup {TOMBSTONE} /\ fields[c][n].text \in Texts
        /\ \A m \in 1..(n - 1) : fields[c][m].id \in {TOMBSTONE} \cup (Ids \ {fields[c][n].id})
    /\ dirty \in BOOLEAN /\ up \in BOOLEAN
    /\ outlived \subseteq DOMAIN fields

\* No document of collection c that a filter matches is left out of its candidates.
Narrows(c) ==
    \A f \in Filters : \E got \in {candidate_ids(c, f)} :
        got.all \/ \A id \in DOMAIN collections[c] : matches(f, collections[c][id]) => id \in got.ids

\* Results are the same whether or not a field is indexed (SPEC 7.4.1): over
\* upserts, deletes, redeclarations, drops, compactions, kills and an adopted
\* cache, narrowing loses no match.  Out of it is an index that load_or_build_findex
\* adopted from a cache whose log a compaction has since rewritten: compact leaves
\* the cache of an undeclared index as it is, and the new log may reach its mark.
NarrowingIsSound ==
    \A c \in (DOMAIN collections \cap DOMAIN schema) \ outlived : Narrows(c)

\* The same of every index, that one too (CatalogStaleIndex.cfg).
NarrowingIsAlwaysSound ==
    \A c \in DOMAIN collections \cap DOMAIN schema : Narrows(c)

\* What an alias map promises of the collections beside it: one hop, at a
\* collection that exists, under a name that is not one.
Resolves(a, cols) ==
    \A n \in DOMAIN a : n \notin DOMAIN cols /\ a[n] \in DOMAIN cols

\* An alias never resolves to nothing (SPEC 14.2), in the open store and in
\* what a reopen would find, although the manifest holds the one and the log
\* the other.
AliasesResolve ==
    /\ up => Resolves(aliases, collections)
    /\ Resolves(published, replay_ops(log).cols)

\* A reopen finds what the writer held: its documents, its collections, even
\* empty ones, and its aliases.
ReopenFindsCatalog ==
    up => replay_ops(log).cols = collections /\ published = aliases

\* A reopen finds the declarations the writer held (SPEC 7.4.1: recorded in
\* the log so the declaration survives reopen; drop_collection: "Drop the
\* collection's FTS schema + field indexes").
ReopenFindsSchema ==
    up => replay_ops(log).schema = schema
=============================================================================
