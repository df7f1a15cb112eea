------------------------------ MODULE MCSearch ------------------------------
(* Small instances of Search for TLC.                                       *)
EXTENDS Search

MCKeys == {<<1, 1>>, <<1, 2>>, <<2, 1>>}

\* A record, its twin, one that ranks before both, and a text-only record that
\* takes a key's row away.
R(key, vec, attr) == [key |-> key, vec |-> vec, attr |-> attr]
MCRecords == {R(<<1, 1>>, 0, "a"), R(<<1, 2>>, 0, "b"), R(<<2, 1>>, 1, "a"), R(<<1, 2>>, None, "a")}

\* Queries at point 1, one of them with a min_score only that point passes.
Q(scope, filter, exact, k, offset, cap, workers, min) ==
    [vec |-> 1, scope |-> scope, filter |-> filter, exact |-> exact, top_k |-> k, offset |-> offset,
     cap |-> cap, workers |-> workers, min |-> min]
NoMin == -100
MCQueries ==
    {Q(<<1, 2>>, Attrs, e, 1, o, 0, 1, NoMin) : e \in BOOLEAN, o \in {0, 1}}
    \cup {Q(<<1>>, Attrs, FALSE, 2, 0, 0, 2, NoMin), Q(<<2, 1>>, {"a"}, FALSE, 1, 0, 0, 1, 0)}
    \cup {Q(<<1, 2>>, Attrs, TRUE, 1, o, 1, 2, NoMin) : o \in {0, 1}}

\* A scope that names a collection twice.
MCTwice == {Q(<<1, 1>>, Attrs, e, 2, 0, 0, 1, NoMin) : e \in BOOLEAN}

\* The smallest instance in which a stale index loses a document.
MCWhole == {Q(<<1, 2>>, Attrs, FALSE, 2, 0, 0, 1, NoMin)}
MCFew == {R(<<1, 1>>, 0, "a"), R(<<1, 2>>, 0, "a")}
=============================================================================
