----------------------------- MODULE MCCatalog -----------------------------
(* Small instances of Catalog for TLC.                                      *)
EXTENDS Catalog

\* Two texts, the second with the first's token and trigram, and a document
\* without the field.
MCTexts == {"fox", "red fox", ""}
MCWords == [t \in MCTexts |->
    CASE t = "fox" -> <<"fox">> [] t = "red fox" -> <<"red", "fox">> [] OTHER -> <<>>]
MCGrams == [t \in MCTexts |->
    CASE t = "fox" -> {"fox"} [] t = "red fox" -> {"red", "ed ", "d f", " fo", "fox"} [] OTHER -> {}]

leaf(k, q_, edits_, accepts_) == [kind |-> k, q |-> q_, edits |-> edits_, accepts |-> accepts_, not |-> FALSE]
all(q_) == leaf("all", q_, 0, {})
sequence(q_) == leaf("sequence", q_, 0, {})
any(q_) == leaf("any", q_, 0, {})
fuzzy(q_, n, accepts_) == leaf("fuzzy", q_, n, accepts_)
regex(q_, accepts_) == leaf("regex", q_, 0, accepts_)
other(accepts_) == leaf("other", <<>>, 0, accepts_)
not(p) == [p EXCEPT !.not = TRUE]
Both(S) == [kind |-> "All", q |-> S]
Either(S) == [kind |-> "Any", q |-> S]

RedFoy == fuzzy(<<"red", "ed ", "d f", " fo", "foy">>, 1, {"red fox"})
Fox == fuzzy(<<"fox">>, 0, {"fox"})
Fog == fuzzy(<<"fog">>, 1, {"fox"})         \* a vacuous threshold
DF == regex(<<"d f">>, {"red fox"})         \* d f
Ed == regex(<<>>, {"red fox"})              \* e.: no literal of three characters

\* Each kind of predicate, and groups with a branch the index does not serve.
MCFilters ==
    {Both({p}) : p \in {all(<<>>), all(<<"red">>), all(<<"fox", "red">>),
                        any(<<>>), any(<<"red">>), not(all(<<"red">>)),
                        sequence(<<>>), sequence(<<"red", "fox">>), sequence(<<"fox", "red">>),
                        RedFoy, Fox, Fog, DF, Ed, not(RedFoy)}}
    \cup
    {Either({all(<<"red">>), p}) : p \in {any(<<"fox">>), other({"fox"}), not(any(<<"red">>)), Fox}}
    \cup
    {Both({all(<<"red">>), p}) : p \in {any(<<"fox">>), other({"fox"}), DF}}
    \cup
    {Both({any(<<"red">>), not(all(<<"fox">>))}), Either({RedFoy, Fog}), Both({RedFoy, Fog})}

Env(calls_, names_, faults_, ids_, texts_, limit_) ==
    [calls |-> calls_, names |-> names_, faults |-> faults_, ids |-> ids_, texts |-> texts_, limit |-> limit_]

\* Behaviours that compact, that drop and redeclare, of two indexed collections,
\* of aliases, and long ones that undeclare an index and compact without it.
Foxes == {"fox", "red fox"}
Compacting == Env({"both", "trigrams", "upsert", "delete", "persist", "compact"}, {"a"}, {}, {1, 2}, Foxes, 5)
Dropping == Env({"drop", "both", "undeclare", "upsert", "delete", "persist"}, {"a"}, {}, {1, 2}, Foxes, 5)
Two == Env({"alias", "tokens", "upsert", "persist"}, {"a", "b"}, {}, {1, 2}, {"", "red fox"}, 5)
Aliasing == Env({"create", "drop", "alias", "compact"}, {"a", "b", "c"}, {"publish"}, {}, {}, 5)
Undeclaring == Env({"tokens", "undeclare", "upsert", "persist", "compact"}, {"a"}, {}, {1}, Foxes, 7)
MCEnvironments == {Compacting, Dropping, Two, Aliasing, Undeclaring}

\* The last alone; failed appends; a failed publish that landed; a dropped
\* declaration.
MCStaleIndex == {Undeclaring}
MCAppendFails == {Env({"create", "drop"}, {"a"}, {"append"}, {}, {}, 5)}
MCLanded == {Env({"create", "drop", "alias"}, {"a", "b"}, {"landed"}, {}, {}, 5)}
MCDropped == {Env({"drop", "tokens"}, {"a"}, {}, {}, {}, 5)}
=============================================================================
