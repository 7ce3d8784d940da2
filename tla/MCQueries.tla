------------------------------ MODULE MCQueries ------------------------------
(***************************************************************************)
(* Four records at most of which a list looks at three.  Boss reads all    *)
(* records, clerk its own and those with the number 2.  Fields are null    *)
(* when a record is created with nulls, and missing once it is cleared.    *)
(***************************************************************************)
EXTENDS Queries, TLC

CONSTANTS boss, clerk

Plain == [clauses |-> {}, search |-> None, sort |-> None, desc |-> FALSE, archived |-> FALSE]

MCFilters ==
    {[Plain EXCEPT !.clauses = {[field |-> "kind", op |-> "ne", value |-> "b"]},
                   !.sort = "amount", !.desc = TRUE],
     [Plain EXCEPT !.clauses = {[field |-> "amount", op |-> "ne", value |-> 2]},
                   !.search = {"a"}, !.desc = TRUE],
     [Plain EXCEPT !.sort = "created_at", !.archived = TRUE]}

Anything == Amounts \cup {Null}

MCReadGrants ==
    [actor \in Actors |-> IF actor = boss THEN {[scope |-> "tenant", amounts |-> Anything]}
                          ELSE {[scope |-> "own", amounts |-> Anything],
                                [scope |-> "tenant", amounts |-> {2}]}]

New(by, amount, kind) == [by |-> by, amount |-> amount, kind |-> kind, active |-> TRUE]

MCGiven == {New(boss, 2, "a"), New(clerk, 1, "b"), New(clerk, Null, Null)}

MCLimits == {5}

SlotsInterchangeable == Permutations(Slots)
=============================================================================
