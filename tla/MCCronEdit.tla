----------------------------- MODULE MCCronEdit -----------------------------
(* Small instances of CronEdit for TLC.                                    *)
EXTENDS CronEdit, TLC

\* A grant that edits, one that views, and one no config may hold.
SomeRules == {[a \in Accts |-> IF a = Root THEN x[1] ELSE x[2]] :
                  x \in {<<"view", "edit">>, <<"none", "view">>, <<"edit", "edit">>}}

\* Exact keys, and a call in which every key has another spelling besides.
SomeSpellings ==
    {Exact} \cup {[content |-> TRUE, target |-> t, viewers |-> Accts] : t \in Accts \ (Callers \cup {Root})}

\* Clients are interchangeable.
Symmetry == Permutations(Clients)
=============================================================================
