----------------------------- MODULE MCSessions -----------------------------
(* Small instances of Sessions for TLC.                                    *)
EXTENDS Sessions, TLC

\* Users, sessions and requests are interchangeable; only safety runs use it.
Symmetry == Permutations(Users) \cup Permutations(Sids) \cup Permutations(Reqs)
=============================================================================
