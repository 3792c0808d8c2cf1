------------------------------ MODULE MCUidPin ------------------------------
(* Small instances of UidPin for TLC.                                      *)
EXTENDS UidPin, TLC

\* Uids and requests are interchangeable.
Symmetry == Permutations(Users) \cup Permutations(Uids) \cup Permutations(Auths)
=============================================================================
