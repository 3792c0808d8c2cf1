--------------------------- MODULE MCResourceReads ---------------------------
(* A small instance of ResourceReads for TLC.                              *)
EXTENDS ResourceReads, TLC

\* Cached and strict, cached and shared, and a template that is not cached.
SomeUris == {"devices", "routes", "file"}

\* The grant of the worker alone, and all of them.
SomeGrants == {{"worker"}, {"devices", "routes", "file", "worker"}}

\* Users and reads are interchangeable.
Symmetry == Permutations(Users) \cup Permutations(Reads)
=============================================================================
