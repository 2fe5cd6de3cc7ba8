------------------------ MODULE MCDataInitialization ------------------------
(* DataInitialization for TLC. *)
EXTENDS DataInitialization, TLC

\* instances of the job and milliseconds are interchangeable
Alike == Permutations(Jobs) \union Permutations(Suffixes)
=============================================================================
