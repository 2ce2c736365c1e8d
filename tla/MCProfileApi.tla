----------------------------- MODULE MCProfileApi -----------------------------
(* ProfileApi on small sets.  Requests and profiles are interchangeable.     *)
EXTENDS ProfileApi, TLC

Symmetry == Permutations(Requests) \cup Permutations(Profiles)
Counted == 0 .. 1
=============================================================================
