------------------------- MODULE MCProfileRepository -------------------------
(* Small instances of ProfileRepository for TLC.                            *)
EXTENDS ProfileRepositoryInv, TLC

\* Requests are told apart only by name.
Symmetry == Permutations(Requests)
=============================================================================
