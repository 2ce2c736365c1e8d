---------------------------- MODULE MCProfileSync -----------------------------
(* Small instances of ProfileSync for TLC.                                  *)
EXTENDS ProfileSyncInv, TLC

\* Tabs differ only in name.
Symmetry == Permutations(Tabs)

CONSTANTS t1, t2   \* two of the tabs

One == [t \in Tabs |-> 1]
Two == [t \in Tabs |-> 2]
Three == [t \in Tabs |-> 3]
=============================================================================
