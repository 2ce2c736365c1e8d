----------------------------- MODULE MCLegacySync -----------------------------
(* A small instance of LegacySync for TLC.                                  *)
EXTENDS LegacySyncInv, TLC

CONSTANTS t1, t2

Of(a, b) == t1 :> a @@ t2 :> b

\* One tab whose saves overlap, are lost and survive a reload, or both tabs.
OneOrBothTabs ==
    {[edits |-> Of(2, 0), opens |-> Of(2, 0), lost |-> 6],
     [edits |-> Of(1, 1), opens |-> Of(2, 1), lost |-> 1],
     [edits |-> Of(2, 1), opens |-> Of(1, 1), lost |-> 0]}
=============================================================================
