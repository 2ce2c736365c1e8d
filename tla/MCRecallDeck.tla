----------------------------- MODULE MCRecallDeck -----------------------------
(* Small instances of RecallDeck for TLC.                                   *)
EXTENDS RecallDeck, TLC

CONSTANTS c1, c2, b1, b2

TwoCards == <<c1, c2>>
TwoBranches == <<b1, b2>>
OneEach == c1 :> b1 @@ c2 :> b2
AnyText == {{c1, c2}}
SomeText == {{c1, c2}, {c2}}
=============================================================================
