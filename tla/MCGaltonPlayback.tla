--------------------------- MODULE MCGaltonPlayback ---------------------------
(* A small instance of GaltonPlayback for TLC: thirds of balls are carried,   *)
(* and slow trials are still falling when later ones at other speeds land.    *)
EXTENDS GaltonPlayback

Uneven == {[i \in 0 .. 3 |-> IF i = 0 THEN 0 ELSE 1], [i \in 0 .. 4 |-> i % 2]}
Rates == [slow |-> 1, normal |-> 7]
Durations == [slow |-> 4, normal |-> 1]
=============================================================================
