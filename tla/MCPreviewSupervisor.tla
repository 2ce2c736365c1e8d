-------------------------- MODULE MCPreviewSupervisor -------------------------
(* A small instance of PreviewSupervisor for TLC.                           *)
EXTENDS PreviewSupervisor, TLC

CONSTANTS k1, k2, k3

TwoStarts == k1 :> "start" @@ k2 :> "start" @@ k3 :> "stop"
=============================================================================
