---------------------------- MODULE MCAlertSweep ----------------------------
(***************************************************************************)
(* Instances of AlertSweep for TLC.                                        *)
(***************************************************************************)
EXTENDS AlertSweep, TLC

CONSTANTS r1, s1

OneRule == r1 :> {s1}
=============================================================================
