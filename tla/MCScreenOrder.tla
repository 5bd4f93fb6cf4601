--------------------------- MODULE MCScreenOrder ---------------------------
(***************************************************************************)
(* Instances of ScreenOrder for TLC.                                       *)
(***************************************************************************)
EXTENDS ScreenOrder

\* An overlap under which the Order does not hold
TwoDeletes == {{"delete"}}
=============================================================================
