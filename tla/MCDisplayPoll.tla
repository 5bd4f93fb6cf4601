--------------------------- MODULE MCDisplayPoll ---------------------------
(***************************************************************************)
(* Instances of DisplayPoll for TLC: the PATCH bodies the runs send.       *)
(***************************************************************************)
EXTENDS DisplayPoll, TLC

CONSTANTS s1, s2, s3, p1, p2, a1, fw1, fw2

NoChanges == {}
WipeOrMode == {[wipe |-> TRUE], [rotationMode |-> "manual"]}
OneShots ==
  {[wipe |-> TRUE], [resetDevice |-> TRUE, resetDeviceNewApikey |-> TRUE], [resetDeviceNewApikey |-> TRUE],
   [specialFunction |-> "identify"], [specialFunction |-> "rewind"],
   [targetFirmware |-> fw1, updateFirmware |-> TRUE], [targetFirmware |-> fw2], [mirror |-> "proxied"]}
=============================================================================
