----------------------------- MODULE MCBackground -----------------------------
(***************************************************************************)
(* SharedBrowser, ScreenOrder and the sync of FirmwareUpdate for TLC.      *)
(* They share no state, so a step of one changes nothing the properties of *)
(* another speak of: a behaviour is one of a single component, `part`, and *)
(* the others stand still.                                                 *)
(***************************************************************************)
EXTENDS SharedBrowser, TLC

CONSTANTS
  Screens, Ops, Kinds, Overlaps, NoOp,
  Devices, Models, ModelOf, FeedLog, Syncs, Uploads, Versions, AutoUpdates, Patches, CatchUps, NoSync,
  MaxFirmwares, MaxFaults

VARIABLES
  part,
  order, gone, op, locked, sharing,
  published, row, file, made, device, auto, syncing, sync, upload, catchUp, patch, unlinking, faults, owed

\* The overlaps of requests under which the Order holds
Harmless ==
  {{"add"}, {"add", "assign"}, {"add", "reorder"}, {"assign", "reorder"}, {"reorder"}}

\* A feed with a second folder that lags behind, and a version withdrawn from the first
Lists(v, models) == [version |-> v, models |-> models]
Withdrawn ==
  <<"trmnl_og" :> Lists(1, {"og"}),
    "trmnl_og" :> Lists(2, {"og"}) @@ "trmnl_x" :> Lists(1, {"x"}),
    "trmnl_og" :> Lists(1, {"og"}) @@ "trmnl_x" :> Lists(1, {"x"})>>
OneModel == [d \in Devices |-> "og"]

Order == INSTANCE ScreenOrder
Firmware == INSTANCE FirmwareUpdate

ASSUME BackgroundAssumptions == Order!ScreenOrderAssumptions /\ Firmware!FirmwareUpdateAssumptions

orderVars == <<order, gone, op, locked, sharing>>
firmwareVars ==
  <<published, row, file, made, device, auto, syncing, sync, upload, catchUp, patch, unlinking, faults, owed>>
backgroundVars == <<part, vars, orderVars, firmwareVars>>

\* The rows of the part that stands still are any one of its initial states.
BackgroundInit ==
  /\ part \in {"browser", "order", "firmware"}
  /\ Init /\ Order!Init /\ Firmware!Init
  /\ part # "order" => \A s \in Screens : order[s] = 0

BrowserMoves == part = "browser" /\ Next /\ UNCHANGED <<part, orderVars, firmwareVars>>
OrderMoves == part = "order" /\ Order!Next /\ UNCHANGED <<part, vars, firmwareVars>>
FirmwareMoves == part = "firmware" /\ Firmware!Next /\ UNCHANGED <<part, vars, orderVars>>

\* The fairness of SharedBrowser and of FirmwareUpdate, each for its own part
BackgroundSpec ==
  /\ BackgroundInit
  /\ [][BrowserMoves \/ OrderMoves \/ FirmwareMoves]_backgroundVars
  /\ \A r \in Renders : WF_vars(part = "browser" /\ RenderStep(r))
  /\ \A b \in Launches : WF_vars(part = "browser" /\ LaunchSettles(b)) /\ WF_vars(part = "browser" /\ Close(b))
  /\ WF_firmwareVars(part = "firmware" /\ \E s \in Syncs : Firmware!Start(s))
  /\ \A s \in Syncs : WF_firmwareVars(part = "firmware" /\ Firmware!SyncStep(s))
  /\ Firmware!OutagesEnd

\* "1..N, sequential, no gaps" (ScreenOrder).
Sequential == Order!Sequential
\* Every commit does to the list of Screens what its request promises (ScreenOrder).
ListSpec == Order!ListSpec
\* What the feed lists comes into the library in the end (FirmwareUpdate).
FeedIsFollowed == part = "firmware" => Firmware!FeedIsFollowed
=============================================================================
