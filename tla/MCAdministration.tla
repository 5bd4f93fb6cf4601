--------------------------- MODULE MCAdministration ---------------------------
(***************************************************************************)
(* FirmwareUpdate, ConfigurationImport, DeviceSetting and the two windows  *)
(* of the clock for TLC.  They share no state, so a step of one changes    *)
(* nothing the properties of another speak of: a behaviour is one of a     *)
(* single component, `part`, and the others rest.  A variable two modules  *)
(* give the same name serves whichever of them is the part.                *)
(***************************************************************************)
EXTENDS FirmwareUpdate, TLC

CONSTANTS
  d1, d2,                                          \* FirmwareUpdate
  x1, x2, y1, m1, m2, s1, s2, t1, p1, p2, a1,      \* ConfigurationImport
  token, archived, own, Damaged, Redacted, Rest,
  Ids, Macs, Screens, Instances, Archives, MaxKeys,
  Values, MaxSaves, MaxLoads, MaxLosses,           \* DeviceSetting
  Day, HOUR, MIN_SLEEP_REFRESH_RATE, Rates, Days,  \* SleepWindow, and ScheduleWindow
  Week, Weekdays, DateRanges, Last

VARIABLES
  part,
  archive, db, image, job, run, setups, minted, hardware, gone,
  saved, data, entered, typing, status, attempts, input, save, load, latestRequest, asking, heldBack, losses, sent, behind,
  now, start, end, changesAt, shift, schedule

-----------------------------------------------------------------------------
(* FirmwareUpdate, in two instances                                        *)

Lists(v, models) == [version |-> v, models |-> models]
\* A second folder that lags behind.
TwoFolders == <<"trmnl_og" :> Lists(1, {"og"}), "trmnl_og" :> Lists(2, {"og"}) @@ "trmnl_x" :> Lists(1, {"x"})>>

OneModel == [d \in Devices |-> "og"]
\* Who the policy reaches: two Devices of different Device Models, and no uploads.
Policy == INSTANCE FirmwareUpdate
  WITH Devices <- {d1, d2}, ModelOf <- d1 :> "og" @@ d2 :> "x", FeedLog <- TwoFolders, Versions <- {},
       AutoUpdates <- BOOLEAN, Patches <- {"mirror"}, CatchUps <- TRUE, MaxFirmwares <- 2, MaxFaults <- 0

\* Uploads are alike: sound, as nothing here is about liveness.
Alike == Permutations(Uploads)

-----------------------------------------------------------------------------
(* ConfigurationImport                                                     *)

Plugin(id, value) == [kind |-> "plugin", id |-> id, value |-> value]
DeviceOf(id, mac, key) == [kind |-> "device", id |-> id, mac |-> mac, key |-> key]
ScreenOf(id, d, order) == [kind |-> "screen", id |-> id, device |-> d, order |-> order, image |-> <<"archive", id>>]
Settings(ok) == [kind |-> "settings", id |-> Rest, withinBounds |-> ok]

\* A redacted archive with an Assignment; one refused at its Settings; one refused
\* at a damaged image; and one of two Devices.
MCArchives ==
  {<<Plugin(p1, Redacted), DeviceOf(x1, m1, Redacted), [kind |-> "assignment", id |-> a1, value |-> <<p1, x1>>],
     ScreenOf(s1, x1, 1), ScreenOf(s2, x1, 2), Settings(TRUE)>>,
   <<Plugin(p1, token), DeviceOf(x1, m1, archived), DeviceOf(x2, m2, archived),
     ScreenOf(s1, x1, 1), ScreenOf(s2, x2, 1), Settings(FALSE)>>,
   <<Plugin(p1, token), DeviceOf(x1, m1, archived), ScreenOf(s2, x1, 2),
     [ScreenOf(s1, x1, 1) EXCEPT !.image = Damaged], Settings(TRUE)>>,
   <<DeviceOf(x1, m1, archived), DeviceOf(x2, m2, archived), ScreenOf(s1, x1, 1), ScreenOf(s2, x2, 1), Settings(TRUE)>>}

Row(mac, key) == [mac |-> mac, key |-> key]
On(d, order) == [device |-> d, order |-> order]
\* An empty server; the one the archive is of; and one where the Device has another
\* id and the Webhook Token is another Plugin's.
MCInstances ==
  {[device |-> <<>>, screen |-> <<>>, unique |-> <<>>],
   [device |-> x1 :> Row(m1, archived), screen |-> s1 :> On(x1, 1) @@ s2 :> On(x1, 2),
    unique |-> p1 :> [kind |-> "plugin", value |-> token]],
   [device |-> y1 :> Row(m1, own), screen |-> <<>>, unique |-> p2 :> [kind |-> "plugin", value |-> token]]}

Import == INSTANCE ConfigurationImport WITH None <- Rest

-----------------------------------------------------------------------------
(* The other components                                                    *)

Setting == INSTANCE DeviceSetting WITH row <- saved, None <- Rest
Sleep == INSTANCE SleepWindow
Schedule == INSTANCE ScheduleWindow WITH None <- Rest

MCDateRanges == {Rest, <<1, 2>>, <<2, 2>>}

ASSUME AdministrationAssumptions ==
  /\ Policy!FirmwareUpdateAssumptions /\ Import!ConfigurationImportAssumptions
  /\ Setting!DeviceSettingAssumptions
  /\ Sleep!SleepWindowAssumptions /\ Schedule!ScheduleWindowAssumptions

-----------------------------------------------------------------------------
importOnly == <<archive, db, image, job, setups, minted, hardware, gone>>
settingOnly ==
  <<saved, data, entered, typing, status, attempts, input, save, load, latestRequest, asking, heldBack, losses, sent, behind>>
sleepOnly == <<start, end, changesAt, shift>>
firmwareOnly == <<published, row, file, made, device, auto, syncing, sync, upload, catchUp, patch, unlinking, owed>>

ImportRests ==
  /\ archive = Rest /\ db = Rest /\ image = Rest /\ job = Rest
  /\ setups = Rest /\ minted = Rest /\ hardware = Rest /\ gone = Rest
SettingRests ==
  /\ saved = Rest /\ data = Rest /\ entered = Rest /\ typing = Rest /\ status = Rest /\ attempts = Rest /\ input = Rest
  /\ save = Rest /\ load = Rest /\ latestRequest = Rest /\ asking = Rest /\ heldBack = Rest /\ losses = Rest
  /\ sent = Rest /\ behind = Rest
SleepRests == start = Rest /\ end = Rest /\ changesAt = Rest /\ shift = Rest
RunRests == run = [pc |-> "rests"]

AdministrationInit ==
  /\ part \in {"library", "policy", "import", "setting", "sleep", "schedule"}
  /\ IF part = "policy" THEN Policy!Init ELSE Init
  /\ IF part = "import" THEN Import!Init ELSE ImportRests
  /\ IF part = "setting" THEN Setting!Init ELSE SettingRests
  /\ IF part = "sleep" THEN Sleep!Init ELSE SleepRests
  /\ IF part = "schedule" THEN Schedule!Init ELSE schedule = Rest
  /\ part # "import" => RunRests
  /\ part \notin {"sleep", "schedule"} => now = Rest

LibraryMoves ==
  part = "library" /\ Next /\ UNCHANGED <<part, importOnly, settingOnly, sleepOnly, run, now, schedule>>
PolicyMoves ==
  part = "policy" /\ Policy!Next /\ UNCHANGED <<part, importOnly, settingOnly, sleepOnly, run, now, schedule>>
ImportMoves ==
  part = "import" /\ Import!Next /\ UNCHANGED <<part, firmwareOnly, settingOnly, sleepOnly, now, schedule>>
SettingMoves ==
  /\ part = "setting" /\ Setting!Next
  /\ UNCHANGED <<part, firmwareOnly, faults, importOnly, sleepOnly, run, now, schedule>>
SleepMoves ==
  /\ part = "sleep" /\ Sleep!Next
  /\ UNCHANGED <<part, firmwareOnly, faults, importOnly, settingOnly, run, schedule>>
ScheduleMoves ==
  /\ part = "schedule" /\ Schedule!Next
  /\ UNCHANGED <<part, firmwareOnly, faults, importOnly, settingOnly, sleepOnly, run>>

administrationVars == <<part, vars, importOnly, settingOnly, sleepOnly, run, now, schedule>>

AdministrationSpec ==
  /\ AdministrationInit
  /\ [][LibraryMoves \/ PolicyMoves \/ ImportMoves \/ SettingMoves \/ SleepMoves \/ ScheduleMoves]_administrationVars

-----------------------------------------------------------------------------
\* A Device that registered here is still known by the apikey it sends (ConfigurationImport).
HardwareStaysKnown == part = "import" => Import!HardwareStaysKnown
\* No image is left of an import that was rolled back (ConfigurationImport).
ImagesHaveScreens == part = "import" => Import!ImagesHaveScreens
\* What is archived is where it belongs when an import is over (ConfigurationImport).
RestoredAsArchived == Import!RestoredAsArchived
\* The control shows what the Device has once its last change was sent (DeviceSetting).
SentIsShown == part = "setting" => Setting!SentIsShown
\* Sleep Mode's window ends when the clock says so (SleepWindow).
EndsAsTheClockReads == part = "sleep" => Sleep!EndsAsTheClockReads
\* A window that crosses midnight belongs to the day it starts on (ScheduleWindow).
WindowsBelongToTheirDay == part = "schedule" => Schedule!WindowsBelongToTheirDay
=============================================================================
