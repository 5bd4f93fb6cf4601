----------------------------- MODULE DisplayPoll ----------------------------
(***************************************************************************)
(* The /display poll of one Device (devices/display.service.ts), next to   *)
(* everything else that writes the rows it works on.  The server is one    *)
(* Node process: a handler runs undisturbed between two awaits, and at     *)
(* each await any other handler may run.  A poll is therefore a record     *)
(* with a program counter that steps from one database write to the next,  *)
(* carrying the rows it read on the way; so is an admin's PATCH or a       *)
(* Device's setup, which reads the whole row and saves the whole row back. *)
(***************************************************************************)
EXTENDS Rotation

CONSTANTS
  Screens,          \* every Screen the Device may have
  HtmlScreens,      \* the `html` ones: no Render Signal is remembered for them
  ExternalScreens,  \* the External links fetched at each poll
  Polls,            \* handlers that may be answering a poll at the same time
  Admins,           \* handlers that may be serving a PATCH or a setup at the same time
  Functions,        \* Special Functions other than "none"
  Firmware,         \* Firmware rows a Device may be given
  NoFirmware,
  Changes,          \* the PATCH bodies admins send: records of some Device columns
  Events,           \* the kinds of event around the polls that a run explores
  MaxEvents,        \* bound: how many of them happen
  MaxFailures,      \* bound: how many polls fail or lose their answer
  MaxKeys,          \* bound: how many API keys are generated after the first
  StalePatches      \* whether a PATCH or a setup may save a row that changed since it was read

NoFunction == "none"
Signals == {"none", "skip", "hold"}     \* renderSignal, "none" for null
Erased == -1                            \* the Device has forgotten its API key

\* The columns of a Device row that polls and admins both write.  `mirror`
\* stands for mirrorEnabled and for whether mirrorMac is the Device's own MAC.
Rows == [apikey: 0..MaxKeys, resetDevice: BOOLEAN, resetDeviceNewApikey: BOOLEAN,
         wipe: BOOLEAN, specialFunction: Functions \cup {NoFunction},
         updateFirmware: BOOLEAN, targetFirmware: Firmware \cup {NoFirmware},
         pickedScreen: Screens \cup {NoScreen},
         rotationMode: {"automatic", "manual"}, mirror: {"off", "device", "proxied"}]

Merged(change, row) == [f \in DOMAIN row |-> IF f \in DOMAIN change THEN change[f] ELSE row[f]]

ASSUME DisplayPollAssumptions ==
  /\ NoScreen \notin Screens /\ NoFirmware \notin Firmware
  /\ Functions \cap {NoFunction, "wipe", "resetDevice"} = {}
  /\ IsFiniteSet(Screens)
  /\ HtmlScreens \subseteq Screens /\ ExternalScreens \subseteq Screens
  /\ HtmlScreens \cap ExternalScreens = {}
  /\ MaxEvents \in Nat /\ MaxFailures \in Nat /\ MaxKeys \in Nat
  /\ StalePatches \in BOOLEAN
  /\ Events \subseteq {"schedule", "sleep", "pick", "refresh", "delete", "add", "patch", "regenerate"}
  /\ \A change \in Changes, row \in Rows : Merged(change, row) \in Rows
  /\ \A change \in Changes : "apikey" \notin DOMAIN change

-----------------------------------------------------------------------------
VARIABLES
  device,        \* the Device's row
  order,         \* each Screen's Order number, 0 for a Screen that has no row
  gone,          \* the Screens that were deleted
  orphans,       \* the deleted Screens that have a row again, of no Device
  isActive,      \* the Screens of the Device whose row says isActive
  renderSignal,  \* each Screen's remembered Render Signal
  scheduleShuts, \* the Screens whose Schedule excludes them now
  asleep,        \* whether now falls in the Device's sleep window
  deviceKey,     \* the API key the physical Device holds, or Erased
  poll,          \* each poll handler: where it stands and what it has read
  patch,         \* each handler that saves a whole row: for whom it has read it, and what it read
  keys,          \* the last API key generated
  events, failures,   \* how many have happened, for the bounds
  owed,          \* ghost: one-shot commands admins asked for and no poll has fired
  unasked,       \* ghost: one-shot commands fired although none was owed
  lockedOut      \* ghost: a new key's answer was lost, or an admin replaced the key

deleted == <<gone, orphans>>
rows == <<order, deleted, isActive, renderSignal>>
moment == <<scheduleShuts, asleep>>
ghosts == <<owed, unasked, lockedOut>>
bounds == <<keys, events, failures>>
vars == <<device, rows, moment, deviceKey, poll, patch, bounds, ghosts>>

-----------------------------------------------------------------------------
Existing == {s \in Screens : order[s] > 0}

Choosing == {"rotate", "render"}
Moving == {"moveOn", "clearPick", "activate"}
Acknowledging == {"acknowledge", "ackFunction", "ackFirmware"}
Answers == {"none", "wipe", "mirror", "proxied", "sleep", "screen", "noScreen"}

\* A Device as it is without Screens, once its first poll has fired the
\* Special Function it is registered with
NewDevice ==
  [apikey |-> 0, resetDevice |-> FALSE, resetDeviceNewApikey |-> FALSE, wipe |-> FALSE,
   specialFunction |-> NoFunction, updateFirmware |-> FALSE, targetFirmware |-> NoFirmware,
   pickedScreen |-> NoScreen, rotationMode |-> "automatic", mirror |-> "off"]

NoView == [list |-> <<>>, order |-> [s \in Screens |-> 0], active |-> {},
           signal |-> [s \in Screens |-> "none"], passed |-> {}]

IdlePoll ==
  [pc |-> "idle", seen |-> NewDevice, stay |-> FALSE, push |-> NoFirmware, view |-> NoView,
   attempt |-> 0, screen |-> NoScreen, signal |-> "none", answer |-> "none"]

IdlePatch == [from |-> "none", row |-> NewDevice]

Init ==
  /\ device = NewDevice
  /\ order \in {f \in [Screens -> 0..Cardinality(Screens)] :
                  {f[s] : s \in Screens} \ {0} = 1..Cardinality({s \in Screens : f[s] > 0})}
  /\ gone = {} /\ orphans = {}
  /\ isActive = {}
  /\ renderSignal = [s \in Screens |-> "none"]
  /\ scheduleShuts \in SUBSET Existing
  /\ asleep = FALSE
  /\ deviceKey = device.apikey
  /\ poll = [p \in Polls |-> IdlePoll]
  /\ patch = [a \in Admins |-> IdlePatch]
  /\ keys = 0 /\ events = 0 /\ failures = 0
  /\ owed = {} /\ unasked = {} /\ lockedOut = FALSE

At(p, pcs) == poll[p].pc \in pcs
Become(p, state) == poll' = [poll EXCEPT ![p] = state]
Goto(p, pc) == Become(p, [poll[p] EXCEPT !.pc = pc])

-----------------------------------------------------------------------------
(* The poll, from its authentication to the kind of answer it gets.        *)

PushPending(row) == row.mirror = "off" /\ row.updateFirmware /\ row.targetFirmware # NoFirmware

\* authenticateDevice and applyHeaderReport: the row read here decides what
\* the poll fires.  The wake source is the Device's, and the stored binary of
\* a pushed Firmware may fail its checksum.
Authenticate(p) ==
  /\ At(p, {"idle"})
  /\ deviceKey = device.apikey
  /\ \E button \in BOOLEAN :
     \E push \in {NoFirmware} \cup (IF PushPending(device) THEN {device.targetFirmware} ELSE {}) :
        Become(p, [IdlePoll EXCEPT !.pc = "answer", !.seen = device, !.push = push,
                                   !.stay = device.rotationMode = "manual" /\ ~button])
  /\ UNCHANGED <<device, rows, moment, deviceKey, patch, bounds, ghosts>>

\* A Wipe gives way to a Device Reset in the same poll
WipeDue(row) == row.wipe /\ ~row.resetDevice

Answer(p, answer) ==
  /\ Become(p, [poll[p] EXCEPT !.pc = "acknowledge", !.answer = answer])
  /\ UNCHANGED <<device, rows, moment, deviceKey, patch, bounds, ghosts>>

\* buildWipeResponse.  The other answers do not ask whether a Wipe is due: a
\* blank image that cannot be made gives the Wipe up for them.
AnswerWipe(p) ==
  /\ At(p, {"answer"})
  /\ WipeDue(poll[p].seen)
  /\ Answer(p, "wipe")

\* buildMirrorResponse: TRMNL's own answer on a Proxied Device, unless TRMNL
\* could not be reached; its image, with this server's one-shots, otherwise.
AnswerMirror(p) ==
  /\ At(p, {"answer"})
  /\ poll[p].seen.mirror # "off"
  /\ \/ Answer(p, "mirror")
     \/ poll[p].seen.mirror = "proxied" /\ Answer(p, "proxied")

\* buildSleepResponse: Rotation and the Picked Screen stay where they are
AnswerAsleep(p) ==
  /\ At(p, {"answer"})
  /\ poll[p].seen.mirror = "off"
  /\ asleep
  /\ Answer(p, "sleep")

Remembered(s) == IF s \in HtmlScreens THEN "none" ELSE renderSignal[s]

\* buildRotationResponse reads the Device's Screens once, and picks from that
LoadScreens(p) ==
  /\ At(p, {"answer"})
  /\ poll[p].seen.mirror = "off"
  /\ ~asleep
  /\ \E list \in InOrder(Existing, order) :
       Become(p, [poll[p] EXCEPT !.pc = "rotate",
                                 !.view = [list |-> list, order |-> order, active |-> isActive,
                                           signal |-> [s \in Screens |-> renderSignal[s]],
                                           passed |-> PassedOver(scheduleShuts,
                                             {s \in Existing : Remembered(s) = "skip"})]])
  /\ UNCHANGED <<device, rows, moment, deviceKey, patch, bounds, ghosts>>

-----------------------------------------------------------------------------
(* pickAndRenderScreen: try Screens until one is shown or held.            *)

\* Slip: the loop gives up one Screen early
OutOfAttemptsEarly(attempt, list) == attempt + 1 >= Len(list)
OutOfAttempts(attempt, list) == attempt >= Len(list)

Candidate(p) ==
  LET view == poll[p].view
  IN  IF OutOfAttempts(poll[p].attempt, view.list) THEN NoScreen
      ELSE NextEligibleScreen(view.list, view.active, view.passed,
                              poll[p].seen.pickedScreen, poll[p].stay)

\* The answer exists: `screen` is to become the Active Screen
Show(p, screen, signal) ==
  Become(p, [poll[p] EXCEPT !.pc = "moveOn", !.screen = screen, !.signal = signal,
                            !.answer = IF screen = NoScreen THEN "noScreen" ELSE "screen"])

NothingEligible(p) ==
  /\ At(p, {"rotate"})
  /\ Candidate(p) = NoScreen
  /\ Show(p, NoScreen, "none")
  /\ UNCHANGED <<device, rows, moment, deviceKey, patch, bounds, ghosts>>

\* A remembered `hold` keeps the Screen's turn and its stored image
ServeHeld(p) ==
  /\ At(p, {"rotate"})
  /\ Candidate(p) \in Screens \ HtmlScreens
  /\ poll[p].view.signal[Candidate(p)] = "hold"
  /\ Show(p, Candidate(p), "hold")
  /\ UNCHANGED <<device, rows, moment, deviceKey, patch, bounds, ghosts>>

\* Slip: the turn is given up before the render, as if moveOnFrom came first
BeginRenderMovedOn(p) ==
  LET screen == Candidate(p)
  IN  /\ At(p, {"rotate"})
      /\ screen # NoScreen
      /\ screen \in HtmlScreens \/ poll[p].view.signal[screen] # "hold"
      /\ Become(p, [poll[p] EXCEPT !.pc = "render", !.screen = screen])
      /\ isActive' = {}
      /\ UNCHANGED <<device, order, deleted, renderSignal, moment, deviceKey, patch, bounds, ghosts>>
\* generateScreenImage reads the Screen's cached output afresh
BeginRender(p) ==
  LET screen == Candidate(p)
  IN  /\ At(p, {"rotate"})
      /\ screen # NoScreen
      /\ screen \in HtmlScreens \/ poll[p].view.signal[screen] # "hold"
      /\ Become(p, [poll[p] EXCEPT !.pc = "render", !.screen = screen])
      /\ UNCHANGED <<device, rows, moment, deviceKey, patch, bounds, ghosts>>

\* A write of a Render Signal by id: nothing when the Screen is gone.
WriteSignal(screen, signal) ==
  renderSignal' = IF screen \in Existing
                  THEN [renderSignal EXCEPT ![screen] = signal] ELSE renderSignal

\* An image, or the error Fallback Screen in its place
RenderedShown(p) ==
  /\ At(p, {"render"})
  /\ Show(p, poll[p].screen, "none")
  /\ UNCHANGED <<device, rows, moment, deviceKey, patch, bounds, ghosts>>

\* renderExternalLinkScreen saves the whole Screen row as LoadScreens read it.
\* Another Screen that has its Order number by now makes the unique
\* constraint refuse the row, and the error Fallback Screen is shown.
RenderedExternal(p) ==
  LET screen == poll[p].screen
      view == poll[p].view
  IN  /\ At(p, {"render"})
      /\ screen \in ExternalScreens \cap Existing
      /\ \A other \in Existing \ {screen} : order[other] # view.order[screen]
      /\ order' = [order EXCEPT ![screen] = view.order[screen]]
      /\ renderSignal' = [renderSignal EXCEPT ![screen] = view.signal[screen]]
      /\ isActive' = IF screen \in view.active THEN isActive \cup {screen} ELSE isActive \ {screen}
      /\ Show(p, screen, "none")
      /\ UNCHANGED <<device, deleted, moment, deviceKey, patch, bounds, ghosts>>

\* The same save of a Screen deleted meanwhile inserts its row again; the row
\* was read without its Device, so it belongs to none.
RenderedDeletedExternal(p) ==
  /\ At(p, {"render"})
  /\ poll[p].screen \in ExternalScreens \ Existing
  /\ orphans' = orphans \cup {poll[p].screen}
  /\ Show(p, poll[p].screen, "none")
  /\ UNCHANGED <<device, order, gone, isActive, renderSignal, moment, deviceKey, patch, bounds, ghosts>>

RenderedHeld(p) ==
  /\ At(p, {"render"})
  /\ poll[p].screen \notin ExternalScreens
  /\ WriteSignal(poll[p].screen, "hold")
  /\ Show(p, poll[p].screen, "hold")
  /\ UNCHANGED <<device, order, deleted, isActive, moment, deviceKey, patch, bounds, ghosts>>

\* A fresh `skip`: the next eligible Screen is tried in the same poll
RenderedSkipped(p) ==
  /\ At(p, {"render"})
  /\ poll[p].screen \notin ExternalScreens
  /\ WriteSignal(poll[p].screen, "skip")
  /\ Become(p, [poll[p] EXCEPT !.pc = "rotate", !.attempt = @ + 1, !.screen = NoScreen,
                               !.view = [poll[p].view EXCEPT !.passed = @ \cup {poll[p].screen}]])
  /\ UNCHANGED <<device, order, deleted, isActive, moment, deviceKey, patch, bounds, ghosts>>

-----------------------------------------------------------------------------
(* moveOnFrom, then the shown Screen is made the Active Screen.            *)

\* Slip: the Screen that was active stays so
TurnKept(list) == isActive
TurnCleared(list) == IF list = <<>> THEN isActive ELSE {}

MoveOn(p) ==
  /\ At(p, {"moveOn"})
  /\ isActive' = TurnCleared(poll[p].view.list)
  /\ Goto(p, "clearPick")
  /\ UNCHANGED <<device, order, deleted, renderSignal, moment, deviceKey, patch, bounds, ghosts>>

\* Whatever pick the row holds by now goes, if this poll started with one
PickCleared(seen, screen) ==
  IF seen.pickedScreen = NoScreen THEN device ELSE [device EXCEPT !.pickedScreen = NoScreen]

ClearPick(p) ==
  /\ At(p, {"clearPick"})
  /\ device' = PickCleared(poll[p].seen, poll[p].screen)
  /\ Goto(p, "activate")
  /\ UNCHANGED <<rows, moment, deviceKey, patch, bounds, ghosts>>

Activate(p) ==
  LET screen == poll[p].screen
  IN  /\ At(p, {"activate"})
      /\ isActive' = isActive \cup ({screen} \cap Existing)
      /\ WriteSignal(screen, poll[p].signal)
      /\ Become(p, [poll[p] EXCEPT !.pc = "acknowledge", !.view = NoView])
      /\ UNCHANGED <<device, order, deleted, moment, deviceKey, patch, bounds, ghosts>>

-----------------------------------------------------------------------------
(* acknowledgeOneShots, three writes in a row, then the answer leaves.     *)

\* Slip: a new key although the Device is not told to forget the old one
RotatesAtOnce(row) == row.resetDeviceNewApikey
Rotates(row) == row.resetDevice /\ row.resetDeviceNewApikey

\* Slip: a Wipe left pending
DeliveredKeepsWipe(row, seen, newKey) ==
  [row EXCEPT !.resetDevice = @ /\ ~seen.resetDevice,
              !.apikey = IF Rotates(seen) THEN newKey ELSE @,
              !.resetDeviceNewApikey = @ /\ ~seen.resetDeviceNewApikey]
\* What `delivered` writes, whatever the row holds by now
Delivered(row, seen, newKey) ==
  [row EXCEPT !.resetDevice = @ /\ ~seen.resetDevice,
              !.wipe = @ /\ ~seen.wipe,
              !.apikey = IF Rotates(seen) THEN newKey ELSE @,
              !.resetDeviceNewApikey = @ /\ ~seen.resetDeviceNewApikey]

\* Ghost bookkeeping: `carried` commands are off the books, and the `fired`
\* ones among them had to be owed
Fire(carried, fired) ==
  /\ owed' = owed \ carried
  /\ unasked' = unasked \cup (fired \ owed)

Acknowledge(p) ==
  LET seen == poll[p].seen
      answer == poll[p].answer
      carried == {c \in {"wipe", "resetDevice"} : seen[c]}
  IN  /\ At(p, {"acknowledge"})
      /\ Rotates(seen) => keys < MaxKeys
      /\ keys' = IF Rotates(seen) THEN keys + 1 ELSE keys
      /\ device' = Delivered(device, seen, keys + 1)
      /\ Fire(carried, {c \in carried : IF c = "wipe" THEN answer = "wipe" ELSE answer # "proxied"})
      /\ Goto(p, "ackFunction")
      /\ UNCHANGED <<rows, moment, deviceKey, patch, events, failures, lockedOut>>

\* Slip: the Special Function is cleared whatever the row holds by now
ClearedFunctionAlways(row, carried) == [row EXCEPT !.specialFunction = NoFunction]
\* Cleared only while the row still holds the one this poll carried
ClearedFunction(row, carried) ==
  IF row.specialFunction = carried THEN [row EXCEPT !.specialFunction = NoFunction] ELSE row

AcknowledgeFunction(p) ==
  LET function == poll[p].seen.specialFunction
  IN  /\ At(p, {"ackFunction"})
      /\ device' = IF function = NoFunction THEN device ELSE ClearedFunction(device, function)
      /\ Fire({function}, IF poll[p].answer = "proxied" THEN {} ELSE {function} \ {NoFunction})
      /\ Goto(p, "ackFirmware")
      /\ UNCHANGED <<rows, moment, deviceKey, patch, bounds, lockedOut>>

\* Cleared only while the pushed Firmware is still the target
ClearedPush(row, pushed) ==
  IF row.targetFirmware = pushed THEN [row EXCEPT !.updateFirmware = FALSE] ELSE row

AcknowledgeFirmware(p) ==
  LET pushed == poll[p].push
  IN  /\ At(p, {"ackFirmware"})
      /\ device' = IF pushed = NoFirmware THEN device ELSE ClearedPush(device, pushed)
      /\ Goto(p, "send")
      /\ UNCHANGED <<rows, moment, deviceKey, patch, bounds, ghosts>>

\* recordServed and the answer; a Device Reset makes the Device forget its key
Send(p) ==
  /\ At(p, {"send"})
  /\ deviceKey' = IF poll[p].seen.resetDevice /\ poll[p].answer # "proxied" THEN Erased ELSE deviceKey
  /\ Become(p, IdlePoll)
  /\ UNCHANGED <<device, rows, moment, patch, bounds, ghosts>>

\* A database error, a crash of the process, or an answer lost on its way:
\* the poll ends where it stands
Fail(p) ==
  /\ ~At(p, {"idle"})
  /\ failures < MaxFailures
  /\ failures' = failures + 1
  /\ Become(p, IdlePoll)
  /\ lockedOut' = (lockedOut \/ (At(p, {"ackFunction", "ackFirmware", "send"}) /\ Rotates(poll[p].seen)))
  /\ UNCHANGED <<device, rows, moment, deviceKey, patch, keys, events, owed, unasked>>

PollStep(p) ==
  \/ Authenticate(p) \/ AnswerWipe(p) \/ AnswerMirror(p) \/ AnswerAsleep(p)
  \/ LoadScreens(p) \/ NothingEligible(p) \/ ServeHeld(p) \/ BeginRender(p)
  \/ RenderedShown(p) \/ RenderedExternal(p) \/ RenderedDeletedExternal(p)
  \/ RenderedHeld(p) \/ RenderedSkipped(p)
  \/ MoveOn(p) \/ ClearPick(p) \/ Activate(p)
  \/ Acknowledge(p) \/ AcknowledgeFunction(p) \/ AcknowledgeFirmware(p) \/ Send(p)

-----------------------------------------------------------------------------
(* An admin's PATCH, "Regenerate now" and a Device's setup: the row is     *)
(* read, and all of it is saved again some awaits later (DevicesService,   *)
(* DeviceSetupService).                                                    *)

PatchLoad(a) ==
  /\ {"patch", "regenerate"} \cap Events # {}
  /\ events < MaxEvents
  /\ patch[a].from = "none"
  /\ patch' = [patch EXCEPT ![a] = [from |-> "admin", row |-> device]]
  /\ events' = events + 1
  /\ UNCHANGED <<device, rows, moment, deviceKey, poll, keys, failures, ghosts>>

\* What device-update-rules.ts lets through, judged on the merged row
Allowed(read, merged, change) ==
  /\ ~("targetFirmware" \in DOMAIN change /\ change.targetFirmware = NoFirmware /\ read.updateFirmware)
  /\ ("updateFirmware" \in DOMAIN change /\ change.updateFirmware) => PushPending(merged)
  /\ ~(merged.mirror = "proxied" /\ merged.wipe)
  /\ ~(merged.mirror = "proxied" /\ merged.resetDeviceNewApikey)

\* The one-shot commands a PATCH asks for
Asked(change) ==
  {c \in {"wipe", "resetDevice"} \cap DOMAIN change : change[c]}
    \cup (IF "specialFunction" \in DOMAIN change THEN {change.specialFunction} \ {NoFunction} ELSE {})

\* The save: every column as it was read, or as the PATCH changes it.  A pick
\* deleted in the meantime fails the foreign key.
Saved(a, row) ==
  /\ StalePatches \/ patch[a].row = device
  /\ row.pickedScreen \in Existing \cup {NoScreen}
  /\ device' = row
  /\ patch' = [patch EXCEPT ![a] = IdlePatch]
  /\ UNCHANGED <<rows, moment, poll, events, failures, unasked>>

PatchSave(a) ==
  /\ "patch" \in Events
  /\ \E change \in Changes :
       /\ patch[a].from = "admin"
       /\ Allowed(patch[a].row, Merged(change, patch[a].row), change)
       /\ Saved(a, Merged(change, patch[a].row))
       /\ owed' = owed \cup Asked(change)
  /\ UNCHANGED <<deviceKey, keys, lockedOut>>

RegenerateApikey(a) ==
  /\ "regenerate" \in Events
  /\ keys < MaxKeys
  /\ patch[a].from = "admin"
  /\ patch[a].row.mirror # "proxied"
  /\ Saved(a, [patch[a].row EXCEPT !.apikey = keys + 1])
  /\ keys' = keys + 1
  /\ lockedOut' = TRUE
  /\ UNCHANGED <<deviceKey, owed>>

\* The request is refused, or its handler fails before the save
PatchEnds(a) ==
  /\ patch[a].from # "none"
  /\ patch' = [patch EXCEPT ![a] = IdlePatch]
  /\ UNCHANGED <<device, rows, moment, deviceKey, poll, bounds, ghosts>>

\* /api/setup, once someone sets a Device up again that was reset, or that
\* was locked out and had its button held: its row is found by its MAC address...
LoadForSetUp(a) ==
  /\ deviceKey = Erased \/ lockedOut
  /\ patch[a].from = "none"
  /\ patch' = [patch EXCEPT ![a] = [from |-> "device", row |-> device]]
  /\ UNCHANGED <<device, rows, moment, deviceKey, poll, bounds, ghosts>>

\* ... all of it is saved with what the Device reports, and its key is answered
SetUp(a) ==
  /\ patch[a].from = "device"
  /\ Saved(a, patch[a].row)
  /\ deviceKey' = patch[a].row.apikey
  /\ lockedOut' = FALSE
  /\ UNCHANGED <<keys, owed>>

-----------------------------------------------------------------------------
(* What else happens around the polls.                                     *)

Event(kind) ==
  /\ kind \in Events
  /\ events < MaxEvents
  /\ events' = events + 1

ScheduleTurns(s) ==
  /\ Event("schedule")
  /\ s \in Existing
  /\ scheduleShuts' = IF s \in scheduleShuts THEN scheduleShuts \ {s} ELSE scheduleShuts \cup {s}
  /\ UNCHANGED <<device, rows, asleep, deviceKey, poll, patch, keys, failures, ghosts>>

SleepTurns ==
  /\ Event("sleep")
  /\ asleep' = ~asleep
  /\ UNCHANGED <<device, rows, scheduleShuts, deviceKey, poll, patch, keys, failures, ghosts>>

\* PickedScreenService.set: whether its Schedule shuts the Screen out is asked of the
\* moment of the next poll, when any Schedule may stand otherwise than now
PickScreen(s) ==
  /\ Event("pick")
  /\ s \in Existing \ isActive
  /\ device.mirror = "off"
  /\ Remembered(s) # "skip"
  /\ device' = [device EXCEPT !.pickedScreen = s]
  /\ UNCHANGED <<rows, moment, deviceKey, poll, patch, keys, failures, ghosts>>

\* "Back to Order"
ClearPickByAdmin ==
  /\ Event("pick")
  /\ device.pickedScreen # NoScreen
  /\ device' = [device EXCEPT !.pickedScreen = NoScreen]
  /\ UNCHANGED <<rows, moment, deviceKey, poll, patch, keys, failures, ghosts>>

\* A Screen's cached output is written or invalidated, or its HTML edited
RenewOutput(s) ==
  /\ Event("refresh")
  /\ s \in Existing \ ExternalScreens
  /\ renderSignal' = [renderSignal EXCEPT ![s] = "none"]
  /\ UNCHANGED <<device, order, deleted, isActive, moment, deviceKey, poll, patch, keys, failures, ghosts>>

\* Slip: every Screen moves up when one is deleted, not only those after it
AllMovedUp(s) == [t \in Screens |-> IF t = s THEN 0 ELSE order[t] - 1]
\* closeGapInOrder
GapClosed(s) ==
  [t \in Screens |-> IF t = s THEN 0
                     ELSE IF order[t] > order[s] THEN order[t] - 1 ELSE order[t]]

\* ScreensService.delete, undisturbed; the pick is set to null with its Screen
DeleteScreen(s) ==
  /\ Event("delete")
  /\ s \in Existing
  /\ order' = GapClosed(s)
  /\ gone' = gone \cup {s}
  /\ isActive' = isActive \ {s}
  /\ renderSignal' = [renderSignal EXCEPT ![s] = "none"]
  /\ scheduleShuts' = scheduleShuts \ {s}
  /\ device' = IF device.pickedScreen = s THEN [device EXCEPT !.pickedScreen = NoScreen] ELSE device
  /\ UNCHANGED <<orphans, asleep, deviceKey, poll, patch, keys, failures, ghosts>>

\* joinEndOfOrder; the id of a deleted Screen is never given again
AddScreen(s) ==
  /\ Event("add")
  /\ s \notin Existing \cup gone
  /\ \E last \in {order[t] : t \in Screens} :
       /\ \A t \in Screens : order[t] <= last
       /\ order' = [order EXCEPT ![s] = last + 1]
  /\ UNCHANGED <<device, deleted, isActive, renderSignal, moment, deviceKey, poll, patch, keys,
                 failures, ghosts>>

ScreenEvent(s) ==
  ScheduleTurns(s) \/ PickScreen(s) \/ RenewOutput(s) \/ DeleteScreen(s) \/ AddScreen(s)

AdminStep(a) == PatchLoad(a) \/ PatchSave(a) \/ RegenerateApikey(a) \/ PatchEnds(a)

SetUpStep(a) == LoadForSetUp(a) \/ SetUp(a)

Next ==
  \/ \E p \in Polls : PollStep(p) \/ Fail(p)
  \/ \E a \in Admins : AdminStep(a) \/ SetUpStep(a)
  \/ \E s \in Screens : ScreenEvent(s)
  \/ SleepTurns \/ ClearPickByAdmin

Spec == Init /\ [][Next]_vars

\* The Device polls again and again, and each step of a handler is some
\* await that settles; failures and admins are free to stop.
FairSpec == Spec /\ \A p \in Polls : WF_vars(PollStep(p))

-----------------------------------------------------------------------------
(* What the code is to guarantee.                                          *)

Views == [list: Seq(Screens), order: [Screens -> Nat], active: SUBSET Screens,
          signal: [Screens -> Signals], passed: SUBSET Screens]
PollRecords ==
  [pc: {"idle", "answer", "send"} \cup Choosing \cup Moving \cup Acknowledging,
   seen: Rows, stay: BOOLEAN, push: Firmware \cup {NoFirmware}, view: Views, attempt: Nat,
   screen: Screens \cup {NoScreen}, signal: Signals, answer: Answers]
Commands == {"wipe", "resetDevice", NoFunction} \cup Functions

\* The shape of every row and of what each handler carries between its steps.
TypeOK ==
  /\ device \in Rows
  /\ order \in [Screens -> Nat]
  /\ gone \in SUBSET Screens /\ orphans \in SUBSET Screens
  /\ isActive \in SUBSET Screens
  /\ renderSignal \in [Screens -> Signals]
  /\ scheduleShuts \in SUBSET Screens /\ asleep \in BOOLEAN
  /\ deviceKey \in 0..MaxKeys \cup {Erased}
  /\ poll \in [Polls -> PollRecords]
  /\ \A p \in Polls : At(p, {"render"}) => poll[p].screen \in Screens
  /\ patch \in [Admins -> [from: {"none", "admin", "device"}, row: Rows]]
  /\ keys \in 0..MaxKeys /\ events \in 0..MaxEvents /\ failures \in 0..MaxFailures
  /\ owed \in SUBSET Commands /\ unasked \in SUBSET Commands
  /\ lockedOut \in BOOLEAN

\* A Device has at most one Active Screen, whatever fails, is added, deleted
\* or saved back while a poll is answered (moveOnFrom and the update after it).
AtMostOneActive == \A s, t \in isActive : s = t

\* Until a poll's answer exists it leaves the turn where it stood, so that a
\* poll that fails is simply repeated: while it picks and renders, the Active
\* Screen is the one it read, unless that was deleted since.
TurnHeldUntilAnswered ==
  \A p \in Polls : At(p, Choosing \cup {"moveOn"}) => isActive = poll[p].view.active \cap Existing

\* The no-screen Fallback Screen is answered only when Rotation passes over
\* every Screen the poll read: the bounded loop of pickAndRenderScreen never
\* gives up while one is left.
NothingShownOnlyIfAllPassedOver ==
  \A p \in Polls : At(p, Moving) /\ poll[p].screen = NoScreen
                     => Range(poll[p].view.list) \subseteq poll[p].view.passed

\* A poll that carries a Picked Screen serves it, unless the pick lapsed: the
\* Screen is gone, its Schedule shuts it out, or it skips.  Only then may the
\* poll that clears the pick show another one.
PickServedOrLapsed ==
  \A p \in Polls :
    LET picked == poll[p].seen.pickedScreen
    IN  At(p, Moving) /\ picked \in Range(poll[p].view.list) \ poll[p].view.passed
          => poll[p].screen = picked

\* A one-shot command fires no more often than an admin asked for it.
FiresAtMostOnce == unasked = {}

\* Every answer's acknowledgement takes back only what that answer carried: a
\* command or a Firmware target an admin chose during the render stays.
ClearsOnlyWhatItCarried ==
  [][\A p \in Polls :
       At(p, Acknowledging) /\ poll'[p].pc # poll[p].pc /\ poll'[p].pc # "idle" =>
         /\ device'.specialFunction # device.specialFunction
              => device.specialFunction = poll[p].seen.specialFunction
         /\ device'.updateFirmware # device.updateFirmware
              => device.targetFirmware = poll[p].push
         /\ device'.wipe # device.wipe => poll[p].seen.wipe
         /\ device'.resetDevice # device.resetDevice => poll[p].seen.resetDevice]_vars

\* The Device and the server agree on the API key, except between a rotation
\* and the Reset that makes the Device ask for it, and once an admin replaced
\* the key at once or that Reset's answer was lost (ADR-0039).
KeyAgreement ==
  \/ deviceKey \in {Erased, device.apikey}
  \/ lockedOut
  \/ \E p \in Polls : At(p, {"ackFunction", "ackFirmware", "send"}) /\ Rotates(poll[p].seen)

\* Deleting a Screen loses it: no poll brings its row back.
DeletedStaysDeleted == orphans = {}

\* Rotation reaches every Screen: one that stays showable, on a Device that
\* stays awake, automatic and not mirrored and keeps its API key, is the Active
\* Screen again and again.
Showable(s) ==
  /\ s \in Existing /\ s \notin scheduleShuts /\ renderSignal[s] # "skip"
  /\ ~asleep /\ device.mirror = "off" /\ device.rotationMode = "automatic"
  /\ deviceKey = device.apikey
EveryShowableScreenIsReached ==
  \A s \in Screens : <>[]Showable(s) => []<>(s \in isActive)

=============================================================================
