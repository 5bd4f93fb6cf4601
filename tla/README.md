# A TLA+ verification of Kuroshiro

Kuroshiro is a self-hosted server for e-paper Devices: a Device wakes up, polls `/api/display`, draws the one picture it
is answered with and sleeps again. This directory models the parts of the server (`packages/api`, NestJS and PostgreSQL)
where several things happen at the same time, and one page of its admin UI, checks the models with TLC on small
instances, and proves the most important results with TLAPS for instances of any size.

The server is **one Node process**. JavaScript runs undisturbed from one `await` to the next, so a model's step is what
a handler does between two awaits, and a handler is a record with a program counter and the rows it has read on its way.
What makes the code hard is that a poll awaits for seconds (it may launch Chromium), and that everything else - other
polls, admins' requests, timers - writes the same rows meanwhile, mostly without a transaction.

## 1. Inventory

State in *italics* is a column of the database; everything else lives in the process and is lost with it.

| Component | State | Operations | What makes it hard | What makes it correct |
|---|---|---|---|---|
| Display poll (`devices/display.service.ts`) | *Device* row, *Screen.isActive, renderSignal, cachedPluginOutput* | `getCurrentImage`: authenticate, record the headers, answer by Wipe, mirror, sleep or Rotation, move the turn, acknowledge | reads once, awaits for seconds, writes one column at a time; may fail or lose its answer anywhere | one Active Screen; a failed poll leaves the turn; one-shots fire as often as asked; the Device can log in afterwards |
| Rotation (`schedule/rotation.ts`) | none (pure) | `nextEligibleScreen` | pick, Manual Rotation and the scan compete; wrap-around | eligible Screens only; none only if all are passed over; everyone's turn comes |
| Picked Screen (`screens/picked-screen.service.ts`) | *Device.pickedScreen* | set, clear | a poll in flight holds an old pick | served once, or dropped |
| Device administration (`devices.service.ts`, `device-update-rules.ts`, `setup.service.ts`) | *Device* row | create, PATCH, Regenerate now, remove, set up | loads and saves whole rows | undoes nothing a poll did |
| Screens and their Order (`screens/`) | *Screen.order*, image files | add, edit, delete, reorder, refetch | READ COMMITTED transactions that number rows | Order is 1..N; adds never fail each other |
| Plugin assignments (`plugin-assignments.service.ts`) | *device_plugin*, *Screen* | assign, unassign | foreign-key lock before `FOR UPDATE` | as above |
| Shared browser (`device-models/shared-browser.ts`) | `browserPromise`, `openPages`, `waiting` | `withSharedPage`, `closeSharedBrowser` | a cap, a queue, a process that dies | no slot lost, no Chromium lost, every render ends |
| Plugin scheduler, refresh, cache, fetch outcome (`plugins/services/`) | timers, generations; *cachedPluginOutput, fetchFailureStreak, lastScheduledRender…* | tick, boot, on-demand render | ticks overtake each other and hold the Plugin as loaded | what is saved last is shown last; the streak counts failures |
| Plugin administration (`plugins.service.ts`) | *Plugin* and its parts | create, save, delete, clear payload, boot | a save's follow-up runs after its commit | what is saved reaches every Screen |
| Webhook ingest (`webhook-ingest.service.ts`, `utils/oneAtATime.ts`) | per-Plugin queue; *webhookPayload* | POST, clear | POSTs overlap, each with the Plugin its guard loaded; the queue covers POSTs only | each POST takes effect once, on all before it; the last payload is the one drawn |
| OAuth tokens (`plugin-oauth.service.ts`) | per-Plugin queue; *refreshed tokens* | use, refresh when due, refresh once when refused | Data Sources share a token and are refused together; check, then update | pasted tokens win; no spent refresh token is sent again |
| Alerts and the Sweep (`alerts/`) | *Alert* | sweep: open, resolve, send a digest, stamp | row by row, then send, then stamp row by row; a send may be delivered unanswered | one Active Alert per subject; each announced once, and in the end |
| Firmware (`firmware/`) | *Firmware*, binaries, *Device.targetFirmware, pendingFirmwareUpdate* | sync, upload, delete, auto-update, "Catch up now" | binary before row; whole rows saved; row by row | a row has its binary, a push its Firmware; the feed is followed; the policy reaches everyone |
| Schedules, Sleep mode (`schedule/`, `devices/sleep-mode.ts`) | *Schedule*, sleep window | eligible at a moment, seconds until the end | windows over midnight, clock changes | the window's meaning, minute by minute |
| Mashups (`mashup/`) | *cached output, slot markup, signals, live markup* | create, save, draw | signals read once per cached output and stored slot by slot, while Plugins refresh | signals are those of what is cached; nothing is shown that asked not to be |
| Recipes (`plugin-importer/-exporter`, `recipe-update`) | *Plugin*, *Recipe Snapshot* | import, export, check, apply | apply is one write per item, the Snapshot last | what was not written is offered again; nothing is written that was not shown |
| Data fetch, transforms, templates | *Saved State* | fetch, run, render | timeouts, worker threads | errors become values |
| Device Models, Palettes, Fallback Screens, previews | *rows synced from TRMNL*, files | sync, resolve, draw | missing-check then draw | a picture of the right size |
| Configuration archive (`configuration/`) | every record, image files, timers | export, check, import | one transaction beside registering Devices; images and timers after its commit | hardware keeps its API key; nothing is left of a rollback |
| Device page (`ui/src/pages/devices/useDeviceSetting.ts`) | the control, what was read, what is being saved | choose, type, save, re-read | saves and reads answer in any order or not at all | the control shows what the Device has |
| Sensors, logs, maintenance, retention, settings, metrics | rows and files | record, prune | - | - |
| Other pages of the UI, shared package, site | none the server relies on | - | - | - |

How they interact: a poll calls Rotation, the shared browser and the on-demand render of a Plugin or Mashup; it shares
the Device row with administration, setup, picks and the firmware auto-update, and the Screen rows with the Order's
transactions and with the ticks of the scheduler; saves of a Plugin restart its timer and start a tick without awaiting
it; the Sweep reads what the polls (`lastSeen`) and ticks (the streak) have written. `PROJECT.json` names each component's
files, whether it is modelled, and under "hazards" every place where this code can go wrong in a way a test would hardly
reach, with the property that watches it or the reason none does yet.

## 2. Modules

| Module | Models | Uses |
|---|---|---|
| `Rotation` | `schedule/rotation.ts`: the choice of the next Screen, as operators | |
| `DisplayPoll` | one Device: its polls, PATCHes, picks, Schedules, deletes and adds | `Rotation` |
| `ScreenList` | what the Order promises: one list of Screens (abstract) | |
| `ScreenOrder` | the Order as transactions of statements in PostgreSQL | implements `ScreenList` |
| `SharedBrowser` | `device-models/shared-browser.ts` | |
| `PluginRefresh` | one Poll-kind Plugin: timer, ticks, saves, cached output | |
| `MashupRender` | one Mashup: its slots, their Render Signals, its cached output and image | |
| `RecipeUpdate` | the Recipe Update Check and its apply | |
| `FifoLock` | what `oneAtATime` promises: a line per key whose first alone works (abstract) | |
| `OneAtATime` | `utils/oneAtATime.ts`: a chain of promises per key | implements `FifoLock` |
| `WebhookPayload` | what a Webhook promises its senders: each POST takes effect at once, and once (abstract) | |
| `WebhookIngest` | the POSTs to one Webhook, clears, saves, deletes, drawing | `FifoLock`; implements `WebhookPayload` |
| `OAuthToken` | the tokens of one OAuth Plugin and the polls that share them | `FifoLock` |
| `AlertSweep` | the Sweep, its digest and its stamps | |
| `FirmwareUpdate` | the Firmware library, the sync, Firmware Auto-Update and pushes | |
| `ConfigurationImport` | Configuration Import and its check | |
| `DeviceSetting` | one setting of a Device on its page | |
| `SleepWindow`, `ScheduleWindow` | Sleep Mode's and a Schedule's hours on the server's clock | |
| `MCDisplayPoll`, `MCScreenOrder`, `MCPlugins`, `MCQueues`, `MCAlertSweep`, `MCBackground`, `MCAdministration` | the components a run has, side by side, and values for TLC | the modules they are about |
| `DisplayPoll_proofs`, `MCPlugins_proofs`, `MCQueues_proofs`, `AlertSweep_proofs`, `MCBackground_proofs`, `MCAdministration_proofs`, `MashupRender_proofs`, `RecipeUpdate_proofs` | the theorems | the module they are about |

A definition commented "Slip:" is not part of a model. It is a plausible mistake in the definition next to it; put in its
place, TLC finds the property that watches it violated. `PROJECT.json` lists one for every property of every passing run.

An action that changes several fields of one handler's record writes that record once, from the old one
(`[r EXCEPT !.a = ..., !.b = ...]` inside a single `![p] = `): tlapm 1.4.5 does not read `[f EXCEPT ![p].a = ..., ![p].b = ...]`
as TLC does, and a proof about such an action would show nothing.

### DisplayPoll

`device` holds the columns of the Device row that polls and admins both write; `order`, `isActive`, `renderSignal` the
Screens' columns. `poll[p]` is one call of `getCurrentImage`: `seen` is the Device as `authenticateDevice` read it, `view`
the Screens as `buildRotationResponse` read them. Its actions follow the code's order:

| Action | Code |
|---|---|
| `Authenticate` | `authenticateDevice`, `applyHeaderReport`, `fireOneShots` |
| `AnswerWipe`, `AnswerMirror`, `AnswerAsleep` | the answers that leave Rotation alone |
| `LoadScreens`, `NothingEligible`, `ServeHeld`, `BeginRender` | `pickAndRenderScreen`, up to the render |
| `RenderedShown`, `RenderedExternal`, `RenderedDeletedExternal`, `RenderedHeld`, `RenderedSkipped` | what the render comes to; a fresh `skip` goes round the loop again |
| `MoveOn`, `ClearPick`, `Activate` | `moveOnFrom`, `clearPick`, the update of the shown Screen |
| `Acknowledge`, `AcknowledgeFunction`, `AcknowledgeFirmware` | the three updates of `acknowledgeOneShots` |
| `Send` | `recordServed`, and the Device that gets the answer |
| `Fail` | a database error, a killed server, a lost answer, at any step |
| `PatchLoad`, `PatchSave`, `RegenerateApikey`, `PatchEnds` | `DevicesService.update`, `regenerateApikey` |
| `LoadForSetUp`, `SetUp` | `setupDevice`, which saves the whole row it has read as a PATCH does |
| `ScheduleTurns`, `SleepTurns`, `PickScreen`, `ClearPickByAdmin`, `RenewOutput`, `DeleteScreen`, `AddScreen` | what else happens to these rows |

`deviceKey` is the API key the Device itself holds. `owed`, `unasked` and `lockedOut` are history: commands asked for and
not fired, commands fired without being asked for, and whether a new key's answer was lost.

Abstractions. A Schedule is whether it shuts its Screen out now, and it may turn at any moment; so may the sleep window
(`ScheduleWindow` and `SleepWindow` are about what makes them turn);
whether a Schedule will shut a picked Screen out at the next poll, which `PickScreen` asks, is therefore open. The three images of a Render (a picture, the error
Fallback Screen, a held picture) are one. What a poll reports of the Device, refresh rates, file names and the frozen
image of a sleeping Device are left out: they are written to columns of their own. The Device in `Init` has had its first
poll (a new one is registered with a Special Function pending). A Screen once deleted does not come back under its id.

### ScreenOrder

`order` is what is committed; `op[o].wrote` what transaction `o` has written and not committed, so a statement of `o` reads
`Rows(o)`. A written row is locked until the transaction ends (`RowHolders`), the Device's row is locked `FOR UPDATE` by
`joinEndOfOrder` (`locked`) and shared by a foreign key of `assign` (`sharing`), `UQ_screen_device_order` is checked at the
commit (`Clash`), and a circle of waiting transactions is broken (`Deadlocked`). `todo` is the set of updates `writeOrder` has still
to make, the one of the lowest number first. `Listed`, the Screens by their committed Order, is the refinement mapping to `ScreenList`. The PostgreSQL half is modelled from its
documented behaviour and marked external in the map. `update`s that `writeOrder` starts together are made one after the
other on the transaction's one connection, in the order they are started. `Promise.all` changes no more than that.
Unassigning and deleting a Plugin change the Order as a delete does.

### SharedBrowser

`render[r].pc` stands at an await of `withSharedPage`; `browserPromise` names the launch whose promise the variable holds;
`browser[b]` is how that launch came out. `Crash` is Chromium disconnecting. A launch nobody refers to any more gives its
name back, so a finite set of names is enough. `closeSharedBrowser` happens once, when the Instance stops.

### PluginRefresh

A Plugin is its version: how often it had been saved when it was loaded, so "is stale" is "is smaller". `job` is the Plugin
the timer's closure holds, `newest` the tick with the newest generation, `cached[s]` the version whose output Screen `s` has
cached, `onDemand[s]` the version a poll is rendering for it. A tick goes `Fetch`, `RecordOutcome`, `Render`, `WriteOutput`
Screen by Screen, `RecordRender`, and is dropped (`Drop`) wherever `dropAsSuperseded` is asked (`Continue`), which is not between
two of its `WriteOutput`s. A save goes `LoadForSave`,
`SavePlugin`, `Invalidate`, `Reload`, `Reschedule`. `CrashAndBoot` loses all that is in the process.

Abstractions: one Data Source in `fetch` mode; Saved States, Mashup caches, dates and error texts are left out; the database
calls of a save's follow-up are taken to succeed (when one fails, the code logs it and the old timer stays); the boot's
delays are nothing but "some time later". The Plugin is always renderable (it has a `full` Template and Data Sources).

### MashupRender

`slot[s]` is a slot's row: the `markup` it was last cached with, the Render `signal` that raises on a page of its own, and
the `live` markup it last drew without being told to hold. `cached` is the whole page's cached output, `read` whether its
slots' signals count as read, `image` what the Mashup shows. A render goes `RenderSlots`, `KeepMarkup` slot by slot,
`ForgetSignals`, `Cache`, `DrawPage`; when the page raises a signal `ReadSignal` slot by slot; then `SkipOrHold`,
or `DrawAnyway` and `DrawSlots` (the redraw with held and left-out slots). `Record` keeps the live markup
slot by slot, after the page was drawn whole (then `Return`) or before it is drawn by slots. `Refresh` and `Invalidate` are the two steps of a Plugin's tick
as the Mashup sees them, `Update` an edit, which replaces the slots; `Fail` is a render that throws or is killed.

### RecipeUpdate

`upstream`, `local` and `snapshot` are the three sides of the diff, by key. `Load` ... `ShowPreview` is the check; `Load`, `Begin`,
`ApplyItem` per item, `Finish` is the apply, whose `run.local` is the Plugin as loaded. `Refuse` is the preview that is no longer
true, `InsertRefused` the unique key of an item that came meanwhile (Templates and Data Sources have one, as the run's rows do; Plugin Fields do not), `Fail` a failed write or a killed server. A header of
the admin's own on a Data Source is the `own` of an item. Import and export convert files and are left out.

### OneAtATime, WebhookIngest, OAuthToken

`OneAtATime` has the map (`tail`), the promise each run is chained to (`after`), and, as history, each key's `line`. It is shown
to implement `FifoLock`, and the two users queue with `FifoLock` instead of the chain: what is shown of them holds of them
on the real one.

`WebhookIngest`: a POST goes `Guard` (which loads the Plugin), `Enqueue`, and in its turn `Merge`, `Store`, `WriteOutput` Screen by
Screen, `Leave`. A payload is the sequence of the POSTs whose data is in it, which tells the three Merge Strategies apart. `Clear`, `Save` and
`Poll` do not queue and run beside the POSTs, but for a clear between a POST's read of the payload and its update (`ClearBetween`).
A POST to a stream without a Stream Limit, which only an import can make, is refused in its turn (`Limitless`). `disturbed` is history:
what is stored now was stored while something older was still to be drawn, or its own drawing was cut short. `WebhookPayload` is its abstract specification.

`OAuthToken`: a token is a grant (a pasting) and its number within the grant. `Begin`, `Ask`, `Turn`, `Load`, `Send`, `Check`, `Keep`, `Leave`
are the awaits of `getAccessToken` and its refresh; `PollUnauthorized` is the 401 that refreshes once more. The provider is external:
it rotates refresh tokens or does not, and its answer may be lost after it was counted.

### AlertSweep

`alert[a]` is a row, `sweep[w]` a call of `sweep()`: `Start`, `CollectPending`, `BeginRule`, `SweepSubject` per subject (`Open`, `StillActive`, `Resolve`, `Skip`),
then `Deliver` or `NothingSent` or an error, then `Stamp` row by row. `sweeping` is the promise callers share. What a Rule says of a
subject is one of four levels: over the line, between the two lines of a hysteresis, good, unknown. `sent`, `aged` and `again` are
history: what was announced, whose Reminder Interval has passed, and what a fault kept from being stamped.

### FirmwareUpdate

A Firmware is the number it was made under, and its binary has that name: `row` are the rows, `file` the binaries. The sync
goes folder by folder (`Realign`, `Skip`, `Download`, `WriteFile`, `Insert` with its deprecations, `ApplyPolicy`, `Assign` Device by Device); an
upload goes `CheckUpload`, `WriteUpload`, `SaveUpload`; a delete `Delete`, `Unlink`. `PatchLoad`/`PatchSave` and `CatchUp`/`CatchUpAssign` save a Device as they
read it. `device[d].runs` is the Firmware a Device last reported. `ModelOf` is each Device's Device Model, if it has one; it does not change while the model runs. `owed` is history: the Devices the policy has still to reach.

### ConfigurationImport

`db` is what is committed, and within the import `run` holds its own writes over it (`Over`): READ COMMITTED. Records go in
the archive's order through `UpsertUnique`, `SaveDevice`, `UpsertScreen`, `ReplaceSettings`; then `Commit`, `CommitRefused` (the deferred
constraint) or `RollBackCheck`; then `WriteImage` and `Schedule`. Beside it a Device sets itself up (`SetUpKnown`, `SetUpLook`, `SetUpSave`) and an
admin adds and deletes Screens, waiting for the rows the import holds. `hardware` is what each Device's own memory has.

### DeviceSetting, SleepWindow, ScheduleWindow

`DeviceSetting` composes `useSaveAsChanged`, `useLoad` and `useDeviceSetting`: `save` holds the saves under way, `load` the reads under
way; `Choose`, `Type`, `Leave`, `Retry` are the admin; answers arrive in any order (`SaveAnswered`, `LoadArrives`) or not at all.

The two windows are pure. `SleepWindow` has a clock that skips or repeats an hour on one day, JavaScript's `Date` as its calendar
(`At`, `PlusDays`), and a Device that polls when it is told to. `ScheduleWindow` lets the clock run through a few days for every
Schedule out of small sets. Both are checked against what the wall clock shows, moment by moment.

## 3. Runs

Components that share no state are run together in one MC module: a behaviour is one of a single component, `part`, and the
others stand still. No property speaks of two of them, so nothing is lost by it, and nothing but their sum is explored.

| Run | Instance | Shows |
|---|---|---|
| `rotation` | 3 Screens (cached, `html`, External link), any initial Order of any of them, 1 poll handler, 2 events of schedule/pick/delete/add/refresh/sleep at any await, 1 failure | `TypeOK`, `AtMostOneActive`, `TurnHeldUntilAnswered`, `NothingShownOnlyIfAllPassedOver`, `PickServedOrLapsed` |
| `commands` | 2 Screens, 2 events of schedule/pick/PATCH/Regenerate now, PATCH bodies for Wipe, Special Functions, Firmware and mirroring, 2 Firmwares, 2 Special Functions, 1 failure, 2 new keys, fair polls | `FiresAtMostOnce`, `KeyAgreement`, `ClearsOnlyWhatItCarried`, `EveryShowableScreenIsReached` |
| `plugins` | `PluginRefresh`: 1 Screen, 2 ticks in flight, 1 admin, 1 save, a delete, 1 failure, 1 crash, streak up to 2. `MashupRender`: 2 Plugins that draw, skip or hold, 1 render, 1 edit, 2 refreshes. `RecipeUpdate`: a column and two rows, 2 contents, 1 edit, 1 change of the Recipe, 1 fault | `OverlappingTicksDoNoHarm`, `SavedIsReached`; `SignalsAreOfCached`, `NothingSignalledIsShown`; `ChosenIsOfferedAgain`, `OnlyWhatWasShown` |
| `queues` | `OneAtATime`: 4 runs, 2 keys and none. `WebhookIngest`: 3 POSTs of which one is an array, each Merge Strategy, a stream of 1, a clear/save/poll. `OAuthToken`: 2 polls, 1 further pasting, 2 refreshes of a grant, 1 fault | `EveryRunIsServed`, `LockSpec`; `PayloadSpec`, `DrawnIsStored`; `StoredIsOfPasted`, `SpentOnlyAfterUnkept` |
| `alerts` | 1 Rule, 1 subject, 2 Alerts, 2 callers of `sweep`, 4 levels, Reminders, 1 fault | `OneActivePerSubject`, `AnnouncedOnce`, `RemindersKeepTheInterval`, `ResolutionIsAnnounced` |
| `background` | `SharedBrowser`: 3 renders, 2 slots, 4 launches of which 2 break, a close. `ScreenOrder`: 3 Screens, 2 transactions of every harmless pair. `FirmwareUpdate`: a feed that adds a folder and withdraws a version, 1 sync, 1 upload, 1 fault, outages | `SlotsAccounted`, `NoStrayBrowser`, `EveryRenderEnds`; `Sequential`, `ListSpec`; `FeedIsFollowed` |
| `administration` | `FirmwareUpdate` twice: 1 Device, 2 uploads, stale PATCHes, 3 Firmwares, 1 fault; 2 Devices of 2 Device Models, the policy switched, "Catch up now". `ConfigurationImport`: 4 archives on 3 databases, 1 key, 1 fault. `DeviceSetting`: 3 saves, 3 reads, 1 lost. The windows: days of 8 units (hours of 2), 5 days of sleep; weeks of 3 days up to moment 31 | `BinariesMatchRows`, `PushHasTarget`, `PolicyReachesEveryone`; `HardwareStaysKnown`, `ImagesHaveScreens`, `RestoredAsArchived`; `SentIsShown`; `EndsAsTheClockReads`; `WindowsBelongToTheirDay` |
| `stale_patch` | a PATCH that saves what it read before a poll | violates `FiresAtMostOnce` |
| `revived` | a Screen deleted while a poll fetches its link | violates `DeletedStaysDeleted` |
| `two_deletes` | 2 overlapping deletes | violates `Sequential` |
| `sleep_end` | the night after the clock skipped the wake time | violates `NextAgreesWithLast` |
| `setting_shown` | a choice taken back while its save is under way | violates `EnteredFollowsSaved` |

**Why the bounds are enough.** Three Screens are the fewest on which the scan wraps past a passed-over Screen to another
one; two leave nothing to choose between. Two events let the world change both before and during a poll, and polls are
not bounded: every state a sequence of polls can reach is reached. Two admin requests are a command and the change of
mind or the mirroring that forbids it. Two slots and three renders are the fewest with a queue; two breaks give a launch
that fails after a browser that crashed. Two ticks and one save are the fewest with an overtaken tick. Two Plugins are the
fewest of which one signals and one does not; two refreshes put one before and one after what a render has read. Four runs
put three in the line of one key beside one of another. Three POSTs are the fewest in which one comes between two others
and a stream drops one. Two polls and two refreshes are the fewest in which a token is refused that was refreshed already.
Two Alerts of a subject are one that resolves and one that opens after it. One fault may fall at every step of every one of
the handlers, and again none, so that whatever a fault leaves behind meets a whole run after it. Three Firmwares are one
withdrawn, one current and one that is uploaded. Three saves and reads overtake each other in every order. A day of eight
units with an hour of two has windows inside the skipped and the repeated hour, across midnight, and neither; weeks
of three such days have every kind of window begin, end and overlap on each.
`MaxKeys`, `MaxStreak`, `MaxSaves`, `MaxFailures`, `MaxFaults`, `MaxCrashes`, `MaxBreaks`, `MaxEvents`, `MaxUpdates`, `MaxRefreshes`, `MaxChanges`,
`MaxVersions`, `MaxPastings`, `MaxAlerts`, `MaxFirmwares`, `MaxLoads`, `MaxLosses`, `Days` and `Last` only bound counters. `administration` treats its
uploads as alike; the runs with liveness properties use no symmetry.

**What the passing runs assume**, each because the code does not guarantee more:

* `rotation` and `commands` have one poll handler: a Device polls again after it has been answered or has given up. When the
  server is still rendering by then, two polls of one Device overlap, and may leave two Active Screens (`display.service.ts:324-330`
  clears and sets in two writes) and carry a one-shot twice.
* `StalePatches` and `StaleSaves` are FALSE: a PATCH, a setup, and a save of a Plugin, reads and writes without another handler writing the same row in
  between. `stale_patch` drops the first; a save that overlaps a tick writes back the streak it read (`plugins.service.ts:491`).
* `plugins` has one admin request at a time: of two saves that overlap, the older may reload late and be the last to reschedule, and
  then the timer keeps the older Plugin until the next save or start. A delete between a save's read and its rescheduling needs two as well.
* An overtaken tick finishes the loop of writes it is in (`plugin-render-cache.service.ts:76` is asked once before it), so a Screen may show
  the older Plugin's output until the next tick. `OverlappingTicksDoNoHarm` exempts these writes and no others.
* `ScreenOrder` lets every pair of transactions overlap that keeps the Order whole: adds with adds, assigns and reorders. Deletes
  run alone there; `two_deletes` shows why. Two assigns at once end in a deadlock the database resolves by failing one of them.
  Two overlapping reorders each write only the Screens that moved from where they read them, so they may leave a third Order, or
  fail at their commit: sequential, and nobody's wish.
* `WebhookIngest` has `ClearBetween` FALSE: a clear (`plugins.service.ts:592`) between what a POST reads and its update is undone by the POST.
  `DrawnIsStored` needs no such assumption, and says itself what may be drawn last instead of what is stored: what a clear, a save or a poll
  had loaded before and was still drawing when it was stored, or a POST whose guard read the Plugin before it was saved, until the next drawing.
* `OAuthToken` has `SaveBetween` FALSE: tokens pasted between a refresh's check and its update (`plugin-oauth.service.ts:104`, one await) are overwritten.
  A poll also keeps using the Field Values it has loaded.
* `MashupRender` has one render, and no edit while it lasts (`Overlap` FALSE): two renders of one Mashup, or one and an edit, leave signals
  of markup that is no longer cached.
* `RecipeUpdate` has one check or apply at a time. Two applies of an added Plugin Field make two rows of it; an edit between check and apply
  of an item the diff offers anyway is overwritten; a crash between saving a retyped field and clearing its value leaves
  the value.
* `SleepWindow`'s clock changes on the hour and by an hour. `DeviceSetting`'s server takes saves in the order in which they are sent, and there is one tab.
* PostgreSQL runs READ COMMITTED, which is its default and what the server uses.

**Deadlock** is checked in the two passing runs of `DisplayPoll`. In the others a system may really stop: a deleted Plugin, an Instance that was
closed, POSTs that were all sent, a library that is full.

**Fairness.** `DisplayPoll!FairSpec`: each poll handler takes its steps - the Device's timer brings it back, and each await of a
handler settles, since queries, downloads, page loads and launches have timeouts. Admins, Schedules and failures are free
to stop, and failures are bounded. `SharedBrowser`: a render that has its slot proceeds, and a launch settles; that a waiting render
is served is not assumed but follows. `PluginRefresh`: the interval fires and each await
settles; admins need not begin anything, but what they began goes on. Ticks of the timer do not overlap each other, since
the interval is a minute at least and requests (10 s) and transforms (5 s) are cut off; ticks of saves overlap everything.
`OneAtATime`: a run that may work does, its work settles (the callers' timeouts), and it leaves. `AlertSweep`: the cron job goes on, each await of a sweep
settles, and, with strong fairness, a digest that is sent again and again is delivered in the end: the notifier is external,
and no code can announce anything through one that never answers. `FirmwareUpdate`: the daily job goes on, awaits settle, and outages
of the feed end (`OutagesEnd`), as nothing could be followed otherwise.
`EveryShowableScreenIsReached` holds of a Screen from some moment on showable for good (automatic Rotation, awake, not mirrored).

## 4. Findings

1. **A PATCH fires a Wipe twice** (`stale_patch`): `devices.service.ts:69` saves the whole row as it was read, so the Wipe a poll
   acknowledged meanwhile is pending again. The poll's own comment (`display.service.ts:209`) avoids exactly this; the
   PATCH does not. The same save may bring back an old API key.
2. **A deleted External link comes back** (`revived`): `display.service.ts:833` saves a Screen it read before the download, and
   `save` inserts a row that is gone. It belongs to no Device, so no admin sees it again.
3. **Overlapping deletes leave a gap** (`two_deletes`): `screens.service.ts:227` does not take the lock adds take.
4. **After a skipped wake time the next night's end is an hour late** (`sleep_end`): `sleep-mode.ts:45` counts on from the
   shifted time of day.
5. **A control shows a value that was never saved** (`setting_shown`): `useDeviceSetting.ts:60` follows the Device's value only
   at the moment it changes, and a choice taken back during its save is no change.

Besides, the models showed these, which no document of the repository contradicts. They are the assumptions above, and:

* *Firmware*: a push that is pending is replaced by the policy's; "Catch up now" hands out a Firmware that a sync deprecates in the same
  moment; a sync that dies after its insert leaves the policy unapplied for that Firmware, as the next finds it known.
* *Alerts*: with no Apprise URL set nothing is pending, and what resolved meanwhile is never announced.
* *Configuration*: a check says all is well where the import's commit fails at `UQ_screen_device_order`; an image that cannot be written
  skips the timers after it; the export is several reads, not a snapshot.
* *Images on disk*: concurrent replaces of one Screen's image interleave their renames, the cleanup scan reads the Screens
  before the files, and a delete removes the files before the row.

## 5. Proofs

All hold for every value of the constants that satisfies the named assumptions of the modules, and those named here: any number of
Screens, Devices, handlers, faults, versions. A component that a run shows beside others is proved about as part of that MC module,
from the same specification the run checks (`PluginsSpec`, `QueuesSpec`, `BackgroundSpec`, `AdministrationSpec`): the invariant is the component's, and
the others leave its variables alone. The components' own operators are reached there through the run's instances (`Order!Listed`).

### DisplayPoll_proofs

* `NextEligibleScreenIsEligible`: the choice is a Screen of the list that is not passed over, and there is none
  only if all are passed over. The modulus of the scan reaches every position, which is the lemma it rests on.
* `TypeCorrect`, for any number of polls and admins.
* `NothingShown`: the bounded loop gives up only when every Screen is passed over. `TypeOK` is not enough: the
  invariant (`LoopInv`) counts: every attempt has put one more Screen of the list among those passed over, so running out of
  attempts means that all are. Cardinalities come from `FiniteSetTheorems`.
* `PickServed`, for polls that overlap: on top of `LoopInv`, `PickInv` says that while the pick a poll carries
  is listed and not passed over, what the poll turns to is the pick. That a choice is made at all then is what `LoopInv` gives.
* `OnlyCarriedCleared`: an action property; an acknowledgement compares what the row has with what the poll has seen.
* `OneActiveScreen` and `TurnHeld`, from the assumption `OnePollAtATime`. One invariant (`TurnInv`) proves both:
  while the poll chooses and renders, the Active Screens are those it read that still exist, at most one, and between
  `MoveOn` and `Activate` there are none. Neither property is inductive alone: `Activate` adds a Screen to whatever is
  active, and the whole-row save of an External link writes back what the poll read.
* `KeysAgree`, where no PATCH or setup is stale (`~StalePatches`) and for polls that overlap: a poll that has rotated
  the key must carry the Reset in its answer, and `KeyInv` says why it does: a Proxied Device is never given a new key this way, and
  TRMNL's own image is the answer to a Proxied Device only.
* `OneShotsFireOnce`, from both assumptions: `FireInv`: what the row still holds, and what the poll under way is yet to fire of
  what it read, is owed.

### MCPlugins_proofs, MashupRender_proofs, RecipeUpdate_proofs

* `RefreshTyped`, and `StreakCounted` where no save is stale (`~StaleSaves`): `StreakCountsFailures` is inductive as it
  stands, since every write of the streak starts from the row's own and none from a tick's old copy. That is why ticks may overlap; a stale save is the exception.
* `OvertakenIsDropped`, where requests come one at a time (`OneRequest`): once no save is under way, the tick of the newest generation works on the
  Plugin as saved, and the timer and its reload hold it (`WorkOnSaved`); every other tick is dropped before it writes, but in its loop of writes. `TicksDoNoHarm` is
  the two together, which is what the run checks.
* `SignalsOfCached`, `NothingSignalled`, `SilentOnly`, for one render that no edit overlaps (`OneRender`): a render works on rows that are
  still those it has loaded or written (`WorksOnRows`), nothing is cached while slots are rendered anew (`RendersAnew`), and `read` is FALSE until
  the last slot's signal is that of the page (`DrawsCached`). `SilentOnly` is the action property `SkipsOnlyInSilence`: a render that honours Render Signals
  skips or holds the Mashup only when every slot signals, and goes on to draw by slots only when one does not. One that does not honour them (after a save) draws an empty page
  of skipped slots, as the code does. `SilentOnly` is proved and no run lists it.
* `OfferedAgain`, `AsShown`: until the last item is written the Recipe Snapshot is the one the run has loaded, and
  what was chosen still differs from it (`AskedIsOffered`); what is applied is on the page that is open (`RunIsOfPage`).
* `MCPlugins_proofs` takes the last two modules as instances, so that its theorems are about the run's `PluginsSpec`.

### MCQueues_proofs

* `MutualExclusion` and `Implements`: the chain of promises is the line (`ChainIsLine`): each run waits for the one before
  it in its key's line, once, and the map's entry is the last. With it every step is one of `FifoLock` under the mapping
  `working <- {r : pc[r] = "working"}`, or a stutter.
* `StoredOfPasted`, `SpentAfterUnkept`, where no tokens are pasted between a refresh's check and its update (`~SaveBetween`). A poll's copies of
  the tokens outlive the row they are of, so `OAuthInv` speaks of the copies: a poll that refreshes with the Field Values that are still
  saved refreshes their grant (`RefreshesOfPasted`), and while every answer was kept, the last of the grant is stored or on its way there
  (`StoredIsLast`). A provider that rotates is told from one that does not by the tokens alone (`OfProvider`).
* `DrawnAsStored`, from no assumption, and `EveryPostCounts`, where no clear comes between a POST's read and its update (`~ClearBetween`): only the POST at the
  head of the line has read what is stored (`PostsTakeTurns`), so what it merged onto is still stored when it stores, and while nothing disturbed the drawing of what is stored,
  whoever draws holds that (`TasksCurrent`), and a Screen that shows something else is in the hand of a task that will draw it (`DrawnOrRedrawn`). The second is the refinement: a POST takes effect in `WebhookPayload` when it is stored, a clear when it
  empties the row, and everything else stutters.

### AlertSweep_proofs

* `OneActive`, `NothingTwice`, `Reminders`: only one sweep is under way; it holds every Active Alert of the subjects it has still to visit
  (`HeldIsActive`), so it opens none beside one; what was announced is stamped or being stamped (`AnnouncedIsStamped`), and what an unsent digest
  holds was not announced (`DigestIsNew`), but for the Alerts in `again`.

### MCBackground_proofs

* `BrowserTypeCorrect`, `SlotsAreAccounted`, `NoBrowserIsStray`. The slots need that `waiting` holds waiting renders only, each once, so that a
  slot is never handed to a render that has one; the browsers need that there is nothing to close before the Instance
  stops, and a lemma that a render drops no promise but that of a launch it has seen dead or failed.
* `OrderStaysSequential` and the refinement `OrderIsAList`, where a delete is served when nothing else is (`DeletesAlone`, which the run's pairs satisfy). The
  invariant `OrderInv` says of every transaction what it has written and will still write in terms of the rows committed *now*: one that joins has the
  lock and writes the number after the last (`JoinOK`), one that reorders writes Screens of the list to places of the list (`ReorderOK`), and of a delete
  every Screen behind the gap is written, to be written, or in its place already (`ClosingOK`). A commit that `UQ_screen_device_order` lets pass is then a
  permutation, by cardinality, and one that closes a gap numbers each Screen by how many are before it. Two deletes that overlap each
  close a gap in the list as they read it, which is finding 3.

### MCAdministration_proofs

* `PushesHaveTargets`, `Binaries`, `NewestIsCurrent`, `PolicyReaches` of `FirmwareUpdate`: a binary without a row is in the hand of one handler or being
  unlinked (`BinariesInHand`); what the policy hands out is official, and so never deleted; a copy of a Device that a PATCH
  saves has a target if it has a push; the sync stores a newer Firmware than every official one; and a Device that is owed a
  Firmware is still in the hand of the sync that hands it out (`OwedInHand`).
* `HardwareIsKnown`, `NoStrayImages`, and the action property `ArchiveIsRestored`, of `ConfigurationImport`, for any archives that an export can have written
  (`IsArchive`: a Screen after its Device, each id once) on any Instance (`IsInstance`). Within the transaction `ImportInv` keeps apart what is committed
  (`RowsInv`), what the transaction sees beside it (`OwnDevices`: the Devices it has not written are as they were), where an archived id leads
  (`RemapHolds`: to the Device with the archived MAC address), and what has been done for each record read so far (`ReadIsDone`). `upsertDevice` is two
  statements, between which another Device may register, so what the first found has a part of its own (`FoundHolds`); the images come after the
  commit, with Devices and Screens changing meanwhile (`AfterInv`).
* `SentSettingIsShown`, of `DeviceSetting`: saves are numbered, and only the newest writes the status; what is behind is that a read is owed or under way that
  will tell what was saved (`SettingInv`).
* `SleepEndsByTheClock` and `WindowsStartOnTheirDay`, for days of any length and any windows, dates and weekdays. Their invariants are the
  variables' ranges; what is proved is the arithmetic. The minutes are those of whole hours, days are whole hours, and a clock changes on the hour: TLC
  finds `EndsAsTheClockReads` violated for a day that is not, so `SleepWindowAssumptions` says so.

Each proof module has one step per action under the step lemma, and closes with PTL.

**Only model-checked:** the liveness properties (`EveryShowableScreenIsReached`, `EveryRenderEnds`, `SavedIsReached`, `EveryRunIsServed`, `ResolutionIsAnnounced`, `FeedIsFollowed`),
which the prover does not do. Every invariant, action property and refinement of the passing runs is stated by a theorem. Those
with an assumption that a run also makes (`OnePollAtATime`, `~StalePatches`, `~StaleSaves`, `~SaveBetween`, `~ClearBetween`, `OneRender`, `OneRequest`, `DeletesAlone`) need it: section 3 says what
happens without. What a recursive definition computes for all inputs would need induction over data, which is out of the prover's reach too; no module
here declares a RECURSIVE operator.

## 6. Not modelled, and what is left

`PROJECT.json` gives each component's status and what is left out of it. Not modelled for good: fetching, parsing,
transforming and drawing data, Recipe files (conversions without state); Device Models, Palettes and Fallback Screens
(reference data and pictures); sensors, logs, settings, metrics (single rows, written and read); image files, whose races are
named in section 4; one-time migrations; the pages of the UI but one, which only show what the server answers; the types of
the shared package; the site.

Worth doing next, in this order:

1. Composition of `FirmwareUpdate` with the rows of `DisplayPoll`, which share the Device; each now has the other's writes as actions of its
   own (`Poll`, `Report` there, `PatchSave` here).
2. Saved States of overlapping ticks, and a second Data Source, in `PluginRefresh`.
3. The frozen image of a sleeping Device, and image files under replace, reconvert and cleanup.

To check the project, in this directory: `tlc -workers 2 -config DisplayPoll_rotation.cfg MCDisplayPoll` (each run's module and
configuration are in `PROJECT.json`) and `tlapm DisplayPoll_proofs.tla`.
