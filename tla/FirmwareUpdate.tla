--------------------------- MODULE FirmwareUpdate ---------------------------
(***************************************************************************)
(* The Firmware library and who is given what is in it: the sync that      *)
(* follows TRMNL's feed (firmware-sync.service.ts), uploads and deletes    *)
(* (firmware.service.ts), and the writers of a Device's target Firmware    *)
(* and its pending push: Firmware Auto-Update and "Catch up now"           *)
(* (firmware-auto-update.service.ts), the admin's PATCH, and the polls.    *)
(* A Firmware is the number it was made under; its binary has that name.   *)
(***************************************************************************)
EXTENDS Integers, FiniteSets, Sequences, FiniteSetsExt, Functions

CONSTANTS
  Devices,
  Models,          \* the Device Models
  ModelOf,         \* each Device's, if it has one
  FeedLog,         \* what the feed lists, one state after the other: per folder a version and its Models
  Syncs,           \* runs of the sync that may be under way at the same time
  Uploads,         \* uploads that may be under way at the same time
  Versions,        \* the versions an admin uploads
  AutoUpdates,     \* the values Firmware Auto-Update may start with
  Patches,         \* what a PATCH may change
  CatchUps,        \* whether "Catch up now" is pressed
  NoSync,
  MaxFirmwares,    \* bound: Firmwares ever made
  MaxFaults        \* bound: failed writes and crashes

ASSUME FirmwareUpdateAssumptions ==
  /\ DOMAIN ModelOf \subseteq Devices /\ Range(ModelOf) \subseteq Models /\ NoSync \notin Syncs
  /\ {MaxFirmwares, MaxFaults} \subseteq Nat
  /\ Patches \subseteq {"target", "push", "mirror", "clear"} /\ AutoUpdates \subseteq BOOLEAN
  /\ FeedLog \in Seq(Range(FeedLog)) /\ FeedLog # <<>>
  /\ \A n \in DOMAIN FeedLog :
       FeedLog[n] \in [DOMAIN FeedLog[n] -> [version: Nat, models: SUBSET Models]]
  /\ Versions \subseteq Nat

VARIABLES
  published,   \* how far the feed has come
  row,         \* the Firmware rows
  file,        \* the binaries on disk
  made,        \* how many Firmwares were made
  device,      \* each Device's row
  auto,        \* Firmware Auto-Update
  syncing,     \* the sync whose promise callers share
  sync, upload, catchUp, patch,
  unlinking,   \* the deleted Firmwares whose binary is still to be removed
  faults,
  owed         \* history: the Devices a new official Firmware found eligible and was not given to yet

library == <<row, file, made, unlinking>>
vars == <<published, row, file, made, device, auto, syncing, sync, upload, catchUp, patch, unlinking, faults, owed>>

Firmwares == 1..MaxFirmwares
None == 0
feed == FeedLog[published]

-----------------------------------------------------------------------------
IdleSync == [pc |-> "idle", listed |-> <<>>, todo |-> {}, got |-> {}, folder |-> "", made |-> None, giving |-> {}]
IdleUpload == [pc |-> "idle", version |-> 0, made |-> None]

Init ==
  /\ published = 1 /\ row = <<>> /\ file = {} /\ made = 0 /\ unlinking = {}
  /\ device = [d \in Devices |-> [target |-> None, push |-> FALSE, mirror |-> FALSE, runs |-> 0]]
  /\ auto \in AutoUpdates
  /\ syncing = NoSync /\ sync = [s \in Syncs |-> IdleSync]
  /\ upload = [u \in Uploads |-> IdleUpload]
  /\ catchUp = {} /\ patch = {}
  /\ faults = 0 /\ owed = {}

Held(kind) == {f \in DOMAIN row : row[f].kind = kind}
Official(folder) == {f \in Held("official") : row[f].folder = folder}
Current == {f \in Held("official") : ~row[f].deprecated}

HasModel(d) == d \in DOMAIN ModelOf
\* An empty compatibleModels fits every Device.
isFirmwareCompatible(models, d) == models = {} \/ (HasModel(d) /\ ModelOf[d] \in models)

-----------------------------------------------------------------------------
(* FirmwareSyncService.sync.                                               *)

At(s, pc) == sync[s].pc = pc
Become(s, state) == sync' = [sync EXCEPT ![s] = state]
End(s) == Become(s, IdleSync) /\ syncing' = NoSync

\* the daily job, the boot and the admin
Start(s) ==
  /\ At(s, "idle") /\ syncing = NoSync
  /\ syncing' = s
  /\ Become(s, [IdleSync EXCEPT !.pc = "fetch"])
  /\ UNCHANGED <<published, library, device, auto, upload, catchUp, patch, faults, owed>>

\* officialBinaries: the feed as it is by then
Fetch(s) ==
  /\ At(s, "fetch")
  /\ Become(s, [IdleSync EXCEPT !.pc = "realign", !.listed = feed, !.todo = DOMAIN feed])
  /\ UNCHANGED <<published, library, device, auto, syncing, upload, catchUp, patch, faults, owed>>

\* TRMNL does not answer, or with nothing to sync, or with two binaries in a folder.
FetchFails(s) ==
  /\ At(s, "fetch")
  /\ End(s)
  /\ UNCHANGED <<published, library, device, auto, upload, catchUp, patch, faults, owed>>

\* A pass over the folders goes on to the next, or to what comes after the pass.
Passed(s, folder, pc, after) ==
  LET left == sync[s].todo \ {folder}
  IN IF left # {} THEN [sync[s] EXCEPT !.pc = pc, !.todo = left]
     ELSE [sync[s] EXCEPT !.pc = after, !.todo = IF after = "download" THEN DOMAIN sync[s].listed ELSE {}]

Realign(s, folder) ==
  /\ At(s, "realign") /\ folder \in sync[s].todo
  /\ row' = [f \in DOMAIN row |-> IF f \in Official(folder) THEN [row[f] EXCEPT !.models = sync[s].listed[folder].models] ELSE row[f]]
  /\ Become(s, Passed(s, folder, "realign", "download"))
  /\ UNCHANGED <<published, file, made, unlinking, device, auto, syncing, upload, catchUp, patch, faults, owed>>

\* Slip: a version that any folder holds counts as held
isHeldAnywhere(s, folder) == \E f \in DOMAIN row : row[f].version = sync[s].listed[folder].version
isHeld(s, folder) ==
  \E f \in Held("custom") \cup Official(folder) : row[f].version = sync[s].listed[folder].version

Skip(s, folder) ==
  /\ At(s, "download") /\ folder \in sync[s].todo /\ isHeld(s, folder)
  /\ Become(s, Passed(s, folder, "download", "store"))
  /\ UNCHANGED <<published, library, device, auto, syncing, upload, catchUp, patch, faults, owed>>

Download(s, folder) ==
  /\ At(s, "download") /\ folder \in sync[s].todo /\ ~isHeld(s, folder)
  /\ Become(s, [Passed(s, folder, "download", "store") EXCEPT !.got = @ \cup {folder}])
  /\ UNCHANGED <<published, library, device, auto, syncing, upload, catchUp, patch, faults, owed>>

DownloadFails(s, folder) ==
  /\ At(s, "download") /\ folder \in sync[s].todo /\ ~isHeld(s, folder)
  /\ End(s)
  /\ UNCHANGED <<published, library, device, auto, upload, catchUp, patch, faults, owed>>

WriteFile(s) ==
  /\ At(s, "store") /\ made < MaxFirmwares
  /\ \E folder \in sync[s].got :
       Become(s, [sync[s] EXCEPT !.pc = "insert", !.got = @ \ {folder}, !.folder = folder, !.made = made + 1])
  /\ made' = made + 1 /\ file' = file \cup {made + 1}
  /\ UNCHANGED <<published, row, unlinking, device, auto, syncing, upload, catchUp, patch, faults, owed>>

\* the transaction's update: the folder's current row gives way
Deprecated(folder) == [f \in DOMAIN row |-> IF f \in Official(folder) THEN [row[f] EXCEPT !.deprecated = TRUE] ELSE row[f]]

Added(rows, f, r) == [g \in DOMAIN rows \cup {f} |-> IF g = f THEN r ELSE rows[g]]

\* findCandidates
Candidates == {d \in Devices : ~device[d].push /\ ~device[d].mirror /\ HasModel(d)}
Eligible(models) == {d \in Candidates : isFirmwareCompatible(models, d)}

\* store: the transaction, refused when another sync has stored that version first
Insert(s) ==
  LET new == sync[s].made
      listed == sync[s].listed[sync[s].folder]
  IN /\ At(s, "insert")
     /\ IF \E f \in Official(sync[s].folder) : row[f].version = listed.version
        THEN /\ file' = file \ {new}
             /\ Become(s, [sync[s] EXCEPT !.pc = "store"])
             /\ UNCHANGED <<row, owed>>
        ELSE /\ row' = Added(Deprecated(sync[s].folder), new,
                             [kind |-> "official", folder |-> sync[s].folder, version |-> listed.version, models |-> listed.models, deprecated |-> FALSE])
             /\ Become(s, [sync[s] EXCEPT !.pc = "policy"])
             /\ owed' = IF auto THEN owed \cup {<<d, new>> : d \in Eligible(listed.models)} ELSE owed
             /\ UNCHANGED file
     /\ UNCHANGED <<published, made, unlinking, device, auto, syncing, upload, catchUp, patch, faults>>

\* Any other error is thrown on, and the binary stays.
InsertFails(s) ==
  /\ At(s, "insert")
  /\ faults < MaxFaults /\ faults' = faults + 1
  /\ End(s)
  /\ UNCHANGED <<published, library, device, auto, upload, catchUp, patch, owed>>

\* Slip: only Devices that never had a target
GivenFirst(s) == {d \in Eligible(row[sync[s].made].models) : device[d].target = None}
Given(s) == Eligible(row[sync[s].made].models)

CopyOf(d) == [device |-> d, copy |-> device[d]]

\* applyPolicy: the Setting, then the eligible Devices, each a copy of its row
ApplyPolicy(s) ==
  /\ At(s, "policy")
  /\ LET giving == IF auto THEN {CopyOf(d) : d \in Given(s)} ELSE {}
     IN Become(s, [sync[s] EXCEPT !.pc = IF giving = {} THEN "store" ELSE "assign", !.giving = giving])
  /\ UNCHANGED <<published, library, device, auto, syncing, upload, catchUp, patch, faults, owed>>

\* assign: the copy is saved whole, one Device after the other
Assigned(d, copy, f) == [device EXCEPT ![d] = [copy EXCEPT !.target = f, !.push = TRUE]]

Assign(s) ==
  /\ At(s, "assign")
  /\ \E g \in sync[s].giving :
       /\ device' = Assigned(g.device, g.copy, sync[s].made)
       /\ LET left == sync[s].giving \ {g}
          IN Become(s, [sync[s] EXCEPT !.pc = IF left = {} THEN "store" ELSE "assign", !.giving = left])
       /\ owed' = {o \in owed : o[1] # g.device}
  /\ UNCHANGED <<published, library, auto, syncing, upload, catchUp, patch, faults>>

AssignFails(s) ==
  /\ At(s, "assign")
  /\ faults < MaxFaults /\ faults' = faults + 1
  /\ End(s)
  /\ UNCHANGED <<published, library, device, auto, upload, catchUp, patch, owed>>

Finish(s) ==
  /\ At(s, "store") /\ (sync[s].got = {} \/ made = MaxFirmwares)
  /\ End(s)
  /\ UNCHANGED <<published, library, device, auto, upload, catchUp, patch, faults, owed>>

SyncStep(s) ==
  \/ Fetch(s) \/ FetchFails(s) \/ WriteFile(s) \/ Insert(s) \/ ApplyPolicy(s) \/ Assign(s) \/ Finish(s)
  \/ \E f \in sync[s].todo : Realign(s, f) \/ Skip(s, f) \/ Download(s, f) \/ DownloadFails(s, f)

-----------------------------------------------------------------------------
(* FirmwareService.upload, delete.                                         *)

\* assertVersionFree, assertDeviceModelsKnown
CheckUpload(u, version) ==
  /\ upload[u].pc = "idle"
  /\ \A f \in DOMAIN row : row[f].version # version
  /\ upload' = [upload EXCEPT ![u] = [IdleUpload EXCEPT !.pc = "write", !.version = version]]
  /\ UNCHANGED <<published, library, device, auto, syncing, sync, catchUp, patch, faults, owed>>

WriteUpload(u) ==
  /\ upload[u].pc = "write" /\ made < MaxFirmwares
  /\ made' = made + 1 /\ file' = file \cup {made + 1}
  /\ upload' = [upload EXCEPT ![u] = [upload[u] EXCEPT !.pc = "save", !.made = made + 1]]
  /\ UNCHANGED <<published, row, unlinking, device, auto, syncing, sync, catchUp, patch, faults, owed>>

\* Slip: the version alone names the binary that is removed
UnlinkedOfVersion(u) == file \ {f \in Held("custom") : row[f].version = upload[u].version}
Unlinked(u) == file \ {upload[u].made}

SaveUpload(u) ==
  /\ upload[u].pc = "save"
  /\ IF \E f \in Held("custom") : row[f].version = upload[u].version
     THEN file' = Unlinked(u) /\ UNCHANGED row
     ELSE /\ row' = Added(row, upload[u].made, [kind |-> "custom", folder |-> "", version |-> upload[u].version, models |-> {}, deprecated |-> FALSE])
          /\ UNCHANGED file
  /\ upload' = [upload EXCEPT ![u] = IdleUpload]
  /\ UNCHANGED <<published, made, unlinking, device, auto, syncing, sync, catchUp, patch, faults, owed>>

SaveUploadFails(u) ==
  /\ upload[u].pc = "save"
  /\ faults < MaxFaults /\ faults' = faults + 1
  /\ file' = Unlinked(u)
  /\ upload' = [upload EXCEPT ![u] = IdleUpload]
  /\ UNCHANGED <<published, row, made, unlinking, device, auto, syncing, sync, catchUp, patch, owed>>

UploadStep(u) ==
  \/ \E v \in Versions : CheckUpload(u, v)
  \/ WriteUpload(u) \/ SaveUpload(u) \/ SaveUploadFails(u)

\* Slip: the push pending for it stays
TargetTaken(f) == [d \in Devices |-> IF device[d].target = f THEN [device[d] EXCEPT !.target = None] ELSE device[d]]
\* the transaction: those who target it lose the target and the push
TargetAndPushTaken(f) == [d \in Devices |-> IF device[d].target = f THEN [device[d] EXCEPT !.target = None, !.push = FALSE] ELSE device[d]]

Delete(f) ==
  /\ f \in Held("custom")
  /\ device' = TargetAndPushTaken(f)
  /\ row' = Restrict(row, DOMAIN row \ {f})
  /\ unlinking' = unlinking \cup {f}
  /\ UNCHANGED <<published, file, made, auto, syncing, sync, upload, catchUp, patch, faults, owed>>

Unlink(f) ==
  /\ f \in unlinking
  /\ file' = file \ {f} /\ unlinking' = unlinking \ {f}
  /\ UNCHANGED <<published, row, made, device, auto, syncing, sync, upload, catchUp, patch, faults, owed>>

-----------------------------------------------------------------------------
(* "Catch up now", the PATCH of a Device, its polls.                       *)

\* previewCatchUp: each Device behind, with the newest current official Firmware that fits it
CatchUp ==
  /\ CatchUps /\ catchUp = {} /\ auto
  /\ LET fits(d) == {f \in Current : isFirmwareCompatible(row[f].models, d)}
         behind == {d \in Candidates : fits(d) # {} /\ device[d].runs # row[Max(fits(d))].version}
     IN /\ behind # {}
        /\ catchUp' = {[device |-> d, copy |-> device[d], firmware |-> Max(fits(d))] : d \in behind}
  /\ UNCHANGED <<published, library, device, auto, syncing, sync, upload, patch, faults, owed>>

CatchUpAssign ==
  /\ \E g \in catchUp :
       /\ device' = Assigned(g.device, g.copy, g.firmware)
       /\ catchUp' = catchUp \ {g}
       /\ owed' = {o \in owed : o[1] # g.device}
  /\ UNCHANGED <<published, library, auto, syncing, sync, upload, patch, faults>>

PatchLoad(d) ==
  /\ Patches # {} /\ patch = {}
  /\ patch' = {CopyOf(d)}
  /\ UNCHANGED <<published, library, device, auto, syncing, sync, upload, catchUp, faults, owed>>

\* applyFirmwareChanges, assertPushCanBeServed
Changed(copy, d) ==
  {[copy EXCEPT !.target = f] : f \in {g \in DOMAIN row : "target" \in Patches /\ isFirmwareCompatible(row[g].models, d)}}
  \cup {[copy EXCEPT !.push = TRUE] : x \in {y \in Patches : y = "push" /\ copy.target # None /\ ~copy.mirror}}
  \cup {[copy EXCEPT !.mirror = ~copy.mirror] : x \in Patches \cap {"mirror"}}
  \cup {[copy EXCEPT !.target = None] : x \in {y \in Patches : y = "clear" /\ ~copy.push}}

\* the foreign key
RowStands(f) == f = None \/ f \in DOMAIN row

PatchSave ==
  /\ \E p \in patch :
       \/ /\ \E saved \in Changed(p.copy, p.device) :
               RowStands(saved.target) /\ device' = [device EXCEPT ![p.device] = saved]
          /\ owed' = {o \in owed : o[1] # p.device}
       \/ UNCHANGED <<device, owed>>
  /\ patch' = {}
  /\ UNCHANGED <<published, library, auto, syncing, sync, upload, catchUp, faults>>

\* A poll that carries the push, and its acknowledgement
Poll(d) ==
  /\ ~device[d].mirror /\ device[d].push /\ device[d].target \in file
  /\ device' = [device EXCEPT ![d].push = FALSE]
  /\ UNCHANGED <<published, library, auto, syncing, sync, upload, catchUp, patch, faults, owed>>

\* A poll after the Device took its Firmware
Report(d) ==
  /\ ~device[d].push /\ device[d].target \in DOMAIN row
  /\ device[d].runs # row[device[d].target].version
  /\ device' = [device EXCEPT ![d].runs = row[device[d].target].version]
  /\ UNCHANGED <<published, library, auto, syncing, sync, upload, catchUp, patch, faults, owed>>

-----------------------------------------------------------------------------
Publish ==
  /\ published < Len(FeedLog) /\ published' = published + 1
  /\ UNCHANGED <<library, device, auto, syncing, sync, upload, catchUp, patch, faults, owed>>

SetAutoUpdate ==
  /\ \E a \in AutoUpdates \ {auto} : auto' = a
  /\ owed' = {}
  /\ UNCHANGED <<published, library, device, syncing, sync, upload, catchUp, patch, faults>>

Crash ==
  /\ faults < MaxFaults /\ faults' = faults + 1
  /\ syncing' = NoSync /\ sync' = [s \in Syncs |-> IdleSync]
  /\ upload' = [u \in Uploads |-> IdleUpload]
  /\ catchUp' = {} /\ patch' = {} /\ unlinking' = {}
  /\ UNCHANGED <<published, row, file, made, device, auto, owed>>

Next ==
  \/ \E s \in Syncs : Start(s) \/ SyncStep(s) \/ InsertFails(s) \/ AssignFails(s)
  \/ \E u \in Uploads : UploadStep(u)
  \/ \E f \in Firmwares : Delete(f) \/ Unlink(f)
  \/ \E d \in Devices : PatchLoad(d) \/ Poll(d) \/ Report(d)
  \/ CatchUp \/ CatchUpAssign \/ PatchSave \/ Publish \/ SetAutoUpdate \/ Crash

Spec == Init /\ [][Next]_vars

\* The daily job goes on, queries settle, a download times out, and an outage of
\* TRMNL ends.
OutagesEnd == <>[][\A s \in Syncs : ~FetchFails(s) /\ \A f \in sync[s].todo : ~DownloadFails(s, f)]_vars

Fairness ==
  /\ WF_vars(\E s \in Syncs : Start(s))
  /\ \A s \in Syncs : WF_vars(SyncStep(s))
  /\ OutagesEnd

FairSpec == Spec /\ Fairness

-----------------------------------------------------------------------------
(* What the code is to guarantee.                                          *)

Folders == UNION {DOMAIN FeedLog[n] : n \in DOMAIN FeedLog}
Rows == [kind: {"official", "custom"}, folder: Folders \cup {""}, version: Nat, models: SUBSET Models, deprecated: BOOLEAN]
Copies == [target: Firmwares \cup {None}, push: BOOLEAN, mirror: BOOLEAN, runs: Nat]
SyncRecords ==
  [pc: {"idle", "fetch", "realign", "download", "store", "insert", "policy", "assign"},
   listed: {<<>>} \cup {FeedLog[n] : n \in DOMAIN FeedLog}, todo: SUBSET Folders, got: SUBSET Folders,
   folder: Folders \cup {""}, made: Firmwares \cup {None}, giving: SUBSET [device: Devices, copy: Copies]]
UploadRecords == [pc: {"idle", "write", "save"}, version: Nat, made: Firmwares \cup {None}]

\* The shape of the rows and the handlers, and one sync at a time.
TypeOK ==
  /\ published \in DOMAIN FeedLog /\ auto \in BOOLEAN
  /\ row \in [DOMAIN row -> Rows] /\ device \in [Devices -> Copies]
  /\ made \in 0..MaxFirmwares
  /\ DOMAIN row \subseteq 1..made /\ file \subseteq 1..made /\ unlinking \subseteq 1..made
  /\ syncing \in Syncs \cup {NoSync}
  /\ sync \in [Syncs -> SyncRecords]
  /\ \A s \in Syncs : /\ At(s, "idle") <=> syncing # s
                      /\ sync[s].todo \cup sync[s].got \subseteq DOMAIN sync[s].listed
                      /\ At(s, "insert") => sync[s].folder \in DOMAIN sync[s].listed
  /\ upload \in [Uploads -> UploadRecords]
  /\ catchUp \subseteq [device: Devices, copy: Copies, firmware: Firmwares]
  /\ patch \subseteq [device: Devices, copy: Copies]
  /\ faults \in 0..MaxFaults

\* Of the official Firmware of a folder one is current, "only the previous row of
\* its folder" having given way, and that one is the newest.
OneCurrentPerFolder ==
  \A f \in Held("official") : ~row[f].deprecated <=> \A g \in Official(row[f].folder) : g <= f

\* No Firmware can be pushed whose binary was never written or is already gone,
\* and no binary stays that no row names, unless a write failed or the server died.
BinariesMatchRows ==
  /\ DOMAIN row \subseteq file
  /\ faults = 0 => file \subseteq DOMAIN row \cup unlinking \cup {sync[s].made : s \in Syncs} \cup {upload[u].made : u \in Uploads}

\* A push that is pending has a Firmware to push, whoever deletes it and however
\* old the copy of the Device is that a PATCH or the policy saves.
PushHasTarget == \A d \in Devices : device[d].push => device[d].target \in DOMAIN row

\* "is given each new official Firmware by itself": when a sync is over, every
\* Device the new Firmware found eligible has it, or was changed by someone else.
PolicyReachesEveryone == syncing = NoSync /\ faults = 0 => owed = {}

\* What the feed lists comes into the library in the end, however often the feed
\* or a download fails, a write throws or the server dies in between.
FeedIsFollowed ==
  []<>(made = MaxFirmwares \/ \A folder \in DOMAIN feed : \E f \in DOMAIN row :
         row[f].version = feed[folder].version /\ (row[f].kind = "custom" \/ row[f].folder = folder))
=============================================================================
