-------------------------- MODULE ConfigurationImport --------------------------
(***************************************************************************)
(* Configuration Import and its check (configuration-import.service.ts):   *)
(* one transaction over an archive's records, the files and the timers     *)
(* after it, beside Devices that register and an admin who adds and        *)
(* deletes Screens.  PostgreSQL runs READ COMMITTED: the import sees the   *)
(* committed rows and its own, and holds the rows it wrote until its end;  *)
(* UNIQUE ("deviceId", "order") is only checked when it commits.           *)
(***************************************************************************)
EXTENDS Naturals, Sequences, FiniteSets, Functions

CONSTANTS
  Ids,         \* ids of Devices
  Macs,
  Screens,     \* ids of Screens, all with an uploaded image
  Instances,   \* what the database may hold at first
  Archives,    \* the archives that may be uploaded: sequences of records
  Damaged,     \* an image that does not inflate
  Redacted,    \* CONFIGURATION_REDACTION_SENTINEL
  None,
  MaxKeys,     \* bound: apikeys and Webhook Tokens minted
  MaxFaults    \* bound: failed writes and crashes

\* What an export writes: each row once, and a Screen after its Device.
IsArchive(a) ==
  /\ a \in Seq(Range(a))
  /\ \A i \in DOMAIN a : a[i].kind \in {"palette", "plugin", "device", "assignment", "screen", "settings"}
  /\ \A i, j \in DOMAIN a : a[i].kind = a[j].kind /\ a[i].id = a[j].id => i = j
  /\ \A i \in DOMAIN a : /\ a[i].kind = "device" => a[i].key # None
                         /\ a[i].kind = "screen" => \E j \in 1..(i - 1) : a[j].kind = "device" /\ a[j].id = a[i].device

IsInstance(rows) ==
  /\ rows = [device |-> rows.device, screen |-> rows.screen, unique |-> rows.unique]
  /\ \A d \in DOMAIN rows.device : /\ rows.device[d] = [mac |-> rows.device[d].mac, key |-> rows.device[d].key]
                                   /\ rows.device[d].key # None
  /\ \A s \in DOMAIN rows.screen : rows.screen[s] = [device |-> rows.screen[s].device, order |-> rows.screen[s].order]
  /\ \A d, e \in DOMAIN rows.device : rows.device[d].mac = rows.device[e].mac => d = e

\* An id is one Device's, here and in an archive.
SameDevices(rows, a) ==
  \A i \in DOMAIN a : a[i].kind = "device" /\ a[i].id \in DOMAIN rows.device => rows.device[a[i].id].mac = a[i].mac

\* What a module that instantiates this one is to give it
ConfigurationImportAssumptions ==
  /\ {MaxKeys, MaxFaults} \subseteq Nat
  /\ \A a \in Archives : IsArchive(a) /\ \A rows \in Instances : IsInstance(rows) /\ SameDevices(rows, a)
  /\ \A n \in 1..MaxKeys : None # <<"minted", n>>

VARIABLES
  archive,    \* the archive that is uploaded, as often as somebody likes
  db,         \* the committed rows
  image,      \* the stored images of Screens: by Device and Screen
  job,        \* the Plugins with a timer
  run,        \* the import or check under way
  setups,     \* the registrations that have found no Device of theirs
  minted, faults,
  hardware,   \* history: the apikey each Device that registered here sends
  gone        \* history: the Screens that were deleted

others == <<archive, setups, minted, hardware, gone>>
vars == <<archive, db, image, job, run, setups, minted, faults, hardware, gone>>

-----------------------------------------------------------------------------
\* Rows that are unique by a value: a custom Palette's name, a Plugin's Webhook
\* Token, the Plugin and the Device of an Assignment.
Uniques == {"palette", "plugin", "assignment"}

NoRows == [device |-> <<>>, screen |-> <<>>, unique |-> <<>>]
IdleRun == [pc |-> "idle", check |-> FALSE, at |-> 1, found |-> None, wrote |-> NoRows,
            remap |-> <<>>, pending |-> <<>>, upserted |-> {}]

Over(f, g) == [x \in DOMAIN f \cup DOMAIN g |-> IF x \in DOMAIN g THEN g[x] ELSE f[x]]
Entry(x, value) == [y \in {x} |-> value]
\* The rows the import sees
Seen == [table \in DOMAIN db |-> Over(db[table], run.wrote[table])]
Wrote(table, id, value) == [run.wrote EXCEPT ![table] = Over(@, Entry(id, value))]

Init ==
  /\ archive \in Archives
  /\ db \in Instances
  /\ image = [place \in {<<db.screen[s].device, s>> : s \in DOMAIN db.screen} |-> <<"here", place[2]>>]
  /\ job = {id \in DOMAIN db.unique : db.unique[id].kind = "plugin"}
  /\ run = IdleRun
  /\ setups = {} /\ minted = 0 /\ faults = 0 /\ gone = {}
  /\ hardware = [m \in {db.device[d].mac : d \in DOMAIN db.device} |->
                   db.device[CHOOSE d \in DOMAIN db.device : db.device[d].mac = m].key]

-----------------------------------------------------------------------------
(* One run over an archive.                                                *)

\* importFromZip, checkZip
Begin(check) ==
  /\ run.pc = "idle"
  /\ run' = [IdleRun EXCEPT !.pc = "record", !.check = check]
  /\ UNCHANGED <<db, image, job, faults, others>>

Record == archive[run.at]
At(kind) == run.pc = "record" /\ run.at <= Len(archive) /\ Record.kind = kind

\* withEntryContext: a record that is refused refuses the archive, rolled back
Refuse == run' = IdleRun /\ UNCHANGED <<db, image, job, minted>>

Went(state) == [state EXCEPT !.at = @ + 1, !.found = None, !.pc = "record"]

\* deviceIdRemap
Resolved(id) == IF id \in DOMAIN run.remap THEN run.remap[id] ELSE id
Holds(kind, value, id) == \E other \in DOMAIN Seen.unique \ {id} :
  Seen.unique[other].kind = kind /\ Seen.unique[other].value = value

\* generateApikey
NewKey == <<"minted", minted + 1>>

\* The value a row is to get: resolveWebhookToken, and the Device an Assignment is remapped to
Value(entry) ==
  CASE entry.kind = "assignment" -> <<entry.value[1], Resolved(entry.value[2])>>
    [] entry.value = Redacted -> IF entry.id \in DOMAIN Seen.unique THEN Seen.unique[entry.id].value ELSE NewKey
    [] OTHER -> entry.value

\* upsertPalette, upsertPlugin, upsertAssignment.  Another row with the value, or
\* no row for a foreign key, and the record is refused.
UpsertUnique ==
  /\ \E kind \in Uniques : At(kind)
  /\ LET entry == Record
         value == Value(entry)
     IN IF Holds(entry.kind, value, entry.id)
           \/ (entry.kind = "assignment" /\ ~(value[1] \in DOMAIN Seen.unique /\ value[2] \in DOMAIN Seen.device))
        THEN Refuse
        ELSE /\ run' = [Went(run) EXCEPT
                          !.wrote = Wrote("unique", entry.id, [kind |-> entry.kind, value |-> value]),
                          !.upserted = IF entry.kind = "plugin" THEN @ \cup {entry.id} ELSE @]
             /\ minted' = IF value = NewKey THEN minted + 1 ELSE minted
             /\ minted' <= MaxKeys
             /\ UNCHANGED <<db, image, job>>
  /\ UNCHANGED <<archive, faults, setups, hardware, gone>>

HasMac(mac) == {d \in DOMAIN Seen.device : Seen.device[d].mac = mac}

\* upsertDevice: the row with the archive's id, else the one with the MAC address
FindDevice ==
  /\ At("device") /\ run.pc = "record"
  /\ \E d \in Ids :
       /\ IF Record.id \in DOMAIN Seen.device \/ HasMac(Record.mac) = {} THEN d = Record.id ELSE d \in HasMac(Record.mac)
       /\ run' = [run EXCEPT !.pc = "device", !.found = IF d \in DOMAIN Seen.device THEN Seen.device[d].key ELSE None,
                             !.remap = IF d = Record.id THEN @ ELSE Over(@, Entry(Record.id, d))]
  /\ UNCHANGED <<db, image, job, faults, others>>

\* Slip: the archive's apikey is taken unless it is redacted
ArchivedKey == IF Record.key # Redacted THEN Record.key ELSE IF run.found # None THEN run.found ELSE NewKey
\* resolveDeviceApikey: an existing Device's is never overwritten (ADR-0039)
ResolvedKey == IF run.found # None THEN run.found ELSE IF Record.key # Redacted THEN Record.key ELSE NewKey

SaveDevice ==
  /\ run.pc = "device"
  /\ LET d == Resolved(Record.id)
     IN IF HasMac(Record.mac) \ {d} # {} THEN Refuse
        ELSE /\ run' = [Went(run) EXCEPT !.wrote = Wrote("device", d, [mac |-> Record.mac, key |-> ResolvedKey])]
             /\ minted' = IF ResolvedKey = NewKey THEN minted + 1 ELSE minted
             /\ minted' <= MaxKeys
             /\ UNCHANGED <<db, image, job>>
  /\ UNCHANGED <<archive, faults, setups, hardware, gone>>

\* Slip: the image is written before the row is known to stick
WrittenAtOnce(place) == image' = IF run.check THEN image ELSE Over(image, Entry(place, Record.image))
\* restoreScreenImage queues it
Queued(place) == UNCHANGED image

\* Slip: the image goes where the archive has its Device
ArchivedPlace(d) == <<Record.device, Record.id>>
Place(d) == <<d, Record.id>>

\* upsertScreen
UpsertScreen ==
  /\ At("screen")
  /\ LET d == Resolved(Record.device)
     IN IF d \notin DOMAIN Seen.device \/ Record.image = Damaged THEN Refuse
        ELSE /\ run' = [Went(run) EXCEPT
                          !.wrote = Wrote("screen", Record.id, [device |-> d, order |-> Record.order]),
                          !.pending = IF run.check THEN @ ELSE Append(@, [place |-> Place(d), image |-> Record.image])]
             /\ Queued(Place(d))
             /\ UNCHANGED <<db, job, minted>>
  /\ UNCHANGED <<archive, faults, setups, hardware, gone>>

\* replaceInstanceSettings: the last record; refused when a Setting is out of bounds
ReplaceSettings ==
  /\ At("settings")
  /\ IF Record.withinBounds
     THEN run' = Went(run) /\ UNCHANGED <<db, image, job, minted>>
     ELSE Refuse
  /\ UNCHANGED <<archive, faults, setups, hardware, gone>>

AllRead == run.pc = "record" /\ run.at > Len(archive)

\* CheckFinished
RollBackCheck ==
  /\ AllRead /\ run.check
  /\ run' = IdleRun
  /\ UNCHANGED <<db, image, job, faults, others>>

Clash(screen) ==
  \E s, t \in DOMAIN screen : s # t /\ screen[s] = screen[t]

Commit ==
  /\ AllRead /\ ~run.check
  /\ ~Clash(Seen.screen)
  /\ db' = Seen
  /\ run' = [run EXCEPT !.pc = "images"]
  /\ UNCHANGED <<image, job, faults, others>>

\* UQ_screen_device_order
CommitRefused ==
  /\ AllRead /\ ~run.check
  /\ Clash(Seen.screen)
  /\ run' = IdleRun
  /\ UNCHANGED <<db, image, job, faults, others>>

-----------------------------------------------------------------------------
(* After the transaction                                                   *)

\* writePendingImages
WriteImage ==
  /\ run.pc = "images" /\ run.pending # <<>>
  /\ image' = Over(image, Entry(Head(run.pending).place, Head(run.pending).image))
  /\ run' = [run EXCEPT !.pending = Tail(@)]
  /\ UNCHANGED <<db, job, faults, others>>

\* scheduleUpsertedPlugins
Schedule ==
  /\ run.pc = "images" /\ run.pending = <<>>
  /\ job' = job \cup run.upserted
  /\ run' = IdleRun
  /\ UNCHANGED <<db, image, faults, others>>

\* A full disk: the images and timers still to come do not
WriteFails ==
  /\ run.pc = "images" /\ run.pending # <<>>
  /\ faults < MaxFaults /\ faults' = faults + 1
  /\ run' = IdleRun
  /\ UNCHANGED <<db, image, job, others>>

\* The server dies; when it starts it gives every Plugin its timer.
Crash ==
  /\ faults < MaxFaults /\ faults' = faults + 1
  /\ run' = IdleRun
  /\ setups' = {}
  /\ job' = {id \in DOMAIN db.unique : db.unique[id].kind = "plugin"}
  /\ UNCHANGED <<archive, db, image, minted, hardware, gone>>

RunStep ==
  \/ \E check \in BOOLEAN : Begin(check)
  \/ UpsertUnique \/ FindDevice \/ SaveDevice \/ UpsertScreen \/ ReplaceSettings
  \/ RollBackCheck \/ Commit \/ CommitRefused \/ WriteImage \/ Schedule \/ WriteFails \/ Crash

-----------------------------------------------------------------------------
(* Others, whose statements wait for a row the import has written          *)

InTransaction == run.pc \in {"record", "device"}
Locked(table) == IF InTransaction THEN DOMAIN run.wrote[table] ELSE {}

\* DeviceSetupService.setupDevice: a Device that is known is told its apikey
SetUpKnown(d) ==
  /\ d \in DOMAIN db.device \ Locked("device")
  /\ hardware' = Over(hardware, Entry(db.device[d].mac, db.device[d].key))
  /\ UNCHANGED <<archive, db, image, job, run, setups, minted, faults, gone>>

SetUpLook(mac) ==
  /\ mac \notin setups /\ \A d \in DOMAIN db.device : db.device[d].mac # mac
  /\ setups' = setups \cup {mac}
  /\ UNCHANGED <<archive, db, image, job, run, minted, faults, hardware, gone>>

\* refused when the Device has come by another way meanwhile
SetUpSave(mac, d) ==
  /\ mac \in setups /\ setups' = setups \ {mac}
  /\ \A e \in Locked("device") : run.wrote.device[e].mac # mac
  /\ IF \E e \in DOMAIN db.device : db.device[e].mac = mac
     THEN UNCHANGED <<db, minted, hardware>>
     ELSE /\ minted < MaxKeys /\ minted' = minted + 1
          /\ d \notin DOMAIN db.device /\ \A a \in Archives : \A i \in DOMAIN a : a[i].id # d
          /\ db' = [db EXCEPT !.device = Over(@, Entry(d, [mac |-> mac, key |-> NewKey]))]
          /\ hardware' = Over(hardware, Entry(mac, NewKey))
  /\ UNCHANGED <<archive, image, job, run, faults, gone>>

ScreensOf(d) == {s \in DOMAIN db.screen : db.screen[s].device = d}
Unlocked(d) == d \notin Locked("device") /\ \A s \in Locked("screen") : run.wrote.screen[s].device # d /\ s \notin ScreensOf(d)

\* ScreensService.add, with joinEndOfOrder
AddScreen(d, s) ==
  /\ d \in DOMAIN db.device /\ Unlocked(d)
  /\ s \notin gone \cup DOMAIN db.screen /\ \A a \in Archives : \A i \in DOMAIN a : a[i].id # s
  /\ db' = [db EXCEPT !.screen = Over(@, Entry(s, [device |-> d, order |-> Cardinality(ScreensOf(d)) + 1]))]
  /\ image' = Over(image, Entry(<<d, s>>, <<"here", s>>))
  /\ UNCHANGED <<job, run, faults, others>>

\* ScreensService.delete, with closeGapInOrder
DeleteScreen(s) ==
  /\ s \in DOMAIN db.screen /\ Unlocked(db.screen[s].device)
  /\ LET row == db.screen[s]
         closed(t) == IF db.screen[t].device = row.device /\ db.screen[t].order > row.order
                      THEN [db.screen[t] EXCEPT !.order = @ - 1] ELSE db.screen[t]
     IN /\ db' = [db EXCEPT !.screen = [t \in DOMAIN @ \ {s} |-> closed(t)]]
        /\ image' = Restrict(image, DOMAIN image \ {<<row.device, s>>})
  /\ gone' = gone \cup {s}
  /\ UNCHANGED <<archive, job, run, faults, setups, minted, hardware>>

OtherStep ==
  \/ \E d \in Ids : SetUpKnown(d) \/ \E s \in Screens : AddScreen(d, s)
  \/ \E m \in Macs : SetUpLook(m) \/ \E d \in Ids : SetUpSave(m, d)
  \/ \E s \in Screens : DeleteScreen(s)

Next == RunStep \/ OtherStep

Spec == Init /\ [][Next]_vars

-----------------------------------------------------------------------------
(* What the code is to guarantee.                                          *)

\* A Device that registered here is still known by the apikey it sends, under one
\* row, whatever archives have been imported since and under whichever id.
HardwareStaysKnown ==
  \A m \in DOMAIN hardware : \E d \in DOMAIN db.device :
    db.device[d] = [mac |-> m, key |-> hardware[m]] /\ \A e \in DOMAIN db.device : db.device[e].mac = m => e = d

\* No image is left of an import that was rolled back.
ImagesHaveScreens == \A place \in DOMAIN image : place[2] \in gone \cup DOMAIN db.screen

\* How an import comes to its end: each Screen of the archive that nobody has deleted
\* is on the Device with the archived MAC address, with its image, and each Plugin
\* has its timer.
Restores ==
  run.pc = "images" /\ run.pending = <<>> /\ run'.pc = "idle" /\ faults' = faults =>
    \A i \in DOMAIN archive :
      LET entry == archive[i]
          names(d) == \E j \in DOMAIN archive :
            archive[j].kind = "device" /\ archive[j].id = entry.device /\ archive[j].mac = db.device[d].mac
      IN /\ entry.kind = "screen" /\ entry.id \notin gone =>
              \E d \in Ids : /\ db.screen[entry.id].device = d /\ names(d)
                             /\ <<d, entry.id>> \in DOMAIN image /\ image[<<d, entry.id>>] = entry.image
         /\ entry.kind = "plugin" => entry.id \in job'

\* When an import is over, what is archived is where it belongs.
RestoredAsArchived == [][Restores]_vars
=============================================================================
