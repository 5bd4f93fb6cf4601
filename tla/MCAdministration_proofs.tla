----------------------- MODULE MCAdministration_proofs -----------------------
(***************************************************************************)
(* The components of MCAdministration, each for every value of its         *)
(* constants: the firmware library, its sync and its pushes; Configuration *)
(* Import beside Devices that register; a setting of a Device on its page; *)
(* and the two windows of the clock, for days of any length.               *)
(***************************************************************************)
EXTENDS MCAdministration, WellFoundedInduction, SequenceTheorems, TLAPS

-----------------------------------------------------------------------------
(* The firmware library: the inductive invariant.                          *)

\* A binary that is written and not yet named by a row.
Unnamed(f) == f \in file /\ f \notin DOMAIN row /\ f \notin unlinking
SyncWrites(s, f) == At(s, "insert") /\ sync[s].made = f
UploadWrites(u, f) == upload[u].pc = "save" /\ upload[u].made = f

\* Each such binary is one handler's, and no two handlers write the same.
BinariesInHand ==
  /\ \A s \in Syncs : At(s, "insert") => Unnamed(sync[s].made)
  /\ \A u \in Uploads : upload[u].pc = "save" => Unnamed(upload[u].made)
  /\ \A s \in Syncs, u \in Uploads : At(s, "insert") /\ upload[u].pc = "save" => sync[s].made # upload[u].made
  /\ \A u, v \in Uploads : upload[u].pc = "save" /\ upload[v].pc = "save" /\ upload[u].made = upload[v].made => u = v
  /\ unlinking \cap DOMAIN row = {}
  /\ DOMAIN row \subseteq file
  /\ faults = 0 => \A f \in file : \/ f \in DOMAIN row \/ f \in unlinking
                                   \/ \E s \in Syncs : SyncWrites(s, f)
                                   \/ \E u \in Uploads : UploadWrites(u, f)

\* What the policy and "Catch up now" hand out is official, and so never deleted.
OfficialIsGiven ==
  /\ \A s \in Syncs : At(s, "policy") \/ At(s, "assign") => sync[s].made \in Held("official")
  /\ \A g \in catchUp : g.firmware \in Held("official")

\* A copy of a Device that a PATCH saves has a target if it has a push.
CopiesHaveTarget == \A p \in patch : p.copy.push => p.copy.target # None

\* The sync under way stores a Firmware newer than every official one.
NewestIsStored == \A s \in Syncs : At(s, "insert") => \A g \in Held("official") : g < sync[s].made

IInv ==
  /\ TypeOK /\ BinariesInHand /\ OfficialIsGiven /\ CopiesHaveTarget /\ NewestIsStored
  /\ PushHasTarget /\ OneCurrentPerFolder
-----------------------------------------------------------------------------
(* Typing.                                                                 *)

LEMMA Assumed ==
  MaxFirmwares \in Nat /\ MaxFaults \in Nat /\ NoSync \notin Syncs /\ 1 \in DOMAIN FeedLog /\ AutoUpdates \subseteq BOOLEAN
<1>1. MaxFirmwares \in Nat /\ MaxFaults \in Nat
  BY FirmwareUpdateAssumptions
<1>2. FeedLog \in Seq(Range(FeedLog)) /\ FeedLog # <<>>
  BY FirmwareUpdateAssumptions
<1>3. 1 \in DOMAIN FeedLog
  BY <1>2
<1> QED BY <1>1, <1>3, FirmwareUpdateAssumptions

LEMMA RecordTypes ==
  /\ IdleSync \in SyncRecords /\ IdleSync.pc = "idle" /\ IdleSync.todo = {} /\ IdleSync.got = {}
  /\ IdleUpload \in UploadRecords /\ IdleUpload.pc = "idle"
BY DEF IdleSync, SyncRecords, IdleUpload, UploadRecords, Firmwares, None

LEMMA FeedTypes ==
  \A n \in DOMAIN FeedLog :
    /\ DOMAIN FeedLog[n] \subseteq Folders
    /\ \A folder \in DOMAIN FeedLog[n] : FeedLog[n][folder] \in [version: Nat, models: SUBSET Models]
BY FirmwareUpdateAssumptions DEF Folders

\* What a Firmware's number is.
LEMMA RowTypes ==
  ASSUME TypeOK, NEW f \in DOMAIN row
  PROVE  f \in Firmwares /\ f \in Nat /\ f # None /\ f <= made /\ row[f] \in Rows
BY Assumed DEF TypeOK, Firmwares, None

\* What the one sync under way becomes.
SyncStands(r) ==
  /\ r \in SyncRecords /\ r.pc # "idle" /\ r.todo \cup r.got \subseteq DOMAIN r.listed
  /\ r.pc = "insert" => r.folder \in DOMAIN r.listed
SyncsStand ==
  /\ sync \in [Syncs -> SyncRecords] /\ syncing \in Syncs \cup {NoSync}
  /\ \A s \in Syncs : /\ At(s, "idle") <=> syncing # s
                      /\ sync[s].todo \cup sync[s].got \subseteq DOMAIN sync[s].listed
                      /\ At(s, "insert") => sync[s].folder \in DOMAIN sync[s].listed

LEMMA OneUnderWay ==
  ASSUME TypeOK, NEW s \in Syncs, ~At(s, "idle")
  PROVE  /\ syncing = s /\ SyncStands(sync[s])
         /\ \A v \in Syncs : v # s => At(v, "idle")
BY DEF TypeOK, At, SyncStands

LEMMA SyncBecomes ==
  ASSUME TypeOK, NEW s \in Syncs, NEW r, SyncStands(r), Become(s, r), syncing = s, syncing' = s
  PROVE  /\ SyncsStand' /\ sync'[s] = r
         /\ \A v \in Syncs : v # s => sync'[v] = sync[v]
BY DEF TypeOK, At, SyncStands, SyncsStand, Become

LEMMA SyncEnds ==
  ASSUME TypeOK, NEW s \in Syncs, ~At(s, "idle"), End(s)
  PROVE  /\ SyncsStand' /\ At(s, "idle")'
         /\ \A v \in Syncs : v # s => sync'[v] = sync[v]
BY RecordTypes, Assumed DEF TypeOK, At, SyncsStand, Become, End

LEMMA PassedStands ==
  ASSUME TypeOK, NEW s \in Syncs, NEW folder, ~At(s, "idle"),
         NEW pc \in {"realign", "download"}, NEW after \in {"download", "store"}
  PROVE  /\ SyncStands(Passed(s, folder, pc, after))
         /\ Passed(s, folder, pc, after).pc \in {pc, after}
         /\ Passed(s, folder, pc, after).listed = sync[s].listed
         /\ Passed(s, folder, pc, after).got = sync[s].got
<1>1. sync[s] \in SyncRecords /\ sync[s].todo \cup sync[s].got \subseteq DOMAIN sync[s].listed
  BY DEF TypeOK
<1>2. DOMAIN sync[s].listed \subseteq Folders
  <2>1. CASE sync[s].listed = <<>>
    BY <2>1
  <2>2. CASE \E n \in DOMAIN FeedLog : sync[s].listed = FeedLog[n]
    BY <2>2, FeedTypes
  <2> QED BY <1>1, <2>1, <2>2 DEF SyncRecords
<1> DEFINE left == sync[s].todo \ {folder}
<1>3. left \subseteq DOMAIN sync[s].listed
  BY <1>1
<1>4. \A here \in {pc, after} : \A todo \in SUBSET DOMAIN sync[s].listed :
        LET r == [sync[s] EXCEPT !.pc = here, !.todo = todo]
        IN SyncStands(r) /\ r.pc = here /\ r.listed = sync[s].listed /\ r.got = sync[s].got
  BY ZenonT(40), <1>1, <1>2 DEF SyncStands, SyncRecords
<1>5. Passed(s, folder, pc, after) =
        IF left # {} THEN [sync[s] EXCEPT !.pc = pc, !.todo = left]
        ELSE [sync[s] EXCEPT !.pc = after, !.todo = IF after = "download" THEN DOMAIN sync[s].listed ELSE {}]
  BY DEF Passed
<1> HIDE DEF left
<1>6. CASE left # {}
  BY <1>3, <1>4, <1>5, <1>6
<1>7. CASE left = {}
  BY <1>4, <1>5, <1>7
<1> QED BY <1>6, <1>7

\* The largest of a nonempty set of Firmwares is one of them.
LEMMA MaxOfFirmwares ==
  ASSUME NEW S \in SUBSET Firmwares, S # {}
  PROVE  Max(S) \in S
<1> DEFINE T == {MaxFirmwares - f : f \in S}
<1>1. MaxFirmwares \in Nat /\ S \subseteq Nat /\ T \in SUBSET Nat /\ T # {}
  <2>1. MaxFirmwares \in Nat /\ \A f \in S : f \in Nat /\ MaxFirmwares - f \in Nat
    BY Assumed DEF Firmwares
  <2> QED BY <2>1
<1>2. PICK m \in T : \A k \in T : ~(<<k, m>> \in OpToRel(<, Nat))
  BY <1>1, NatLessThanWellFounded, WFMin
<1>3. ASSUME NEW k \in T PROVE m <= k
  <2>1. <<k, m>> \in Nat \X Nat /\ ~(<<k, m>>[1] < <<k, m>>[2])
    BY <1>1, <1>2 DEF OpToRel
  <2> QED BY <1>1, <2>1
<1>4. PICK f \in S : m = MaxFirmwares - f
  OBVIOUS
<1>5. ASSUME NEW g \in S PROVE f >= g
  <2>1. MaxFirmwares - f <= MaxFirmwares - g
    BY <1>3, <1>4
  <2> QED BY <1>1, <2>1
<1> QED BY <1>5 DEF Max

-----------------------------------------------------------------------------
(* The actions.                                                            *)

LEMMA InitHolds == Init => IInv
<1> SUFFICES ASSUME Init PROVE IInv
  OBVIOUS
<1>1. row = <<>> /\ DOMAIN row = {} /\ Held("official") = {}
  BY DEF Init, Held
<1>2. \A s \in Syncs : At(s, "idle") /\ sync[s] = IdleSync
  BY RecordTypes DEF Init, At
<1>3. row \in [DOMAIN row -> Rows]
  BY <1>1
<1>4. device \in [Devices -> Copies]
  BY DEF Init, Copies, None
<1>5. /\ sync \in [Syncs -> SyncRecords]
      /\ \A s \in Syncs : /\ At(s, "idle") <=> syncing # s
                          /\ sync[s].todo \cup sync[s].got \subseteq DOMAIN sync[s].listed
                          /\ At(s, "insert") => sync[s].folder \in DOMAIN sync[s].listed
  BY <1>2, RecordTypes, Assumed DEF Init, At
<1>6. TypeOK
  <2>1. /\ published \in DOMAIN FeedLog /\ auto \in BOOLEAN /\ syncing \in Syncs \cup {NoSync}
        /\ made \in 0..MaxFirmwares /\ faults \in 0..MaxFaults
    BY Assumed DEF Init
  <2>2. file = {} /\ unlinking = {} /\ catchUp = {} /\ patch = {} /\ upload \in [Uploads -> UploadRecords]
    BY RecordTypes DEF Init
  <2>3. DOMAIN row \subseteq 1..made
    BY <1>1
  <2> QED BY <1>3, <1>4, <1>5, <2>1, <2>2, <2>3 DEF TypeOK
<1>7. \A u \in Uploads : upload[u].pc = "idle"
  BY RecordTypes DEF Init
<1>8. BinariesInHand
  BY <1>1, <1>2, <1>7 DEF Init, BinariesInHand, At
<1>9. OfficialIsGiven /\ CopiesHaveTarget /\ NewestIsStored
  BY <1>2 DEF Init, OfficialIsGiven, CopiesHaveTarget, NewestIsStored, At
<1>10. PushHasTarget
  BY DEF Init, PushHasTarget
<1>11. OneCurrentPerFolder
  BY <1>1 DEF OneCurrentPerFolder
<1> QED BY <1>6, <1>8, <1>9, <1>10, <1>11 DEF IInv

\* A step that writes no binary, adds and removes no row, and takes up no new
\* Firmware in hand; a step that drops one counts as a fault.
LEMMA LibraryStands ==
  ASSUME IInv, TypeOK', PushHasTarget',
         UNCHANGED <<file, made, unlinking>>, faults' = 0 => faults = 0, DOMAIN row' = DOMAIN row,
         \A f \in DOMAIN row : /\ row'[f].kind = row[f].kind /\ row'[f].folder = row[f].folder
                               /\ row'[f].deprecated = row[f].deprecated,
         \A s \in Syncs : At(s, "insert")' => At(s, "insert") /\ sync'[s].made = sync[s].made,
         \A s \in Syncs : At(s, "insert") => faults' # 0 \/ At(s, "insert")',
         \A s \in Syncs : At(s, "policy")' \/ At(s, "assign")' => sync'[s].made \in Held("official"),
         \A u \in Uploads : upload'[u].pc = "save" => upload[u].pc = "save" /\ upload'[u].made = upload[u].made,
         \A u \in Uploads : upload[u].pc = "save" => faults' # 0 \/ upload'[u].pc = "save",
         \A g \in catchUp' : g.firmware \in Held("official"),
         \A p \in patch' : p.copy.push => p.copy.target # None
  PROVE  IInv'
<1>1. \A kind : Held(kind)' = Held(kind)
  BY DEF Held
<1>2. \A folder : Official(folder)' = Official(folder)
  BY <1>1 DEF Official, Held
<1>3. OneCurrentPerFolder'
  BY <1>1, <1>2 DEF IInv, OneCurrentPerFolder, Held, Official
<1>4. OfficialIsGiven' /\ CopiesHaveTarget' /\ NewestIsStored'
  BY <1>1 DEF IInv, OfficialIsGiven, CopiesHaveTarget, NewestIsStored
<1>5. \A f : Unnamed(f)' <=> Unnamed(f)
  BY DEF Unnamed
<1>6. faults' = 0 => \A f : /\ \A s \in Syncs : SyncWrites(s, f) => SyncWrites(s, f)'
                            /\ \A u \in Uploads : UploadWrites(u, f) => UploadWrites(u, f)'
  BY DEF SyncWrites, UploadWrites
<1>7. BinariesInHand'
  BY <1>5, <1>6 DEF IInv, BinariesInHand
<1> QED BY <1>3, <1>4, <1>7 DEF IInv

LEMMA StartKeeps ==
  ASSUME IInv, NEW s \in Syncs, Start(s)
  PROVE  IInv'
<1> DEFINE r == [IdleSync EXCEPT !.pc = "fetch"]
<1>1. r \in SyncRecords /\ r.pc = "fetch" /\ r.todo = {} /\ r.got = {}
  BY RecordTypes DEF SyncRecords, IdleSync
<1>2. /\ sync' = [sync EXCEPT ![s] = r] /\ syncing = NoSync /\ syncing' = s
      /\ UNCHANGED <<published, row, file, made, unlinking, device, auto, upload, catchUp, patch, faults>>
  BY DEF Start, Become, library
<1>3. \A v \in Syncs : At(v, "idle")
  BY <1>2, Assumed DEF IInv, TypeOK
<1> HIDE DEF r
<1>4. SyncsStand' /\ \A v \in Syncs : IF v = s THEN sync'[v] = r ELSE sync'[v] = sync[v] /\ At(v, "idle")'
  BY <1>1, <1>2, <1>3 DEF IInv, TypeOK, At, SyncsStand
<1>5. TypeOK'
  BY <1>2, <1>4 DEF IInv, TypeOK, SyncsStand, At
<1>6. PushHasTarget'
  BY <1>2 DEF IInv, PushHasTarget
<1> QED BY <1>1, <1>2, <1>3, <1>4, <1>5, <1>6, LibraryStands DEF IInv, OfficialIsGiven, CopiesHaveTarget, At

\* The sync ends, and stands in a fault if a binary is in its hands.
LEMMA EndKeeps ==
  ASSUME IInv, NEW s \in Syncs, ~At(s, "idle"), End(s),
         faults' \in 0..MaxFaults, faults' = 0 => faults = 0 /\ ~At(s, "insert"),
         UNCHANGED <<published, row, file, made, unlinking, device, auto, upload, catchUp, patch>>
  PROVE  IInv'
<1>1. SyncsStand' /\ At(s, "idle")' /\ \A v \in Syncs : v # s => sync'[v] = sync[v]
  BY SyncEnds DEF IInv
<1>2. TypeOK'
  BY <1>1 DEF IInv, TypeOK, SyncsStand, At
<1>3. PushHasTarget'
  BY DEF IInv, PushHasTarget
<1> QED BY <1>1, <1>2, <1>3, LibraryStands DEF IInv, OfficialIsGiven, CopiesHaveTarget, At

\* The sync under way goes from one step to another that holds no binary.
LEMMA MoveKeeps ==
  ASSUME IInv, NEW s \in Syncs, ~At(s, "idle"), ~At(s, "insert"), NEW r, SyncStands(r), Become(s, r), r.pc # "insert",
         r.pc \in {"policy", "assign"} => r.made \in Held("official"),
         UNCHANGED <<published, row, file, made, unlinking, device, auto, syncing, upload, catchUp, patch, faults>>
  PROVE  IInv'
<1>1. SyncsStand' /\ sync'[s] = r /\ \A v \in Syncs : v # s => sync'[v] = sync[v]
  BY OneUnderWay, SyncBecomes DEF IInv
<1>2. TypeOK'
  BY <1>1 DEF IInv, TypeOK, SyncsStand, At
<1>3. PushHasTarget'
  BY DEF IInv, PushHasTarget
<1> QED BY <1>1, <1>2, <1>3, LibraryStands DEF IInv, OfficialIsGiven, CopiesHaveTarget, At

LEMMA EndingsKeep ==
  ASSUME IInv, NEW s \in Syncs,
         \/ FetchFails(s) \/ InsertFails(s) \/ AssignFails(s) \/ Finish(s)
         \/ \E folder \in sync[s].todo : DownloadFails(s, folder)
  PROVE  IInv'
<1>1. ~At(s, "idle") /\ End(s) /\ UNCHANGED <<published, row, file, made, unlinking, device, auto, upload, catchUp, patch>>
  BY DEF FetchFails, InsertFails, AssignFails, Finish, DownloadFails, library, At
<1>2. \/ faults' = faults /\ ~At(s, "insert")
      \/ faults' = faults + 1 /\ faults < MaxFaults
  BY DEF FetchFails, InsertFails, AssignFails, Finish, DownloadFails, At
<1>3. faults' \in 0..MaxFaults /\ (faults' = 0 => faults = 0 /\ ~At(s, "insert"))
  BY <1>2, Assumed DEF IInv, TypeOK
<1> QED BY <1>1, <1>3, EndKeeps

LEMMA PassesKeep ==
  ASSUME IInv, NEW s \in Syncs,
         \/ Fetch(s) \/ ApplyPolicy(s)
         \/ \E folder \in sync[s].todo : Skip(s, folder) \/ Download(s, folder)
  PROVE  IInv'
<1>1. sync[s] \in SyncRecords /\ sync[s].todo \cup sync[s].got \subseteq DOMAIN sync[s].listed
  BY DEF IInv, TypeOK
<1>2. ASSUME NEW folder, Skip(s, folder) PROVE IInv'
  <2>1. Become(s, Passed(s, folder, "download", "store")) /\ ~At(s, "idle") /\ ~At(s, "insert")
    BY <1>2 DEF Skip, At
  <2>2. /\ SyncStands(Passed(s, folder, "download", "store"))
        /\ Passed(s, folder, "download", "store").pc \in {"download", "store"}
    BY <2>1, PassedStands DEF IInv
  <2> QED BY <1>2, <2>1, <2>2, MoveKeeps DEF Skip, library
<1>3. ASSUME NEW folder \in sync[s].todo, Download(s, folder) PROVE IInv'
  <2> DEFINE p == Passed(s, folder, "download", "store")
             r == [p EXCEPT !.got = @ \cup {folder}]
  <2>1. Become(s, r) /\ ~At(s, "idle") /\ ~At(s, "insert")
    BY <1>3 DEF Download, At
  <2>2. SyncStands(p) /\ p.pc \in {"download", "store"} /\ p.listed = sync[s].listed /\ p.got = sync[s].got
    BY <2>1, PassedStands DEF IInv
  <2> HIDE DEF p
  <2>3. folder \in Folders
    BY <1>1 DEF SyncRecords
  <2>4. SyncStands(r) /\ r.pc = p.pc
    BY <1>1, <2>2, <2>3 DEF SyncStands, SyncRecords
  <2> QED BY <1>3, <2>1, <2>2, <2>4, MoveKeeps DEF Download, library
<1>4. ASSUME Fetch(s) PROVE IInv'
  <2> DEFINE r == [IdleSync EXCEPT !.pc = "realign", !.listed = feed, !.todo = DOMAIN feed]
  <2>1. Become(s, r) /\ At(s, "fetch") /\ ~At(s, "idle") /\ ~At(s, "insert")
    BY <1>4 DEF Fetch, At
  <2>2. published \in DOMAIN FeedLog /\ DOMAIN feed \subseteq Folders
    BY FeedTypes DEF IInv, TypeOK, feed
  <2>3. feed \in {FeedLog[n] : n \in DOMAIN FeedLog}
    BY <2>2 DEF feed
  <2>4. IdleSync \in SyncRecords /\ IdleSync.got = {}
    BY RecordTypes
  <2>5. SyncStands(r) /\ r.pc = "realign"
    BY <2>2, <2>3, <2>4 DEF SyncStands, SyncRecords
  <2> QED BY <1>4, <2>1, <2>5, MoveKeeps DEF Fetch, library
<1>5. ASSUME ApplyPolicy(s) PROVE IInv'
  <2> DEFINE giving == IF auto THEN {CopyOf(d) : d \in Given(s)} ELSE {}
             r == [sync[s] EXCEPT !.pc = IF giving = {} THEN "store" ELSE "assign", !.giving = giving]
  <2>1. Become(s, r) /\ At(s, "policy") /\ ~At(s, "idle") /\ ~At(s, "insert")
    BY <1>5 DEF ApplyPolicy, At
  <2>2. giving \subseteq [device: Devices, copy: Copies]
    BY DEF IInv, TypeOK, CopyOf, Given, Eligible, Candidates
  <2>3. sync[s].made \in Held("official")
    BY <2>1 DEF IInv, OfficialIsGiven
  <2> HIDE DEF giving
  <2>4. SyncStands(r) /\ r.pc \in {"store", "assign"} /\ r.made = sync[s].made
    BY <1>1, <2>2 DEF SyncStands, SyncRecords
  <2> QED BY <1>5, <2>1, <2>3, <2>4, MoveKeeps DEF ApplyPolicy, library, giving
<1> QED BY <1>2, <1>3, <1>4, <1>5

LEMMA RealignKeeps ==
  ASSUME IInv, NEW s \in Syncs, NEW folder \in sync[s].todo, Realign(s, folder)
  PROVE  IInv'
<1> DEFINE p == Passed(s, folder, "realign", "download")
<1>1. /\ Become(s, p) /\ At(s, "realign") /\ ~At(s, "idle") /\ ~At(s, "insert")
      /\ UNCHANGED <<published, file, made, unlinking, device, auto, syncing, upload, catchUp, patch, faults>>
      /\ row' = [f \in DOMAIN row |-> IF f \in Official(folder) THEN [row[f] EXCEPT !.models = sync[s].listed[folder].models] ELSE row[f]]
  BY DEF Realign, At
<1>2. SyncStands(p) /\ p.pc \in {"realign", "download"}
  BY <1>1, PassedStands DEF IInv
<1> HIDE DEF p
<1>3. SyncsStand' /\ sync'[s] = p /\ \A v \in Syncs : v # s => sync'[v] = sync[v]
  BY <1>1, <1>2, OneUnderWay, SyncBecomes DEF IInv
<1>4. sync[s].listed[folder].models \in SUBSET Models
  <2>1. sync[s] \in SyncRecords /\ folder \in DOMAIN sync[s].listed
    BY DEF IInv, TypeOK
  <2>2. sync[s].listed # <<>>
    BY <2>1
  <2>3. PICK n \in DOMAIN FeedLog : sync[s].listed = FeedLog[n]
    BY <2>1, <2>2 DEF SyncRecords
  <2> QED BY <2>1, <2>3, FeedTypes
<1>5. /\ DOMAIN row' = DOMAIN row
      /\ \A f \in DOMAIN row : /\ row'[f] \in Rows
                               /\ row'[f].kind = row[f].kind /\ row'[f].folder = row[f].folder
                               /\ row'[f].deprecated = row[f].deprecated
  BY <1>1, <1>4, RowTypes DEF IInv, Rows
<1>6. row' \in [DOMAIN row' -> Rows]
  BY <1>1, <1>5
<1>7. TypeOK'
  BY <1>1, <1>3, <1>5, <1>6 DEF IInv, TypeOK, SyncsStand, At
<1>8. PushHasTarget'
  BY <1>1, <1>5 DEF IInv, PushHasTarget
<1> QED BY <1>1, <1>2, <1>3, <1>5, <1>7, <1>8, LibraryStands DEF IInv, OfficialIsGiven, CopiesHaveTarget, At

LEMMA WriteFileKeeps ==
  ASSUME IInv, NEW s \in Syncs, WriteFile(s)
  PROVE  IInv'
<1>1. PICK folder \in sync[s].got :
        Become(s, [sync[s] EXCEPT !.pc = "insert", !.got = @ \ {folder}, !.folder = folder, !.made = made + 1])
  BY DEF WriteFile
<1> DEFINE r == [sync[s] EXCEPT !.pc = "insert", !.got = @ \ {folder}, !.folder = folder, !.made = made + 1]
<1>2. /\ At(s, "store") /\ ~At(s, "idle") /\ ~At(s, "insert") /\ made < MaxFirmwares
      /\ made' = made + 1 /\ file' = file \cup {made + 1}
      /\ UNCHANGED <<published, row, unlinking, device, auto, syncing, upload, catchUp, patch, faults>>
  BY DEF WriteFile, At
<1>3. made \in Nat /\ made + 1 \in Firmwares /\ made + 1 \in 0..MaxFirmwares
  BY <1>2, Assumed DEF IInv, TypeOK, Firmwares
<1>4. sync[s] \in SyncRecords /\ sync[s].todo \cup sync[s].got \subseteq DOMAIN sync[s].listed
  BY DEF IInv, TypeOK
<1>5. SyncStands(r) /\ r.pc = "insert" /\ r.made = made + 1
  BY <1>3, <1>4 DEF SyncStands, SyncRecords
<1> HIDE DEF r
<1>6. SyncsStand' /\ sync'[s] = r /\ \A v \in Syncs : v # s => sync'[v] = sync[v] /\ At(v, "idle")
  BY <1>1, <1>2, <1>5, OneUnderWay, SyncBecomes DEF IInv, r
<1>7. TypeOK'
  BY <1>2, <1>3, <1>6 DEF IInv, TypeOK, SyncsStand, At
<1>8. /\ \A f \in DOMAIN row \cup file \cup unlinking : f \in Nat /\ f <= made
      /\ made + 1 \notin DOMAIN row \cup file \cup unlinking
  BY <1>3 DEF IInv, TypeOK
<1>9. PushHasTarget' /\ OneCurrentPerFolder' /\ CopiesHaveTarget'
  BY <1>2 DEF IInv, PushHasTarget, OneCurrentPerFolder, CopiesHaveTarget, Held, Official
<1>10. OfficialIsGiven' /\ NewestIsStored'
  <2>1. Held("official")' = Held("official") /\ Held("official") \subseteq DOMAIN row
    BY <1>2 DEF Held
  <2>2. \A g \in Held("official") : g < made + 1
    BY <1>3, <1>8, <2>1
  <2>3. \A v \in Syncs : At(v, "insert")' => sync'[v].made = made + 1
    BY <1>5, <1>6 DEF At
  <2>4. \A v \in Syncs : ~At(v, "policy")' /\ ~At(v, "assign")'
    BY <1>5, <1>6 DEF At
  <2> QED BY <1>2, <2>1, <2>2, <2>3, <2>4 DEF IInv, OfficialIsGiven, NewestIsStored
<1>11. BinariesInHand'
  <2>1. \A f : Unnamed(f)' <=> Unnamed(f) \/ f = made + 1
    BY <1>2, <1>8 DEF Unnamed
  <2>2. /\ \A f : SyncWrites(s, f)' <=> f = made + 1
        /\ \A v \in Syncs, f \in file : ~SyncWrites(v, f)
        /\ \A v \in Syncs : At(v, "insert")' => v = s
    BY <1>2, <1>5, <1>6 DEF SyncWrites, At
  <2>3. \A u \in Uploads : /\ \A f : UploadWrites(u, f)' <=> UploadWrites(u, f)
                           /\ upload[u].pc = "save" => upload[u].made # made + 1
    BY <1>2, <1>8 DEF UploadWrites, IInv, BinariesInHand, Unnamed
  <2>4. sync'[s].made = made + 1
    BY <1>5, <1>6
  <2> QED BY <1>2, <1>8, <2>1, <2>2, <2>3, <2>4 DEF IInv, BinariesInHand
<1> QED BY <1>7, <1>9, <1>10, <1>11 DEF IInv

LEMMA InsertKeeps ==
  ASSUME IInv, NEW s \in Syncs, Insert(s)
  PROVE  IInv'
<1> DEFINE new == sync[s].made
           folder == sync[s].folder
           listed == sync[s].listed[folder]
           added == [kind |-> "official", folder |-> folder, version |-> listed.version, models |-> listed.models, deprecated |-> FALSE]
<1>1. /\ At(s, "insert") /\ ~At(s, "idle")
      /\ UNCHANGED <<published, made, unlinking, device, auto, syncing, upload, catchUp, patch, faults>>
  BY DEF Insert, At
<1>2. /\ sync[s] \in SyncRecords /\ SyncStands(sync[s]) /\ syncing = s
      /\ \A v \in Syncs : v # s => At(v, "idle")
  BY <1>1, OneUnderWay DEF IInv, TypeOK
<1>3. /\ Unnamed(new) /\ new \in Firmwares /\ new \in Nat /\ new <= made
      /\ \A u \in Uploads : upload[u].pc = "save" => upload[u].made # new
      /\ \A g \in Held("official") : g < new
  <2>1. Unnamed(new) /\ \A u \in Uploads : upload[u].pc = "save" => upload[u].made # new
    BY <1>1 DEF IInv, BinariesInHand
  <2>2. new \in 1..made /\ made \in 0..MaxFirmwares
    BY <2>1 DEF Unnamed, IInv, TypeOK
  <2> QED BY <1>1, <2>1, <2>2, Assumed DEF IInv, NewestIsStored, Firmwares
<1>4. \A pc \in {"store", "policy"} : LET r == [sync[s] EXCEPT !.pc = pc] IN SyncStands(r) /\ r.pc = pc /\ r.made = new
  BY <1>2 DEF SyncStands, SyncRecords
<1>5. /\ \A f : SyncWrites(s, f) => f = new
      /\ \A v \in Syncs, f \in file : SyncWrites(v, f) => f = new
  BY <1>2 DEF SyncWrites, At

\* the binary that is not to be stored goes
<1>6. ASSUME file' = file \ {new}, Become(s, [sync[s] EXCEPT !.pc = "store"]), row' = row
      PROVE  IInv'
  <2>1. SyncsStand' /\ sync'[s].pc = "store" /\ \A v \in Syncs : v # s => sync'[v] = sync[v]
    BY <1>1, <1>2, <1>4, <1>6, SyncBecomes DEF IInv
  <2>2. TypeOK'
    BY <1>1, <1>6, <2>1 DEF IInv, TypeOK, SyncsStand, At
  <2>3. \A v \in Syncs : sync'[v].pc \in {"store", "idle"}
    BY <1>2, <2>1 DEF At
  <2>4. PushHasTarget' /\ OneCurrentPerFolder' /\ CopiesHaveTarget'
    BY <1>1, <1>6 DEF IInv, PushHasTarget, OneCurrentPerFolder, CopiesHaveTarget, Held, Official
  <2>5. OfficialIsGiven' /\ NewestIsStored'
    BY <1>1, <1>6, <2>3 DEF IInv, OfficialIsGiven, NewestIsStored, Held, At
  <2>6. BinariesInHand'
    <3>1. /\ \A f : Unnamed(f)' <=> Unnamed(f) /\ f # new
          /\ \A v \in Syncs : ~At(v, "insert")'
          /\ \A u \in Uploads : \A f : UploadWrites(u, f)' <=> UploadWrites(u, f)
      BY <1>1, <1>6, <2>3 DEF Unnamed, UploadWrites, At
    <3> QED BY <1>1, <1>3, <1>5, <1>6, <3>1 DEF IInv, BinariesInHand, Unnamed
  <2> QED BY <2>2, <2>4, <2>5, <2>6 DEF IInv

\* the row is stored
<1>7. ASSUME row' = Added(Deprecated(folder), new, added), Become(s, [sync[s] EXCEPT !.pc = "policy"]), file' = file
      PROVE  IInv'
  <2>1. SyncsStand' /\ sync'[s].pc = "policy" /\ sync'[s].made = new /\ \A v \in Syncs : v # s => sync'[v] = sync[v]
    BY <1>1, <1>2, <1>4, <1>7, SyncBecomes DEF IInv
  <2>2. added \in Rows /\ added.kind = "official" /\ added.folder = folder /\ ~added.deprecated
    <3>1. folder \in DOMAIN sync[s].listed
      BY <1>1, <1>2 DEF SyncStands, At
    <3>2. sync[s].listed # <<>>
      BY <3>1
    <3>3. PICK n \in DOMAIN FeedLog : sync[s].listed = FeedLog[n]
      BY <1>2, <3>2 DEF SyncRecords
    <3>4. listed \in [version: Nat, models: SUBSET Models]
      BY <3>1, <3>3, FeedTypes
    <3>5. folder \in Folders
      BY <3>1, <3>3, FeedTypes
    <3> HIDE DEF listed, folder
    <3> QED BY <3>4, <3>5 DEF Rows
  <2>14. row' = Added(Deprecated(folder), new, added) /\ file' = file
    BY <1>7
  <2> HIDE DEF added, listed, folder, new
  <2>3. /\ DOMAIN Deprecated(folder) = DOMAIN row
        /\ \A f \in DOMAIN row : /\ Deprecated(folder)[f] \in Rows
                                 /\ Deprecated(folder)[f].kind = row[f].kind /\ Deprecated(folder)[f].folder = row[f].folder
                                 /\ Deprecated(folder)[f].deprecated = IF f \in Official(folder) THEN TRUE ELSE row[f].deprecated
    BY RowTypes DEF Deprecated, IInv, Rows
  <2>4. new \notin DOMAIN row
    BY <1>3 DEF Unnamed
  <2>5. /\ DOMAIN row' = DOMAIN row \cup {new} /\ row'[new] = added
        /\ \A f \in DOMAIN row : /\ row'[f] \in Rows /\ f # new
                                 /\ row'[f].kind = row[f].kind /\ row'[f].folder = row[f].folder
                                 /\ row'[f].deprecated = IF f \in Official(folder) THEN TRUE ELSE row[f].deprecated
    <3> DEFINE rows == Deprecated(folder)
    <3>1. row' = Added(rows, new, added) /\ DOMAIN rows = DOMAIN row
      BY <2>3, <2>14
    <3> HIDE DEF rows
    <3>2. DOMAIN row' = DOMAIN row \cup {new} /\ row'[new] = added /\ \A f \in DOMAIN row : row'[f] = rows[f]
      BY <2>4, <3>1 DEF Added
    <3>3. \A f \in DOMAIN row : row'[f] = Deprecated(folder)[f] /\ f # new
      BY <2>4, <3>2 DEF rows
    <3> QED BY <2>3, <3>2, <3>3
  <2>6. row' \in [DOMAIN row' -> Rows]
    <3>1. row' = [f \in DOMAIN row' |-> row'[f]]
      BY <2>14 DEF Added
    <3>2. \A f \in DOMAIN row' : row'[f] \in Rows
      BY <2>2, <2>5
    <3> QED BY <3>1, <3>2
  <2>7. TypeOK'
    <3>1. DOMAIN row' \subseteq 1..made /\ made \in Nat
      BY <1>3, <2>5 DEF IInv, TypeOK, Firmwares
    <3> QED BY <1>1, <2>14, <2>1, <2>6, <3>1 DEF IInv, TypeOK, SyncsStand, At
  <2>8. \A v \in Syncs : IF v = s THEN sync'[v].pc = "policy" ELSE sync'[v].pc = "idle"
    BY <1>2, <2>1 DEF At
  <2>9. /\ Held("official")' = Held("official") \cup {new}
        /\ \A f \in Held("official") : f \in Official(folder) <=> row[f].folder = folder
    BY <2>2, <2>5 DEF Held, Official
  <2>10. PushHasTarget' /\ CopiesHaveTarget'
    BY <1>1, <2>5 DEF IInv, PushHasTarget, CopiesHaveTarget
  <2>11. OfficialIsGiven' /\ NewestIsStored'
    BY <1>1, <2>1, <2>8, <2>9 DEF IInv, OfficialIsGiven, NewestIsStored, At
  <2>12. OneCurrentPerFolder'
    <3>1. /\ \A f \in Held("official") : f \in DOMAIN row /\ f < new /\ f \in Nat
          /\ row'[new].folder = folder /\ ~row'[new].deprecated
      BY <1>3, <2>2, <2>5, RowTypes DEF Held, IInv
    <3>2. \A f \in Held("official") :
            ~row[f].deprecated <=> \A g \in Held("official") : row[g].folder = row[f].folder => g <= f
      BY DEF IInv, OneCurrentPerFolder, Official
    <3>3. ASSUME NEW f \in Held("official")
          PROVE  ~row'[f].deprecated <=> \A g \in Held("official")' : row'[g].folder = row'[f].folder => g <= f
      <4>1. CASE row[f].folder = folder
        <5>1. row'[f].folder = row'[new].folder /\ row'[f].deprecated /\ ~(new <= f)
          <6>1. f \in Official(folder) /\ f \in DOMAIN row
            BY <2>9, <3>1, <4>1
          <6>2. row'[f].folder = folder /\ row'[f].deprecated = TRUE
            BY <2>5, <4>1, <6>1
          <6> QED BY <1>3, <3>1, <6>2
        <5> QED BY <2>9, <5>1
      <4>2. CASE row[f].folder # folder
        <5>1. row'[f].folder # row'[new].folder /\ row'[f].deprecated = row[f].deprecated
          BY <2>5, <2>9, <3>1, <4>2
        <5> QED BY <2>5, <2>9, <3>1, <3>2, <5>1
      <4> QED BY <4>1, <4>2
    <3>4. \A g \in Held("official")' : g <= new
      BY <1>3, <2>9, <3>1
    <3>5. \A f \in Held("official")' :
            ~row'[f].deprecated <=> \A g \in Held("official")' : row'[g].folder = row'[f].folder => g <= f
      BY <2>9, <3>1, <3>3, <3>4
    <3> QED BY <3>5 DEF OneCurrentPerFolder, Official
  <2>13. BinariesInHand'
    <3>1. /\ \A f : Unnamed(f)' <=> Unnamed(f) /\ f # new
          /\ \A v \in Syncs : ~At(v, "insert")'
          /\ \A u \in Uploads : \A f : UploadWrites(u, f)' <=> UploadWrites(u, f)
      BY <1>1, <2>14, <2>5, <2>8 DEF Unnamed, UploadWrites, At
    <3> QED BY <1>1, <1>3, <1>5, <2>14, <2>5, <3>1 DEF IInv, BinariesInHand, Unnamed
  <2> QED BY <2>7, <2>10, <2>11, <2>12, <2>13 DEF IInv
<1> QED BY <1>6, <1>7 DEF Insert

\* A step that writes Devices and the copies taken of them.
LEMMA DeviceWriteKeeps ==
  ASSUME IInv, UNCHANGED <<published, row, file, made, unlinking, auto, syncing, upload, faults>>,
         SyncsStand', \A s \in Syncs : /\ At(s, "insert")' <=> At(s, "insert")
                                       /\ sync'[s].made = sync[s].made
                                       /\ At(s, "policy")' \/ At(s, "assign")' => At(s, "policy") \/ At(s, "assign"),
         device' \in [Devices -> Copies], PushHasTarget',
         catchUp' \subseteq [device: Devices, copy: Copies, firmware: Firmwares],
         \A g \in catchUp' : g.firmware \in Held("official"),
         patch' \subseteq [device: Devices, copy: Copies],
         \A p \in patch' : p.copy.push => p.copy.target # None
  PROVE  IInv'
<1>1. TypeOK'
  BY DEF IInv, TypeOK, SyncsStand, At
<1> QED BY <1>1, LibraryStands DEF IInv, OfficialIsGiven

LEMMA SyncsUntouched ==
  ASSUME IInv, UNCHANGED <<syncing, sync>>
  PROVE  SyncsStand' /\ \A s \in Syncs : \A pc : At(s, pc)' <=> At(s, pc)
BY DEF IInv, TypeOK, SyncsStand, At

\* A copy stored with a Firmware that is in the library.
LEMMA AssignedHasTarget ==
  ASSUME IInv, NEW d \in Devices, NEW copy \in Copies, NEW f \in DOMAIN row, device' = Assigned(d, copy, f), row' = row
  PROVE  device' \in [Devices -> Copies] /\ PushHasTarget'
<1>1. f \in Firmwares
  BY RowTypes DEF IInv
<1>2. [copy EXCEPT !.target = f, !.push = TRUE] \in Copies /\ [copy EXCEPT !.target = f, !.push = TRUE].target = f
  BY <1>1 DEF Copies
<1>3. device \in [Devices -> Copies]
  BY DEF IInv, TypeOK
<1>4. device' \in [Devices -> Copies] /\ \A x \in Devices : IF x = d THEN device'[x].target = f ELSE device'[x] = device[x]
  BY <1>2, <1>3 DEF Assigned
<1> QED BY <1>4 DEF IInv, PushHasTarget

LEMMA AssignKeeps ==
  ASSUME IInv, NEW s \in Syncs, Assign(s)
  PROVE  IInv'
<1>1. PICK g \in sync[s].giving :
        /\ device' = Assigned(g.device, g.copy, sync[s].made)
        /\ LET left == sync[s].giving \ {g}
           IN Become(s, [sync[s] EXCEPT !.pc = IF left = {} THEN "store" ELSE "assign", !.giving = left])
  BY DEF Assign
<1> DEFINE left == sync[s].giving \ {g}
           r == [sync[s] EXCEPT !.pc = IF left = {} THEN "store" ELSE "assign", !.giving = left]
<1>2. /\ At(s, "assign") /\ ~At(s, "idle")
      /\ UNCHANGED <<published, row, file, made, unlinking, auto, syncing, upload, catchUp, patch, faults>>
  BY DEF Assign, At, library
<1>3. sync[s] \in SyncRecords /\ SyncStands(sync[s]) /\ syncing = s
  BY <1>2, OneUnderWay DEF IInv, TypeOK
<1>4. g.device \in Devices /\ g.copy \in Copies /\ sync[s].made \in DOMAIN row
  BY <1>2, <1>3 DEF SyncRecords, IInv, OfficialIsGiven, Held
<1>5. device' \in [Devices -> Copies] /\ PushHasTarget'
  BY <1>1, <1>2, <1>4, AssignedHasTarget
<1>6. SyncStands(r) /\ r.pc \in {"store", "assign"} /\ r.made = sync[s].made
  <2>1. left \subseteq [device: Devices, copy: Copies]
    BY <1>3 DEF SyncRecords
  <2> HIDE DEF left
  <2> QED BY <1>3, <2>1 DEF SyncStands, SyncRecords
<1>7. Become(s, r)
  BY <1>1
<1> HIDE DEF r
<1>8. SyncsStand' /\ sync'[s] = r /\ \A v \in Syncs : v # s => sync'[v] = sync[v]
  BY <1>2, <1>3, <1>6, <1>7, SyncBecomes DEF IInv
<1> QED BY <1>2, <1>5, <1>6, <1>8, DeviceWriteKeeps DEF IInv, TypeOK, OfficialIsGiven, CopiesHaveTarget, At

LEMMA CatchUpKeeps ==
  ASSUME IInv, CatchUp
  PROVE  IInv'
<1> DEFINE fits(d) == {f \in Current : isFirmwareCompatible(row[f].models, d)}
           older == {d \in Candidates : fits(d) # {} /\ device[d].runs # row[Max(fits(d))].version}
<1>1. /\ catchUp' = {[device |-> d, copy |-> device[d], firmware |-> Max(fits(d))] : d \in older}
      /\ UNCHANGED <<published, row, file, made, unlinking, device, auto, syncing, sync, upload, patch, faults>>
  BY DEF CatchUp, library
<1>2. ASSUME NEW d \in older
      PROVE  Max(fits(d)) \in Held("official") /\ Max(fits(d)) \in Firmwares /\ d \in Devices /\ device[d] \in Copies
  <2>1. fits(d) \subseteq Held("official") /\ Held("official") \subseteq Firmwares
    BY RowTypes DEF Current, Held, IInv
  <2>2. fits(d) \in SUBSET Firmwares /\ fits(d) # {}
    BY <2>1
  <2> HIDE DEF fits
  <2>3. Max(fits(d)) \in fits(d)
    BY <2>2, MaxOfFirmwares
  <2> QED BY <2>1, <2>3 DEF IInv, TypeOK, Candidates
<1> HIDE DEF fits
<1>3. /\ catchUp' \subseteq [device: Devices, copy: Copies, firmware: Firmwares]
      /\ \A g \in catchUp' : g.firmware \in Held("official")
  BY <1>1, <1>2
<1>4. device' \in [Devices -> Copies] /\ PushHasTarget' /\ patch' \subseteq [device: Devices, copy: Copies]
  BY <1>1 DEF IInv, TypeOK, PushHasTarget
<1> QED BY <1>1, <1>3, <1>4, SyncsUntouched, DeviceWriteKeeps DEF IInv, CopiesHaveTarget

LEMMA CatchUpAssignKeeps ==
  ASSUME IInv, CatchUpAssign
  PROVE  IInv'
<1>1. PICK g \in catchUp : device' = Assigned(g.device, g.copy, g.firmware) /\ catchUp' = catchUp \ {g}
  BY DEF CatchUpAssign
<1>2. UNCHANGED <<published, row, file, made, unlinking, auto, syncing, sync, upload, patch, faults>>
  BY DEF CatchUpAssign, library
<1>3. g.device \in Devices /\ g.copy \in Copies /\ g.firmware \in DOMAIN row
  BY DEF IInv, TypeOK, OfficialIsGiven, Held
<1>4. device' \in [Devices -> Copies] /\ PushHasTarget'
  BY <1>1, <1>2, <1>3, AssignedHasTarget
<1>5. /\ catchUp' \subseteq [device: Devices, copy: Copies, firmware: Firmwares]
      /\ \A h \in catchUp' : h.firmware \in Held("official")
      /\ patch' \subseteq [device: Devices, copy: Copies]
  BY <1>1, <1>2 DEF IInv, TypeOK, OfficialIsGiven
<1> QED BY <1>2, <1>4, <1>5, SyncsUntouched, DeviceWriteKeeps DEF IInv, CopiesHaveTarget

\* A Device's row has a target if it has a push, and so has every copy of it.
LEMMA RowHasTarget ==
  ASSUME IInv, NEW d \in Devices
  PROVE  device[d] \in Copies /\ (device[d].push => device[d].target # None)
BY RowTypes DEF IInv, TypeOK, PushHasTarget

LEMMA PatchLoadKeeps ==
  ASSUME IInv, NEW d \in Devices, PatchLoad(d)
  PROVE  IInv'
<1>1. /\ patch' = {[device |-> d, copy |-> device[d]]}
      /\ UNCHANGED <<published, row, file, made, unlinking, device, auto, syncing, sync, upload, catchUp, faults>>
  BY DEF PatchLoad, CopyOf, library
<1>2. patch' \subseteq [device: Devices, copy: Copies] /\ \A p \in patch' : p.copy.push => p.copy.target # None
  BY <1>1, RowHasTarget
<1>3. device' \in [Devices -> Copies] /\ PushHasTarget'
  BY <1>1 DEF IInv, TypeOK, PushHasTarget
<1>4. catchUp' \subseteq [device: Devices, copy: Copies, firmware: Firmwares] /\ \A g \in catchUp' : g.firmware \in Held("official")
  BY <1>1 DEF IInv, TypeOK, OfficialIsGiven
<1> QED BY <1>1, <1>2, <1>3, <1>4, SyncsUntouched, DeviceWriteKeeps

LEMMA PatchSaveKeeps ==
  ASSUME IInv, PatchSave
  PROVE  IInv'
<1>1. PICK p \in patch :
        \/ \E stored \in Changed(p.copy, p.device) : RowStands(stored.target) /\ device' = [device EXCEPT ![p.device] = stored]
        \/ UNCHANGED device
  BY DEF PatchSave
<1>2. patch' = {} /\ UNCHANGED <<published, row, file, made, unlinking, auto, syncing, sync, upload, catchUp, faults>>
  BY DEF PatchSave, library
<1>3. /\ device \in [Devices -> Copies] /\ p.device \in Devices /\ p.copy \in Copies
      /\ p.copy.push => p.copy.target # None
  BY DEF IInv, TypeOK, CopiesHaveTarget
<1>4. ASSUME NEW stored \in Changed(p.copy, p.device), RowStands(stored.target)
      PROVE  stored \in Copies /\ (stored.push => stored.target \in DOMAIN row)
  <2>1. \/ \E f \in DOMAIN row : stored = [p.copy EXCEPT !.target = f]
        \/ stored = [p.copy EXCEPT !.push = TRUE] /\ p.copy.target # None
        \/ stored = [p.copy EXCEPT !.mirror = ~p.copy.mirror]
        \/ stored = [p.copy EXCEPT !.target = None] /\ ~p.copy.push
    BY <1>4 DEF Changed
  <2>2. \A f \in DOMAIN row : f \in Firmwares /\ f # None
    BY RowTypes DEF IInv
  <2>3. stored \in Copies /\ (stored.push => stored.target # None)
    BY <1>3, <2>1, <2>2 DEF Copies
  <2> QED BY <1>4, <2>3 DEF RowStands
<1>5. device' \in [Devices -> Copies] /\ PushHasTarget'
  <2>1. CASE UNCHANGED device
    BY <1>2, <1>3, <2>1 DEF IInv, PushHasTarget
  <2>2. CASE \E stored \in Changed(p.copy, p.device) : RowStands(stored.target) /\ device' = [device EXCEPT ![p.device] = stored]
    BY <1>2, <1>3, <1>4, <2>2 DEF IInv, PushHasTarget
  <2> QED BY <1>1, <2>1, <2>2
<1>6. catchUp' \subseteq [device: Devices, copy: Copies, firmware: Firmwares] /\ \A g \in catchUp' : g.firmware \in Held("official")
  BY <1>2 DEF IInv, TypeOK, OfficialIsGiven
<1> QED BY <1>2, <1>5, <1>6, SyncsUntouched, DeviceWriteKeeps

LEMMA PollsKeep ==
  ASSUME IInv, NEW d \in Devices, Poll(d) \/ Report(d)
  PROVE  IInv'
<1>1. UNCHANGED <<published, row, file, made, unlinking, auto, syncing, sync, upload, catchUp, patch, faults>>
  BY DEF Poll, Report, library
<1>2. device \in [Devices -> Copies]
  BY DEF IInv, TypeOK
<1>3. CASE Poll(d)
  <2>1. device' \in [Devices -> Copies] /\ PushHasTarget'
    BY <1>1, <1>2, <1>3 DEF Poll, Copies, IInv, PushHasTarget
  <2> QED BY <1>1, <2>1, SyncsUntouched, DeviceWriteKeeps DEF IInv, TypeOK, OfficialIsGiven, CopiesHaveTarget
<1>4. CASE Report(d)
  <2>1. row[device[d].target].version \in Nat
    BY <1>4, RowTypes DEF Report, IInv, Rows
  <2>2. device' \in [Devices -> Copies] /\ PushHasTarget'
    BY <1>1, <1>2, <1>4, <2>1 DEF Report, Copies, IInv, PushHasTarget
  <2> QED BY <1>1, <2>2, SyncsUntouched, DeviceWriteKeeps DEF IInv, TypeOK, OfficialIsGiven, CopiesHaveTarget
<1> QED BY <1>3, <1>4

LEMMA SettingsKeep ==
  ASSUME IInv, Publish \/ SetAutoUpdate \/ UNCHANGED vars
  PROVE  IInv'
<1>1. UNCHANGED <<row, file, made, unlinking, device, syncing, sync, upload, catchUp, patch, faults>>
  BY DEF Publish, SetAutoUpdate, vars, library
<1>2. published' \in DOMAIN FeedLog /\ auto' \in BOOLEAN
  <2>1. FeedLog \in Seq(Range(FeedLog))
    BY FirmwareUpdateAssumptions
  <2>2. Publish => published' \in DOMAIN FeedLog
    BY <2>1 DEF Publish, IInv, TypeOK
  <2> QED BY <2>2, Assumed DEF Publish, SetAutoUpdate, vars, IInv, TypeOK
<1>3. TypeOK'
  BY <1>1, <1>2 DEF IInv, TypeOK, At
<1>4. PushHasTarget'
  BY <1>1 DEF IInv, PushHasTarget
<1> QED BY <1>1, <1>3, <1>4, LibraryStands DEF IInv, OfficialIsGiven, CopiesHaveTarget, At

LEMMA UploadTypes ==
  ASSUME IInv, NEW u \in Uploads
  PROVE  upload[u] \in UploadRecords /\ upload[u].version \in Nat
BY DEF IInv, TypeOK, UploadRecords

LEMMA CheckUploadKeeps ==
  ASSUME IInv, NEW u \in Uploads, NEW version \in Versions, CheckUpload(u, version)
  PROVE  IInv'
<1> DEFINE r == [IdleUpload EXCEPT !.pc = "write", !.version = version]
<1>1. /\ upload' = [upload EXCEPT ![u] = r] /\ upload[u].pc = "idle"
      /\ UNCHANGED <<published, row, file, made, unlinking, device, auto, syncing, sync, catchUp, patch, faults>>
  BY DEF CheckUpload, library
<1>2. version \in Nat
  BY FirmwareUpdateAssumptions
<1>3. r \in UploadRecords /\ r.pc = "write"
  BY <1>2, RecordTypes DEF UploadRecords
<1> HIDE DEF r
<1>4. upload' \in [Uploads -> UploadRecords] /\ \A v \in Uploads : IF v = u THEN upload'[v] = r ELSE upload'[v] = upload[v]
  BY <1>1, <1>3 DEF IInv, TypeOK
<1>5. TypeOK'
  BY <1>1, <1>4, SyncsUntouched DEF IInv, TypeOK, SyncsStand
<1>6. PushHasTarget'
  BY <1>1 DEF IInv, PushHasTarget
<1> QED BY <1>1, <1>3, <1>4, <1>5, <1>6, LibraryStands DEF IInv, OfficialIsGiven, CopiesHaveTarget, At

LEMMA WriteUploadKeeps ==
  ASSUME IInv, NEW u \in Uploads, WriteUpload(u)
  PROVE  IInv'
<1> DEFINE r == [upload[u] EXCEPT !.pc = "save", !.made = made + 1]
<1>1. /\ upload[u].pc = "write" /\ made < MaxFirmwares /\ made' = made + 1 /\ file' = file \cup {made + 1}
      /\ UNCHANGED <<published, row, unlinking, device, auto, syncing, sync, catchUp, patch, faults>>
  BY DEF WriteUpload
<1>2. made \in Nat /\ made + 1 \in Firmwares /\ made + 1 \in 0..MaxFirmwares
  BY <1>1, Assumed DEF IInv, TypeOK, Firmwares
<1>3. r \in UploadRecords /\ r.pc = "save" /\ r.made = made + 1
  BY <1>2, UploadTypes DEF UploadRecords
<1>4. upload' = [upload EXCEPT ![u] = r]
  BY UploadTypes DEF WriteUpload, IInv, TypeOK, UploadRecords
<1> HIDE DEF r
<1>5. upload' \in [Uploads -> UploadRecords] /\ \A v \in Uploads : IF v = u THEN upload'[v] = r ELSE upload'[v] = upload[v]
  BY <1>3, <1>4 DEF IInv, TypeOK
<1>6. TypeOK'
  BY <1>1, <1>2, <1>5, SyncsUntouched DEF IInv, TypeOK, SyncsStand
<1>7. /\ \A f \in DOMAIN row \cup file \cup unlinking : f \in Nat /\ f <= made
      /\ made + 1 \notin DOMAIN row \cup file \cup unlinking
  BY <1>2 DEF IInv, TypeOK
<1>8. (PushHasTarget /\ OneCurrentPerFolder /\ CopiesHaveTarget /\ OfficialIsGiven /\ NewestIsStored)'
  BY <1>1 DEF IInv, PushHasTarget, OneCurrentPerFolder, CopiesHaveTarget, OfficialIsGiven, NewestIsStored, Held, Official, At
<1>9. BinariesInHand'
  <2>1. \A f : Unnamed(f)' <=> Unnamed(f) \/ f = made + 1
    BY <1>1, <1>7 DEF Unnamed
  <2>2. \A s \in Syncs : /\ At(s, "insert")' <=> At(s, "insert")
                         /\ sync'[s] = sync[s] /\ \A f : SyncWrites(s, f)' <=> SyncWrites(s, f)
                         /\ At(s, "insert") => sync[s].made # made + 1
    BY <1>1, <1>7 DEF SyncWrites, At, IInv, BinariesInHand, Unnamed
  <2>3. \A v \in Uploads : upload[v].pc = "save" => upload[v].made # made + 1
    BY <1>7 DEF IInv, BinariesInHand, Unnamed
  <2>4. \A v \in Uploads : \A f : UploadWrites(v, f)' <=> IF v = u THEN f = made + 1 ELSE UploadWrites(v, f)
    BY <1>3, <1>5 DEF UploadWrites
  <2>5. \A f : UploadWrites(u, f) => FALSE
    BY <1>1 DEF UploadWrites
  <2>6. \A v \in Uploads : upload'[v].pc = "save" => IF v = u THEN upload'[v].made = made + 1
                                                     ELSE upload[v].pc = "save" /\ upload'[v].made = upload[v].made
    BY <1>3, <1>5
  <2> QED BY <1>1, <1>7, <2>1, <2>2, <2>3, <2>4, <2>5, <2>6 DEF IInv, BinariesInHand
<1> QED BY <1>6, <1>8, <1>9 DEF IInv

LEMMA SaveUploadKeeps ==
  ASSUME IInv, NEW u \in Uploads, SaveUpload(u) \/ SaveUploadFails(u)
  PROVE  IInv'
<1> DEFINE new == upload[u].made
           added == [kind |-> "custom", folder |-> "", version |-> upload[u].version, models |-> {}, deprecated |-> FALSE]
<1>1. /\ upload[u].pc = "save" /\ upload' = [upload EXCEPT ![u] = IdleUpload]
      /\ UNCHANGED <<published, made, unlinking, device, auto, syncing, sync, catchUp, patch>>
      /\ \/ file' = file \ {new} /\ row' = row
         \/ file' = file /\ row' = Added(row, new, added)
      /\ \/ faults' = faults
         \/ faults' = faults + 1 /\ faults < MaxFaults
  BY DEF SaveUpload, SaveUploadFails, Unlinked
<1>2. faults' \in 0..MaxFaults /\ (faults' = 0 => faults = 0)
  <2>1. faults \in 0..MaxFaults
    BY DEF IInv, TypeOK
  <2>2. CASE faults' = faults
    BY <2>1, <2>2
  <2>3. CASE faults' = faults + 1 /\ faults < MaxFaults
    BY <2>1, <2>3, Assumed
  <2> QED BY <1>1, <2>2, <2>3
<1>3. /\ Unnamed(new) /\ new \in Nat /\ new # None /\ new <= made /\ new \in 1..made
      /\ \A v \in Uploads : v # u /\ upload[v].pc = "save" => upload[v].made # new
      /\ \A s \in Syncs : At(s, "insert") => sync[s].made # new
  <2>1. Unnamed(new) /\ \A v \in Uploads : v # u /\ upload[v].pc = "save" => upload[v].made # new
    BY <1>1 DEF IInv, BinariesInHand
  <2>2. new \in 1..made /\ made \in 0..MaxFirmwares
    BY <2>1 DEF Unnamed, IInv, TypeOK
  <2>3. \A s \in Syncs : At(s, "insert") => sync[s].made # new
    BY <1>1 DEF IInv, BinariesInHand
  <2>4. new \in Nat /\ new # None /\ new <= made
    BY <2>2 DEF None
  <2> QED BY <2>1, <2>2, <2>3, <2>4
<1>4. /\ upload' \in [Uploads -> UploadRecords]
      /\ \A v \in Uploads : IF v = u THEN upload'[v].pc = "idle" ELSE upload'[v] = upload[v]
  BY <1>1, RecordTypes DEF IInv, TypeOK
<1>5. added \in Rows /\ added.kind = "custom"
  BY UploadTypes DEF Rows
<1>6. /\ row' \in [DOMAIN row' -> Rows] /\ DOMAIN row \subseteq DOMAIN row' /\ DOMAIN row' \subseteq DOMAIN row \cup {new}
      /\ \A f \in DOMAIN row : row'[f] = row[f]
      /\ \A f \in DOMAIN row' : f = new => row'[f].kind = "custom"
      /\ \/ new \in DOMAIN row' /\ file' = file
         \/ new \notin file' /\ row' = row
  <2> HIDE DEF new, added
  <2>1. CASE file' = file \ {new} /\ row' = row
    BY <1>3, <2>1 DEF IInv, TypeOK, Unnamed
  <2>2. CASE file' = file /\ row' = Added(row, new, added)
    <3>1. new \notin DOMAIN row
      BY <1>3 DEF Unnamed
    <3> QED BY <1>5, <2>2, <3>1 DEF IInv, TypeOK, Added
  <2> QED BY <1>1, <2>1, <2>2
<1>7. file' \subseteq file /\ \A f \in file : f # new => f \in file'
  BY <1>1
<1> HIDE DEF new, added
<1>8. TypeOK'
  BY <1>1, <1>2, <1>3, <1>4, <1>6, <1>7, SyncsUntouched DEF IInv, TypeOK, SyncsStand
<1>9. /\ Held("official")' = Held("official")
      /\ \A folder : Official(folder)' = Official(folder)
  <2>1. Held("official")' = Held("official") /\ Held("official") \subseteq DOMAIN row
    BY <1>6 DEF Held
  <2> QED BY <1>6, <2>1 DEF Official
<1>10. (PushHasTarget /\ CopiesHaveTarget /\ OfficialIsGiven /\ NewestIsStored)'
  BY <1>1, <1>6, <1>9 DEF IInv, PushHasTarget, CopiesHaveTarget, OfficialIsGiven, NewestIsStored, At
<1>11. OneCurrentPerFolder'
  <2>1. \A f \in Held("official") : row'[f] = row[f]
    BY <1>6 DEF Held
  <2> QED BY <1>9, <2>1 DEF IInv, OneCurrentPerFolder
<1>12. BinariesInHand'
  <2>1. \A f : f # new => (Unnamed(f)' <=> Unnamed(f))
    BY <1>1, <1>6, <1>7 DEF Unnamed
  <2>2. \A s \in Syncs : /\ At(s, "insert")' <=> At(s, "insert")
                         /\ sync'[s] = sync[s] /\ \A f : SyncWrites(s, f)' <=> SyncWrites(s, f)
    BY <1>1 DEF SyncWrites, At
  <2>3. \A v \in Uploads : upload'[v].pc = "save" => v # u /\ upload[v].pc = "save" /\ upload'[v].made = upload[v].made
    BY <1>4
  <2>4. \A v \in Uploads : \A f : f # new => (UploadWrites(v, f) => UploadWrites(v, f)')
    BY <1>4 DEF UploadWrites, new
  <2>5. new \notin unlinking /\ unlinking' = unlinking
    BY <1>1, <1>3 DEF Unnamed
  <2>6. faults' = 0 => \A f \in file' : \/ f \in DOMAIN row' \/ f \in unlinking'
                                        \/ \E s \in Syncs : SyncWrites(s, f)'
                                        \/ \E v \in Uploads : UploadWrites(v, f)'
    BY <1>2, <1>6, <1>7, <2>2, <2>4, <2>5 DEF IInv, BinariesInHand
  <2>7. unlinking' \cap DOMAIN row' = {} /\ DOMAIN row' \subseteq file'
    BY <1>3, <1>6, <1>7, <2>5 DEF IInv, BinariesInHand, Unnamed
  <2> QED BY <1>3, <2>1, <2>2, <2>3, <2>6, <2>7 DEF IInv, BinariesInHand
<1> QED BY <1>8, <1>10, <1>11, <1>12 DEF IInv

LEMMA DeleteKeeps ==
  ASSUME IInv, NEW f, Delete(f)
  PROVE  IInv'
<1>1. /\ f \in Held("custom") /\ device' = TargetAndPushTaken(f)
      /\ row' = Restrict(row, DOMAIN row \ {f}) /\ unlinking' = unlinking \cup {f}
      /\ UNCHANGED <<published, file, made, auto, syncing, sync, upload, catchUp, patch, faults>>
  BY DEF Delete
<1>2. /\ f \in DOMAIN row /\ f \in file /\ f \in 1..made /\ f \notin Held("official")
  BY <1>1 DEF Held, IInv, BinariesInHand, TypeOK
<1>3. /\ DOMAIN row' = DOMAIN row \ {f} /\ row' \in [DOMAIN row' -> Rows]
      /\ \A g \in DOMAIN row' : row'[g] = row[g]
  BY <1>1 DEF IInv, TypeOK, Restrict
<1>4. /\ device' \in [Devices -> Copies]
      /\ \A d \in Devices : device'[d].push => device[d].push /\ device[d].target # f /\ device'[d].target = device[d].target
  BY ZenonT(40), <1>1 DEF IInv, TypeOK, TargetAndPushTaken, Copies, None
<1>5. TypeOK'
  BY <1>1, <1>2, <1>3, <1>4, SyncsUntouched DEF IInv, TypeOK, SyncsStand
<1>6. PushHasTarget'
  BY <1>3, <1>4 DEF IInv, PushHasTarget
<1>7. /\ Held("official")' = Held("official")
      /\ \A folder : Official(folder)' = Official(folder)
  <2>1. Held("official")' = Held("official") /\ Held("official") \subseteq DOMAIN row'
    BY <1>2, <1>3 DEF Held
  <2> QED BY <1>3, <2>1 DEF Official
<1>8. OneCurrentPerFolder'
  <2>1. \A g \in Held("official") : row'[g] = row[g]
    BY <1>2, <1>3 DEF Held
  <2> QED BY <1>7, <2>1 DEF IInv, OneCurrentPerFolder
<1>9. (CopiesHaveTarget /\ OfficialIsGiven /\ NewestIsStored)'
  BY <1>1, <1>7 DEF IInv, CopiesHaveTarget, OfficialIsGiven, NewestIsStored, At
<1>10. BinariesInHand'
  <2>1. \A g : Unnamed(g)' <=> Unnamed(g)
    BY <1>1, <1>2, <1>3 DEF Unnamed
  <2>2. \A g : /\ \A s \in Syncs : SyncWrites(s, g)' <=> SyncWrites(s, g)
               /\ \A u \in Uploads : UploadWrites(u, g)' <=> UploadWrites(u, g)
    BY <1>1 DEF SyncWrites, UploadWrites, At
  <2> QED BY <1>1, <1>2, <1>3, <2>1, <2>2 DEF IInv, BinariesInHand, At
<1> QED BY <1>5, <1>6, <1>8, <1>9, <1>10 DEF IInv

LEMMA UnlinkKeeps ==
  ASSUME IInv, NEW f, Unlink(f)
  PROVE  IInv'
<1>1. /\ f \in unlinking /\ file' = file \ {f} /\ unlinking' = unlinking \ {f}
      /\ UNCHANGED <<published, row, made, device, auto, syncing, sync, upload, catchUp, patch, faults>>
  BY DEF Unlink
<1>2. TypeOK'
  BY <1>1, SyncsUntouched DEF IInv, TypeOK, SyncsStand
<1>3. (PushHasTarget /\ OneCurrentPerFolder /\ CopiesHaveTarget /\ OfficialIsGiven /\ NewestIsStored)'
  BY <1>1 DEF IInv, PushHasTarget, OneCurrentPerFolder, CopiesHaveTarget, OfficialIsGiven, NewestIsStored, Held, Official, At
<1>4. BinariesInHand'
  <2>1. \A g : Unnamed(g)' <=> Unnamed(g)
    BY <1>1 DEF Unnamed
  <2>2. \A g : /\ \A s \in Syncs : SyncWrites(s, g)' <=> SyncWrites(s, g)
               /\ \A u \in Uploads : UploadWrites(u, g)' <=> UploadWrites(u, g)
    BY <1>1 DEF SyncWrites, UploadWrites, At
  <2> QED BY <1>1, <2>1, <2>2 DEF IInv, BinariesInHand, At
<1> QED BY <1>2, <1>3, <1>4 DEF IInv

LEMMA CrashKeeps ==
  ASSUME IInv, Crash
  PROVE  IInv'
<1>1. /\ syncing' = NoSync /\ sync' = [s \in Syncs |-> IdleSync] /\ upload' = [u \in Uploads |-> IdleUpload]
      /\ catchUp' = {} /\ patch' = {} /\ unlinking' = {}
      /\ UNCHANGED <<published, row, file, made, device, auto>>
  BY DEF Crash
<1>2. faults' \in 0..MaxFaults /\ faults' # 0
  BY Assumed DEF Crash, IInv, TypeOK
<1>3. /\ SyncsStand' /\ \A s \in Syncs : sync'[s].pc = "idle"
      /\ upload' \in [Uploads -> UploadRecords] /\ \A u \in Uploads : upload'[u].pc = "idle"
  BY <1>1, RecordTypes, Assumed DEF SyncsStand, At
<1>4. TypeOK'
  BY <1>1, <1>2, <1>3 DEF IInv, TypeOK, SyncsStand, At
<1>5. (PushHasTarget /\ OneCurrentPerFolder)'
  BY <1>1 DEF IInv, PushHasTarget, OneCurrentPerFolder, Held, Official
<1>6. (CopiesHaveTarget /\ OfficialIsGiven /\ NewestIsStored)'
  BY <1>1, <1>3 DEF CopiesHaveTarget, OfficialIsGiven, NewestIsStored, At
<1>7. BinariesInHand'
  BY <1>1, <1>2, <1>3 DEF IInv, BinariesInHand, At
<1> QED BY <1>4, <1>5, <1>6, <1>7 DEF IInv

-----------------------------------------------------------------------------
(* Who is owed a new official Firmware is in the hands of the sync.        *)

InHand(o) ==
  \E s \in Syncs : \/ At(s, "policy") /\ auto /\ o[1] \in Given(s)
                   \/ At(s, "assign") /\ \E g \in sync[s].giving : g.device = o[1]

\* Without a fault: the policy is still to look for them, or has them on its list.
OwedInHand == faults = 0 => \A o \in owed : InHand(o)

\* A sync that is in neither of the two steps, or none, owes nothing.
LEMMA NothingOwed ==
  ASSUME IInv, OwedInHand, faults = 0, NEW s \in Syncs,
         syncing = NoSync \/ ~(At(s, "idle") \/ At(s, "policy") \/ At(s, "assign"))
  PROVE  owed = {}
<1>1. \A v \in Syncs : ~At(v, "policy") /\ ~At(v, "assign")
  <2>1. CASE syncing = NoSync
    BY <2>1, Assumed DEF IInv, TypeOK, At
  <2>2. CASE syncing # NoSync
    BY <2>2, OneUnderWay DEF IInv, At
  <2> QED BY <2>1, <2>2
<1> QED BY <1>1 DEF OwedInHand, InHand

\* Nobody who is still owed becomes ineligible.
LEMMA OwedStays ==
  ASSUME OwedInHand, faults' = faults, owed' \subseteq owed, UNCHANGED <<auto, sync>>,
         \A s \in Syncs : At(s, "policy") => row'[sync[s].made].models = row[sync[s].made].models,
         \A o \in owed' : o[1] \in Candidates => o[1] \in Candidates'
  PROVE  OwedInHand'
<1> SUFFICES ASSUME faults = 0, NEW o \in owed' PROVE InHand(o)'
  BY DEF OwedInHand
<1>1. PICK s \in Syncs : \/ At(s, "policy") /\ auto /\ o[1] \in Given(s)
                         \/ At(s, "assign") /\ \E g \in sync[s].giving : g.device = o[1]
  BY DEF OwedInHand, InHand
<1>2. CASE At(s, "policy") /\ auto /\ o[1] \in Given(s)
  <2>1. At(s, "policy")' /\ auto' /\ o[1] \in Given(s)'
    BY <1>2 DEF Given, Eligible, isFirmwareCompatible, At
  <2> QED BY <2>1 DEF InHand
<1>3. CASE At(s, "assign") /\ \E g \in sync[s].giving : g.device = o[1]
  BY <1>3 DEF InHand, At
<1> QED BY <1>1, <1>2, <1>3

LEMMA InsertOwes ==
  ASSUME IInv, IInv', OwedInHand, faults = 0, NEW s \in Syncs, Insert(s)
  PROVE  OwedInHand'
<1>1. At(s, "insert") /\ UNCHANGED <<device, auto, faults>>
  BY DEF Insert
<1>2. owed = {}
  BY <1>1, NothingOwed DEF At
<1> DEFINE new == sync[s].made
           listed == sync[s].listed[sync[s].folder]
<1>3. CASE owed' = owed
  BY <1>2, <1>3 DEF OwedInHand
<1>4. CASE owed' # owed
  <2>1. /\ row' = Added(Deprecated(sync[s].folder), new,
                        [kind |-> "official", folder |-> sync[s].folder, version |-> listed.version,
                         models |-> listed.models, deprecated |-> FALSE])
        /\ sync' = [sync EXCEPT ![s] = [sync[s] EXCEPT !.pc = "policy"]]
        /\ auto /\ owed' = {<<d, new>> : d \in Eligible(listed.models)}
    BY <1>2, <1>4 DEF Insert, Become
  <2>2. sync' [s] = [sync[s] EXCEPT !.pc = "policy"] /\ sync[s] \in SyncRecords
    BY <2>1 DEF IInv, TypeOK
  <2>3. At(s, "policy")' /\ sync'[s].made = new
    BY <2>2 DEF At, SyncRecords
  <2>4. row'[new].models = listed.models
    BY <2>1 DEF Added
  <2>5. Eligible(listed.models) = Given(s)'
    BY <1>1, <2>3, <2>4 DEF Given, Eligible, Candidates, isFirmwareCompatible
  <2>6. \A o \in owed' : o[1] \in Eligible(listed.models)
    BY <2>1
  <2> QED BY <1>1, <2>1, <2>3, <2>5, <2>6 DEF OwedInHand, InHand
<1> QED BY <1>3, <1>4

LEMMA ApplyPolicyOwes ==
  ASSUME IInv, OwedInHand, faults = 0, NEW s \in Syncs, ApplyPolicy(s)
  PROVE  OwedInHand'
<1> DEFINE giving == IF auto THEN {CopyOf(d) : d \in Given(s)} ELSE {}
<1>1. /\ At(s, "policy") /\ UNCHANGED <<auto, faults, owed>>
      /\ sync' = [sync EXCEPT ![s] = [sync[s] EXCEPT !.pc = IF giving = {} THEN "store" ELSE "assign", !.giving = giving]]
  BY DEF ApplyPolicy, Become
<1>2. \A v \in Syncs : v # s => At(v, "idle")
  BY <1>1, OneUnderWay DEF IInv, At
<1>3. \A o \in owed : auto /\ o[1] \in Given(s)
  BY <1>1, <1>2 DEF OwedInHand, InHand, At
<1>4. ASSUME NEW o \in owed PROVE \E g \in giving : g.device = o[1]
  <2>1. CopyOf(o[1]) \in giving
    BY <1>3
  <2>2. CopyOf(o[1]).device = o[1]
    BY DEF CopyOf
  <2> QED BY <2>1, <2>2
<1> HIDE DEF giving
<1>5. sync[s] \in SyncRecords /\ sync'[s] = [sync[s] EXCEPT !.pc = IF giving = {} THEN "store" ELSE "assign", !.giving = giving]
  BY <1>1 DEF IInv, TypeOK
<1>6. sync'[s].giving = giving /\ (giving # {} => sync'[s].pc = "assign")
  BY <1>5 DEF SyncRecords
<1> QED BY <1>1, <1>4, <1>6 DEF OwedInHand, InHand, At

LEMMA AssignOwes ==
  ASSUME IInv, OwedInHand, faults = 0, NEW s \in Syncs, Assign(s)
  PROVE  OwedInHand'
<1>1. PICK g \in sync[s].giving :
        /\ LET left == sync[s].giving \ {g}
           IN sync' = [sync EXCEPT ![s] = [sync[s] EXCEPT !.pc = IF left = {} THEN "store" ELSE "assign", !.giving = left]]
        /\ owed' = {o \in owed : o[1] # g.device}
  BY DEF Assign, Become
<1> DEFINE left == sync[s].giving \ {g}
<1>2. At(s, "assign") /\ faults' = faults
  BY DEF Assign
<1>3. \A v \in Syncs : v # s => At(v, "idle")
  BY <1>2, OneUnderWay DEF IInv, At
<1>4. \A o \in owed : \E h \in sync[s].giving : h.device = o[1]
  BY <1>2, <1>3 DEF OwedInHand, InHand, At
<1>5. \A o \in owed' : \E h \in left : h.device = o[1]
  BY <1>1, <1>4
<1>6. sync' = [sync EXCEPT ![s] = [sync[s] EXCEPT !.pc = IF left = {} THEN "store" ELSE "assign", !.giving = left]]
  BY <1>1
<1> HIDE DEF left
<1>7. sync[s] \in SyncRecords /\ sync'[s] = [sync[s] EXCEPT !.pc = IF left = {} THEN "store" ELSE "assign", !.giving = left]
  BY <1>6 DEF IInv, TypeOK
<1>8. sync'[s].giving = left /\ (left # {} => sync'[s].pc = "assign")
  BY <1>7 DEF SyncRecords
<1> QED BY <1>2, <1>5, <1>8 DEF OwedInHand, InHand, At

\* The other steps of a sync come before the two, or after them.
LEMMA SyncOwes ==
  ASSUME IInv, IInv', OwedInHand, faults = 0,
         NEW s \in Syncs, Start(s) \/ SyncStep(s) \/ InsertFails(s) \/ AssignFails(s)
  PROVE  OwedInHand'
<1>1. CASE InsertFails(s) \/ AssignFails(s)
  BY <1>1 DEF InsertFails, AssignFails, OwedInHand
<1>2. CASE Start(s) \/ Fetch(s) \/ FetchFails(s) \/ WriteFile(s) \/ Finish(s)
  <2>1. owed = {}
    BY <1>2, NothingOwed DEF Start, Fetch, FetchFails, WriteFile, Finish, At
  <2> QED BY <1>2, <2>1 DEF Start, Fetch, FetchFails, WriteFile, Finish, OwedInHand
<1>3. ASSUME NEW f, Realign(s, f) \/ Skip(s, f) \/ Download(s, f) \/ DownloadFails(s, f) PROVE OwedInHand'
  <2>1. owed = {}
    BY <1>3, NothingOwed DEF Realign, Skip, Download, DownloadFails, At
  <2> QED BY <1>3, <2>1 DEF Realign, Skip, Download, DownloadFails, OwedInHand
<1> QED BY <1>1, <1>2, <1>3, InsertOwes, ApplyPolicyOwes, AssignOwes DEF SyncStep

\* Of the rows, only the sync's own realignment changes what an official one fits.
LEMMA UploadOwes ==
  ASSUME IInv, OwedInHand, NEW u \in Uploads, UploadStep(u)
  PROVE  OwedInHand' \/ faults' # faults
<1>1. CASE SaveUpload(u)
  <2>1. UNCHANGED <<faults, owed, auto, sync, device>>
    BY <1>1 DEF SaveUpload
  <2>2. ASSUME NEW s \in Syncs, At(s, "policy") PROVE row'[sync[s].made].models = row[sync[s].made].models
    <3>1. sync[s].made \in DOMAIN row /\ upload[u].made \notin DOMAIN row
      BY <1>1, <2>2 DEF SaveUpload, IInv, OfficialIsGiven, Held, BinariesInHand, Unnamed
    <3> QED BY <1>1, <3>1 DEF SaveUpload, Added
  <2> QED BY <2>1, <2>2, OwedStays DEF Candidates
<1>2. CASE SaveUploadFails(u)
  <2>1. faults \in Nat /\ faults' = faults + 1
    BY <1>2, Assumed DEF SaveUploadFails, IInv, TypeOK
  <2> QED BY <2>1
<1>3. CASE WriteUpload(u) \/ \E v \in Versions : CheckUpload(u, v)
  BY <1>3, OwedStays DEF WriteUpload, CheckUpload, Candidates, library
<1> QED BY <1>1, <1>2, <1>3 DEF UploadStep

LEMMA DeleteOwes ==
  ASSUME IInv, OwedInHand, NEW f, Delete(f)
  PROVE  OwedInHand'
<1>1. UNCHANGED <<faults, owed, auto, sync>> /\ f \in Held("custom") /\ row' = Restrict(row, DOMAIN row \ {f})
  BY DEF Delete
<1>2. ASSUME NEW s \in Syncs, At(s, "policy") PROVE row'[sync[s].made].models = row[sync[s].made].models
  BY <1>1, <1>2 DEF IInv, OfficialIsGiven, Held, Restrict
<1>3. Candidates \subseteq Candidates'
  <2>1. \A d \in Devices : device[d] \in Copies
    BY DEF IInv, TypeOK
  <2>2. \A d \in Devices : device'[d] = IF device[d].target = f THEN [device[d] EXCEPT !.target = None, !.push = FALSE] ELSE device[d]
    BY DEF Delete, TargetAndPushTaken
  <2> QED BY <2>1, <2>2 DEF Candidates, Copies
<1> QED BY <1>1, <1>2, <1>3, OwedStays

\* Who is written by "Catch up now" or a PATCH is owed nothing any more.
LEMMA WritesOwe ==
  ASSUME IInv, OwedInHand, CatchUpAssign \/ PatchSave
  PROVE  OwedInHand'
<1>1. device \in [Devices -> Copies] /\ UNCHANGED <<row, faults, auto, sync>>
  BY DEF IInv, TypeOK, CatchUpAssign, PatchSave, library
<1>2. ASSUME NEW d, NEW copy, device' = [device EXCEPT ![d] = copy], owed' = {o \in owed : o[1] # d}
      PROVE  OwedInHand'
  <2>1. \A x \in Devices : x # d => device'[x] = device[x]
    BY <1>1, <1>2
  <2>2. \A o \in owed' : o[1] \in Candidates => o[1] \in Candidates'
    BY <1>2, <2>1 DEF Candidates
  <2> QED BY <1>1, <1>2, <2>2, OwedStays
<1>3. CASE UNCHANGED <<device, owed>>
  BY <1>1, <1>3, OwedStays DEF Candidates
<1> QED BY <1>2, <1>3 DEF CatchUpAssign, Assigned, PatchSave

LEMMA PollsOwe ==
  ASSUME IInv, OwedInHand, NEW d \in Devices, Poll(d) \/ Report(d)
  PROVE  OwedInHand'
<1>1. \A x \in Devices : device[x] \in Copies
  BY DEF IInv, TypeOK
<1>2. \A x \in Devices : device'[x].mirror = device[x].mirror /\ (~device[x].push => ~device'[x].push)
  BY <1>1 DEF Poll, Report, IInv, TypeOK, Copies
<1>3. Candidates \subseteq Candidates'
  BY <1>2 DEF Candidates
<1> QED BY <1>3, OwedStays DEF Poll, Report, library

LEMMA OwedKept == IInv /\ IInv' /\ OwedInHand /\ [Next]_vars => OwedInHand'
<1> SUFFICES ASSUME IInv, IInv', OwedInHand, [Next]_vars, faults' = 0 PROVE OwedInHand'
  BY DEF OwedInHand
<1>1. faults = 0
  <2>1. faults \in Nat /\ faults' \in Nat
    BY DEF IInv, TypeOK
  <2>2. faults' = faults \/ faults' = faults + 1
    BY ZenonT(40) DEF Next, SyncStep, UploadStep, vars, Start, Fetch, FetchFails, WriteFile, Insert, ApplyPolicy, Assign, Finish,
           Realign, Skip, Download, DownloadFails, InsertFails, AssignFails, CheckUpload, WriteUpload, SaveUpload,
           SaveUploadFails, Delete, Unlink, PatchLoad, Poll, Report, CatchUp, CatchUpAssign, PatchSave, Publish,
           SetAutoUpdate, Crash
  <2> QED BY <2>1, <2>2
<1>2. CASE SetAutoUpdate \/ Crash
  BY <1>1, <1>2 DEF SetAutoUpdate, Crash, OwedInHand
<1>3. CASE Publish \/ CatchUp \/ UNCHANGED vars \/ \E d \in Devices : PatchLoad(d)
  BY <1>3, OwedStays DEF Publish, CatchUp, PatchLoad, Candidates, library, vars
<1>4. ASSUME NEW f, Unlink(f) PROVE OwedInHand'
  BY <1>4, OwedStays DEF Unlink, Candidates
<1>5. ASSUME NEW u \in Uploads, UploadStep(u) PROVE OwedInHand'
  BY <1>1, <1>5, UploadOwes
<1> QED BY <1>1, <1>2, <1>3, <1>4, <1>5, SyncOwes, DeleteOwes, WritesOwe, PollsOwe DEF Next

-----------------------------------------------------------------------------
(* The firmware library: the theorems.                                     *)

LEMMA SyncStepKeeps ==
  ASSUME IInv, NEW s \in Syncs, SyncStep(s)
  PROVE  IInv'
BY PassesKeep, EndingsKeep, RealignKeeps, WriteFileKeeps, InsertKeeps, AssignKeeps DEF SyncStep

LEMMA StepKeeps == IInv /\ [Next]_vars => IInv'
<1> SUFFICES ASSUME IInv, [Next]_vars PROVE IInv'
  OBVIOUS
<1>1. CASE UNCHANGED vars
  BY <1>1, SettingsKeep
<1>2. CASE Next
  BY <1>2, StartKeeps, SyncStepKeeps, EndingsKeep, CheckUploadKeeps, WriteUploadKeeps, SaveUploadKeeps, DeleteKeeps,
     UnlinkKeeps, CatchUpKeeps, CatchUpAssignKeeps, PatchLoadKeeps, PatchSaveKeeps, PollsKeep, SettingsKeep, CrashKeeps
  DEF Next, UploadStep
<1> QED BY <1>1, <1>2

THEOREM Invariant == Spec => []IInv
BY InitHolds, StepKeeps, PTL DEF Spec

\* The rows, the Devices and the handlers keep their shape, and the sync has one
\* run at a time.
THEOREM TypeCorrect == Spec => []TypeOK
<1>1. IInv => TypeOK
  BY DEF IInv
<1> QED BY <1>1, Invariant, PTL

\* However a push, a delete, the policy, "Catch up now" and a PATCH interleave, a
\* Device with a pending push has a Firmware of the library as its target.
THEOREM PushesHaveTargets == Spec => []PushHasTarget
<1>1. IInv => PushHasTarget
  BY DEF IInv
<1> QED BY <1>1, Invariant, PTL

\* Every row has its binary, and without a fault every binary has a row, or is in
\* the hands of a handler.
THEOREM Binaries == Spec => []BinariesMatchRows
<1>1. IInv => BinariesMatchRows
  <2> SUFFICES ASSUME IInv PROVE BinariesMatchRows
    OBVIOUS
  <2>1. DOMAIN row \subseteq file
    BY DEF IInv, BinariesInHand
  <2>2. ASSUME faults = 0, NEW f \in file
        PROVE  f \in DOMAIN row \cup unlinking \cup {sync[s].made : s \in Syncs} \cup {upload[u].made : u \in Uploads}
    BY <2>2 DEF IInv, BinariesInHand, SyncWrites, UploadWrites
  <2> QED BY <2>1, <2>2 DEF BinariesMatchRows
<1> QED BY <1>1, Invariant, PTL

\* Of the official Firmware of a folder the newest alone is not deprecated, for
\* any number of folders, whatever fails and whenever the server dies.
THEOREM NewestIsCurrent == Spec => []OneCurrentPerFolder
<1>1. IInv => OneCurrentPerFolder
  BY DEF IInv
<1> QED BY <1>1, Invariant, PTL

\* For any fleet and library, whoever patches, uploads, deletes or catches up while
\* the sync hands out its Firmware: when it is over every Device that was eligible
\* has it, or was changed by someone else.
THEOREM PolicyReaches == Spec => []PolicyReachesEveryone
<1>1. Init => OwedInHand
  BY DEF Init, OwedInHand
<1>2. IInv /\ OwedInHand => PolicyReachesEveryone
  <2> SUFFICES ASSUME IInv, OwedInHand, syncing = NoSync, faults = 0 PROVE owed = {}
    BY DEF PolicyReachesEveryone
  <2>1. CASE Syncs = {}
    BY <2>1 DEF OwedInHand, InHand
  <2>2. CASE Syncs # {}
    BY <2>2, NothingOwed
  <2> QED BY <2>1, <2>2
<1> QED BY <1>1, <1>2, Invariant, OwedKept, PTL DEF Spec

-----------------------------------------------------------------------------
(* Configuration Import.                                                   *)

Kind(i, kind) == archive[i].kind = kind
\* The images a Screen of the archive can leave
Pictures == {[place |-> <<d, archive[i].id>>, image |-> archive[i].image] :
               d \in Ids, i \in {j \in DOMAIN archive : Kind(j, "screen")}}

RowsTyped(rows) == rows = [device |-> rows.device, screen |-> rows.screen, unique |-> rows.unique]
RunTyped ==
  /\ run = [pc |-> run.pc, check |-> run.check, at |-> run.at, found |-> run.found, wrote |-> run.wrote,
            remap |-> run.remap, pending |-> run.pending, upserted |-> run.upserted]
  /\ run.pc \in {"idle", "record", "device", "images"}
  /\ run.check \in BOOLEAN
  /\ run.at \in 1..(Len(archive) + 1)
  /\ RowsTyped(run.wrote)
  /\ run.pending \in Seq(Pictures)

\* Rows of Devices: one for a MAC address, and what the archive calls so is that Device.
DeviceRows(rows) ==
  /\ \A d \in DOMAIN rows : rows[d] = [mac |-> rows[d].mac, key |-> rows[d].key] /\ rows[d].key # Rest
  /\ \A d, e \in DOMAIN rows : rows[d].mac = rows[e].mac => d = e
  /\ \A i \in DOMAIN archive : Kind(i, "device") /\ archive[i].id \in DOMAIN rows => rows[archive[i].id].mac = archive[i].mac

ScreenRows(rows) == \A s \in DOMAIN rows : rows[s] = [device |-> rows[s].device, order |-> rows[s].order]

LEMMA OverIs ==
  ASSUME NEW f, NEW g
  PROVE  /\ DOMAIN Import!Over(f, g) = DOMAIN f \cup DOMAIN g
         /\ \A x \in DOMAIN f \cup DOMAIN g : Import!Over(f, g)[x] = IF x \in DOMAIN g THEN g[x] ELSE f[x]
BY DEF Import!Over

LEMMA EntryIs ==
  ASSUME NEW x, NEW value
  PROVE  DOMAIN Import!Entry(x, value) = {x} /\ Import!Entry(x, value)[x] = value
BY DEF Import!Entry

LEMMA SeenIs ==
  ASSUME RowsTyped(db)
  PROVE  /\ Import!Seen = [device |-> Import!Over(db.device, run.wrote.device), screen |-> Import!Over(db.screen, run.wrote.screen),
                    unique |-> Import!Over(db.unique, run.wrote.unique)]
         /\ RowsTyped(Import!Seen)
<1>1. DOMAIN db = {"device", "screen", "unique"}
  BY DEF RowsTyped
<1>2. Import!Seen = [table \in {"device", "screen", "unique"} |-> Import!Over(db[table], run.wrote[table])]
  BY <1>1 DEF Import!Seen
<1>3. Import!Seen = [device |-> Import!Over(db.device, run.wrote.device), screen |-> Import!Over(db.screen, run.wrote.screen),
                    unique |-> Import!Over(db.unique, run.wrote.unique)]
  BY <1>2
<1> QED BY <1>3 DEF RowsTyped

LEMMA WroteIs ==
  ASSUME RunTyped, NEW id, NEW value
  PROVE  /\ Import!Wrote("device", id, value) = [device |-> Import!Over(run.wrote.device, Import!Entry(id, value)),
                                          screen |-> run.wrote.screen, unique |-> run.wrote.unique]
         /\ Import!Wrote("screen", id, value) = [device |-> run.wrote.device,
                                          screen |-> Import!Over(run.wrote.screen, Import!Entry(id, value)), unique |-> run.wrote.unique]
         /\ Import!Wrote("unique", id, value) = [device |-> run.wrote.device,
                                          screen |-> run.wrote.screen, unique |-> Import!Over(run.wrote.unique, Import!Entry(id, value))]
BY DEF RunTyped, RowsTyped, Import!Wrote

IsRun(r) == r = [pc |-> r.pc, check |-> r.check, at |-> r.at, found |-> r.found, wrote |-> r.wrote,
                 remap |-> r.remap, pending |-> r.pending, upserted |-> r.upserted]

LEMMA WentTo ==
  ASSUME NEW r, IsRun(r), r.at \in Nat, NEW s, s = Import!Went(r)
  PROVE  s = [pc |-> "record", check |-> r.check, at |-> r.at + 1, found |-> Rest, wrote |-> r.wrote,
              remap |-> r.remap, pending |-> r.pending, upserted |-> r.upserted]
BY DEF Import!Went, IsRun

LEMMA WentIs ==
  ASSUME RunTyped
  PROVE  Import!Went(run) = [pc |-> "record", check |-> run.check, at |-> run.at + 1, found |-> Rest, wrote |-> run.wrote,
                      remap |-> run.remap, pending |-> run.pending, upserted |-> run.upserted]
BY WentTo DEF RunTyped, IsRun

\* What an upsert does to the run.
LEMMA UniqueDoes ==
  ASSUME RunTyped, Import!UpsertUnique
  PROVE  /\ Import!At("palette") \/ Import!At("plugin") \/ Import!At("assignment")
         /\ UNCHANGED <<archive, db, image, job, faults, setups, hardware, gone>>
         /\ \/ run' = Import!IdleRun /\ minted' = minted
            \/ /\ \E value, upserted :
                    /\ run' = [pc |-> "record", check |-> run.check, at |-> run.at + 1, found |-> Rest,
                               wrote |-> [device |-> run.wrote.device, screen |-> run.wrote.screen,
                                          unique |-> Import!Over(run.wrote.unique, Import!Entry(Import!Record.id, value))],
                               remap |-> run.remap, pending |-> run.pending, upserted |-> upserted]
                    /\ upserted = IF Import!At("plugin") THEN run.upserted \cup {Import!Record.id} ELSE run.upserted
               /\ minted' \in {minted, minted + 1} /\ minted' <= MaxKeys
<1> DEFINE value == [kind |-> Import!Record.kind, value |-> Import!Value(Import!Record)]
           s == Import!Went(run)
           wrote == Import!Wrote("unique", Import!Record.id, value)
           upserted == IF Import!Record.kind = "plugin" THEN run.upserted \cup {Import!Record.id} ELSE run.upserted
<1>1. /\ Import!At("palette") \/ Import!At("plugin") \/ Import!At("assignment")
      /\ UNCHANGED <<archive, faults, setups, hardware, gone>>
  BY DEF Import!UpsertUnique, Import!Uniques
<1>2. /\ s = [pc |-> "record", check |-> run.check, at |-> run.at + 1, found |-> Rest, wrote |-> run.wrote,
              remap |-> run.remap, pending |-> run.pending, upserted |-> run.upserted]
      /\ wrote = [device |-> run.wrote.device, screen |-> run.wrote.screen,
                  unique |-> Import!Over(run.wrote.unique, Import!Entry(Import!Record.id, value))]
  BY WentIs, WroteIs
<1>3. CASE Import!Refuse
  BY <1>1, <1>3 DEF Import!Refuse
<1>4. CASE ~Import!Refuse
  <2>1. /\ run' = [s EXCEPT !.wrote = wrote, !.upserted = IF Import!Record.kind = "plugin" THEN @ \cup {Import!Record.id} ELSE @]
        /\ minted' \in {minted, minted + 1} /\ minted' <= MaxKeys
        /\ UNCHANGED <<db, image, job>>
    BY <1>4 DEF Import!UpsertUnique
  <2> HIDE DEF s, wrote
  <2>2. run' = [pc |-> "record", check |-> run.check, at |-> run.at + 1, found |-> Rest, wrote |-> wrote,
                remap |-> run.remap, pending |-> run.pending, upserted |-> upserted]
    BY <1>2, <2>1
  <2>3. upserted = IF Import!At("plugin") THEN run.upserted \cup {Import!Record.id} ELSE run.upserted
    BY <1>1 DEF Import!At
  <2> QED BY <1>1, <1>2, <2>1, <2>2, <2>3
<1> QED BY <1>3, <1>4

LEMMA FindDoes ==
  ASSUME RunTyped, Import!FindDevice
  PROVE  /\ Import!At("device") /\ UNCHANGED <<archive, db, image, job, faults, setups, minted, hardware, gone>>
         /\ \E d \in Ids :
              /\ IF Import!Record.id \in DOMAIN Import!Seen.device \/ Import!HasMac(Import!Record.mac) = {} THEN d = Import!Record.id ELSE d \in Import!HasMac(Import!Record.mac)
              /\ run' = [pc |-> "device", check |-> run.check, at |-> run.at,
                         found |-> IF d \in DOMAIN Import!Seen.device THEN Import!Seen.device[d].key ELSE Rest, wrote |-> run.wrote,
                         remap |-> IF d = Import!Record.id THEN run.remap ELSE Import!Over(run.remap, Import!Entry(Import!Record.id, d)),
                         pending |-> run.pending, upserted |-> run.upserted]
<1>1. Import!At("device") /\ UNCHANGED <<archive, db, image, job, faults, setups, minted, hardware, gone>>
  BY DEF Import!FindDevice, Import!others
<1>2. PICK d \in Ids :
              /\ IF Import!Record.id \in DOMAIN Import!Seen.device \/ Import!HasMac(Import!Record.mac) = {} THEN d = Import!Record.id ELSE d \in Import!HasMac(Import!Record.mac)
              /\ run' = [run EXCEPT !.pc = "device", !.found = IF d \in DOMAIN Import!Seen.device THEN Import!Seen.device[d].key ELSE Rest,
                             !.remap = IF d = Import!Record.id THEN @ ELSE Import!Over(@, Import!Entry(Import!Record.id, d))]
  BY DEF Import!FindDevice
<1> DEFINE key == IF d \in DOMAIN Import!Seen.device THEN Import!Seen.device[d].key ELSE Rest
           over == Import!Over(run.remap, Import!Entry(Import!Record.id, d))
<1>3. run' = [run EXCEPT !.pc = "device", !.found = key, !.remap = IF d = Import!Record.id THEN run.remap ELSE over]
  BY <1>2 DEF RunTyped
<1> HIDE DEF key, over
<1>4. run' = [pc |-> "device", check |-> run.check, at |-> run.at,
                         found |-> key, wrote |-> run.wrote,
                         remap |-> IF d = Import!Record.id THEN run.remap ELSE over,
                         pending |-> run.pending, upserted |-> run.upserted]
  BY <1>3 DEF RunTyped
<1> QED BY <1>1, <1>2, <1>4 DEF key, over

LEMMA SaveDoes ==
  ASSUME RunTyped, Import!SaveDevice
  PROVE  /\ run.pc = "device" /\ UNCHANGED <<archive, db, image, job, faults, setups, hardware, gone>>
         /\ LET d == Import!Resolved(Import!Record.id)
            IN \/ run' = Import!IdleRun /\ minted' = minted
               \/ /\ Import!HasMac(Import!Record.mac) \ {d} = {}
                  /\ run' = [pc |-> "record", check |-> run.check, at |-> run.at + 1, found |-> Rest,
                             wrote |-> [device |-> Import!Over(run.wrote.device, Import!Entry(d, [mac |-> Import!Record.mac, key |-> Import!ResolvedKey])),
                                        screen |-> run.wrote.screen, unique |-> run.wrote.unique],
                             remap |-> run.remap, pending |-> run.pending, upserted |-> run.upserted]
                  /\ minted' = IF Import!ResolvedKey = Import!NewKey THEN minted + 1 ELSE minted
                  /\ minted' <= MaxKeys
<1> DEFINE d == Import!Resolved(Import!Record.id)
           line == [mac |-> Import!Record.mac, key |-> Import!ResolvedKey]
           s == Import!Went(run)
           wrote == Import!Wrote("device", d, line)
<1>1. run.pc = "device" /\ UNCHANGED <<archive, db, image, job, faults, setups, hardware, gone>>
  BY DEF Import!SaveDevice, Import!Refuse
<1>2. /\ s = [pc |-> "record", check |-> run.check, at |-> run.at + 1, found |-> Rest, wrote |-> run.wrote,
              remap |-> run.remap, pending |-> run.pending, upserted |-> run.upserted]
      /\ wrote = [device |-> Import!Over(run.wrote.device, Import!Entry(d, line)), screen |-> run.wrote.screen, unique |-> run.wrote.unique]
  BY WentIs, WroteIs
<1>3. CASE Import!Refuse
  BY <1>1, <1>3 DEF Import!Refuse
<1>4. CASE ~Import!Refuse
  <2>1. /\ Import!HasMac(Import!Record.mac) \ {d} = {}
        /\ run' = [s EXCEPT !.wrote = wrote]
        /\ minted' = IF Import!ResolvedKey = Import!NewKey THEN minted + 1 ELSE minted
        /\ minted' <= MaxKeys
    BY <1>4 DEF Import!SaveDevice
  <2> HIDE DEF s, wrote
  <2>2. run' = [pc |-> "record", check |-> run.check, at |-> run.at + 1, found |-> Rest, wrote |-> wrote,
                remap |-> run.remap, pending |-> run.pending, upserted |-> run.upserted]
    BY <1>2, <2>1
  <2> QED BY <1>1, <1>2, <2>1, <2>2
<1> QED BY <1>3, <1>4

LEMMA ScreenDoes ==
  ASSUME RunTyped, Import!UpsertScreen
  PROVE  /\ Import!At("screen") /\ UNCHANGED <<archive, db, image, job, faults, setups, minted, hardware, gone>>
         /\ LET d == Import!Resolved(Import!Record.device)
            IN \/ run' = Import!IdleRun
               \/ run' = [pc |-> "record", check |-> run.check, at |-> run.at + 1, found |-> Rest,
                          wrote |-> [device |-> run.wrote.device,
                                     screen |-> Import!Over(run.wrote.screen, Import!Entry(Import!Record.id, [device |-> d, order |-> Import!Record.order])),
                                     unique |-> run.wrote.unique],
                          remap |-> run.remap,
                          pending |-> IF run.check THEN run.pending
                                      ELSE Append(run.pending, [place |-> <<d, Import!Record.id>>, image |-> Import!Record.image]),
                          upserted |-> run.upserted]
<1> DEFINE d == Import!Resolved(Import!Record.device)
           line == [device |-> d, order |-> Import!Record.order]
           s == Import!Went(run)
           wrote == Import!Wrote("screen", Import!Record.id, line)
           picture == [place |-> <<d, Import!Record.id>>, image |-> Import!Record.image]
           pending == IF run.check THEN run.pending ELSE Append(run.pending, picture)
<1>1. Import!At("screen") /\ UNCHANGED <<archive, db, image, job, faults, setups, minted, hardware, gone>>
  BY DEF Import!UpsertScreen, Import!Refuse, Import!Queued
<1>2. /\ s = [pc |-> "record", check |-> run.check, at |-> run.at + 1, found |-> Rest, wrote |-> run.wrote,
              remap |-> run.remap, pending |-> run.pending, upserted |-> run.upserted]
      /\ wrote = [device |-> run.wrote.device, screen |-> Import!Over(run.wrote.screen, Import!Entry(Import!Record.id, line)), unique |-> run.wrote.unique]
  BY WentIs, WroteIs
<1>3. CASE Import!Refuse
  BY <1>1, <1>3 DEF Import!Refuse
<1>4. CASE ~Import!Refuse
  <2>1. run' = [s EXCEPT !.wrote = wrote, !.pending = IF run.check THEN @ ELSE Append(@, picture)]
    BY <1>4 DEF Import!UpsertScreen, Import!Place
  <2>2. run' = [s EXCEPT !.wrote = wrote, !.pending = IF run.check THEN s.pending ELSE Append(s.pending, picture)]
    BY <2>1
  <2> HIDE DEF s, wrote, picture
  <2>3. (IF run.check THEN s.pending ELSE Append(s.pending, picture)) = pending
    BY <1>2
  <2>4. run' = [s EXCEPT !.wrote = wrote, !.pending = pending]
    BY <2>2, <2>3
  <2> HIDE DEF pending
  <2>5. run' = [pc |-> "record", check |-> run.check, at |-> run.at + 1, found |-> Rest, wrote |-> wrote,
                remap |-> run.remap, pending |-> pending, upserted |-> run.upserted]
    BY <1>2, <2>4
  <2> QED BY <1>1, <1>2, <2>5 DEF pending, picture
<1> QED BY <1>3, <1>4

SeenDevice == Import!Over(db.device, run.wrote.device)

KnownHardware == \A m \in DOMAIN hardware : \E d \in DOMAIN db.device : db.device[d] = [mac |-> m, key |-> hardware[m]]

\* A transaction leaves the Devices that are there as they are, and knows its own.
OwnDevices ==
  /\ \A d \in DOMAIN run.wrote.device \cap DOMAIN db.device : run.wrote.device[d] = db.device[d]
  /\ DeviceRows(SeenDevice)
  /\ \A d \in DOMAIN run.wrote.device : d \in Ids /\ (d \in DOMAIN db.device \/ \E i \in DOMAIN archive : archive[i].id = d)

\* A Device that is here under another id is the one with the archived MAC address.
RemapHolds ==
  \A id \in DOMAIN run.remap :
    /\ id \notin DOMAIN SeenDevice /\ run.remap[id] \in DOMAIN SeenDevice \cap Ids
    /\ \E i \in DOMAIN archive : Kind(i, "device") /\ archive[i].id = id /\ SeenDevice[run.remap[id]].mac = archive[i].mac

PendingOfWritten == \A k \in DOMAIN run.pending : run.pending[k].place[2] \in DOMAIN run.wrote.screen

\* The Device of a Screen is the one the archive names.
Names(d, i, rows) ==
  \E j \in DOMAIN archive : /\ Kind(j, "device") /\ archive[j].id = archive[i].device
                            /\ d \in DOMAIN rows /\ rows[d].mac = archive[j].mac

DeviceDone(i) == /\ Import!Resolved(archive[i].id) \in DOMAIN run.wrote.device
                 /\ run.wrote.device[Import!Resolved(archive[i].id)].mac = archive[i].mac
ScreenDone(i) ==
  LET id == archive[i].id
      d == run.wrote.screen[id].device
  IN /\ id \in DOMAIN run.wrote.screen
     /\ Names(d, i, run.wrote.device)
     /\ \E k \in DOMAIN run.pending : run.pending[k] = [place |-> <<d, id>>, image |-> archive[i].image]
ReadIsDone ==
  \A i \in 1..(run.at - 1) : /\ Kind(i, "device") => DeviceDone(i)
                             /\ Kind(i, "plugin") => archive[i].id \in run.upserted
                             /\ Kind(i, "screen") /\ ~run.check => ScreenDone(i)

\* Between the two statements of upsertDevice
FoundHolds ==
  LET d == Import!Resolved(Import!Record.id)
  IN /\ run.at <= Len(archive) /\ Import!Record.kind = "device" /\ d \in Ids
     /\ IF run.found = Rest THEN d = Import!Record.id /\ d \notin DOMAIN SeenDevice
        ELSE d \in DOMAIN SeenDevice /\ SeenDevice[d] = [mac |-> Import!Record.mac, key |-> run.found]

TransactionInv ==
  /\ OwnDevices /\ ScreenRows(run.wrote.screen) /\ RemapHolds /\ PendingOfWritten /\ ReadIsDone
  /\ run.pc = "device" => FoundHolds

\* After the transaction each Screen of the archive is there, and its image is or is to come.
ImageDone(i) ==
  LET id == archive[i].id
      d == db.screen[id].device
  IN /\ id \in DOMAIN db.screen /\ d \in Ids
     /\ Names(d, i, db.device)
     /\ \/ <<d, id>> \in DOMAIN image /\ image[<<d, id>>] = archive[i].image
        \/ \E k \in DOMAIN run.pending : run.pending[k] = [place |-> <<d, id>>, image |-> archive[i].image]
AfterInv ==
  /\ \A k \in DOMAIN run.pending : run.pending[k].place[2] \in gone \cup DOMAIN db.screen
  /\ \A i \in DOMAIN archive : /\ Kind(i, "plugin") => archive[i].id \in run.upserted
                               /\ Kind(i, "screen") /\ archive[i].id \notin gone => ImageDone(i)

RowsInv ==
  /\ RowsTyped(db) /\ DeviceRows(db.device) /\ ScreenRows(db.screen)
  /\ KnownHardware
  /\ \A place \in DOMAIN image : place[2] \in gone \cup DOMAIN db.screen

ImportInv ==
  /\ archive \in Archives /\ minted \in 0..MaxKeys
  /\ RunTyped /\ RowsInv
  /\ Import!InTransaction => TransactionInv
  /\ run.pc = "images" => AfterInv

LEMMA ArchiveIs ==
  ASSUME Import!ConfigurationImportAssumptions, archive \in Archives
  PROVE  /\ archive \in Seq(Import!Range(archive)) /\ Len(archive) \in Nat /\ DOMAIN archive = 1..Len(archive)
         /\ \A i \in DOMAIN archive : archive[i].kind \in {"palette", "plugin", "device", "assignment", "screen", "settings"}
         /\ \A i, j \in DOMAIN archive : archive[i].kind = archive[j].kind /\ archive[i].id = archive[j].id => i = j
         /\ \A i \in DOMAIN archive :
              /\ archive[i].kind = "device" => archive[i].key # Rest
              /\ archive[i].kind = "screen" => \E j \in 1..(i - 1) : archive[j].kind = "device" /\ archive[j].id = archive[i].device
<1>1. Import!IsArchive(archive)
  BY DEF Import!ConfigurationImportAssumptions
<1>2. archive \in Seq(Import!Range(archive)) /\ Len(archive) \in Nat /\ DOMAIN archive = 1..Len(archive)
  BY <1>1 DEF Import!IsArchive
<1> QED BY <1>1, <1>2 DEF Import!IsArchive

\* When no import or check is under way
LEMMA RunIsOver ==
  ASSUME Import!ConfigurationImportAssumptions, ImportInv, run' = Import!IdleRun, minted' \in 0..MaxKeys,
         UNCHANGED <<archive, db, image, hardware, gone>>
  PROVE  ImportInv'
<1>1. RowsInv'
  BY DEF ImportInv, RowsInv, DeviceRows, ScreenRows, KnownHardware, Kind
<1>2. RunTyped'
  <2>1. Pictures' = Pictures
    BY DEF Pictures, Kind
  <2>2. Len(archive) \in Nat /\ archive' = archive
    BY ArchiveIs DEF ImportInv
  <2> QED BY <2>1, <2>2 DEF RunTyped, Import!IdleRun, RowsTyped, Import!NoRows
<1> QED BY <1>1, <1>2 DEF ImportInv, Import!InTransaction, Import!IdleRun

\* A step of the transaction itself
LEMMA RowsAreLeft ==
  ASSUME RowsInv, UNCHANGED <<archive, db, image, hardware, gone>>
  PROVE  RowsInv'
BY DEF RowsInv, DeviceRows, ScreenRows, KnownHardware, Kind

LEMMA Begins ==
  ASSUME Import!ConfigurationImportAssumptions, ImportInv, NEW check \in BOOLEAN, Import!Begin(check)
  PROVE  ImportInv'
<1>1. /\ run' = [pc |-> "record", check |-> check, at |-> 1, found |-> Rest, wrote |-> Import!NoRows,
                 remap |-> <<>>, pending |-> <<>>, upserted |-> {}]
      /\ UNCHANGED <<archive, db, image, hardware, gone, minted>>
  BY DEF Import!Begin, Import!IdleRun, Import!others
<1>2. RunTyped'
  <2>1. Pictures' = Pictures
    BY <1>1 DEF Pictures, Kind
  <2>2. Len(archive) \in Nat /\ archive' = archive
    BY <1>1, ArchiveIs DEF ImportInv
  <2> QED BY <1>1, <2>1, <2>2 DEF RunTyped, RowsTyped, Import!NoRows
<1>3. DOMAIN SeenDevice' = DOMAIN db.device /\ \A d \in DOMAIN db.device : SeenDevice'[d] = db.device[d]
  BY <1>1 DEF SeenDevice, Import!NoRows, Import!Over
<1>4. DeviceRows(SeenDevice)'
  BY <1>1, <1>3 DEF ImportInv, RowsInv, DeviceRows, Kind
<1>5. TransactionInv'
  BY <1>1, <1>4 DEF TransactionInv, OwnDevices, ScreenRows, RemapHolds, PendingOfWritten, ReadIsDone, Import!NoRows
<1> QED BY <1>1, <1>2, <1>5, RowsAreLeft DEF ImportInv

\* Rows are upserted whose tables say nothing of Devices and Screens.
LEMMA OtherRowsKeep ==
  ASSUME Import!ConfigurationImportAssumptions, ImportInv, NEW wrote, NEW upserted, minted' \in 0..MaxKeys,
         UNCHANGED <<archive, db, image, hardware, gone>>,
         run.pc = "record", run.at <= Len(archive), Import!Record.kind \notin {"device", "screen"},
         run' = [pc |-> "record", check |-> run.check, at |-> run.at + 1, found |-> Rest, wrote |-> wrote,
                 remap |-> run.remap, pending |-> run.pending, upserted |-> upserted],
         wrote = [device |-> run.wrote.device, screen |-> run.wrote.screen, unique |-> wrote.unique],
         run.upserted \subseteq upserted, Import!Record.kind = "plugin" => Import!Record.id \in upserted
  PROVE  ImportInv'
<1>1. RunTyped /\ RowsInv /\ TransactionInv
  BY DEF ImportInv, Import!InTransaction
<1>2. Len(archive) \in Nat /\ archive' = archive
  BY ArchiveIs DEF ImportInv
<1>3. RunTyped'
  <2>1. Pictures' = Pictures
    BY DEF Pictures, Kind
  <2>2. run'.at \in 1..(Len(archive) + 1)
    BY <1>1, <1>2 DEF RunTyped
  <2>3. RowsTyped(wrote)
    BY DEF RowsTyped
  <2> QED BY <1>1, <1>2, <2>1, <2>2, <2>3 DEF RunTyped
<1>4. /\ run'.wrote.device = run.wrote.device /\ run'.wrote.screen = run.wrote.screen
      /\ run'.remap = run.remap /\ run'.pending = run.pending /\ run'.check = run.check /\ run'.upserted = upserted
      /\ run'.at = run.at + 1 /\ run'.pc = "record"
  OBVIOUS
<1>5. SeenDevice' = SeenDevice
  BY <1>4 DEF SeenDevice
<1>6. OwnDevices' /\ ScreenRows(run.wrote.screen)' /\ RemapHolds' /\ PendingOfWritten'
  <2>1. ScreenRows(run.wrote.screen)' /\ PendingOfWritten'
    BY <1>1, <1>4 DEF TransactionInv, ScreenRows, PendingOfWritten
  <2>2. OwnDevices' /\ RemapHolds'
    BY <1>1, <1>4, <1>5 DEF TransactionInv, OwnDevices, RemapHolds, DeviceRows, Kind
  <2> QED BY <2>1, <2>2
<1>7. ReadIsDone'
  <2>1. ASSUME NEW i \in 1..run.at
        PROVE  /\ Kind(i, "device") => DeviceDone(i)'
               /\ Kind(i, "plugin") => archive[i].id \in upserted
               /\ Kind(i, "screen") /\ ~run.check => ScreenDone(i)'
    <3>1. CASE i = run.at
      BY <3>1 DEF Kind, Import!Record
    <3>2. CASE i # run.at
      <4>1. i \in 1..(run.at - 1)
        BY <1>1, <3>2 DEF RunTyped
      <4>2. /\ Kind(i, "device") => DeviceDone(i)
            /\ Kind(i, "plugin") => archive[i].id \in run.upserted
            /\ Kind(i, "screen") /\ ~run.check => ScreenDone(i)
        BY <1>1, <4>1 DEF TransactionInv, ReadIsDone
      <4>3. DeviceDone(i) => DeviceDone(i)'
        BY <1>4 DEF DeviceDone, Import!Resolved
      <4>4. ScreenDone(i) => ScreenDone(i)'
        BY <1>4 DEF ScreenDone, Names, Kind
      <4> QED BY <4>2, <4>3, <4>4
    <3> QED BY <3>1, <3>2
  <2>2. run'.at - 1 = run.at
    BY <1>1, <1>4 DEF RunTyped
  <2> QED BY <1>4, <2>1, <2>2 DEF ReadIsDone, Kind
<1> QED BY <1>1, <1>3, <1>4, <1>6, <1>7, RowsAreLeft DEF ImportInv, TransactionInv

LEMMA UniqueKeeps ==
  ASSUME Import!ConfigurationImportAssumptions, ImportInv, Import!UpsertUnique
  PROVE  ImportInv'
<1>1. RunTyped /\ minted \in 0..MaxKeys /\ MaxKeys \in Nat
  BY DEF ImportInv, Import!ConfigurationImportAssumptions
<1>2. /\ Import!At("palette") \/ Import!At("plugin") \/ Import!At("assignment")
      /\ UNCHANGED <<archive, db, image, job, faults, setups, hardware, gone>>
  BY <1>1, UniqueDoes
<1>3. CASE run' = Import!IdleRun /\ minted' = minted
  BY <1>1, <1>2, <1>3, RunIsOver
<1>4. CASE ~(run' = Import!IdleRun /\ minted' = minted)
  <2>1. PICK value, upserted :
                    /\ run' = [pc |-> "record", check |-> run.check, at |-> run.at + 1, found |-> Rest,
                               wrote |-> [device |-> run.wrote.device, screen |-> run.wrote.screen,
                                          unique |-> Import!Over(run.wrote.unique, Import!Entry(Import!Record.id, value))],
                               remap |-> run.remap, pending |-> run.pending, upserted |-> upserted]
                    /\ upserted = IF Import!At("plugin") THEN run.upserted \cup {Import!Record.id} ELSE run.upserted
    BY <1>1, <1>4, UniqueDoes
  <2>2. minted' \in {minted, minted + 1} /\ minted' <= MaxKeys
    BY <1>1, <1>4, UniqueDoes
  <2>3. minted' \in 0..MaxKeys
    BY <1>1, <2>2
  <2> DEFINE wrote == [device |-> run.wrote.device, screen |-> run.wrote.screen,
                       unique |-> Import!Over(run.wrote.unique, Import!Entry(Import!Record.id, value))]
  <2>4. wrote = [device |-> run.wrote.device, screen |-> run.wrote.screen, unique |-> wrote.unique]
    OBVIOUS
  <2>5. run.upserted \subseteq upserted /\ (Import!Record.kind = "plugin" => Import!Record.id \in upserted)
    BY <1>2, <2>1 DEF Import!At
  <2>6. run.pc = "record" /\ run.at <= Len(archive) /\ Import!Record.kind \notin {"device", "screen"}
    BY <1>2 DEF Import!At
  <2>7. run' = [pc |-> "record", check |-> run.check, at |-> run.at + 1, found |-> Rest, wrote |-> wrote,
                remap |-> run.remap, pending |-> run.pending, upserted |-> upserted]
    BY <2>1
  <2> HIDE DEF wrote
  <2> QED BY <1>2, <2>3, <2>4, <2>5, <2>6, <2>7, OtherRowsKeep
<1> QED BY <1>3, <1>4

LEMMA ReplaceKeeps ==
  ASSUME Import!ConfigurationImportAssumptions, ImportInv, Import!ReplaceSettings
  PROVE  ImportInv'
<1>1. RunTyped /\ minted \in 0..MaxKeys
  BY DEF ImportInv
<1>2. Import!At("settings") /\ UNCHANGED <<archive, db, image, minted, hardware, gone>> /\ (run' = Import!IdleRun \/ run' = Import!Went(run))
  BY DEF Import!ReplaceSettings, Import!Refuse
<1>3. CASE run' = Import!IdleRun
  BY <1>1, <1>2, <1>3, RunIsOver
<1>4. CASE run' = Import!Went(run)
  <2>1. run' = [pc |-> "record", check |-> run.check, at |-> run.at + 1, found |-> Rest, wrote |-> run.wrote,
                remap |-> run.remap, pending |-> run.pending, upserted |-> run.upserted]
    BY <1>1, <1>4, WentIs
  <2>2. run.wrote = [device |-> run.wrote.device, screen |-> run.wrote.screen, unique |-> run.wrote.unique]
    BY <1>1 DEF RunTyped, RowsTyped
  <2>3. run.pc = "record" /\ run.at <= Len(archive) /\ Import!Record.kind = "settings"
    BY <1>2 DEF Import!At
  <2> QED BY <1>1, <1>2, <2>1, <2>2, <2>3, OtherRowsKeep
<1> QED BY <1>2, <1>3, <1>4

LEMMA ScreenKeeps ==
  ASSUME Import!ConfigurationImportAssumptions, ImportInv, Import!UpsertScreen
  PROVE  ImportInv'
<1> DEFINE d == Import!Resolved(Import!Record.device)
           line == [device |-> d, order |-> Import!Record.order]
           picture == [place |-> <<d, Import!Record.id>>, image |-> Import!Record.image]
           pending == IF run.check THEN run.pending ELSE Append(run.pending, picture)
           screen == Import!Over(run.wrote.screen, Import!Entry(Import!Record.id, line))
<1>1. RunTyped /\ RowsInv /\ minted \in 0..MaxKeys
  BY DEF ImportInv
<1>2. Import!At("screen") /\ UNCHANGED <<archive, db, image, job, faults, setups, minted, hardware, gone>>
  BY <1>1, ScreenDoes
<1>3. run.pc = "record" /\ run.at <= Len(archive) /\ Import!Record.kind = "screen"
  BY <1>2 DEF Import!At
<1>4. TransactionInv
  BY <1>3 DEF ImportInv, Import!InTransaction
<1>5. CASE run' = Import!IdleRun
  BY <1>1, <1>2, <1>5, RunIsOver
<1>6. CASE ~(run' = Import!IdleRun)
  <2>1. /\ run'.pc = "record" /\ run'.check = run.check /\ run'.at = run.at + 1
        /\ run'.wrote.device = run.wrote.device /\ run'.wrote.screen = screen
        /\ run'.remap = run.remap /\ run'.pending = pending /\ run'.upserted = run.upserted
        /\ RowsTyped(run'.wrote)
        /\ run' = [pc |-> run'.pc, check |-> run'.check, at |-> run'.at, found |-> run'.found, wrote |-> run'.wrote,
                   remap |-> run'.remap, pending |-> run'.pending, upserted |-> run'.upserted]
    <3>1. run' = [pc |-> "record", check |-> run.check, at |-> run.at + 1, found |-> Rest,
                  wrote |-> [device |-> run.wrote.device, screen |-> screen, unique |-> run.wrote.unique],
                  remap |-> run.remap, pending |-> pending, upserted |-> run.upserted]
      BY <1>1, <1>6, ScreenDoes
    <3> HIDE DEF screen, pending
    <3> QED BY <3>1 DEF RowsTyped
  <2>2. /\ Len(archive) \in Nat /\ DOMAIN archive = 1..Len(archive) /\ archive' = archive
        /\ run.at \in DOMAIN archive
    BY <1>1, <1>2, <1>3, ArchiveIs DEF ImportInv, RunTyped
  <2>3. PICK j \in 1..(run.at - 1) : Kind(j, "device") /\ archive[j].id = Import!Record.device
    BY <1>3, <2>2, ArchiveIs DEF ImportInv, Kind, Import!Record
  <2>4. DeviceDone(j)
    BY <1>4, <2>3 DEF TransactionInv, ReadIsDone
  <2>5. d \in DOMAIN run.wrote.device /\ run.wrote.device[d].mac = archive[j].mac /\ d \in Ids
    BY <1>4, <2>3, <2>4 DEF DeviceDone, TransactionInv, OwnDevices
  <2>6. DOMAIN screen = DOMAIN run.wrote.screen \cup {Import!Record.id} /\ screen[Import!Record.id] = line
        /\ \A id \in DOMAIN run.wrote.screen : id # Import!Record.id => screen[id] = run.wrote.screen[id]
    <3> HIDE DEF line
    <3> QED BY DEF Import!Over, Import!Entry
  <2>7. picture \in Pictures
    BY <1>3, <2>2, <2>5 DEF Pictures, Kind, Import!Record
  <2> HIDE DEF screen, d, line
  <2>8. /\ pending \in Seq(Pictures)
        /\ \A k \in DOMAIN run.pending : k \in DOMAIN pending /\ pending[k] = run.pending[k]
        /\ \A k \in DOMAIN pending : (k \in DOMAIN run.pending) \/ pending[k] = picture
        /\ ~run.check => \E k \in DOMAIN pending : pending[k] = picture
    <3> HIDE DEF picture
    <3>1. run.pending \in Seq(Pictures)
      BY <1>1 DEF RunTyped
    <3>2. CASE run.check
      BY <3>1, <3>2
    <3>3. CASE ~run.check
      <4>1. pending = Append(run.pending, picture)
        BY <3>3
      <4>2. /\ pending \in Seq(Pictures) /\ Len(pending) = Len(run.pending) + 1
            /\ \A k \in 1..Len(run.pending) : pending[k] = run.pending[k]
            /\ pending[Len(run.pending) + 1] = picture
        BY <2>7, <3>1, <4>1
      <4>3. DOMAIN pending = 1..(Len(run.pending) + 1) /\ DOMAIN run.pending = 1..Len(run.pending) /\ Len(run.pending) \in Nat
        BY <3>1, <4>2
      <4> QED BY <4>2, <4>3
    <3> QED BY <3>2, <3>3
  <2> HIDE DEF pending
  <2>9. RunTyped'
    <3>1. Pictures' = Pictures
      BY <1>2 DEF Pictures, Kind
    <3>2. run'.at \in 1..(Len(archive) + 1)
      BY <1>1, <1>3, <2>1, <2>2 DEF RunTyped
    <3> QED BY <1>1, <2>1, <2>2, <2>8, <3>1, <3>2 DEF RunTyped
  <2>10. OwnDevices' /\ RemapHolds'
    <3>1. SeenDevice' = SeenDevice
      BY <1>2, <2>1 DEF SeenDevice
    <3> QED BY <1>2, <1>4, <2>1, <3>1 DEF TransactionInv, OwnDevices, RemapHolds, DeviceRows, Kind
  <2>11. PendingOfWritten'
    <3>1. picture.place[2] = Import!Record.id
      OBVIOUS
    <3> HIDE DEF picture
    <3> QED BY <1>4, <2>1, <2>6, <2>8, <3>1 DEF TransactionInv, PendingOfWritten
  <2>13. ScreenRows(run.wrote.screen)'
    <3>1. line = [device |-> line.device, order |-> line.order]
      BY DEF line
    <3> QED BY <1>4, <2>1, <2>6, <3>1 DEF TransactionInv, ScreenRows
  <2>12. ReadIsDone'
    <3>1. ASSUME NEW i \in 1..run.at
          PROVE  /\ Kind(i, "device") => DeviceDone(i)'
                 /\ Kind(i, "plugin") => archive[i].id \in run.upserted
                 /\ Kind(i, "screen") /\ ~run.check => ScreenDone(i)'
      <4>1. CASE i = run.at
        <5>1. archive[i] = Import!Record /\ Names(d, i, run.wrote.device)
          BY <2>2, <2>3, <2>5, <4>1 DEF Names, Import!Record
        <5>2. ~run.check => ScreenDone(i)'
          <6>1. line.device = d
            BY DEF line
          <6> QED BY <1>2, <2>1, <2>6, <2>8, <5>1, <6>1 DEF ScreenDone, Names, Kind
        <5> QED BY <1>3, <5>1, <5>2 DEF Kind
      <4>2. CASE i # run.at
        <5>1. i \in 1..(run.at - 1)
          BY <1>1, <4>2 DEF RunTyped
        <5>2. /\ Kind(i, "device") => DeviceDone(i)
              /\ Kind(i, "plugin") => archive[i].id \in run.upserted
              /\ Kind(i, "screen") /\ ~run.check => ScreenDone(i)
          BY <1>4, <5>1 DEF TransactionInv, ReadIsDone
        <5>3. DeviceDone(i) => DeviceDone(i)'
          BY <1>2, <2>1 DEF DeviceDone, Import!Resolved
        <5>4. Kind(i, "screen") => archive[i].id # Import!Record.id
          BY <1>3, <2>2, <4>2, ArchiveIs DEF ImportInv, Kind, Import!Record
        <5>5. ASSUME Kind(i, "screen"), ScreenDone(i) PROVE ScreenDone(i)'
          <6> DEFINE id == archive[i].id
          <6>1. /\ id \in DOMAIN screen /\ screen[id] = run.wrote.screen[id]
                /\ Names(run.wrote.screen[id].device, i, run.wrote.device)
            BY <2>6, <5>4, <5>5 DEF ScreenDone
          <6>2. \E k \in DOMAIN pending : pending[k] = [place |-> <<run.wrote.screen[id].device, id>>, image |-> archive[i].image]
            BY <2>8, <5>5 DEF ScreenDone
          <6> QED BY <1>2, <2>1, <6>1, <6>2 DEF ScreenDone, Names, Kind
        <5> QED BY <5>2, <5>3, <5>5
      <4> QED BY <4>1, <4>2
    <3>2. run'.at - 1 = run.at
      BY <1>1, <2>1 DEF RunTyped
    <3> QED BY <1>2, <2>1, <3>1, <3>2 DEF ReadIsDone, Kind
  <2> QED BY <1>1, <1>2, <2>1, <2>9, <2>10, <2>11, <2>12, <2>13, RowsAreLeft DEF ImportInv, TransactionInv
<1> QED BY <1>5, <1>6

\* A Device the import sees, and the Devices it sees by a MAC address
LEMMA SeenDeviceIs ==
  ASSUME RowsTyped(db)
  PROVE  /\ Import!Seen.device = SeenDevice
         /\ DOMAIN SeenDevice = DOMAIN db.device \cup DOMAIN run.wrote.device
         /\ \A d \in DOMAIN SeenDevice :
              SeenDevice[d] = IF d \in DOMAIN run.wrote.device THEN run.wrote.device[d] ELSE db.device[d]
         /\ \A mac : Import!HasMac(mac) = {d \in DOMAIN SeenDevice : SeenDevice[d].mac = mac}
<1>1. Import!Seen.device = SeenDevice
  BY SeenIs DEF SeenDevice
<1> QED BY <1>1 DEF SeenDevice, Import!Over, Import!HasMac

LEMMA FindKeeps ==
  ASSUME Import!ConfigurationImportAssumptions, ImportInv, Import!FindDevice
  PROVE  ImportInv'
<1>1. RunTyped /\ RowsInv /\ RowsTyped(db) /\ minted \in 0..MaxKeys
  BY DEF ImportInv, RowsInv
<1>2. /\ Import!At("device") /\ UNCHANGED <<archive, db, image, job, faults, setups, minted, hardware, gone>>
      /\ run.pc = "record" /\ run.at <= Len(archive) /\ Import!Record.kind = "device"
  BY <1>1, FindDoes DEF Import!At
<1>3. TransactionInv
  BY <1>2 DEF ImportInv, Import!InTransaction
<1>4. PICK d \in Ids :
        /\ IF Import!Record.id \in DOMAIN Import!Seen.device \/ Import!HasMac(Import!Record.mac) = {} THEN d = Import!Record.id ELSE d \in Import!HasMac(Import!Record.mac)
        /\ run' = [pc |-> "device", check |-> run.check, at |-> run.at,
                         found |-> IF d \in DOMAIN Import!Seen.device THEN Import!Seen.device[d].key ELSE Rest, wrote |-> run.wrote,
                         remap |-> IF d = Import!Record.id THEN run.remap ELSE Import!Over(run.remap, Import!Entry(Import!Record.id, d)),
                         pending |-> run.pending, upserted |-> run.upserted]
  BY <1>1, FindDoes
<1> DEFINE key == IF d \in DOMAIN SeenDevice THEN SeenDevice[d].key ELSE Rest
           remap == IF d = Import!Record.id THEN run.remap ELSE Import!Over(run.remap, Import!Entry(Import!Record.id, d))
<1>5. /\ run'.pc = "device" /\ run'.check = run.check /\ run'.at = run.at /\ run'.found = key /\ run'.wrote = run.wrote
      /\ run'.remap = remap /\ run'.pending = run.pending /\ run'.upserted = run.upserted
      /\ run' = [pc |-> run'.pc, check |-> run'.check, at |-> run'.at, found |-> run'.found, wrote |-> run'.wrote,
                 remap |-> run'.remap, pending |-> run'.pending, upserted |-> run'.upserted]
  <2>1. Import!Seen.device = SeenDevice
    BY <1>1, SeenDeviceIs
  <2>2. run' = [pc |-> "device", check |-> run.check, at |-> run.at, found |-> key, wrote |-> run.wrote,
                remap |-> remap, pending |-> run.pending, upserted |-> run.upserted]
    BY <1>4, <2>1
  <2> HIDE DEF key, remap
  <2> QED BY <2>2
<1>6. IF Import!Record.id \in DOMAIN SeenDevice \/ ~(\E e \in DOMAIN SeenDevice : SeenDevice[e].mac = Import!Record.mac)
      THEN d = Import!Record.id ELSE d \in DOMAIN SeenDevice /\ SeenDevice[d].mac = Import!Record.mac
  BY <1>1, <1>4, SeenDeviceIs
<1>7. /\ Len(archive) \in Nat /\ DOMAIN archive = 1..Len(archive) /\ archive' = archive
      /\ run.at \in DOMAIN archive /\ Import!Record = archive[run.at] /\ Kind(run.at, "device")
  BY <1>1, <1>2, ArchiveIs DEF ImportInv, RunTyped, Import!Record, Kind
<1>8. DeviceRows(SeenDevice)
  BY <1>3 DEF TransactionInv, OwnDevices
<1>9. d = Import!Record.id => Import!Record.id \notin DOMAIN run.remap
  <2>1. SUFFICES ASSUME d = Import!Record.id, Import!Record.id \in DOMAIN run.remap PROVE FALSE
    OBVIOUS
  <2>2. PICK i \in DOMAIN archive : Kind(i, "device") /\ archive[i].id = Import!Record.id /\ SeenDevice[run.remap[Import!Record.id]].mac = archive[i].mac
    BY <1>3, <2>1 DEF TransactionInv, RemapHolds
  <2>3. i = run.at
    BY <1>7, <2>2, ArchiveIs DEF ImportInv, Kind
  <2>4. Import!Record.id \notin DOMAIN SeenDevice /\ run.remap[Import!Record.id] \in DOMAIN SeenDevice
    BY <1>3, <2>1 DEF TransactionInv, RemapHolds
  <2> QED BY <1>6, <1>7, <2>1, <2>2, <2>3, <2>4
<1>10. /\ \A id \in DOMAIN run.remap : id \in DOMAIN remap /\ (id # Import!Record.id => remap[id] = run.remap[id])
       /\ DOMAIN remap \subseteq DOMAIN run.remap \cup {Import!Record.id}
       /\ d # Import!Record.id => Import!Record.id \in DOMAIN remap /\ remap[Import!Record.id] = d
       /\ d = Import!Record.id => remap = run.remap
  BY DEF Import!Over, Import!Entry
<1> HIDE DEF remap
<1>11. RunTyped'
  <2>1. Pictures' = Pictures
    BY <1>2 DEF Pictures, Kind
  <2> QED BY <1>1, <1>5, <1>7, <2>1 DEF RunTyped
<1>12. SeenDevice' = SeenDevice
  BY <1>2, <1>5 DEF SeenDevice
<1>13. OwnDevices' /\ ScreenRows(run.wrote.screen)' /\ PendingOfWritten'
  BY <1>2, <1>3, <1>5, <1>12 DEF TransactionInv, OwnDevices, ScreenRows, PendingOfWritten, DeviceRows, Kind
<1>14. d # Import!Record.id => /\ Import!Record.id \notin DOMAIN SeenDevice /\ d \in DOMAIN SeenDevice \cap Ids
                        /\ SeenDevice[d].mac = Import!Record.mac
  BY <1>6
<1>15. RemapHolds'
  <2> SUFFICES ASSUME NEW id \in DOMAIN remap
               PROVE  /\ id \notin DOMAIN SeenDevice /\ remap[id] \in DOMAIN SeenDevice \cap Ids
                      /\ \E i \in DOMAIN archive : Kind(i, "device") /\ archive[i].id = id /\ SeenDevice[remap[id]].mac = archive[i].mac
    BY <1>2, <1>5, <1>12 DEF RemapHolds, Kind
  <2>1. CASE d # Import!Record.id /\ id = Import!Record.id
    BY <1>7, <1>10, <1>14, <2>1
  <2>2. CASE ~(d # Import!Record.id /\ id = Import!Record.id)
    <3>1. id \in DOMAIN run.remap /\ remap[id] = run.remap[id]
      BY <1>10, <2>2
    <3> QED BY <1>3, <3>1 DEF TransactionInv, RemapHolds
  <2> QED BY <2>1, <2>2
<1>16. ReadIsDone'
  <2>1. ASSUME NEW i \in 1..(run.at - 1), Kind(i, "device"), DeviceDone(i) PROVE DeviceDone(i)'
    <3>1. i \in DOMAIN archive /\ i # run.at
      BY <1>7
    <3>2. archive[i].id # Import!Record.id
      BY <1>7, <2>1, <3>1, ArchiveIs DEF ImportInv, Kind
    <3>3. Import!Resolved(archive[i].id)' = Import!Resolved(archive[i].id)
      BY <1>2, <1>5, <1>10, <3>2 DEF Import!Resolved
    <3> QED BY <1>2, <1>5, <2>1, <3>3 DEF DeviceDone
  <2>2. ASSUME NEW i, ScreenDone(i) PROVE ScreenDone(i)'
    BY <1>2, <1>5, <2>2 DEF ScreenDone, Names, Kind
  <2> QED BY <1>2, <1>3, <1>5, <2>1, <2>2 DEF TransactionInv, ReadIsDone, Kind
<1>17. FoundHolds'
  <2>1. Import!Record' = Import!Record
    BY <1>2, <1>5 DEF Import!Record
  <2>2. Import!Resolved(Import!Record.id)' = d
    BY <1>5, <1>9, <1>10, <2>1 DEF Import!Resolved
  <2>3. IF key = Rest THEN d = Import!Record.id /\ d \notin DOMAIN SeenDevice
        ELSE d \in DOMAIN SeenDevice /\ SeenDevice[d] = [mac |-> Import!Record.mac, key |-> key]
    <3>1. CASE d \in DOMAIN SeenDevice
      <4>1. SeenDevice[d] = [mac |-> SeenDevice[d].mac, key |-> SeenDevice[d].key] /\ SeenDevice[d].key # Rest
        BY <1>8, <3>1 DEF DeviceRows
      <4>2. SeenDevice[d].mac = Import!Record.mac
        BY <1>7, <1>8, <1>14, <3>1 DEF DeviceRows
      <4> QED BY <3>1, <4>1, <4>2
    <3>2. CASE d \notin DOMAIN SeenDevice
      BY <1>6, <3>2
    <3> QED BY <3>1, <3>2
  <2> HIDE DEF key
  <2> QED BY <1>2, <1>5, <1>12, <2>1, <2>2, <2>3 DEF FoundHolds
<1> QED BY <1>1, <1>2, <1>5, <1>11, <1>13, <1>15, <1>16, <1>17, RowsAreLeft DEF ImportInv, TransactionInv

LEMMA SaveKeeps ==
  ASSUME Import!ConfigurationImportAssumptions, ImportInv, Import!SaveDevice
  PROVE  ImportInv'
<1> DEFINE d == Import!Resolved(Import!Record.id)
           line == [mac |-> Import!Record.mac, key |-> Import!ResolvedKey]
           devices == Import!Over(run.wrote.device, Import!Entry(d, line))
<1>1. RunTyped /\ RowsInv /\ RowsTyped(db) /\ minted \in 0..MaxKeys /\ MaxKeys \in Nat
  BY DEF ImportInv, RowsInv, Import!ConfigurationImportAssumptions
<1>2. run.pc = "device" /\ UNCHANGED <<archive, db, image, job, faults, setups, hardware, gone>>
  BY <1>1, SaveDoes
<1>3. TransactionInv /\ FoundHolds
  BY <1>2 DEF ImportInv, Import!InTransaction, TransactionInv
<1>4. CASE run' = Import!IdleRun /\ minted' = minted
  BY <1>1, <1>2, <1>4, RunIsOver
<1>5. CASE ~(run' = Import!IdleRun /\ minted' = minted)
  <2>1. /\ Import!HasMac(Import!Record.mac) \ {d} = {}
        /\ run' = [pc |-> "record", check |-> run.check, at |-> run.at + 1, found |-> Rest,
                   wrote |-> [device |-> devices, screen |-> run.wrote.screen, unique |-> run.wrote.unique],
                   remap |-> run.remap, pending |-> run.pending, upserted |-> run.upserted]
        /\ minted' = IF Import!ResolvedKey = Import!NewKey THEN minted + 1 ELSE minted
        /\ minted' <= MaxKeys
    BY <1>1, <1>5, SaveDoes
  <2>2. /\ run'.pc = "record" /\ run'.check = run.check /\ run'.at = run.at + 1
        /\ run'.wrote.device = devices /\ run'.wrote.screen = run.wrote.screen
        /\ run'.remap = run.remap /\ run'.pending = run.pending /\ run'.upserted = run.upserted
        /\ RowsTyped(run'.wrote)
        /\ run' = [pc |-> run'.pc, check |-> run'.check, at |-> run'.at, found |-> run'.found, wrote |-> run'.wrote,
                   remap |-> run'.remap, pending |-> run'.pending, upserted |-> run'.upserted]
    <3> HIDE DEF devices
    <3> QED BY <2>1 DEF RowsTyped
  <2>3. minted' \in 0..MaxKeys
    BY <1>1, <2>1
  <2>4. /\ Len(archive) \in Nat /\ DOMAIN archive = 1..Len(archive) /\ archive' = archive
        /\ run.at \in DOMAIN archive /\ Import!Record = archive[run.at] /\ Kind(run.at, "device")
    BY <1>1, <1>2, <1>3, ArchiveIs DEF ImportInv, RunTyped, Import!Record, Kind, FoundHolds
  <2>5. /\ DOMAIN SeenDevice = DOMAIN db.device \cup DOMAIN run.wrote.device
        /\ \A e \in DOMAIN SeenDevice :
             SeenDevice[e] = IF e \in DOMAIN run.wrote.device THEN run.wrote.device[e] ELSE db.device[e]
    BY <1>1, SeenDeviceIs
  <2>6. \A e \in DOMAIN SeenDevice : SeenDevice[e].mac = Import!Record.mac => e = d
    <3> HIDE DEF d
    <3> QED BY <1>1, <2>1, SeenDeviceIs
  <2>7. DeviceRows(SeenDevice)
    BY <1>3 DEF TransactionInv, OwnDevices
  <2>8. Import!ResolvedKey # Rest
    <3>1. Import!Record.key # Rest
      BY <2>4, ArchiveIs DEF ImportInv, Kind
    <3>2. Import!ResolvedKey = Import!NewKey => Import!ResolvedKey # Rest
      <4>1. SUFFICES ASSUME Import!ResolvedKey = Import!NewKey PROVE Import!NewKey # Rest
        OBVIOUS
      <4>2. minted + 1 \in 1..MaxKeys
        BY <1>1, <2>1, <4>1
      <4> QED BY <4>2 DEF Import!NewKey, Import!ConfigurationImportAssumptions
    <3> QED BY <3>1, <3>2 DEF Import!ResolvedKey
  <2>9. d \in Ids /\ IF run.found = Rest THEN d = Import!Record.id /\ d \notin DOMAIN SeenDevice
        ELSE d \in DOMAIN SeenDevice /\ SeenDevice[d] = [mac |-> Import!Record.mac, key |-> run.found]
    BY <1>3 DEF FoundHolds
  <2>10. d \in DOMAIN SeenDevice => line = SeenDevice[d]
    BY <2>9 DEF Import!ResolvedKey
  <2>11. /\ DOMAIN devices = DOMAIN run.wrote.device \cup {d} /\ devices[d] = line
         /\ \A e \in DOMAIN run.wrote.device : e # d => devices[e] = run.wrote.device[e]
    <3> HIDE DEF line, d
    <3> QED BY DEF Import!Over, Import!Entry
  <2>12. line.mac = Import!Record.mac /\ line.key # Rest /\ line = [mac |-> line.mac, key |-> line.key]
    BY <2>8
  <2> HIDE DEF devices, line, d
  <2>13. /\ DOMAIN SeenDevice' = DOMAIN SeenDevice \cup {d} /\ SeenDevice'[d] = line
         /\ \A e \in DOMAIN SeenDevice : SeenDevice'[e] = SeenDevice[e]
    <3>1. /\ DOMAIN SeenDevice' = DOMAIN db.device \cup DOMAIN devices
          /\ \A e \in DOMAIN db.device \cup DOMAIN devices :
               SeenDevice'[e] = IF e \in DOMAIN devices THEN devices[e] ELSE db.device[e]
      BY <1>2, <2>2 DEF SeenDevice, Import!Over
    <3> QED BY <2>5, <2>10, <2>11, <3>1
  <2>14. RunTyped'
    <3>1. Pictures' = Pictures
      BY <1>2 DEF Pictures, Kind
    <3>2. run'.at \in 1..(Len(archive) + 1)
      BY <1>1, <2>2, <2>4 DEF RunTyped
    <3> QED BY <1>1, <2>2, <2>4, <3>1, <3>2 DEF RunTyped
  <2>15. DeviceRows(SeenDevice)'
    <3>1. \A e \in DOMAIN SeenDevice' : SeenDevice'[e] = [mac |-> SeenDevice'[e].mac, key |-> SeenDevice'[e].key]
                                        /\ SeenDevice'[e].key # Rest
      BY <2>7, <2>12, <2>13 DEF DeviceRows
    <3>2. \A e, f \in DOMAIN SeenDevice' : SeenDevice'[e].mac = SeenDevice'[f].mac => e = f
      BY <2>6, <2>7, <2>12, <2>13 DEF DeviceRows
    <3>3. ASSUME NEW i \in DOMAIN archive, Kind(i, "device"), archive[i].id \in DOMAIN SeenDevice'
          PROVE  SeenDevice'[archive[i].id].mac = archive[i].mac
      <4>1. CASE archive[i].id \in DOMAIN SeenDevice
        BY <2>7, <2>13, <3>3, <4>1 DEF DeviceRows
      <4>2. CASE archive[i].id \notin DOMAIN SeenDevice
        <5>1. archive[i].id = d /\ d = Import!Record.id
          BY <2>9, <2>13, <3>3, <4>2
        <5>2. i = run.at
          BY <2>4, <3>3, <5>1, ArchiveIs DEF ImportInv, Kind
        <5> QED BY <2>4, <2>12, <2>13, <5>1, <5>2
      <4> QED BY <4>1, <4>2
    <3> QED BY <2>4, <3>1, <3>2, <3>3 DEF DeviceRows, Kind
  <2>16. OwnDevices'
    <3>1. \A e \in DOMAIN devices \cap DOMAIN db.device : devices[e] = db.device[e]
      BY <1>3, <2>5, <2>10, <2>11 DEF TransactionInv, OwnDevices
    <3>2. \A e \in DOMAIN devices : e \in Ids /\ (e \in DOMAIN db.device \/ \E i \in DOMAIN archive : archive[i].id = e)
      BY <1>3, <2>4, <2>5, <2>9, <2>11 DEF TransactionInv, OwnDevices
    <3> QED BY <1>2, <2>2, <2>15, <3>1, <3>2 DEF OwnDevices
  <2>17. RemapHolds'
    <3> SUFFICES ASSUME NEW id \in DOMAIN run.remap
                 PROVE  /\ id \notin DOMAIN SeenDevice' /\ run.remap[id] \in DOMAIN SeenDevice' \cap Ids
                        /\ \E i \in DOMAIN archive : Kind(i, "device") /\ archive[i].id = id /\ SeenDevice'[run.remap[id]].mac = archive[i].mac
      BY <2>2, <2>4 DEF RemapHolds, Kind
    <3>1. /\ id \notin DOMAIN SeenDevice /\ run.remap[id] \in DOMAIN SeenDevice \cap Ids
          /\ \E i \in DOMAIN archive : Kind(i, "device") /\ archive[i].id = id /\ SeenDevice[run.remap[id]].mac = archive[i].mac
      BY <1>3 DEF TransactionInv, RemapHolds
    <3>2. id # d
      <4>1. d \notin DOMAIN SeenDevice => Import!Record.id \notin DOMAIN run.remap
        <5>1. SUFFICES ASSUME d \notin DOMAIN SeenDevice, Import!Record.id \in DOMAIN run.remap PROVE FALSE
          OBVIOUS
        <5>2. d = run.remap[Import!Record.id]
          BY <5>1 DEF d, Import!Resolved
        <5> QED BY <1>3, <5>1, <5>2 DEF TransactionInv, RemapHolds
      <4> QED BY <2>9, <3>1, <4>1
    <3> QED BY <2>13, <3>1, <3>2
  <2>18. PendingOfWritten' /\ ScreenRows(run.wrote.screen)'
    BY <1>3, <2>2 DEF TransactionInv, PendingOfWritten, ScreenRows
  <2>19. ReadIsDone'
    <3>1. \A e \in DOMAIN run.wrote.device : e \in DOMAIN devices /\ devices[e].mac = run.wrote.device[e].mac
      BY <2>5, <2>10, <2>11
    <3>2. \A id : Import!Resolved(id)' = Import!Resolved(id)
      BY <2>2 DEF Import!Resolved
    <3>3. ASSUME NEW i \in 1..run.at
          PROVE  /\ Kind(i, "device") => DeviceDone(i)'
                 /\ Kind(i, "plugin") => archive[i].id \in run.upserted
                 /\ Kind(i, "screen") /\ ~run.check => ScreenDone(i)'
      <4>1. CASE i = run.at
        <5>1. DeviceDone(i)'
          BY <2>2, <2>4, <2>11, <2>12, <3>2, <4>1 DEF DeviceDone, d
        <5> QED BY <2>4, <4>1, <5>1 DEF Kind
      <4>2. CASE i # run.at
        <5>1. i \in 1..(run.at - 1)
          BY <1>1, <4>2 DEF RunTyped
        <5>2. /\ Kind(i, "device") => DeviceDone(i)
              /\ Kind(i, "plugin") => archive[i].id \in run.upserted
              /\ Kind(i, "screen") /\ ~run.check => ScreenDone(i)
          BY <1>3, <5>1 DEF TransactionInv, ReadIsDone
        <5>3. DeviceDone(i) => DeviceDone(i)'
          BY <2>2, <2>4, <3>1, <3>2 DEF DeviceDone
        <5>4. ASSUME ScreenDone(i) PROVE ScreenDone(i)'
          <6> DEFINE e == run.wrote.screen[archive[i].id].device
          <6>1. PICK j \in DOMAIN archive : /\ Kind(j, "device") /\ archive[j].id = archive[i].device
                                            /\ e \in DOMAIN run.wrote.device /\ run.wrote.device[e].mac = archive[j].mac
            BY <5>4 DEF ScreenDone, Names
          <6>2. e \in DOMAIN devices /\ devices[e].mac = archive[j].mac
            BY <3>1, <6>1
          <6> QED BY <2>2, <2>4, <5>4, <6>1, <6>2 DEF ScreenDone, Names, Kind
        <5> QED BY <5>2, <5>3, <5>4
      <4> QED BY <4>1, <4>2
    <3>4. run'.at - 1 = run.at
      BY <1>1, <2>2 DEF RunTyped
    <3> QED BY <2>2, <2>4, <3>3, <3>4 DEF ReadIsDone, Kind
  <2> QED BY <1>1, <1>2, <2>2, <2>3, <2>14, <2>16, <2>17, <2>18, <2>19, RowsAreLeft DEF ImportInv, TransactionInv
<1> QED BY <1>4, <1>5

\* An import or a check that ends without more
LEMMA EndsKeep ==
  ASSUME Import!ConfigurationImportAssumptions, ImportInv, Import!RollBackCheck \/ Import!CommitRefused \/ Import!Schedule \/ Import!WriteFails \/ Import!Crash
  PROVE  ImportInv'
<1>1. run' = Import!IdleRun /\ minted' = minted /\ UNCHANGED <<archive, db, image, hardware, gone>>
  BY DEF Import!RollBackCheck, Import!CommitRefused, Import!Schedule, Import!WriteFails, Import!Crash, Import!others
<1> QED BY <1>1, RunIsOver DEF ImportInv

LEMMA CommitKeeps ==
  ASSUME Import!ConfigurationImportAssumptions, ImportInv, Import!Commit
  PROVE  ImportInv'
<1>1. /\ Import!AllRead /\ ~run.check /\ db' = Import!Seen /\ run' = [run EXCEPT !.pc = "images"]
      /\ UNCHANGED <<archive, image, minted, hardware, gone>> /\ run.pc = "record"
  BY DEF Import!Commit, Import!AllRead, Import!others
<1>2. /\ RunTyped /\ RowsInv /\ TransactionInv /\ RowsTyped(db) /\ DeviceRows(SeenDevice)
      /\ ScreenRows(db.screen) /\ ScreenRows(run.wrote.screen)
  BY <1>1 DEF ImportInv, Import!InTransaction, RowsInv, TransactionInv, OwnDevices
<1>3. /\ Len(archive) \in Nat /\ DOMAIN archive = 1..Len(archive) /\ run.at - 1 = Len(archive)
  BY <1>1, <1>2, ArchiveIs DEF ImportInv, RunTyped, Import!AllRead
<1>4. /\ run'.pc = "images" /\ run'.check = run.check /\ run'.at = run.at /\ run'.wrote = run.wrote
      /\ run'.remap = run.remap /\ run'.pending = run.pending /\ run'.upserted = run.upserted
      /\ run' = [pc |-> run'.pc, check |-> run'.check, at |-> run'.at, found |-> run'.found, wrote |-> run'.wrote,
                 remap |-> run'.remap, pending |-> run'.pending, upserted |-> run'.upserted]
  BY <1>1, <1>2 DEF RunTyped
<1>5. /\ RowsTyped(db') /\ db'.device = SeenDevice /\ db'.screen = Import!Over(db.screen, run.wrote.screen)
  BY <1>1, <1>2, SeenIs, SeenDeviceIs
<1>6. /\ DOMAIN db'.screen = DOMAIN db.screen \cup DOMAIN run.wrote.screen
      /\ \A s \in DOMAIN db'.screen :
           db'.screen[s] = IF s \in DOMAIN run.wrote.screen THEN run.wrote.screen[s] ELSE db.screen[s]
  BY <1>5 DEF Import!Over
<1>7. /\ DOMAIN SeenDevice = DOMAIN db.device \cup DOMAIN run.wrote.device
      /\ \A d \in DOMAIN SeenDevice :
           SeenDevice[d] = IF d \in DOMAIN run.wrote.device THEN run.wrote.device[d] ELSE db.device[d]
  BY <1>2, SeenDeviceIs
<1>8. RowsInv'
  <2>1. DeviceRows(db.device)'
    BY <1>1, <1>2, <1>5 DEF DeviceRows, Kind
  <2>2. ScreenRows(db.screen)'
    BY <1>2, <1>6 DEF ScreenRows
  <2>3. KnownHardware'
    <3> SUFFICES ASSUME NEW m \in DOMAIN hardware PROVE \E d \in DOMAIN SeenDevice : SeenDevice[d] = [mac |-> m, key |-> hardware[m]]
      BY <1>1, <1>5 DEF KnownHardware
    <3>1. PICK d \in DOMAIN db.device : db.device[d] = [mac |-> m, key |-> hardware[m]]
      BY <1>2 DEF RowsInv, KnownHardware
    <3>2. SeenDevice[d] = db.device[d]
      BY <1>2, <1>7, <3>1 DEF TransactionInv, OwnDevices
    <3> QED BY <1>7, <3>1, <3>2
  <2>4. \A place \in DOMAIN image : place[2] \in gone \cup DOMAIN db'.screen
    BY <1>2, <1>6 DEF RowsInv
  <2> QED BY <1>1, <1>5, <2>1, <2>2, <2>3, <2>4 DEF RowsInv
<1>9. RunTyped'
  <2>1. Pictures' = Pictures
    BY <1>1 DEF Pictures, Kind
  <2> QED BY <1>1, <1>2, <1>4, <2>1 DEF RunTyped
<1>10. AfterInv'
  <2>1. \A k \in DOMAIN run.pending : run.pending[k].place[2] \in DOMAIN db'.screen
    BY <1>2, <1>6 DEF TransactionInv, PendingOfWritten
  <2>2. ASSUME NEW i \in DOMAIN archive
        PROVE  /\ Kind(i, "plugin") => archive[i].id \in run.upserted
               /\ Kind(i, "screen") => ImageDone(i)'
    <3>1. /\ Kind(i, "plugin") => archive[i].id \in run.upserted
          /\ Kind(i, "screen") => ScreenDone(i)
      BY <1>1, <1>2, <1>3 DEF TransactionInv, ReadIsDone
    <3>2. ASSUME ScreenDone(i) PROVE ImageDone(i)'
      <4> DEFINE id == archive[i].id
                 d == run.wrote.screen[id].device
      <4>1. /\ id \in DOMAIN run.wrote.screen
            /\ \E k \in DOMAIN run.pending : run.pending[k] = [place |-> <<d, id>>, image |-> archive[i].image]
        BY <3>2 DEF ScreenDone
      <4>2. PICK j \in DOMAIN archive : /\ Kind(j, "device") /\ archive[j].id = archive[i].device
                                        /\ d \in DOMAIN run.wrote.device /\ run.wrote.device[d].mac = archive[j].mac
        BY <3>2 DEF ScreenDone, Names
      <4>3. d \in Ids /\ d \in DOMAIN SeenDevice /\ SeenDevice[d].mac = archive[j].mac
        BY <1>2, <1>7, <4>2 DEF TransactionInv, OwnDevices
      <4>4. id \in DOMAIN db'.screen /\ db'.screen[id].device = d
        BY <1>6, <4>1
      <4>5. j \in DOMAIN archive /\ archive[j].kind = "device" /\ archive[j].id = archive[i].device
            /\ d \in DOMAIN db'.device /\ db'.device[d].mac = archive[j].mac
        BY <1>5, <4>2, <4>3 DEF Kind
      <4>6. \E k \in DOMAIN run'.pending : run'.pending[k] = [place |-> <<d, id>>, image |-> archive[i].image]
        BY <1>4, <4>1
      <4>7. /\ id \in DOMAIN db'.screen /\ db'.screen[id].device \in Ids
            /\ Names(db.screen[id].device, i, db.device)'
            /\ \E k \in DOMAIN run'.pending :
                 run'.pending[k] = [place |-> <<db'.screen[id].device, id>>, image |-> archive[i].image]
        <5>1. db'.screen[id].device \in Ids /\ Names(db.screen[id].device, i, db.device)'
          BY <1>1, <4>3, <4>4, <4>5 DEF Names, Kind
        <5> HIDE DEF d
        <5> QED BY <4>4, <4>6, <5>1
      <4> QED BY <1>1, <4>7 DEF ImageDone
    <3> QED BY <3>1, <3>2
  <2> QED BY <1>1, <1>4, <2>1, <2>2 DEF AfterInv, Kind
<1> QED BY <1>1, <1>4, <1>8, <1>9, <1>10 DEF ImportInv, Import!InTransaction

LEMMA PictureIs ==
  ASSUME NEW p \in Pictures
  PROVE  \E d \in Ids, i \in DOMAIN archive :
           Kind(i, "screen") /\ p.place = <<d, archive[i].id>> /\ p.image = archive[i].image
BY DEF Pictures

LEMMA WriteKeeps ==
  ASSUME Import!ConfigurationImportAssumptions, ImportInv, Import!WriteImage
  PROVE  ImportInv'
<1> DEFINE first == Head(run.pending)
<1>1. /\ run.pc = "images" /\ run.pending # <<>> /\ image' = Import!Over(image, Import!Entry(first.place, first.image))
      /\ run' = [run EXCEPT !.pending = Tail(run.pending)]
      /\ UNCHANGED <<archive, db, minted, hardware, gone>>
  BY DEF Import!WriteImage, Import!others
<1>2. RunTyped /\ RowsInv /\ AfterInv /\ run.pending \in Seq(Pictures)
  BY <1>1 DEF ImportInv, RunTyped
<1>3. /\ first = run.pending[1] /\ 1 \in DOMAIN run.pending /\ first \in Pictures
      /\ Tail(run.pending) \in Seq(Pictures)
      /\ \A k \in DOMAIN Tail(run.pending) : k + 1 \in DOMAIN run.pending /\ Tail(run.pending)[k] = run.pending[k + 1]
      /\ \A k \in DOMAIN run.pending : k = 1 \/ (k - 1 \in DOMAIN Tail(run.pending) /\ Tail(run.pending)[k - 1] = run.pending[k])
  <2>1. Len(run.pending) \in Nat \ {0} /\ DOMAIN run.pending = 1..Len(run.pending)
    BY <1>1, <1>2
  <2>2. Tail(run.pending) \in Seq(Pictures) /\ Len(Tail(run.pending)) = Len(run.pending) - 1
        /\ \A k \in 1..(Len(run.pending) - 1) : Tail(run.pending)[k] = run.pending[k + 1]
    BY <1>1, <1>2, <2>1
  <2>3. DOMAIN Tail(run.pending) = 1..(Len(run.pending) - 1)
    BY <2>2
  <2>4. first = run.pending[1] /\ first \in Pictures
    BY <1>1, <1>2, <2>1
  <2> QED BY <2>1, <2>2, <2>3, <2>4
<1>4. /\ run'.pc = "images" /\ run'.check = run.check /\ run'.at = run.at /\ run'.wrote = run.wrote
      /\ run'.remap = run.remap /\ run'.pending = Tail(run.pending) /\ run'.upserted = run.upserted
      /\ run' = [pc |-> run'.pc, check |-> run'.check, at |-> run'.at, found |-> run'.found, wrote |-> run'.wrote,
                 remap |-> run'.remap, pending |-> run'.pending, upserted |-> run'.upserted]
  BY <1>1, <1>2 DEF RunTyped
<1>5. /\ DOMAIN image' = DOMAIN image \cup {first.place} /\ image'[first.place] = first.image
      /\ \A place \in DOMAIN image : place # first.place => image'[place] = image[place]
  BY <1>1 DEF Import!Over, Import!Entry
<1>6. RowsInv'
  <2>1. first.place[2] \in gone \cup DOMAIN db.screen
    BY <1>2, <1>3 DEF AfterInv
  <2>2. \A place \in DOMAIN image' : place[2] \in gone \cup DOMAIN db.screen
    BY <1>2, <1>5, <2>1 DEF RowsInv
  <2> QED BY <1>1, <1>2, <2>2 DEF RowsInv, DeviceRows, ScreenRows, KnownHardware, Kind
<1>7. RunTyped'
  <2>1. Pictures' = Pictures
    BY <1>1 DEF Pictures, Kind
  <2> QED BY <1>1, <1>2, <1>3, <1>4, <2>1 DEF RunTyped
<1>8. AfterInv'
  <2>1. \A k \in DOMAIN Tail(run.pending) : Tail(run.pending)[k].place[2] \in gone \cup DOMAIN db.screen
    BY <1>2, <1>3 DEF AfterInv
  <2>2. ASSUME NEW i \in DOMAIN archive, Kind(i, "screen"), ImageDone(i) PROVE ImageDone(i)'
    <3> DEFINE id == archive[i].id
               d == db.screen[id].device
    <3>1. id \in DOMAIN db.screen /\ d \in Ids /\ Names(d, i, db.device)
      BY <2>2 DEF ImageDone
    <3>2. Names(d, i, db.device)'
      BY <1>1, <3>1 DEF Names, Kind
    <3>3. \/ <<d, id>> \in DOMAIN image' /\ image'[<<d, id>>] = archive[i].image
          \/ \E k \in DOMAIN Tail(run.pending) : Tail(run.pending)[k] = [place |-> <<d, id>>, image |-> archive[i].image]
      <4>1. CASE first.place = <<d, id>>
        <5> HIDE DEF first
        <5>1. PICK e \in Ids, j \in DOMAIN archive :
                Kind(j, "screen") /\ first.place = <<e, archive[j].id>> /\ first.image = archive[j].image
          BY <1>3, PictureIs
        <5>2. first.place = <<e, archive[j].id>> /\ first.image = archive[j].image
          BY <5>1
        <5>3. archive[j].id = id
          BY <4>1, <5>2
        <5>4. j = i
          BY <2>2, <5>1, <5>3, ArchiveIs DEF ImportInv, Kind
        <5> QED BY <1>5, <4>1, <5>2, <5>4
      <4>2. CASE first.place # <<d, id>> /\ <<d, id>> \in DOMAIN image /\ image[<<d, id>>] = archive[i].image
        BY <1>5, <4>2
      <4>3. CASE first.place # <<d, id>> /\ \E k \in DOMAIN run.pending : run.pending[k] = [place |-> <<d, id>>, image |-> archive[i].image]
        <5>1. PICK k \in DOMAIN run.pending : run.pending[k] = [place |-> <<d, id>>, image |-> archive[i].image]
          BY <4>3
        <5>2. k # 1
          <6> HIDE DEF first
          <6>1. run.pending[k].place = <<d, id>>
            BY <5>1
          <6> QED BY <1>3, <4>3, <6>1
        <5>3. k - 1 \in DOMAIN Tail(run.pending) /\ Tail(run.pending)[k - 1] = run.pending[k]
          BY <1>3, <5>2
        <5> QED BY <5>1, <5>3
      <4> QED BY <2>2, <4>1, <4>2, <4>3 DEF ImageDone
    <3> QED BY <1>1, <1>4, <3>1, <3>2, <3>3 DEF ImageDone, Names
  <2> QED BY <1>1, <1>2, <1>4, <2>1, <2>2 DEF AfterInv, Kind
<1> QED BY <1>1, <1>4, <1>6, <1>7, <1>8 DEF ImportInv, Import!InTransaction

\* What the import has read and written stays as it is under the others' steps.
LEMMA ReadIsLeft ==
  ASSUME UNCHANGED <<archive, run>>, TransactionInv
  PROVE  ScreenRows(run.wrote.screen)' /\ PendingOfWritten' /\ ReadIsDone'
<1>1. ScreenRows(run.wrote.screen)' /\ PendingOfWritten'
  BY DEF TransactionInv, ScreenRows, PendingOfWritten
<1>2. \A i : /\ Kind(i, "device") <=> Kind(i, "device")'
             /\ Kind(i, "plugin") <=> Kind(i, "plugin")'
             /\ Kind(i, "screen") <=> Kind(i, "screen")'
  BY DEF Kind
<1>3. \A i : DeviceDone(i) <=> DeviceDone(i)'
  BY DEF DeviceDone, Import!Resolved
<1>4. \A i : ScreenDone(i) <=> ScreenDone(i)'
  BY DEF ScreenDone, Names, Kind
<1>5. ReadIsDone'
  BY <1>2, <1>3, <1>4 DEF TransactionInv, ReadIsDone
<1> QED BY <1>1, <1>5

\* Nobody else's step that leaves the Devices as they are
LEMMA TransactionIsLeft ==
  ASSUME RunTyped, Import!InTransaction => TransactionInv, UNCHANGED <<archive, run>>, db'.device = db.device
  PROVE  RunTyped' /\ (Import!InTransaction => TransactionInv)'
<1>1. RunTyped'
  BY DEF RunTyped, Pictures, Kind
<1>2. ASSUME Import!InTransaction PROVE TransactionInv'
  <2>1. TransactionInv
    BY <1>2
  <2>2. SeenDevice' = SeenDevice
    BY DEF SeenDevice
  <2>3. OwnDevices' /\ RemapHolds'
    BY <2>1, <2>2 DEF TransactionInv, OwnDevices, RemapHolds, DeviceRows, Kind
  <2>4. ScreenRows(run.wrote.screen)' /\ PendingOfWritten' /\ ReadIsDone'
    BY <2>1, ReadIsLeft
  <2>5. run.pc = "device" => FoundHolds'
    BY <2>1, <2>2 DEF TransactionInv, FoundHolds, Import!Record, Import!Resolved
  <2> QED BY <2>3, <2>4, <2>5 DEF TransactionInv
<1> QED BY <1>1, <1>2 DEF Import!InTransaction

LEMMA RunIsLeft ==
  ASSUME RunTyped, Import!InTransaction => TransactionInv, run.pc = "images" => AfterInv, UNCHANGED <<archive, run, db, image, gone>>
  PROVE  RunTyped' /\ (Import!InTransaction => TransactionInv)' /\ (run.pc = "images" => AfterInv)'
<1>1. RunTyped' /\ (Import!InTransaction => TransactionInv)'
  BY TransactionIsLeft
<1>2. AfterInv => AfterInv'
  <2>1. \A i : ImageDone(i) <=> ImageDone(i)'
    BY DEF ImageDone, Names, Kind
  <2>2. \A i : /\ Kind(i, "plugin") <=> Kind(i, "plugin")'
               /\ Kind(i, "screen") <=> Kind(i, "screen")'
    BY DEF Kind
  <2> QED BY <2>1, <2>2 DEF AfterInv
<1> QED BY <1>1, <1>2

LEMMA ImageStays ==
  ASSUME NEW i, ImageDone(i), UNCHANGED <<archive, run>>,
         archive[i].id \in DOMAIN db'.screen, db'.screen[archive[i].id].device = db.screen[archive[i].id].device,
         \A d \in DOMAIN db.device : d \in DOMAIN db'.device /\ db'.device[d].mac = db.device[d].mac,
         \A d : <<d, archive[i].id>> \in DOMAIN image =>
           <<d, archive[i].id>> \in DOMAIN image' /\ image'[<<d, archive[i].id>>] = image[<<d, archive[i].id>>]
  PROVE  ImageDone(i)'
<1> DEFINE id == archive[i].id
           d == db.screen[id].device
<1>1. /\ id \in DOMAIN db.screen /\ d \in Ids /\ Names(d, i, db.device)
      /\ \/ <<d, id>> \in DOMAIN image /\ image[<<d, id>>] = archive[i].image
         \/ \E k \in DOMAIN run.pending : run.pending[k] = [place |-> <<d, id>>, image |-> archive[i].image]
  BY DEF ImageDone
<1>2. Names(d, i, db.device)'
  <2>1. PICK j \in DOMAIN archive : /\ Kind(j, "device") /\ archive[j].id = archive[i].device
                                    /\ d \in DOMAIN db.device /\ db.device[d].mac = archive[j].mac
    BY <1>1 DEF Names
  <2>2. d' = d /\ d \in DOMAIN db'.device /\ db'.device[d].mac = archive[j].mac
    BY <2>1
  <2> HIDE DEF d
  <2> QED BY <2>1, <2>2 DEF Names, Kind
<1>3. \/ <<d, id>> \in DOMAIN image' /\ image'[<<d, id>>] = archive[i].image
      \/ \E k \in DOMAIN run.pending : run.pending[k] = [place |-> <<d, id>>, image |-> archive[i].image]
  BY <1>1
<1>4. d' = d /\ id' = id /\ db'.screen[id].device = d
  OBVIOUS
<1> QED BY <1>1, <1>2, <1>3, <1>4 DEF ImageDone

\* The import or check under way does not see who registers as a Device it knows.
LEMMA SetUpKnownKeeps ==
  ASSUME Import!ConfigurationImportAssumptions, ImportInv, NEW d, Import!SetUpKnown(d)
  PROVE  ImportInv'
<1>1. /\ d \in DOMAIN db.device /\ hardware' = Import!Over(hardware, Import!Entry(db.device[d].mac, db.device[d].key))
      /\ UNCHANGED <<archive, db, image, run, minted, gone>>
  BY DEF Import!SetUpKnown
<1>2. KnownHardware'
  <2>1. /\ DOMAIN hardware' = DOMAIN hardware \cup {db.device[d].mac} /\ hardware'[db.device[d].mac] = db.device[d].key
        /\ \A m \in DOMAIN hardware : m # db.device[d].mac => hardware'[m] = hardware[m]
    BY <1>1 DEF Import!Over, Import!Entry
  <2>2. db.device[d] = [mac |-> db.device[d].mac, key |-> db.device[d].key]
    BY <1>1 DEF ImportInv, RowsInv, DeviceRows
  <2> QED BY <1>1, <2>1, <2>2 DEF ImportInv, RowsInv, KnownHardware
<1>3. RowsInv'
  BY <1>1, <1>2 DEF ImportInv, RowsInv, DeviceRows, ScreenRows, Kind
<1>4. RunTyped' /\ (Import!InTransaction => TransactionInv)' /\ (run.pc = "images" => AfterInv)'
  BY <1>1, RunIsLeft DEF ImportInv
<1> QED BY <1>1, <1>3, <1>4 DEF ImportInv

LEMMA SetUpLookKeeps ==
  ASSUME Import!ConfigurationImportAssumptions, ImportInv, NEW mac, Import!SetUpLook(mac)
  PROVE  ImportInv'
<1>1. UNCHANGED <<archive, db, image, run, minted, gone, hardware>>
  BY DEF Import!SetUpLook
<1>2. RunTyped' /\ (Import!InTransaction => TransactionInv)' /\ (run.pc = "images" => AfterInv)'
  BY <1>1, RunIsLeft DEF ImportInv
<1> QED BY <1>1, <1>2, RowsAreLeft DEF ImportInv

LEMMA SetUpSaveKeeps ==
  ASSUME Import!ConfigurationImportAssumptions, ImportInv, NEW mac, NEW d, Import!SetUpSave(mac, d)
  PROVE  ImportInv'
<1>1. UNCHANGED <<archive, image, run, gone>> /\ \A e \in Import!Locked("device") : run.wrote.device[e].mac # mac
  BY DEF Import!SetUpSave
<1>2. /\ RunTyped /\ RowsInv /\ RowsTyped(db) /\ DeviceRows(db.device) /\ minted \in 0..MaxKeys
      /\ MaxKeys \in Nat /\ archive \in Archives
  BY DEF ImportInv, RowsInv, Import!ConfigurationImportAssumptions
<1>3. CASE UNCHANGED <<db, minted, hardware>>
  <2>1. RunTyped' /\ (Import!InTransaction => TransactionInv)' /\ (run.pc = "images" => AfterInv)'
    BY <1>1, <1>3, RunIsLeft DEF ImportInv
  <2> QED BY <1>1, <1>2, <1>3, <2>1, RowsAreLeft DEF ImportInv
<1>4. CASE ~UNCHANGED <<db, minted, hardware>>
  <2> DEFINE line == [mac |-> mac, key |-> Import!NewKey]
             devices == Import!Over(db.device, Import!Entry(d, line))
  <2>1. /\ \A e \in DOMAIN db.device : db.device[e].mac # mac
        /\ minted < MaxKeys /\ minted' = minted + 1
        /\ d \notin DOMAIN db.device /\ \A i \in DOMAIN archive : archive[i].id # d
        /\ db' = [db EXCEPT !.device = devices]
        /\ hardware' = Import!Over(hardware, Import!Entry(mac, Import!NewKey))
    BY <1>2, <1>4 DEF Import!SetUpSave
  <2>2. /\ DOMAIN devices = DOMAIN db.device \cup {d} /\ devices[d] = line
        /\ \A e \in DOMAIN db.device : devices[e] = db.device[e]
    <3> HIDE DEF line
    <3> QED BY <2>1 DEF Import!Over, Import!Entry
  <2>3. RowsTyped(db') /\ db'.device = devices /\ db'.screen = db.screen
    <3> HIDE DEF devices
    <3> QED BY <1>2, <2>1 DEF RowsTyped
  <2>4. Import!NewKey # Rest /\ minted' \in 0..MaxKeys
    <3>1. minted + 1 \in 1..MaxKeys
      BY <1>2, <2>1
    <3> QED BY <2>1, <3>1 DEF Import!NewKey, Import!ConfigurationImportAssumptions
  <2>5. line.mac = mac /\ line.key = Import!NewKey /\ line = [mac |-> line.mac, key |-> line.key]
    OBVIOUS
  <2> HIDE DEF devices, line
  <2>6. RowsInv'
    <3>1. DeviceRows(db.device)'
      <4>1. \A e \in DOMAIN devices : devices[e] = [mac |-> devices[e].mac, key |-> devices[e].key] /\ devices[e].key # Rest
        BY <1>2, <2>2, <2>4, <2>5 DEF DeviceRows
      <4>2. \A e, f \in DOMAIN devices : devices[e].mac = devices[f].mac => e = f
        BY <1>2, <2>1, <2>2, <2>5 DEF DeviceRows
      <4>3. \A i \in DOMAIN archive : Kind(i, "device") /\ archive[i].id \in DOMAIN devices => devices[archive[i].id].mac = archive[i].mac
        BY <1>2, <2>1, <2>2 DEF DeviceRows
      <4> QED BY <1>1, <2>3, <4>1, <4>2, <4>3 DEF DeviceRows, Kind
    <3>2. KnownHardware'
      <4>1. /\ DOMAIN hardware' = DOMAIN hardware \cup {mac} /\ hardware'[mac] = Import!NewKey
            /\ \A m \in DOMAIN hardware : m # mac => hardware'[m] = hardware[m]
        BY <2>1 DEF Import!Over, Import!Entry
      <4>2. ASSUME NEW m \in DOMAIN hardware' PROVE \E e \in DOMAIN devices : devices[e] = [mac |-> m, key |-> hardware'[m]]
        <5>1. CASE m = mac
          BY <2>2, <2>5, <4>1, <5>1
        <5>2. CASE m # mac
          <6>1. PICK e \in DOMAIN db.device : db.device[e] = [mac |-> m, key |-> hardware[m]]
            BY <1>2, <4>1, <4>2, <5>2 DEF RowsInv, KnownHardware
          <6> QED BY <2>2, <4>1, <4>2, <5>2, <6>1
        <5> QED BY <5>1, <5>2
      <4> QED BY <2>3, <4>2 DEF KnownHardware
    <3> QED BY <1>1, <1>2, <2>3, <3>1, <3>2 DEF RowsInv, ScreenRows
  <2>7. RunTyped'
    BY <1>1, <1>2 DEF RunTyped, Pictures, Kind
  <2>8. ASSUME Import!InTransaction PROVE TransactionInv'
    <3>1. TransactionInv /\ \A e \in DOMAIN run.wrote.device : run.wrote.device[e].mac # mac
      BY <1>1, <2>8 DEF ImportInv, Import!Locked
    <3>2. d \notin DOMAIN run.wrote.device
      BY <2>1, <3>1 DEF TransactionInv, OwnDevices
    <3>3. /\ DOMAIN SeenDevice = DOMAIN db.device \cup DOMAIN run.wrote.device
          /\ \A e \in DOMAIN SeenDevice :
               SeenDevice[e] = IF e \in DOMAIN run.wrote.device THEN run.wrote.device[e] ELSE db.device[e]
      BY <1>2, SeenDeviceIs
    <3>4. /\ DOMAIN SeenDevice' = DOMAIN SeenDevice \cup {d} /\ SeenDevice'[d] = line /\ d \notin DOMAIN SeenDevice
          /\ \A e \in DOMAIN SeenDevice : SeenDevice'[e] = SeenDevice[e]
      <4>1. /\ DOMAIN SeenDevice' = DOMAIN devices \cup DOMAIN run.wrote.device
            /\ \A e \in DOMAIN SeenDevice' :
                 SeenDevice'[e] = IF e \in DOMAIN run.wrote.device THEN run.wrote.device[e] ELSE devices[e]
        BY <1>1, <2>3 DEF SeenDevice, Import!Over
      <4> QED BY <2>1, <2>2, <3>2, <3>3, <4>1
    <3>5. \A e \in DOMAIN SeenDevice : SeenDevice[e].mac # mac
      BY <2>1, <3>1, <3>3
    <3>6. DeviceRows(SeenDevice)'
      <4>1. DeviceRows(SeenDevice)
        BY <3>1 DEF TransactionInv, OwnDevices
      <4> QED BY <1>1, <2>1, <2>4, <2>5, <3>4, <3>5, <4>1 DEF DeviceRows, Kind
    <3>7. OwnDevices'
      <4>1. \A e \in DOMAIN run.wrote.device \cap DOMAIN devices : run.wrote.device[e] = devices[e]
        BY <2>2, <3>1, <3>2 DEF TransactionInv, OwnDevices
      <4>2. \A e \in DOMAIN run.wrote.device : e \in Ids /\ (e \in DOMAIN devices \/ \E i \in DOMAIN archive : archive[i].id = e)
        BY <2>2, <3>1 DEF TransactionInv, OwnDevices
      <4> QED BY <1>1, <2>3, <3>6, <4>1, <4>2 DEF OwnDevices
    <3>8. RemapHolds'
      <4> SUFFICES ASSUME NEW id \in DOMAIN run.remap
                   PROVE  /\ id \notin DOMAIN SeenDevice' /\ run.remap[id] \in DOMAIN SeenDevice' \cap Ids
                          /\ \E i \in DOMAIN archive : Kind(i, "device") /\ archive[i].id = id /\ SeenDevice'[run.remap[id]].mac = archive[i].mac
        BY <1>1 DEF RemapHolds, Kind
      <4>1. /\ id \notin DOMAIN SeenDevice /\ run.remap[id] \in DOMAIN SeenDevice \cap Ids
            /\ \E i \in DOMAIN archive : Kind(i, "device") /\ archive[i].id = id /\ SeenDevice[run.remap[id]].mac = archive[i].mac
        BY <3>1 DEF TransactionInv, RemapHolds
      <4> QED BY <2>1, <3>4, <4>1
    <3>9. ScreenRows(run.wrote.screen)' /\ PendingOfWritten' /\ ReadIsDone'
      BY <1>1, <3>1, ReadIsLeft
    <3>10. ASSUME run.pc = "device" PROVE FoundHolds'
      <4>1. FoundHolds /\ run.at \in 1..Len(archive) /\ Import!Record = archive[run.at]
        BY <1>2, <3>1, <3>10, ArchiveIs DEF ImportInv, TransactionInv, FoundHolds, RunTyped, Import!Record
      <4>2. Import!Record.id # d
        BY <2>1, <4>1, ArchiveIs DEF ImportInv
      <4>3. Import!Record' = Import!Record /\ Import!Resolved(Import!Record.id)' = Import!Resolved(Import!Record.id)
        BY <1>1 DEF Import!Record, Import!Resolved
      <4> QED BY <1>1, <3>4, <4>1, <4>2, <4>3 DEF FoundHolds
    <3> QED BY <1>1, <3>7, <3>8, <3>9, <3>10 DEF TransactionInv
  <2>9. ASSUME run.pc = "images" PROVE AfterInv'
    <3>1. AfterInv
      BY <2>9 DEF ImportInv
    <3>2. ASSUME NEW i \in DOMAIN archive, ImageDone(i) PROVE ImageDone(i)'
      <4>1. archive[i].id \in DOMAIN db.screen
        BY <3>2 DEF ImageDone
      <4>2. /\ \A e \in DOMAIN db.device : e \in DOMAIN db'.device /\ db'.device[e].mac = db.device[e].mac
            /\ db'.screen = db.screen
        BY <2>2, <2>3
      <4> QED BY <1>1, <3>2, <4>1, <4>2, ImageStays
    <3> QED BY <1>1, <2>3, <3>1, <3>2 DEF AfterInv, Kind
  <2> QED BY <1>1, <1>2, <2>4, <2>6, <2>7, <2>8, <2>9 DEF ImportInv, Import!InTransaction
<1> QED BY <1>3, <1>4

LEMMA AddScreenKeeps ==
  ASSUME Import!ConfigurationImportAssumptions, ImportInv, NEW d, NEW s, Import!AddScreen(d, s)
  PROVE  ImportInv'
<1> DEFINE line == [device |-> d, order |-> Import!Cardinality(Import!ScreensOf(d)) + 1]
           screen == Import!Over(db.screen, Import!Entry(s, line))
<1>1. /\ UNCHANGED <<archive, run, minted, hardware, gone>>
      /\ s \notin DOMAIN db.screen /\ \A i \in DOMAIN archive : archive[i].id # s
      /\ db' = [db EXCEPT !.screen = screen]
      /\ image' = Import!Over(image, Import!Entry(<<d, s>>, <<"here", s>>))
  BY DEF Import!AddScreen, Import!others, ImportInv
<1>2. /\ RowsInv /\ RowsTyped(db)
  BY DEF ImportInv, RowsInv
<1>3. /\ DOMAIN screen = DOMAIN db.screen \cup {s} /\ screen[s] = line
      /\ \A t \in DOMAIN db.screen : screen[t] = db.screen[t]
  <2> HIDE DEF line
  <2> QED BY <1>1 DEF Import!Over, Import!Entry
<1>4. RowsTyped(db') /\ db'.device = db.device /\ db'.screen = screen
  <2> HIDE DEF screen
  <2> QED BY <1>1, <1>2 DEF RowsTyped
<1>5. DOMAIN image' = DOMAIN image \cup {<<d, s>>} /\ \A place \in DOMAIN image : place # <<d, s>> => image'[place] = image[place]
  BY <1>1 DEF Import!Over, Import!Entry
<1>6. line = [device |-> line.device, order |-> line.order]
  OBVIOUS
<1> HIDE DEF screen, line
<1>7. RowsInv'
  <2>1. DeviceRows(db.device)' /\ KnownHardware'
    BY <1>1, <1>2, <1>4 DEF RowsInv, DeviceRows, KnownHardware, Kind
  <2>2. ScreenRows(db.screen)'
    BY <1>2, <1>3, <1>4, <1>6 DEF RowsInv, ScreenRows
  <2>3. \A place \in DOMAIN image' : place[2] \in gone \cup DOMAIN screen
    <3>1. <<d, s>>[2] = s
      OBVIOUS
    <3> QED BY <1>2, <1>3, <1>5, <3>1 DEF RowsInv
  <2> QED BY <1>1, <1>4, <2>1, <2>2, <2>3 DEF RowsInv
<1>8. RunTyped' /\ (Import!InTransaction => TransactionInv)'
  BY <1>1, <1>4, TransactionIsLeft DEF ImportInv
<1>9. ASSUME run.pc = "images" PROVE AfterInv'
  <2>1. AfterInv
    BY <1>9 DEF ImportInv
  <2>2. ASSUME NEW i \in DOMAIN archive, ImageDone(i) PROVE ImageDone(i)'
    <3>1. archive[i].id # s
      BY <1>1
    <3>2. \A e : <<e, archive[i].id>> # <<d, s>>
      BY <3>1
    <3>3. archive[i].id \in DOMAIN db.screen
      BY <2>2 DEF ImageDone
    <3>4. /\ archive[i].id \in DOMAIN db'.screen /\ db'.screen[archive[i].id].device = db.screen[archive[i].id].device
          /\ db'.device = db.device
          /\ \A e : <<e, archive[i].id>> \in DOMAIN image =>
               <<e, archive[i].id>> \in DOMAIN image' /\ image'[<<e, archive[i].id>>] = image[<<e, archive[i].id>>]
      BY <1>3, <1>4, <1>5, <3>2, <3>3
    <3> QED BY <1>1, <2>2, <3>4, ImageStays
  <2> QED BY <1>1, <1>3, <1>4, <2>1, <2>2 DEF AfterInv, Kind
<1> QED BY <1>1, <1>7, <1>8, <1>9 DEF ImportInv

LEMMA DeleteScreenKeeps ==
  ASSUME Import!ConfigurationImportAssumptions, ImportInv, NEW s, Import!DeleteScreen(s)
  PROVE  ImportInv'
<1> DEFINE was == db.screen[s]
           closed(t) == IF db.screen[t].device = was.device /\ db.screen[t].order > was.order
                        THEN [db.screen[t] EXCEPT !.order = @ - 1] ELSE db.screen[t]
           screen == [t \in DOMAIN db.screen \ {s} |-> closed(t)]
<1>1. /\ UNCHANGED <<archive, run, minted, hardware>>
      /\ s \in DOMAIN db.screen
      /\ db' = [db EXCEPT !.screen = screen]
      /\ image' = Import!Restrict(image, DOMAIN image \ {<<was.device, s>>})
      /\ gone' = gone \cup {s}
  BY DEF Import!DeleteScreen
<1>2. /\ RowsInv /\ RowsTyped(db) /\ ScreenRows(db.screen)
  BY DEF ImportInv, RowsInv
<1>3. /\ DOMAIN screen = DOMAIN db.screen \ {s}
      /\ \A t \in DOMAIN screen : screen[t].device = db.screen[t].device /\ screen[t] = [device |-> screen[t].device, order |-> screen[t].order]
  <2> SUFFICES ASSUME NEW t \in DOMAIN db.screen \ {s}
               PROVE  closed(t).device = db.screen[t].device /\ closed(t) = [device |-> closed(t).device, order |-> closed(t).order]
    OBVIOUS
  <2> DEFINE before == db.screen[t]
  <2>1. before = [device |-> before.device, order |-> before.order]
    BY <1>2 DEF ScreenRows
  <2>2. closed(t) = before \/ closed(t) = [before EXCEPT !.order = before.order - 1]
    BY <2>1
  <2> HIDE DEF before
  <2>3. CASE closed(t) = [before EXCEPT !.order = before.order - 1]
    <3>1. [before EXCEPT !.order = before.order - 1] = [device |-> before.device, order |-> before.order - 1]
      BY <2>1
    <3>2. closed(t) = [device |-> before.device, order |-> before.order - 1]
      BY <2>3, <3>1
    <3> QED BY <3>2 DEF before
  <2> QED BY <2>1, <2>2, <2>3 DEF before
<1>4. RowsTyped(db') /\ db'.device = db.device /\ db'.screen = screen
  <2> HIDE DEF screen
  <2> QED BY <1>1, <1>2 DEF RowsTyped
<1> HIDE DEF screen
<1>5. DOMAIN image' = DOMAIN image \ {<<was.device, s>>} /\ \A place \in DOMAIN image' : image'[place] = image[place]
  BY <1>1 DEF Import!Restrict
<1> HIDE DEF was
<1>6. RowsInv'
  <2>1. DeviceRows(db.device)' /\ KnownHardware'
    BY <1>1, <1>2, <1>4 DEF RowsInv, DeviceRows, KnownHardware, Kind
  <2>2. ScreenRows(db.screen)'
    BY <1>3, <1>4 DEF ScreenRows
  <2>3. \A place \in DOMAIN image' : place[2] \in gone' \cup DOMAIN screen
    BY <1>1, <1>2, <1>3, <1>5 DEF RowsInv
  <2> QED BY <1>4, <2>1, <2>2, <2>3 DEF RowsInv
<1>7. RunTyped' /\ (Import!InTransaction => TransactionInv)'
  BY <1>1, <1>4, TransactionIsLeft DEF ImportInv
<1>8. ASSUME run.pc = "images" PROVE AfterInv'
  <2>1. AfterInv
    BY <1>8 DEF ImportInv
  <2>2. ASSUME NEW i \in DOMAIN archive, archive[i].id # s, ImageDone(i) PROVE ImageDone(i)'
    <3>1. \A e : <<e, archive[i].id>> # <<was.device, s>>
      BY <2>2
    <3>3. archive[i].id \in DOMAIN db.screen
      BY <2>2 DEF ImageDone
    <3>4. /\ archive[i].id \in DOMAIN db'.screen /\ db'.screen[archive[i].id].device = db.screen[archive[i].id].device
          /\ db'.device = db.device
          /\ \A e : <<e, archive[i].id>> \in DOMAIN image =>
               <<e, archive[i].id>> \in DOMAIN image' /\ image'[<<e, archive[i].id>>] = image[<<e, archive[i].id>>]
      BY <1>3, <1>4, <1>5, <2>2, <3>1, <3>3
    <3> QED BY <1>1, <2>2, <3>4, ImageStays
  <2> QED BY <1>1, <1>3, <1>4, <2>1, <2>2 DEF AfterInv, Kind
<1> QED BY <1>1, <1>6, <1>7, <1>8 DEF ImportInv

LEMMA ImportSteps ==
  ASSUME Import!ConfigurationImportAssumptions, ImportInv, [Import!Next]_(Import!vars)
  PROVE  ImportInv'
<1>1. CASE UNCHANGED Import!vars
  <2>1. UNCHANGED <<archive, db, image, run, minted, gone, hardware>>
    BY <1>1 DEF Import!vars
  <2>2. RunTyped' /\ (Import!InTransaction => TransactionInv)' /\ (run.pc = "images" => AfterInv)'
    BY <2>1, RunIsLeft DEF ImportInv
  <2> QED BY <2>1, <2>2, RowsAreLeft DEF ImportInv
<1>2. CASE Import!RunStep
  BY <1>2, Begins, UniqueKeeps, FindKeeps, SaveKeeps, ScreenKeeps, ReplaceKeeps, CommitKeeps, WriteKeeps, EndsKeep DEF Import!RunStep
<1>3. CASE Import!OtherStep
  BY <1>3, SetUpKnownKeeps, SetUpLookKeeps, SetUpSaveKeeps, AddScreenKeeps, DeleteScreenKeeps DEF Import!OtherStep
<1> QED BY <1>1, <1>2, <1>3 DEF Import!Next

LEMMA ImportBegins ==
  ASSUME Import!ConfigurationImportAssumptions, Import!Init
  PROVE  ImportInv
<1>1. archive \in Archives /\ db \in Instances /\ run = Import!IdleRun /\ minted = 0 /\ MaxKeys \in Nat
  BY DEF Import!Init, Import!ConfigurationImportAssumptions
<1>2. Import!IsInstance(db) /\ Import!SameDevices(db, archive)
  BY <1>1 DEF Import!ConfigurationImportAssumptions
<1>3. Len(archive) \in Nat
  BY <1>1, ArchiveIs
<1>4. RunTyped
  BY <1>1, <1>3 DEF RunTyped, RowsTyped, Import!IdleRun, Import!NoRows
<1>5. RowsInv
  <2>1. RowsTyped(db) /\ DeviceRows(db.device) /\ ScreenRows(db.screen)
    BY <1>2 DEF Import!IsInstance, Import!SameDevices, RowsTyped, DeviceRows, ScreenRows, Kind
  <2>2. KnownHardware
    <3> SUFFICES ASSUME NEW m \in DOMAIN hardware PROVE \E d \in DOMAIN db.device : db.device[d] = [mac |-> m, key |-> hardware[m]]
      BY DEF KnownHardware
    <3> DEFINE d == CHOOSE e \in DOMAIN db.device : db.device[e].mac = m
    <3>1. (\E e \in DOMAIN db.device : db.device[e].mac = m) /\ hardware[m] = db.device[d].key
      BY DEF Import!Init
    <3>2. d \in DOMAIN db.device /\ db.device[d].mac = m
      BY <3>1
    <3> HIDE DEF d
    <3> QED BY <2>1, <3>1, <3>2 DEF DeviceRows
  <2>3. \A place \in DOMAIN image : place[2] \in DOMAIN db.screen
    <3>1. DOMAIN image = {<<db.screen[s].device, s>> : s \in DOMAIN db.screen}
      BY DEF Import!Init
    <3> QED BY <3>1
  <2> QED BY <2>1, <2>2, <2>3 DEF RowsInv
<1> QED BY <1>1, <1>4, <1>5 DEF ImportInv, Import!InTransaction, Import!IdleRun

LEMMA ImportImplies ==
  ASSUME ImportInv
  PROVE  Import!HardwareStaysKnown /\ Import!ImagesHaveScreens
<1>1. Import!HardwareStaysKnown
  <2> SUFFICES ASSUME NEW m \in DOMAIN hardware
               PROVE  \E d \in DOMAIN db.device : db.device[d] = [mac |-> m, key |-> hardware[m]]
                        /\ \A e \in DOMAIN db.device : db.device[e].mac = m => e = d
    BY DEF Import!HardwareStaysKnown
  <2>1. PICK d \in DOMAIN db.device : db.device[d] = [mac |-> m, key |-> hardware[m]]
    BY DEF ImportInv, RowsInv, KnownHardware
  <2>2. db.device[d].mac = m
    BY <2>1
  <2> QED BY <2>1, <2>2 DEF ImportInv, RowsInv, DeviceRows
<1> QED BY <1>1 DEF ImportInv, RowsInv, Import!ImagesHaveScreens

\* The one way an import under way comes to its end without a fault
LEMMA ImportRestores ==
  ASSUME Import!ConfigurationImportAssumptions, ImportInv, faults \in Nat, Import!Next
  PROVE  Import!Restores
<1> SUFFICES ASSUME run.pc = "images", run.pending = <<>>, run'.pc = "idle", faults' = faults PROVE Import!Restores
  BY DEF Import!Restores
<1>1. job' = job \cup run.upserted
  <2>1. run' # run /\ faults' # faults + 1
    OBVIOUS
  <2>2. ~Import!OtherStep
    BY <2>1 DEF Import!OtherStep, Import!SetUpKnown, Import!AddScreen, Import!SetUpLook, Import!SetUpSave, Import!DeleteScreen
  <2>3. Import!Schedule
    BY <2>1, <2>2 DEF Import!Next, Import!RunStep, Import!Begin, Import!UpsertUnique, Import!At, Import!FindDevice, Import!SaveDevice, Import!UpsertScreen, Import!ReplaceSettings,
      Import!RollBackCheck, Import!AllRead, Import!Commit, Import!CommitRefused, Import!WriteImage, Import!WriteFails, Import!Crash
  <2> QED BY <2>3 DEF Import!Schedule
<1>2. AfterInv
  BY DEF ImportInv
<1> SUFFICES ASSUME NEW i \in DOMAIN archive
             PROVE  /\ archive[i].kind = "screen" /\ archive[i].id \notin gone =>
                         \E d \in Ids : /\ db.screen[archive[i].id].device = d
                                        /\ \E j \in DOMAIN archive : archive[j].kind = "device" /\ archive[j].id = archive[i].device /\ archive[j].mac = db.device[d].mac
                                        /\ <<d, archive[i].id>> \in DOMAIN image /\ image[<<d, archive[i].id>>] = archive[i].image
                    /\ archive[i].kind = "plugin" => archive[i].id \in job'
  BY DEF Import!Restores
<1>3. archive[i].kind = "plugin" => archive[i].id \in job'
  BY <1>1, <1>2 DEF AfterInv, Kind
<1>4. ASSUME archive[i].kind = "screen", archive[i].id \notin gone
      PROVE  \E d \in Ids : /\ db.screen[archive[i].id].device = d
                            /\ \E j \in DOMAIN archive : archive[j].kind = "device" /\ archive[j].id = archive[i].device /\ archive[j].mac = db.device[d].mac
                            /\ <<d, archive[i].id>> \in DOMAIN image /\ image[<<d, archive[i].id>>] = archive[i].image
  <2>1. ImageDone(i)
    BY <1>2, <1>4 DEF AfterInv, Kind
  <2>2. DOMAIN run.pending = {}
    OBVIOUS
  <2> QED BY <2>1, <2>2 DEF ImageDone, Names, Kind
<1> QED BY <1>3, <1>4

LEMMA FaultsCount ==
  ASSUME faults \in Nat, Import!Next
  PROVE  faults' \in Nat
<1>1. CASE Import!WriteFails \/ Import!Crash
  BY <1>1 DEF Import!WriteFails, Import!Crash
<1>2. CASE ~(Import!WriteFails \/ Import!Crash)
  <2>1. CASE Import!RunStep
    BY <1>2, <2>1 DEF Import!RunStep, Import!Begin, Import!UpsertUnique, Import!FindDevice, Import!SaveDevice, Import!UpsertScreen, Import!ReplaceSettings, Import!RollBackCheck,
      Import!Commit, Import!CommitRefused, Import!WriteImage, Import!Schedule, Import!others
  <2>2. CASE Import!OtherStep
    BY <2>2 DEF Import!OtherStep, Import!SetUpKnown, Import!SetUpLook, Import!SetUpSave, Import!AddScreen, Import!DeleteScreen, Import!others
  <2> QED BY <2>1, <2>2 DEF Import!Next
<1> QED BY <1>1, <1>2

-----------------------------------------------------------------------------
(* A setting of a Device.                                                  *)

SettingTyped ==
  /\ saved \in Values /\ data \in Values /\ entered \in Values /\ typing \in BOOLEAN
  /\ status \in {"idle", "saving", "saved", "failed"} /\ attempts \in Nat /\ latestRequest \in Nat
  /\ input \in Values \cup {Rest} /\ heldBack \in Values \cup {Rest}
  /\ status \in {"saving", "failed"} => input \in Values
  /\ sent \in BOOLEAN /\ behind \in BOOLEAN

SavesTyped ==
  /\ save = [a \in DOMAIN save |-> save[a]]
  /\ \A a \in DOMAIN save : /\ a \in 1..attempts
                            /\ save[a] \in [sent: Values, pc: {"sent", "taken", "reading"}, request: Nat]
                            /\ save[a].pc = "reading" <=> save[a].request # 0

LoadsTyped ==
  /\ load = [n \in DOMAIN load |-> load[n]]
  /\ \A n \in DOMAIN load : n \in 1..latestRequest /\ load[n] \in [quietly: BOOLEAN, answer: Values \cup {Rest}]

NoneToTake == \A a \in DOMAIN save : save[a].pc # "sent"

\* The newest save is of the last input, and what it saved is on the Device once it is taken.
NewestUnderWay ==
  /\ status = "saving" <=> attempts \in DOMAIN save
  /\ attempts \in DOMAIN save =>
       /\ save[attempts].sent = input
       /\ save[attempts].pc # "sent" => saved = input /\ NoneToTake

\* The last save, if any, was answered.
Done == status \notin {"saving", "failed"} \/ (attempts \in DOMAIN save /\ save[attempts].pc = "reading")

\* The page shows what the Device has, or a read that is to be shown will tell it.
Comes == IF latestRequest \in DOMAIN load THEN load[latestRequest].answer \in {Rest, saved}
         ELSE behind \/ (IF heldBack = Rest THEN data ELSE heldBack) = saved

SettingInv ==
  /\ SettingTyped /\ SavesTyped /\ LoadsTyped
  /\ heldBack # Rest => typing
  /\ NewestUnderWay
  /\ sent /\ status \in {"saving", "failed"} => entered = input
  /\ sent /\ Done => entered = saved /\ Comes /\ NoneToTake

\* A save is sent, or the change is none.
LEMMA Runs ==
  ASSUME Setting!DeviceSettingAssumptions, SettingInv, NEW v \in Values, Setting!Run(v)
  PROVE  /\ attempts' \in Nat /\ status' = "saving" /\ input' = v
         /\ SavesTyped'
         /\ attempts' \in DOMAIN save' /\ save'[attempts'].sent = v /\ save'[attempts'].pc = "sent"
<1>1. attempts + 1 \notin DOMAIN save
  BY DEF SettingInv, SettingTyped, SavesTyped
<1> QED BY <1>1 DEF Setting!Run, SettingInv, SettingTyped, SavesTyped, Setting!With

LEMMA RunsOrNot ==
  ASSUME Setting!DeviceSettingAssumptions, SettingInv, NEW v \in Values, Setting!Commit(v)
  PROVE  /\ attempts' \in Nat /\ status' \in {"idle", "saving", "saved", "failed"} /\ input' \in Values \cup {Rest}
         /\ SavesTyped'
         /\ \/ /\ sent' = TRUE /\ status' = "saving" /\ input' = v
               /\ attempts' \in DOMAIN save' /\ save'[attempts'].sent = v /\ save'[attempts'].pc = "sent"
            \/ /\ sent' = FALSE /\ save' = save /\ input' = input
               /\ status' \in {"saving", "failed"} => input \in Values
               /\ \/ status' = status /\ attempts' = attempts
                  \/ status' = "idle" /\ attempts' \notin DOMAIN save
<1>1. CASE v # data
  BY <1>1, Runs DEF Setting!Commit
<1>2. CASE v = data /\ status = "failed"
  <2>1. /\ sent' = FALSE /\ status' = "idle" /\ attempts' = attempts + 1 /\ input' = input /\ save' = save
    BY <1>2 DEF Setting!Commit
  <2> QED BY <2>1 DEF SettingInv, SettingTyped, SavesTyped
<1>3. CASE v = data /\ status # "failed"
  BY <1>3 DEF Setting!Commit, Setting!saving, SettingInv, SettingTyped, SavesTyped
<1> QED BY <1>1, <1>2, <1>3

LEMMA Chooses ==
  ASSUME Setting!DeviceSettingAssumptions, SettingInv, NEW v \in Values, Setting!Choose(v)
  PROVE  SettingInv'
<1>1. Setting!Commit(v) /\ entered' = v /\ UNCHANGED <<saved, typing, losses, data, load, latestRequest, asking, heldBack, behind>>
  BY DEF Setting!Choose, Setting!reading
<1>2. SettingTyped'
  BY <1>1, RunsOrNot DEF SettingInv, SettingTyped
<1>3. SavesTyped' /\ LoadsTyped' /\ (heldBack' # Rest => typing')
  BY <1>1, RunsOrNot DEF SettingInv, LoadsTyped
<1>4. NewestUnderWay'
  BY <1>1, RunsOrNot DEF SettingInv, NewestUnderWay, NoneToTake
<1>5. (sent /\ status \in {"saving", "failed"} => entered = input)'
  BY <1>1, RunsOrNot
<1>6. (sent /\ Done => entered = saved /\ Comes /\ NoneToTake)'
  BY <1>1, RunsOrNot DEF Done
<1> QED BY <1>2, <1>3, <1>4, <1>5, <1>6 DEF SettingInv

LEMMA Types ==
  ASSUME Setting!DeviceSettingAssumptions, SettingInv, NEW v \in Values, Setting!Type(v)
  PROVE  SettingInv'
BY DEF Setting!Type, Setting!reading, Setting!saving, SettingInv, SettingTyped, SavesTyped, LoadsTyped, NewestUnderWay, NoneToTake

LEMMA Leaves ==
  ASSUME Setting!DeviceSettingAssumptions, SettingInv, Setting!Leave
  PROVE  SettingInv'
<1>1. /\ entered \in Values /\ Setting!Commit(entered) /\ typing' = FALSE /\ UNCHANGED <<saved, losses, load, latestRequest, asking, behind>>
  BY DEF Setting!Leave, SettingInv, SettingTyped
<1>2. /\ heldBack' = Rest /\ data' \in Values /\ entered' \in Values
      /\ status' \in {"saving", "failed"} => entered' = entered
  BY DEF Setting!Leave, SettingInv, SettingTyped
<1>3. SettingTyped'
  BY <1>1, <1>2, RunsOrNot DEF SettingInv, SettingTyped
<1>4. SavesTyped' /\ LoadsTyped' /\ (heldBack' # Rest => typing')
  BY <1>1, <1>2, RunsOrNot DEF SettingInv, LoadsTyped
<1>5. NewestUnderWay'
  BY <1>1, RunsOrNot DEF SettingInv, NewestUnderWay, NoneToTake
<1>6. (sent /\ status \in {"saving", "failed"} => entered = input)'
  BY <1>1, <1>2, RunsOrNot
<1>7. (sent /\ Done => entered = saved /\ Comes /\ NoneToTake)'
  BY <1>1, RunsOrNot DEF Done
<1> QED BY <1>3, <1>4, <1>5, <1>6, <1>7 DEF SettingInv

LEMMA Retries ==
  ASSUME Setting!DeviceSettingAssumptions, SettingInv, Setting!Retry
  PROVE  SettingInv'
<1>1. /\ input \in Values /\ Setting!Run(input) /\ sent' = (input = entered)
      /\ UNCHANGED <<saved, entered, typing, losses, data, load, latestRequest, asking, heldBack, behind>>
  BY DEF Setting!Retry, Setting!reading, SettingInv, SettingTyped
<1>2. SettingTyped'
  BY <1>1, Runs DEF SettingInv, SettingTyped
<1>3. SavesTyped' /\ LoadsTyped' /\ (heldBack' # Rest => typing')
  BY <1>1, Runs DEF SettingInv, LoadsTyped
<1>4. NewestUnderWay'
  BY <1>1, Runs DEF SettingInv, NewestUnderWay, NoneToTake
<1>5. (sent /\ status \in {"saving", "failed"} => entered = input)'
  BY <1>1, Runs
<1>6. (sent /\ Done => entered = saved /\ Comes /\ NoneToTake)'
  BY <1>1, Runs DEF Done
<1> QED BY <1>2, <1>3, <1>4, <1>5, <1>6 DEF SettingInv

LEMMA SavesAreTaken ==
  ASSUME Setting!DeviceSettingAssumptions, SettingInv, NEW a, Setting!TakeSave(a)
  PROVE  SettingInv'
<1>1. /\ a \in DOMAIN save /\ save[a].pc = "sent" /\ \A b \in DOMAIN save : save[b].pc = "sent" => b >= a
      /\ saved' = save[a].sent /\ saved' \in Values
      /\ save' = [save EXCEPT ![a] = [@ EXCEPT !.pc = "taken"]]
      /\ UNCHANGED <<entered, typing, losses, sent, status, attempts, input, data, load, latestRequest, asking, heldBack, behind>>
  BY DEF Setting!TakeSave, Setting!Save, Setting!reading, SettingInv, SavesTyped
<1>2. ~(sent /\ Done)
  BY <1>1 DEF SettingInv, NoneToTake
<1>3. DOMAIN save' = DOMAIN save /\ save' = [b \in DOMAIN save' |-> save'[b]]
  BY <1>1 DEF SettingInv, SavesTyped
<1>4. \A b \in DOMAIN save : save'[b] = IF b = a THEN [save[b] EXCEPT !.pc = "taken"] ELSE save[b]
  BY <1>1 DEF SettingInv, SavesTyped
<1>5. SavesTyped'
  BY <1>1, <1>3, <1>4 DEF SettingInv, SavesTyped
<1>6. NewestUnderWay'
  <2>1. attempts \in DOMAIN save /\ save'[attempts].pc # "sent" => a = attempts
    BY <1>1, <1>4 DEF SettingInv, NewestUnderWay, NoneToTake
  <2>2. a = attempts => NoneToTake'
    BY <1>1, <1>3, <1>4 DEF SettingInv, SavesTyped, NoneToTake
  <2>3. attempts \in DOMAIN save => save'[attempts].sent = save[attempts].sent
    BY <1>4 DEF SettingInv, SavesTyped
  <2> QED BY <1>1, <1>3, <2>1, <2>2, <2>3 DEF SettingInv, NewestUnderWay
<1>7. ~(sent /\ Done)'
  BY <1>1, <1>2, <1>3, <1>4 DEF Done, SettingInv, SavesTyped
<1>8. SettingTyped' /\ LoadsTyped'
  BY <1>1 DEF SettingInv, SettingTyped, LoadsTyped
<1> QED BY <1>1, <1>5, <1>6, <1>7, <1>8 DEF SettingInv

\* A save is over: of the newest the status tells.
LEMMA SaveEnds ==
  ASSUME Setting!DeviceSettingAssumptions, SettingInv, NEW a \in DOMAIN save, NEW as \in {"saved", "failed"}, Setting!Ended(a, as),
         saved' = saved
  PROVE  /\ UNCHANGED <<attempts, input>>
         /\ status' \in {"idle", "saving", "saved", "failed"} /\ (status' \in {"saving", "failed"} => input \in Values)
         /\ SavesTyped' /\ NewestUnderWay'
         /\ NoneToTake => NoneToTake'
         /\ status' = IF a = attempts THEN as ELSE status
         /\ attempts \in DOMAIN save' => a # attempts /\ save'[attempts] = save[attempts]
<1>1. /\ DOMAIN save' = DOMAIN save \ {a} /\ save' = [b \in DOMAIN save' |-> save'[b]]
      /\ \A b \in DOMAIN save' : save'[b] = save[b]
      /\ status' = IF a = attempts THEN as ELSE status
      /\ UNCHANGED <<attempts, input>>
  BY DEF Setting!Ended, Setting!isNewest, Setting!Without
<1>2. a = attempts => status = "saving"
  BY DEF SettingInv, NewestUnderWay
<1>3. NoneToTake => NoneToTake'
  BY <1>1 DEF NoneToTake
<1>4. SavesTyped'
  BY <1>1 DEF SettingInv, SavesTyped
<1>5. NewestUnderWay'
  BY <1>1, <1>2, <1>3 DEF SettingInv, NewestUnderWay
<1> QED BY <1>1, <1>2, <1>3, <1>4, <1>5 DEF SettingInv, SettingTyped

LEMMA SavesAreLost ==
  ASSUME Setting!DeviceSettingAssumptions, SettingInv, NEW a, Setting!LoseSave(a)
  PROVE  SettingInv'
<1>1. /\ a \in DOMAIN save /\ save[a].pc # "reading" /\ Setting!Ended(a, "failed")
      /\ UNCHANGED <<saved, entered, typing, sent, data, load, latestRequest, asking, heldBack, behind>>
  BY DEF Setting!LoseSave, Setting!Save, Setting!reading
<1>2. SettingTyped'
  BY <1>1, SaveEnds DEF SettingInv, SettingTyped
<1>3. LoadsTyped' /\ (heldBack' # Rest => typing')
  BY <1>1 DEF SettingInv, LoadsTyped
<1>4. (sent /\ status \in {"saving", "failed"} => entered = input)'
  BY <1>1, SaveEnds DEF SettingInv, NewestUnderWay
<1>5. Done' => Done
  <2>1. /\ attempts' = attempts /\ status' = IF a = attempts THEN "failed" ELSE status
        /\ attempts \in DOMAIN save' => a # attempts /\ save'[attempts] = save[attempts]
    BY <1>1, SaveEnds
  <2>2. attempts \in DOMAIN save' => attempts \in DOMAIN save
    BY <1>1 DEF Setting!Ended, Setting!Without
  <2> QED BY <2>1, <2>2 DEF Done
<1>6. Comes' = Comes
  BY <1>1 DEF Comes
<1>7. (sent /\ Done => entered = saved /\ Comes /\ NoneToTake)'
  BY <1>1, <1>5, <1>6, SaveEnds DEF SettingInv
<1> QED BY <1>1, <1>2, <1>3, <1>4, <1>7, SaveEnds DEF SettingInv

\* The Device is read anew.
LEMMA Asks ==
  ASSUME Setting!DeviceSettingAssumptions, SettingInv, NEW quietly \in BOOLEAN, Setting!Ask(quietly)
  PROVE  /\ latestRequest' = latestRequest + 1 /\ LoadsTyped'
         /\ UNCHANGED <<data, heldBack, behind>>
         /\ Comes'
<1>1. /\ latestRequest' \in Nat /\ latestRequest' = latestRequest + 1
      /\ DOMAIN load' = DOMAIN load \cup {latestRequest'} /\ load' = [n \in DOMAIN load' |-> load'[n]]
      /\ \A n \in DOMAIN load' : load'[n] = IF n = latestRequest' THEN [quietly |-> quietly, answer |-> Rest] ELSE load[n]
  BY DEF Setting!Ask, Setting!With, SettingInv, SettingTyped
<1>2. LoadsTyped'
  BY <1>1 DEF SettingInv, SettingTyped, LoadsTyped
<1>3. Comes'
  BY <1>1 DEF Comes
<1> QED BY <1>1, <1>2, <1>3 DEF Setting!Ask

LEMMA SavesAreAnswered ==
  ASSUME Setting!DeviceSettingAssumptions, SettingInv, NEW a, Setting!SaveAnswered(a)
  PROVE  SettingInv'
<1>1. /\ a \in DOMAIN save /\ save[a].pc = "taken" /\ Setting!Ask(FALSE)
      /\ save' = [save EXCEPT ![a] = [@ EXCEPT !.pc = "reading", !.request = latestRequest']]
      /\ UNCHANGED <<saved, entered, typing, losses, sent, status, attempts, input>>
  BY DEF Setting!SaveAnswered, Setting!Save
<1>2. /\ latestRequest' = latestRequest + 1 /\ LoadsTyped' /\ UNCHANGED <<data, heldBack, behind>> /\ Comes'
  BY <1>1, Asks
<1>3. SettingTyped'
  BY <1>1, <1>2 DEF SettingInv, SettingTyped
<1>4. /\ DOMAIN save' = DOMAIN save /\ save' = [b \in DOMAIN save' |-> save'[b]]
      /\ \A b \in DOMAIN save :
           save'[b] = IF b = a THEN [save[b] EXCEPT !.pc = "reading", !.request = latestRequest'] ELSE save[b]
  BY <1>1 DEF SettingInv, SavesTyped
<1>5. SavesTyped'
  <2>1. latestRequest' \in Nat /\ latestRequest' # 0
    BY <1>2 DEF SettingInv, SettingTyped
  <2>2. \A b \in DOMAIN save : save'[b] \in [sent: Values, pc: {"sent", "taken", "reading"}, request: Nat]
    BY ZenonT(40), <1>4, <2>1 DEF SettingInv, SavesTyped
  <2>3. \A b \in DOMAIN save : save'[b].pc = "reading" <=> save'[b].request # 0
    BY <1>4, <2>1 DEF SettingInv, SavesTyped
  <2> QED BY <1>1, <1>4, <2>2, <2>3 DEF SettingInv, SavesTyped
<1>6. NoneToTake' <=> NoneToTake
  BY ZenonT(40), <1>1, <1>4 DEF NoneToTake, SettingInv, SavesTyped
<1>7. NewestUnderWay'
  BY <1>1, <1>4, <1>6 DEF SettingInv, NewestUnderWay, SavesTyped
<1>8. Done' => Done \/ a = attempts
  BY <1>1, <1>4 DEF Done
<1>9. sent /\ a = attempts => entered = saved /\ NoneToTake
  BY <1>1 DEF SettingInv, NewestUnderWay
<1>10. (sent /\ Done => entered = saved /\ Comes /\ NoneToTake)'
  BY <1>1, <1>2, <1>6, <1>8, <1>9 DEF SettingInv
<1> QED BY <1>1, <1>2, <1>3, <1>5, <1>7, <1>10 DEF SettingInv

LEMMA Refreshes ==
  ASSUME Setting!DeviceSettingAssumptions, SettingInv, Setting!Refresh
  PROVE  SettingInv'
<1>1. Setting!Ask(TRUE) /\ UNCHANGED <<saved, entered, typing, losses, sent, status, attempts, input, save>>
  BY DEF Setting!Refresh, Setting!saving
<1>2. /\ latestRequest' = latestRequest + 1 /\ LoadsTyped' /\ UNCHANGED <<data, heldBack, behind>> /\ Comes'
  BY <1>1, Asks
<1>3. SettingTyped' /\ SavesTyped' /\ NewestUnderWay' /\ (NoneToTake' <=> NoneToTake)
  BY <1>1, <1>2 DEF SettingInv, SettingTyped, SavesTyped, NewestUnderWay, NoneToTake
<1>4. Done' <=> Done
  BY <1>1 DEF Done
<1> QED BY <1>1, <1>2, <1>3, <1>4 DEF SettingInv

LEMMA RowsAreRead ==
  ASSUME Setting!DeviceSettingAssumptions, SettingInv, NEW n, Setting!ReadRow(n)
  PROVE  SettingInv'
<1>1. /\ n \in DOMAIN load /\ load' = [load EXCEPT ![n].answer = saved]
      /\ UNCHANGED <<saved, entered, typing, sent, status, attempts, input, save, data, latestRequest, heldBack, behind>>
  BY DEF Setting!ReadRow, Setting!saving
<1>2. /\ DOMAIN load' = DOMAIN load /\ load' = [k \in DOMAIN load' |-> load'[k]]
      /\ \A k \in DOMAIN load : load'[k] = IF k = n THEN [load[k] EXCEPT !.answer = saved] ELSE load[k]
  BY <1>1 DEF SettingInv, LoadsTyped
<1>3. LoadsTyped'
  BY <1>1, <1>2 DEF SettingInv, SettingTyped, LoadsTyped
<1>4. Comes => Comes'
  BY <1>1, <1>2 DEF Comes, SettingInv, LoadsTyped
<1>5. SettingTyped' /\ SavesTyped' /\ NewestUnderWay' /\ (NoneToTake' <=> NoneToTake) /\ (Done' <=> Done)
  BY <1>1 DEF SettingInv, SettingTyped, SavesTyped, NewestUnderWay, NoneToTake, Done
<1> QED BY <1>1, <1>3, <1>4, <1>5 DEF SettingInv

\* A save that waits for this read is over with it.
LEMMA SavesEndWithIt ==
  ASSUME Setting!DeviceSettingAssumptions, SettingInv, NEW n \in DOMAIN load, Setting!SavesEnd(n), saved' = saved
  PROVE  /\ UNCHANGED <<attempts, input>>
         /\ status' \in {"idle", "saving", "saved", "failed"} /\ (status' \in {"saving", "failed"} => input \in Values)
         /\ SavesTyped' /\ NewestUnderWay'
         /\ NoneToTake => NoneToTake'
         /\ status' \in {"saving", "failed"} => status' = status
         /\ Done' => Done
<1>1. CASE \E a \in DOMAIN save : save[a].request = n
  <2>1. PICK a \in DOMAIN save : save[a].request = n /\ Setting!Ended(a, "saved")
    BY <1>1 DEF Setting!SavesEnd
  <2>2. save[a].pc = "reading"
    BY <2>1 DEF SettingInv, SavesTyped, LoadsTyped
  <2>3. /\ attempts' = attempts /\ status' = IF a = attempts THEN "saved" ELSE status
        /\ attempts \in DOMAIN save' => a # attempts /\ save'[attempts] = save[attempts]
    BY <2>1, SaveEnds
  <2>4. attempts \in DOMAIN save' => attempts \in DOMAIN save
    BY <2>1 DEF Setting!Ended, Setting!Without
  <2>5. a = attempts => Done
    BY <2>2 DEF Done
  <2>6. Done' => Done
    BY <2>3, <2>4, <2>5 DEF Done
  <2> QED BY <2>1, <2>3, <2>6, SaveEnds
<1>2. CASE ~\E a \in DOMAIN save : save[a].request = n
  BY <1>2 DEF Setting!SavesEnd, Setting!saving, SettingInv, SettingTyped, SavesTyped, NewestUnderWay, NoneToTake, Done
<1> QED BY <1>1, <1>2

LEMMA LoadsGo ==
  ASSUME Setting!DeviceSettingAssumptions, SettingInv, NEW n \in DOMAIN load, load' = Setting!Without(load, n), latestRequest' = latestRequest
  PROVE  /\ LoadsTyped' /\ DOMAIN load' = DOMAIN load \ {n} /\ \A k \in DOMAIN load' : load'[k] = load[k]
BY DEF SettingInv, LoadsTyped, Setting!Without

LEMMA LoadsArrive ==
  ASSUME Setting!DeviceSettingAssumptions, SettingInv, NEW n, Setting!LoadArrives(n)
  PROVE  SettingInv'
<1>1. /\ n \in DOMAIN load /\ load[n].answer \in Values /\ load' = Setting!Without(load, n) /\ Setting!SavesEnd(n)
      /\ UNCHANGED <<saved, typing, sent, latestRequest>>
  BY DEF Setting!LoadArrives, SettingInv, LoadsTyped
<1>2. LoadsTyped' /\ DOMAIN load' = DOMAIN load \ {n} /\ \A k \in DOMAIN load' : load'[k] = load[k]
  BY <1>1, LoadsGo
<1>3. /\ UNCHANGED <<attempts, input>>
      /\ status' \in {"idle", "saving", "saved", "failed"} /\ (status' \in {"saving", "failed"} => input \in Values)
      /\ SavesTyped' /\ NewestUnderWay'
      /\ NoneToTake => NoneToTake'
      /\ status' \in {"saving", "failed"} => status' = status
      /\ Done' => Done
  BY <1>1, SavesEndWithIt
<1>4. CASE n # latestRequest
  <2>1. UNCHANGED <<entered, data, heldBack, behind>>
    BY <1>4 DEF Setting!LoadArrives, Setting!isLatest
  <2>2. SettingTyped'
    BY <1>1, <1>3, <2>1 DEF SettingInv, SettingTyped
  <2>3. Comes' <=> Comes
    BY <1>1, <1>2, <1>4, <2>1 DEF Comes
  <2> QED BY <1>1, <1>2, <1>3, <2>1, <2>2, <2>3 DEF SettingInv
<1>5. CASE n = latestRequest
  <2>1. /\ \/ typing /\ heldBack' = load[n].answer /\ UNCHANGED <<entered, data>>
           \/ /\ data' = load[n].answer /\ heldBack' = Rest
              /\ entered' = entered \/ (entered' = load[n].answer /\ ~Setting!unsettled)
  BY <1>5 DEF Setting!LoadArrives, Setting!isLatest, Setting!Show
  <2>2. behind' = FALSE
    BY <1>5 DEF Setting!LoadArrives, Setting!isLatest
  <2>3. SettingTyped' /\ (heldBack' # Rest => typing')
    BY <1>1, <1>3, <2>1, <2>2 DEF SettingInv, SettingTyped
  <2>4. (sent /\ status \in {"saving", "failed"} => entered = input)'
    BY <1>1, <1>3, <2>1 DEF SettingInv, Setting!unsettled
  <2>5. sent /\ Done => load[n].answer = saved
    BY <1>1, <1>5 DEF SettingInv, Comes, Setting!DeviceSettingAssumptions
  <2>6. load[n].answer = saved => Comes'
    BY <1>1, <1>2, <1>5, <2>1 DEF Comes, Setting!DeviceSettingAssumptions
  <2>7. (sent /\ Done => entered = saved /\ Comes /\ NoneToTake)'
    BY <1>1, <1>3, <2>1, <2>5, <2>6 DEF SettingInv
  <2> QED BY <1>2, <1>3, <2>3, <2>4, <2>7 DEF SettingInv
<1> QED BY <1>4, <1>5

LEMMA LoadsAreLost ==
  ASSUME Setting!DeviceSettingAssumptions, SettingInv, NEW n, Setting!LoseLoad(n)
  PROVE  SettingInv'
<1>1. /\ n \in DOMAIN load /\ load' = Setting!Without(load, n) /\ Setting!SavesEnd(n)
      /\ UNCHANGED <<saved, entered, typing, sent, data, latestRequest>>
      /\ IF n = latestRequest THEN heldBack' = Rest /\ behind' = TRUE ELSE UNCHANGED <<heldBack, behind>>
  BY DEF Setting!LoseLoad, Setting!isLatest
<1>2. LoadsTyped' /\ DOMAIN load' = DOMAIN load \ {n} /\ \A k \in DOMAIN load' : load'[k] = load[k]
  BY <1>1, LoadsGo
<1>3. /\ UNCHANGED <<attempts, input>>
      /\ status' \in {"idle", "saving", "saved", "failed"} /\ (status' \in {"saving", "failed"} => input \in Values)
      /\ SavesTyped' /\ NewestUnderWay'
      /\ NoneToTake => NoneToTake'
      /\ status' \in {"saving", "failed"} => status' = status
      /\ Done' => Done
  BY <1>1, SavesEndWithIt
<1>4. SettingTyped' /\ (heldBack' # Rest => typing')
  BY <1>1, <1>3 DEF SettingInv, SettingTyped
<1>5. Comes => Comes'
  BY <1>1, <1>2 DEF Comes
<1> QED BY <1>1, <1>2, <1>3, <1>4, <1>5 DEF SettingInv

LEMMA SettingBegins ==
  ASSUME Setting!DeviceSettingAssumptions, Setting!Init
  PROVE  SettingInv
<1>1. /\ saved \in Values /\ data = saved /\ entered = saved /\ typing = FALSE
      /\ status = "idle" /\ attempts = 0 /\ input = Rest
      /\ DOMAIN save = {} /\ DOMAIN load = {} /\ save = [a \in {} |-> save[a]] /\ load = [n \in {} |-> load[n]]
      /\ latestRequest = 0 /\ heldBack = Rest /\ sent = TRUE /\ behind = FALSE
  BY DEF Setting!Init
<1> QED BY <1>1 DEF SettingInv, SettingTyped, SavesTyped, LoadsTyped, NewestUnderWay, NoneToTake, Comes

LEMMA SettingSteps ==
  ASSUME Setting!DeviceSettingAssumptions, SettingInv, Setting!Next
  PROVE  SettingInv'
BY Chooses, Types, Leaves, Retries, Refreshes, SavesAreTaken, SavesAreLost, SavesAreAnswered,
   RowsAreRead, LoadsArrive, LoadsAreLost DEF Setting!Next

LEMMA SettingImplies ==
  ASSUME SettingInv
  PROVE  Setting!SentIsShown
BY DEF SettingInv, Setting!SentIsShown, Setting!AtRest, NewestUnderWay, Done, Comes

-----------------------------------------------------------------------------
(* The windows of the clock: first what % and \div are.                    *)

LEMMA Quotient ==
  ASSUME NEW n \in Int, NEW d \in Nat \ {0}
  PROVE  /\ n \div d \in Int /\ (n >= 0 => n \div d >= 0)
         /\ n % d \in 0..(d - 1) /\ n = (n \div d) * d + (n % d)
<1>1. n \div d \in Int /\ (n >= 0 => n \div d >= 0) /\ n % d \in 0..(d - 1)
  OBVIOUS
<1>2. n = d * (n \div d) + (n % d)
  OBVIOUS
<1>3. d * (n \div d) = (n \div d) * d
  BY <1>1
<1> QED BY <1>1, <1>2, <1>3

LEMMA Apart ==
  ASSUME NEW a \in Int, NEW b \in Int, NEW d \in Nat \ {0}, a < b
  PROVE  a * d \in Int /\ b * d \in Int /\ a * d + d <= b * d
<1>1. PICK k \in Nat : b = a + 1 + k
  <2>1. b - a - 1 \in Nat /\ b = a + 1 + (b - a - 1)
    OBVIOUS
  <2> QED BY <2>1
<1>2. b * d = a * d + d + k * d
  BY <1>1
<1>3. k * d >= 0 /\ a * d \in Int
  BY <1>1
<1> QED BY <1>2, <1>3

LEMMA DivGrows ==
  ASSUME NEW m \in Nat, NEW n \in Nat, NEW d \in Nat \ {0}, m <= n
  PROVE  m \div d <= n \div d
<1>1. SUFFICES ASSUME n \div d < m \div d PROVE FALSE
  BY Quotient
<1>2. (n \div d) * d + d <= (m \div d) * d
  BY <1>1, Apart, Quotient
<1> QED BY <1>2, Quotient

ScheduleInv ==
  /\ now \in Nat /\ Day <= now /\ now <= Last
  /\ schedule \in [enabled: BOOLEAN, weekdays: Weekdays, dates: DateRanges,
                   hours: {Rest} \cup ((0..(Day - 1)) \X (0..(Day - 1)))]

LEMMA ScheduleBegins == ASSUME Schedule!ScheduleWindowAssumptions, Schedule!Init PROVE ScheduleInv
BY DEF Schedule!ScheduleWindowAssumptions, Schedule!Init, ScheduleInv

LEMMA ScheduleSteps == ASSUME Schedule!ScheduleWindowAssumptions, ScheduleInv, Schedule!Next PROVE ScheduleInv'
BY DEF Schedule!ScheduleWindowAssumptions, ScheduleInv, Schedule!Next, Schedule!Tick

\* When a day has begun, and when it ends.
LEMMA Today ==
  ASSUME Schedule!ScheduleWindowAssumptions, ScheduleInv
  PROVE  /\ Schedule!today \in Nat /\ Schedule!today >= 1 /\ Schedule!today <= Last \div Day /\ Schedule!clockMinutes \in 0..(Day - 1)
         /\ now = Schedule!today * Day + Schedule!clockMinutes
         /\ \A day \in Nat : /\ day * Day \in Nat
                             /\ day < Schedule!today => day * Day + Day <= Schedule!today * Day
                             /\ day > Schedule!today => Schedule!today * Day + Day <= day * Day
                             /\ day < Schedule!today - 1 => day * Day + Day + Day <= Schedule!today * Day
         /\ (Schedule!today - 1) * Day = Schedule!today * Day - Day
<1>1. Day \in Nat \ {0} /\ now \in Nat /\ Last \in Nat /\ Day <= now /\ now <= Last
  BY DEF Schedule!ScheduleWindowAssumptions, ScheduleInv
<1>2. Schedule!today \in Nat /\ Schedule!clockMinutes \in 0..(Day - 1) /\ now = Schedule!today * Day + Schedule!clockMinutes
  BY <1>1, Quotient DEF Schedule!today, Schedule!clockMinutes
<1>3. Schedule!today <= Last \div Day
  BY <1>1, DivGrows DEF Schedule!today
<1>4. Schedule!today >= 1
  <2>1. Schedule!today = 0 => now < Day
    BY <1>1, <1>2
  <2> QED BY <1>1, <1>2, <2>1
<1>5. (Schedule!today - 1) * Day = Schedule!today * Day - Day
  BY <1>1, <1>2
<1>6. ASSUME NEW day \in Nat
      PROVE  /\ day * Day \in Nat
             /\ day < Schedule!today => day * Day + Day <= Schedule!today * Day
             /\ day > Schedule!today => Schedule!today * Day + Day <= day * Day
             /\ day < Schedule!today - 1 => day * Day + Day + Day <= Schedule!today * Day
  <2>1. day * Day \in Nat /\ Schedule!today * Day \in Nat
    BY <1>1, <1>2
  <2>2. day < Schedule!today => day * Day + Day <= Schedule!today * Day
    BY <1>1, <1>2, Apart
  <2>3. day > Schedule!today => Schedule!today * Day + Day <= day * Day
    BY <1>1, <1>2, Apart
  <2>4. day < Schedule!today - 1 => day * Day + Day <= (Schedule!today - 1) * Day
    BY <1>1, <1>2, Apart
  <2> QED BY <1>1, <1>5, <2>1, <2>2, <2>3, <2>4
<1> QED BY <1>2, <1>3, <1>4, <1>5, <1>6

\* The window that a day begins, if it is open now, is that of the day it started.
window(day) ==
  IF ~Schedule!Timed THEN <<day * Day, day * Day + Day - 1>>
  ELSE <<day * Day + schedule.hours[1],
         day * Day + schedule.hours[2] + (IF Schedule!crossesMidnight THEN Day ELSE 0)>>

LEMMA OpenNow ==
  ASSUME Schedule!ScheduleWindowAssumptions, ScheduleInv, NEW day \in Nat
  PROVE  now \in window(day)[1]..window(day)[2] <=> day = Schedule!dayTheWindowStarted /\ Schedule!matchesTimeWindow
<1> DEFINE midnight == Schedule!today * Day
           begins == day * Day
<1>1. /\ Schedule!today \in Nat /\ Schedule!today >= 1 /\ Schedule!clockMinutes \in 0..(Day - 1) /\ now = midnight + Schedule!clockMinutes
      /\ midnight \in Nat /\ begins \in Nat /\ Day \in Nat
      /\ day < Schedule!today => begins + Day <= midnight
      /\ day > Schedule!today => midnight + Day <= begins
      /\ day < Schedule!today - 1 => begins + Day + Day <= midnight
      /\ day = Schedule!today => begins = midnight
      /\ day = Schedule!today - 1 => begins = midnight - Day
  BY Today DEF Schedule!ScheduleWindowAssumptions
<1> HIDE DEF midnight, begins
<1>2. CASE ~Schedule!Timed
  <2>1. window(day)[1] = begins /\ window(day)[2] = begins + Day - 1
    BY <1>2 DEF window, begins
  <2>2. Schedule!dayTheWindowStarted = Schedule!today /\ Schedule!matchesTimeWindow
    BY <1>2 DEF Schedule!dayTheWindowStarted, Schedule!matchesTimeWindow
  <2> QED BY <1>1, <2>1, <2>2
<1>3. CASE Schedule!Timed
  <2>1. schedule.hours[1] \in 0..(Day - 1) /\ schedule.hours[2] \in 0..(Day - 1)
    BY <1>3 DEF Schedule!Timed, ScheduleInv
  <2>2. CASE Schedule!crossesMidnight
    <3>1. window(day)[1] = begins + schedule.hours[1] /\ window(day)[2] = begins + schedule.hours[2] + Day
      BY <1>3, <2>2 DEF window, begins
    <3>2. /\ Schedule!dayTheWindowStarted = IF Schedule!clockMinutes <= schedule.hours[2] THEN Schedule!today - 1 ELSE Schedule!today
          /\ Schedule!matchesTimeWindow <=> schedule.hours[1] <= Schedule!clockMinutes \/ Schedule!clockMinutes <= schedule.hours[2]
      BY <1>3, <2>2 DEF Schedule!dayTheWindowStarted, Schedule!matchesTimeWindow
    <3> QED BY <1>1, <2>1, <2>2, <3>1, <3>2 DEF Schedule!crossesMidnight
  <2>3. CASE ~Schedule!crossesMidnight
    <3>1. window(day)[1] = begins + schedule.hours[1] /\ window(day)[2] = begins + schedule.hours[2] + 0
      BY <1>3, <2>3 DEF window, begins
    <3>2. /\ Schedule!dayTheWindowStarted = Schedule!today
          /\ Schedule!matchesTimeWindow <=> schedule.hours[1] <= Schedule!clockMinutes /\ Schedule!clockMinutes <= schedule.hours[2]
      BY <1>3, <2>3 DEF Schedule!dayTheWindowStarted, Schedule!matchesTimeWindow
    <3> QED BY <1>1, <2>1, <2>3, <3>1, <3>2 DEF Schedule!crossesMidnight
  <2> QED BY <2>2, <2>3
<1> QED BY <1>2, <1>3

LEMMA ScheduleShows ==
  ASSUME Schedule!ScheduleWindowAssumptions, ScheduleInv
  PROVE  Schedule!WindowsBelongToTheirDay
<1> DEFINE dayIs == Schedule!dayTheWindowStarted
           fits(day) == /\ schedule.weekdays = {} \/ day % Week \in schedule.weekdays
                        /\ schedule.dates = Rest \/ day \in schedule.dates[1]..schedule.dates[2]
           open == \E day \in 0..(Last \div Day) : fits(day) /\ now \in window(day)[1]..window(day)[2]
<1>1. dayIs \in Nat /\ dayIs \in 0..(Last \div Day)
  <2>1. Last \div Day \in Nat
    <3>1. Last \in Nat /\ Day \in Nat \ {0}
      BY DEF Schedule!ScheduleWindowAssumptions
    <3>2. Last \div Day \in Int /\ Last \div Day >= 0
      BY <3>1, Quotient
    <3> QED BY <3>2
  <2>2. Schedule!today \in Nat /\ Schedule!today >= 1 /\ Schedule!today <= Last \div Day
    BY Today
  <2>3. dayIs = Schedule!today \/ dayIs = Schedule!today - 1
    BY DEF Schedule!dayTheWindowStarted
  <2> HIDE DEF dayIs
  <2> QED BY <2>1, <2>2, <2>3
<1>2. open <=> fits(dayIs) /\ Schedule!matchesTimeWindow
  <2>1. \A day \in 0..(Last \div Day) : day \in Nat
    OBVIOUS
  <2> HIDE DEF dayIs, fits
  <2> QED BY <1>1, <2>1, OpenNow DEF dayIs
<1>3. fits(dayIs) <=> Schedule!matchesWeekday(dayIs) /\ Schedule!matchesDateRange(dayIs)
  <2>1. schedule.dates # Rest => schedule.dates[1] \in Nat /\ schedule.dates[2] \in Nat
    BY DEF ScheduleInv, Schedule!ScheduleWindowAssumptions
  <2> HIDE DEF dayIs
  <2> QED BY <1>1, <2>1 DEF Schedule!matchesWeekday, Schedule!matchesDateRange
<1>4. (Schedule!scheduleExclusion = "shows") <=> schedule.enabled /\ Schedule!matchesWeekday(dayIs) /\ Schedule!matchesDateRange(dayIs) /\ Schedule!matchesTimeWindow
  BY DEF Schedule!scheduleExclusion
<1>5. schedule.enabled \in BOOLEAN
  BY DEF ScheduleInv
<1>6. (Schedule!scheduleExclusion = "shows") = (schedule.enabled /\ open)
  BY <1>2, <1>3, <1>4, <1>5
<1> QED BY <1>6 DEF Schedule!WindowsBelongToTheirDay, window

LEMMA DivIs ==
  ASSUME NEW d \in Nat \ {0}, NEW k \in Int, NEW r \in 0..(d - 1)
  PROVE  k * d \in Int /\ (k * d + r) \div d = k /\ (k * d + r) % d = r
<1>1. k * d \in Int
  OBVIOUS
<1> DEFINE n == k * d + r
<1>2. n \in Int
  BY <1>1
<1>3. n \div d \in Int /\ n % d \in 0..(d - 1) /\ n = (n \div d) * d + (n % d)
  BY <1>2, Quotient
<1>4. ~(n \div d < k)
  <2>1. n \div d < k => (n \div d) * d + d <= k * d
    BY <1>3, Apart
  <2>2. (n \div d) * d \in Int
    BY <1>3
  <2> QED BY <1>1, <1>3, <2>1, <2>2
<1>5. ~(k < n \div d)
  <2>1. k < n \div d => k * d + d <= (n \div d) * d
    BY <1>3, Apart
  <2>2. (n \div d) * d \in Int
    BY <1>3
  <2> QED BY <1>1, <1>3, <2>1, <2>2
<1>6. n \div d = k
  BY <1>3, <1>4, <1>5
<1> QED BY <1>1, <1>3, <1>6

SleepInv ==
  /\ now \in Nat /\ Day <= now /\ now < Days * Day + HOUR
  /\ start \in 0..(Day - 1) /\ end \in 0..(Day - 1)
  /\ shift \in {-HOUR, 0, HOUR}
  /\ changesAt \in (2 * Day)..(3 * Day - 1) /\ changesAt % HOUR = 0

\* A midnight that the clock shows, or would.
Midnight(k) == k * Day

LEMMA SleepBegins == ASSUME Sleep!SleepWindowAssumptions, Sleep!Init PROVE SleepInv
<1>1. /\ now \in Day..(2 * Day - 1) /\ start \in 0..(Day - 1) /\ end \in 0..(Day - 1)
      /\ shift \in {-HOUR, 0, HOUR} /\ changesAt \in (2 * Day)..(3 * Day - 1) /\ changesAt % HOUR = 0
  BY DEF Sleep!Init
<1>2. Day \in Nat \ {0} /\ HOUR \in Nat \ {0} /\ Days \in Nat /\ Days > 4
  BY DEF Sleep!SleepWindowAssumptions
<1>3. 2 * Day + Day <= Days * Day /\ Days * Day \in Int
  BY <1>2, Apart
<1> QED BY <1>1, <1>2, <1>3 DEF SleepInv

\* The clock changes at midnight or an hour or more from it.
LEMMA ChangesOnTheHour ==
  ASSUME Sleep!SleepWindowAssumptions, SleepInv, NEW k \in Int
  PROVE  /\ Midnight(k) \in Int
         /\ changesAt + HOUR <= Midnight(k) \/ changesAt = Midnight(k) \/ Midnight(k) + HOUR <= changesAt
         /\ changesAt + HOUR < Midnight(k) => changesAt + HOUR + HOUR <= Midnight(k)
<1>1. Day \in Nat \ {0} /\ HOUR \in Nat \ {0} /\ changesAt \in Int /\ changesAt % HOUR = 0 /\ Day % HOUR = 0
  BY DEF Sleep!SleepWindowAssumptions, SleepInv
<1>2. PICK c \in Int : changesAt = c * HOUR
  <2>1. changesAt \div HOUR \in Int /\ changesAt = (changesAt \div HOUR) * HOUR + (changesAt % HOUR)
    BY <1>1, Quotient
  <2>2. (changesAt \div HOUR) * HOUR \in Int
    BY <1>1, <2>1
  <2>3. changesAt = (changesAt \div HOUR) * HOUR
    BY <1>1, <2>1, <2>2
  <2> QED BY <2>1, <2>3
<1>3. PICK j \in Int : Day = j * HOUR
  <2>1. Day \div HOUR \in Int /\ Day = (Day \div HOUR) * HOUR + (Day % HOUR)
    BY <1>1, Quotient
  <2>2. (Day \div HOUR) * HOUR \in Int
    BY <1>1, <2>1
  <2>3. Day = (Day \div HOUR) * HOUR
    BY <1>1, <2>1, <2>2
  <2> QED BY <2>1, <2>3
<1>4. Midnight(k) = (k * j) * HOUR /\ k * j \in Int
  BY <1>1, <1>3 DEF Midnight
<1> DEFINE m == k * j
<1>5. c < m => changesAt + HOUR <= Midnight(k)
  BY <1>1, <1>2, <1>4, Apart
<1>6. m < c => Midnight(k) + HOUR <= changesAt
  BY <1>1, <1>2, <1>4, Apart
<1>7. m = c => Midnight(k) = changesAt
  BY <1>2, <1>4
<1>8. m \in Int /\ c \in Int
  BY <1>2, <1>4
<1>9. Midnight(k) \in Int
  BY <1>1, <1>4
<1>10. c + 1 < m => changesAt + HOUR + HOUR <= Midnight(k)
  <2>1. c + 1 < m => (c + 1) * HOUR + HOUR <= m * HOUR
    BY <1>1, <1>8, Apart
  <2>2. (c + 1) * HOUR = changesAt + HOUR
    BY <1>1, <1>2
  <2> QED BY <1>4, <2>1, <2>2
<1>11. c + 1 = m => Midnight(k) = changesAt + HOUR
  BY <1>1, <1>2, <1>4
<1> HIDE DEF m
<1> QED BY <1>1, <1>5, <1>6, <1>7, <1>8, <1>9, <1>10, <1>11

\* What the constants and the state of the clock are, as numbers.
LEMMA Numbers ==
  ASSUME Sleep!SleepWindowAssumptions, SleepInv
  PROVE  /\ Day \in Nat /\ HOUR \in Nat /\ 0 < HOUR /\ HOUR < Day /\ 2 * HOUR <= Day
         /\ MIN_SLEEP_REFRESH_RATE \in Nat /\ 0 < MIN_SLEEP_REFRESH_RATE /\ MIN_SLEEP_REFRESH_RATE <= Day
         /\ now \in Nat /\ Day <= now /\ start \in Nat /\ end \in Nat /\ end < Day
         /\ shift \in Int /\ (shift = HOUR \/ shift = 0 \/ shift = -HOUR)
         /\ changesAt \in Nat /\ 2 * Day <= changesAt /\ changesAt < 3 * Day
<1>1. Day \in Nat \ {0} /\ HOUR \in Nat \ {0} /\ HOUR < Day /\ Day % HOUR = 0
  BY DEF Sleep!SleepWindowAssumptions
<1>2. 2 * HOUR <= Day
  <2>1. Day \div HOUR \in Int /\ Day = (Day \div HOUR) * HOUR + (Day % HOUR) /\ (Day \div HOUR) * HOUR \in Int
    BY <1>1, Quotient
  <2>2. Day \div HOUR # 1
    <3>1. 1 * HOUR = HOUR
      BY <1>1
    <3>2. Day = (Day \div HOUR) * HOUR
      BY <1>1, <2>1
    <3> QED BY <1>1, <3>1, <3>2
  <2>3. Day \div HOUR >= 1
    <3>1. Day \div HOUR < 1 => (Day \div HOUR) * HOUR + HOUR <= 1 * HOUR
      BY <1>1, <2>1, Apart
    <3> QED BY <1>1, <2>1, <3>1
  <2>4. 1 * HOUR + HOUR <= (Day \div HOUR) * HOUR
    <3>1. 1 < Day \div HOUR
      BY <2>1, <2>2, <2>3
    <3> QED BY <1>1, <2>1, <3>1, Apart
  <2> QED BY <1>1, <2>1, <2>4
<1>3. MIN_SLEEP_REFRESH_RATE \in Nat /\ 0 < MIN_SLEEP_REFRESH_RATE /\ MIN_SLEEP_REFRESH_RATE <= Day
  BY DEF Sleep!SleepWindowAssumptions
<1> QED BY <1>1, <1>2, <1>3 DEF SleepInv

LEMMA Midnights ==
  ASSUME Sleep!SleepWindowAssumptions, NEW k \in Int
  PROVE  Midnight(k) \in Int /\ Midnight(k + 1) = Midnight(k) + Day /\ Midnight(k - 1) = Midnight(k) - Day
BY DEF Sleep!SleepWindowAssumptions, Midnight

LEMMA Elsewhere ==
  ASSUME Sleep!SleepWindowAssumptions, NEW k \in Int, NEW q \in Int
  PROVE  \/ Midnight(k) = Midnight(q) \/ Midnight(k) = Midnight(q) - Day \/ Midnight(k) = Midnight(q) + Day
         \/ Midnight(k) + 2 * Day <= Midnight(q) \/ Midnight(q) + 2 * Day <= Midnight(k)
<1>1. Day \in Nat \ {0}
  BY DEF Sleep!SleepWindowAssumptions
<1>2. CASE k < q - 1
  <2>1. Midnight(k) + Day <= Midnight(q - 1)
    BY <1>1, <1>2, Apart DEF Midnight
  <2> QED BY <1>1, <2>1, Midnights
<1>3. CASE q + 1 < k
  <2>1. Midnight(q + 1) + Day <= Midnight(k)
    BY <1>1, <1>3, Apart DEF Midnight
  <2> QED BY <1>1, <2>1, Midnights
<1>4. CASE k = q \/ k = q - 1 \/ k = q + 1
  BY <1>4, Midnights
<1> QED BY <1>2, <1>3, <1>4

LEMMA Wall_ ==
  ASSUME Sleep!SleepWindowAssumptions, SleepInv, NEW m \in Int
  PROVE  /\ Sleep!Wall(m) \in Int /\ Sleep!Wall(m) = IF m < changesAt THEN m ELSE m + shift
         /\ Sleep!dayOf(m) \in Int /\ Sleep!secondsOfDay(m) \in 0..(Day - 1)
         /\ Sleep!Wall(m) = Midnight(Sleep!dayOf(m)) + Sleep!secondsOfDay(m)
         /\ \A k \in Int, r \in 0..(Day - 1) : Sleep!Wall(m) = Midnight(k) + r => Sleep!dayOf(m) = k /\ Sleep!secondsOfDay(m) = r
<1>1. Sleep!Wall(m) \in Int /\ Sleep!Wall(m) = IF m < changesAt THEN m ELSE m + shift
  BY Numbers DEF Sleep!Wall, Sleep!Offset
<1>2. Day \in Nat \ {0}
  BY DEF Sleep!SleepWindowAssumptions
<1>3. /\ Sleep!dayOf(m) \in Int /\ Sleep!secondsOfDay(m) \in 0..(Day - 1)
      /\ Sleep!Wall(m) = Midnight(Sleep!dayOf(m)) + Sleep!secondsOfDay(m)
  <2> HIDE DEF Sleep!Wall
  <2> QED BY <1>1, <1>2, Quotient DEF Sleep!dayOf, Sleep!secondsOfDay, Midnight
<1>4. ASSUME NEW k \in Int, NEW r \in 0..(Day - 1), Sleep!Wall(m) = Midnight(k) + r
      PROVE  Sleep!dayOf(m) = k /\ Sleep!secondsOfDay(m) = r
  BY <1>2, <1>4, DivIs DEF Sleep!dayOf, Sleep!secondsOfDay, Midnight
<1> QED BY <1>1, <1>3, <1>4

LEMMA At_ ==
  ASSUME Sleep!SleepWindowAssumptions, SleepInv, NEW w \in Int
  PROVE  Sleep!At(w) \in Int /\ Sleep!At(w) = IF w < changesAt \/ w < changesAt + shift THEN w ELSE w - shift
BY Numbers DEF Sleep!At

\* The end of the window on the k-th day is on the clock.
LEMMA NotSkipped ==
  ASSUME Sleep!SleepWindowAssumptions, SleepInv, ~Sleep!Skipped(end), NEW k \in Int
  PROVE  /\ shift > 0 => Midnight(k) + end < changesAt \/ changesAt + shift <= Midnight(k) + end
         /\ Sleep!Wall(Sleep!At(Midnight(k) + end)) = Midnight(k) + end
         /\ Sleep!dayOf(Sleep!At(Midnight(k) + end)) = k /\ Sleep!secondsOfDay(Sleep!At(Midnight(k) + end)) = end
<1> DEFINE w == Midnight(k) + end
<1>1. w \in Int /\ w % Day = end /\ end \in 0..(Day - 1)
  <2>1. Day \in Nat \ {0} /\ end \in 0..(Day - 1)
    BY DEF Sleep!SleepWindowAssumptions, SleepInv
  <2>2. k * Day \in Int /\ (k * Day + end) % Day = end
    BY <2>1, DivIs
  <2> QED BY <2>1, <2>2 DEF Midnight
<1>2. shift > 0 => w \notin changesAt..(changesAt + shift - 1)
  BY <1>1 DEF Sleep!Skipped
<1> HIDE DEF w
<1>3. shift > 0 => w < changesAt \/ changesAt + shift <= w
  BY <1>1, <1>2, Numbers
<1>4. Sleep!At(w) \in Int /\ Sleep!At(w) = IF w < changesAt \/ w < changesAt + shift THEN w ELSE w - shift
  BY <1>1, At_
<1>5. Sleep!Wall(Sleep!At(w)) = IF Sleep!At(w) < changesAt THEN Sleep!At(w) ELSE Sleep!At(w) + shift
  BY <1>4, Wall_
<1>6. Sleep!Wall(Sleep!At(w)) = w
  BY <1>1, <1>3, <1>4, <1>5, Numbers
<1>7. Sleep!dayOf(Sleep!At(w)) = k /\ Sleep!secondsOfDay(Sleep!At(w)) = end
  BY <1>1, <1>4, <1>6, Wall_ DEF w
<1> QED BY <1>3, <1>6, <1>7 DEF w

LEMMA Now_ ==
  ASSUME Sleep!SleepWindowAssumptions, SleepInv
  PROVE  /\ Sleep!dayOf(now) \in Int /\ Midnight(Sleep!dayOf(now)) \in Int
         /\ Midnight(Sleep!dayOf(now)) <= Sleep!Wall(now) /\ Sleep!Wall(now) < Midnight(Sleep!dayOf(now)) + Day
         /\ Midnight(Sleep!dayOf(now)) >= Day
<1>1. /\ Sleep!Wall(now) \in Int /\ Sleep!Wall(now) = IF now < changesAt THEN now ELSE now + shift
      /\ Sleep!dayOf(now) \in Int /\ Sleep!secondsOfDay(now) \in 0..(Day - 1)
      /\ Sleep!Wall(now) = Midnight(Sleep!dayOf(now)) + Sleep!secondsOfDay(now)
  <2>1. now \in Int
    BY Numbers
  <2> QED BY <2>1, Wall_
<1>2. Midnight(Sleep!dayOf(now)) \in Int
  BY <1>1, Midnights
<1>3. Sleep!Wall(now) >= Day
  BY <1>1, Numbers
<1>4. Sleep!dayOf(now) >= 1
  <2>1. Midnight(0) = 0 /\ Midnight(1) = Day
    BY Numbers DEF Midnight
  <2>2. Sleep!dayOf(now) < 1 => Midnight(Sleep!dayOf(now)) + Day <= Midnight(1)
    BY <1>1, Apart DEF Midnight, Sleep!SleepWindowAssumptions
  <2> QED BY <1>1, <1>2, <1>3, <2>1, <2>2, Numbers
<1>5. Midnight(Sleep!dayOf(now)) >= Day
  <2>1. Midnight(1) = Day
    BY Numbers DEF Midnight
  <2>2. 1 < Sleep!dayOf(now) => Midnight(1) + Day <= Midnight(Sleep!dayOf(now))
    BY <1>1, Apart DEF Midnight, Sleep!SleepWindowAssumptions
  <2> QED BY <1>1, <1>2, <1>4, <2>1, <2>2, Numbers
<1> QED BY <1>1, <1>2, <1>5, Numbers

\* Today's end and tomorrow's.
LEMMA Ends ==
  ASSUME Sleep!SleepWindowAssumptions, SleepInv, ~Sleep!Skipped(end)
  PROVE  LET midnight == Midnight(Sleep!dayOf(now))
             today == Sleep!onDayOf(now, end)
         IN /\ midnight \in Int /\ midnight >= Day /\ Sleep!Wall(now) \in Int /\ midnight <= Sleep!Wall(now) /\ Sleep!Wall(now) < midnight + Day
            /\ Sleep!Wall(now) = IF now < changesAt THEN now ELSE now + shift
            /\ today \in Int
            /\ today = IF midnight + end < changesAt \/ midnight + end < changesAt + shift
                       THEN midnight + end ELSE midnight + end - shift
            /\ Sleep!Wall(today) = midnight + end /\ Sleep!secondsOfDay(today) = end
            /\ shift > 0 => midnight + end < changesAt \/ changesAt + shift <= midnight + end
            /\ \A d \in {-1, 0, 1} : \/ changesAt + HOUR <= midnight + d * Day
                                     \/ changesAt = midnight + d * Day
                                     \/ midnight + d * Day + HOUR <= changesAt
<1> DEFINE q == Sleep!dayOf(now)
           midnight == Midnight(q)
           today == Sleep!onDayOf(now, end)
<1>1. q \in Int /\ midnight \in Int /\ midnight >= Day /\ midnight <= Sleep!Wall(now) /\ Sleep!Wall(now) < midnight + Day
  BY Now_
<1>2. now \in Int
  BY Numbers
<1>3. Sleep!Wall(now) \in Int /\ Sleep!Wall(now) = IF now < changesAt THEN now ELSE now + shift
  BY <1>2, Wall_
<1>4. midnight + end \in Int /\ today = Sleep!At(midnight + end)
  BY <1>1, Numbers DEF Sleep!onDayOf, Midnight
<1>5. today \in Int /\ today = IF midnight + end < changesAt \/ midnight + end < changesAt + shift
                               THEN midnight + end ELSE midnight + end - shift
  <2> HIDE DEF q, midnight, today
  <2>1. Sleep!At(midnight + end) \in Int /\ Sleep!At(midnight + end) = IF midnight + end < changesAt \/ midnight + end < changesAt + shift
                                                        THEN midnight + end ELSE midnight + end - shift
    BY <1>1, <1>4, Numbers DEF Sleep!At
  <2> QED BY <1>4, <2>1
<1>6. /\ Sleep!Wall(today) = midnight + end /\ Sleep!secondsOfDay(today) = end
      /\ shift > 0 => midnight + end < changesAt \/ changesAt + shift <= midnight + end
  BY <1>1, <1>4, NotSkipped
<1>7. \A d \in {-1, 0, 1} : \/ changesAt + HOUR <= midnight + d * Day
                            \/ changesAt = midnight + d * Day
                            \/ midnight + d * Day + HOUR <= changesAt
  <2>1. Midnight(q + 1) = midnight + 1 * Day /\ Midnight(q - 1) = midnight + (-1) * Day /\ midnight = midnight + 0 * Day
    BY <1>1, Midnights, Numbers
  <2>2. q + 1 \in Int /\ q - 1 \in Int
    BY <1>1
  <2> HIDE DEF q, midnight
  <2>3. \/ changesAt + HOUR <= Midnight(q + 1) \/ changesAt = Midnight(q + 1) \/ Midnight(q + 1) + HOUR <= changesAt
    BY <2>2, ChangesOnTheHour
  <2>4. \/ changesAt + HOUR <= Midnight(q - 1) \/ changesAt = Midnight(q - 1) \/ Midnight(q - 1) + HOUR <= changesAt
    BY <2>2, ChangesOnTheHour
  <2>5. \/ changesAt + HOUR <= midnight \/ changesAt = midnight \/ midnight + HOUR <= changesAt
    BY <1>1, ChangesOnTheHour DEF midnight
  <2> QED BY <2>1, <2>3, <2>4, <2>5
<1> QED BY <1>1, <1>3, <1>5, <1>6, <1>7

\* A moment that reads the end does so on some day.
LEMMA ReadsEnd ==
  ASSUME Sleep!SleepWindowAssumptions, SleepInv, NEW m \in Int, Sleep!secondsOfDay(m) = end, NEW q \in Int
  PROVE  LET midnight == Midnight(q) IN
         \/ Sleep!Wall(m) = midnight + end \/ Sleep!Wall(m) = midnight - Day + end \/ Sleep!Wall(m) = midnight + Day + end
         \/ Sleep!Wall(m) - end + 2 * Day <= midnight \/ midnight + 2 * Day <= Sleep!Wall(m) - end
<1>1. Sleep!dayOf(m) \in Int /\ Sleep!Wall(m) \in Int /\ Sleep!Wall(m) = Midnight(Sleep!dayOf(m)) + end
  BY Wall_
<1>2. Midnight(Sleep!dayOf(m)) \in Int /\ Midnight(q) \in Int
  BY <1>1, Midnights
<1>3. Midnight(Sleep!dayOf(m)) = Sleep!Wall(m) - end
  BY <1>1, <1>2, Numbers
<1>4. \/ Midnight(Sleep!dayOf(m)) = Midnight(q) \/ Midnight(Sleep!dayOf(m)) = Midnight(q) - Day \/ Midnight(Sleep!dayOf(m)) = Midnight(q) + Day
      \/ Midnight(Sleep!dayOf(m)) + 2 * Day <= Midnight(q) \/ Midnight(q) + 2 * Day <= Midnight(Sleep!dayOf(m))
  BY <1>1, Elsewhere
<1> QED BY <1>1, <1>2, <1>3, <1>4, Numbers

\* nextSleepEnd is the first moment after now that reads the end.
LEMMA NextIsFirst ==
  ASSUME Sleep!SleepWindowAssumptions, SleepInv, ~Sleep!Skipped(end)
  PROVE  LET next == Sleep!nextSleepEnd(end, now)
         IN /\ next \in Int /\ now < next /\ Sleep!secondsOfDay(next) = end
            /\ \A m \in Int : Sleep!secondsOfDay(m) = end /\ now < m => next <= m
<1> DEFINE q == Sleep!dayOf(now)
           midnight == Midnight(q)
           today == Sleep!onDayOf(now, end)
           tomorrow == Sleep!PlusDays(today, 1)
<1>1. /\ midnight \in Int /\ midnight >= Day /\ Sleep!Wall(now) \in Int /\ midnight <= Sleep!Wall(now) /\ Sleep!Wall(now) < midnight + Day
      /\ Sleep!Wall(now) = IF now < changesAt THEN now ELSE now + shift
      /\ today \in Int
      /\ today = IF midnight + end < changesAt \/ midnight + end < changesAt + shift
                 THEN midnight + end ELSE midnight + end - shift
      /\ Sleep!Wall(today) = midnight + end /\ Sleep!secondsOfDay(today) = end
      /\ shift > 0 => midnight + end < changesAt \/ changesAt + shift <= midnight + end
  BY Ends
<1>2. /\ changesAt + HOUR <= midnight \/ changesAt = midnight \/ midnight + HOUR <= changesAt
      /\ changesAt + HOUR <= midnight + Day \/ changesAt = midnight + Day \/ midnight + Day + HOUR <= changesAt
  <2>1. midnight + 0 * Day = midnight /\ midnight + 1 * Day = midnight + Day
    BY <1>1, Numbers
  <2> QED BY <2>1, Ends
<1>3. /\ tomorrow \in Int
      /\ tomorrow = IF midnight + Day + end < changesAt \/ midnight + Day + end < changesAt + shift
                    THEN midnight + Day + end ELSE midnight + Day + end - shift
      /\ Sleep!Wall(tomorrow) = midnight + Day + end /\ Sleep!secondsOfDay(tomorrow) = end
      /\ shift > 0 => midnight + Day + end < changesAt \/ changesAt + shift <= midnight + Day + end
  <2>1. q \in Int /\ q + 1 \in Int
    BY Now_
  <2>2. Midnight(q + 1) = midnight + Day
    BY <2>1, Midnights
  <2>3. /\ Midnight(q + 1) + end = midnight + Day + end /\ midnight + Day + end \in Int
        /\ tomorrow = Sleep!At(midnight + Day + end)
    BY <1>1, <2>2, Numbers DEF Sleep!PlusDays
  <2>4. /\ shift > 0 => Midnight(q + 1) + end < changesAt \/ changesAt + shift <= Midnight(q + 1) + end
        /\ Sleep!Wall(Sleep!At(Midnight(q + 1) + end)) = Midnight(q + 1) + end
        /\ Sleep!secondsOfDay(Sleep!At(Midnight(q + 1) + end)) = end
    BY <2>1, NotSkipped
  <2> HIDE DEF q, midnight, today, tomorrow
  <2>5. /\ tomorrow \in Int
        /\ tomorrow = IF midnight + Day + end < changesAt \/ midnight + Day + end < changesAt + shift
                      THEN midnight + Day + end ELSE midnight + Day + end - shift
    <3>1. /\ Sleep!At(midnight + Day + end) \in Int
          /\ Sleep!At(midnight + Day + end) = IF midnight + Day + end < changesAt \/ midnight + Day + end < changesAt + shift
                                        THEN midnight + Day + end ELSE midnight + Day + end - shift
      BY <1>1, <2>3, Numbers DEF Sleep!At
    <3> QED BY <2>3, <3>1
  <2> QED BY <2>3, <2>4, <2>5
<1>4. Sleep!nextSleepEnd(end, now) = IF today > now THEN today
                               ELSE IF today + HOUR > now /\ Sleep!secondsOfDay(today + HOUR) = end THEN today + HOUR
                               ELSE tomorrow
  BY <1>1 DEF Sleep!nextSleepEnd, Sleep!ReadsTheSame
<1>5. ASSUME NEW m \in Int, Sleep!secondsOfDay(m) = end
      PROVE  /\ Sleep!Wall(m) \in Int /\ Sleep!Wall(m) = IF m < changesAt THEN m ELSE m + shift
             /\ \/ Sleep!Wall(m) = midnight + end \/ Sleep!Wall(m) = midnight - Day + end \/ Sleep!Wall(m) = midnight + Day + end
                \/ Sleep!Wall(m) - end + 2 * Day <= midnight \/ midnight + 2 * Day <= Sleep!Wall(m) - end
  <2>1. q \in Int
    BY Now_
  <2> QED BY <1>5, <2>1, Wall_, ReadsEnd
<1> HIDE DEF q, midnight, today, tomorrow
<1>6. CASE today > now
  <2>1. ASSUME NEW m \in Int, Sleep!secondsOfDay(m) = end, now < m
        PROVE  today <= m
    BY <1>1, <1>2, <1>5, <1>6, <2>1, Numbers
  <2> QED BY <1>1, <1>4, <1>6, <2>1
<1>7. CASE ~(today > now) /\ today + HOUR > now /\ Sleep!secondsOfDay(today + HOUR) = end
  <2>1. ASSUME NEW m \in Int, Sleep!secondsOfDay(m) = end, now < m
        PROVE  today + HOUR <= m
    <3>1. /\ Sleep!Wall(today + HOUR) \in Int
          /\ Sleep!Wall(today + HOUR) = IF today + HOUR < changesAt THEN today + HOUR ELSE today + HOUR + shift
          /\ \/ Sleep!Wall(today + HOUR) = midnight + end \/ Sleep!Wall(today + HOUR) = midnight - Day + end
             \/ Sleep!Wall(today + HOUR) = midnight + Day + end
             \/ Sleep!Wall(today + HOUR) - end + 2 * Day <= midnight \/ midnight + 2 * Day <= Sleep!Wall(today + HOUR) - end
      BY <1>1, <1>5, <1>7, Numbers
    <3>2. /\ Sleep!Wall(m) \in Int /\ Sleep!Wall(m) = IF m < changesAt THEN m ELSE m + shift
          /\ \/ Sleep!Wall(m) = midnight + end \/ Sleep!Wall(m) = midnight - Day + end \/ Sleep!Wall(m) = midnight + Day + end
             \/ Sleep!Wall(m) - end + 2 * Day <= midnight \/ midnight + 2 * Day <= Sleep!Wall(m) - end
      BY <1>5, <2>1
    <3> QED BY <1>1, <1>2, <1>7, <2>1, <3>1, <3>2, Numbers, SMTT(60)
  <2> QED BY <1>1, <1>4, <1>7, <2>1, Numbers
<1>8. CASE ~(today > now) /\ ~(today + HOUR > now /\ Sleep!secondsOfDay(today + HOUR) = end)
  <2>1. today + HOUR \in Int /\ Sleep!Wall(today + HOUR) = IF today + HOUR < changesAt THEN today + HOUR ELSE today + HOUR + shift
    <3>1. today + HOUR \in Int
      BY <1>1, Numbers
    <3> QED BY <3>1, Wall_
  <2>2. today + HOUR > now => Sleep!Wall(today + HOUR) # midnight + end
    <3>1. q \in Int /\ end \in 0..(Day - 1)
      BY Now_ DEF q, SleepInv
    <3>2. Sleep!Wall(today + HOUR) = Midnight(q) + end => Sleep!secondsOfDay(today + HOUR) = end
      BY <2>1, <3>1, Wall_
    <3> QED BY <1>8, <3>2 DEF midnight
  <2>3. now < tomorrow
    BY <1>1, <1>2, <1>3, <1>8, Numbers
  <2>4. ASSUME NEW m \in Int, Sleep!secondsOfDay(m) = end, now < m
        PROVE  tomorrow <= m
    BY <1>1, <1>2, <1>3, <1>5, <1>8, <2>1, <2>2, <2>4, Numbers
  <2> QED BY <1>3, <1>4, <1>8, <2>3, <2>4
<1> QED BY <1>6, <1>7, <1>8

\* lastSleepEnd is the last moment up to now that reads the end.
LEMMA LastIsLast ==
  ASSUME Sleep!SleepWindowAssumptions, SleepInv, ~Sleep!Skipped(end)
  PROVE  LET last == Sleep!lastSleepEnd(end, now)
         IN /\ last \in Int /\ 0 <= last /\ last <= now /\ Sleep!secondsOfDay(last) = end
            /\ \A m \in Int : Sleep!secondsOfDay(m) = end /\ m <= now => m <= last
<1> DEFINE q == Sleep!dayOf(now)
           midnight == Midnight(q)
           today == Sleep!onDayOf(now, end)
           yesterday == Sleep!onDayOf(Sleep!PlusDays(now, -1), end)
           last == IF today > now THEN yesterday ELSE today
<1>1. /\ midnight \in Int /\ midnight >= Day /\ Sleep!Wall(now) \in Int /\ midnight <= Sleep!Wall(now) /\ Sleep!Wall(now) < midnight + Day
      /\ Sleep!Wall(now) = IF now < changesAt THEN now ELSE now + shift
      /\ today \in Int
      /\ today = IF midnight + end < changesAt \/ midnight + end < changesAt + shift
                 THEN midnight + end ELSE midnight + end - shift
      /\ Sleep!Wall(today) = midnight + end /\ Sleep!secondsOfDay(today) = end
      /\ shift > 0 => midnight + end < changesAt \/ changesAt + shift <= midnight + end
  BY Ends
<1>2. /\ changesAt + HOUR <= midnight \/ changesAt = midnight \/ midnight + HOUR <= changesAt
      /\ changesAt + HOUR <= midnight + Day \/ changesAt = midnight + Day \/ midnight + Day + HOUR <= changesAt
      /\ changesAt + HOUR <= midnight - Day \/ changesAt = midnight - Day \/ midnight - Day + HOUR <= changesAt
  <2>1. midnight + 0 * Day = midnight /\ midnight + 1 * Day = midnight + Day /\ midnight + (-1) * Day = midnight - Day
    BY <1>1, Numbers
  <2> QED BY <2>1, Ends
<1>3. today > now =>
        /\ yesterday \in Int
        /\ yesterday = IF midnight - Day + end < changesAt \/ midnight - Day + end < changesAt + shift
                       THEN midnight - Day + end ELSE midnight - Day + end - shift
        /\ Sleep!Wall(yesterday) = midnight - Day + end /\ Sleep!secondsOfDay(yesterday) = end
        /\ shift > 0 => midnight - Day + end < changesAt \/ changesAt + shift <= midnight - Day + end
  <2>1. SUFFICES ASSUME today > now
                 PROVE  /\ yesterday \in Int
                        /\ yesterday = IF midnight - Day + end < changesAt \/ midnight - Day + end < changesAt + shift
                                       THEN midnight - Day + end ELSE midnight - Day + end - shift
                        /\ Sleep!Wall(yesterday) = midnight - Day + end /\ Sleep!secondsOfDay(yesterday) = end
                        /\ shift > 0 => midnight - Day + end < changesAt \/ changesAt + shift <= midnight - Day + end
    OBVIOUS
  <2>2. q \in Int /\ q - 1 \in Int
    BY Now_
  <2>3. Midnight(q - 1) = midnight - Day
    BY <2>2, Midnights
  <2> DEFINE w == Sleep!Wall(now) - Day
             dayBefore == Sleep!PlusDays(now, -1)
  <2>4. w \in Int /\ dayBefore = Sleep!At(w)
    BY <1>1, Numbers DEF Sleep!PlusDays
  <2>5. dayBefore \in Int /\ dayBefore = IF w < changesAt \/ w < changesAt + shift THEN w ELSE w - shift
    BY <1>1, <2>4, Numbers DEF Sleep!At
  <2>6. Sleep!Wall(dayBefore) \in Int /\ Sleep!Wall(dayBefore) = IF dayBefore < changesAt THEN dayBefore ELSE dayBefore + shift
    BY <2>5, Wall_
  <2>7. midnight - Day <= Sleep!Wall(dayBefore) /\ Sleep!Wall(dayBefore) < midnight
    <3>1. shift > 0 => midnight - Day + end < changesAt \/ changesAt + shift <= midnight - Day + end
      <4>1. shift > 0 => Midnight(q - 1) + end < changesAt \/ changesAt + shift <= Midnight(q - 1) + end
        BY <2>2, NotSkipped
      <4> QED BY <2>3, <4>1
    <3>2. changesAt + HOUR < midnight => changesAt + HOUR + HOUR <= midnight
      BY <2>2, ChangesOnTheHour
    <3> HIDE DEF q, midnight, today, yesterday, dayBefore
    <3> QED BY <1>1, <1>2, <2>1, <2>5, <2>6, <3>1, <3>2, Numbers
  <2>8. Sleep!dayOf(dayBefore) = q - 1
    <3>1. Sleep!Wall(dayBefore) - (midnight - Day) \in 0..(Day - 1)
      BY <1>1, <2>6, <2>7, Numbers
    <3>2. Sleep!Wall(dayBefore) = Midnight(q - 1) + (Sleep!Wall(dayBefore) - (midnight - Day))
      BY <1>1, <2>3, <2>6, Numbers
    <3> HIDE DEF q, midnight, dayBefore
    <3> QED BY <2>2, <2>5, <3>1, <3>2, Wall_
  <2>9. midnight - Day + end \in Int /\ yesterday = Sleep!At(midnight - Day + end)
    <3>1. yesterday = Sleep!At(Midnight(q - 1) + end)
      BY <2>8 DEF Sleep!onDayOf, Midnight
    <3> QED BY <1>1, <2>3, <3>1, Numbers
  <2>10. /\ shift > 0 => Midnight(q - 1) + end < changesAt \/ changesAt + shift <= Midnight(q - 1) + end
         /\ Sleep!Wall(Sleep!At(Midnight(q - 1) + end)) = Midnight(q - 1) + end
         /\ Sleep!secondsOfDay(Sleep!At(Midnight(q - 1) + end)) = end
    BY <2>2, NotSkipped
  <2> HIDE DEF q, midnight, today, yesterday
  <2>11. /\ yesterday \in Int
         /\ yesterday = IF midnight - Day + end < changesAt \/ midnight - Day + end < changesAt + shift
                        THEN midnight - Day + end ELSE midnight - Day + end - shift
    BY <1>1, <2>9, Numbers DEF Sleep!At
  <2> QED BY <2>3, <2>9, <2>10, <2>11
<1>4. Sleep!lastSleepEnd(end, now) = IF last + HOUR <= now /\ Sleep!secondsOfDay(last + HOUR) = end THEN last + HOUR ELSE last
  BY <1>1, <1>3 DEF Sleep!lastSleepEnd, Sleep!ReadsTheSame
<1>5. ASSUME NEW m \in Int, Sleep!secondsOfDay(m) = end
      PROVE  /\ Sleep!Wall(m) \in Int /\ Sleep!Wall(m) = IF m < changesAt THEN m ELSE m + shift
             /\ \/ Sleep!Wall(m) = midnight + end \/ Sleep!Wall(m) = midnight - Day + end \/ Sleep!Wall(m) = midnight + Day + end
                \/ Sleep!Wall(m) - end + 2 * Day <= midnight \/ midnight + 2 * Day <= Sleep!Wall(m) - end
  <2>1. q \in Int
    BY Now_
  <2> QED BY <1>5, <2>1, Wall_, ReadsEnd
<1>6. last \in Int /\ 0 <= last /\ last <= now /\ Sleep!secondsOfDay(last) = end
  <2> HIDE DEF q, midnight, today, yesterday
  <2>1. CASE today > now
    BY <1>1, <1>2, <1>3, <2>1, Numbers
  <2>2. CASE ~(today > now)
    BY <1>1, <1>2, <2>2, Numbers
  <2> QED BY <2>1, <2>2
<1>7. last + HOUR \in Int /\ Sleep!Wall(last + HOUR) = IF last + HOUR < changesAt THEN last + HOUR ELSE last + HOUR + shift
  <2>1. last + HOUR \in Int
    BY <1>6, Numbers
  <2> HIDE DEF last
  <2> QED BY <2>1, Wall_
<1>8. \A k \in {q, q - 1} : Sleep!Wall(last + HOUR) = Midnight(k) + end => Sleep!secondsOfDay(last + HOUR) = end
  <2>1. q \in Int /\ end \in 0..(Day - 1)
    BY Now_ DEF q, SleepInv
  <2> HIDE DEF q, last
  <2> QED BY <1>7, <2>1, Wall_
<1>9. Midnight(q - 1) = midnight - Day
  BY Now_, Midnights
<1> HIDE DEF q, midnight, today, yesterday
<1>10. CASE last + HOUR <= now /\ Sleep!secondsOfDay(last + HOUR) = end
  <2>1. /\ \/ Sleep!Wall(last + HOUR) = midnight + end \/ Sleep!Wall(last + HOUR) = midnight - Day + end
           \/ Sleep!Wall(last + HOUR) = midnight + Day + end
           \/ Sleep!Wall(last + HOUR) - end + 2 * Day <= midnight \/ midnight + 2 * Day <= Sleep!Wall(last + HOUR) - end
    BY <1>5, <1>7, <1>10
  <2>2. ASSUME NEW m \in Int, Sleep!secondsOfDay(m) = end, m <= now
        PROVE  m <= last + HOUR
    <3>1. CASE today > now
      BY <1>1, <1>2, <1>3, <1>5, <1>7, <1>10, <2>1, <2>2, <3>1, Numbers, SMTT(60)
    <3>2. CASE ~(today > now)
      BY <1>1, <1>2, <1>5, <1>7, <1>10, <2>1, <2>2, <3>2, Numbers, SMTT(60)
    <3> QED BY <3>1, <3>2
  <2> QED BY <1>4, <1>6, <1>10, <2>2, Numbers
<1>11. CASE ~(last + HOUR <= now /\ Sleep!secondsOfDay(last + HOUR) = end)
  <2>1. last + HOUR <= now => Sleep!Wall(last + HOUR) # midnight + end /\ Sleep!Wall(last + HOUR) # midnight - Day + end
    BY <1>8, <1>9, <1>11 DEF midnight
  <2>2. ASSUME NEW m \in Int, Sleep!secondsOfDay(m) = end, m <= now
        PROVE  m <= last
    <3>1. CASE today > now
      BY <1>1, <1>2, <1>3, <1>5, <1>7, <2>1, <2>2, <3>1, Numbers, SMTT(60)
    <3>2. CASE ~(today > now)
      BY <1>1, <1>2, <1>5, <1>7, <2>1, <2>2, <3>2, Numbers, SMTT(60)
    <3> QED BY <3>1, <3>2
  <2> QED BY <1>4, <1>6, <1>11, <2>2
<1> QED BY <1>10, <1>11

\* However the end is read, the next comes within a day and an hour.
LEMMA NextIsSoon ==
  ASSUME Sleep!SleepWindowAssumptions, SleepInv
  PROVE  Sleep!nextSleepEnd(end, now) \in Int /\ Sleep!nextSleepEnd(end, now) - now <= Day + HOUR
<1> DEFINE q == Sleep!dayOf(now)
           midnight == Midnight(q)
           today == Sleep!onDayOf(now, end)
           tomorrow == Sleep!PlusDays(today, 1)
<1>1. midnight \in Int /\ midnight <= Sleep!Wall(now) /\ Sleep!Wall(now) < midnight + Day
  BY Now_
<1>2. now \in Int
  BY Numbers
<1>3. Sleep!Wall(now) \in Int /\ Sleep!Wall(now) = IF now < changesAt THEN now ELSE now + shift
  BY <1>2, Wall_
<1>4. today \in Int /\ today = IF midnight + end < changesAt \/ midnight + end < changesAt + shift
                               THEN midnight + end ELSE midnight + end - shift
  BY <1>1, Numbers DEF Sleep!onDayOf, Sleep!At, Midnight
<1>5. Sleep!Wall(today) \in Int /\ Sleep!Wall(today) = IF today < changesAt THEN today ELSE today + shift
  BY <1>4, Wall_
<1>6. tomorrow \in Int /\ tomorrow = IF Sleep!Wall(today) + Day < changesAt \/ Sleep!Wall(today) + Day < changesAt + shift
                                     THEN Sleep!Wall(today) + Day ELSE Sleep!Wall(today) + Day - shift
  <2> HIDE DEF today
  <2>1. Sleep!Wall(today) + 1 * Day = Sleep!Wall(today) + Day /\ Sleep!Wall(today) + Day \in Int
    BY <1>5, Numbers
  <2> QED BY <1>5, <2>1, Numbers DEF Sleep!PlusDays, Sleep!At
<1>7. \/ Sleep!nextSleepEnd(end, now) = today
      \/ ~(today > now) /\ Sleep!nextSleepEnd(end, now) = today + HOUR
      \/ ~(today > now) /\ Sleep!nextSleepEnd(end, now) = tomorrow
  BY DEF Sleep!nextSleepEnd
<1> HIDE DEF q, midnight, today, tomorrow
<1> QED BY <1>1, <1>2, <1>3, <1>4, <1>5, <1>6, <1>7, Numbers

LEMMA MaxOfTwo ==
  ASSUME NEW a \in Int, NEW b \in Int
  PROVE  Sleep!Max({a, b}) \in {a, b} /\ Sleep!Max({a, b}) >= a /\ Sleep!Max({a, b}) >= b
<1>1. \E x \in {a, b} : \A y \in {a, b} : x >= y
  OBVIOUS
<1> QED BY <1>1 DEF Sleep!Max

LEMMA MinIs ==
  ASSUME NEW S, NEW x \in S, S \subseteq Int, \A y \in S : x <= y
  PROVE  Sleep!Min(S) = x
<1>1. Sleep!Min(S) \in S /\ \A y \in S : Sleep!Min(S) <= y
  BY DEF Sleep!Min
<1>2. Sleep!Min(S) \in Int /\ x \in Int /\ Sleep!Min(S) <= x
  BY <1>1
<1>3. x <= Sleep!Min(S)
  BY <1>1, <1>2
<1> QED BY <1>2, <1>3

LEMMA MaxIs ==
  ASSUME NEW S, NEW x \in S, S \subseteq Int, \A y \in S : y <= x
  PROVE  Sleep!Max(S) = x
<1>1. Sleep!Max(S) \in S /\ \A y \in S : Sleep!Max(S) >= y
  BY DEF Sleep!Max
<1>2. Sleep!Max(S) \in Int /\ x \in Int /\ Sleep!Max(S) >= x
  BY <1>1
<1>3. x >= Sleep!Max(S)
  BY <1>1, <1>2
<1> QED BY <1>2, <1>3

LEMMA SleepSteps ==
  ASSUME Sleep!SleepWindowAssumptions, SleepInv, Sleep!Next
  PROVE  SleepInv'
<1> DEFINE bound == Days * Day
<1>1. (Days - 1) * Day = bound - Day /\ bound \in Int
  BY DEF Sleep!SleepWindowAssumptions
<1>2. PICK rate : /\ now < (Days - 1) * Day
                  /\ rate \in IF Sleep!isDeviceAsleep(now) THEN {Sleep!secondsUntilSleepEnd} ELSE Rates
                  /\ now' = now + rate /\ UNCHANGED <<start, end, changesAt, shift>>
  BY DEF Sleep!Next, Sleep!Poll
<1>3. rate \in Int /\ rate >= 1 /\ rate <= Day + HOUR
  <2>1. CASE rate \in Rates
    BY <2>1, Numbers DEF Sleep!SleepWindowAssumptions
  <2>2. CASE rate = Sleep!secondsUntilSleepEnd
    <3>1. Sleep!nextSleepEnd(end, now) - now \in Int /\ Sleep!nextSleepEnd(end, now) - now <= Day + HOUR
      BY NextIsSoon, Numbers
    <3>2. MIN_SLEEP_REFRESH_RATE \in Int
      BY Numbers
    <3> DEFINE wait == Sleep!nextSleepEnd(end, now) - now
    <3>3. /\ Sleep!Max({MIN_SLEEP_REFRESH_RATE, wait}) \in {MIN_SLEEP_REFRESH_RATE, wait}
          /\ Sleep!Max({MIN_SLEEP_REFRESH_RATE, wait}) >= MIN_SLEEP_REFRESH_RATE
      BY <3>1, <3>2, MaxOfTwo
    <3>4. rate = Sleep!Max({MIN_SLEEP_REFRESH_RATE, wait})
      BY <2>2 DEF Sleep!secondsUntilSleepEnd
    <3> HIDE DEF wait
    <3>5. wait \in Int /\ wait <= Day + HOUR
      BY <3>1 DEF wait
    <3> QED BY <3>3, <3>4, <3>5, Numbers
  <2> QED BY <1>2, <2>1, <2>2
<1> HIDE DEF bound
<1>4. now' \in Nat /\ Day <= now' /\ now' < bound + HOUR
  BY <1>1, <1>2, <1>3, Numbers
<1> QED BY <1>2, <1>4 DEF SleepInv, bound

LEMMA SleepImplies ==
  ASSUME Sleep!SleepWindowAssumptions, SleepInv
  PROVE  Sleep!EndsAsTheClockReads
<1>1. SUFFICES ASSUME ~Sleep!Skipped(end)
               PROVE  /\ Sleep!nextSleepEnd(end, now) = Sleep!Min({m \in Sleep!Readings : m > now})
                      /\ Sleep!lastSleepEnd(end, now) = Sleep!Max({m \in Sleep!Readings : m <= now})
                      /\ Sleep!isDeviceAsleep(now) /\ Sleep!isDeviceAsleep(now + Sleep!secondsUntilSleepEnd) =>
                           Sleep!secondsUntilSleepEnd = MIN_SLEEP_REFRESH_RATE
  BY DEF Sleep!EndsAsTheClockReads
<1> DEFINE next == Sleep!nextSleepEnd(end, now)
           last == Sleep!lastSleepEnd(end, now)
<1>2. /\ next \in Int /\ now < next /\ Sleep!secondsOfDay(next) = end
      /\ \A m \in Int : Sleep!secondsOfDay(m) = end /\ now < m => next <= m
  BY <1>1, NextIsFirst
<1>3. /\ last \in Int /\ 0 <= last /\ last <= now /\ Sleep!secondsOfDay(last) = end
      /\ \A m \in Int : Sleep!secondsOfDay(m) = end /\ m <= now => m <= last
  BY <1>1, LastIsLast
<1>4. (Days + 2) * Day \in Int /\ next <= (Days + 2) * Day /\ now <= (Days + 2) * Day
  <2> DEFINE bound == Days * Day
  <2>1. bound \in Int /\ (Days + 2) * Day = bound + 2 * Day
    BY DEF Sleep!SleepWindowAssumptions
  <2>2. now < bound + HOUR /\ next - now <= Day + HOUR
    BY NextIsSoon DEF SleepInv
  <2> HIDE DEF bound, next
  <2> QED BY <1>2, <2>1, <2>2, Numbers
<1>5. Sleep!Readings = {m \in 0..((Days + 2) * Day) : Sleep!secondsOfDay(m) = end} /\ Sleep!Readings \subseteq Int
  BY <1>4 DEF Sleep!Readings, Sleep!Moments
<1>6. next = Sleep!Min({m \in Sleep!Readings : m > now})
  <2> HIDE DEF next
  <2>1. next \in {m \in Sleep!Readings : m > now}
    BY <1>2, <1>4, <1>5, Numbers
  <2>2. {m \in Sleep!Readings : m > now} \subseteq Int /\ \A m \in {m \in Sleep!Readings : m > now} : next <= m
    BY <1>2, <1>5, Numbers
  <2> QED BY <2>1, <2>2, MinIs
<1>7. last = Sleep!Max({m \in Sleep!Readings : m <= now})
  <2> HIDE DEF last
  <2>1. last \in {m \in Sleep!Readings : m <= now}
    BY <1>3, <1>4, <1>5, Numbers
  <2>2. {m \in Sleep!Readings : m <= now} \subseteq Int /\ \A m \in {m \in Sleep!Readings : m <= now} : m <= last
    BY <1>3, <1>5, Numbers
  <2> QED BY <2>1, <2>2, MaxIs
<1>8. Sleep!isDeviceAsleep(now + Sleep!secondsUntilSleepEnd) => Sleep!secondsUntilSleepEnd = MIN_SLEEP_REFRESH_RATE
  <2>1. next - now \in Int /\ Sleep!secondsUntilSleepEnd = Sleep!Max({MIN_SLEEP_REFRESH_RATE, next - now})
    BY <1>2, Numbers DEF Sleep!secondsUntilSleepEnd
  <2>2. Sleep!secondsUntilSleepEnd = MIN_SLEEP_REFRESH_RATE \/ Sleep!secondsUntilSleepEnd = next - now
    <3>1. MIN_SLEEP_REFRESH_RATE \in Int
      BY Numbers
    <3>2. Sleep!Max({MIN_SLEEP_REFRESH_RATE, next - now}) \in {MIN_SLEEP_REFRESH_RATE, next - now}
      BY <2>1, <3>1, MaxOfTwo
    <3> QED BY <2>1, <3>2
  <2>3. now + (next - now) = next
    BY <1>2, Numbers
  <2>4. ~Sleep!isDeviceAsleep(next)
    BY <1>2, Numbers DEF Sleep!isDeviceAsleep
  <2> QED BY <2>2, <2>3, <2>4
<1> QED BY <1>6, <1>7, <1>8

-----------------------------------------------------------------------------
(* The parts beside each other: while one moves, the others rest.          *)

moves == LibraryMoves \/ PolicyMoves \/ ImportMoves \/ SettingMoves \/ SleepMoves \/ ScheduleMoves

ImportHolds == IF part = "import" THEN ImportInv /\ faults \in Nat ELSE run = [pc |-> "rests"]

LEMMA ImportAsPart ==
  /\ AdministrationInit => ImportHolds
  /\ ImportHolds /\ [moves]_administrationVars => ImportHolds'
<1>1. Import!ConfigurationImportAssumptions
  BY AdministrationAssumptions
<1>2. AdministrationInit => ImportHolds
  <2>1. Import!Init => ImportInv /\ faults \in Nat
    <3>1. Import!Init => ImportInv
      BY <1>1, ImportBegins
    <3>2. Import!Init => faults = 0
      BY DEF Import!Init
    <3> QED BY <3>1, <3>2
  <2> QED BY <2>1 DEF AdministrationInit, ImportHolds, RunRests
<1>3. ASSUME ImportHolds, [moves]_administrationVars PROVE ImportHolds'
  <2>1. CASE ImportMoves
    BY <1>1, <1>3, <2>1, ImportSteps, FaultsCount DEF ImportMoves, ImportHolds
  <2>2. CASE UNCHANGED administrationVars
    <3>1. UNCHANGED <<part, run, faults>>
      BY <2>2 DEF administrationVars, vars
    <3>2. UNCHANGED Import!vars
      BY <2>2 DEF administrationVars, importOnly, vars, Import!vars
    <3> QED BY <1>1, <1>3, <3>1, <3>2, ImportSteps DEF ImportHolds
  <2>3. CASE LibraryMoves \/ PolicyMoves \/ SettingMoves \/ SleepMoves \/ ScheduleMoves
    BY <1>3, <2>3 DEF ImportHolds, LibraryMoves, PolicyMoves, SettingMoves, SleepMoves, ScheduleMoves
  <2> QED BY <1>3, <2>1, <2>2, <2>3 DEF moves
<1> QED BY <1>2, <1>3

LEMMA SettingAsPart ==
  /\ AdministrationInit => (part = "setting" => SettingInv)
  /\ (part = "setting" => SettingInv) /\ [moves]_administrationVars => (part = "setting" => SettingInv)'
<1>1. Setting!DeviceSettingAssumptions
  BY AdministrationAssumptions
<1>2. AdministrationInit => (part = "setting" => SettingInv)
  BY <1>1, SettingBegins DEF AdministrationInit
<1>3. ASSUME part = "setting" => SettingInv, [moves]_administrationVars, part' = "setting"
      PROVE  SettingInv'
  <2>1. CASE SettingMoves
    BY <1>1, <1>3, <2>1, SettingSteps DEF SettingMoves
  <2>2. CASE ~SettingMoves
    <3>1. UNCHANGED administrationVars
      BY <1>3, <2>2 DEF moves, LibraryMoves, PolicyMoves, ImportMoves, SleepMoves, ScheduleMoves
    <3>2. UNCHANGED settingOnly
      BY <3>1 DEF administrationVars
    <3> QED BY <1>3, <3>1, <3>2 DEF administrationVars, settingOnly, SettingInv, SettingTyped, SavesTyped, LoadsTyped,
      NoneToTake, NewestUnderWay, Done, Comes, Setting!AtRest, Setting!unsettled
  <2> QED BY <2>1, <2>2
<1> QED BY <1>2, <1>3

LEMMA SleepAsPart ==
  /\ AdministrationInit => (part = "sleep" => SleepInv)
  /\ (part = "sleep" => SleepInv) /\ [moves]_administrationVars => (part = "sleep" => SleepInv)'
<1>1. Sleep!SleepWindowAssumptions
  BY AdministrationAssumptions
<1>2. AdministrationInit => (part = "sleep" => SleepInv)
  BY <1>1, SleepBegins DEF AdministrationInit
<1>3. ASSUME part = "sleep" => SleepInv, [moves]_administrationVars, part' = "sleep"
      PROVE  SleepInv'
  <2>1. CASE SleepMoves
    BY <1>1, <1>3, <2>1, SleepSteps DEF SleepMoves
  <2>2. CASE ~SleepMoves
    <3>1. UNCHANGED administrationVars
      BY <1>3, <2>2 DEF moves, LibraryMoves, PolicyMoves, ImportMoves, SettingMoves, ScheduleMoves
    <3>2. UNCHANGED <<part, now, start, end, changesAt, shift>>
      BY <3>1 DEF administrationVars, sleepOnly
    <3> QED BY <1>3, <3>2 DEF SleepInv
  <2> QED BY <2>1, <2>2
<1> QED BY <1>2, <1>3

LEMMA ScheduleAsPart ==
  /\ AdministrationInit => (part = "schedule" => ScheduleInv)
  /\ (part = "schedule" => ScheduleInv) /\ [moves]_administrationVars => (part = "schedule" => ScheduleInv)'
<1>1. Schedule!ScheduleWindowAssumptions
  BY AdministrationAssumptions
<1>2. AdministrationInit => (part = "schedule" => ScheduleInv)
  BY <1>1, ScheduleBegins DEF AdministrationInit
<1>3. ASSUME part = "schedule" => ScheduleInv, [moves]_administrationVars, part' = "schedule"
      PROVE  ScheduleInv'
  <2>1. CASE ScheduleMoves
    BY <1>1, <1>3, <2>1, ScheduleSteps DEF ScheduleMoves
  <2>2. CASE ~ScheduleMoves
    <3>1. UNCHANGED administrationVars
      BY <1>3, <2>2 DEF moves, LibraryMoves, PolicyMoves, ImportMoves, SettingMoves, SleepMoves
    <3>2. UNCHANGED <<part, now, schedule>>
      BY <3>1 DEF administrationVars
    <3> QED BY <1>3, <3>2 DEF ScheduleInv
  <2> QED BY <2>1, <2>2
<1> QED BY <1>2, <1>3

-----------------------------------------------------------------------------
(* The theorems.                                                           *)

\* Whatever archives are imported or checked beside Devices that register, refused,
\* cut off or killed at any point, a Device that registered is still known by the
\* apikey it sends, under one row.
THEOREM HardwareIsKnown == AdministrationSpec => []HardwareStaysKnown
<1>1. ImportHolds => HardwareStaysKnown
  BY ImportImplies DEF HardwareStaysKnown, ImportHolds
<1> QED BY <1>1, ImportAsPart, PTL DEF AdministrationSpec, moves

\* An import that is rolled back leaves no image: each image is of a Screen that is
\* there, or was.
THEOREM NoStrayImages == AdministrationSpec => []ImagesHaveScreens
<1>1. ImportHolds => ImagesHaveScreens
  BY ImportImplies DEF ImagesHaveScreens, ImportHolds
<1> QED BY <1>1, ImportAsPart, PTL DEF AdministrationSpec, moves

\* When an import comes to its end, each Screen of the archive that nobody deleted is
\* on the Device with the archived MAC address, under whatever id it has here, with
\* its image, and each Plugin has its timer.
THEOREM ArchiveIsRestored == AdministrationSpec => RestoredAsArchived
<1>1. ImportHolds /\ [moves]_administrationVars => [Import!Restores]_(Import!vars)
  <2> SUFFICES ASSUME ImportHolds, [moves]_administrationVars, ~UNCHANGED Import!vars PROVE Import!Restores
    OBVIOUS
  <2>1. CASE ImportMoves
    BY <2>1, AdministrationAssumptions, ImportRestores DEF ImportMoves, ImportHolds
  <2>2. CASE ~ImportMoves
    <3>1. part # "import"
      BY <2>2 DEF moves, LibraryMoves, PolicyMoves, SettingMoves, SleepMoves, ScheduleMoves,
        administrationVars, importOnly, vars, Import!vars
    <3>2. run.pc = "rests"
      BY <3>1 DEF ImportHolds
    <3> QED BY <3>2 DEF Import!Restores
  <2> QED BY <2>1, <2>2
<1> QED BY <1>1, ImportAsPart, PTL DEF AdministrationSpec, moves, RestoredAsArchived, Import!RestoredAsArchived

\* Whatever order saves and reads answer in, and whichever are lost, the control
\* shows what the Device has once all is quiet and the last change was sent.
THEOREM SentSettingIsShown == AdministrationSpec => []SentIsShown
<1>1. (part = "setting" => SettingInv) => SentIsShown
  BY SettingImplies DEF SentIsShown
<1> QED BY <1>1, SettingAsPart, PTL DEF AdministrationSpec, moves

\* For days and hours of any length, whatever hour is skipped or repeated: the next and
\* the last end of the window are the moments the clock reads it, and a Device asleep
\* polls next when it is awake, or as soon as it may.
THEOREM SleepEndsByTheClock == AdministrationSpec => []EndsAsTheClockReads
<1>1. (part = "sleep" => SleepInv) => EndsAsTheClockReads
  BY AdministrationAssumptions, SleepImplies DEF EndsAsTheClockReads
<1> QED BY <1>1, SleepAsPart, PTL DEF AdministrationSpec, moves

\* For any weekdays, dates and hours: the Screen shows in the windows that begin on a
\* day its Schedule is for, past midnight too, and at no other time.
THEOREM WindowsStartOnTheirDay == AdministrationSpec => []WindowsBelongToTheirDay
<1>1. (part = "schedule" => ScheduleInv) => WindowsBelongToTheirDay
  BY AdministrationAssumptions, ScheduleShows DEF WindowsBelongToTheirDay
<1> QED BY <1>1, ScheduleAsPart, PTL DEF AdministrationSpec, moves
=============================================================================
