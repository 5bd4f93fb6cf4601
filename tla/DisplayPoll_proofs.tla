------------------------- MODULE DisplayPoll_proofs -------------------------
(***************************************************************************)
(* Theorems about Rotation and DisplayPoll, for any number of Screens,     *)
(* Special Functions, Firmware, PATCH bodies and events.                   *)
(***************************************************************************)
EXTENDS DisplayPoll, WellFoundedInduction, FiniteSetTheorems, SequenceTheorems, TLAPS

-----------------------------------------------------------------------------
(* What nextEligibleScreen answers, for every sequence of Screens.         *)

\* A nonempty set of naturals has the least element Min chooses.
LEMMA MinOfNaturals ==
  ASSUME NEW S \in SUBSET Nat, S # {}
  PROVE  Min(S) \in S /\ \A k \in S : Min(S) <= k
<1>1. PICK m \in S : \A k \in S : ~(<<k, m>> \in OpToRel(<, Nat))
  BY NatLessThanWellFounded, WFMin
<1>2. ASSUME NEW k \in S PROVE m <= k
  <2>1. <<k, m>> \in Nat \X Nat /\ ~(<<k, m>>[1] < <<k, m>>[2])
    BY <1>1 DEF OpToRel
  <2> QED BY <2>1
<1> QED BY <1>1, <1>2 DEF Min

\* The Active Screen's position is one of the list's, or 0.
LEMMA ActiveIndexInList ==
  ASSUME NEW S, NEW list \in Seq(S), NEW active
  PROVE  ActiveIndex(list, active) \in 0..Len(list)
<1> DEFINE positions == {i \in DOMAIN list : list[i] \in active}
<1>1. positions \in SUBSET Nat /\ positions \subseteq 1..Len(list)
  OBVIOUS
<1>2. CASE positions = {}
  BY <1>2 DEF ActiveIndex
<1>3. CASE positions # {}
  <2>1. Min(positions) \in positions
    BY <1>1, <1>3, MinOfNaturals
  <2> QED BY <2>1, <1>1, <1>3 DEF ActiveIndex
<1> QED BY <1>2, <1>3

\* Every place of the scan is a Screen of the list ...
LEMMA ScannedInList ==
  ASSUME NEW S, NEW list \in Seq(S), list # <<>>, NEW active, NEW k \in Nat
  PROVE  Scanned(list, active, k) \in Range(list)
<1>1. ActiveIndex(list, active) \in 0..Len(list) /\ Len(list) \in Nat \ {0}
  BY ActiveIndexInList
<1>2. ((ActiveIndex(list, active) + k) % Len(list)) + 1 \in 1..Len(list)
  BY <1>1
<1> QED BY <1>2 DEF Scanned, Range

\* ... and every Screen of the list has its place in the scan.
LEMMA ScanCoversList ==
  ASSUME NEW S, NEW list \in Seq(S), NEW active, NEW screen \in Range(list)
  PROVE  \E k \in 0..(Len(list) - 1) : Scanned(list, active, k) = screen
<1>1. PICK j \in 1..Len(list) : list[j] = screen
  BY DEF Range
<1>2. PICK a \in 0..Len(list) : a = ActiveIndex(list, active)
  BY ActiveIndexInList
<1>3. PICK n \in Nat : n = Len(list) /\ j \in 1..n /\ a \in 0..n
  OBVIOUS
<1>4. PICK k \in 0..(n - 1) : a + k = j - 1 \/ a + k = j - 1 + n
  <2>1. CASE j - 1 >= a
    <3>1. j - 1 - a \in 0..(n - 1) /\ a + (j - 1 - a) = j - 1
      BY <1>3, <2>1
    <3> QED BY <3>1
  <2>2. CASE ~(j - 1 >= a)
    <3>1. j - 1 - a + n \in 0..(n - 1) /\ a + (j - 1 - a + n) = j - 1 + n
      BY <1>3, <2>2
    <3> QED BY <3>1
  <2> QED BY <2>1, <2>2
<1>5. (a + k) % n = j - 1
  <2>1. j - 1 \in 0..(n - 1) /\ n > 0
    BY <1>3
  <2>2. (j - 1) % n = j - 1 /\ (j - 1 + n) % n = j - 1
    BY <2>1, <1>3
  <2> QED BY <2>2, <1>4
<1>6. Scanned(list, active, k) = list[((a + k) % n) + 1]
  BY <1>2, <1>3 DEF Scanned
<1>7. (j - 1) + 1 = j
  OBVIOUS
<1> QED BY <1>1, <1>3, <1>4, <1>5, <1>6, <1>7

\* The scan turns to a Screen of the list that is not passed over, and to
\* none only when all of them are.
LEMMA FirstInScanIsEligible ==
  ASSUME NEW S, NEW list \in Seq(S), NoScreen \notin S, NEW active, NEW passed
  PROVE  LET next == FirstInScan(list, active, passed)
         IN  IF next = NoScreen THEN Range(list) \subseteq passed
                                ELSE next \in Range(list) \ passed
<1> DEFINE eligible == {k \in 0..(Len(list) - 1) : Scanned(list, active, k) \notin passed}
<1>1. CASE eligible = {}
  <2>1. FirstInScan(list, active, passed) = NoScreen
    BY <1>1 DEF FirstInScan
  <2>2. Range(list) \subseteq passed
    <3>1. SUFFICES ASSUME NEW screen \in Range(list) PROVE screen \in passed
      OBVIOUS
    <3>2. PICK k \in 0..(Len(list) - 1) : Scanned(list, active, k) = screen
      BY ScanCoversList
    <3> QED BY <1>1, <3>2
  <2> QED BY <2>1, <2>2
<1>2. CASE eligible # {}
  <2>1. eligible \in SUBSET Nat
    OBVIOUS
  <2>2. Min(eligible) \in eligible
    BY <1>2, <2>1, MinOfNaturals
  <2>3. list # <<>>
    BY <1>2
  <2>4. Scanned(list, active, Min(eligible)) \in Range(list) \ passed
    BY <2>1, <2>2, <2>3, ScannedInList
  <2>5. FirstInScan(list, active, passed) = Scanned(list, active, Min(eligible))
    BY <1>2 DEF FirstInScan
  <2>6. NoScreen \notin Range(list)
    BY DEF Range
  <2> QED BY <2>4, <2>5, <2>6
<1> QED BY <1>1, <1>2

\* nextEligibleScreen answers a Screen of the list that Rotation does not pass
\* over, and answers null only when it passes over all of them: whatever is
\* picked, active or held under Manual Rotation.
THEOREM NextEligibleScreenIsEligible ==
  ASSUME NEW S, NEW list \in Seq(S), NoScreen \notin S,
         NEW active, NEW passed, NEW picked, NEW stay \in BOOLEAN
  PROVE  LET next == NextEligibleScreen(list, active, passed, picked, stay)
         IN  IF next = NoScreen THEN Range(list) \subseteq passed
                                ELSE next \in Range(list) \ passed
<1> DEFINE next == NextEligibleScreen(list, active, passed, picked, stay)
<1>0. NoScreen \notin Range(list)
  BY DEF Range
<1>1. CASE picked \in Range(list) \ passed
  BY <1>0, <1>1 DEF NextEligibleScreen
<1>2. CASE picked \notin Range(list) \ passed /\ KeepsTurn(list, active, passed, stay)
  <2>1. ActiveIndex(list, active) \in 1..Len(list) /\ list[ActiveIndex(list, active)] \notin passed
    BY <1>2, ActiveIndexInList DEF KeepsTurn
  <2>2. list[ActiveIndex(list, active)] \in Range(list)
    BY <2>1 DEF Range
  <2> QED BY <1>0, <1>2, <2>1, <2>2 DEF NextEligibleScreen
<1>3. CASE picked \notin Range(list) \ passed /\ ~KeepsTurn(list, active, passed, stay)
  <2>1. next = FirstInScan(list, active, passed)
    BY <1>3 DEF NextEligibleScreen
  <2> QED BY <2>1, FirstInScanIsEligible
<1> QED BY <1>1, <1>2, <1>3

-----------------------------------------------------------------------------
(* Typing.                                                                 *)

\* A list of a finite set's members in Order is a sequence of them.
LEMMA InOrderIsSequence ==
  ASSUME NEW S, IsFiniteSet(S), NEW ord, NEW list \in InOrder(S, ord)
  PROVE  list \in Seq(S) /\ Range(list) \subseteq S
<1>1. Cardinality(S) \in Nat
  BY FS_CardinalityType
<1>2. list \in [1..Cardinality(S) -> S]
  BY DEF InOrder
<1>3. list \in Seq(S)
  BY <1>1, <1>2, SeqDef
<1> QED BY <1>2, <1>3 DEF Range

LEMMA ConstantTypes ==
  /\ NewDevice \in Rows
  /\ NoView \in Views
  /\ IdlePoll \in PollRecords
  /\ IdlePatch \in [from: {"none", "admin", "device"}, row: Rows]
<1> USE DisplayPollAssumptions
<1>1. NewDevice \in Rows
  BY DEF NewDevice, Rows, NoFunction
<1>2. NoView \in Views
  <2>1. <<>> \in Seq(Screens)
    OBVIOUS
  <2> QED BY <2>1 DEF NoView, Views, Signals
<1>3. IdlePoll \in PollRecords
  BY <1>1, <1>2 DEF IdlePoll, PollRecords, Signals, Answers
<1> QED BY <1>1, <1>3, <1>2 DEF IdlePatch

LEMMA PollBecomes ==
  ASSUME TypeOK, NEW p \in Polls, NEW r \in PollRecords, r.pc = "render" => r.screen \in Screens, Become(p, r)
  PROVE  /\ poll' \in [Polls -> PollRecords] /\ poll'[p] = r
         /\ \A q \in Polls : At(q, {"render"})' => poll'[q].screen \in Screens
         /\ \A q \in Polls \ {p} : poll'[q] = poll[q]
BY DEF TypeOK, Become, At

\* Candidate answers a Screen of the list the poll read, or none.
LEMMA CandidateInList ==
  ASSUME TypeOK, NEW p \in Polls
  PROVE  /\ Candidate(p) \in Screens \cup {NoScreen}
         /\ Candidate(p) # NoScreen => Candidate(p) \in Range(poll[p].view.list)
<1> DEFINE list == poll[p].view.list
<1>1. list \in Seq(Screens) /\ poll[p].stay \in BOOLEAN
  BY DEF TypeOK, PollRecords, Views
<1>2. Range(list) \subseteq Screens
  BY <1>1 DEF Range
<1>3. CASE OutOfAttempts(poll[p].attempt, list)
  BY <1>3 DEF Candidate
<1>4. CASE ~OutOfAttempts(poll[p].attempt, list)
  <2> DEFINE next == NextEligibleScreen(list, poll[p].view.active, poll[p].view.passed,
                                        poll[p].seen.pickedScreen, poll[p].stay)
  <2>1. Candidate(p) = next
    BY <1>4 DEF Candidate
  <2>2. next # NoScreen => next \in Range(list)
    BY <1>1, DisplayPollAssumptions, NextEligibleScreenIsEligible
  <2> QED BY <1>2, <2>1, <2>2
<1> QED BY <1>3, <1>4

LEMMA TypeInit == Init => TypeOK
<1> SUFFICES ASSUME Init PROVE TypeOK
  OBVIOUS
<1>1. Cardinality(Screens) \in Nat
  BY DisplayPollAssumptions, FS_CardinalityType
<1>2. order \in [Screens -> Nat]
  BY <1>1 DEF Init
<1>3. device \in Rows /\ device.apikey = 0
  BY ConstantTypes DEF Init, NewDevice
<1>4. poll \in [Polls -> PollRecords] /\ \A p \in Polls : ~At(p, {"render"})
  BY ConstantTypes DEF Init, At, IdlePoll
<1>5. patch \in [Admins -> [from: {"none", "admin", "device"}, row: Rows]]
  BY ConstantTypes DEF Init
<1>6. renderSignal \in [Screens -> Signals]
  BY DEF Init, Signals
<1>7. /\ gone \in SUBSET Screens /\ orphans \in SUBSET Screens /\ isActive \in SUBSET Screens
      /\ scheduleShuts \in SUBSET Screens /\ asleep \in BOOLEAN
  BY DEF Init, Existing
<1>8. /\ deviceKey \in 0..MaxKeys \cup {Erased}
      /\ keys \in 0..MaxKeys /\ events \in 0..MaxEvents /\ failures \in 0..MaxFailures
  BY <1>3, DisplayPollAssumptions DEF Init
<1>9. /\ owed \in SUBSET Commands /\ unasked \in SUBSET Commands
      /\ lockedOut \in BOOLEAN
  BY DEF Init
<1> QED BY <1>2, <1>3, <1>4, <1>5, <1>6, <1>7, <1>8, <1>9 DEF TypeOK

\* Whatever a poll does, its record keeps its shape and the others' stand.
LEMMA PollMoves ==
  ASSUME TypeOK, NEW p \in Polls, PollStep(p) \/ Fail(p)
  PROVE  /\ poll' \in [Polls -> PollRecords]
         /\ \A q \in Polls : At(q, {"render"})' => poll'[q].screen \in Screens
         /\ \A q \in Polls \ {p} : poll'[q] = poll[q]
<1>1. poll[p] \in PollRecords /\ poll[p].view \in Views /\ poll[p].screen \in Screens \cup {NoScreen}
  BY DEF TypeOK, PollRecords
<1>2. SUFFICES \E r \in PollRecords : Become(p, r) /\ (r.pc = "render" => r.screen \in Screens)
  BY PollBecomes
<1>3. CASE Authenticate(p)
  <2>1. PICK button \in BOOLEAN, push \in Firmware \cup {NoFirmware} :
          Become(p, [IdlePoll EXCEPT !.pc = "answer", !.seen = device, !.push = push,
                                     !.stay = device.rotationMode = "manual" /\ ~button])
    <3>1. PushPending(device) => device.targetFirmware \in Firmware \cup {NoFirmware}
      BY DEF TypeOK, Rows
    <3> QED BY <1>3, <3>1 DEF Authenticate
  <2> DEFINE r == [IdlePoll EXCEPT !.pc = "answer", !.seen = device, !.push = push,
                                   !.stay = device.rotationMode = "manual" /\ ~button]
  <2>2. r \in PollRecords /\ r.pc = "answer"
    BY ConstantTypes DEF TypeOK, PollRecords
  <2> QED BY <2>1, <2>2
<1>4. CASE AnswerWipe(p) \/ AnswerMirror(p) \/ AnswerAsleep(p)
  <2>1. PICK answer \in Answers : Become(p, [poll[p] EXCEPT !.pc = "acknowledge", !.answer = answer])
    BY <1>4 DEF AnswerWipe, AnswerMirror, AnswerAsleep, Answer, Answers
  <2> DEFINE r == [poll[p] EXCEPT !.pc = "acknowledge", !.answer = answer]
  <2>2. r \in PollRecords /\ r.pc = "acknowledge"
    BY <1>1 DEF PollRecords, Acknowledging
  <2> QED BY <2>1, <2>2
<1>5. CASE LoadScreens(p)
  <2> DEFINE view(list) == [list |-> list, order |-> order, active |-> isActive,
                            signal |-> [s \in Screens |-> renderSignal[s]],
                            passed |-> PassedOver(scheduleShuts, {s \in Existing : Remembered(s) = "skip"})]
             r(list) == [poll[p] EXCEPT !.pc = "rotate", !.view = view(list)]
  <2>1. PICK list \in InOrder(Existing, order) : Become(p, r(list))
    BY <1>5 DEF LoadScreens
  <2>2. IsFiniteSet(Existing)
    BY FS_Subset, DisplayPollAssumptions DEF Existing
  <2>3. list \in Seq(Existing)
    BY <2>2, InOrderIsSequence
  <2>4. list \in Seq(Screens)
    BY <2>3 DEF Existing
  <2>5. view(list) \in Views
    BY <2>4 DEF TypeOK, Views, PassedOver, Existing
  <2>6. r(list) \in PollRecords /\ r(list).pc = "rotate"
    BY <1>1, <2>5 DEF PollRecords, Choosing
  <2> QED BY <2>1, <2>6
<1>6. CASE \/ NothingEligible(p) \/ ServeHeld(p)
           \/ RenderedShown(p) \/ RenderedExternal(p) \/ RenderedDeletedExternal(p) \/ RenderedHeld(p)
  <2>1. PICK screen \in Screens \cup {NoScreen}, signal \in Signals : Show(p, screen, signal)
    BY <1>1, <1>6, CandidateInList
       DEF NothingEligible, ServeHeld, RenderedShown, RenderedExternal, RenderedDeletedExternal, RenderedHeld, Signals
  <2> DEFINE answer == IF screen = NoScreen THEN "noScreen" ELSE "screen"
             r == [poll[p] EXCEPT !.pc = "moveOn", !.screen = screen, !.signal = signal, !.answer = answer]
  <2>2. answer \in Answers
    BY DEF Answers
  <2>3. r \in PollRecords /\ r.pc = "moveOn"
    BY <1>1, <2>2 DEF PollRecords, Moving
  <2> QED BY <2>1, <2>3 DEF Show
<1>7. CASE BeginRender(p)
  <2> DEFINE r == [poll[p] EXCEPT !.pc = "render", !.screen = Candidate(p)]
  <2>1. Become(p, r) /\ Candidate(p) \in Screens
    BY <1>7, CandidateInList DEF BeginRender
  <2>2. r \in PollRecords /\ r.screen = Candidate(p)
    BY <1>1, <2>1 DEF PollRecords, Choosing
  <2> QED BY <2>1, <2>2
<1>8. CASE RenderedSkipped(p)
  <2> DEFINE view == [poll[p].view EXCEPT !.passed = @ \cup {poll[p].screen}]
             r == [poll[p] EXCEPT !.pc = "rotate", !.attempt = @ + 1, !.screen = NoScreen, !.view = view]
  <2>1. poll[p].screen \in Screens
    BY <1>8 DEF RenderedSkipped, TypeOK
  <2>2. view \in Views
    BY <1>1, <2>1 DEF Views
  <2>3. ASSUME NEW v \in Views, NEW n \in Nat
        PROVE  [poll[p] EXCEPT !.pc = "rotate", !.attempt = n, !.screen = NoScreen, !.view = v] \in PollRecords
    BY <1>1 DEF PollRecords, Choosing
  <2>4. poll[p].attempt + 1 \in Nat
    BY <1>1 DEF PollRecords
  <2>5. r \in PollRecords /\ r.pc = "rotate"
    <3>1. r \in PollRecords
      BY <2>2, <2>3, <2>4
    <3> QED BY <1>1, <3>1 DEF PollRecords
  <2>6. Become(p, r)
    BY <1>8 DEF RenderedSkipped
  <2> QED BY <2>5, <2>6
<1>9. CASE Activate(p)
  <2> DEFINE r == [poll[p] EXCEPT !.pc = "acknowledge", !.view = NoView]
  <2>1. r \in PollRecords /\ r.pc = "acknowledge"
    BY <1>1, ConstantTypes DEF PollRecords, Acknowledging
  <2> QED BY <1>9, <2>1 DEF Activate
<1>10. CASE \/ MoveOn(p) \/ ClearPick(p)
            \/ Acknowledge(p) \/ AcknowledgeFunction(p) \/ AcknowledgeFirmware(p)
  <2>1. PICK pc \in {"clearPick", "activate", "ackFunction", "ackFirmware", "send"} : Goto(p, pc)
    BY <1>10 DEF MoveOn, ClearPick, Acknowledge, AcknowledgeFunction, AcknowledgeFirmware
  <2> DEFINE r == [poll[p] EXCEPT !.pc = pc]
  <2>2. r \in PollRecords /\ r.pc = pc
    BY <1>1 DEF PollRecords, Moving, Acknowledging
  <2> QED BY <2>1, <2>2 DEF Goto
<1>11. CASE Send(p) \/ Fail(p)
  BY <1>11, ConstantTypes DEF Send, Fail, IdlePoll
<1> QED BY <1>2, <1>3, <1>4, <1>5, <1>6, <1>7, <1>8, <1>9, <1>10, <1>11 DEF PollStep

LEMMA PollFails ==
  ASSUME TypeOK, NEW p \in Polls, Fail(p)
  PROVE  poll'[p] = IdlePoll /\ poll'[p].pc = "idle"
BY DEF TypeOK, Fail, Become, IdlePoll

\* From here on a leaf sees through the helper that writes a poll's record.
USE DEF Become

LEMMA TypeStep == TypeOK /\ [Next]_vars => TypeOK'
<1> SUFFICES ASSUME TypeOK, [Next]_vars PROVE TypeOK'
  OBVIOUS
<1>0. /\ MaxEvents \in Nat /\ MaxFailures \in Nat /\ MaxKeys \in Nat
      /\ \A change \in Changes, row \in Rows : Merged(change, row) \in Rows
      /\ ExternalScreens \subseteq Screens
  BY DisplayPollAssumptions
<1>1. ASSUME NEW p \in Polls, PollStep(p) PROVE TypeOK'
  <2>1. poll[p] \in PollRecords /\ poll[p].view \in Views
    BY DEF TypeOK, PollRecords
  <2>2. /\ poll' \in [Polls -> PollRecords]
        /\ \A q \in Polls : At(q, {"render"})' => poll'[q].screen \in Screens
    BY <1>1, PollMoves
  <2>3. CASE \/ Authenticate(p) \/ AnswerWipe(p) \/ AnswerMirror(p) \/ AnswerAsleep(p) \/ LoadScreens(p)
             \/ NothingEligible(p) \/ ServeHeld(p) \/ BeginRender(p) \/ RenderedShown(p)
    <3>1. UNCHANGED <<device, rows, moment, deviceKey, patch, bounds, ghosts>>
      BY <2>3 DEF Authenticate, AnswerWipe, AnswerMirror, AnswerAsleep, Answer, LoadScreens, NothingEligible,
         ServeHeld, BeginRender, RenderedShown
    <3>2. /\ UNCHANGED <<device, order, gone, orphans, isActive, renderSignal, scheduleShuts, asleep, deviceKey>>
          /\ UNCHANGED <<patch, keys, events, failures, owed, unasked, lockedOut>>
      BY <3>1 DEF rows, deleted, moment, bounds, ghosts
    <3> QED BY <2>2, <3>2 DEF TypeOK
  <2>4. CASE RenderedExternal(p) \/ RenderedDeletedExternal(p)
    <3>1. poll[p].screen \in Screens
      BY <1>0, <2>4 DEF RenderedExternal, RenderedDeletedExternal
    <3>2. order' \in [Screens -> Nat] /\ renderSignal' \in [Screens -> Signals]
      <4>1. poll[p].view.order \in [Screens -> Nat] /\ poll[p].view.signal \in [Screens -> Signals]
        BY <2>1 DEF Views
      <4>2. CASE RenderedExternal(p)
        BY <3>1, <4>1, <4>2 DEF RenderedExternal, TypeOK
      <4>3. CASE RenderedDeletedExternal(p)
        BY <4>3 DEF RenderedDeletedExternal, TypeOK
      <4> QED BY <2>4, <4>2, <4>3
    <3>3. isActive' \in SUBSET Screens /\ orphans' \in SUBSET Screens /\ gone' \in SUBSET Screens
      BY <2>4, <3>1 DEF RenderedExternal, RenderedDeletedExternal, TypeOK, deleted
    <3> QED BY <2>2, <2>4, <3>2, <3>3 DEF RenderedExternal, RenderedDeletedExternal, TypeOK, moment, bounds, ghosts
  <2>5. CASE RenderedHeld(p) \/ RenderedSkipped(p)
    <3>1. renderSignal' \in [Screens -> Signals]
      BY <2>1, <2>5 DEF RenderedHeld, RenderedSkipped, WriteSignal, TypeOK, Signals, Existing
    <3> QED BY <2>2, <2>5, <3>1 DEF RenderedHeld, RenderedSkipped, TypeOK, deleted, moment, bounds, ghosts
  <2>6. CASE MoveOn(p) \/ ClearPick(p) \/ Activate(p)
    <3>1. isActive' \in SUBSET Screens
      BY <2>6 DEF MoveOn, ClearPick, Activate, TurnCleared, TypeOK, Existing, rows
    <3>2. device' \in Rows
      BY <2>6 DEF MoveOn, ClearPick, Activate, PickCleared, TypeOK, Rows
    <3>3. renderSignal' \in [Screens -> Signals]
      BY <2>1, <2>6 DEF MoveOn, ClearPick, Activate, WriteSignal, TypeOK, PollRecords, Signals, Existing,
           rows, ghosts
    <3> QED BY <2>2, <2>6, <3>1, <3>2, <3>3 DEF MoveOn, ClearPick, Activate, TypeOK, rows, deleted, moment,
                 bounds, ghosts
  <2>7. CASE Acknowledge(p)
    <3> DEFINE seen == poll[p].seen
    <3>1. seen \in Rows /\ device \in Rows /\ keys \in 0..MaxKeys
      BY <2>1 DEF TypeOK, PollRecords
    <3>2. keys' \in 0..MaxKeys /\ (Rotates(seen) => keys + 1 \in 0..MaxKeys)
      BY <1>0, <2>7, <3>1 DEF Acknowledge
    <3>3. Delivered(device, seen, keys + 1) \in Rows
      <4>1. /\ (device.resetDevice /\ ~seen.resetDevice) \in BOOLEAN
            /\ (device.wipe /\ ~seen.wipe) \in BOOLEAN
            /\ (device.resetDeviceNewApikey /\ ~seen.resetDeviceNewApikey) \in BOOLEAN
        OBVIOUS
      <4>2. (IF Rotates(seen) THEN keys + 1 ELSE device.apikey) \in 0..MaxKeys
        BY <3>1, <3>2 DEF Rows
      <4>3. ASSUME NEW r \in BOOLEAN, NEW w \in BOOLEAN, NEW n \in BOOLEAN, NEW k \in 0..MaxKeys
            PROVE  [device EXCEPT !.resetDevice = r, !.wipe = w, !.apikey = k,
                                  !.resetDeviceNewApikey = n] \in Rows
        BY <3>1 DEF Rows
      <4> QED BY <4>1, <4>2, <4>3 DEF Delivered
    <3>4. owed' \in SUBSET Commands /\ unasked' \in SUBSET Commands
      BY <2>7 DEF Acknowledge, Fire, TypeOK, Commands
    <3> QED BY <2>2, <2>7, <3>2, <3>3, <3>4 DEF Acknowledge, TypeOK, rows, deleted, moment
  <2>8. CASE AcknowledgeFunction(p)
    <3>1. device' \in Rows
      BY <2>8 DEF AcknowledgeFunction, ClearedFunction, TypeOK, Rows
    <3>2. poll[p].seen.specialFunction \in Functions \cup {NoFunction}
      BY <2>1 DEF PollRecords, Rows
    <3>3. owed' \in SUBSET Commands /\ unasked' \in SUBSET Commands
      BY <2>8, <3>2 DEF AcknowledgeFunction, Fire, TypeOK, Commands
    <3> QED BY <2>2, <2>8, <3>1, <3>3 DEF AcknowledgeFunction, TypeOK, rows, deleted, moment, bounds
  <2>9. CASE AcknowledgeFirmware(p) \/ Send(p)
    <3>1. device' \in Rows
      <4>1. [device EXCEPT !.updateFirmware = FALSE] \in Rows
        BY DEF TypeOK, Rows
      <4> QED BY <2>9, <4>1 DEF AcknowledgeFirmware, ClearedPush, Send, TypeOK
    <3> QED BY <2>2, <2>9, <3>1 DEF AcknowledgeFirmware, Send, TypeOK, rows, deleted, moment, bounds, ghosts
  <2> QED BY <1>1, <2>3, <2>4, <2>5, <2>6, <2>7, <2>8, <2>9 DEF PollStep
<1>2. ASSUME NEW p \in Polls, Fail(p) PROVE TypeOK'
  <2>1. /\ poll' \in [Polls -> PollRecords]
        /\ \A q \in Polls : At(q, {"render"})' => poll'[q].screen \in Screens
    BY <1>2, PollMoves
  <2>2. failures' \in 0..MaxFailures /\ lockedOut' \in BOOLEAN
    BY <1>0, <1>2 DEF Fail, At, TypeOK
  <2> QED BY <1>2, <2>1, <2>2 DEF Fail, TypeOK, rows, deleted, moment
<1>3. ASSUME NEW a \in Admins, AdminStep(a) PROVE TypeOK'
  <2>1. CASE PatchLoad(a)
    BY <1>0, <2>1 DEF PatchLoad, TypeOK, At, rows, deleted, moment, ghosts
  <2>2. CASE PatchSave(a)
    <3>1. PICK change \in Changes :
            Saved(a, Merged(change, patch[a].row)) /\ owed' = owed \cup Asked(change)
      BY <1>0, <2>2 DEF PatchSave
    <3>2. Merged(change, patch[a].row) \in Rows
      BY <1>0 DEF TypeOK, At
    <3>3. owed' \in SUBSET Commands
      <4>1. change.specialFunction \in Functions \cup {NoFunction}
            \/ "specialFunction" \notin DOMAIN change
        BY <3>2 DEF TypeOK, At, Rows, Merged
      <4> QED BY <3>1, <4>1 DEF TypeOK, At, Asked, Commands
    <3>4. patch' \in [Admins -> [from: {"none", "admin", "device"}, row: Rows]]
      BY <3>1, ConstantTypes DEF Saved, TypeOK, At
    <3> QED BY <1>0, <2>2, <3>1, <3>2, <3>3, <3>4 DEF PatchSave, Saved, TypeOK, At, rows, deleted, moment
  <2>3. CASE RegenerateApikey(a)
    <3>1. [patch[a].row EXCEPT !.apikey = keys + 1] \in Rows /\ keys + 1 \in 0..MaxKeys
      <4>1. keys + 1 \in 0..MaxKeys
        BY <1>0, <2>3 DEF RegenerateApikey, TypeOK
      <4>2. patch[a].row \in Rows
        BY DEF TypeOK
      <4> QED BY <4>1, <4>2 DEF Rows
    <3>2. patch' \in [Admins -> [from: {"none", "admin", "device"}, row: Rows]]
      BY <1>0, <2>3, ConstantTypes DEF RegenerateApikey, Saved, TypeOK, At
    <3> QED BY <1>0, <2>3, <3>1, <3>2 DEF RegenerateApikey, Saved, TypeOK, At, rows, deleted, moment
  <2>4. CASE PatchEnds(a)
    <3>1. patch' \in [Admins -> [from: {"none", "admin", "device"}, row: Rows]]
      BY <1>0, <2>4, ConstantTypes DEF PatchEnds, TypeOK, At
    <3> QED BY <1>0, <2>4, <3>1 DEF PatchEnds, TypeOK, At, rows, deleted, moment, bounds, ghosts
  <2> QED BY <1>3, <2>1, <2>2, <2>3, <2>4 DEF AdminStep
<1>4. ASSUME NEW s \in Screens, ScreenEvent(s) PROVE TypeOK'
  <2>1. CASE ScheduleTurns(s)
    BY <1>0, <2>1 DEF ScheduleTurns, Event, TypeOK, At, rows, deleted, ghosts
  <2>2. CASE PickScreen(s)
    <3>1. device' \in Rows
      BY <1>0, <2>2 DEF PickScreen, TypeOK, At, Rows
    <3> QED BY <1>0, <2>2, <3>1 DEF PickScreen, Event, TypeOK, At, rows, deleted, moment, ghosts
  <2>3. CASE RenewOutput(s)
    <3>1. renderSignal' \in [Screens -> Signals]
      BY <1>0, <2>3 DEF RenewOutput, TypeOK, At, Signals
    <3>2. events' \in 0..MaxEvents
      BY <1>0, <2>3 DEF RenewOutput, Event, TypeOK, At
    <3> QED BY <1>0, <2>3, <3>1, <3>2 DEF RenewOutput, TypeOK, At, deleted, moment, ghosts
  <2>4. CASE DeleteScreen(s)
    <3>1. order' \in [Screens -> Nat]
      BY <1>0, <2>4 DEF DeleteScreen, GapClosed, TypeOK, At
    <3>2. device' \in Rows
      BY <1>0, <2>4 DEF DeleteScreen, TypeOK, At, Rows
    <3>3. renderSignal' \in [Screens -> Signals]
      BY <1>0, <2>4 DEF DeleteScreen, TypeOK, At, Signals
    <3>4. /\ isActive' \in SUBSET Screens
          /\ scheduleShuts' \in SUBSET Screens /\ gone' \in SUBSET Screens
      BY <1>0, <2>4 DEF DeleteScreen, TypeOK, At
    <3> QED BY <1>0, <2>4, <3>1, <3>2, <3>3, <3>4 DEF DeleteScreen, Event, TypeOK, At, ghosts
  <2>5. CASE AddScreen(s)
    BY <1>0, <2>5 DEF AddScreen, Event, TypeOK, At, deleted, moment, ghosts
  <2> QED BY <1>4, <2>1, <2>2, <2>3, <2>4, <2>5 DEF ScreenEvent
<1>5. CASE SleepTurns
  BY <1>0, <1>5 DEF SleepTurns, Event, TypeOK, At, rows, deleted, ghosts
<1>6. CASE ClearPickByAdmin
  <2>1. device' \in Rows
    BY <1>0, <1>6 DEF ClearPickByAdmin, TypeOK, At, Rows
  <2> QED BY <1>0, <1>6, <2>1 DEF ClearPickByAdmin, Event, TypeOK, At, rows, deleted, moment, ghosts
<1>7. ASSUME NEW a \in Admins, SetUpStep(a) PROVE TypeOK'
  <2>1. patch[a].row \in Rows /\ patch[a].row.apikey \in 0..MaxKeys /\ device \in Rows
    BY DEF TypeOK, Rows
  <2>2. patch' \in [Admins -> [from: {"none", "admin", "device"}, row: Rows]]
    BY <1>7, <2>1, ConstantTypes DEF SetUpStep, LoadForSetUp, SetUp, Saved, TypeOK
  <2>3. CASE LoadForSetUp(a)
    BY <1>0, <2>2, <2>3 DEF LoadForSetUp, TypeOK, At, rows, deleted, moment, bounds, ghosts
  <2>4. CASE SetUp(a)
    BY <1>0, <2>1, <2>2, <2>4 DEF SetUp, Saved, TypeOK, At, rows, deleted, moment
  <2> QED BY <1>7, <2>3, <2>4 DEF SetUpStep
<1>8. CASE UNCHANGED vars
  BY <1>0, <1>8 DEF vars, TypeOK, At, rows, deleted, moment, bounds, ghosts
<1> QED BY <1>1, <1>2, <1>3, <1>4, <1>5, <1>6, <1>7, <1>8 DEF Next

\* Every row and every handler keeps its shape (TypeOK), whatever polls,
\* admins and failures do, and however many there are.
THEOREM TypeCorrect == Spec => []TypeOK
<1>1. Init => TypeOK
  BY TypeInit
<1>2. TypeOK /\ [Next]_vars => TypeOK'
  BY TypeStep
<1> QED BY <1>1, <1>2, PTL DEF Spec

\* Only a poll's own steps, and its failure, change its record.
LEMMA OthersLeavePolls ==
  ASSUME [Next]_vars
  PROVE  \/ \E p \in Polls : PollStep(p) \/ Fail(p)
         \/ UNCHANGED poll
<1>1. ASSUME NEW a \in Admins, AdminStep(a) PROVE UNCHANGED poll
  BY <1>1 DEF AdminStep, PatchLoad, PatchSave, RegenerateApikey, PatchEnds, Saved
<1>4. ASSUME NEW a \in Admins, SetUpStep(a) PROVE UNCHANGED poll
  BY <1>4 DEF SetUpStep, LoadForSetUp, SetUp, Saved
<1>2. ASSUME NEW s \in Screens, ScreenEvent(s) PROVE UNCHANGED poll
  BY <1>2 DEF ScreenEvent, ScheduleTurns, PickScreen, RenewOutput, DeleteScreen, AddScreen
<1>3. CASE SleepTurns \/ ClearPickByAdmin \/ UNCHANGED vars
  BY <1>3 DEF SleepTurns, ClearPickByAdmin, vars
<1> QED BY <1>1, <1>2, <1>3, <1>4 DEF Next

-----------------------------------------------------------------------------
(* One Active Screen, when the Device sends one poll at a time.            *)

OnePollAtATime == \A p, q \in Polls : p = q

\* What a poll that has not moved on yet knows of the turn
HoldsView(p) ==
  LET view == poll[p].view
  IN  /\ isActive = view.active \cap Existing
      /\ view.active \subseteq Existing \cup gone
      /\ \A s, t \in view.active : s = t
      /\ \A s \in Range(view.list) : view.order[s] > 0
      /\ poll[p].screen \in Range(view.list) \cup {NoScreen}

\* AtMostOneActive is not inductive by itself: the whole-row save of an
\* External link puts isActive back as the poll read it, and Activate adds to
\* whatever MoveOn left.
TurnInv ==
  /\ AtMostOneActive
  /\ isActive \subseteq Existing
  /\ \A p \in Polls : At(p, Choosing \cup {"moveOn"}) => HoldsView(p)
  /\ \A p \in Polls : At(p, {"clearPick", "activate"}) => isActive = {} \/ poll[p].screen = NoScreen
  /\ \A p \in Polls : At(p, {"answer"}) => poll[p].screen = NoScreen

LEMMA TurnInit == Init => TurnInv
BY DEF Init, TurnInv, AtMostOneActive, At, IdlePoll, Choosing

\* What neither moves a poll on nor adds, deletes or activates a Screen
LEMMA TurnFrame ==
  ASSUME TurnInv, UNCHANGED <<order, gone, isActive>>,
         \A p \in Polls : /\ poll'[p].pc = poll[p].pc /\ poll'[p].view = poll[p].view
                         /\ poll'[p].screen = poll[p].screen
  PROVE  TurnInv'
BY DEF TurnInv, AtMostOneActive, At, HoldsView, Existing

\* Of a Device that sends one poll at a time, that poll is all there is to show.
LEMMA TurnOfOnePoll ==
  ASSUME OnePollAtATime, NEW p \in Polls,
         AtMostOneActive', (isActive \subseteq Existing)',
         (At(p, Choosing \cup {"moveOn"}) => HoldsView(p))',
         (At(p, {"clearPick", "activate"}) => isActive = {} \/ poll[p].screen = NoScreen)',
         (At(p, {"answer"}) => poll[p].screen = NoScreen)'
  PROVE  TurnInv'
BY DEF OnePollAtATime, TurnInv

LEMMA TurnPollStep ==
  ASSUME TypeOK, OnePollAtATime, TurnInv, NEW p \in Polls, PollStep(p)
  PROVE  TurnInv'
<1> USE DisplayPollAssumptions
<1>1. poll \in [Polls -> PollRecords] /\ poll[p] \in PollRecords
  BY DEF TypeOK
<1>2. CASE Authenticate(p)
  <2>1. poll'[p].pc = "answer" /\ poll'[p].screen = NoScreen
    BY <1>1, <1>2 DEF Authenticate, IdlePoll
  <2> QED BY <1>2, <2>1, TurnOfOnePoll DEF Authenticate, TurnInv, AtMostOneActive, At, Existing,
                                          Choosing, rows, deleted
<1>3. CASE AnswerWipe(p) \/ AnswerMirror(p) \/ AnswerAsleep(p)
  <2>1. poll'[p].pc = "acknowledge" /\ UNCHANGED rows
    <3>1. PICK answer : Answer(p, answer)
      BY <1>3 DEF AnswerWipe, AnswerMirror, AnswerAsleep
    <3> QED BY <1>1, <3>1 DEF Answer
  <2> QED BY <2>1, TurnOfOnePoll DEF TurnInv, AtMostOneActive, At, Existing, Choosing, rows, deleted
<1>4. CASE LoadScreens(p)
  <2>1. IsFiniteSet(Existing)
    BY FS_Subset DEF Existing
  <2>2. PICK list \in InOrder(Existing, order) :
          /\ poll'[p].pc = "rotate" /\ poll'[p].screen = poll[p].screen
          /\ poll'[p].view.list = list /\ poll'[p].view.order = order
          /\ poll'[p].view.active = isActive
    BY <1>1, <1>4 DEF LoadScreens
  <2>3. Range(list) \subseteq Existing
    BY <2>1, InOrderIsSequence
  <2>4. poll[p].screen = NoScreen
    BY <1>4 DEF LoadScreens, TurnInv
  <2>5. HoldsView(p)'
    BY <1>4, <2>2, <2>3, <2>4 DEF LoadScreens, HoldsView, TurnInv, AtMostOneActive, Existing,
                                  rows, deleted
  <2> QED BY <1>4, <2>2, <2>5, TurnOfOnePoll DEF LoadScreens, TurnInv, AtMostOneActive, At,
                                               Existing, rows, deleted
<1>5. CASE NothingEligible(p) \/ ServeHeld(p) \/ RenderedShown(p) \/ BeginRender(p)
           \/ RenderedHeld(p) \/ RenderedSkipped(p)
  <2>1. /\ UNCHANGED <<order, gone, isActive>>
        /\ At(p, Choosing)
        /\ poll'[p].pc \in Choosing \cup {"moveOn"}
        /\ poll'[p].view.list = poll[p].view.list /\ poll'[p].view.order = poll[p].view.order
        /\ poll'[p].view.active = poll[p].view.active
        /\ poll'[p].screen \in {NoScreen, Candidate(p), poll[p].screen}
    <3>1. poll[p].view \in Views
      BY <1>1 DEF PollRecords
    <3>2. CASE NothingEligible(p) \/ ServeHeld(p) \/ RenderedShown(p)
      <4>1. PICK screen \in {NoScreen, Candidate(p), poll[p].screen}, signal \in Signals : Show(p, screen, signal)
        BY <3>2 DEF NothingEligible, ServeHeld, RenderedShown, Signals
      <4>2. UNCHANGED rows /\ At(p, Choosing)
        BY <3>2 DEF NothingEligible, ServeHeld, RenderedShown, At, Choosing
      <4> QED BY <1>1, <4>1, <4>2 DEF Show, Choosing, rows, deleted
    <3>3. CASE BeginRender(p)
      BY <1>1, <3>3 DEF BeginRender, At, Choosing, rows, deleted
    <3>4. CASE RenderedHeld(p)
      BY <1>1, <3>4 DEF RenderedHeld, Show, At, Choosing, deleted
    <3>5. CASE RenderedSkipped(p)
      BY <1>1, <3>1, <3>5 DEF RenderedSkipped, At, Choosing, deleted, PollRecords, Views
    <3> QED BY <1>5, <3>2, <3>3, <3>4, <3>5
  <2>2. HoldsView(p)
    BY <2>1 DEF TurnInv, At
  <2>3. poll'[p].screen \in Range(poll[p].view.list) \cup {NoScreen}
    BY <2>1, <2>2, CandidateInList DEF HoldsView
  <2>4. HoldsView(p)'
    BY <2>1, <2>2, <2>3 DEF HoldsView, Existing
  <2> QED BY <2>1, <2>4, TurnOfOnePoll DEF TurnInv, AtMostOneActive, At, Choosing, Existing
<1>6. CASE RenderedExternal(p) \/ RenderedDeletedExternal(p)
  <2>1. /\ At(p, {"render"}) /\ poll'[p].pc = "moveOn" /\ poll'[p].view = poll[p].view
        /\ poll'[p].screen = poll[p].screen /\ poll[p].screen \in Screens
        /\ UNCHANGED gone
    <3>1. CASE RenderedExternal(p)
      BY <1>1, <3>1 DEF RenderedExternal, Show, deleted
    <3>2. CASE RenderedDeletedExternal(p)
      BY <1>1, <3>2 DEF RenderedDeletedExternal, Show
    <3> QED BY <1>6, <3>1, <3>2
  <2>2. HoldsView(p)
    BY <2>1 DEF TurnInv, At, Choosing
  <2>3. poll[p].view.order[poll[p].screen] > 0
    BY <2>1, <2>2 DEF HoldsView
  <2>4. Existing' = Existing /\ isActive' = isActive
    <3>1. CASE RenderedExternal(p)
      <4>1. order \in [Screens -> Nat] /\ poll[p].screen \in Existing
        BY <3>1 DEF RenderedExternal, TypeOK
      <4>2. Existing' = Existing
        BY <2>3, <3>1, <4>1 DEF RenderedExternal, Existing
      <4>3. isActive' = isActive
        BY <2>2, <3>1, <4>1 DEF RenderedExternal, HoldsView
      <4> QED BY <4>2, <4>3
    <3>2. CASE RenderedDeletedExternal(p)
      BY <3>2 DEF RenderedDeletedExternal, Existing
    <3> QED BY <1>6, <3>1, <3>2
  <2>5. HoldsView(p)'
    BY <2>1, <2>2, <2>4 DEF HoldsView
  <2> QED BY <2>1, <2>4, <2>5, TurnOfOnePoll DEF TurnInv, AtMostOneActive, At
<1>7. CASE MoveOn(p)
  <2>1. /\ At(p, {"moveOn"}) /\ poll'[p].pc = "clearPick" /\ poll'[p].screen = poll[p].screen
        /\ isActive' = TurnCleared(poll[p].view.list) /\ UNCHANGED order
    BY <1>1, <1>7 DEF MoveOn, Goto
  <2>2. HoldsView(p)
    BY <2>1 DEF TurnInv, At
  <2>3. isActive' = {} \/ (isActive' = isActive /\ poll'[p].screen = NoScreen)
    BY <2>1, <2>2 DEF TurnCleared, HoldsView, Range
  <2> QED BY <2>1, <2>3, TurnOfOnePoll DEF TurnInv, AtMostOneActive, At, Choosing, Existing
<1>8. CASE ClearPick(p)
  <2>1. /\ At(p, {"clearPick"}) /\ poll'[p].pc = "activate" /\ poll'[p].screen = poll[p].screen
        /\ UNCHANGED rows
    BY <1>1, <1>8 DEF ClearPick, Goto
  <2> QED BY <2>1, TurnOfOnePoll DEF TurnInv, AtMostOneActive, At, Choosing, Existing, rows, deleted
<1>9. CASE Activate(p)
  <2>1. /\ At(p, {"activate"}) /\ poll'[p].pc = "acknowledge" /\ UNCHANGED order
        /\ isActive' = isActive \cup ({poll[p].screen} \cap Existing)
    BY <1>1, <1>9 DEF Activate
  <2>2. isActive = {} \/ poll[p].screen = NoScreen
    BY <2>1 DEF TurnInv, At
  <2>3. isActive' = {poll[p].screen} \cap Existing \/ isActive' = isActive
    BY <2>1, <2>2 DEF Existing
  <2> QED BY <2>1, <2>3, TurnOfOnePoll DEF TurnInv, AtMostOneActive, At, Choosing, Existing
<1>10. CASE Acknowledge(p) \/ AcknowledgeFunction(p) \/ AcknowledgeFirmware(p) \/ Send(p)
  <2>1. poll'[p].pc \in {"ackFunction", "ackFirmware", "send", "idle"} /\ UNCHANGED rows
    <3>1. CASE Acknowledge(p)
      BY <1>1, <3>1 DEF Acknowledge, Goto
    <3>2. CASE AcknowledgeFunction(p)
      BY <1>1, <3>2 DEF AcknowledgeFunction, Goto
    <3>3. CASE AcknowledgeFirmware(p)
      BY <1>1, <3>3 DEF AcknowledgeFirmware, Goto
    <3>4. CASE Send(p)
      BY <1>1, <3>4 DEF Send, IdlePoll
    <3> QED BY <1>10, <3>1, <3>2, <3>3, <3>4
  <2> QED BY <2>1, TurnOfOnePoll DEF TurnInv, AtMostOneActive, At, Choosing, Existing, rows, deleted
<1> QED BY <1>2, <1>3, <1>4, <1>5, <1>6, <1>7, <1>8, <1>9, <1>10 DEF PollStep

LEMMA TurnStep == TypeOK /\ OnePollAtATime /\ TurnInv /\ [Next]_vars => TurnInv'
<1> SUFFICES ASSUME TypeOK, OnePollAtATime, TurnInv, [Next]_vars PROVE TurnInv'
  OBVIOUS
<1>1. ASSUME NEW p \in Polls, PollStep(p) PROVE TurnInv'
  BY <1>1, TurnPollStep
<1>2. ASSUME NEW p \in Polls, Fail(p) PROVE TurnInv'
  <2>1. poll'[p].pc = "idle" /\ UNCHANGED rows
    BY <1>2 DEF Fail, IdlePoll, TypeOK
  <2> QED BY <2>1, TurnOfOnePoll DEF TurnInv, AtMostOneActive, At, Choosing, Existing, rows, deleted
<1>3. ASSUME NEW a \in Admins, AdminStep(a) \/ SetUpStep(a) PROVE TurnInv'
  <2>1. UNCHANGED <<rows, poll>>
    BY <1>3 DEF AdminStep, PatchLoad, PatchSave, RegenerateApikey, PatchEnds, SetUpStep, LoadForSetUp, SetUp, Saved
  <2> QED BY <2>1, TurnFrame DEF rows, deleted
<1>4. ASSUME NEW s \in Screens, ScheduleTurns(s) \/ PickScreen(s) PROVE TurnInv'
  <2>1. UNCHANGED <<rows, poll>>
    BY <1>4 DEF ScheduleTurns, PickScreen
  <2> QED BY <2>1, TurnFrame DEF rows, deleted
<1>5. ASSUME NEW s \in Screens, RenewOutput(s) PROVE TurnInv'
  <2>1. UNCHANGED <<order, gone, isActive>>
    BY <1>5 DEF RenewOutput, deleted
  <2>2. ASSUME NEW p \in Polls
        PROVE  /\ poll'[p].pc = poll[p].pc /\ poll'[p].view = poll[p].view
               /\ poll'[p].screen = poll[p].screen
    BY <1>5 DEF RenewOutput, TypeOK, PollRecords
  <2> QED BY <2>1, <2>2, TurnFrame
<1>6. ASSUME NEW s \in Screens, DeleteScreen(s) PROVE TurnInv'
  <2>1. isActive' = isActive \ {s} /\ gone' = gone \cup {s} /\ UNCHANGED poll
    BY <1>6 DEF DeleteScreen
  <2>2. Existing' = Existing \ {s}
    BY <1>6 DEF DeleteScreen, GapClosed, Existing, TypeOK
  <2>3. ASSUME NEW p \in Polls, HoldsView(p) PROVE HoldsView(p)'
    BY <2>1, <2>2, <2>3 DEF HoldsView
  <2>4. AtMostOneActive' /\ (isActive \subseteq Existing)'
    BY <2>1, <2>2 DEF TurnInv, AtMostOneActive
  <2> QED BY <2>1, <2>3, <2>4 DEF TurnInv, At
<1>7. ASSUME NEW s \in Screens, AddScreen(s) PROVE TurnInv'
  <2>1. UNCHANGED <<isActive, gone, poll>> /\ s \notin Existing \cup gone
    BY <1>7 DEF AddScreen, deleted
  <2>2. Existing' = Existing \cup {s}
    BY <1>7 DEF AddScreen, Existing, TypeOK
  <2>3. ASSUME NEW p \in Polls, HoldsView(p) PROVE HoldsView(p)'
    BY <2>1, <2>2, <2>3 DEF HoldsView
  <2>4. AtMostOneActive' /\ (isActive \subseteq Existing)'
    BY <2>1, <2>2 DEF TurnInv, AtMostOneActive
  <2> QED BY <2>1, <2>3, <2>4 DEF TurnInv, At
<1>8. CASE SleepTurns \/ ClearPickByAdmin \/ UNCHANGED vars
  <2>1. UNCHANGED <<rows, poll>>
    BY <1>8 DEF SleepTurns, ClearPickByAdmin, vars
  <2> QED BY <2>1, TurnFrame DEF rows, deleted
<1> QED BY <1>1, <1>2, <1>3, <1>4, <1>5, <1>6, <1>7, <1>8 DEF Next, ScreenEvent

\* A Device that sends one poll at a time never has two Active Screens
\* (AtMostOneActive), whatever an admin adds, deletes or saves and wherever a
\* poll fails between its writes.  Two polls that overlap do break it.
THEOREM OneActiveScreen == ASSUME OnePollAtATime PROVE Spec => []AtMostOneActive
<1>1. Init => TypeOK /\ TurnInv
  BY TypeInit, TurnInit
<1>2. TypeOK /\ TurnInv /\ [Next]_vars => (TypeOK /\ TurnInv)'
  BY OnePollAtATime, TypeStep, TurnStep
<1>3. TurnInv => AtMostOneActive
  BY DEF TurnInv
<1> QED BY <1>1, <1>2, <1>3, PTL DEF Spec

\* Under the same assumption a poll that has not been answered yet leaves the
\* turn where it stood (TurnHeldUntilAnswered).
THEOREM TurnHeld == ASSUME OnePollAtATime PROVE Spec => []TurnHeldUntilAnswered
<1>1. Init => TypeOK /\ TurnInv
  BY TypeInit, TurnInit
<1>2. TypeOK /\ TurnInv /\ [Next]_vars => (TypeOK /\ TurnInv)'
  BY OnePollAtATime, TypeStep, TurnStep
<1>3. TurnInv => TurnHeldUntilAnswered
  BY DEF TurnInv, TurnHeldUntilAnswered, HoldsView
<1> QED BY <1>1, <1>2, <1>3, PTL DEF Spec

-----------------------------------------------------------------------------
(* The bounded loop of pickAndRenderScreen.                                *)

\* A list of a finite set's members in Order names as many as it is long.
LEMMA InOrderHasNoRepeats ==
  ASSUME NEW S, IsFiniteSet(S), NEW ord, NEW list \in InOrder(S, ord)
  PROVE  Cardinality(Range(list)) = Len(list)
<1> DEFINE n == Cardinality(S)
<1>1. n \in Nat
  BY FS_CardinalityType
<1>2. list \in [1..n -> S] /\ \A i, j \in 1..n : i < j => list[i] # list[j]
  BY DEF InOrder
<1>3. list \in Bijection(1..n, Range(list))
  <2>1. list \in [1..n -> Range(list)] /\ \A y \in Range(list) : \E i \in 1..n : list[i] = y
    BY <1>2 DEF Range
  <2>2. ASSUME NEW i \in 1..n, NEW j \in 1..n, list[i] = list[j] PROVE i = j
    BY <1>1, <1>2, <2>2
  <2> QED BY <1>2, <2>1, <2>2 DEF Bijection, Injection, Surjection, IsInjective
<1>4. Cardinality(Range(list)) = n
  BY <1>1, <1>3, FS_CountingElements DEF ExistsBijection
<1>5. Len(list) = n
  BY <1>1, <1>2
<1> QED BY <1>4, <1>5

\* What the loop knows of its own poll: every attempt has marked one more of
\* the list's Screens as passed over, so it runs out only when all are.
LoopKnows(p) ==
  LET list == poll[p].view.list
      passed == poll[p].view.passed
  IN  /\ At(p, {"answer"}) => poll[p].attempt = 0
      /\ At(p, Choosing) =>
           /\ Cardinality(Range(list)) = Len(list)
           /\ poll[p].attempt <= Cardinality(Range(list) \cap passed)
      /\ At(p, {"render"}) => poll[p].screen \in Range(list) \ passed
      /\ At(p, Moving) /\ poll[p].screen = NoScreen => Range(list) \subseteq passed

LoopInv == \A p \in Polls : LoopKnows(p)

LEMMA LoopInit == Init => LoopInv
BY DEF Init, LoopInv, LoopKnows, At, IdlePoll, Choosing, Moving

\* The steps of one poll leave the others' loops alone.
LEMMA LoopFrame ==
  ASSUME LoopInv, NEW p \in Polls, LoopKnows(p)',
         \A q \in Polls \ {p} : poll'[q] = poll[q]
  PROVE  LoopInv'
<1>1. ASSUME NEW q \in Polls \ {p} PROVE LoopKnows(q)'
  BY <1>1 DEF LoopInv, LoopKnows, At
<1> QED BY <1>1 DEF LoopInv

\* A candidate is one of the list's Screens still to be tried; without one,
\* none is left.
LEMMA CandidateIsEligible ==
  ASSUME TypeOK, LoopInv, NEW p \in Polls, At(p, {"rotate"})
  PROVE  LET list == poll[p].view.list
             passed == poll[p].view.passed
         IN  IF Candidate(p) = NoScreen THEN Range(list) \subseteq passed
                                        ELSE Candidate(p) \in Range(list) \ passed
<1> USE DisplayPollAssumptions
<1> DEFINE list == poll[p].view.list
           passed == poll[p].view.passed
<1>1. poll[p] \in PollRecords /\ list \in Seq(Screens)
  BY DEF TypeOK, PollRecords, Views
<1>2. LoopKnows(p)
  BY DEF LoopInv
<1>3. IsFiniteSet(Range(list)) /\ NoScreen \notin Range(list)
  <2>1. Range(list) \subseteq Screens
    BY <1>1 DEF Range
  <2> QED BY <2>1, FS_Subset
<1>4. CASE OutOfAttempts(poll[p].attempt, list)
  <2>1. Cardinality(Range(list)) <= Cardinality(Range(list) \cap passed)
    BY <1>1, <1>2, <1>3, <1>4, FS_CardinalityType, FS_Subset
       DEF LoopKnows, At, Choosing, OutOfAttempts, PollRecords
  <2>2. Range(list) \cap passed = Range(list)
    BY <1>3, <2>1, FS_Subset, FS_CardinalityType
  <2> QED BY <1>4, <2>2 DEF Candidate
<1>5. CASE ~OutOfAttempts(poll[p].attempt, list)
  <2> DEFINE next == NextEligibleScreen(list, poll[p].view.active, passed,
                                        poll[p].seen.pickedScreen, poll[p].stay)
  <2>1. Candidate(p) = next
    BY <1>5 DEF Candidate
  <2>2. poll[p].stay \in BOOLEAN
    BY <1>1 DEF PollRecords
  <2> QED BY <1>1, <2>1, <2>2, NextEligibleScreenIsEligible
<1> QED BY <1>4, <1>5

LEMMA LoopPollStep ==
  ASSUME TypeOK, LoopInv, NEW p \in Polls, PollStep(p)
  PROVE  LoopInv'
<1> USE DisplayPollAssumptions
<1> DEFINE list == poll[p].view.list
           passed == poll[p].view.passed
<1>1. poll \in [Polls -> PollRecords] /\ poll[p] \in PollRecords /\ poll[p].view \in Views
      /\ list \in Seq(Screens)
  BY DEF TypeOK, PollRecords, Views
<1>2. LoopKnows(p)
  BY DEF LoopInv
<1>3. Range(list) \subseteq Screens /\ IsFiniteSet(Range(list)) /\ NoScreen \notin Range(list)
  <2>1. Range(list) \subseteq Screens
    BY <1>1 DEF Range
  <2> QED BY <2>1, FS_Subset
<1>4. \A q \in Polls \ {p} : poll'[q] = poll[q]
  BY PollMoves
<1>5. ASSUME At(p, {"rotate"})
      PROVE  IF Candidate(p) = NoScreen THEN Range(list) \subseteq passed
                                        ELSE Candidate(p) \in Range(list) \ passed
  BY <1>5, CandidateIsEligible
<1>6. CASE Authenticate(p)
  <2>1. poll'[p].pc = "answer" /\ poll'[p].attempt = 0
    BY <1>1, <1>6 DEF Authenticate, IdlePoll
  <2> QED BY <1>4, <2>1, LoopFrame DEF LoopKnows, At, Choosing, Moving
<1>7. CASE AnswerWipe(p) \/ AnswerMirror(p) \/ AnswerAsleep(p)
  <2>1. PICK answer : Answer(p, answer)
    BY <1>7 DEF AnswerWipe, AnswerMirror, AnswerAsleep
  <2>2. poll'[p].pc = "acknowledge"
    BY <1>1, <2>1 DEF Answer
  <2> QED BY <1>4, <2>2, LoopFrame DEF LoopKnows, At, Choosing, Moving
<1>8. CASE LoadScreens(p)
  <2>1. IsFiniteSet(Existing)
    BY FS_Subset DEF Existing
  <2>2. PICK read \in InOrder(Existing, order) :
          poll'[p].pc = "rotate" /\ poll'[p].attempt = poll[p].attempt /\ poll'[p].view.list = read
    BY <1>1, <1>8 DEF LoadScreens
  <2>3. Cardinality(Range(read)) = Len(read)
    BY <2>1, InOrderHasNoRepeats
  <2>4. IsFiniteSet(Range(read))
    BY <2>1, InOrderIsSequence, FS_Subset
  <2>5. poll'[p].attempt = 0 /\ 0 <= Cardinality(Range(read) \cap poll'[p].view.passed)
    <3>1. poll[p].attempt = 0
      BY <1>2, <1>8 DEF LoadScreens, LoopKnows
    <3>2. IsFiniteSet(Range(read) \cap poll'[p].view.passed)
      BY <2>4, FS_Subset
    <3>3. Cardinality(Range(read) \cap poll'[p].view.passed) \in Nat
      BY <3>2, FS_CardinalityType
    <3> QED BY <2>2, <3>1, <3>3
  <2> QED BY <1>4, <2>2, <2>3, <2>5, LoopFrame DEF LoopKnows, At, Choosing, Moving
<1>9. CASE NothingEligible(p) \/ ServeHeld(p)
  <2>1. PICK signal : Show(p, Candidate(p), signal)
    BY <1>9 DEF NothingEligible, ServeHeld
  <2>2. poll'[p].pc = "moveOn" /\ poll'[p].view = poll[p].view /\ poll'[p].screen = Candidate(p)
    BY <1>1, <2>1 DEF Show
  <2>3. At(p, {"rotate"})
    BY <1>9 DEF NothingEligible, ServeHeld
  <2> QED BY <1>4, <1>5, <2>2, <2>3, LoopFrame DEF LoopKnows, At, Choosing, Moving
<1>10. CASE BeginRender(p)
  <2>1. /\ At(p, {"rotate"}) /\ Candidate(p) # NoScreen
        /\ poll'[p].pc = "render" /\ poll'[p].view = poll[p].view /\ poll'[p].screen = Candidate(p)
        /\ poll'[p].attempt = poll[p].attempt
    BY <1>1, <1>10 DEF BeginRender
  <2> QED BY <1>2, <1>4, <1>5, <2>1, LoopFrame DEF LoopKnows, At, Choosing, Moving
<1>11. CASE RenderedShown(p) \/ RenderedExternal(p) \/ RenderedDeletedExternal(p) \/ RenderedHeld(p)
  <2>1. PICK signal : At(p, {"render"}) /\ Show(p, poll[p].screen, signal)
    BY <1>11 DEF RenderedShown, RenderedExternal, RenderedDeletedExternal, RenderedHeld
  <2>2. poll'[p].pc = "moveOn" /\ poll'[p].screen = poll[p].screen
    BY <1>1, <2>1 DEF Show
  <2>3. poll[p].screen # NoScreen
    BY <1>2, <1>3, <2>1 DEF LoopKnows
  <2> QED BY <1>4, <2>2, <2>3, LoopFrame DEF LoopKnows, At, Choosing, Moving
<1>12. CASE RenderedSkipped(p)
  <2>1. /\ At(p, {"render"}) /\ poll'[p].pc = "rotate" /\ poll'[p].attempt = poll[p].attempt + 1
        /\ poll'[p].view.list = list /\ poll'[p].view.passed = passed \cup {poll[p].screen}
    BY <1>1, <1>12 DEF RenderedSkipped, PollRecords, Views
  <2>2. poll[p].screen \in Range(list) \ passed
    BY <1>2, <2>1 DEF LoopKnows
  <2>3. Range(list) \cap (passed \cup {poll[p].screen}) = (Range(list) \cap passed) \cup {poll[p].screen}
    BY <2>2
  <2>4. IsFiniteSet(Range(list) \cap passed)
    BY <1>3, FS_Subset
  <2>5. Cardinality(Range(list) \cap (passed \cup {poll[p].screen}))
          = Cardinality(Range(list) \cap passed) + 1
    BY <2>2, <2>3, <2>4, FS_AddElement
  <2>6. /\ Cardinality(Range(list)) = Len(list)
        /\ poll[p].attempt <= Cardinality(Range(list) \cap passed)
    BY <1>2, <2>1 DEF LoopKnows, At, Choosing
  <2>7. poll[p].attempt \in Nat /\ Cardinality(Range(list) \cap passed) \in Nat
    BY <1>1, <2>4, FS_CardinalityType DEF PollRecords
  <2>8. poll'[p].attempt <= Cardinality(Range(poll'[p].view.list) \cap poll'[p].view.passed)
    BY <2>1, <2>5, <2>6, <2>7
  <2> QED BY <1>4, <2>1, <2>6, <2>8, LoopFrame DEF LoopKnows, At, Choosing, Moving
<1>13. CASE MoveOn(p) \/ ClearPick(p)
  <2>1. /\ At(p, Moving) /\ poll'[p].pc \in {"clearPick", "activate"} /\ poll'[p].view = poll[p].view
        /\ poll'[p].screen = poll[p].screen
    <3>1. CASE MoveOn(p)
      BY <1>1, <3>1 DEF MoveOn, Goto, At, Moving
    <3>2. CASE ClearPick(p)
      BY <1>1, <3>2 DEF ClearPick, Goto, At, Moving
    <3> QED BY <1>13, <3>1, <3>2
  <2> QED BY <1>2, <1>4, <2>1, LoopFrame DEF LoopKnows, At, Choosing, Moving
<1>14. CASE Activate(p) \/ Acknowledge(p) \/ AcknowledgeFunction(p) \/ AcknowledgeFirmware(p) \/ Send(p)
  <2>1. poll'[p].pc \in {"acknowledge", "ackFunction", "ackFirmware", "send", "idle"}
    <3>1. CASE Activate(p)
      BY <1>1, <3>1 DEF Activate
    <3>2. CASE Acknowledge(p)
      BY <1>1, <3>2 DEF Acknowledge, Goto
    <3>3. CASE AcknowledgeFunction(p)
      BY <1>1, <3>3 DEF AcknowledgeFunction, Goto
    <3>4. CASE AcknowledgeFirmware(p)
      BY <1>1, <3>4 DEF AcknowledgeFirmware, Goto
    <3>5. CASE Send(p)
      BY <1>1, <3>5 DEF Send, IdlePoll
    <3> QED BY <1>14, <3>1, <3>2, <3>3, <3>4, <3>5
  <2> QED BY <1>4, <2>1, LoopFrame DEF LoopKnows, At, Choosing, Moving
<1> QED BY <1>6, <1>7, <1>8, <1>9, <1>10, <1>11, <1>12, <1>13, <1>14 DEF PollStep

LEMMA LoopStep == TypeOK /\ LoopInv /\ [Next]_vars => LoopInv'
<1> SUFFICES ASSUME TypeOK, LoopInv, [Next]_vars PROVE LoopInv'
  OBVIOUS
<1>1. ASSUME NEW p \in Polls, PollStep(p) PROVE LoopInv'
  BY <1>1, LoopPollStep
<1>2. ASSUME NEW p \in Polls, Fail(p) PROVE LoopInv'
  <2>1. poll'[p].pc = "idle" /\ \A q \in Polls \ {p} : poll'[q] = poll[q]
    BY <1>2, PollMoves, PollFails
  <2> QED BY <2>1, LoopFrame DEF LoopKnows, At, Choosing, Moving
<1>3. CASE UNCHANGED poll
  BY <1>3 DEF LoopInv, LoopKnows, At
<1> QED BY <1>1, <1>2, <1>3, OthersLeavePolls

\* The loop that tries one Screen after another, bounded by the number of
\* Screens, never answers the no-screen Fallback Screen while a Screen is left
\* that Rotation does not pass over (NothingShownOnlyIfAllPassedOver): for any
\* Order, any Screens that skip, any pick, and polls that overlap.
THEOREM NothingShown == Spec => []NothingShownOnlyIfAllPassedOver
<1>1. Init => TypeOK /\ LoopInv
  BY TypeInit, LoopInit
<1>2. TypeOK /\ LoopInv /\ [Next]_vars => (TypeOK /\ LoopInv)'
  BY TypeStep, LoopStep
<1>3. LoopInv => NothingShownOnlyIfAllPassedOver
  BY DEF LoopInv, LoopKnows, NothingShownOnlyIfAllPassedOver
<1> QED BY <1>1, <1>2, <1>3, PTL DEF Spec
-----------------------------------------------------------------------------
(* The Picked Screen.                                                      *)

\* What a poll that has a Screen to show knows of the pick it carries
PickKnows(p) ==
  LET picked == poll[p].seen.pickedScreen
  IN  At(p, {"render"} \cup Moving) /\ picked \in Range(poll[p].view.list) \ poll[p].view.passed
        => poll[p].screen = picked

PickInv == \A p \in Polls : PickKnows(p)

LEMMA PickInit == Init => PickInv
BY DEF Init, PickInv, PickKnows, At, IdlePoll, Moving

\* The steps of one poll leave the others' picks alone.
LEMMA PickFrame ==
  ASSUME PickInv, NEW p \in Polls, PickKnows(p)',
         \A q \in Polls \ {p} : poll'[q] = poll[q]
  PROVE  PickInv'
<1>1. ASSUME NEW q \in Polls \ {p} PROVE PickKnows(q)'
  BY <1>1 DEF PickInv, PickKnows, At
<1> QED BY <1>1 DEF PickInv

\* While the pick a poll carries is eligible, no other Screen is a candidate.
LEMMA CandidateIsPick ==
  ASSUME TypeOK, LoopInv, NEW p \in Polls, At(p, {"rotate"}),
         poll[p].seen.pickedScreen \in Range(poll[p].view.list) \ poll[p].view.passed
  PROVE  Candidate(p) = poll[p].seen.pickedScreen
<1>1. Candidate(p) # NoScreen
  BY CandidateIsEligible
<1>2. ~OutOfAttempts(poll[p].attempt, poll[p].view.list)
  BY <1>1 DEF Candidate
<1> QED BY <1>2 DEF Candidate, NextEligibleScreen

LEMMA PickPollStep ==
  ASSUME TypeOK, LoopInv, PickInv, NEW p \in Polls, PollStep(p)
  PROVE  PickInv'
<1>1. poll \in [Polls -> PollRecords] /\ poll[p] \in PollRecords
  BY DEF TypeOK
<1>2. PickKnows(p)
  BY DEF PickInv
<1>3. \A q \in Polls \ {p} : poll'[q] = poll[q]
  BY PollMoves
<1>4. CASE NothingEligible(p) \/ ServeHeld(p) \/ BeginRender(p)
  <2>1. /\ At(p, {"rotate"}) /\ poll'[p].seen = poll[p].seen /\ poll'[p].view = poll[p].view
        /\ poll'[p].screen = Candidate(p)
    <3>1. CASE NothingEligible(p) \/ ServeHeld(p)
      <4>1. PICK signal : At(p, {"rotate"}) /\ Show(p, Candidate(p), signal)
        BY <3>1 DEF NothingEligible, ServeHeld
      <4> QED BY <1>1, <4>1 DEF Show
    <3>2. CASE BeginRender(p)
      BY <1>1, <3>2 DEF BeginRender
    <3> QED BY <1>4, <3>1, <3>2
  <2> QED BY <1>3, <2>1, CandidateIsPick, PickFrame DEF PickKnows
<1>5. CASE \/ RenderedShown(p) \/ RenderedExternal(p) \/ RenderedDeletedExternal(p) \/ RenderedHeld(p)
           \/ MoveOn(p) \/ ClearPick(p)
  <2>1. /\ At(p, {"render"} \cup Moving) /\ poll'[p].seen = poll[p].seen /\ poll'[p].view = poll[p].view
        /\ poll'[p].screen = poll[p].screen
    <3>1. CASE RenderedShown(p) \/ RenderedExternal(p) \/ RenderedDeletedExternal(p) \/ RenderedHeld(p)
      <4>1. PICK signal : At(p, {"render"}) /\ Show(p, poll[p].screen, signal)
        BY <3>1 DEF RenderedShown, RenderedExternal, RenderedDeletedExternal, RenderedHeld
      <4> QED BY <1>1, <4>1 DEF Show, At
    <3>2. CASE MoveOn(p)
      BY <1>1, <3>2 DEF MoveOn, Goto, At, Moving
    <3>3. CASE ClearPick(p)
      BY <1>1, <3>3 DEF ClearPick, Goto, At, Moving
    <3> QED BY <1>5, <3>1, <3>2, <3>3
  <2> QED BY <1>2, <1>3, <2>1, PickFrame DEF PickKnows
<1>6. CASE \/ Authenticate(p) \/ AnswerWipe(p) \/ AnswerMirror(p) \/ AnswerAsleep(p)
           \/ LoadScreens(p) \/ RenderedSkipped(p) \/ Activate(p)
           \/ Acknowledge(p) \/ AcknowledgeFunction(p) \/ AcknowledgeFirmware(p) \/ Send(p)
  <2>1. poll'[p].pc \notin {"render"} \cup Moving
    <3>1. CASE Authenticate(p)
      BY <1>1, <3>1 DEF Authenticate, IdlePoll, Moving
    <3>2. CASE AnswerWipe(p) \/ AnswerMirror(p) \/ AnswerAsleep(p)
      <4>1. PICK answer : Answer(p, answer)
        BY <3>2 DEF AnswerWipe, AnswerMirror, AnswerAsleep
      <4> QED BY <1>1, <4>1 DEF Answer, Moving
    <3>3. CASE LoadScreens(p)
      BY <1>1, <3>3 DEF LoadScreens, Moving
    <3>4. CASE RenderedSkipped(p)
      BY <1>1, <3>4 DEF RenderedSkipped, Moving
    <3>5. CASE Activate(p)
      BY <1>1, <3>5 DEF Activate, Moving
    <3>6. CASE Acknowledge(p)
      BY <1>1, <3>6 DEF Acknowledge, Goto, Moving
    <3>7. CASE AcknowledgeFunction(p)
      BY <1>1, <3>7 DEF AcknowledgeFunction, Goto, Moving
    <3>8. CASE AcknowledgeFirmware(p)
      BY <1>1, <3>8 DEF AcknowledgeFirmware, Goto, Moving
    <3>9. CASE Send(p)
      BY <1>1, <3>9 DEF Send, IdlePoll, Moving
    <3> QED BY <1>6, <3>1, <3>2, <3>3, <3>4, <3>5, <3>6, <3>7, <3>8, <3>9
  <2> QED BY <1>3, <2>1, PickFrame DEF PickKnows, At
<1> QED BY <1>4, <1>5, <1>6 DEF PollStep

LEMMA PickStep == TypeOK /\ LoopInv /\ PickInv /\ [Next]_vars => PickInv'
<1> SUFFICES ASSUME TypeOK, LoopInv, PickInv, [Next]_vars PROVE PickInv'
  OBVIOUS
<1>1. ASSUME NEW p \in Polls, Fail(p) PROVE PickInv'
  <2>1. poll'[p].pc = "idle" /\ \A q \in Polls \ {p} : poll'[q] = poll[q]
    BY <1>1, PollMoves, PollFails
  <2> QED BY <2>1, PickFrame DEF PickKnows, At, Moving
<1>2. CASE UNCHANGED poll
  BY <1>2 DEF PickInv, PickKnows, At
<1> QED BY <1>1, <1>2, PickPollStep, OthersLeavePolls

\* For any number of Screens, any Order, any Screens that skip and polls that
\* overlap, a poll that carries a Picked Screen shows it, unless it lapsed
\* (PickServedOrLapsed).
THEOREM PickServed == Spec => []PickServedOrLapsed
<1>1. Init => TypeOK /\ LoopInv /\ PickInv
  BY TypeInit, LoopInit, PickInit
<1>2. TypeOK /\ LoopInv /\ PickInv /\ [Next]_vars => (TypeOK /\ LoopInv /\ PickInv)'
  BY TypeStep, LoopStep, PickStep
<1>3. PickInv => PickServedOrLapsed
  BY DEF PickInv, PickKnows, PickServedOrLapsed, At
<1> QED BY <1>1, <1>2, <1>3, PTL DEF Spec

-----------------------------------------------------------------------------
(* The acknowledgement.                                                    *)

\* A poll in its acknowledgement goes on with one of its three writes.
LEMMA AcknowledgingSteps ==
  ASSUME TypeOK, NEW p \in Polls, At(p, Acknowledging), PollStep(p)
  PROVE  Acknowledge(p) \/ AcknowledgeFunction(p) \/ AcknowledgeFirmware(p)
BY DEF PollStep, At, Acknowledging, Authenticate, AnswerWipe, AnswerMirror, AnswerAsleep, LoadScreens,
       NothingEligible, ServeHeld, BeginRender, RenderedShown, RenderedExternal, RenderedDeletedExternal,
       RenderedHeld, RenderedSkipped, MoveOn, ClearPick, Activate, Send

\* What one write of the acknowledgement of p may take off the Device's row
TakesOnlyCarried(p) ==
  /\ device'.specialFunction # device.specialFunction
       => device.specialFunction = poll[p].seen.specialFunction
  /\ device'.updateFirmware # device.updateFirmware
       => device.targetFirmware = poll[p].push
  /\ device'.wipe # device.wipe => poll[p].seen.wipe
  /\ device'.resetDevice # device.resetDevice => poll[p].seen.resetDevice

\* However many polls overlap and whatever admins save meanwhile, an answer's
\* acknowledgement takes back only what that answer carried
\* (ClearsOnlyWhatItCarried).
THEOREM OnlyCarriedCleared == Spec => ClearsOnlyWhatItCarried
<1>1. TypeOK /\ [Next]_vars => [\A p \in Polls :
         At(p, Acknowledging) /\ poll'[p].pc # poll[p].pc /\ poll'[p].pc # "idle" => TakesOnlyCarried(p)]_vars
  <2> SUFFICES ASSUME TypeOK, [Next]_vars, NEW p \in Polls,
                      At(p, Acknowledging), poll'[p].pc # poll[p].pc, poll'[p].pc # "idle"
               PROVE  TakesOnlyCarried(p)
    OBVIOUS
  <2>1. PollStep(p)
    <3>1. PICK q \in Polls : PollStep(q) \/ Fail(q)
      BY OthersLeavePolls
    <3>2. q = p
      BY <3>1, PollMoves
    <3> QED BY <3>1, <3>2, PollFails
  <2>2. device \in Rows /\ poll[p].seen \in Rows
    BY DEF TypeOK, PollRecords
  <2>3. CASE Acknowledge(p)
    <3>1. device' = Delivered(device, poll[p].seen, keys + 1)
      BY <2>3 DEF Acknowledge
    <3>2. /\ device'.specialFunction = device.specialFunction
          /\ device'.updateFirmware = device.updateFirmware
      BY <2>2, <3>1 DEF Delivered, Rows
    <3>3. /\ device'.wipe = (device.wipe /\ ~poll[p].seen.wipe)
          /\ device'.resetDevice = (device.resetDevice /\ ~poll[p].seen.resetDevice)
      BY <2>2, <3>1 DEF Delivered, Rows
    <3>4. device.wipe \in BOOLEAN /\ device.resetDevice \in BOOLEAN
      BY <2>2 DEF Rows
    <3> QED BY <3>2, <3>3, <3>4 DEF TakesOnlyCarried
  <2>4. CASE AcknowledgeFunction(p)
    <3>1. device' = device \/ (/\ device.specialFunction = poll[p].seen.specialFunction
                               /\ device' = [device EXCEPT !.specialFunction = NoFunction])
      BY <2>4 DEF AcknowledgeFunction, ClearedFunction
    <3> QED BY <2>2, <3>1 DEF TakesOnlyCarried, Rows
  <2>5. CASE AcknowledgeFirmware(p)
    <3>1. device' = device \/ (/\ device.targetFirmware = poll[p].push
                               /\ device' = [device EXCEPT !.updateFirmware = FALSE])
      BY <2>5 DEF AcknowledgeFirmware, ClearedPush
    <3> QED BY <2>2, <3>1 DEF TakesOnlyCarried, Rows
  <2> QED BY <2>1, <2>3, <2>4, <2>5, AcknowledgingSteps
<1>2. Spec => []TypeOK
  BY TypeCorrect
<1> QED BY <1>1, <1>2, PTL DEF Spec, ClearsOnlyWhatItCarried, TakesOnlyCarried
-----------------------------------------------------------------------------
(* The API key.                                                            *)

Unanswered == {"answer"} \cup Choosing \cup Moving

\* Until its answer exists a poll keeps the row it read, and takes no more off
\* the Device's row than a pick.
LEMMA BeforeAcknowledging ==
  ASSUME TypeOK, NEW p \in Polls, At(p, Unanswered), PollStep(p)
  PROVE  /\ poll'[p].pc \in Unanswered \cup {"acknowledge"}
         /\ poll'[p].seen = poll[p].seen
         /\ poll'[p].answer = "proxied" => poll[p].answer = "proxied" \/ poll[p].seen.mirror = "proxied"
         /\ UNCHANGED <<deviceKey, owed, unasked, lockedOut>>
         /\ device' = device \/ device' = [device EXCEPT !.pickedScreen = NoScreen]
<1>1. poll \in [Polls -> PollRecords] /\ poll[p] \in PollRecords
  BY DEF TypeOK
<1>2. CASE AnswerWipe(p) \/ AnswerMirror(p) \/ AnswerAsleep(p)
  <2>1. PICK answer : /\ Answer(p, answer)
                      /\ \/ answer \in {"wipe", "mirror", "sleep"}
                         \/ (answer = "proxied" /\ poll[p].seen.mirror = "proxied")
    BY <1>2 DEF AnswerWipe, AnswerMirror, AnswerAsleep
  <2>2. poll'[p] = [poll[p] EXCEPT !.pc = "acknowledge", !.answer = answer]
    BY <1>1, <2>1 DEF Answer
  <2>3. UNCHANGED <<device, deviceKey, owed, unasked, lockedOut>>
    BY <2>1 DEF Answer, ghosts
  <2> QED BY <1>1, <2>1, <2>2, <2>3 DEF PollRecords
<1>3. CASE \/ NothingEligible(p) \/ ServeHeld(p)
           \/ RenderedShown(p) \/ RenderedExternal(p) \/ RenderedDeletedExternal(p) \/ RenderedHeld(p)
  <2>1. PICK screen, signal : Show(p, screen, signal)
    BY <1>3 DEF NothingEligible, ServeHeld, RenderedShown, RenderedExternal, RenderedDeletedExternal, RenderedHeld
  <2>2. poll'[p].pc = "moveOn" /\ poll'[p].seen = poll[p].seen /\ poll'[p].answer \in {"screen", "noScreen"}
    BY <1>1, <2>1 DEF Show
  <2>3. UNCHANGED <<device, deviceKey, owed, unasked, lockedOut>>
    BY <1>3 DEF NothingEligible, ServeHeld, RenderedShown, RenderedExternal, RenderedDeletedExternal, RenderedHeld,
                ghosts
  <2> QED BY <2>2, <2>3 DEF Unanswered, Moving
<1>4. CASE LoadScreens(p) \/ BeginRender(p) \/ RenderedSkipped(p)
  <2>1. poll'[p].pc \in Choosing /\ poll'[p].seen = poll[p].seen /\ poll'[p].answer = poll[p].answer
    <3>1. CASE LoadScreens(p)
      BY <1>1, <3>1 DEF LoadScreens, PollRecords, Choosing
    <3>2. CASE BeginRender(p)
      BY <1>1, <3>2 DEF BeginRender, PollRecords, Choosing
    <3>3. CASE RenderedSkipped(p)
      BY <1>1, <3>3 DEF RenderedSkipped, PollRecords, Choosing
    <3> QED BY <1>4, <3>1, <3>2, <3>3
  <2>2. UNCHANGED <<device, deviceKey, owed, unasked, lockedOut>>
    BY <1>4 DEF LoadScreens, BeginRender, RenderedSkipped, ghosts
  <2> QED BY <2>1, <2>2 DEF Unanswered
<1>5. CASE MoveOn(p) \/ ClearPick(p)
  <2>1. poll'[p].pc \in Moving /\ poll'[p].seen = poll[p].seen /\ poll'[p].answer = poll[p].answer
    <3>1. CASE MoveOn(p)
      BY <1>1, <3>1 DEF MoveOn, Goto, PollRecords, Moving
    <3>2. CASE ClearPick(p)
      BY <1>1, <3>2 DEF ClearPick, Goto, PollRecords, Moving
    <3> QED BY <1>5, <3>1, <3>2
  <2>2. /\ UNCHANGED <<deviceKey, owed, unasked, lockedOut>>
        /\ device' = device \/ device' = [device EXCEPT !.pickedScreen = NoScreen]
    BY <1>5 DEF MoveOn, ClearPick, PickCleared, ghosts
  <2> QED BY <2>1, <2>2 DEF Unanswered
<1>6. CASE Activate(p)
  <2>1. poll'[p].pc = "acknowledge" /\ poll'[p].seen = poll[p].seen /\ poll'[p].answer = poll[p].answer
    BY <1>1, <1>6 DEF Activate, PollRecords
  <2>2. UNCHANGED <<device, deviceKey, owed, unasked, lockedOut>>
    BY <1>6 DEF Activate, ghosts
  <2> QED BY <2>1, <2>2
<1>7. ~Authenticate(p) /\ ~Acknowledge(p) /\ ~AcknowledgeFunction(p) /\ ~AcknowledgeFirmware(p) /\ ~Send(p)
  BY DEF At, Unanswered, Choosing, Moving, Authenticate, Acknowledge, AcknowledgeFunction, AcknowledgeFirmware, Send
<1> QED BY <1>2, <1>3, <1>4, <1>5, <1>6, <1>7 DEF PollStep

\* A poll's steps are its authentication, those before its answer, the three
\* writes of its acknowledgement, and its end.
LEMMA PhasesOfAPoll ==
  ASSUME TypeOK, NEW p \in Polls, PollStep(p)
  PROVE  \/ Authenticate(p) \/ At(p, Unanswered)
         \/ Acknowledge(p) \/ AcknowledgeFunction(p) \/ AcknowledgeFirmware(p) \/ Send(p)
BY DEF PollStep, At, Unanswered, Choosing, Moving, AnswerWipe, AnswerMirror, AnswerAsleep, LoadScreens,
       NothingEligible, ServeHeld, BeginRender, RenderedShown, RenderedExternal, RenderedDeletedExternal,
       RenderedHeld, RenderedSkipped, MoveOn, ClearPick, Activate

\* A poll between the key's rotation and the answer that carries the Reset
Rotating(p) == At(p, {"ackFunction", "ackFirmware", "send"}) /\ Rotates(poll[p].seen)

NoNewKeyOnProxied(row) == row.mirror = "proxied" => ~row.resetDeviceNewApikey

\* KeyAgreement needs that a poll that has rotated the key does carry the
\* Reset: TRMNL's image on a Proxied Device would not, and a Proxied Device is
\* never given a new key this way.
KeyInv ==
  /\ KeyAgreement
  /\ NoNewKeyOnProxied(device)
  /\ \A p \in Polls : /\ NoNewKeyOnProxied(poll[p].seen)
                      /\ poll[p].answer = "proxied" => poll[p].seen.mirror = "proxied"

LEMMA KeyInit == Init => KeyInv
BY DEF Init, KeyInv, KeyAgreement, NoNewKeyOnProxied, NewDevice, IdlePoll

\* A step of p keeps the agreement when it leaves no rotation half done.
LEMMA AgreementStands ==
  ASSUME KeyAgreement, NEW p \in Polls,
         \A q \in Polls \ {p} : poll'[q] = poll[q],
         lockedOut => lockedOut',
         Rotating(p) => Rotating(p)' \/ deviceKey' = Erased \/ lockedOut',
         deviceKey \in {Erased, device.apikey} => deviceKey' \in {Erased, device'.apikey} \/ Rotating(p)'
  PROVE  KeyAgreement'
<1>1. \A q \in Polls \ {p} : Rotating(q) => Rotating(q)'
  BY DEF Rotating, At
<1>2. CASE \E q \in Polls : Rotating(q)
  <2>1. PICK q \in Polls : Rotating(q)
    BY <1>2
  <2>2. Rotating(q)' \/ deviceKey' = Erased \/ lockedOut'
    BY <1>1, <2>1
  <2> QED BY <2>2 DEF KeyAgreement, Rotating
<1>3. CASE deviceKey \in {Erased, device.apikey} \/ lockedOut
  BY <1>3 DEF KeyAgreement, Rotating
<1> QED BY <1>2, <1>3 DEF KeyAgreement, Rotating

LEMMA KeyPollStep ==
  ASSUME TypeOK, KeyInv, NEW p \in Polls, PollStep(p)
  PROVE  KeyInv'
<1>1. poll \in [Polls -> PollRecords] /\ poll[p] \in PollRecords /\ poll[p].seen \in Rows /\ device \in Rows
  BY DEF TypeOK, PollRecords
<1>2. \A q \in Polls \ {p} : poll'[q] = poll[q]
  BY PollMoves
<1>3. CASE Authenticate(p)
  <2>1. poll'[p].pc = "answer" /\ poll'[p].seen = device /\ poll'[p].answer = "none"
    BY <1>1, <1>3 DEF Authenticate, IdlePoll
  <2>2. UNCHANGED <<device, deviceKey, lockedOut>> /\ At(p, {"idle"})
    BY <1>3 DEF Authenticate, ghosts
  <2>3. KeyAgreement'
    BY <1>2, <2>1, <2>2, AgreementStands DEF KeyInv, Rotating, At
  <2> QED BY <1>2, <2>1, <2>2, <2>3 DEF KeyInv
<1>4. CASE At(p, Unanswered)
  <2>1. device'.apikey = device.apikey /\ NoNewKeyOnProxied(device)'
    BY <1>1, <1>4, BeforeAcknowledging DEF KeyInv, NoNewKeyOnProxied, Rows
  <2>2. /\ ~Rotating(p) /\ UNCHANGED <<deviceKey, lockedOut>> /\ poll'[p].seen = poll[p].seen
        /\ poll'[p].answer = "proxied" => poll[p].answer = "proxied" \/ poll[p].seen.mirror = "proxied"
    BY <1>4, BeforeAcknowledging DEF Rotating, At, Unanswered, Choosing, Moving
  <2>3. KeyAgreement'
    BY <1>2, <2>1, <2>2, AgreementStands DEF KeyInv
  <2> QED BY <1>2, <2>1, <2>2, <2>3 DEF KeyInv, NoNewKeyOnProxied
<1>5. CASE Acknowledge(p)
  <2>1. /\ poll'[p].pc = "ackFunction" /\ poll'[p].seen = poll[p].seen /\ poll'[p].answer = poll[p].answer
        /\ UNCHANGED <<deviceKey, lockedOut>>
    BY <1>1, <1>5 DEF Acknowledge, Goto, PollRecords
  <2>2. device' = Delivered(device, poll[p].seen, keys + 1) /\ At(p, {"acknowledge"})
    BY <1>5 DEF Acknowledge
  <2>3. /\ device'.mirror = device.mirror
        /\ device'.resetDeviceNewApikey => device.resetDeviceNewApikey
        /\ ~Rotates(poll[p].seen) => device'.apikey = device.apikey
    BY <1>1, <2>2 DEF Delivered, Rows
  <2>4. KeyAgreement'
    BY <1>2, <2>1, <2>2, <2>3, AgreementStands DEF KeyInv, Rotating, At
  <2> QED BY <1>2, <2>1, <2>3, <2>4 DEF KeyInv, NoNewKeyOnProxied
<1>6. CASE AcknowledgeFunction(p) \/ AcknowledgeFirmware(p)
  <2>1. /\ At(p, {"ackFunction", "ackFirmware"}) /\ poll'[p].pc \in {"ackFirmware", "send"}
        /\ poll'[p].seen = poll[p].seen /\ poll'[p].answer = poll[p].answer
        /\ UNCHANGED <<deviceKey, lockedOut>>
    <3>1. CASE AcknowledgeFunction(p)
      BY <1>1, <3>1 DEF AcknowledgeFunction, Goto, PollRecords, At
    <3>2. CASE AcknowledgeFirmware(p)
      BY <1>1, <3>2 DEF AcknowledgeFirmware, Goto, PollRecords, At, ghosts
    <3> QED BY <1>6, <3>1, <3>2
  <2>2. /\ device'.mirror = device.mirror /\ device'.apikey = device.apikey
        /\ device'.resetDeviceNewApikey = device.resetDeviceNewApikey
    <3>1. \/ device' = device
          \/ device' = [device EXCEPT !.specialFunction = NoFunction]
          \/ device' = [device EXCEPT !.updateFirmware = FALSE]
      BY <1>6 DEF AcknowledgeFunction, ClearedFunction, AcknowledgeFirmware, ClearedPush
    <3> QED BY <1>1, <3>1 DEF Rows
  <2>3. KeyAgreement'
    BY <1>2, <2>1, <2>2, AgreementStands DEF KeyInv, Rotating, At
  <2> QED BY <1>2, <2>1, <2>2, <2>3 DEF KeyInv, NoNewKeyOnProxied
<1>7. CASE Send(p)
  <2>1. /\ poll'[p] = IdlePoll /\ UNCHANGED <<device, lockedOut>>
        /\ deviceKey' = IF poll[p].seen.resetDevice /\ poll[p].answer # "proxied" THEN Erased ELSE deviceKey
    BY <1>1, <1>7 DEF Send, ghosts
  <2>2. Rotates(poll[p].seen) => deviceKey' = Erased
    BY <2>1 DEF KeyInv, NoNewKeyOnProxied, Rotates
  <2>3. KeyAgreement'
    BY <1>2, <2>1, <2>2, AgreementStands DEF KeyInv, Rotating, At
  <2> QED BY <1>2, <2>1, <2>3 DEF KeyInv, NoNewKeyOnProxied, IdlePoll, NewDevice
<1> QED BY <1>3, <1>4, <1>5, <1>6, <1>7, PhasesOfAPoll

LEMMA KeyStep == TypeOK /\ ~StalePatches /\ KeyInv /\ [Next]_vars => KeyInv'
<1> SUFFICES ASSUME TypeOK, ~StalePatches, KeyInv, [Next]_vars PROVE KeyInv'
  OBVIOUS
<1>0. device \in Rows
  BY DEF TypeOK
<1>1. ASSUME UNCHANGED <<poll, deviceKey, lockedOut>>, device'.apikey = device.apikey,
             NoNewKeyOnProxied(device)'
      PROVE  KeyInv'
  BY <1>1 DEF KeyInv, KeyAgreement, At
<1>2. ASSUME NEW p \in Polls, PollStep(p) PROVE KeyInv'
  BY <1>2, KeyPollStep
<1>3. ASSUME NEW p \in Polls, Fail(p) PROVE KeyInv'
  <2>1. poll'[p] = IdlePoll /\ \A q \in Polls \ {p} : poll'[q] = poll[q]
    BY <1>3, PollMoves, PollFails
  <2>2. /\ UNCHANGED <<device, deviceKey>>
        /\ lockedOut' = (lockedOut \/ Rotating(p))
    BY <1>3 DEF Fail, Rotating
  <2>3. KeyAgreement'
    BY <2>1, <2>2, AgreementStands DEF KeyInv
  <2> QED BY <2>1, <2>2, <2>3 DEF KeyInv, NoNewKeyOnProxied, IdlePoll, NewDevice
<1>4. ASSUME NEW a \in Admins, PatchSave(a) PROVE KeyInv'
  <2>1. PICK change \in Changes :
          Saved(a, Merged(change, patch[a].row)) /\ Allowed(patch[a].row, Merged(change, patch[a].row), change)
    BY <1>4 DEF PatchSave
  <2>2. /\ device' = Merged(change, device) /\ Allowed(device, device', change)
        /\ UNCHANGED <<poll, deviceKey, lockedOut>>
    BY <1>4, <2>1 DEF Saved, PatchSave
  <2>3. device'.apikey = device.apikey
    BY <1>0, <2>2, DisplayPollAssumptions DEF Merged, Rows
  <2>4. NoNewKeyOnProxied(device)'
    BY <2>2 DEF Allowed, NoNewKeyOnProxied
  <2> QED BY <1>1, <2>2, <2>3, <2>4
<1>5. ASSUME NEW a \in Admins, RegenerateApikey(a) PROVE KeyInv'
  <2>1. device' = [device EXCEPT !.apikey = keys + 1] /\ lockedOut' /\ UNCHANGED poll
    BY <1>5 DEF RegenerateApikey, Saved
  <2> QED BY <1>0, <2>1 DEF KeyInv, KeyAgreement, NoNewKeyOnProxied, Rows
<1>6. ASSUME NEW a \in Admins, PatchLoad(a) \/ PatchEnds(a) PROVE KeyInv'
  <2>1. UNCHANGED <<device, poll, deviceKey, lockedOut>>
    BY <1>6 DEF PatchLoad, PatchEnds, ghosts
  <2> QED BY <1>1, <2>1 DEF KeyInv, NoNewKeyOnProxied
<1>7. ASSUME NEW s \in Screens, ScreenEvent(s) PROVE KeyInv'
  <2>1. /\ UNCHANGED <<poll, deviceKey, lockedOut>>
        /\ \/ device' = device
           \/ device' = [device EXCEPT !.pickedScreen = s]
           \/ device' = [device EXCEPT !.pickedScreen = NoScreen]
    BY <1>7 DEF ScreenEvent, ScheduleTurns, PickScreen, RenewOutput, DeleteScreen, AddScreen, ghosts
  <2> QED BY <1>0, <1>1, <2>1 DEF KeyInv, NoNewKeyOnProxied, Rows
<1>8. CASE SleepTurns \/ ClearPickByAdmin \/ UNCHANGED vars
  <2>1. /\ UNCHANGED <<poll, deviceKey, lockedOut>>
        /\ device' = device \/ device' = [device EXCEPT !.pickedScreen = NoScreen]
    BY <1>8 DEF SleepTurns, ClearPickByAdmin, vars, ghosts
  <2> QED BY <1>0, <1>1, <2>1 DEF KeyInv, NoNewKeyOnProxied, Rows
<1>9. ASSUME NEW a \in Admins, SetUpStep(a) PROVE KeyInv'
  <2>1. device' = device /\ UNCHANGED poll
    BY <1>9 DEF SetUpStep, LoadForSetUp, SetUp, Saved
  <2>2. CASE LoadForSetUp(a)
    <3>1. UNCHANGED <<device, poll, deviceKey, lockedOut>>
      BY <2>2 DEF LoadForSetUp, ghosts
    <3> QED BY <1>1, <3>1 DEF KeyInv, NoNewKeyOnProxied
  <2>3. CASE SetUp(a)
    <3>1. deviceKey' = device'.apikey
      BY <2>3 DEF SetUp, Saved
    <3> QED BY <2>1, <3>1 DEF KeyInv, KeyAgreement, NoNewKeyOnProxied
  <2> QED BY <1>9, <2>2, <2>3 DEF SetUpStep
<1> QED BY <1>2, <1>3, <1>4, <1>5, <1>6, <1>7, <1>8, <1>9 DEF Next, AdminStep

\* However many polls overlap and wherever they fail, the Device and the server
\* disagree on the API key only while a rotation's answer is on its way, or
\* once it was lost or an admin replaced the key (KeyAgreement).  No PATCH
\* saves a row that changed since it was read: a stale one brings an old key back.
THEOREM KeysAgree == ASSUME ~StalePatches PROVE Spec => []KeyAgreement
<1>1. Init => TypeOK /\ KeyInv
  BY TypeInit, KeyInit
<1>2. TypeOK /\ KeyInv /\ [Next]_vars => (TypeOK /\ KeyInv)'
  BY TypeStep, KeyStep
<1>3. KeyInv => KeyAgreement
  BY DEF KeyInv
<1> QED BY <1>1, <1>2, <1>3, PTL DEF Spec
-----------------------------------------------------------------------------
(* One-shot commands.                                                      *)

\* The commands a row still holds
Pending(row) == {c \in {"wipe", "resetDevice"} : row[c]} \cup ({row.specialFunction} \ {NoFunction})

\* What the row holds, and what a poll is yet to fire of what it read, is owed.
FireInv ==
  /\ unasked = {}
  /\ Pending(device) \subseteq owed
  /\ \A p \in Polls : At(p, Unanswered \cup {"acknowledge"}) => Pending(poll[p].seen) \subseteq owed
  /\ \A p \in Polls : At(p, {"ackFunction"}) => {poll[p].seen.specialFunction} \ {NoFunction} \subseteq owed

LEMMA FireInit == Init => FireInv
BY DEF Init, FireInv, Pending, NewDevice, IdlePoll, At, Unanswered, Choosing, Moving

\* Nothing fires, and at most more is owed
LEMMA FireFrame ==
  ASSUME FireInv, UNCHANGED <<poll, unasked>>, owed \subseteq owed', Pending(device)' \subseteq owed'
  PROVE  FireInv'
BY DEF FireInv, At

\* Of a Device that sends one poll at a time, that poll is all there is to fire.
LEMMA FireOfOnePoll ==
  ASSUME OnePollAtATime, NEW p \in Polls, unasked' = {}, Pending(device)' \subseteq owed',
         (At(p, Unanswered \cup {"acknowledge"}) => Pending(poll[p].seen) \subseteq owed)',
         (At(p, {"ackFunction"}) => {poll[p].seen.specialFunction} \ {NoFunction} \subseteq owed)'
  PROVE  FireInv'
BY DEF OnePollAtATime, FireInv

LEMMA FirePollStep ==
  ASSUME TypeOK, OnePollAtATime, FireInv, NEW p \in Polls, PollStep(p)
  PROVE  FireInv'
<1>1. poll \in [Polls -> PollRecords] /\ poll[p] \in PollRecords /\ poll[p].seen \in Rows /\ device \in Rows
  BY DEF TypeOK, PollRecords
<1>2. CASE Authenticate(p)
  <2>1. /\ poll'[p].pc = "answer" /\ poll'[p].seen = device
        /\ UNCHANGED <<device, owed, unasked>>
    BY <1>1, <1>2 DEF Authenticate, IdlePoll, ghosts
  <2>2. Pending(device)' = Pending(device) /\ Pending(poll[p].seen)' = Pending(device)
    BY <2>1 DEF Pending
  <2> QED BY <2>1, <2>2, FireOfOnePoll DEF FireInv, At
<1>3. CASE At(p, Unanswered)
  <2>1. /\ poll'[p].pc \in Unanswered \cup {"acknowledge"} /\ poll'[p].seen = poll[p].seen
        /\ UNCHANGED <<owed, unasked>>
    BY <1>3, BeforeAcknowledging
  <2>2. Pending(device)' = Pending(device)
    BY <1>1, <1>3, BeforeAcknowledging DEF Pending, Rows
  <2>3. Pending(poll[p].seen)' = Pending(poll[p].seen)
    BY <2>1 DEF Pending
  <2>4. poll'[p].pc # "ackFunction"
    BY <2>1 DEF Unanswered, Choosing, Moving
  <2> QED BY <1>3, <2>1, <2>2, <2>3, <2>4, FireOfOnePoll DEF FireInv, At
<1>4. CASE Acknowledge(p)
  <2> DEFINE seen == poll[p].seen
             carried == {c \in {"wipe", "resetDevice"} : seen[c]}
  <2>1. At(p, {"acknowledge"}) /\ poll'[p].pc = "ackFunction" /\ poll'[p].seen = seen
    BY <1>1, <1>4 DEF Acknowledge, Goto, PollRecords
  <2>2. PICK fired : fired \subseteq carried /\ Fire(carried, fired) /\ device' = Delivered(device, seen, keys + 1)
    BY <1>4 DEF Acknowledge
  <2>3. Pending(seen) \subseteq owed /\ Pending(device) \subseteq owed /\ unasked = {}
    BY <2>1 DEF FireInv, At
  <2>4. owed' = owed \ carried /\ unasked' = {}
    BY <2>2, <2>3 DEF Fire, Pending
  <2>5. {seen.specialFunction} \ {NoFunction} \subseteq owed'
    BY <1>1, <2>3, <2>4, DisplayPollAssumptions DEF Pending, Rows
  <2>6. /\ device'.specialFunction = device.specialFunction
        /\ device'.wipe = (device.wipe /\ ~seen.wipe)
        /\ device'.resetDevice = (device.resetDevice /\ ~seen.resetDevice)
    BY <1>1, <2>2 DEF Delivered, Rows
  <2>7. Pending(device)' \subseteq owed'
    <3>1. {device'.specialFunction} \ {NoFunction} \subseteq owed'
      BY <1>1, <2>3, <2>4, <2>6, DisplayPollAssumptions DEF Pending, Rows
    <3>2. device'.wipe => "wipe" \in owed'
      BY <2>3, <2>4, <2>6 DEF Pending
    <3>3. device'.resetDevice => "resetDevice" \in owed'
      BY <2>3, <2>4, <2>6 DEF Pending
    <3> QED BY <3>1, <3>2, <3>3 DEF Pending
  <2>8. ~At(p, Unanswered \cup {"acknowledge"})'
    BY <2>1 DEF At, Unanswered, Choosing, Moving
  <2> QED BY <2>1, <2>4, <2>5, <2>7, <2>8, FireOfOnePoll
<1>5. CASE AcknowledgeFunction(p)
  <2> DEFINE function == poll[p].seen.specialFunction
  <2>1. At(p, {"ackFunction"}) /\ poll'[p].pc = "ackFirmware"
    BY <1>1, <1>5 DEF AcknowledgeFunction, Goto, PollRecords
  <2>2. PICK fired : fired \subseteq {function} \ {NoFunction} /\ Fire({function}, fired)
    BY <1>5 DEF AcknowledgeFunction
  <2>3. {function} \ {NoFunction} \subseteq owed /\ Pending(device) \subseteq owed /\ unasked = {}
    BY <2>1 DEF FireInv, At
  <2>4. owed' = owed \ {function} /\ unasked' = {}
    BY <2>2, <2>3 DEF Fire
  <2>5. function \notin {"wipe", "resetDevice"}
    BY <1>1, DisplayPollAssumptions DEF Rows, NoFunction
  <2>6. /\ device'.wipe = device.wipe /\ device'.resetDevice = device.resetDevice
        /\ device'.specialFunction \in {device.specialFunction, NoFunction} \ ({function} \ {NoFunction})
    <3>1. CASE function = NoFunction
      BY <1>5, <3>1 DEF AcknowledgeFunction
    <3>2. CASE function # NoFunction /\ device.specialFunction = function
      BY <1>1, <1>5, <3>2 DEF AcknowledgeFunction, ClearedFunction, Rows
    <3>3. CASE function # NoFunction /\ device.specialFunction # function
      BY <1>5, <3>3 DEF AcknowledgeFunction, ClearedFunction
    <3> QED BY <3>1, <3>2, <3>3
  <2>7. Pending(device)' \subseteq owed'
    <3>1. {device'.specialFunction} \ {NoFunction} \subseteq owed'
      BY <2>3, <2>4, <2>6 DEF Pending
    <3>2. (device'.wipe => "wipe" \in owed') /\ (device'.resetDevice => "resetDevice" \in owed')
      BY <2>3, <2>4, <2>5, <2>6 DEF Pending
    <3> QED BY <3>1, <3>2 DEF Pending
  <2>8. ~At(p, Unanswered \cup {"acknowledge"})' /\ ~At(p, {"ackFunction"})'
    BY <2>1 DEF At, Unanswered, Choosing, Moving
  <2> QED BY <2>4, <2>7, <2>8, FireOfOnePoll
<1>6. CASE AcknowledgeFirmware(p) \/ Send(p)
  <2>1. poll'[p].pc \in {"send", "idle"} /\ UNCHANGED <<owed, unasked>>
    <3>1. CASE AcknowledgeFirmware(p)
      BY <1>1, <3>1 DEF AcknowledgeFirmware, Goto, PollRecords, ghosts
    <3>2. CASE Send(p)
      BY <1>1, <3>2 DEF Send, IdlePoll, ghosts
    <3> QED BY <1>6, <3>1, <3>2
  <2>2. device' = device \/ device' = [device EXCEPT !.updateFirmware = FALSE]
    BY <1>6 DEF AcknowledgeFirmware, ClearedPush, Send
  <2>3. Pending(device)' = Pending(device)
    BY <1>1, <2>2 DEF Pending, Rows
  <2>4. ~At(p, Unanswered \cup {"acknowledge"})' /\ ~At(p, {"ackFunction"})'
    BY <2>1 DEF At, Unanswered, Choosing, Moving
  <2> QED BY <2>1, <2>3, <2>4, FireOfOnePoll DEF FireInv
<1> QED BY <1>2, <1>3, <1>4, <1>5, <1>6, PhasesOfAPoll

LEMMA FireStep ==
  TypeOK /\ OnePollAtATime /\ ~StalePatches /\ FireInv /\ [Next]_vars => FireInv'
<1> SUFFICES ASSUME TypeOK, OnePollAtATime, ~StalePatches, FireInv, [Next]_vars PROVE FireInv'
  OBVIOUS
<1>0. device \in Rows /\ Pending(device) \subseteq owed
  BY DEF TypeOK, FireInv
<1>1. ASSUME NEW p \in Polls, PollStep(p) PROVE FireInv'
  BY <1>1, FirePollStep
<1>2. ASSUME NEW p \in Polls, Fail(p) PROVE FireInv'
  <2>1. poll'[p].pc = "idle" /\ UNCHANGED <<device, owed, unasked>>
    BY <1>2, PollFails DEF Fail
  <2>2. Pending(device)' = Pending(device)
    BY <2>1 DEF Pending
  <2>3. ~At(p, Unanswered \cup {"acknowledge"})' /\ ~At(p, {"ackFunction"})'
    BY <2>1 DEF At, Unanswered, Choosing, Moving
  <2> QED BY <2>1, <2>2, <2>3, FireOfOnePoll DEF FireInv
<1>3. ASSUME NEW a \in Admins, PatchSave(a) PROVE FireInv'
  <2>1. PICK change \in Changes : Saved(a, Merged(change, patch[a].row)) /\ owed' = owed \cup Asked(change)
    BY <1>3 DEF PatchSave
  <2>2. device' = Merged(change, device) /\ UNCHANGED <<poll, unasked>>
    BY <2>1 DEF Saved
  <2>3. Pending(device)' \subseteq owed'
    <3>1. device'.wipe => "wipe" \in owed'
      BY <1>0, <2>1, <2>2 DEF Pending, Merged, Asked, Rows
    <3>2. device'.resetDevice => "resetDevice" \in owed'
      BY <1>0, <2>1, <2>2 DEF Pending, Merged, Asked, Rows
    <3>3. {device'.specialFunction} \ {NoFunction} \subseteq owed'
      BY <1>0, <2>1, <2>2 DEF Pending, Merged, Asked, Rows
    <3> QED BY <3>1, <3>2, <3>3 DEF Pending
  <2> QED BY <2>1, <2>2, <2>3, FireFrame
<1>4. ASSUME NEW a \in Admins, RegenerateApikey(a) PROVE FireInv'
  <2>1. device' = [device EXCEPT !.apikey = keys + 1] /\ UNCHANGED <<poll, owed, unasked>>
    BY <1>4 DEF RegenerateApikey, Saved
  <2>2. Pending(device)' = Pending(device)
    BY <1>0, <2>1 DEF Pending, Rows
  <2> QED BY <1>0, <2>1, <2>2, FireFrame
<1>5. ASSUME UNCHANGED <<poll, owed, unasked>>,
             device' = device \/ \E s : device' = [device EXCEPT !.pickedScreen = s]
      PROVE  FireInv'
  <2>1. Pending(device)' = Pending(device)
    BY <1>0, <1>5 DEF Pending, Rows
  <2> QED BY <1>0, <1>5, <2>1, FireFrame
<1>6. ASSUME NEW a \in Admins, PatchLoad(a) \/ PatchEnds(a) PROVE FireInv'
  <2>1. UNCHANGED <<device, poll, owed, unasked>>
    BY <1>6 DEF PatchLoad, PatchEnds, ghosts
  <2> QED BY <1>5, <2>1
<1>7. ASSUME NEW s \in Screens, ScreenEvent(s) PROVE FireInv'
  <2>1. /\ UNCHANGED <<poll, owed, unasked>>
        /\ \/ device' = device
           \/ device' = [device EXCEPT !.pickedScreen = s]
           \/ device' = [device EXCEPT !.pickedScreen = NoScreen]
    BY <1>7 DEF ScreenEvent, ScheduleTurns, PickScreen, RenewOutput, DeleteScreen, AddScreen, ghosts
  <2> QED BY <1>5, <2>1
<1>8. CASE SleepTurns \/ ClearPickByAdmin \/ UNCHANGED vars
  <2>1. /\ UNCHANGED <<poll, owed, unasked>>
        /\ device' = device \/ device' = [device EXCEPT !.pickedScreen = NoScreen]
    BY <1>8 DEF SleepTurns, ClearPickByAdmin, vars, ghosts
  <2> QED BY <1>5, <2>1
<1>9. ASSUME NEW a \in Admins, SetUpStep(a) PROVE FireInv'
  <2>1. UNCHANGED <<device, poll, owed, unasked>>
    BY <1>9 DEF SetUpStep, LoadForSetUp, SetUp, Saved, ghosts
  <2> QED BY <1>5, <2>1
<1> QED BY <1>1, <1>2, <1>3, <1>4, <1>6, <1>7, <1>8, <1>9 DEF Next, AdminStep

\* A Device that sends one poll at a time fires a one-shot command no more
\* often than admins asked for it (FiresAtMostOnce), unless a PATCH saves back a
\* row it read before the command was acknowledged.  Two polls that overlap may
\* both carry it.
THEOREM OneShotsFireOnce == ASSUME OnePollAtATime, ~StalePatches PROVE Spec => []FiresAtMostOnce
<1>1. Init => TypeOK /\ FireInv
  BY TypeInit, FireInit
<1>2. TypeOK /\ FireInv /\ [Next]_vars => (TypeOK /\ FireInv)'
  BY OnePollAtATime, TypeStep, FireStep
<1>3. FireInv => FiresAtMostOnce
  BY DEF FireInv, FiresAtMostOnce
<1> QED BY <1>1, <1>2, <1>3, PTL DEF Spec

=============================================================================
