------------------------ MODULE MCBackground_proofs ------------------------
(***************************************************************************)
(* Theorems about SharedBrowser, for any number of renders, of slots and   *)
(* of launches, and about ScreenOrder, for any number of Screens and of    *)
(* requests that overlap, a delete excepted: that the Order stays 1..N and *)
(* that ScreenOrder implements ScreenList.                                 *)
(***************************************************************************)
EXTENDS MCBackground, FiniteSetTheorems, SequenceTheorems, WellFoundedInduction, TLAPS

-----------------------------------------------------------------------------
(* The slots.  What makes SlotsAccounted inductive is that the queue holds *)
(* waiting renders only, each once: a slot is handed to a render that does *)
(* not hold one.                                                           *)

Queued ==
  \A i \in 1..Len(waiting) :
    /\ At(waiting[i], "waiting")
    /\ \A j \in 1..Len(waiting) : i # j => waiting[i] # waiting[j]

SlotInv == TypeOK /\ SlotsAccounted /\ Queued

LEMMA HoldersFinite == IsFiniteSet(Holders)
<1>1. Holders \subseteq Renders
  BY DEF Holders
<1> QED BY <1>1, SharedBrowserAssumptions, FS_Subset

\* A render that goes on holding its slot changes neither the holders nor the queue.
LEMMA HolderGoesOn ==
  ASSUME TypeOK, SlotsAccounted, Queued,
         NEW r \in Renders, render[r].pc \in Working,
         NEW rec \in [pc: Working, with: Launches \cup {NoLaunch}],
         render' = [render EXCEPT ![r] = rec],
         UNCHANGED <<waiting, openPages>>
  PROVE  SlotsAccounted' /\ Queued'
<1>1. /\ render' \in [Renders -> [pc: {"idle", "waiting"} \cup Working, with: Launches \cup {NoLaunch}]]
      /\ \A q \in Renders : render'[q] = IF q = r THEN rec ELSE render[q]
  BY DEF TypeOK
<1>2. Holders' = Holders
  BY <1>1 DEF Holders
<1>3. SlotsAccounted'
  BY <1>2 DEF SlotsAccounted
<1>4. \A i \in 1..Len(waiting) : waiting[i] \in Renders /\ waiting[i] # r
  BY DEF Queued, At, TypeOK, Working
<1>5. Queued'
  BY <1>1, <1>4 DEF Queued, At
<1> QED BY <1>3, <1>5

LEMMA SlotInit == Init => SlotInv
<1> SUFFICES ASSUME Init PROVE SlotInv
  OBVIOUS
<1>1. TypeOK
  <2>1. Idle \in [pc: {"idle", "waiting"} \cup Working, with: Launches \cup {NoLaunch}]
    BY DEF Idle
  <2>2. breaks \in 0..MaxBreaks
    BY SharedBrowserAssumptions DEF Init
  <2>3. /\ openPages \in Nat /\ waiting \in Seq(Renders) /\ stopping \in BOOLEAN
        /\ browserPromise \in Launches \cup {NoLaunch} /\ closing \in SUBSET Launches
    BY EmptySeq DEF Init
  <2>4. render \in [Renders -> [pc: {"idle", "waiting"} \cup Working, with: Launches \cup {NoLaunch}]]
    BY <2>1 DEF Init
  <2>5. browser \in [Launches -> {"dead", "launching", "connected", "failed"}]
    BY DEF Init
  <2> QED BY <2>2, <2>3, <2>4, <2>5 DEF TypeOK
<1>2. Holders = {}
  BY DEF Init, Idle, Holders, Working
<1>3. SlotsAccounted
  BY <1>2, FS_EmptySet, SharedBrowserAssumptions DEF Init, SlotsAccounted
<1>4. Queued
  BY DEF Init, Queued
<1> QED BY <1>1, <1>3, <1>4 DEF SlotInv

\* Launching or sharing a browser is a step of a render that goes on.
LEMMA ObtainGoesOn ==
  ASSUME TypeOK, NEW r \in Renders, NEW dead \in Launches \cup {NoLaunch}, Obtain(r, dead)
  PROVE  \E rec \in [pc: Working, with: Launches \cup {NoLaunch}] :
           /\ render' = [render EXCEPT ![r] = rec]
           /\ browserPromise' \in Launches \cup {NoLaunch}
           /\ browser' \in [Launches -> {"dead", "launching", "connected", "failed"}]
<1>1. CASE browserPromise \in {NoLaunch, dead}
  <2> DEFINE b == CHOOSE name \in Launches \ Referred : TRUE
  <2>1. /\ Launches \ Referred # {}
        /\ browserPromise' = b
        /\ browser' = [browser EXCEPT ![b] = "launching"]
        /\ render' = [render EXCEPT ![r] = [pc |-> "launch", with |-> b]]
    BY <1>1 DEF Obtain, Launch
  <2>2. b \in Launches
    BY <2>1
  <2> QED BY <2>1, <2>2 DEF TypeOK, Working
<1>2. CASE browserPromise \notin {NoLaunch, dead}
  <2>1. render' = [render EXCEPT ![r] = [pc |-> "await", with |-> browserPromise]]
        /\ UNCHANGED <<browserPromise, browser>>
    BY <1>2 DEF Obtain, Share
  <2> QED BY <2>1 DEF TypeOK, Working
<1> QED BY <1>1, <1>2

\* The steps of a render between getting its slot and giving it back.
LEMMA RenderGoesOn ==
  ASSUME SlotInv, NEW r \in Renders,
         \/ AskForBrowser(r) \/ FoundConnected(r) \/ FoundDead(r) \/ Launched(r)
         \/ LaunchFailed(r) \/ OpenPage(r) \/ NoPage(r) \/ Drawn(r)
  PROVE  SlotInv'
<1> USE DEF SlotInv
<1>1. /\ render[r].pc \in Working
      /\ UNCHANGED <<openPages, waiting, closing, ends>>
  BY DEF AskForBrowser, FoundConnected, FoundDead, Launched, LaunchFailed, OpenPage, NoPage,
         Drawn, At, Working
<1>2. \E rec \in [pc: Working, with: Launches \cup {NoLaunch}] :
        /\ render' = [render EXCEPT ![r] = rec]
        /\ browserPromise' \in Launches \cup {NoLaunch}
        /\ browser' \in [Launches -> {"dead", "launching", "connected", "failed"}]
  <2>0. render[r].with \in Launches \cup {NoLaunch}
    BY DEF TypeOK
  <2>1. CASE AskForBrowser(r)
    BY <2>1, ObtainGoesOn DEF AskForBrowser
  <2>2. CASE FoundDead(r)
    BY <2>0, <2>2, ObtainGoesOn DEF FoundDead
  <2>3. CASE LaunchFailed(r) \/ NoPage(r) \/ Drawn(r)
    <3>1. render' = [render EXCEPT ![r] = [pc |-> "end", with |-> NoLaunch]]
      BY <2>3 DEF LaunchFailed, NoPage, Drawn, End
    <3>2. /\ browserPromise' \in Launches \cup {NoLaunch}
          /\ browser' = browser
      BY <2>3 DEF LaunchFailed, NoPage, Drawn, TypeOK
    <3> QED BY <3>1, <3>2 DEF TypeOK, Working
  <2>4. CASE FoundConnected(r) \/ Launched(r) \/ OpenPage(r)
    <3>1. PICK pc \in Working : render' = [render EXCEPT ![r].pc = pc]
      BY <2>4 DEF FoundConnected, Launched, OpenPage, Goto, Working
    <3>2. [render[r] EXCEPT !.pc = pc] = [pc |-> pc, with |-> render[r].with]
      <4>1. render[r] \in [pc: {"idle", "waiting"} \cup Working, with: Launches \cup {NoLaunch}]
        BY DEF TypeOK
      <4> QED BY <4>1
    <3>3. UNCHANGED <<browserPromise, browser>>
      BY <2>4 DEF FoundConnected, Launched, OpenPage
    <3> QED BY <2>0, <3>1, <3>2, <3>3 DEF TypeOK
  <2> QED BY <2>1, <2>2, <2>3, <2>4
<1>3. PICK rec \in [pc: Working, with: Launches \cup {NoLaunch}] :
        render' = [render EXCEPT ![r] = rec]
  BY <1>2
<1>4. SlotsAccounted' /\ Queued'
  BY <1>1, <1>3, HolderGoesOn
<1>5. TypeOK'
  BY <1>1, <1>2, <1>3 DEF TypeOK, ends
<1> QED BY <1>4, <1>5

LEMMA SlotTaken ==
  ASSUME SlotInv, NEW r \in Renders, TakeSlot(r)
  PROVE  SlotInv'
<1> USE DEF SlotInv
<1>1. /\ render[r].pc = "idle" /\ openPages < MAX_CONCURRENT_PAGES
      /\ openPages' = openPages + 1
      /\ render' = [render EXCEPT ![r].pc = "slot"]
      /\ UNCHANGED <<waiting, browserPromise, browser, closing, ends>>
  BY DEF TakeSlot, At, Goto
<1>2. TypeOK'
  BY <1>1 DEF TypeOK, Working, ends
<1>3. \A q \in Renders : render'[q].pc = IF q = r THEN "slot" ELSE render[q].pc
  BY <1>1 DEF TypeOK
<1>4. Holders' = Holders \cup {r} /\ r \notin Holders
  BY <1>1, <1>3 DEF Holders, Working
<1>5. SlotsAccounted'
  <2>1. Cardinality(Holders') = Cardinality(Holders) + 1
    BY <1>4, HoldersFinite, FS_AddElement
  <2>2. waiting = <<>>
    BY <1>1, SharedBrowserAssumptions DEF SlotsAccounted, TypeOK
  <2> QED BY <1>1, <2>1, <2>2, SharedBrowserAssumptions DEF SlotsAccounted, TypeOK
<1>6. Queued'
  <2>1. \A i \in 1..Len(waiting) : waiting[i] \in Renders /\ waiting[i] # r
    BY <1>1 DEF Queued, At, TypeOK
  <2> QED BY <1>1, <1>3, <2>1 DEF Queued, At
<1> QED BY <1>2, <1>5, <1>6

LEMMA SlotWaitedFor ==
  ASSUME SlotInv, NEW r \in Renders, WaitForSlot(r)
  PROVE  SlotInv'
<1> USE DEF SlotInv
<1>1. /\ render[r].pc = "idle" /\ openPages >= MAX_CONCURRENT_PAGES
      /\ waiting' = Append(waiting, r)
      /\ render' = [render EXCEPT ![r].pc = "waiting"]
      /\ UNCHANGED <<openPages, browserPromise, browser, closing, ends>>
  BY DEF WaitForSlot, At, Goto
<1>2. TypeOK'
  BY <1>1 DEF TypeOK, ends
<1>3. \A q \in Renders : render'[q].pc = IF q = r THEN "waiting" ELSE render[q].pc
  BY <1>1 DEF TypeOK
<1>4. Holders' = Holders
  BY <1>1, <1>3 DEF Holders, Working
<1>5. SlotsAccounted'
  BY <1>1, <1>4, SharedBrowserAssumptions DEF SlotsAccounted, TypeOK
<1>6. Queued'
  <2>1. waiting \in Seq(Renders)
    BY DEF TypeOK
  <2>2. /\ Len(waiting') = Len(waiting) + 1
        /\ waiting'[Len(waiting) + 1] = r
        /\ \A i \in 1..Len(waiting) : waiting'[i] = waiting[i]
    BY <1>1, <2>1
  <2>3. \A i \in 1..Len(waiting) : waiting[i] \in Renders /\ waiting[i] # r
    BY <1>1, <2>1 DEF Queued, At
  <2> QED BY <1>3, <2>1, <2>2, <2>3 DEF Queued, At
<1> QED BY <1>2, <1>5, <1>6

LEMMA SlotHandedOver ==
  ASSUME SlotInv, NEW r \in Renders, HandSlotOver(r)
  PROVE  SlotInv'
<1> USE DEF SlotInv
<1> DEFINE h == Head(waiting)
<1>1. /\ render[r].pc = "end" /\ waiting # <<>>
      /\ waiting' = Tail(waiting)
      /\ render' = [render EXCEPT ![r] = Idle, ![h].pc = "slot"]
      /\ UNCHANGED <<openPages, browserPromise, browser, closing, ends>>
  BY DEF HandSlotOver, At
<1>2. waiting \in Seq(Renders) /\ Len(waiting) \in Nat \ {0} /\ h = waiting[1]
  BY <1>1 DEF TypeOK
<1>3. h \in Renders /\ render[h].pc = "waiting" /\ h # r
  BY <1>1, <1>2 DEF Queued, At
<1>4. \A q \in Renders :
        render'[q].pc = IF q = r THEN "idle" ELSE IF q = h THEN "slot" ELSE render[q].pc
  BY <1>1, <1>3 DEF TypeOK, Idle
<1>5. TypeOK'
  <2>1. render' \in [Renders -> [pc: {"idle", "waiting"} \cup Working, with: Launches \cup {NoLaunch}]]
    BY ZenonT(40), <1>1, <1>3 DEF TypeOK, Idle, Working
  <2>2. waiting' \in Seq(Renders)
    BY <1>1, <1>2
  <2> QED BY <1>1, <2>1, <2>2 DEF TypeOK, ends
<1>6. SlotsAccounted'
  <2>1. Holders' = (Holders \ {r}) \cup {h}
    <3>1. \A q \in Renders : render'[q].pc \in Working <=> (q # r /\ render[q].pc \in Working) \/ q = h
      BY <1>3, <1>4 DEF Working
    <3> QED BY <1>3, <3>1 DEF Holders
  <2>2. r \in Holders /\ h \notin Holders
    BY <1>1, <1>3 DEF Holders, Working
  <2>3. Cardinality(Holders') = Cardinality(Holders)
    <3>1. IsFiniteSet(Holders \ {r}) /\ Cardinality(Holders \ {r}) = Cardinality(Holders) - 1
      BY <2>2, HoldersFinite, FS_RemoveElement
    <3>2. Cardinality((Holders \ {r}) \cup {h}) = Cardinality(Holders \ {r}) + 1
      BY <2>2, <3>1, FS_AddElement
    <3> QED BY <2>1, <3>1, <3>2, HoldersFinite, FS_CardinalityType
  <2> QED BY <1>1, <2>3 DEF SlotsAccounted
<1>7. Queued'
  <2>1. /\ Len(waiting') = Len(waiting) - 1
        /\ \A i \in 1..Len(waiting') : waiting'[i] = waiting[i + 1]
    BY <1>1, <1>2
  <2>2. \A i \in 1..Len(waiting') :
          /\ i + 1 \in 1..Len(waiting) /\ waiting[i + 1] \in Renders
          /\ render[waiting[i + 1]].pc = "waiting" /\ waiting[i + 1] # h
    BY <1>2, <2>1 DEF Queued, At
  <2>3. \A i \in 1..Len(waiting') : waiting'[i] # r /\ waiting'[i] # h
    BY <1>1, <2>1, <2>2
  <2>4. \A i \in 1..Len(waiting') : render'[waiting'[i]].pc = "waiting"
    BY <1>4, <2>1, <2>2, <2>3
  <2>5. \A i, j \in 1..Len(waiting') : i # j => waiting'[i] # waiting'[j]
    BY <1>2, <2>1, <2>2 DEF Queued
  <2> QED BY <2>4, <2>5 DEF Queued, At
<1> QED BY <1>5, <1>6, <1>7

LEMMA SlotGivenBack ==
  ASSUME SlotInv, NEW r \in Renders, GiveSlotBack(r)
  PROVE  SlotInv'
<1> USE DEF SlotInv
<1>1. /\ render[r].pc = "end" /\ waiting = <<>>
      /\ openPages' = openPages - 1
      /\ render' = [render EXCEPT ![r] = Idle]
      /\ UNCHANGED <<waiting, browserPromise, browser, closing, ends>>
  BY DEF GiveSlotBack, At
<1>2. \A q \in Renders : render'[q].pc = IF q = r THEN "idle" ELSE render[q].pc
  BY <1>1 DEF TypeOK, Idle
<1>3. Holders' = Holders \ {r} /\ r \in Holders
  BY <1>1, <1>2 DEF Holders, Working
<1>4. /\ Cardinality(Holders') = Cardinality(Holders) - 1
      /\ Cardinality(Holders') \in Nat
  BY <1>3, HoldersFinite, FS_RemoveElement, FS_CardinalityType
<1>5. SlotsAccounted'
  BY <1>1, <1>4, SharedBrowserAssumptions DEF SlotsAccounted, TypeOK
<1>6. TypeOK'
  BY <1>1, <1>4 DEF TypeOK, SlotsAccounted, Idle, ends
<1>7. Queued'
  BY <1>1 DEF Queued
<1> QED BY <1>5, <1>6, <1>7

\* Chromium and the stopping Instance touch neither slots nor renders.
LEMMA SlotsLeftAlone ==
  ASSUME SlotInv,
         \/ \E b \in Launches : LaunchSettles(b) \/ LaunchFails(b) \/ Crash(b) \/ Close(b)
         \/ BeginClose
         \/ UNCHANGED vars
  PROVE  SlotInv'
<1> USE DEF SlotInv
<1>1. UNCHANGED <<openPages, waiting, render>>
  BY DEF LaunchSettles, LaunchFails, Crash, Breaks, Close, BeginClose, vars
<1>2. TypeOK'
  <2>1. CASE \E b \in Launches : LaunchSettles(b) \/ Close(b)
    BY <1>1, <2>1 DEF TypeOK, LaunchSettles, Close, ends
  <2>2. CASE \E b \in Launches : LaunchFails(b) \/ Crash(b)
    <3>1. breaks' \in 0..MaxBreaks
      BY <2>2, SharedBrowserAssumptions DEF TypeOK, LaunchFails, Crash, Breaks
    <3> QED BY <1>1, <2>2, <3>1 DEF TypeOK, LaunchFails, Crash, Breaks
  <2>3. CASE BeginClose \/ UNCHANGED vars
    BY <1>1, <2>3 DEF TypeOK, BeginClose, vars, ends
  <2> QED BY <2>1, <2>2, <2>3
<1>3. Holders' = Holders
  BY <1>1 DEF Holders
<1>4. SlotsAccounted' /\ Queued'
  BY <1>1, <1>3 DEF SlotsAccounted, Queued, At
<1> QED BY <1>2, <1>4

LEMMA SlotNext == SlotInv /\ [Next]_vars => SlotInv'
<1> SUFFICES ASSUME SlotInv, [Next]_vars PROVE SlotInv'
  OBVIOUS
<1>1. CASE \E r \in Renders : TakeSlot(r) \/ WaitForSlot(r) \/ RenderStep(r)
  <2>1. PICK r \in Renders : TakeSlot(r) \/ WaitForSlot(r) \/ RenderStep(r)
    BY <1>1
  <2> QED BY <2>1, SlotTaken, SlotWaitedFor, RenderGoesOn, SlotHandedOver, SlotGivenBack
          DEF RenderStep
<1>2. CASE ~ \E r \in Renders : TakeSlot(r) \/ WaitForSlot(r) \/ RenderStep(r)
  BY <1>2, SlotsLeftAlone DEF Next
<1> QED BY <1>1, <1>2

\* Every variable keeps its shape; that the slot counter never drops below zero
\* rests on the slots being accounted for.
THEOREM BrowserTypeCorrect == Spec => []TypeOK
<1>1. SlotInv => TypeOK
  BY DEF SlotInv
<1> QED BY <1>1, SlotInit, SlotNext, PTL DEF Spec

\* acquireSlot and releaseSlot neither lose a slot nor hand one out twice, never
\* open more than MAX_CONCURRENT_PAGES, and leave nobody waiting at a free one.
THEOREM SlotsAreAccounted == Spec => []SlotsAccounted
<1>1. SlotInv => SlotsAccounted
  BY DEF SlotInv
<1> QED BY <1>1, SlotInit, SlotNext, PTL DEF Spec

-----------------------------------------------------------------------------
(* The browsers.  A promise is dropped only for a launch that is over, and *)
(* closeSharedBrowser keeps hold of the one it takes away.                 *)

StrayInv ==
  /\ SlotInv
  /\ NoStrayBrowser
  /\ ~stopping => closing = {}

LEMMA StrayInit == Init => StrayInv
  BY SlotInit DEF Init, StrayInv, NoStrayBrowser

\* A render drops no promise but that of a launch it has seen dead or failed.
LEMMA ObtainKeepsLive ==
  ASSUME TypeOK, NoStrayBrowser, NEW r \in Renders, NEW dead \in Launches \cup {NoLaunch},
         dead \in Launches => browser[dead] \in {"dead", "failed"},
         Obtain(r, dead), UNCHANGED closing
  PROVE  NoStrayBrowser'
<1>1. CASE browserPromise \in {NoLaunch, dead}
  <2> DEFINE b == CHOOSE name \in Launches \ Referred : TRUE
  <2>1. /\ Launches \ Referred # {}
        /\ browserPromise' = b
        /\ browser' = [browser EXCEPT ![b] = "launching"]
    BY <1>1 DEF Obtain, Launch
  <2>2. b \in Launches
    BY <2>1
  <2> HIDE DEF b
  <2> SUFFICES ASSUME NEW c \in Launches, browser'[c] \in {"launching", "connected"}, c # b
               PROVE  c \in closing'
    BY <2>1 DEF NoStrayBrowser
  <2>3. browser[c] \in {"launching", "connected"}
    BY <2>1, <2>2 DEF TypeOK
  <2>4. c # browserPromise
    BY <1>1, <2>3, SharedBrowserAssumptions
  <2> QED BY <2>3, <2>4 DEF NoStrayBrowser
<1>2. CASE browserPromise \notin {NoLaunch, dead}
  BY <1>2 DEF Obtain, Share, NoStrayBrowser
<1> QED BY <1>1, <1>2

LEMMA StrayNext == StrayInv /\ [Next]_vars => StrayInv'
<1> SUFFICES ASSUME StrayInv, [Next]_vars PROVE StrayInv'
  OBVIOUS
<1>0. SlotInv' /\ TypeOK
  BY SlotNext DEF StrayInv, SlotInv
<1>1. CASE \E r \in Renders : TakeSlot(r) \/ WaitForSlot(r) \/ RenderStep(r)
  <2>1. PICK r \in Renders : TakeSlot(r) \/ WaitForSlot(r) \/ RenderStep(r)
    BY <1>1
  <2>2. UNCHANGED <<closing, stopping>>
    BY <2>1 DEF TakeSlot, WaitForSlot, RenderStep, AskForBrowser, FoundConnected, FoundDead,
         Launched, LaunchFailed, OpenPage, NoPage, Drawn, HandSlotOver, GiveSlotBack, ends
  <2>3. NoStrayBrowser'
    <3>1. CASE AskForBrowser(r)
      BY <1>0, <2>2, <3>1, ObtainKeepsLive, SharedBrowserAssumptions DEF AskForBrowser, StrayInv
    <3>2. CASE FoundDead(r)
      <4>1. render[r].with \in Launches \cup {NoLaunch}
        BY <1>0 DEF TypeOK
      <4> QED BY <1>0, <2>2, <3>2, <4>1, ObtainKeepsLive DEF FoundDead, StrayInv
    <3>3. CASE LaunchFailed(r)
      <4>1. /\ browser[render[r].with] = "failed"
            /\ browserPromise' # browserPromise => browserPromise = render[r].with
            /\ UNCHANGED <<browser, closing>>
        BY <3>3 DEF LaunchFailed
      <4> QED BY <4>1 DEF StrayInv, NoStrayBrowser
    <3>4. CASE ~(AskForBrowser(r) \/ FoundDead(r) \/ LaunchFailed(r))
      <4>1. UNCHANGED <<browser, browserPromise>>
        BY <2>1, <3>4 DEF TakeSlot, WaitForSlot, RenderStep, FoundConnected, Launched, OpenPage,
             NoPage, Drawn, HandSlotOver, GiveSlotBack
      <4> QED BY <2>2, <4>1 DEF StrayInv, NoStrayBrowser
    <3> QED BY <3>1, <3>2, <3>3, <3>4
  <2> QED BY <1>0, <2>2, <2>3 DEF StrayInv
<1>2. CASE \E b \in Launches : LaunchSettles(b) \/ LaunchFails(b) \/ Crash(b) \/ Close(b)
  <2>1. PICK b \in Launches : LaunchSettles(b) \/ LaunchFails(b) \/ Crash(b) \/ Close(b)
    BY <1>2
  <2>2. UNCHANGED <<browserPromise, stopping>> /\ closing' \subseteq closing
    BY <2>1 DEF LaunchSettles, LaunchFails, Crash, Breaks, Close, ends
  <2>3. NoStrayBrowser'
    <3>1. CASE LaunchSettles(b)
      BY <1>0, <2>2, <3>1 DEF LaunchSettles, StrayInv, NoStrayBrowser, TypeOK
    <3>2. CASE LaunchFails(b) \/ Crash(b)
      BY <1>0, <2>2, <3>2 DEF LaunchFails, Crash, Breaks, StrayInv, NoStrayBrowser, TypeOK
    <3>3. CASE Close(b)
      BY <1>0, <2>2, <3>3 DEF Close, StrayInv, NoStrayBrowser, TypeOK
    <3> QED BY <2>1, <3>1, <3>2, <3>3
  <2> QED BY <1>0, <2>2, <2>3 DEF StrayInv
<1>3. CASE BeginClose
  BY <1>0, <1>3, SharedBrowserAssumptions DEF BeginClose, StrayInv, NoStrayBrowser, TypeOK
<1>4. CASE UNCHANGED vars
  BY <1>0, <1>4 DEF vars, ends, StrayInv, NoStrayBrowser
<1> QED BY <1>1, <1>2, <1>3, <1>4 DEF Next

\* However renders, crashes, failed launches and the stop of the Instance follow
\* each other in sharedBrowser and closeSharedBrowser, every Chromium that runs is
\* the one the next render finds or the one that is being closed.
THEOREM NoBrowserIsStray == Spec => []NoStrayBrowser
<1>1. StrayInv => NoStrayBrowser
  BY DEF StrayInv
<1> QED BY <1>1, StrayInit, StrayNext, PTL DEF Spec

-----------------------------------------------------------------------------
(* Order numbers without gaps.                                             *)

\* ScreenOrder's own names for the library's
LEMMA OrderFunctions ==
  /\ \A f : Order!Range(f) = Range(f) /\ (Order!IsInjective(f) <=> IsInjective(f))
  /\ \A S, T : /\ Order!Bijection(S, T) = Bijection(S, T) /\ Order!Injection(S, T) = Injection(S, T)
               /\ Order!Surjection(S, T) = Surjection(S, T)
  /\ \A S : Order!Cardinality(S) = Cardinality(S) /\ (Order!IsFiniteSet(S) <=> IsFiniteSet(S))
<1>1. \A S : Order!Cardinality(S) = Cardinality(S)
  BY DEF Order!Cardinality, Cardinality
<1>2. \A S : Order!IsFiniteSet(S) <=> IsFiniteSet(S)
  BY DEF Order!IsFiniteSet, IsFiniteSet
<1> QED BY <1>1, <1>2 DEF Order!Range, Order!IsInjective, Order!Bijection, Order!Injection, Order!Surjection,
       Range, IsInjective, Bijection, Injection, Surjection

IsList(ord) == {ord[s] : s \in Order!Numbered(ord)} = Order!Places(ord)

LEMMA NumberedFinite ==
  ASSUME Order!ScreenOrderAssumptions, NEW ord
  PROVE  /\ Order!IsFiniteSet(Order!Numbered(ord)) /\ Order!Cardinality(Order!Numbered(ord)) \in Nat
         /\ Order!IsFiniteSet(Order!Places(ord)) /\ Order!Cardinality(Order!Places(ord)) = Order!Cardinality(Order!Numbered(ord))
<1>1. Order!IsFiniteSet(Screens) /\ Order!Numbered(ord) \in SUBSET Screens
  BY DEF Order!ScreenOrderAssumptions, Order!Numbered
<1>2. Order!IsFiniteSet(Order!Numbered(ord)) /\ Order!Cardinality(Order!Numbered(ord)) \in Nat
  BY <1>1, FS_Subset, FS_CardinalityType, OrderFunctions
<1>3. Order!IsFiniteSet(Order!Places(ord)) /\ Order!Cardinality(Order!Places(ord)) = Order!Cardinality(Order!Numbered(ord))
  BY <1>2, FS_Interval, OrderFunctions DEF Order!Places
<1> QED BY <1>2, <1>3

\* N Screens have the numbers 1..N exactly when none is higher and no two are equal.
LEMMA ListHasNoClash ==
  ASSUME Order!ScreenOrderAssumptions, NEW ord, IsList(ord)
  PROVE  ~Order!Clash(ord) /\ \A s \in Order!Numbered(ord) : ord[s] \in Order!Places(ord)
<1> DEFINE f == [s \in Order!Numbered(ord) |-> ord[s]]
<1>1. f \in Order!Surjection(Order!Numbered(ord), Order!Places(ord))
  BY DEF IsList, Order!Surjection
<1>2. f \in Order!Injection(Order!Numbered(ord), Order!Places(ord))
  BY <1>1, NumberedFinite, FS_Surjection, OrderFunctions
<1>3. \A s, t \in Order!Numbered(ord) : ord[s] = ord[t] => s = t
  BY <1>2 DEF Order!Injection, Order!IsInjective
<1> QED BY <1>3 DEF Order!Clash, IsList

LEMMA NoClashIsList ==
  ASSUME Order!ScreenOrderAssumptions, NEW ord, ~Order!Clash(ord), \A s \in Order!Numbered(ord) : ord[s] \in Order!Places(ord)
  PROVE  IsList(ord)
<1> DEFINE f == [s \in Order!Numbered(ord) |-> ord[s]]
<1>1. f \in Order!Injection(Order!Numbered(ord), Order!Places(ord))
  BY DEF Order!Clash, Order!Injection, Order!IsInjective
<1>2. f \in Order!Surjection(Order!Numbered(ord), Order!Places(ord))
  BY <1>1, NumberedFinite, FS_Injection, OrderFunctions
<1>3. \A n \in Order!Places(ord) : \E s \in Order!Numbered(ord) : ord[s] = n
  BY <1>2 DEF Order!Surjection
<1> QED BY <1>3 DEF IsList

\* Of the numbers a list is given when d is taken out: what is behind moves up.
Closed(ord, d, s) == IF ord[s] < ord[d] THEN ord[s] ELSE ord[s] - 1

ClosedUp(ord, d) == [s \in Screens |-> IF s \in Order!Numbered(ord) \ {d} THEN Closed(ord, d, s) ELSE 0]

LEMMA WithoutOne ==
  ASSUME Order!ScreenOrderAssumptions, NEW ord \in [Screens -> Nat], NEW d \in Order!Numbered(ord),
         NEW rows \in [Screens -> Nat], rows[d] = 0, \A s \in Screens \ {d} : rows[s] > 0 <=> ord[s] > 0
  PROVE  /\ Order!Numbered(rows) = Order!Numbered(ord) \ {d}
         /\ Order!Places(rows) = 1..(Order!Cardinality(Order!Numbered(ord)) - 1)
         /\ Order!Cardinality(Order!Numbered(ord)) \in Nat
<1>1. Order!Numbered(rows) = Order!Numbered(ord) \ {d}
  BY DEF Order!Numbered
<1> QED BY <1>1, NumberedFinite, FS_RemoveElement, OrderFunctions DEF Order!Places

\* What is listed by the Order that is left has, at each place, the number it is to get.
LEMMA Ranked ==
  ASSUME Order!ScreenOrderAssumptions, NEW ord \in [Screens -> Nat], IsList(ord), NEW d \in Order!Numbered(ord),
         NEW rows, rows = [ord EXCEPT ![d] = 0], NEW list \in Order!InOrder(rows), NEW n \in Order!Places(rows)
  PROVE  Closed(ord, d, list[n]) = n
<1> DEFINE N == Order!Cardinality(Order!Numbered(ord))
           k == ord[d]
           g == [i \in 1..(N - 1) |-> ord[list[i]]]
           Skip(i) == IF i < k THEN i ELSE i + 1
<1>1. rows \in [Screens -> Nat] /\ d \in Screens /\ rows[d] = 0 /\ \A s \in Screens \ {d} : rows[s] = ord[s]
  BY DEF Order!Numbered
<1>2. /\ Order!Numbered(rows) = Order!Numbered(ord) \ {d} /\ Order!Places(rows) = 1..(N - 1) /\ N \in Nat
      /\ k \in 1..N /\ Order!Places(ord) = 1..N
  <2>1. k \in Order!Places(ord)
    BY ListHasNoClash
  <2> QED BY <1>1, <2>1, WithoutOne DEF Order!Places
<1>3. list \in Order!Bijection(1..(N - 1), Order!Numbered(ord) \ {d})
  BY <1>2 DEF Order!InOrder
<1>4. \A i, j \in 1..(N - 1) : i < j => rows[list[i]] <= rows[list[j]]
  BY <1>2 DEF Order!InOrder
<1>5. /\ \A i \in 1..(N - 1) : list[i] \in Order!Numbered(ord) \ {d}
      /\ \A i, j \in 1..(N - 1) : list[i] = list[j] => i = j
      /\ \A s \in Order!Numbered(ord) \ {d} : \E i \in 1..(N - 1) : list[i] = s
  BY <1>3 DEF Order!Bijection, Order!Injection, Order!Surjection, Order!IsInjective
<1>6. /\ \A s, t \in Order!Numbered(ord) : ord[s] = ord[t] => s = t
      /\ \A s \in Order!Numbered(ord) : ord[s] \in 1..N
      /\ \A m \in 1..N : \E s \in Order!Numbered(ord) : ord[s] = m
  BY <1>2, ListHasNoClash DEF Order!Clash, IsList
<1>7. /\ \A i \in 1..(N - 1) : g[i] \in 1..N /\ g[i] # k
      /\ \A i, j \in 1..(N - 1) : i < j => g[i] < g[j]
      /\ \A m \in 1..N : m # k => \E i \in 1..(N - 1) : g[i] = m
  <2>1. \A i \in 1..(N - 1) : g[i] \in 1..N /\ g[i] # k
    BY <1>5, <1>6
  <2>2. ASSUME NEW i \in 1..(N - 1), NEW j \in 1..(N - 1), i < j PROVE g[i] < g[j]
    <3>1. rows[list[i]] <= rows[list[j]]
      BY <1>4, <2>2
    <3>3. list[i] \in Screens \ {d} /\ list[j] \in Screens \ {d}
      BY <1>5 DEF Order!Numbered
    <3>4. ord[list[i]] <= ord[list[j]]
      BY <1>1, <3>1, <3>3
    <3>2. ord[list[i]] # ord[list[j]]
      BY <1>5, <1>6, <2>2
    <3> QED BY <1>5, <1>6, <3>2, <3>4
  <2>3. ASSUME NEW m \in 1..N, m # k PROVE \E i \in 1..(N - 1) : g[i] = m
    <3>1. PICK s \in Order!Numbered(ord) : ord[s] = m
      BY <1>6
    <3>2. PICK i \in 1..(N - 1) : list[i] = s
      BY <1>5, <2>3, <3>1
    <3> QED BY <3>1, <3>2
  <2> QED BY <2>1, <2>2, <2>3
<1> HIDE DEF g, N, k
<1>8. \A i \in 1..(N - 1) : g[i] = Skip(i)
  <2> SUFFICES ASSUME \E i \in 1..(N - 1) : g[i] # Skip(i) PROVE FALSE
    OBVIOUS
  <2> DEFINE Bad == {i \in 1..(N - 1) : g[i] # Skip(i)}
  <2>1. Bad \in SUBSET Nat /\ Bad # {}
    BY <1>2
  <2>2. PICK m \in Bad : \A i \in Bad : ~(<<i, m>> \in OpToRel(<, Nat))
    BY <2>1, NatLessThanWellFounded, WFMin
  <2>3. ASSUME NEW i \in 1..(N - 1), i < m PROVE g[i] = Skip(i)
    <3>1. <<i, m>> \in OpToRel(<, Nat)
      BY <1>2, <2>1, <2>3 DEF OpToRel
    <3> QED BY <2>2, <3>1
  <2>10. m \in 1..(N - 1) /\ g[m] # Skip(m)
    BY <2>2
  <2>4. m \in 1..(N - 1) /\ g[m] # Skip(m) /\ Skip(m) \in 1..N /\ Skip(m) # k
    BY <1>2, <2>10
  <2>5. PICK p \in 1..(N - 1) : g[p] = Skip(m)
    BY <1>7, <2>4
  <2>6. p > m
    BY <1>2, <2>3, <2>4, <2>5
  <2>7. g[m] < Skip(m) /\ g[m] \in 1..N /\ g[m] # k
    BY <1>7, <2>4, <2>5, <2>6
  <2> DEFINE q == IF g[m] < k THEN g[m] ELSE g[m] - 1
  <2>8. q \in 1..(N - 1) /\ q < m /\ Skip(q) = g[m]
    BY <1>2, <2>4, <2>7
  <2>9. g[q] = g[m] /\ g[q] < g[m]
    BY <1>7, <2>3, <2>4, <2>8
  <2> QED BY <1>7, <2>4, <2>7, <2>9
<1>9. n \in 1..(N - 1) /\ g[n] = ord[list[n]]
  BY <1>2 DEF g
<1> QED BY <1>2, <1>8, <1>9 DEF Closed, k

-----------------------------------------------------------------------------
(* The invariant.                                                          *)

OpRecords ==
  [pc: {"idle", "lock", "insert", "delete", "list", "write"}, kind: Order!AllKinds,
   screen: Screens \cup {Order!Idle.screen}, wrote: [Screens -> Nat \cup {Order!Untouched}],
   todo: SUBSET [screen: Screens, order: Nat]]

\* What a transaction r of request o has written and is still to write, when the
\* committed numbers are ord and lk has the lock on the Device's row
Joins(r) == r.pc # "idle" /\ r.kind \in {"add", "assign"}
JoinOK(o, r, ord, lk) ==
  /\ r.pc \in {"lock", "insert", "write"} /\ r.todo = {}
  /\ r.screen \in Screens /\ ord[r.screen] = 0
  /\ r.pc # "lock" => lk = o
  /\ r.pc # "write" => r.wrote = Order!Nothing
  /\ r.pc = "write" => r.wrote = [Order!Nothing EXCEPT ![r.screen] = Order!Cardinality(Order!Numbered(ord)) + 1]

ReorderOK(r, ord) ==
  /\ r.pc = "write"
  /\ \A move \in r.todo : move.screen \in Order!Numbered(ord) /\ move.order \in Order!Places(ord)
  /\ \A s \in Screens : r.wrote[s] # Order!Untouched => s \in Order!Numbered(ord) /\ r.wrote[s] \in Order!Places(ord)

ClosingOK(r, ord) ==
  /\ r.wrote[r.screen] = 0
  /\ \A move \in r.todo : move.screen \in Order!Numbered(ord) \ {r.screen} /\ move.order = Closed(ord, r.screen, move.screen)
  /\ \A s \in Screens \ {r.screen} :
       r.wrote[s] # Order!Untouched => s \in Order!Numbered(ord) /\ r.wrote[s] = Closed(ord, r.screen, s)
  /\ \A s \in Order!Numbered(ord) \ {r.screen} :
       \/ r.wrote[s] # Order!Untouched \/ ord[s] = Closed(ord, r.screen, s)
       \/ \E move \in r.todo : move.screen = s

DeleteOK(r, ord) ==
  /\ r.pc \in {"delete", "list", "write"} /\ r.screen \in Order!Numbered(ord)
  /\ r.pc = "delete" => r.wrote = Order!Nothing
  /\ r.pc = "list" => r.wrote = [Order!Nothing EXCEPT ![r.screen] = 0]
  /\ r.pc = "write" => ClosingOK(r, ord)

RecordOK(o, r, ord, lk) ==
  /\ r.pc = "idle" => r = Order!Idle
  /\ Joins(r) => JoinOK(o, r, ord, lk)
  /\ r.pc # "idle" /\ r.kind = "reorder" => ReorderOK(r, ord)
  /\ r.pc # "idle" /\ r.kind = "delete" => DeleteOK(r, ord)

\* Two transactions that may be under way at the same time
Compatible(r, t) ==
  r.pc # "idle" /\ t.pc # "idle" =>
    {r.kind, t.kind} \in Overlaps /\ (Joins(r) /\ Joins(t) => r.screen # t.screen)

OrderInv ==
  /\ order \in [Screens -> Nat] /\ op \in [Ops -> OpRecords] /\ IsList(order)
  /\ \A o, q \in Ops : o # q => Compatible(op[o], op[q])
  /\ \A o \in Ops : RecordOK(o, op[o], order, locked)

\* A delete is served when no other request is.
DeletesAlone == \A pair \in Overlaps : "delete" \notin pair

LEMMA IdleTyped == Order!Idle \in OpRecords /\ Order!Idle.pc = "idle"
<1>1. Order!Nothing \in [Screens -> Nat \cup {Order!Untouched}]
  BY DEF Order!Nothing
<1> QED BY <1>1 DEF Order!Idle, OpRecords, Order!AllKinds

\* A step of one request that commits nothing
LEMMA OpMoves ==
  ASSUME OrderInv, NEW o \in Ops, NEW rec \in OpRecords, Order!Become(o, rec), order' = order,
         \A q \in Ops \ {o} : Compatible(op[q], rec),
         RecordOK(o, rec, order, locked'), \A q \in Ops \ {o} : locked = q => locked' = q
  PROVE  OrderInv'
<1>1. /\ op' \in [Ops -> OpRecords] /\ op'[o] = rec
      /\ \A q \in Ops : q # o => op'[q] = op[q]
  BY DEF OrderInv, Order!Become
<1>2. order' \in [Screens -> Nat] /\ IsList(order')
  BY DEF OrderInv
<1>3. ASSUME NEW p \in Ops, NEW q \in Ops, p # q PROVE Compatible(op'[p], op'[q])
  <2>1. \A r, t : Compatible(r, t) => Compatible(t, r)
    <3>1. \A k, l : {k, l} = {l, k}
      OBVIOUS
    <3> QED BY <3>1 DEF Compatible
  <2>2. CASE p = o
    BY <1>1, <1>3, <2>1, <2>2
  <2>3. CASE q = o
    BY <1>1, <1>3, <2>3
  <2>4. CASE p # o /\ q # o
    BY <1>1, <1>3, <2>4 DEF OrderInv
  <2> QED BY <2>2, <2>3, <2>4
<1>4. ASSUME NEW q \in Ops PROVE RecordOK(q, op'[q], order', locked')
  <2>1. CASE q = o
    BY <1>1, <2>1
  <2>2. CASE q # o
    <3>1. RecordOK(q, op[q], order, locked)
      BY DEF OrderInv
    <3>2. RecordOK(q, op[q], order, locked')
      BY <2>2, <3>1 DEF RecordOK, JoinOK
    <3> QED BY <1>1, <2>2, <3>2
  <2> QED BY <2>1, <2>2
<1> QED BY <1>1, <1>2, <1>3, <1>4 DEF OrderInv

\* One that goes on with what its request began
LEMMA OpGoesOn ==
  ASSUME OrderInv, NEW o \in Ops, NEW rec \in OpRecords, Order!Become(o, rec), order' = order,
         op[o].pc # "idle", rec.kind = op[o].kind, rec.screen = op[o].screen,
         RecordOK(o, rec, order, locked'), \A q \in Ops \ {o} : locked = q => locked' = q
  PROVE  OrderInv'
<1>1. \A q \in Ops \ {o} : Compatible(op[q], rec)
  <2> SUFFICES ASSUME NEW q \in Ops \ {o} PROVE Compatible(op[q], rec)
    OBVIOUS
  <2>1. Compatible(op[q], op[o])
    BY DEF OrderInv
  <2> QED BY <2>1 DEF Compatible, Joins
<1> QED BY <1>1, OpMoves

LEMMA OrderBegins == Order!ScreenOrderAssumptions /\ Order!Init => OrderInv
<1> SUFFICES ASSUME Order!ScreenOrderAssumptions, Order!Init PROVE OrderInv
  OBVIOUS
<1>1. Order!Cardinality(Screens) \in Nat
  BY FS_CardinalityType, OrderFunctions DEF Order!ScreenOrderAssumptions
<1>2. order \in [Screens -> Nat] /\ IsList(order)
  BY <1>1 DEF Order!Init, IsList
<1>3. \A o \in Ops : op[o] = Order!Idle
  BY DEF Order!Init
<1>4. op \in [Ops -> OpRecords]
  BY IdleTyped DEF Order!Init
<1>5. \A o, q \in Ops : Compatible(op[o], op[q])
  BY <1>3, IdleTyped DEF Compatible
<1>6. \A o \in Ops : RecordOK(o, op[o], order, locked)
  BY <1>3, IdleTyped DEF RecordOK, Joins
<1> QED BY <1>2, <1>4, <1>5, <1>6 DEF OrderInv

LEMMA OpEnds ==
  ASSUME OrderInv, NEW o \in Ops, Order!RollBack(o)
  PROVE  OrderInv'
<1>1. Order!Become(o, Order!Idle) /\ order' = order /\ \A q \in Ops \ {o} : locked = q => locked' = q
  BY DEF Order!RollBack, Order!End
<1>2. RecordOK(o, Order!Idle, order, locked') /\ \A q \in Ops : Compatible(op[q], Order!Idle)
  BY IdleTyped DEF RecordOK, Joins, Compatible
<1> QED BY <1>1, <1>2, IdleTyped, OpMoves

LEMMA JoinBegins ==
  ASSUME OrderInv, NEW o \in Ops, NEW s \in Screens, Order!BeginAdd(o, s) \/ Order!BeginAssign(o, s)
  PROVE  OrderInv'
<1>1. PICK kind \in {"add", "assign"} :
        /\ Order!Begin(o, kind) /\ Order!Fresh(s) /\ locked' = locked /\ order' = order
        /\ Order!Become(o, [Order!Idle EXCEPT !.pc = "lock", !.kind = kind, !.screen = s])
  BY DEF Order!BeginAdd, Order!BeginAssign
<1> DEFINE rec == [Order!Idle EXCEPT !.pc = "lock", !.kind = kind, !.screen = s]
<1>2. /\ rec \in OpRecords /\ rec.pc = "lock" /\ rec.kind = kind /\ rec.screen = s
      /\ rec.wrote = Order!Nothing /\ rec.todo = {}
  BY IdleTyped DEF OpRecords, Order!AllKinds, Order!Idle
<1> HIDE DEF rec
<1>3. RecordOK(o, rec, order, locked')
  BY <1>1, <1>2 DEF RecordOK, JoinOK, Joins, Order!Fresh
<1>4. ASSUME NEW q \in Ops \ {o} PROVE Compatible(op[q], rec)
  <2>1. op[q].pc # "idle" => {kind, op[q].kind} \in Overlaps
    BY <1>1 DEF Order!Begin
  <2>2. {kind, op[q].kind} = {op[q].kind, kind}
    OBVIOUS
  <2>3. Joins(op[q]) => op[q].screen # s
    BY <1>1 DEF Order!Fresh, Joins
  <2> QED BY <1>2, <2>1, <2>2, <2>3 DEF Compatible
<1> QED BY <1>1, <1>2, <1>3, <1>4, OpMoves DEF rec

LEMMA JoinLocks ==
  ASSUME OrderInv, NEW o \in Ops, Order!LockDevice(o), Order!ScreenOrderAssumptions
  PROVE  OrderInv'
<1> DEFINE rec == [op[o] EXCEPT !.pc = "insert"]
<1>1. op[o] \in OpRecords /\ RecordOK(o, op[o], order, locked) /\ op[o].pc = "lock"
  BY DEF OrderInv, Order!LockDevice
<1>2. /\ rec \in OpRecords /\ rec.pc = "insert" /\ rec.kind = op[o].kind /\ rec.screen = op[o].screen
      /\ rec.wrote = op[o].wrote /\ rec.todo = op[o].todo
  BY <1>1 DEF OpRecords
<1> HIDE DEF rec
<1>3. Order!Become(o, rec) /\ order' = order /\ locked' = o /\ \A q \in Ops : locked # q
  BY DEF Order!LockDevice, rec, Order!ScreenOrderAssumptions
<1>4. Joins(op[o])
  BY <1>1 DEF RecordOK, ReorderOK, DeleteOK, Joins, OpRecords, Order!AllKinds
<1>5. RecordOK(o, rec, order, locked')
  BY <1>1, <1>2, <1>3, <1>4 DEF RecordOK, JoinOK, Joins
<1> QED BY <1>1, <1>2, <1>3, <1>5, OpGoesOn

LEMMA JoinInserts ==
  ASSUME OrderInv, NEW o \in Ops, Order!InsertLast(o), Order!ScreenOrderAssumptions
  PROVE  OrderInv'
<1> DEFINE N == Order!Cardinality(Order!Numbered(order))
           s == op[o].screen
           rec == [op[o] EXCEPT !.pc = "write", !.wrote = Order!Writes(o, s, N + 1)]
<1>1. /\ op[o] \in OpRecords /\ RecordOK(o, op[o], order, locked) /\ op[o].pc = "insert"
      /\ order \in [Screens -> Nat] /\ IsList(order)
  BY DEF OrderInv, Order!InsertLast
<1>2. Joins(op[o]) /\ JoinOK(o, op[o], order, locked)
  <2>1. Joins(op[o])
    BY <1>1 DEF RecordOK, ReorderOK, DeleteOK, Joins, OpRecords, Order!AllKinds
  <2> QED BY <1>1, <2>1 DEF RecordOK
<1>3. op[o].wrote = Order!Nothing /\ Order!Rows(o) = order
  <2>1. op[o].wrote = Order!Nothing
    BY <1>1, <1>2 DEF JoinOK
  <2> QED BY <1>1, <2>1 DEF Order!Rows, Order!Nothing
<1>4. PICK last \in {0} \cup {Order!Rows(o)[t] : t \in Screens} :
        /\ \A t \in Screens : Order!Rows(o)[t] <= last
        /\ Order!Become(o, [op[o] EXCEPT !.pc = "write", !.wrote = Order!Writes(o, s, last + 1)])
  BY DEF Order!InsertLast
<1>5. last = N /\ N \in Nat
  <2>1. N \in Nat /\ Order!Places(order) = 1..N
    BY NumberedFinite DEF Order!Places
  <2>2. \A t \in Screens : order[t] \in 0..N
    <3>1. \A t \in Order!Numbered(order) : order[t] \in 1..N
      BY <1>1, <2>1, ListHasNoClash
    <3> QED BY <1>1, <2>1, <3>1 DEF Order!Numbered
  <2>3. last \in 0..N
    BY <1>3, <1>4, <2>1, <2>2
  <2>4. N > 0 => \E t \in Screens : order[t] = N
    <3>1. {order[t] : t \in Order!Numbered(order)} = 1..N /\ Order!Numbered(order) \subseteq Screens
      BY <1>1, <2>1 DEF IsList, Order!Numbered
    <3> HIDE DEF N
    <3> QED BY <2>1, <3>1
  <2>5. N <= last
    BY <1>3, <1>4, <2>1, <2>3, <2>4
  <2> QED BY <2>1, <2>3, <2>5
<1>6. /\ rec \in OpRecords /\ rec.pc = "write" /\ rec.kind = op[o].kind /\ rec.screen = s
      /\ rec.wrote = [Order!Nothing EXCEPT ![s] = N + 1] /\ rec.todo = op[o].todo
  <2>1. Order!Writes(o, s, N + 1) = [Order!Nothing EXCEPT ![s] = N + 1]
    BY <1>3 DEF Order!Writes
  <2>2. Order!Writes(o, s, N + 1) \in [Screens -> Nat \cup {Order!Untouched}]
    BY <1>5, <2>1 DEF Order!Nothing
  <2> HIDE DEF N, s
  <2>3. rec \in OpRecords
    BY <1>1, <2>2 DEF OpRecords
  <2> QED BY <1>1, <2>1, <2>3 DEF OpRecords, s
<1>7. Order!Become(o, rec) /\ order' = order /\ locked' = locked
  BY <1>4, <1>5 DEF Order!InsertLast
<1> HIDE DEF rec
<1>8. RecordOK(o, rec, order, locked')
  BY <1>1, <1>2, <1>6, <1>7 DEF RecordOK, JoinOK, Joins
<1> QED BY <1>1, <1>6, <1>7, <1>8, OpGoesOn

\* The updates writeOrder makes
LEMMA MovesOf ==
  ASSUME Order!ScreenOrderAssumptions, NEW ord \in [Screens -> Nat], NEW rows,
         NEW list \in Order!Bijection(Order!Places(ord), Order!Numbered(ord))
  PROVE  /\ Order!Moves(list, rows) \in SUBSET [screen: Screens, order: Nat]
         /\ \A move \in Order!Moves(list, rows) :
              /\ move.screen \in Order!Numbered(ord) /\ move.order \in Order!Places(ord)
              /\ list[move.order] = move.screen
         /\ \A s \in Order!Numbered(ord) : \E i \in Order!Places(ord) :
              list[i] = s /\ (rows[s] = i \/ \E move \in Order!Moves(list, rows) : move.screen = s)
<1>1. /\ DOMAIN list = Order!Places(ord) /\ \A i \in Order!Places(ord) : list[i] \in Order!Numbered(ord)
      /\ \A s \in Order!Numbered(ord) : \E i \in Order!Places(ord) : list[i] = s
  BY DEF Order!Bijection, Order!Injection, Order!Surjection
<1>2. Order!Places(ord) \subseteq Nat /\ Order!Numbered(ord) \subseteq Screens
  BY DEF Order!Places, Order!Numbered
<1>3. \A i \in Order!Places(ord) : rows[list[i]] # i => [screen |-> list[i], order |-> i] \in Order!Moves(list, rows)
  BY <1>1 DEF Order!Moves
<1>4. ASSUME NEW move \in Order!Moves(list, rows)
      PROVE  /\ move \in [screen: Screens, order: Nat] /\ move.order \in Order!Places(ord)
             /\ move.screen \in Order!Numbered(ord) /\ list[move.order] = move.screen
  <2>1. PICK i \in Order!Places(ord) : move = [screen |-> list[i], order |-> i]
    BY <1>1 DEF Order!Moves
  <2> QED BY <1>1, <1>2, <2>1
<1>5. ASSUME NEW s \in Order!Numbered(ord)
      PROVE  \E i \in Order!Places(ord) : list[i] = s /\ (rows[s] = i \/ \E move \in Order!Moves(list, rows) : move.screen = s)
  <2>1. PICK i \in Order!Places(ord) : list[i] = s
    BY <1>1
  <2>2. [screen |-> s, order |-> i].screen = s
    OBVIOUS
  <2> QED BY <1>3, <2>1, <2>2
<1> QED BY <1>4, <1>5

LEMMA ReorderBegins ==
  ASSUME OrderInv, NEW o \in Ops, Order!BeginReorder(o), Order!ScreenOrderAssumptions
  PROVE  OrderInv'
<1>1. PICK wish \in Order!Bijection(Order!Places(order), Order!Numbered(order)) :
        Order!Become(o, [Order!Idle EXCEPT !.pc = "write", !.kind = "reorder", !.todo = Order!Moves(wish, order)])
  BY DEF Order!BeginReorder
<1> DEFINE rec == [Order!Idle EXCEPT !.pc = "write", !.kind = "reorder", !.todo = Order!Moves(wish, order)]
<1>2. /\ Order!Moves(wish, order) \in SUBSET [screen: Screens, order: Nat]
      /\ \A move \in Order!Moves(wish, order) : move.screen \in Order!Numbered(order) /\ move.order \in Order!Places(order)
  BY <1>1, MovesOf DEF OrderInv
<1>3. /\ rec \in OpRecords /\ rec.pc = "write" /\ rec.kind = "reorder"
      /\ rec.wrote = Order!Nothing /\ rec.todo = Order!Moves(wish, order)
  BY <1>2, IdleTyped DEF OpRecords, Order!AllKinds, Order!Idle
<1> HIDE DEF rec
<1>4. RecordOK(o, rec, order, locked')
  BY <1>2, <1>3 DEF RecordOK, ReorderOK, Joins, Order!Nothing
<1>5. ASSUME NEW q \in Ops \ {o} PROVE Compatible(op[q], rec)
  <2>1. op[q].pc # "idle" => {"reorder", op[q].kind} \in Overlaps
    BY DEF Order!BeginReorder, Order!Begin
  <2>2. {"reorder", op[q].kind} = {op[q].kind, "reorder"}
    OBVIOUS
  <2> QED BY <1>3, <2>1, <2>2 DEF Compatible, Joins
<1>6. Order!Become(o, rec) /\ order' = order /\ locked' = locked
  BY <1>1 DEF Order!BeginReorder, rec
<1> QED BY <1>3, <1>4, <1>5, <1>6, OpMoves

LEMMA DeleteBegins ==
  ASSUME OrderInv, NEW o \in Ops, NEW s \in Screens, Order!BeginDelete(o, s)
  PROVE  OrderInv'
<1> DEFINE rec == [Order!Idle EXCEPT !.pc = "delete", !.kind = "delete", !.screen = s]
<1>1. /\ rec \in OpRecords /\ rec.pc = "delete" /\ rec.kind = "delete"
      /\ rec.screen = s /\ rec.wrote = Order!Nothing
  BY IdleTyped DEF OpRecords, Order!AllKinds, Order!Idle
<1> HIDE DEF rec
<1>2. Order!Begin(o, "delete") /\ s \in Order!Numbered(order) /\ Order!Become(o, rec) /\ order' = order /\ locked' = locked
  BY DEF Order!BeginDelete, rec
<1>3. RecordOK(o, rec, order, locked')
  BY <1>1, <1>2 DEF RecordOK, DeleteOK, Joins
<1>4. ASSUME NEW q \in Ops \ {o} PROVE Compatible(op[q], rec)
  <2>1. op[q].pc # "idle" => {"delete", op[q].kind} \in Overlaps
    BY <1>2 DEF Order!Begin
  <2>2. {"delete", op[q].kind} = {op[q].kind, "delete"}
    OBVIOUS
  <2> QED BY <1>1, <2>1, <2>2 DEF Compatible, Joins
<1> QED BY <1>1, <1>2, <1>3, <1>4, OpMoves

LEMMA DeleteGoes ==
  ASSUME OrderInv, NEW o \in Ops, Order!DeleteRow(o)
  PROVE  OrderInv'
<1> DEFINE s == op[o].screen
           rec == [op[o] EXCEPT !.pc = "list", !.wrote = Order!Writes(o, s, 0)]
<1>1. op[o] \in OpRecords /\ RecordOK(o, op[o], order, locked) /\ op[o].pc = "delete"
  BY DEF OrderInv, Order!DeleteRow
<1>2. op[o].kind = "delete" /\ DeleteOK(op[o], order)
  <2>1. op[o].kind = "delete"
    BY <1>1 DEF RecordOK, ReorderOK, JoinOK, Joins, OpRecords, Order!AllKinds
  <2> QED BY <1>1, <2>1 DEF RecordOK
<1>3. op[o].wrote = Order!Nothing /\ s \in Order!Numbered(order) /\ order[s] > 0
  BY <1>1, <1>2 DEF DeleteOK, Order!Numbered
<1>4. Order!Become(o, rec) /\ order' = order /\ locked' = locked
  BY <1>3 DEF Order!DeleteRow
<1>5. /\ rec \in OpRecords /\ rec.pc = "list" /\ rec.kind = op[o].kind
      /\ rec.screen = s /\ rec.wrote = [Order!Nothing EXCEPT ![s] = 0]
  <2>1. Order!Writes(o, s, 0) = [Order!Nothing EXCEPT ![s] = 0]
    BY <1>3 DEF Order!Writes
  <2>2. Order!Writes(o, s, 0) \in [Screens -> Nat \cup {Order!Untouched}]
    BY <2>1 DEF Order!Nothing
  <2> HIDE DEF s
  <2>3. rec \in OpRecords
    BY <1>1, <2>2 DEF OpRecords
  <2> QED BY <1>1, <2>1, <2>3 DEF OpRecords, s
<1> HIDE DEF rec
<1>6. RecordOK(o, rec, order, locked')
  BY <1>2, <1>3, <1>5 DEF RecordOK, DeleteOK, Joins
<1> QED BY <1>1, <1>4, <1>5, <1>6, OpGoesOn

LEMMA DeleteLists ==
  ASSUME OrderInv, NEW o \in Ops, Order!ListScreens(o), Order!ScreenOrderAssumptions
  PROVE  OrderInv'
<1> DEFINE d == op[o].screen
           rows == [order EXCEPT ![d] = 0]
<1>1. /\ op[o] \in OpRecords /\ RecordOK(o, op[o], order, locked) /\ op[o].pc = "list"
      /\ order \in [Screens -> Nat] /\ IsList(order)
  BY DEF OrderInv, Order!ListScreens
<1>2. op[o].kind = "delete" /\ DeleteOK(op[o], order)
  <2>1. op[o].kind = "delete"
    BY <1>1 DEF RecordOK, ReorderOK, JoinOK, Joins, OpRecords, Order!AllKinds
  <2> QED BY <1>1, <2>1 DEF RecordOK
<1>3. op[o].wrote = [Order!Nothing EXCEPT ![d] = 0] /\ d \in Order!Numbered(order) /\ d \in Screens
  BY <1>1, <1>2 DEF DeleteOK, Order!Numbered
<1>4. Order!Rows(o) = rows /\ rows \in [Screens -> Nat]
  <2>1. \A s \in Screens : op[o].wrote[s] = IF s = d THEN 0 ELSE Order!Untouched
    BY <1>3 DEF Order!Nothing
  <2> HIDE DEF d
  <2>2. \A s \in Screens : rows[s] = IF s = d THEN 0 ELSE order[s]
    BY <1>1
  <2>3. rows \in [Screens -> Nat]
    BY <1>1
  <2>4. Order!Rows(o) = [s \in Screens |-> rows[s]]
    BY <2>1, <2>2 DEF Order!Rows, Order!Untouched
  <2> QED BY <2>3, <2>4
<1>5. PICK list \in Order!InOrder(rows) : Order!Become(o, [op[o] EXCEPT !.pc = "write", !.todo = Order!Moves(list, rows)])
  BY <1>4 DEF Order!ListScreens
<1> DEFINE rec == [op[o] EXCEPT !.pc = "write", !.todo = Order!Moves(list, rows)]
<1>6. /\ list \in Order!Bijection(Order!Places(rows), Order!Numbered(rows))
      /\ Order!Numbered(rows) = Order!Numbered(order) \ {d} /\ \A s \in Order!Numbered(rows) : rows[s] = order[s]
  <2>1. \A s \in Screens : rows[s] = IF s = d THEN 0 ELSE order[s]
    BY <1>1, <1>3
  <2> QED BY <1>5, <2>1 DEF Order!InOrder, Order!Numbered
<1> HIDE DEF rows, d
<1>7. \A n \in Order!Places(rows) : Closed(order, d, list[n]) = n
  BY <1>1, <1>3, <1>5, Ranked DEF rows
<1>8. /\ Order!Moves(list, rows) \in SUBSET [screen: Screens, order: Nat]
      /\ \A move \in Order!Moves(list, rows) :
           /\ move.screen \in Order!Numbered(rows) /\ move.order \in Order!Places(rows)
           /\ list[move.order] = move.screen
      /\ \A s \in Order!Numbered(rows) : \E i \in Order!Places(rows) :
           list[i] = s /\ (rows[s] = i \/ \E move \in Order!Moves(list, rows) : move.screen = s)
  BY <1>4, <1>6, MovesOf
<1>9. /\ rec \in OpRecords /\ rec.pc = "write" /\ rec.kind = op[o].kind /\ rec.screen = d
      /\ rec.wrote = op[o].wrote /\ rec.todo = Order!Moves(list, rows)
  <2>1. \A todo \in SUBSET [screen: Screens, order: Nat] :
          [op[o] EXCEPT !.pc = "write", !.todo = todo] \in OpRecords
    BY <1>1 DEF OpRecords
  <2>2. rec \in OpRecords
    BY <1>8, <2>1
  <2> QED BY <1>1, <2>2 DEF OpRecords, d
<1> HIDE DEF rec
<1>10. ClosingOK(rec, order)
  <2>1. rec.wrote[d] = 0 /\ \A s \in Screens \ {d} : rec.wrote[s] = Order!Untouched
    BY <1>3, <1>9 DEF Order!Nothing
  <2>2. \A move \in rec.todo : move.screen \in Order!Numbered(order) \ {d} /\ move.order = Closed(order, d, move.screen)
    BY <1>6, <1>7, <1>8, <1>9
  <2>3. \A s \in Order!Numbered(order) \ {d} :
          order[s] = Closed(order, d, s) \/ \E move \in rec.todo : move.screen = s
    BY <1>6, <1>7, <1>8, <1>9
  <2> QED BY <1>9, <2>1, <2>2, <2>3 DEF ClosingOK
<1>11. RecordOK(o, rec, order, locked')
  BY <1>2, <1>3, <1>9, <1>10 DEF RecordOK, DeleteOK, Joins
<1>12. Order!Become(o, rec) /\ order' = order /\ locked' = locked
  BY <1>5 DEF Order!ListScreens, rec
<1> QED BY <1>1, <1>9, <1>11, <1>12, OpGoesOn DEF d

LEMMA ClosedPlace ==
  ASSUME Order!ScreenOrderAssumptions, NEW ord \in [Screens -> Nat], IsList(ord),
         NEW d \in Order!Numbered(ord), NEW s \in Order!Numbered(ord) \ {d}
  PROVE  Closed(ord, d, s) \in 1..(Order!Cardinality(Order!Numbered(ord)) - 1) /\ Closed(ord, d, s) \in Nat
<1>1. ord[d] \in Order!Places(ord) /\ ord[s] \in Order!Places(ord) /\ ord[s] # ord[d]
  BY ListHasNoClash DEF Order!Clash
<1> QED BY <1>1, NumberedFinite DEF Closed, Order!Places

\* The next update: of a Screen that is there, to the number asked for or the one left free
LEMMA Updates ==
  ASSUME OrderInv, NEW o \in Ops, Order!WriteNext(o), Order!ScreenOrderAssumptions
  PROVE  OrderInv'
<1> DEFINE r == op[o]
<1>1. /\ r \in OpRecords /\ RecordOK(o, r, order, locked) /\ r.pc = "write"
      /\ order \in [Screens -> Nat] /\ IsList(order)
  BY DEF OrderInv, Order!WriteNext
<1>2. PICK move \in Order!FirstMoves(o) :
        Order!Become(o, [r EXCEPT !.todo = r.todo \ {move},
                            !.wrote = IF Order!Rows(o)[move.screen] > 0 THEN Order!Writes(o, move.screen, move.order) ELSE r.wrote])
  BY DEF Order!WriteNext
<1> DEFINE t == move.screen
           todo == r.todo \ {move}
           wrote == [r.wrote EXCEPT ![t] = move.order]
           rec == [r EXCEPT !.todo = todo, !.wrote = wrote]
<1>3. move \in r.todo /\ t \in Screens /\ move.order \in Nat
  BY <1>1, <1>2 DEF Order!FirstMoves, OpRecords
<1>4. /\ t \in Order!Numbered(order)
      /\ r.wrote[t] # Order!Untouched => r.wrote[t] > 0
      /\ \/ r.kind = "reorder" /\ ReorderOK(r, order)
         \/ r.kind = "delete" /\ DeleteOK(r, order) /\ ClosingOK(r, order)
  <2>1. ~Joins(r)
    BY <1>1, <1>3 DEF RecordOK, JoinOK
  <2>2. CASE r.kind = "reorder"
    <3>1. ReorderOK(r, order)
      BY <1>1, <2>2 DEF RecordOK
    <3> QED BY <1>3, <2>2, <3>1, NumberedFinite DEF ReorderOK, Order!Places
  <2>3. CASE r.kind = "delete"
    <3>1. DeleteOK(r, order) /\ ClosingOK(r, order)
      BY <1>1, <2>3 DEF RecordOK, DeleteOK
    <3>2. t \in Order!Numbered(order) \ {r.screen} /\ r.screen \in Order!Numbered(order)
      BY <1>3, <3>1 DEF ClosingOK, DeleteOK
    <3>3. r.wrote[t] # Order!Untouched => r.wrote[t] = Closed(order, r.screen, t)
      BY <1>3, <3>1, <3>2 DEF ClosingOK
    <3>4. Closed(order, r.screen, t) > 0
      BY <1>1, <3>2, ClosedPlace, NumberedFinite
    <3> QED BY <2>3, <3>1, <3>2, <3>3, <3>4
  <2> QED BY <1>1, <2>1, <2>2, <2>3 DEF Joins, OpRecords, Order!AllKinds
<1>5. Order!Rows(o)[t] > 0
  BY <1>3, <1>4 DEF Order!Rows, Order!Numbered
<1>6. Order!Become(o, rec) /\ order' = order /\ locked' = locked
  BY <1>2, <1>5 DEF Order!WriteNext, Order!Writes
<1>7. /\ rec \in OpRecords /\ rec.pc = "write" /\ rec.kind = r.kind /\ rec.screen = r.screen
      /\ rec.todo = todo /\ rec.wrote = wrote
  <2>1. todo \in SUBSET [screen: Screens, order: Nat] /\ wrote \in [Screens -> Nat \cup {Order!Untouched}]
    BY <1>1, <1>3 DEF OpRecords
  <2> HIDE DEF todo, wrote
  <2> QED BY <1>1, <2>1 DEF OpRecords
<1>8. /\ wrote[t] = move.order /\ \A s \in Screens \ {t} : wrote[s] = r.wrote[s]
      /\ \A other \in todo : other \in r.todo
      /\ \A other \in r.todo : other = move \/ other \in todo
  BY <1>1, <1>3 DEF OpRecords
<1> HIDE DEF rec, todo, wrote
<1>9. CASE r.kind = "reorder"
  <2>1. ReorderOK(r, order)
    BY <1>4, <1>9
  <2>2. ReorderOK(rec, order)
    <3>1. \A other \in rec.todo : other.screen \in Order!Numbered(order) /\ other.order \in Order!Places(order)
      BY <1>7, <1>8, <2>1 DEF ReorderOK
    <3>2. t \in Order!Numbered(order) /\ move.order \in Order!Places(order)
      BY <1>3, <2>1 DEF ReorderOK
    <3>3. ASSUME NEW s \in Screens, wrote[s] # Order!Untouched PROVE s \in Order!Numbered(order) /\ wrote[s] \in Order!Places(order)
      BY <1>8, <2>1, <3>2, <3>3 DEF ReorderOK
    <3> QED BY <1>7, <3>1, <3>3 DEF ReorderOK
  <2>3. RecordOK(o, rec, order, locked')
    BY <1>7, <1>9, <2>2 DEF RecordOK, Joins
  <2> QED BY <1>1, <1>6, <1>7, <2>3, OpGoesOn
<1>10. CASE r.kind = "delete"
  <2>1. ClosingOK(r, order) /\ DeleteOK(r, order)
    BY <1>4, <1>10
  <2>2. t \in Order!Numbered(order) \ {r.screen} /\ move.order = Closed(order, r.screen, t) /\ move.order # Order!Untouched
    BY <1>3, <2>1 DEF ClosingOK, Order!Untouched
  <2>3. ClosingOK(rec, order)
    <3>1. wrote[r.screen] = 0
      BY <1>8, <2>1, <2>2 DEF ClosingOK, DeleteOK, Order!Numbered
    <3>2. \A other \in todo : /\ other.screen \in Order!Numbered(order) \ {r.screen}
                              /\ other.order = Closed(order, r.screen, other.screen)
      BY <1>8, <2>1 DEF ClosingOK
    <3>3. ASSUME NEW s \in Screens \ {r.screen}, wrote[s] # Order!Untouched
          PROVE  s \in Order!Numbered(order) /\ wrote[s] = Closed(order, r.screen, s)
      BY <1>8, <2>1, <2>2, <3>3 DEF ClosingOK
    <3>4. ASSUME NEW s \in Order!Numbered(order) \ {r.screen}
          PROVE  \/ wrote[s] # Order!Untouched \/ order[s] = Closed(order, r.screen, s)
                 \/ \E other \in todo : other.screen = s
      <4>1. CASE s = t
        BY <1>8, <2>2, <4>1
      <4>2. CASE s # t
        <5>1. wrote[s] = r.wrote[s]
          BY <1>8, <4>2 DEF Order!Numbered
        <5>2. \/ r.wrote[s] # Order!Untouched \/ order[s] = Closed(order, r.screen, s)
              \/ \E other \in r.todo : other.screen = s
          BY <2>1 DEF ClosingOK
        <5> QED BY <1>8, <4>2, <5>1, <5>2
      <4> QED BY <4>1, <4>2
    <3> QED BY <1>7, <3>1, <3>2, <3>3, <3>4 DEF ClosingOK
  <2>4. RecordOK(o, rec, order, locked')
    BY <1>7, <1>10, <2>1, <2>3 DEF RecordOK, DeleteOK, Joins
  <2> QED BY <1>1, <1>6, <1>7, <2>4, OpGoesOn
<1> QED BY <1>4, <1>9, <1>10

-----------------------------------------------------------------------------
(* What a commit does to the list of Screens.                              *)

ListOf(ord) == [i \in Order!Places(ord) |-> CHOOSE s \in Screens : ord[s] = i]

LEMMA AListOf ==
  ASSUME Order!ScreenOrderAssumptions, NEW ord \in [Screens -> Nat], IsList(ord)
  PROVE  /\ ListOf(ord) \in Order!Bijection(Order!Places(ord), Order!Numbered(ord))
         /\ \A i \in Order!Places(ord) : ord[ListOf(ord)[i]] = i
         /\ \A s \in Order!Numbered(ord) : ord[s] \in Order!Places(ord) /\ ListOf(ord)[ord[s]] = s
<1> DEFINE l == ListOf(ord)
<1>1. /\ \A s \in Order!Numbered(ord) : ord[s] \in Order!Places(ord)
      /\ \A s, t \in Order!Numbered(ord) : ord[s] = ord[t] => s = t
  BY ListHasNoClash DEF Order!Clash
<1>2. \A i \in Order!Places(ord) : l[i] \in Order!Numbered(ord) /\ ord[l[i]] = i
  <2> SUFFICES ASSUME NEW i \in Order!Places(ord) PROVE l[i] \in Order!Numbered(ord) /\ ord[l[i]] = i
    OBVIOUS
  <2>1. \E s \in Screens : ord[s] = i
    BY DEF IsList, Order!Numbered
  <2>2. l[i] \in Screens /\ ord[l[i]] = i
    BY <2>1 DEF ListOf
  <2> QED BY <2>2 DEF Order!Numbered, Order!Places
<1>3. DOMAIN l = Order!Places(ord)
  BY DEF ListOf
<1>4. \A s \in Order!Numbered(ord) : l[ord[s]] = s
  BY <1>1, <1>2
<1>5. l = [i \in DOMAIN l |-> l[i]]
  BY DEF ListOf
<1> HIDE DEF l
<1>6. l \in [Order!Places(ord) -> Order!Numbered(ord)]
  BY <1>2, <1>3, <1>5
<1>7. l \in Order!Bijection(Order!Places(ord), Order!Numbered(ord))
  BY <1>1, <1>2, <1>4, <1>6 DEF Order!Bijection, Order!Injection, Order!Surjection, Order!IsInjective
<1> QED BY <1>1, <1>2, <1>4, <1>7 DEF l

\* The list of an Order is the one sequence of its Screens in that Order.
LEMMA TheListOf ==
  ASSUME Order!ScreenOrderAssumptions, NEW ord \in [Screens -> Nat], IsList(ord),
         NEW l, l = [i \in Order!Places(ord) |-> l[i]],
         \A i \in Order!Places(ord) : l[i] \in Order!Numbered(ord) /\ ord[l[i]] = i
  PROVE  l = ListOf(ord)
<1>1. \A i \in Order!Places(ord) : l[i] = ListOf(ord)[i]
  BY AListOf
<1>2. ListOf(ord) = [i \in Order!Places(ord) |-> ListOf(ord)[i]]
  BY DEF ListOf
<1> QED BY <1>1, <1>2

LEMMA ListAdded ==
  ASSUME Order!ScreenOrderAssumptions, NEW ord \in [Screens -> Nat], IsList(ord),
         NEW s \in Screens, ord[s] = 0,
         NEW N \in Nat, N = Order!Cardinality(Order!Numbered(ord)),
         NEW new \in [Screens -> Nat], \A t \in Screens : new[t] = IF t = s THEN N + 1 ELSE ord[t]
  PROVE  /\ IsList(new)
         /\ Order!Numbered(ord) \subseteq Order!Numbered(new) /\ Order!Places(ord) \subseteq Order!Places(new)
         /\ s \notin Order!Range(ListOf(ord)) /\ ListOf(new) = Append(ListOf(ord), s)
<1> DEFINE l == ListOf(ord)
           more == Append(l, s)
<1>1. N \in Nat /\ Order!Places(ord) = 1..N
  BY NumberedFinite DEF Order!Places
<1>2. /\ new \in [Screens -> Nat] /\ Order!Numbered(new) = Order!Numbered(ord) \cup {s} /\ s \notin Order!Numbered(ord)
      /\ new[s] = N + 1 /\ \A t \in Order!Numbered(ord) : new[t] = ord[t]
  BY DEF Order!Numbered
<1>3. Order!Cardinality(Order!Numbered(new)) = N + 1
  <2>1. Order!Cardinality(Order!Numbered(ord) \cup {s}) = Order!Cardinality(Order!Numbered(ord)) + 1
    BY <1>2, NumberedFinite, FS_AddElement, OrderFunctions
  <2> QED BY <1>2, <2>1
<1>4. Order!Places(new) = 1..(N + 1)
  BY <1>3 DEF Order!Places
<1>5. /\ l \in Order!Bijection(1..N, Order!Numbered(ord))
      /\ \A i \in 1..N : ord[l[i]] = i
      /\ \A t \in Order!Numbered(ord) : ord[t] \in 1..N
  BY <1>1, AListOf
<1>6. l \in [1..N -> Order!Numbered(ord)] /\ Order!Numbered(ord) \subseteq Screens
  BY <1>5 DEF Order!Bijection, Order!Injection, Order!Numbered
<1> HIDE DEF l
<1>7. IsList(new)
  <2>3. \A t \in Order!Numbered(new) :
          (t = s /\ new[t] = N + 1) \/ (t \in Order!Numbered(ord) /\ new[t] = ord[t] /\ ord[t] \in 1..N)
    BY <1>2, <1>5
  <2>1. \A t \in Order!Numbered(new) : new[t] \in Order!Places(new)
    BY <1>1, <1>4, <2>3
  <2>2. ~Order!Clash(new)
    <3>1. \A t \in Order!Numbered(new) :
            (t = s /\ new[t] = N + 1) \/ (t \in Order!Numbered(ord) /\ new[t] = ord[t] /\ ord[t] < N + 1)
      BY <1>1, <2>3
    <3>2. \A t, u \in Order!Numbered(ord) : ord[t] = ord[u] => t = u
      BY ListHasNoClash DEF Order!Clash
    <3> QED BY <1>1, <3>1, <3>2 DEF Order!Clash
  <2> QED BY <2>1, <2>2, NoClashIsList
<1>8. /\ more = [i \in 1..(N + 1) |-> IF i = N + 1 THEN s ELSE l[i]]
      /\ s \notin Order!Range(l)
  <2>1. l \in Seq(Screens) /\ Len(l) = N
    BY <1>1, <1>6
  <2>2. more = [i \in 1..(N + 1) |-> IF i = N + 1 THEN s ELSE l[i]]
    <3>1. /\ more \in Seq(Screens) /\ Len(more) = N + 1
          /\ \A i \in 1..(N + 1) : more[i] = IF i = N + 1 THEN s ELSE l[i]
      BY <1>1, <2>1
    <3> HIDE DEF more
    <3>2. more = [i \in 1..(N + 1) |-> more[i]]
      <4>1. more \in [1..(N + 1) -> Screens]
        BY <3>1, LenProperties
      <4> QED BY <4>1
    <3> QED BY <3>1, <3>2
  <2> QED BY <1>2, <1>6, <2>2 DEF Order!Range
<1> HIDE DEF more
<1>9. ASSUME NEW i \in 1..(N + 1) PROVE more[i] \in Order!Numbered(new) /\ new[more[i]] = i
  <2>1. CASE i = N + 1
    BY <1>2, <1>8, <2>1
  <2>2. CASE i # N + 1
    <3>1. i \in 1..N /\ more[i] = l[i]
      BY <1>1, <1>8, <2>2
    <3>2. l[i] \in Order!Numbered(ord) /\ ord[l[i]] = i
      BY <1>5, <1>6, <3>1
    <3> QED BY <1>2, <3>1, <3>2
  <2> QED BY <2>1, <2>2
<1>10. more = ListOf(new)
  <2>1. more = [i \in Order!Places(new) |-> more[i]]
    <3>1. Order!Places(new) = 1..(N + 1) /\ more = [i \in 1..(N + 1) |-> IF i = N + 1 THEN s ELSE l[i]]
      BY <1>4, <1>8
    <3> QED BY <3>1
  <2> QED BY SMTT(20), <1>2, <1>4, <1>7, <1>9, <2>1, TheListOf
<1>11. Order!Numbered(ord) \subseteq Order!Numbered(new) /\ Order!Places(ord) \subseteq Order!Places(new)
  BY <1>1, <1>2, <1>4
<1> QED BY <1>7, <1>8, <1>10, <1>11 DEF l, more

LEMMA ListRemoved ==
  ASSUME Order!ScreenOrderAssumptions, NEW ord \in [Screens -> Nat], IsList(ord),
         NEW d \in Order!Numbered(ord), NEW new, new = ClosedUp(ord, d)
  PROVE  /\ new \in [Screens -> Nat] /\ IsList(new)
         /\ ListOf(ord)[ord[d]] = d /\ ord[d] \in DOMAIN ListOf(ord)
         /\ ListOf(new) = [j \in 1..(Len(ListOf(ord)) - 1) |->
                             IF j < ord[d] THEN ListOf(ord)[j] ELSE ListOf(ord)[j + 1]]
<1> DEFINE N == Order!Cardinality(Order!Numbered(ord))
           k == ord[d]
           l == ListOf(ord)
           less == [j \in 1..(N - 1) |-> IF j < k THEN l[j] ELSE l[j + 1]]
<1>1. /\ l \in Order!Bijection(1..N, Order!Numbered(ord)) /\ N \in Nat /\ k \in 1..N /\ Order!Places(ord) = 1..N
      /\ \A i \in 1..N : ord[l[i]] = i
      /\ l[k] = d
  BY AListOf, NumberedFinite DEF Order!Places
<1>2. l \in [1..N -> Order!Numbered(ord)] /\ Order!Numbered(ord) \subseteq Screens /\ Len(l) = N
  BY <1>1 DEF Order!Bijection, Order!Injection, Order!Numbered
<1>3. \A s \in Order!Numbered(ord) \ {d} : Closed(ord, d, s) \in 1..(N - 1)
  BY ClosedPlace
<1>8. /\ \A s \in Screens : new[s] = IF s \in Order!Numbered(ord) \ {d} THEN Closed(ord, d, s) ELSE 0
      /\ new \in [Screens -> Nat]
  BY <1>1, <1>3 DEF ClosedUp
<1>4. /\ Order!Numbered(new) = Order!Numbered(ord) \ {d} /\ Order!Places(new) = 1..(N - 1)
  <2>1. Order!Numbered(new) = Order!Numbered(ord) \ {d}
    BY <1>1, <1>2, <1>3, <1>8 DEF Order!Numbered
  <2>2. Order!Cardinality(Order!Numbered(new)) = N - 1
    BY <2>1, NumberedFinite, FS_RemoveElement, OrderFunctions
  <2> QED BY <2>1, <2>2 DEF Order!Places
<1>5. IsList(new)
  <2>1. \A s \in Order!Numbered(new) : new[s] \in Order!Places(new)
    BY <1>2, <1>3, <1>4, <1>8
  <2>2. ASSUME NEW s \in Order!Numbered(new), NEW t \in Order!Numbered(new), new[s] = new[t] PROVE s = t
    <3>1. /\ s \in Order!Numbered(ord) \ {d} /\ t \in Order!Numbered(ord) \ {d}
          /\ Closed(ord, d, s) = Closed(ord, d, t)
      BY <1>2, <1>4, <1>8, <2>2
    <3>2. /\ ord[s] \in 1..N /\ ord[t] \in 1..N /\ ord[s] # k /\ ord[t] # k
          /\ (ord[s] = ord[t] => s = t)
      BY <1>1, <3>1, ListHasNoClash DEF Order!Clash
    <3>3. ord[s] = ord[t]
      BY <1>1, <3>1, <3>2 DEF Closed
    <3> QED BY <3>2, <3>3
  <2> QED BY <1>8, <2>1, <2>2, NoClashIsList DEF Order!Clash
<1> HIDE DEF l, N, k
<1>6. ASSUME NEW j \in 1..(N - 1) PROVE less[j] \in Order!Numbered(new) /\ new[less[j]] = j
  <2> DEFINE i == IF j < k THEN j ELSE j + 1
  <2>1. i \in 1..N /\ i # k /\ less[j] = l[i] /\ (IF i < k THEN i ELSE i - 1) = j
    BY <1>1
  <2>2. l[i] \in Order!Numbered(ord) /\ ord[l[i]] = i /\ l[i] # d
    BY <1>1, <1>2, <2>1 DEF k
  <2>3. Closed(ord, d, l[i]) = j
    BY <2>1, <2>2 DEF Closed, k
  <2> QED BY <1>2, <1>4, <1>8, <2>1, <2>2, <2>3
<1>7. less = ListOf(new)
  <2>1. less = [j \in Order!Places(new) |-> less[j]]
    BY <1>4
  <2>2. \A j \in Order!Places(new) : less[j] \in Order!Numbered(new) /\ new[less[j]] = j
    BY <1>4, <1>6
  <2> HIDE DEF less
  <2> QED BY <1>5, <1>8, <2>1, <2>2, TheListOf
<1> QED BY <1>1, <1>2, <1>5, <1>7, <1>8 DEF l, k

LEMMA ListReordered ==
  ASSUME Order!ScreenOrderAssumptions, NEW ord \in [Screens -> Nat], IsList(ord),
         NEW new \in [Screens -> Nat], IsList(new), Order!Numbered(new) = Order!Numbered(ord)
  PROVE  ListOf(new) \in Order!Bijection(DOMAIN ListOf(ord), Order!Range(ListOf(ord)))
<1>1. /\ ListOf(ord) \in Order!Bijection(Order!Places(ord), Order!Numbered(ord))
      /\ ListOf(new) \in Order!Bijection(Order!Places(new), Order!Numbered(new)) /\ Order!Places(new) = Order!Places(ord)
  BY AListOf DEF Order!Places
<1>2. DOMAIN ListOf(ord) = Order!Places(ord) /\ Order!Range(ListOf(ord)) = Order!Numbered(ord)
  BY <1>1 DEF Order!Bijection, Order!Injection, Order!Surjection, Order!Range
<1> QED BY <1>1, <1>2

\* What a commit leaves of the transactions of others
LEMMA OneCommits ==
  ASSUME OrderInv, NEW o \in Ops, Order!End(o), order' \in [Screens -> Nat], IsList(order'),
         \A q \in Ops \ {o} : RecordOK(q, op[q], order', locked)
  PROVE  OrderInv'
<1>1. /\ op' \in [Ops -> OpRecords] /\ op'[o] = Order!Idle
      /\ \A q \in Ops : q # o => op'[q] = op[q]
  BY IdleTyped DEF OrderInv, Order!End, Order!Become
<1>2. \A p, q \in Ops : p # q => Compatible(op'[p], op'[q])
  BY <1>1, IdleTyped DEF OrderInv, Compatible
<1>3. ASSUME NEW q \in Ops PROVE RecordOK(q, op'[q], order', locked')
  <2>1. CASE q = o
    BY <1>1, <2>1, IdleTyped DEF RecordOK, Joins
  <2>2. CASE q # o
    <3>1. RecordOK(q, op[q], order', locked) /\ (locked = q => locked' = q)
      BY <2>2 DEF Order!End
    <3> QED BY <1>1, <2>2, <3>1 DEF RecordOK, JoinOK
  <2> QED BY <2>1, <2>2
<1> QED BY <1>1, <1>2, <1>3 DEF OrderInv

LEMMA JoinCommits ==
  ASSUME Order!ScreenOrderAssumptions, DeletesAlone, OrderInv, NEW o \in Ops, Order!Commit(o), Joins(op[o])
  PROVE  OrderInv' /\ \E s \in Screens : s \notin Order!Range(ListOf(order)) /\ ListOf(order') = Append(ListOf(order), s)
<1> DEFINE N == Order!Cardinality(Order!Numbered(order))
           s == op[o].screen
<1>1. /\ op[o] \in OpRecords /\ RecordOK(o, op[o], order, locked) /\ op[o].pc = "write"
      /\ order \in [Screens -> Nat] /\ IsList(order)
  BY DEF OrderInv, Order!Commit, Order!Done
<1>2. /\ s \in Screens /\ order[s] = 0 /\ locked = o
      /\ op[o].wrote = [Order!Nothing EXCEPT ![s] = N + 1]
  BY <1>1 DEF RecordOK, JoinOK
<1>3. N \in Nat
  BY NumberedFinite
<1> HIDE DEF N, s
<1>4. order' \in [Screens -> Nat] /\ \A t \in Screens : order'[t] = IF t = s THEN N + 1 ELSE order[t]
  <2>1. \A t \in Screens : op[o].wrote[t] = IF t = s THEN N + 1 ELSE Order!Untouched
    BY <1>2 DEF Order!Nothing
  <2>2. order' = Order!Rows(o)
    BY DEF Order!Commit
  <2> QED BY <1>1, <1>3, <2>1, <2>2 DEF Order!Rows, Order!Untouched
<1>5. /\ IsList(order')
      /\ Order!Numbered(order) \subseteq Order!Numbered(order') /\ Order!Places(order) \subseteq Order!Places(order')
      /\ s \notin Order!Range(ListOf(order)) /\ ListOf(order') = Append(ListOf(order), s)
  BY <1>1, <1>2, <1>3, <1>4, ListAdded DEF N
<1>6. ASSUME NEW q \in Ops \ {o} PROVE RecordOK(q, op[q], order', locked)
  <2>1. RecordOK(q, op[q], order, locked) /\ Compatible(op[o], op[q]) /\ q # locked
    BY <1>2 DEF OrderInv
  <2>2. Joins(op[q]) => JoinOK(q, op[q], order', locked)
    BY <1>1, <1>2, <1>4, <2>1 DEF RecordOK, JoinOK, Compatible, s
  <2>3. op[q].pc # "idle" => op[q].kind # "delete"
    BY <1>1, <2>1 DEF Compatible, DeletesAlone
  <2>4. op[q].pc # "idle" /\ op[q].kind = "reorder" => ReorderOK(op[q], order')
    BY <1>5, <2>1 DEF RecordOK, ReorderOK
  <2> QED BY <2>1, <2>2, <2>3, <2>4 DEF RecordOK
<1> QED BY <1>2, <1>4, <1>5, <1>6, OneCommits DEF Order!Commit

LEMMA ReorderCommits ==
  ASSUME Order!ScreenOrderAssumptions, DeletesAlone, OrderInv, NEW o \in Ops, Order!Commit(o),
         op[o].kind = "reorder"
  PROVE  OrderInv' /\ ListOf(order') \in Order!Bijection(DOMAIN ListOf(order), Order!Range(ListOf(order)))
<1>1. /\ op[o] \in OpRecords /\ RecordOK(o, op[o], order, locked) /\ op[o].pc = "write"
      /\ order \in [Screens -> Nat] /\ IsList(order)
  BY DEF OrderInv, Order!Commit, Order!Done
<1>2. ReorderOK(op[o], order)
  BY <1>1 DEF RecordOK
<1>3. \A s \in Screens : order'[s] = IF op[o].wrote[s] = Order!Untouched THEN order[s] ELSE op[o].wrote[s]
  BY DEF Order!Commit, Order!Rows
<1>4. order' \in [Screens -> Nat] /\ ~Order!Clash(order')
  <2>1. op[o].wrote \in [Screens -> Nat \cup {Order!Untouched}] /\ order' = Order!Rows(o) /\ ~Order!Clash(Order!Rows(o))
    BY <1>1 DEF OpRecords, Order!Commit
  <2> QED BY <1>1, <2>1 DEF Order!Rows
<1>5. \A s \in Order!Numbered(order) : order'[s] \in Order!Places(order)
  BY <1>1, <1>2, <1>3, ListHasNoClash DEF ReorderOK, Order!Numbered
<1>6. Order!Numbered(order') = Order!Numbered(order) /\ Order!Places(order') = Order!Places(order)
  <2>1. \A s \in Screens : s \notin Order!Numbered(order) => order'[s] = order[s]
    BY <1>2, <1>3 DEF ReorderOK
  <2>2. \A s \in Order!Numbered(order) : order'[s] > 0
    BY <1>5, NumberedFinite DEF Order!Places
  <2>3. Order!Numbered(order') = Order!Numbered(order)
    BY <2>1, <2>2 DEF Order!Numbered
  <2> QED BY <2>3 DEF Order!Places
<1>7. IsList(order')
  BY <1>4, <1>5, <1>6, NoClashIsList
<1>8. ASSUME NEW q \in Ops \ {o} PROVE RecordOK(q, op[q], order', locked)
  <2>1. RecordOK(q, op[q], order, locked) /\ Compatible(op[o], op[q])
    BY DEF OrderInv
  <2>2. Joins(op[q]) => JoinOK(q, op[q], order', locked)
    <3>1. op[q].screen \in Screens /\ order[op[q].screen] = 0 => order'[op[q].screen] = 0
      BY <1>2, <1>3 DEF ReorderOK, Order!Numbered
    <3> QED BY <1>6, <2>1, <3>1 DEF RecordOK, JoinOK
  <2>3. op[q].pc # "idle" => op[q].kind # "delete"
    BY <1>1, <2>1 DEF Compatible, DeletesAlone
  <2>4. op[q].pc # "idle" /\ op[q].kind = "reorder" => ReorderOK(op[q], order')
    BY <1>6, <2>1 DEF RecordOK, ReorderOK
  <2> QED BY <2>1, <2>2, <2>3, <2>4 DEF RecordOK
<1>9. ListOf(order') \in Order!Bijection(DOMAIN ListOf(order), Order!Range(ListOf(order)))
  BY <1>1, <1>4, <1>6, <1>7, ListReordered
<1> QED BY <1>4, <1>7, <1>8, <1>9, OneCommits DEF Order!Commit

LEMMA DeleteCommits ==
  ASSUME Order!ScreenOrderAssumptions, DeletesAlone, OrderInv, NEW o \in Ops, Order!Commit(o),
         op[o].kind = "delete"
  PROVE  /\ OrderInv'
         /\ \E s \in Screens : \E i \in DOMAIN ListOf(order) :
              /\ ListOf(order)[i] = s
              /\ ListOf(order') = [j \in 1..(Len(ListOf(order)) - 1) |->
                                     IF j < i THEN ListOf(order)[j] ELSE ListOf(order)[j + 1]]
<1> DEFINE d == op[o].screen
<1>1. /\ op[o] \in OpRecords /\ RecordOK(o, op[o], order, locked) /\ op[o].pc = "write" /\ op[o].todo = {}
      /\ order \in [Screens -> Nat] /\ IsList(order)
  BY DEF OrderInv, Order!Commit, Order!Done
<1>2. ClosingOK(op[o], order) /\ d \in Order!Numbered(order) /\ d \in Screens
  BY <1>1 DEF RecordOK, DeleteOK, Order!Numbered
<1>3. \A s \in Screens : order'[s] = IF op[o].wrote[s] = Order!Untouched THEN order[s] ELSE op[o].wrote[s]
  BY DEF Order!Commit, Order!Rows
<1>4. order' \in [Screens -> Nat]
  <2>1. op[o].wrote \in [Screens -> Nat \cup {Order!Untouched}] /\ order' = Order!Rows(o)
    BY <1>1 DEF OpRecords, Order!Commit
  <2> QED BY <1>1, <2>1 DEF Order!Rows
<1>5. ASSUME NEW s \in Screens
      PROVE  order'[s] = IF s \in Order!Numbered(order) \ {d} THEN Closed(order, d, s) ELSE 0
  <2>1. CASE s = d
    BY <1>2, <1>3, <2>1 DEF ClosingOK, Order!Untouched
  <2>2. CASE s # d /\ s \in Order!Numbered(order)
    BY <1>1, <1>2, <1>3, <2>2 DEF ClosingOK
  <2>3. CASE s # d /\ s \notin Order!Numbered(order)
    BY <1>1, <1>2, <1>3, <2>3 DEF ClosingOK, Order!Numbered
  <2> QED BY <2>1, <2>2, <2>3
<1>6. /\ IsList(order')
      /\ ListOf(order)[order[d]] = d /\ order[d] \in DOMAIN ListOf(order)
      /\ ListOf(order') = [j \in 1..(Len(ListOf(order)) - 1) |->
                             IF j < order[d] THEN ListOf(order)[j] ELSE ListOf(order)[j + 1]]
  <2> HIDE DEF d
  <2>1. order' = ClosedUp(order, d)
    BY <1>4, <1>5 DEF ClosedUp
  <2> QED BY <1>1, <1>2, <2>1, ListRemoved
<1>7. ASSUME NEW q \in Ops \ {o} PROVE RecordOK(q, op[q], order', locked)
  <2>1. RecordOK(q, op[q], order, locked) /\ Compatible(op[o], op[q])
    BY DEF OrderInv
  <2>2. op[q].pc = "idle"
    BY <1>1, <2>1 DEF Compatible, DeletesAlone
  <2> QED BY <2>1, <2>2 DEF RecordOK, Joins
<1> QED BY <1>2, <1>4, <1>6, <1>7, OneCommits DEF Order!Commit

-----------------------------------------------------------------------------
(* The theorems.                                                           *)

\* ScreenList's own names for the library's
LEMMA ListFunctions ==
  /\ \A f : Order!List!Range(f) = Order!Range(f) /\ (Order!List!IsInjective(f) <=> Order!IsInjective(f))
  /\ \A S, T : Order!List!Bijection(S, T) = Order!Bijection(S, T)
  /\ \A S : Order!List!Cardinality(S) = Order!Cardinality(S)
<1>1. \A S : Order!List!Cardinality(S) = Order!Cardinality(S)
  BY DEF Order!List!Cardinality, Order!Cardinality
<1> QED BY <1>1 DEF Order!List!Range, Order!List!IsInjective, Order!List!Bijection, Order!List!Injection, Order!List!Surjection,
       Order!Range, Order!IsInjective, Order!Bijection, Order!Injection, Order!Surjection

LEMMA OrderStep ==
  ASSUME Order!ScreenOrderAssumptions, DeletesAlone, OrderInv, Order!Next
  PROVE  OrderInv' /\ (order' = order \/ Order!List!Next)
<1>1. PICK o \in Ops : Order!Step(o)
  BY DEF Order!Next
<1>2. CASE \E s \in Screens : Order!BeginAdd(o, s) \/ Order!BeginAssign(o, s)
  BY <1>2, JoinBegins DEF Order!BeginAdd, Order!BeginAssign
<1>3. CASE \E s \in Screens : Order!BeginDelete(o, s)
  BY <1>3, DeleteBegins DEF Order!BeginDelete
<1>4. CASE Order!BeginReorder(o)
  BY <1>4, ReorderBegins DEF Order!BeginReorder
<1>5. CASE Order!LockDevice(o)
  BY <1>5, JoinLocks DEF Order!LockDevice
<1>6. CASE Order!InsertLast(o)
  BY <1>6, JoinInserts DEF Order!InsertLast
<1>7. CASE Order!DeleteRow(o)
  BY <1>7, DeleteGoes DEF Order!DeleteRow
<1>8. CASE Order!ListScreens(o)
  BY <1>8, DeleteLists DEF Order!ListScreens
<1>9. CASE Order!WriteNext(o)
  BY <1>9, Updates DEF Order!WriteNext
<1>10. CASE Order!RollBack(o)
  BY <1>10, OpEnds DEF Order!RollBack
<1>11. CASE Order!Commit(o)
  <2>1. Joins(op[o]) \/ op[o].kind = "reorder" \/ op[o].kind = "delete"
    BY <1>11 DEF OrderInv, OpRecords, Order!AllKinds, Order!Commit, Order!Done, Joins
  <2>2. Order!Listed = ListOf(order) /\ Order!Listed' = ListOf(order')
    BY DEF Order!Listed, ListOf, Order!Places, Order!Numbered
  <2>3. CASE Joins(op[o])
    BY <1>11, <2>2, <2>3, JoinCommits, ListFunctions DEF Order!List!Next, Order!List!Add
  <2>4. CASE op[o].kind = "reorder"
    BY <1>11, <2>2, <2>4, ReorderCommits, ListFunctions DEF Order!List!Next, Order!List!Reorder
  <2>5. CASE op[o].kind = "delete"
    BY <1>11, <2>2, <2>5, DeleteCommits DEF Order!List!Next, Order!List!Remove, Order!List!Without
  <2> QED BY <2>1, <2>3, <2>4, <2>5
<1> QED
  BY <1>1, <1>2, <1>3, <1>4, <1>5, <1>6, <1>7, <1>8, <1>9, <1>10, <1>11
  DEF Order!Step, Order!CommitRefused, Order!Deadlocked, Order!Fail

LEMMA ListBegins ==
  ASSUME Order!ScreenOrderAssumptions, OrderInv
  PROVE  Order!List!Init
<1>1. /\ Order!Listed \in Order!Bijection(Order!Places(order), Order!Numbered(order))
      /\ Order!Cardinality(Order!Numbered(order)) \in Nat /\ Order!Numbered(order) \subseteq Screens
  BY SMTT(20), AListOf, NumberedFinite DEF OrderInv, Order!Listed, ListOf, Order!Numbered
<1>2. /\ Order!Cardinality(Order!Numbered(order)) <= Order!Cardinality(Screens) /\ Order!Cardinality(Screens) \in Nat
  BY <1>1, FS_Subset, FS_CardinalityType, OrderFunctions DEF Order!ScreenOrderAssumptions
<1>3. Order!Listed \in [1..Order!Cardinality(Order!Numbered(order)) -> Screens] /\ Order!IsInjective(Order!Listed)
  BY <1>1 DEF Order!Bijection, Order!Injection, Order!Places
<1>4. Order!Cardinality(Order!Numbered(order)) \in 0..Order!Cardinality(Screens)
  BY <1>1, <1>2
<1>5. Order!Listed \in UNION {[1..n -> Screens] : n \in 0..Order!Cardinality(Screens)}
  BY <1>3, <1>4
<1>6. Order!List!IsInjective(Order!Listed)
  BY <1>3, ListFunctions
<1> QED BY <1>5, <1>6, ListFunctions DEF Order!List!Init, Order!List!Lists

\* The Order as one part of MCBackground: the others leave its rows alone.
LEMMA OrderBeginsAsPart ==
  ASSUME BackgroundInit
  PROVE  OrderInv /\ Order!List!Init
BY BackgroundAssumptions, OrderBegins, ListBegins DEF BackgroundInit

LEMMA OrderStepsAsPart ==
  ASSUME DeletesAlone, OrderInv, [BrowserMoves \/ OrderMoves \/ FirmwareMoves]_backgroundVars
  PROVE  OrderInv' /\ [Order!List!Next]_(Order!Listed)
<1>1. CASE OrderMoves
  <2>1. OrderInv' /\ (order' = order \/ Order!List!Next)
    BY <1>1, BackgroundAssumptions, OrderStep DEF OrderMoves
  <2>2. order' = order => Order!Listed' = Order!Listed
    BY DEF Order!Listed, Order!Places, Order!Numbered
  <2> QED BY <2>1, <2>2
<1>2. CASE UNCHANGED orderVars
  <2>1. /\ order' = order /\ op' = op /\ locked' = locked
    BY <1>2 DEF orderVars
  <2>2. OrderInv'
    BY <2>1 DEF OrderInv
  <2>3. Order!Listed' = Order!Listed
    BY <2>1 DEF Order!Listed, Order!Places, Order!Numbered
  <2> QED BY <2>2, <2>3
<1> QED BY <1>1, <1>2 DEF BrowserMoves, FirmwareMoves, backgroundVars

\* Whatever requests overlap, as long as none overlaps a delete, each rolled back or
\* not and however their statements follow each other, the committed Order numbers of
\* a Device are 1..N after joinEndOfOrder, closeGapInOrder and writeOrder.
THEOREM OrderStaysSequential ==
  ASSUME DeletesAlone
  PROVE  BackgroundSpec => []Sequential
<1>1. OrderInv => Sequential
  BY DEF OrderInv, IsList, Sequential, Order!Sequential
<1>2. BackgroundInit => OrderInv
  BY OrderBeginsAsPart
<1>3. OrderInv /\ [BrowserMoves \/ OrderMoves \/ FirmwareMoves]_backgroundVars => OrderInv'
  BY OrderStepsAsPart
<1> QED BY <1>1, <1>2, <1>3, PTL DEF BackgroundSpec

\* Under the same overlaps a commit does to the list of Screens what its request
\* promises, and nothing else changes the list: ScreenOrder implements ScreenList.
THEOREM OrderIsAList ==
  ASSUME DeletesAlone
  PROVE  BackgroundSpec => ListSpec
<1>1. BackgroundInit => OrderInv /\ Order!List!Init
  BY OrderBeginsAsPart
<1>2. OrderInv /\ [BrowserMoves \/ OrderMoves \/ FirmwareMoves]_backgroundVars
        => OrderInv' /\ [Order!List!Next]_(Order!Listed)
  BY OrderStepsAsPart
<1> QED BY <1>1, <1>2, PTL DEF BackgroundSpec, ListSpec, Order!ListSpec, Order!List!Spec
=============================================================================
