---------------------------- MODULE SharedBrowser ----------------------------
(***************************************************************************)
(* The one Chromium every render draws in (device-models/shared-browser.ts): *)
(* slots for at most MAX_CONCURRENT_PAGES pages, handed from a render that *)
(* ends to the one that has waited longest, and a browser launched on      *)
(* first use and launched again once it is found dead.  A render runs      *)
(* undisturbed between two awaits; `browserPromise` names the launch whose *)
(* promise the variable of that name holds.                                *)
(***************************************************************************)
EXTENDS Naturals, Sequences, FiniteSets

CONSTANTS
  Renders,              \* callers of withSharedPage
  Launches,             \* names for launches; one that nobody refers to is used again
  NoLaunch,
  MAX_CONCURRENT_PAGES,
  MaxBreaks             \* bound: how many launches fail or browsers crash

ASSUME SharedBrowserAssumptions ==
  /\ IsFiniteSet(Renders)
  /\ NoLaunch \notin Launches
  /\ MAX_CONCURRENT_PAGES \in Nat \ {0}
  /\ MaxBreaks \in Nat

VARIABLES
  openPages,        \* the slots in use, as the code counts them
  waiting,          \* the renders that wait for a slot, the longest first
  browserPromise,   \* the launch every new render is to use
  browser,          \* each launch: under way, failed, a browser, or one that is dead
  closing,          \* the launch closeSharedBrowser has taken away, if any
  render,           \* each render: where it stands, and with which launch
  stopping,         \* whether the Instance is being stopped
  breaks            \* how many launches and browsers have broken, for the bound

ends == <<stopping, breaks>>
vars == <<openPages, waiting, browserPromise, browser, closing, render, ends>>

-----------------------------------------------------------------------------
Idle == [pc |-> "idle", with |-> NoLaunch]

Init ==
  /\ openPages = 0
  /\ waiting = <<>>
  /\ browserPromise = NoLaunch
  /\ browser = [b \in Launches |-> "dead"]
  /\ closing = {}
  /\ render = [r \in Renders |-> Idle]
  /\ stopping = FALSE /\ breaks = 0

At(r, pc) == render[r].pc = pc
Goto(r, pc) == render' = [render EXCEPT ![r].pc = pc]
End(r) == render' = [render EXCEPT ![r] = [pc |-> "end", with |-> NoLaunch]]

\* acquireSlot, when a slot is free
TakeSlot(r) ==
  /\ At(r, "idle")
  /\ openPages < MAX_CONCURRENT_PAGES
  /\ openPages' = openPages + 1
  /\ Goto(r, "slot")
  /\ UNCHANGED <<waiting, browserPromise, browser, closing, ends>>

\* acquireSlot, when none is
WaitForSlot(r) ==
  /\ At(r, "idle")
  /\ openPages >= MAX_CONCURRENT_PAGES
  /\ waiting' = Append(waiting, r)
  /\ Goto(r, "waiting")
  /\ UNCHANGED <<openPages, browserPromise, browser, closing, ends>>

-----------------------------------------------------------------------------
(* sharedBrowser                                                           *)

Referred == {browserPromise} \cup closing \cup {render[r].with : r \in Renders}

Launch(r) ==
  LET b == CHOOSE name \in Launches \ Referred : TRUE
  IN  /\ Launches \ Referred # {}
      /\ browserPromise' = b
      /\ browser' = [browser EXCEPT ![b] = "launching"]
      /\ render' = [render EXCEPT ![r] = [pc |-> "launch", with |-> b]]

Share(r) ==
  /\ render' = [render EXCEPT ![r] = [pc |-> "await", with |-> browserPromise]]
  /\ UNCHANGED <<browserPromise, browser>>

\* Slip: a launch that failed stays the promise
ObtainAfterNone(r, dead) == IF browserPromise = NoLaunch THEN Launch(r) ELSE Share(r)
\* Slip: a launch by another render that met the same dead browser is overlooked
ObtainAgain(r, dead) ==
  IF browserPromise = NoLaunch \/ dead # NoLaunch THEN Launch(r) ELSE Share(r)
\* From one look at browserPromise to the next await: launch when there is no
\* promise, or when it still is the one this render has found `dead`.
Obtain(r, dead) == IF browserPromise \in {NoLaunch, dead} THEN Launch(r) ELSE Share(r)

AskForBrowser(r) ==
  /\ At(r, "slot")
  /\ Obtain(r, NoLaunch)
  /\ UNCHANGED <<openPages, waiting, closing, ends>>

\* The promise a render awaited has settled.
FoundConnected(r) ==
  /\ At(r, "await")
  /\ browser[render[r].with] = "connected"
  /\ Goto(r, "newPage")
  /\ UNCHANGED <<openPages, waiting, browserPromise, browser, closing, ends>>

FoundDead(r) ==
  /\ At(r, "await")
  /\ browser[render[r].with] \in {"dead", "failed"}
  /\ Obtain(r, render[r].with)
  /\ UNCHANGED <<openPages, waiting, closing, ends>>

\* The launch a render began has settled: its browser is used as it is, even
\* one that has crashed since.
Launched(r) ==
  /\ At(r, "launch")
  /\ browser[render[r].with] \in {"connected", "dead"}
  /\ Goto(r, "newPage")
  /\ UNCHANGED <<openPages, waiting, browserPromise, browser, closing, ends>>

LaunchFailed(r) ==
  /\ At(r, "launch")
  /\ browser[render[r].with] = "failed"
  /\ browserPromise' = IF browserPromise = render[r].with THEN NoLaunch ELSE browserPromise
  /\ End(r)
  /\ UNCHANGED <<openPages, waiting, browser, closing, ends>>

-----------------------------------------------------------------------------
(* The page, and the slot given back                                       *)

OpenPage(r) ==
  /\ At(r, "newPage")
  /\ browser[render[r].with] = "connected"
  /\ Goto(r, "draw")
  /\ UNCHANGED <<openPages, waiting, browserPromise, browser, closing, ends>>

NoPage(r) ==
  /\ At(r, "newPage")
  /\ browser[render[r].with] = "dead"
  /\ End(r)
  /\ UNCHANGED <<openPages, waiting, browserPromise, browser, closing, ends>>

\* `draw` has settled, however it did, and its page is closed
Drawn(r) ==
  /\ At(r, "draw")
  /\ End(r)
  /\ UNCHANGED <<openPages, waiting, browserPromise, browser, closing, ends>>

\* Slip: the slot handed on is also given back
ReleaseTwice(r) ==
  /\ At(r, "end")
  /\ waiting # <<>>
  /\ waiting' = Tail(waiting)
  /\ openPages' = openPages - 1
  /\ render' = [render EXCEPT ![r] = Idle, ![Head(waiting)].pc = "slot"]
  /\ UNCHANGED <<browserPromise, browser, closing, ends>>

\* releaseSlot: the slot goes straight to the render that waited longest
HandSlotOver(r) ==
  /\ At(r, "end")
  /\ waiting # <<>>
  /\ waiting' = Tail(waiting)
  /\ render' = [render EXCEPT ![r] = Idle, ![Head(waiting)].pc = "slot"]
  /\ UNCHANGED <<openPages, browserPromise, browser, closing, ends>>

GiveSlotBack(r) ==
  /\ At(r, "end")
  /\ waiting = <<>>
  /\ openPages' = openPages - 1
  /\ render' = [render EXCEPT ![r] = Idle]
  /\ UNCHANGED <<waiting, browserPromise, browser, closing, ends>>

RenderStep(r) ==
  \/ AskForBrowser(r) \/ FoundConnected(r) \/ FoundDead(r) \/ Launched(r) \/ LaunchFailed(r)
  \/ OpenPage(r) \/ NoPage(r) \/ Drawn(r) \/ HandSlotOver(r) \/ GiveSlotBack(r)

-----------------------------------------------------------------------------
(* Chromium, and the Instance that stops                                   *)

LaunchSettles(b) ==
  /\ browser[b] = "launching"
  /\ browser' = [browser EXCEPT ![b] = "connected"]
  /\ UNCHANGED <<openPages, waiting, browserPromise, closing, render, ends>>

Breaks ==
  /\ breaks < MaxBreaks
  /\ breaks' = breaks + 1
  /\ UNCHANGED <<openPages, waiting, browserPromise, closing, render, stopping>>

LaunchFails(b) ==
  /\ browser[b] = "launching"
  /\ browser' = [browser EXCEPT ![b] = "failed"]
  /\ Breaks

Crash(b) ==
  /\ browser[b] = "connected"
  /\ browser' = [browser EXCEPT ![b] = "dead"]
  /\ Breaks

\* closeSharedBrowser, once, when the Instance stops; a render that is still to
\* come launches a browser again
BeginClose ==
  /\ ~stopping
  /\ stopping' = TRUE
  /\ closing' = {browserPromise} \ {NoLaunch}
  /\ browserPromise' = NoLaunch
  /\ UNCHANGED <<openPages, waiting, browser, render, breaks>>

Close(b) ==
  /\ b \in closing
  /\ browser[b] # "launching"
  /\ browser' = [browser EXCEPT ![b] = "dead"]
  /\ closing' = closing \ {b}
  /\ UNCHANGED <<openPages, waiting, browserPromise, render, ends>>

Next ==
  \/ \E r \in Renders : TakeSlot(r) \/ WaitForSlot(r) \/ RenderStep(r)
  \/ \E b \in Launches : LaunchSettles(b) \/ LaunchFails(b) \/ Crash(b) \/ Close(b)
  \/ BeginClose

Spec == Init /\ [][Next]_vars

\* Every await settles: a draw and a launch have timeouts of their own.
FairSpec ==
  /\ Spec
  /\ \A r \in Renders : WF_vars(RenderStep(r))
  /\ \A b \in Launches : WF_vars(LaunchSettles(b)) /\ WF_vars(Close(b))

-----------------------------------------------------------------------------
(* What the code is to guarantee.                                          *)

Working == {"slot", "await", "launch", "newPage", "draw", "end"}
Holders == {r \in Renders : render[r].pc \in Working}

\* The shape of the module's state and of where each render stands.
TypeOK ==
  /\ openPages \in Nat
  /\ waiting \in Seq(Renders)
  /\ browserPromise \in Launches \cup {NoLaunch}
  /\ browser \in [Launches -> {"dead", "launching", "connected", "failed"}]
  /\ closing \in SUBSET Launches
  /\ render \in [Renders -> [pc: {"idle", "waiting"} \cup Working, with: Launches \cup {NoLaunch}]]
  /\ stopping \in BOOLEAN
  /\ breaks \in 0..MaxBreaks

\* No slot is lost and none is given twice: as many are counted as renders hold
\* one, never more than MAX_CONCURRENT_PAGES, and nobody waits while one is free.
SlotsAccounted ==
  /\ openPages = Cardinality(Holders)
  /\ openPages <= MAX_CONCURRENT_PAGES
  /\ waiting # <<>> => openPages = MAX_CONCURRENT_PAGES

\* No Chromium is left running that no render and no close would find again.
NoStrayBrowser ==
  \A b \in Launches : browser[b] \in {"launching", "connected"} => b \in {browserPromise} \cup closing

\* A render that asks for a page gets its turn, and ends.
EveryRenderEnds == \A r \in Renders : At(r, "waiting") ~> At(r, "idle")
=============================================================================
