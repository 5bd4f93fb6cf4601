------------------------------ MODULE MashupRender ------------------------------
(***************************************************************************)
(* How a Mashup is drawn (screen-render.service.ts): its slots are         *)
(* rendered into its cached output, the whole page is drawn, and only when *)
(* that raises a Render Signal is each slot's own read, once per cached    *)
(* output (ADR-0067).  Beside it Plugins refresh, the admin edits the      *)
(* Mashup, and a render may fail, or the server die, at any await.  A      *)
(* render works on the copy of the rows it has loaded.                     *)
(***************************************************************************)
EXTENDS Naturals, FiniteSets

CONSTANTS
  Plugins,     \* those of the Mashup, one to a slot
  Markups,     \* what a Plugin may render to
  SignalOf,    \* the Render Signal each markup raises on a page of its own
  Renders,     \* renders that may be under way at the same time
  NoMarkup,
  Overlap,     \* whether the Mashup is edited while it is rendered
  MaxUpdates,  \* bound: edits of the Mashup
  MaxRefreshes \* bound: refreshes of its Plugins

\* What a module that instantiates this one is to give it
MashupRenderAssumptions ==
  /\ SignalOf \in [Markups -> {"none", "skip", "hold"}] /\ NoMarkup \notin Markups
  /\ {MaxUpdates, MaxRefreshes} \subseteq Nat /\ Overlap \in BOOLEAN

VARIABLES
  output,      \* what each Plugin renders to now; NoMarkup when it cannot
  stale,       \* the Plugins whose refresh has still to clear the Mashup's cached output
  edition,     \* counts the edits, each of which replaces the slots
  slot,        \* each slot's row
  read,        \* slotSignalsRead
  cached,      \* cachedPluginOutput: what each slot has on it, or <<>>
  image,       \* the stored image: what each slot shows
  render, refreshes

vars == <<output, stale, edition, slot, read, cached, image, render, refreshes>>

-----------------------------------------------------------------------------
None == <<>>
Slots(n) == {<<n, p>> : p \in Plugins}
NewSlot == [markup |-> NoMarkup, signal |-> "none", live |-> NoMarkup]
IdleRender == [pc |-> "idle", honor |-> FALSE, slot |-> None, read |-> FALSE, page |-> None, todo |-> {}]

Init ==
  /\ output \in [Plugins -> Markups]
  /\ stale = {} /\ edition = 1
  /\ slot = [s \in Slots(1) |-> NewSlot]
  /\ read = FALSE /\ cached = None /\ image = None
  /\ render = [r \in Renders |-> IdleRender]
  /\ refreshes = 0

At(r, pc) == render[r].pc = pc
Become(r, state) == render' = [render EXCEPT ![r] = state]
End(r) == Become(r, IdleRender)
\* UPDATE ... WHERE id: a slot an edit has removed is not there to be changed.
Stored(s, row) == slot' = IF s \in DOMAIN slot THEN [slot EXCEPT ![s] = row] ELSE slot

\* renderMashupScreen, for a poll or after a save
Start(r, honor) ==
  /\ At(r, "idle")
  /\ Become(r, [IdleRender EXCEPT !.pc = IF cached = None THEN "render" ELSE "draw", !.honor = honor,
                                  !.slot = slot, !.read = read, !.page = cached])
  /\ UNCHANGED <<output, stale, edition, slot, read, cached, image, refreshes>>

\* renderMashup
RenderSlots(r) ==
  /\ At(r, "render")
  /\ Become(r, [render[r] EXCEPT !.pc = "keep", !.page = [s \in DOMAIN render[r].slot |-> output[s[2]]],
                                 !.todo = DOMAIN render[r].slot])
  /\ UNCHANGED <<output, stale, edition, slot, read, cached, image, refreshes>>

\* renderMashupOnDemand: a slot's markup, whose signal nobody has read yet
KeepMarkup(r, s) ==
  LET new == [render[r].slot[s] EXCEPT !.markup = render[r].page[s], !.signal = "none"]
  IN /\ At(r, "keep") /\ s \in render[r].todo
     /\ Stored(s, IF s \in DOMAIN slot THEN [slot[s] EXCEPT !.markup = new.markup, !.signal = "none"] ELSE new)
     /\ Become(r, [render[r] EXCEPT !.slot[s] = new, !.todo = @ \ {s}])
     /\ UNCHANGED <<output, stale, edition, read, cached, image, refreshes>>

\* Slip: whether the slots were read is left as it is
LeftRead == read
Unread == FALSE

ForgetSignals(r) ==
  /\ At(r, "keep") /\ render[r].todo = {}
  /\ read' = Unread
  /\ Become(r, [render[r] EXCEPT !.pc = "cache", !.read = read'])
  /\ UNCHANGED <<output, stale, edition, slot, cached, image, refreshes>>

\* cachePluginOutput
Cache(r) ==
  /\ At(r, "cache")
  /\ cached' = render[r].page
  /\ Become(r, [render[r] EXCEPT !.pc = "draw"])
  /\ UNCHANGED <<output, stale, edition, slot, read, image, refreshes>>

-----------------------------------------------------------------------------
(* drawMashup                                                              *)

Signal(markup) == IF markup = NoMarkup THEN "none" ELSE SignalOf[markup]
\* The slots share one window: what any of them raises, the page raises.
Live(page) == \A s \in DOMAIN page : Signal(page[s]) = "none"

DrawPage(r) ==
  /\ At(r, "draw") /\ ~render[r].read
  /\ IF Live(render[r].page)
     THEN image' = render[r].page /\ Become(r, [render[r] EXCEPT !.pc = "drawn"])
     ELSE Become(r, [render[r] EXCEPT !.pc = "read", !.todo = DOMAIN render[r].slot]) /\ UNCHANGED image
  /\ UNCHANGED <<output, stale, edition, slot, read, cached, refreshes>>

KnowSignals(r) ==
  /\ At(r, "draw") /\ render[r].read
  /\ Become(r, [render[r] EXCEPT !.pc = "decide"])
  /\ UNCHANGED <<output, stale, edition, slot, read, cached, image, refreshes>>

\* readSlotSignals: a page with that slot alone
ReadSignal(r, s) ==
  LET signal == Signal(render[r].slot[s].markup)
  IN /\ At(r, "read") /\ s \in render[r].todo
     /\ Stored(s, IF s \in DOMAIN slot THEN [slot[s] EXCEPT !.signal = signal] ELSE NewSlot)
     /\ Become(r, [render[r] EXCEPT !.slot[s].signal = signal, !.todo = @ \ {s}])
     /\ UNCHANGED <<output, stale, edition, read, cached, image, refreshes>>

AllRead(r) ==
  /\ At(r, "read") /\ render[r].todo = {}
  /\ read' = TRUE
  /\ Become(r, [render[r] EXCEPT !.pc = "decide", !.read = TRUE])
  /\ UNCHANGED <<output, stale, edition, slot, cached, image, refreshes>>

\* mashupRenderSignal: the Mashup skips or holds only when no slot draws live
Silent(r) == \A s \in DOMAIN render[r].slot : render[r].slot[s].signal # "none"

SkipOrHold(r) ==
  /\ At(r, "decide") /\ Silent(r) /\ render[r].honor
  /\ End(r)
  /\ UNCHANGED <<output, stale, edition, slot, read, cached, image, refreshes>>

DrawAnyway(r) ==
  /\ At(r, "decide") /\ ~(Silent(r) /\ render[r].honor)
  /\ Become(r, [render[r] EXCEPT !.pc = "redraw"])
  /\ UNCHANGED <<output, stale, edition, slot, read, cached, image, refreshes>>

\* Slip: what a slot that signals has rendered is kept as well
EverySlot(row) == row.markup \notin {NoMarkup, row.live}
DrawsLive(row) == row.signal = "none" /\ row.markup \notin {NoMarkup, row.live}

\* recordLiveMarkup, after the page is drawn whole or before it is drawn by slots:
\* a slot that draws live
Record(r, s) ==
  LET row == render[r].slot[s]
  IN /\ At(r, "drawn") \/ At(r, "redraw")
     /\ s \in DOMAIN render[r].slot /\ DrawsLive(row)
     /\ Stored(s, IF s \in DOMAIN slot THEN [slot[s] EXCEPT !.live = row.markup] ELSE row)
     /\ Become(r, [render[r] EXCEPT !.slot[s].live = row.markup])
     /\ UNCHANGED <<output, stale, edition, read, cached, image, refreshes>>

AllRecorded(r) == \A s \in DOMAIN render[r].slot : ~DrawsLive(render[r].slot[s])

Return(r) ==
  /\ At(r, "drawn") /\ AllRecorded(r)
  /\ End(r)
  /\ UNCHANGED <<output, stale, edition, slot, read, cached, image, refreshes>>

\* slotDrawing: nothing for a slot that skips, what it last drew live for one that holds
Drawing(row) ==
  CASE row.signal = "skip" -> NoMarkup
    [] row.signal = "hold" -> row.live
    [] OTHER -> row.markup

DrawSlots(r) ==
  /\ At(r, "redraw") /\ AllRecorded(r)
  /\ image' = [s \in DOMAIN render[r].slot |-> Drawing(render[r].slot[s])]
  /\ End(r)
  /\ UNCHANGED <<output, stale, edition, slot, read, cached, refreshes>>

\* RENDER_FAILED, a failed write, or the server dies
Fail(r) ==
  /\ ~At(r, "idle")
  /\ End(r)
  /\ UNCHANGED <<output, stale, edition, slot, read, cached, image, refreshes>>

RenderStep(r) ==
  \/ \E honor \in BOOLEAN : Start(r, honor)
  \/ RenderSlots(r) \/ ForgetSignals(r) \/ Cache(r) \/ DrawPage(r) \/ KnowSignals(r)
  \/ \E s \in render[r].todo : KeepMarkup(r, s) \/ ReadSignal(r, s)
  \/ \E s \in DOMAIN render[r].slot : Record(r, s)
  \/ AllRead(r) \/ SkipOrHold(r) \/ DrawAnyway(r) \/ Return(r) \/ DrawSlots(r) \/ Fail(r)

-----------------------------------------------------------------------------
\* A Plugin has new output; its own Screens come before the Mashups it is in.
Refresh(p) ==
  /\ refreshes < MaxRefreshes /\ refreshes' = refreshes + 1
  /\ \E m \in Markups \cup {NoMarkup} : m # output[p] /\ output' = [output EXCEPT ![p] = m]
  /\ stale' = stale \cup {p}
  /\ UNCHANGED <<edition, slot, read, cached, image, render>>

\* PluginRenderCacheService.invalidateMashupCaches
Invalidate(p) ==
  /\ p \in stale
  /\ stale' = stale \ {p}
  /\ cached' = None
  /\ UNCHANGED <<output, edition, slot, read, image, render, refreshes>>

\* MashupService.update: one transaction
Update ==
  /\ edition <= MaxUpdates /\ edition' = edition + 1
  /\ Overlap \/ \A r \in Renders : At(r, "idle")
  /\ slot' = [s \in Slots(edition') |-> NewSlot]
  /\ cached' = None
  /\ UNCHANGED <<output, stale, read, image, render, refreshes>>

Next ==
  \/ \E r \in Renders : RenderStep(r)
  \/ \E p \in Plugins : Refresh(p) \/ Invalidate(p)
  \/ Update

Spec == Init /\ [][Next]_vars

-----------------------------------------------------------------------------
(* What the code is to guarantee.                                          *)

Drawable == Markups \cup {NoMarkup}
Rows == [markup: Drawable, signal: {"none", "skip", "hold"}, live: Drawable]
Pages == {None} \cup [Slots(edition) -> Drawable]
RenderRecords ==
  [pc: {"idle", "render", "keep", "cache", "draw", "read", "decide", "drawn", "redraw"}, honor: BOOLEAN,
   slot: {None} \cup [Slots(edition) -> Rows], read: BOOLEAN, page: Pages, todo: SUBSET Slots(edition)]

\* The shape of the rows and the renders, as long as the slots a render has loaded
\* are not replaced under it.
TypeOK ==
  /\ output \in [Plugins -> Drawable] /\ stale \subseteq Plugins
  /\ edition \in 1..(MaxUpdates + 1) /\ refreshes \in 0..MaxRefreshes
  /\ slot \in [Slots(edition) -> Rows] /\ read \in BOOLEAN
  /\ cached \in Pages
  /\ render \in [Renders -> RenderRecords]

\* What is cached is what the slots have, and once their signals count as read
\* each slot's is the one its markup raises, at whichever await a render has
\* failed before and whatever was refreshed meanwhile.
SignalsAreOfCached ==
  cached # None =>
    \A s \in DOMAIN slot :
      /\ s \in DOMAIN cached /\ slot[s].markup = cached[s]
      /\ read => slot[s].signal = Signal(cached[s])

\* A slot never shows the markup in which its Plugin asks not to be shown, or to
\* be left as it was: it shows one that raises no Render Signal, or nothing.
NothingSignalledIsShown == \A s \in DOMAIN image : Signal(image[s]) = "none"

\* A Mashup asked to honour Render Signals is skipped or held only while every
\* slot signals, and is drawn by slots only while one does not, on what the page
\* it works on has, not on signals left over from another.
SkipsOnlyInSilence ==
  [][\A r \in Renders :
       LET page == render[r].page
       IN /\ SkipOrHold(r) => \A s \in DOMAIN page : Signal(page[s]) # "none"
          /\ DrawSlots(r) /\ render[r].honor => \E s \in DOMAIN page : Signal(page[s]) = "none"]_vars

=============================================================================
