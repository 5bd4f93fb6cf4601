------------------------- MODULE MashupRender_proofs -------------------------
(***************************************************************************)
(* For any number of Plugins, markups, refreshes and edits, and one render *)
(* at a time that no edit overlaps: the Render Signals that count as read  *)
(* are those of what is cached, and no slot shows what its Plugin asked    *)
(* not to be shown.                                                        *)
(***************************************************************************)
EXTENDS MashupRender, TLAPS

\* One render, and the Mashup is not edited while it lasts.
OneRender == MashupRenderAssumptions /\ Overlap = FALSE /\ \A q, r \in Renders : q = r

-----------------------------------------------------------------------------
(* The inductive invariant.                                                *)

IsWhole(page) == page \in [Slots(edition) -> Drawable]

\* What the slots have is what is on the page.
HasMarkup(page, slots) == \A s \in slots : slot[s].markup = page[s]
HasSignal(page, slots) == \A s \in slots : slot[s].signal = Signal(page[s])

\* A render works on rows that are still what it has loaded, or has written, and
\* keeps nothing when it is over.
WorksOnRows ==
  \A r \in Renders : IF At(r, "idle") THEN render[r] = IdleRender
                     ELSE render[r].slot = slot /\ render[r].read = read

\* While the slots are rendered anew nothing is cached, whoever refreshes.
RendersAnew ==
  \A r \in Renders :
    /\ At(r, "render") \/ At(r, "keep") \/ At(r, "cache") => cached = None
    /\ At(r, "keep") => IsWhole(render[r].page) /\ HasMarkup(render[r].page, Slots(edition) \ render[r].todo)
    /\ At(r, "cache") => ~read

\* Once it is cached, the page being drawn is what the slots have.
DrawsCached ==
  \A r \in Renders :
    /\ At(r, "cache") \/ At(r, "draw") \/ At(r, "read") \/ At(r, "decide") \/ At(r, "drawn") \/ At(r, "redraw") =>
         /\ IsWhole(render[r].page) /\ HasMarkup(render[r].page, Slots(edition))
         /\ cached = None \/ cached = render[r].page
         /\ read => HasSignal(render[r].page, Slots(edition))
    /\ At(r, "read") => ~read /\ HasSignal(render[r].page, Slots(edition) \ render[r].todo)
    /\ At(r, "decide") \/ At(r, "redraw") => read
    /\ At(r, "drawn") => Live(render[r].page)
    /\ At(r, "redraw") => ~(Silent(r) /\ render[r].honor)

\* What a slot is kept to have drawn live raises no signal.
LiveIsLive == \A s \in Slots(edition) : Signal(slot[s].live) = "none"

IInv ==
  /\ TypeOK /\ WorksOnRows /\ RendersAnew /\ DrawsCached /\ LiveIsLive
  /\ SignalsAreOfCached /\ NothingSignalledIsShown

-----------------------------------------------------------------------------
(* Typing.                                                                 *)

LEMMA Types ==
  ASSUME IInv, NEW r \in Renders
  PROVE  /\ render[r] \in RenderRecords
         /\ ~At(r, "idle") => render[r].slot \in [Slots(edition) -> Rows] /\ render[r].slot = slot
         /\ slot \in [Slots(edition) -> Rows] /\ DOMAIN slot = Slots(edition)
BY DEF IInv, TypeOK, WorksOnRows

LEMMA IdleTypes == IdleRender \in RenderRecords /\ IdleRender.pc = "idle"
BY DEF IdleRender, RenderRecords, Pages

LEMMA SlotTypes ==
  ASSUME NEW s \in Slots(edition), IInv
  PROVE  s[2] \in Plugins /\ output[s[2]] \in Drawable /\ slot[s] \in Rows
BY DEF Slots, IInv, TypeOK

\* The only render is where its step has left it.
LEMMA Becomes ==
  ASSUME IInv, OneRender, NEW r \in Renders, NEW c \in RenderRecords, Become(r, c), edition' = edition
  PROVE  /\ render' \in [Renders -> RenderRecords'] /\ RenderRecords' = RenderRecords
         /\ \A q \in Renders : render'[q] = c
<1>1. RenderRecords' = RenderRecords
  BY DEF RenderRecords, Pages, Slots
<1>2. \A q \in Renders : q = r
  BY DEF OneRender
<1> QED BY <1>1, <1>2 DEF IInv, TypeOK, Become

-----------------------------------------------------------------------------
(* The actions.                                                            *)

LEMMA InitHolds == OneRender /\ Init => IInv
<1> SUFFICES ASSUME OneRender, Init PROVE IInv
  OBVIOUS
<1>1. \A r \in Renders : At(r, "idle") /\ render[r] = IdleRender /\ render[r] \in RenderRecords
  BY IdleTypes DEF Init, At
<1>2. NewSlot \in Rows /\ NewSlot.live = NoMarkup
  BY DEF NewSlot, Rows, Drawable
<1>3. /\ slot \in [Slots(edition) -> Rows] /\ edition = 1
      /\ \A s \in Slots(edition) : slot[s].live = NoMarkup
  BY <1>2 DEF Init
<1>4. edition \in 1..(MaxUpdates + 1) /\ refreshes \in 0..MaxRefreshes
  BY DEF OneRender, MashupRenderAssumptions, Init
<1>5. TypeOK
  BY <1>1, <1>3, <1>4, IdleTypes DEF Init, TypeOK, Drawable, Pages
<1>6. WorksOnRows /\ RendersAnew /\ DrawsCached
  BY <1>1 DEF WorksOnRows, RendersAnew, DrawsCached, At
<1>7. LiveIsLive
  BY <1>3 DEF LiveIsLive, Signal
<1>8. SignalsAreOfCached
  BY DEF Init, SignalsAreOfCached
<1>9. DOMAIN image = {}
  BY DEF Init, None
<1>10. NothingSignalledIsShown
  BY <1>9 DEF NothingSignalledIsShown
<1> QED BY <1>5, <1>6, <1>7, <1>8, <1>10 DEF IInv

\* A render that ends leaves the rows as they are.
LEMMA EndKeeps ==
  ASSUME IInv, OneRender, NEW r \in Renders, End(r),
         UNCHANGED <<output, stale, edition, slot, read, cached, refreshes>>, NothingSignalledIsShown'
  PROVE  IInv'
<1>1. render' \in [Renders -> RenderRecords'] /\ \A q \in Renders : At(q, "idle")' /\ render'[q] = IdleRender
  BY IdleTypes, Becomes DEF End, At
<1>2. TypeOK'
  BY <1>1 DEF IInv, TypeOK, Slots, Pages
<1>3. (WorksOnRows /\ RendersAnew /\ DrawsCached)'
  BY <1>1 DEF WorksOnRows, RendersAnew, DrawsCached, At
<1>4. (LiveIsLive /\ SignalsAreOfCached)'
  BY DEF IInv, LiveIsLive, SignalsAreOfCached, Slots
<1> QED BY <1>2, <1>3, <1>4 DEF IInv

LEMMA StartKeeps ==
  ASSUME IInv, OneRender, NEW r \in Renders, NEW honor \in BOOLEAN, Start(r, honor)
  PROVE  IInv'
<1> DEFINE c == [IdleRender EXCEPT !.pc = IF cached = None THEN "render" ELSE "draw", !.honor = honor,
                                   !.slot = slot, !.read = read, !.page = cached]
<1>1. Become(r, c) /\ UNCHANGED <<output, stale, edition, slot, read, cached, image, refreshes>>
  BY DEF Start
<1>2. /\ c \in RenderRecords /\ c.slot = slot /\ c.read = read /\ c.page = cached
      /\ c.pc = IF cached = None THEN "render" ELSE "draw"
  BY IdleTypes DEF RenderRecords, IInv, TypeOK
<1> HIDE DEF c
<1>3. render' \in [Renders -> RenderRecords'] /\ \A q \in Renders : render'[q] = c
  BY <1>1, <1>2, Becomes
<1>4. TypeOK'
  BY <1>1, <1>3 DEF IInv, TypeOK, Slots, Pages
<1>5. WorksOnRows' /\ RendersAnew'
  BY <1>1, <1>2, <1>3 DEF WorksOnRows, RendersAnew, At
<1>6. cached # None => /\ IsWhole(cached) /\ HasMarkup(cached, Slots(edition))
                       /\ read => HasSignal(cached, Slots(edition))
  BY DEF IInv, TypeOK, Pages, SignalsAreOfCached, IsWhole, HasMarkup, HasSignal
<1>7. DrawsCached'
  BY <1>1, <1>2, <1>3, <1>6 DEF DrawsCached, At, IsWhole, HasMarkup, HasSignal, Slots, Signal
<1>8. (LiveIsLive /\ SignalsAreOfCached /\ NothingSignalledIsShown)'
  BY <1>1 DEF IInv, LiveIsLive, SignalsAreOfCached, NothingSignalledIsShown, Slots
<1> QED BY <1>4, <1>5, <1>7, <1>8 DEF IInv

LEMMA RenderSlotsKeeps ==
  ASSUME IInv, OneRender, NEW r \in Renders, RenderSlots(r)
  PROVE  IInv'
<1> DEFINE page == [s \in DOMAIN render[r].slot |-> output[s[2]]]
           c == [render[r] EXCEPT !.pc = "keep", !.page = page, !.todo = DOMAIN render[r].slot]
<1>1. /\ Become(r, c) /\ UNCHANGED <<output, stale, edition, slot, read, cached, image, refreshes>>
      /\ At(r, "render") /\ ~At(r, "idle")
  BY DEF RenderSlots, At
<1>2. page \in [Slots(edition) -> Drawable] /\ DOMAIN render[r].slot = Slots(edition)
  BY <1>1, Types, SlotTypes
<1> HIDE DEF page
<1>3. /\ c \in RenderRecords /\ c.slot = slot /\ c.read = read /\ c.page = page
      /\ c.pc = "keep" /\ c.todo = Slots(edition)
  BY <1>1, <1>2, Types DEF RenderRecords, Pages, IInv, WorksOnRows
<1> HIDE DEF c
<1>4. render' \in [Renders -> RenderRecords'] /\ \A q \in Renders : render'[q] = c
  BY <1>1, <1>3, Becomes
<1>5. TypeOK'
  BY <1>1, <1>4 DEF IInv, TypeOK, Slots, Pages
<1>6. cached = None
  BY <1>1 DEF IInv, RendersAnew
<1>7. (WorksOnRows /\ RendersAnew /\ DrawsCached)'
  BY <1>1, <1>2, <1>3, <1>4, <1>6 DEF WorksOnRows, RendersAnew, DrawsCached, At, IsWhole, HasMarkup, Slots
<1>8. (LiveIsLive /\ SignalsAreOfCached /\ NothingSignalledIsShown)'
  BY <1>1 DEF IInv, LiveIsLive, SignalsAreOfCached, NothingSignalledIsShown, Slots
<1> QED BY <1>5, <1>7, <1>8 DEF IInv

LEMMA KeepMarkupKeeps ==
  ASSUME IInv, OneRender, NEW r \in Renders, NEW s \in render[r].todo, KeepMarkup(r, s)
  PROVE  IInv'
<1> DEFINE new == [slot[s] EXCEPT !.markup = render[r].page[s], !.signal = "none"]
           c == [render[r] EXCEPT !.slot[s] = new, !.todo = @ \ {s}]
<1>1. At(r, "keep") /\ ~At(r, "idle") /\ UNCHANGED <<output, stale, edition, read, cached, image, refreshes>>
  BY DEF KeepMarkup, At
<1>2. /\ render[r] \in RenderRecords /\ render[r].slot = slot /\ render[r].read = read
      /\ slot \in [Slots(edition) -> Rows] /\ s \in Slots(edition)
  BY <1>1, Types DEF RenderRecords, IInv, WorksOnRows
<1>3. Become(r, c) /\ slot' = [slot EXCEPT ![s] = new]
  BY <1>2 DEF KeepMarkup, Stored
<1>4. IsWhole(render[r].page) /\ HasMarkup(render[r].page, Slots(edition) \ render[r].todo) /\ cached = None
  BY <1>1 DEF IInv, RendersAnew
<1>5. new \in Rows /\ new.markup = render[r].page[s] /\ new.live = slot[s].live
  BY <1>2, <1>4 DEF Rows, IsWhole
<1> HIDE DEF new
<1>6. slot' \in [Slots(edition) -> Rows] /\ \A t \in Slots(edition) : slot'[t] = IF t = s THEN new ELSE slot[t]
  BY <1>2, <1>3, <1>5
<1>7. /\ c \in RenderRecords /\ c.slot = slot' /\ c.read = read /\ c.page = render[r].page
      /\ c.pc = "keep" /\ c.todo = render[r].todo \ {s}
  BY <1>1, <1>2, <1>3, <1>6 DEF RenderRecords, At
<1> HIDE DEF c
<1>8. render' \in [Renders -> RenderRecords'] /\ \A q \in Renders : render'[q] = c
  BY <1>1, <1>3, <1>7, Becomes
<1>9. TypeOK'
  BY <1>1, <1>6, <1>8 DEF IInv, TypeOK, Slots, Pages
<1>10. (WorksOnRows /\ DrawsCached)'
  BY <1>1, <1>7, <1>8 DEF WorksOnRows, DrawsCached, At
<1>13. \A t \in Slots(edition) \ c.todo : slot'[t].markup = c.page[t]
  BY <1>4, <1>5, <1>6, <1>7 DEF HasMarkup
<1>14. RendersAnew'
  <2>1. cached' = None
    BY <1>1, <1>4
  <2>2. \A q \in Renders : At(q, "keep")' /\ render'[q].page = c.page /\ render'[q].todo = c.todo
    BY <1>7, <1>8 DEF At
  <2>3. \A q \in Renders : ~At(q, "cache")'
    BY <1>7, <1>8 DEF At
  <2>4. Slots(edition)' = Slots(edition)
    BY <1>1 DEF Slots
  <2>5. \A q \in Renders : IsWhole(render[q].page)' /\ HasMarkup(render[q].page, Slots(edition) \ render[q].todo)'
    BY <1>4, <1>7, <1>13, <2>2, <2>4 DEF IsWhole, HasMarkup
  <2> QED BY <2>1, <2>3, <2>5 DEF RendersAnew
<1>11. LiveIsLive'
  BY <1>1, <1>5, <1>6 DEF IInv, LiveIsLive, Slots, Signal
<1>12. (SignalsAreOfCached /\ NothingSignalledIsShown)'
  BY <1>1, <1>4 DEF IInv, SignalsAreOfCached, NothingSignalledIsShown
<1> QED BY <1>9, <1>10, <1>11, <1>12, <1>14 DEF IInv

LEMMA ForgetSignalsKeeps ==
  ASSUME IInv, OneRender, NEW r \in Renders, ForgetSignals(r)
  PROVE  IInv'
<1> DEFINE c == [render[r] EXCEPT !.pc = "cache", !.read = FALSE]
<1>1. /\ Become(r, c) /\ read' = FALSE /\ UNCHANGED <<output, stale, edition, slot, cached, image, refreshes>>
      /\ At(r, "keep") /\ ~At(r, "idle") /\ render[r].todo = {}
  BY DEF ForgetSignals, Unread, At
<1>2. /\ c \in RenderRecords /\ c.slot = slot /\ c.read = FALSE /\ c.page = render[r].page /\ c.pc = "cache"
  BY <1>1, Types DEF RenderRecords
<1>3. IsWhole(render[r].page) /\ HasMarkup(render[r].page, Slots(edition)) /\ cached = None
  BY <1>1 DEF IInv, RendersAnew, HasMarkup
<1> HIDE DEF c
<1>4. render' \in [Renders -> RenderRecords'] /\ \A q \in Renders : render'[q] = c
  BY <1>1, <1>2, Becomes
<1>5. TypeOK'
  BY <1>1, <1>4 DEF IInv, TypeOK, Slots, Pages
<1>6. (WorksOnRows /\ RendersAnew /\ DrawsCached)'
  BY ZenonT(40), <1>1, <1>2, <1>3, <1>4 DEF WorksOnRows, RendersAnew, DrawsCached, At, IsWhole, HasMarkup, Slots
<1>7. (LiveIsLive /\ SignalsAreOfCached /\ NothingSignalledIsShown)'
  BY <1>1, <1>3 DEF IInv, LiveIsLive, SignalsAreOfCached, NothingSignalledIsShown, Slots
<1> QED BY <1>5, <1>6, <1>7 DEF IInv

\* The render goes on, with the page and the rows it has.
LEMMA GoesOn ==
  ASSUME IInv, OneRender, NEW r \in Renders, NEW c \in RenderRecords, Become(r, c),
         UNCHANGED <<output, stale, edition, slot, refreshes>>,
         read' \in BOOLEAN, cached' \in {None, c.page}, NothingSignalledIsShown',
         c.slot = slot, c.read = read', c.page = render[r].page,
         At(r, "cache") \/ At(r, "draw") \/ At(r, "read") \/ At(r, "decide") \/ At(r, "drawn"),
         c.pc \in {"draw", "read", "decide", "drawn"},
         read' => HasSignal(c.page, Slots(edition)),
         c.pc = "read" => ~read' /\ HasSignal(c.page, Slots(edition) \ c.todo),
         c.pc = "decide" => read', c.pc = "drawn" => Live(c.page)
  PROVE  IInv'
<1>1. render' \in [Renders -> RenderRecords'] /\ \A q \in Renders : render'[q] = c
  BY Becomes
<1>2. IsWhole(c.page) /\ HasMarkup(c.page, Slots(edition))
  BY DEF IInv, DrawsCached
<1>3. cached' \in Pages
  BY <1>2 DEF IsWhole, Pages
<1>4. TypeOK'
  BY <1>1, <1>3 DEF IInv, TypeOK, Slots, Pages
<1>5. (WorksOnRows /\ RendersAnew)'
  BY <1>1 DEF WorksOnRows, RendersAnew, At
<1>6. DrawsCached'
  BY <1>1, <1>2 DEF DrawsCached, At, IsWhole, HasMarkup, HasSignal, Slots, Signal, Live
<1>7. SignalsAreOfCached'
  BY <1>2 DEF SignalsAreOfCached, IsWhole, HasMarkup, HasSignal, Signal, IInv, TypeOK
<1>8. LiveIsLive'
  BY DEF IInv, LiveIsLive, Slots
<1> QED BY <1>4, <1>5, <1>6, <1>7, <1>8 DEF IInv

LEMMA CacheKeeps ==
  ASSUME IInv, OneRender, NEW r \in Renders, Cache(r)
  PROVE  IInv'
<1> DEFINE c == [render[r] EXCEPT !.pc = "draw"]
<1>1. /\ Become(r, c) /\ cached' = render[r].page /\ UNCHANGED <<output, stale, edition, slot, read, image, refreshes>>
      /\ At(r, "cache") /\ ~At(r, "idle")
  BY DEF Cache, At
<1>2. c \in RenderRecords /\ c.slot = slot /\ c.read = read /\ c.page = render[r].page /\ c.pc = "draw"
  BY <1>1, Types DEF RenderRecords, IInv, WorksOnRows
<1>3. ~read /\ read \in BOOLEAN /\ NothingSignalledIsShown'
  BY <1>1 DEF IInv, TypeOK, RendersAnew, NothingSignalledIsShown
<1> HIDE DEF c
<1> QED BY <1>1, <1>2, <1>3, GoesOn

LEMMA DrawPageKeeps ==
  ASSUME IInv, OneRender, NEW r \in Renders, DrawPage(r)
  PROVE  IInv'
<1>1. /\ At(r, "draw") /\ ~At(r, "idle") /\ ~render[r].read
      /\ UNCHANGED <<output, stale, edition, slot, read, cached, refreshes>>
  BY DEF DrawPage, At
<1>2. /\ render[r] \in RenderRecords /\ render[r].slot = slot /\ render[r].read = read /\ ~read /\ read \in BOOLEAN
      /\ cached \in {None, render[r].page} /\ DOMAIN slot = Slots(edition)
  BY <1>1, Types DEF IInv, TypeOK, WorksOnRows, DrawsCached
<1>3. CASE Live(render[r].page)
  <2> DEFINE c == [render[r] EXCEPT !.pc = "drawn"]
  <2>1. Become(r, c) /\ image' = render[r].page
    BY <1>3 DEF DrawPage
  <2>2. c \in RenderRecords /\ c.slot = slot /\ c.read = read /\ c.page = render[r].page /\ c.pc = "drawn"
    BY <1>2 DEF RenderRecords
  <2>3. NothingSignalledIsShown'
    BY <1>3, <2>1 DEF NothingSignalledIsShown, Live, Signal
  <2> HIDE DEF c
  <2> QED BY <1>1, <1>2, <1>3, <2>1, <2>2, <2>3, GoesOn
<1>4. CASE ~Live(render[r].page)
  <2> DEFINE c == [render[r] EXCEPT !.pc = "read", !.todo = DOMAIN render[r].slot]
  <2>1. Become(r, c) /\ image' = image
    BY <1>4 DEF DrawPage
  <2>2. /\ c \in RenderRecords /\ c.slot = slot /\ c.read = read /\ c.page = render[r].page /\ c.pc = "read"
        /\ c.todo = Slots(edition)
    BY <1>2 DEF RenderRecords
  <2>3. NothingSignalledIsShown'
    BY <2>1 DEF IInv, NothingSignalledIsShown
  <2>4. HasSignal(c.page, Slots(edition) \ c.todo)
    BY <2>2 DEF HasSignal
  <2> HIDE DEF c
  <2> QED BY <1>1, <1>2, <2>1, <2>2, <2>3, <2>4, GoesOn
<1> QED BY <1>3, <1>4

LEMMA KnowSignalsKeeps ==
  ASSUME IInv, OneRender, NEW r \in Renders, KnowSignals(r)
  PROVE  IInv'
<1> DEFINE c == [render[r] EXCEPT !.pc = "decide"]
<1>1. /\ Become(r, c) /\ UNCHANGED <<output, stale, edition, slot, read, cached, image, refreshes>>
      /\ At(r, "draw") /\ ~At(r, "idle") /\ render[r].read
  BY DEF KnowSignals, At
<1>2. /\ c \in RenderRecords /\ c.slot = slot /\ c.read = read /\ c.page = render[r].page /\ c.pc = "decide"
      /\ read /\ read \in BOOLEAN
  BY <1>1, Types DEF RenderRecords, IInv, TypeOK, WorksOnRows
<1>3. HasSignal(c.page, Slots(edition)) /\ cached \in {None, c.page}
  BY <1>1, <1>2 DEF IInv, DrawsCached
<1>4. NothingSignalledIsShown'
  BY <1>1 DEF IInv, NothingSignalledIsShown
<1> HIDE DEF c
<1> QED BY <1>1, <1>2, <1>3, <1>4, GoesOn

LEMMA AllReadKeeps ==
  ASSUME IInv, OneRender, NEW r \in Renders, AllRead(r)
  PROVE  IInv'
<1> DEFINE c == [render[r] EXCEPT !.pc = "decide", !.read = TRUE]
<1>1. /\ Become(r, c) /\ read' = TRUE /\ UNCHANGED <<output, stale, edition, slot, cached, image, refreshes>>
      /\ At(r, "read") /\ ~At(r, "idle") /\ render[r].todo = {}
  BY DEF AllRead, At
<1>2. c \in RenderRecords /\ c.slot = slot /\ c.read = TRUE /\ c.page = render[r].page /\ c.pc = "decide"
  BY <1>1, Types DEF RenderRecords
<1>3. HasSignal(c.page, Slots(edition)) /\ cached \in {None, c.page}
  BY <1>1, <1>2 DEF IInv, DrawsCached, HasSignal
<1>4. NothingSignalledIsShown'
  BY <1>1 DEF IInv, NothingSignalledIsShown
<1> HIDE DEF c
<1> QED BY <1>1, <1>2, <1>3, <1>4, GoesOn

LEMMA ReadSignalKeeps ==
  ASSUME IInv, OneRender, NEW r \in Renders, NEW s \in render[r].todo, ReadSignal(r, s)
  PROVE  IInv'
<1> DEFINE signal == Signal(slot[s].markup)
           new == [slot[s] EXCEPT !.signal = signal]
           c == [render[r] EXCEPT !.slot[s].signal = signal, !.todo = @ \ {s}]
           page == render[r].page
<1>1. At(r, "read") /\ ~At(r, "idle") /\ UNCHANGED <<output, stale, edition, read, cached, image, refreshes>>
  BY DEF ReadSignal, At
<1>2. /\ render[r] \in RenderRecords /\ render[r].slot = slot /\ render[r].read = read
      /\ slot \in [Slots(edition) -> Rows] /\ s \in Slots(edition)
  BY <1>1, Types DEF RenderRecords, IInv, WorksOnRows
<1>3. Become(r, c) /\ slot' = [slot EXCEPT ![s] = new]
  BY <1>2 DEF ReadSignal, Stored
<1>4. /\ IsWhole(page) /\ HasMarkup(page, Slots(edition)) /\ cached \in {None, page}
      /\ ~read /\ HasSignal(page, Slots(edition) \ render[r].todo)
  BY <1>1 DEF IInv, DrawsCached
<1>5. new \in Rows /\ new.markup = slot[s].markup /\ new.live = slot[s].live /\ new.signal = Signal(page[s])
  <2>1. slot[s] \in Rows /\ slot[s].markup \in Drawable /\ slot[s].markup = page[s]
    BY <1>2, <1>4 DEF Rows, HasMarkup
  <2>2. signal \in {"none", "skip", "hold"}
    BY <2>1 DEF Signal, Drawable, OneRender, MashupRenderAssumptions
  <2> HIDE DEF signal
  <2>3. new \in Rows /\ new.markup = slot[s].markup /\ new.live = slot[s].live /\ new.signal = signal
    BY <2>1, <2>2 DEF Rows
  <2> QED BY <2>1, <2>3 DEF signal
<1>6. c.slot = [slot EXCEPT ![s] = new]
  BY <1>2 DEF RenderRecords
<1> HIDE DEF new
<1>7. slot' \in [Slots(edition) -> Rows] /\ \A t \in Slots(edition) : slot'[t] = IF t = s THEN new ELSE slot[t]
  BY <1>2, <1>3, <1>5
<1>8. /\ c \in RenderRecords /\ c.slot = slot' /\ c.read = read /\ c.page = page
      /\ c.pc = "read" /\ c.todo = render[r].todo \ {s}
  <2>1. c = [render[r] EXCEPT !.slot = slot', !.todo = @ \ {s}]
    BY <1>2, <1>3, <1>6 DEF RenderRecords
  <2> HIDE DEF c
  <2> QED BY <1>1, <1>2, <1>7, <2>1 DEF RenderRecords, At
<1> HIDE DEF c, signal
<1>9. render' \in [Renders -> RenderRecords'] /\ \A q \in Renders : render'[q] = c
  BY <1>1, <1>3, <1>8, Becomes
<1>10. TypeOK'
  BY <1>1, <1>7, <1>9 DEF IInv, TypeOK, Slots, Pages
<1>11. (WorksOnRows /\ RendersAnew)'
  BY <1>1, <1>8, <1>9 DEF WorksOnRows, RendersAnew, At
<1>12. /\ \A t \in Slots(edition) : slot'[t].markup = page[t]
       /\ \A t \in Slots(edition) \ c.todo : slot'[t].signal = Signal(page[t])
  BY <1>4, <1>5, <1>7, <1>8 DEF HasMarkup, HasSignal
<1>13. DrawsCached'
  <2>1. \A q \in Renders : At(q, "read")' /\ render'[q].page = page /\ render'[q].todo = c.todo
    BY <1>8, <1>9 DEF At
  <2>2. \A q \in Renders : ~At(q, "decide")' /\ ~At(q, "drawn")' /\ ~At(q, "redraw")'
    BY <1>8, <1>9 DEF At
  <2>3. Slots(edition)' = Slots(edition)
    BY <1>1 DEF Slots
  <2> HIDE DEF page
  <2>4. \A q \in Renders : /\ IsWhole(render[q].page)' /\ HasMarkup(render[q].page, Slots(edition))'
                           /\ HasSignal(render[q].page, Slots(edition) \ render[q].todo)'
    BY <1>4, <1>12, <2>1, <2>3 DEF IsWhole, HasMarkup, HasSignal, Signal
  <2>5. cached' \in {None, page} /\ ~read'
    BY <1>1, <1>4
  <2> QED BY <2>1, <2>2, <2>4, <2>5 DEF DrawsCached
<1>14. LiveIsLive'
  BY <1>1, <1>5, <1>7 DEF IInv, LiveIsLive, Slots, Signal
<1>15. SignalsAreOfCached'
  BY <1>1, <1>4, <1>7, <1>12 DEF SignalsAreOfCached, IsWhole
<1>16. NothingSignalledIsShown'
  BY <1>1 DEF IInv, NothingSignalledIsShown
<1> QED BY <1>10, <1>11, <1>13, <1>14, <1>15, <1>16 DEF IInv

\* A slot that draws live is kept to have drawn what it raises no signal with.
LEMMA RecordKeeps ==
  ASSUME IInv, OneRender, NEW r \in Renders, NEW s \in DOMAIN render[r].slot, Record(r, s)
  PROVE  IInv'
<1> DEFINE new == [slot[s] EXCEPT !.live = slot[s].markup]
           c == [render[r] EXCEPT !.slot[s].live = slot[s].markup]
           page == render[r].page
<1>1. /\ ~At(r, "idle") /\ UNCHANGED <<output, stale, edition, read, cached, image, refreshes>>
      /\ At(r, "drawn") \/ At(r, "redraw")
  BY DEF Record, At
<1>2. /\ render[r] \in RenderRecords /\ render[r].slot = slot /\ render[r].read = read
      /\ slot \in [Slots(edition) -> Rows] /\ DOMAIN slot = Slots(edition) /\ s \in Slots(edition)
  BY <1>1, Types DEF IInv, WorksOnRows
<1>3. Become(r, c) /\ slot' = [slot EXCEPT ![s] = new] /\ slot[s].signal = "none"
  BY <1>2 DEF Record, Stored, DrawsLive
<1>4. /\ IsWhole(page) /\ HasMarkup(page, Slots(edition)) /\ cached \in {None, page}
      /\ read => HasSignal(page, Slots(edition))
      /\ At(r, "redraw") => read /\ ~(Silent(r) /\ render[r].honor)
      /\ At(r, "drawn") => Live(page)
  BY <1>1 DEF IInv, DrawsCached
<1>5. /\ new \in Rows /\ new.markup = slot[s].markup /\ new.signal = slot[s].signal
      /\ new.live = slot[s].markup
  <2>1. slot[s] \in Rows /\ slot[s].markup \in Drawable
    BY <1>2 DEF Rows
  <2> QED BY <2>1 DEF Rows
<1>6. c.slot = [slot EXCEPT ![s] = new]
  BY <1>2 DEF RenderRecords
<1> HIDE DEF new
<1>7. slot' \in [Slots(edition) -> Rows] /\ \A t \in Slots(edition) : slot'[t] = IF t = s THEN new ELSE slot[t]
  BY <1>2, <1>3, <1>5
<1>8. /\ c \in RenderRecords /\ c.slot = slot' /\ c.read = read /\ c.page = page
      /\ c.pc = render[r].pc /\ c.honor = render[r].honor
  <2>1. c = [render[r] EXCEPT !.slot = slot']
    BY <1>2, <1>3, <1>6 DEF RenderRecords
  <2> HIDE DEF c
  <2> QED BY <1>2, <1>7, <2>1 DEF RenderRecords
<1> HIDE DEF c
<1>9. render' \in [Renders -> RenderRecords'] /\ \A q \in Renders : render'[q] = c /\ q = r
  BY <1>1, <1>3, <1>8, Becomes DEF OneRender
<1>10. TypeOK'
  BY <1>1, <1>7, <1>9 DEF IInv, TypeOK, Slots, Pages
<1>11. (WorksOnRows /\ RendersAnew)'
  BY <1>1, <1>8, <1>9 DEF WorksOnRows, RendersAnew, At
<1>12. \A t \in Slots(edition) : slot'[t].markup = slot[t].markup /\ slot'[t].signal = slot[t].signal
  BY <1>5, <1>7
<1>13. DrawsCached'
  <2>1. \A q \in Renders : /\ render'[q].page = page /\ (At(q, "drawn")' => At(r, "drawn"))
                           /\ (At(q, "redraw")' => At(r, "redraw")) /\ ~At(q, "read")' /\ ~At(q, "decide")'
    BY <1>1, <1>8, <1>9 DEF At
  <2>2. Slots(edition)' = Slots(edition)
    BY <1>1 DEF Slots
  <2>3. \A q \in Renders : (Silent(q)' => Silent(r)) /\ render'[q].honor = render[r].honor
    BY <1>2, <1>7, <1>8, <1>9, <1>12 DEF Silent
  <2>4. \A q \in Renders : At(q, "redraw")' => read /\ ~(Silent(q) /\ render[q].honor)'
    BY <1>4, <2>1, <2>3
  <2> HIDE DEF page
  <2>5. \A q \in Renders : /\ IsWhole(render[q].page)' /\ HasMarkup(render[q].page, Slots(edition))'
                           /\ read => HasSignal(render[q].page, Slots(edition))'
    BY <1>4, <1>12, <2>1, <2>2 DEF IsWhole, HasMarkup, HasSignal, Signal
  <2>6. \A q \in Renders : At(q, "drawn")' => Live(render[q].page)'
    BY <1>4, <2>1 DEF Live, Signal
  <2>7. cached' \in {None, page} /\ read' = read
    BY <1>1, <1>4
  <2>8. ASSUME NEW q \in Renders
        PROVE  /\ IsWhole(render[q].page)' /\ HasMarkup(render[q].page, Slots(edition))'
               /\ (cached = None \/ cached = render[q].page)'
               /\ (read => HasSignal(render[q].page, Slots(edition)))'
    BY <2>1, <2>5, <2>7
  <2>9. ASSUME NEW q \in Renders
        PROVE  ~At(q, "read")' /\ (At(q, "decide") \/ At(q, "redraw") => read)'
               /\ (At(q, "drawn") => Live(render[q].page))'
               /\ (At(q, "redraw") => ~(Silent(q) /\ render[q].honor))'
    BY Zenon, <2>1, <2>4, <2>6, <2>7
  <2> QED BY Zenon, <2>8, <2>9 DEF DrawsCached
<1>14. Signal(slot[s].markup) = "none"
  <2>1. CASE At(r, "redraw")
    BY <1>2, <1>3, <1>4, <2>1 DEF HasSignal, HasMarkup
  <2>2. CASE At(r, "drawn")
    BY <1>2, <1>4, <2>2 DEF HasMarkup, Live, IsWhole
  <2> QED BY <1>1, <2>1, <2>2
<1>15. LiveIsLive'
  <2>1. \A t \in Slots(edition) : Signal(slot'[t].live) = "none"
    BY <1>5, <1>7, <1>14 DEF IInv, LiveIsLive
  <2> QED BY <1>1, <2>1 DEF LiveIsLive, Slots, Signal
<1>16. (SignalsAreOfCached /\ NothingSignalledIsShown)'
  <2>1. DOMAIN slot' = DOMAIN slot
    BY <1>2, <1>7
  <2> QED BY <1>1, <1>2, <1>12, <2>1 DEF IInv, SignalsAreOfCached, NothingSignalledIsShown, Signal
<1> QED BY <1>10, <1>11, <1>13, <1>15, <1>16 DEF IInv

\* One that is to be drawn by slots has its signals read, and not all of them signal
\* when it honours them.
LEMMA DrawAnywayKeeps ==
  ASSUME IInv, OneRender, NEW r \in Renders, DrawAnyway(r)
  PROVE  IInv'
<1> DEFINE c == [render[r] EXCEPT !.pc = "redraw"]
           page == render[r].page
<1>1. /\ Become(r, c) /\ UNCHANGED <<output, stale, edition, slot, read, cached, image, refreshes>>
      /\ At(r, "decide") /\ ~At(r, "idle") /\ ~(Silent(r) /\ render[r].honor)
  BY DEF DrawAnyway, At
<1>2. /\ c \in RenderRecords /\ c.slot = slot /\ c.read = read /\ c.page = page /\ c.pc = "redraw"
      /\ c.slot = render[r].slot /\ c.honor = render[r].honor
  BY <1>1, Types DEF RenderRecords, IInv, WorksOnRows
<1> HIDE DEF c
<1>3. render' \in [Renders -> RenderRecords'] /\ \A q \in Renders : render'[q] = c
  BY <1>1, <1>2, Becomes
<1>4. TypeOK'
  BY <1>1, <1>3 DEF IInv, TypeOK, Slots, Pages
<1>5. (WorksOnRows /\ RendersAnew)'
  BY <1>1, <1>2, <1>3 DEF WorksOnRows, RendersAnew, At
<1>6. IsWhole(page) /\ HasMarkup(page, Slots(edition)) /\ cached \in {None, page} /\ read /\ HasSignal(page, Slots(edition))
  BY <1>1 DEF IInv, DrawsCached
<1>7. DrawsCached'
  <2>1. \A q \in Renders : /\ ~At(q, "read")' /\ ~At(q, "drawn")' /\ At(q, "redraw")' /\ render'[q].page = page
                           /\ ~(Silent(q) /\ render[q].honor)'
    BY <1>1, <1>2, <1>3 DEF At, Silent
  <2>2. Slots(edition)' = Slots(edition)
    BY <1>1 DEF Slots
  <2> HIDE DEF page
  <2>3. \A q \in Renders : /\ IsWhole(render[q].page)' /\ HasMarkup(render[q].page, Slots(edition))'
                           /\ HasSignal(render[q].page, Slots(edition))'
    BY <1>1, <1>6, <2>1, <2>2 DEF IsWhole, HasMarkup, HasSignal, Signal
  <2>4. cached' \in {None, page} /\ read'
    BY <1>1, <1>6
  <2> QED BY <2>1, <2>3, <2>4 DEF DrawsCached
<1>8. (LiveIsLive /\ SignalsAreOfCached /\ NothingSignalledIsShown)'
  BY <1>1 DEF IInv, LiveIsLive, SignalsAreOfCached, NothingSignalledIsShown, Slots, Signal
<1> QED BY <1>4, <1>5, <1>7, <1>8 DEF IInv

LEMMA DrawSlotsKeeps ==
  ASSUME IInv, OneRender, NEW r \in Renders, DrawSlots(r)
  PROVE  IInv'
<1>1. /\ At(r, "redraw") /\ ~At(r, "idle") /\ End(r)
      /\ image' = [s \in DOMAIN render[r].slot |-> Drawing(render[r].slot[s])]
      /\ UNCHANGED <<output, stale, edition, slot, read, cached, refreshes>>
  BY DEF DrawSlots, At
<1>2. render[r].slot = slot /\ DOMAIN slot = Slots(edition) /\ \A s \in Slots(edition) : slot[s] \in Rows
  BY <1>1, Types
<1>3. \A s \in Slots(edition) : slot[s].signal = Signal(slot[s].markup) /\ Signal(slot[s].live) = "none"
  BY <1>1 DEF IInv, DrawsCached, LiveIsLive, HasMarkup, HasSignal
<1>4. \A s \in Slots(edition) : Signal(Drawing(slot[s])) = "none"
  <2> SUFFICES ASSUME NEW s \in Slots(edition) PROVE Signal(Drawing(slot[s])) = "none"
    OBVIOUS
  <2>1. CASE slot[s].signal = "skip"
    BY <2>1 DEF Drawing, Signal
  <2>2. CASE slot[s].signal = "hold"
    BY <1>3, <2>2 DEF Drawing
  <2>3. CASE slot[s].signal = "none"
    BY <1>3, <2>3 DEF Drawing
  <2> QED BY <1>2, <2>1, <2>2, <2>3 DEF Rows
<1>5. NothingSignalledIsShown'
  <2>1. \A s \in DOMAIN image' : s \in Slots(edition) /\ image'[s] = Drawing(slot[s])
    BY <1>1, <1>2
  <2> QED BY <1>4, <2>1 DEF NothingSignalledIsShown, Signal
<1> QED BY <1>1, <1>5, EndKeeps

LEMMA EndingsKeep ==
  ASSUME IInv, OneRender, NEW r \in Renders, SkipOrHold(r) \/ Return(r) \/ Fail(r)
  PROVE  IInv'
<1>1. End(r) /\ UNCHANGED <<output, stale, edition, slot, read, cached, image, refreshes>>
  BY DEF SkipOrHold, Return, Fail
<1>2. NothingSignalledIsShown'
  BY <1>1 DEF IInv, NothingSignalledIsShown
<1> QED BY <1>1, <1>2, EndKeeps

\* A refresh leaves the rows alone, and then takes what is cached.
LEMMA RefreshesKeep ==
  ASSUME IInv, OneRender,
         UNCHANGED vars \/ \E p \in Plugins : Refresh(p) \/ Invalidate(p)
  PROVE  IInv'
<1>1. /\ UNCHANGED <<edition, slot, read, image, render>>
      /\ cached' = cached \/ cached' = None
  BY DEF Refresh, Invalidate, vars
<1>2. output' \in [Plugins -> Drawable] /\ stale' \subseteq Plugins /\ refreshes' \in 0..MaxRefreshes
  <2>1. output \in [Plugins -> Drawable] /\ stale \subseteq Plugins /\ refreshes \in 0..MaxRefreshes /\ MaxRefreshes \in Nat
    BY DEF IInv, TypeOK, OneRender, MashupRenderAssumptions
  <2>2. CASE UNCHANGED vars
    BY <2>1, <2>2 DEF vars
  <2>3. ASSUME NEW p \in Plugins, Refresh(p)
        PROVE  output' \in [Plugins -> Drawable] /\ stale' \subseteq Plugins /\ refreshes' \in 0..MaxRefreshes
    BY <2>1, <2>3 DEF Refresh, Drawable
  <2>4. ASSUME NEW p \in Plugins, Invalidate(p)
        PROVE  output' \in [Plugins -> Drawable] /\ stale' \subseteq Plugins /\ refreshes' \in 0..MaxRefreshes
    BY <2>1, <2>4 DEF Invalidate
  <2> QED BY <2>2, <2>3, <2>4
<1>7. Slots(edition)' = Slots(edition) /\ Pages' = Pages /\ RenderRecords' = RenderRecords
  BY <1>1 DEF RenderRecords, Pages, Slots
<1>8. cached' \in Pages
  BY <1>1 DEF IInv, TypeOK, Pages
<1>3. TypeOK'
  BY <1>1, <1>2, <1>7, <1>8 DEF IInv, TypeOK
<1>4. (WorksOnRows /\ RendersAnew)'
  BY <1>1 DEF IInv, WorksOnRows, RendersAnew, At, IsWhole, HasMarkup, Slots
<1>5. DrawsCached'
  <2>2. \A r \in Renders : \A pc : At(r, pc)' <=> At(r, pc)
    BY <1>1 DEF At
  <2>3. \A r \in Renders : /\ IsWhole(render[r].page)' <=> IsWhole(render[r].page)
                           /\ HasMarkup(render[r].page, Slots(edition))' <=> HasMarkup(render[r].page, Slots(edition))
                           /\ HasSignal(render[r].page, Slots(edition))' <=> HasSignal(render[r].page, Slots(edition))
                           /\ HasSignal(render[r].page, Slots(edition) \ render[r].todo)'
                                 <=> HasSignal(render[r].page, Slots(edition) \ render[r].todo)
                           /\ Live(render[r].page)' <=> Live(render[r].page)
                           /\ Silent(r)' <=> Silent(r)
    BY <1>1, <1>7 DEF IsWhole, HasMarkup, HasSignal, Signal, Live, Silent
  <2> QED BY <1>1, <2>2, <2>3 DEF IInv, DrawsCached
<1>6. (LiveIsLive /\ SignalsAreOfCached /\ NothingSignalledIsShown)'
  BY <1>1 DEF IInv, LiveIsLive, SignalsAreOfCached, NothingSignalledIsShown, Signal, Slots
<1> QED BY <1>3, <1>4, <1>5, <1>6 DEF IInv

LEMMA UpdateKeeps ==
  ASSUME IInv, OneRender, Update
  PROVE  IInv'
<1>1. /\ edition \in 1..(MaxUpdates + 1) /\ edition <= MaxUpdates /\ edition' = edition + 1
      /\ \A r \in Renders : At(r, "idle")
      /\ slot' = [s \in Slots(edition') |-> NewSlot] /\ cached' = None
      /\ UNCHANGED <<output, stale, read, image, render, refreshes>>
  BY DEF Update, OneRender, IInv, TypeOK
<1>2. NewSlot \in Rows /\ NewSlot.live = NoMarkup
  BY DEF NewSlot, Rows, Drawable
<1>3. slot' \in [Slots(edition') -> Rows] /\ \A s \in Slots(edition') : slot'[s].live = NoMarkup
  BY <1>1, <1>2
<1>4. edition' \in 1..(MaxUpdates + 1)
  BY <1>1 DEF OneRender, MashupRenderAssumptions

\* every render rests, and has no rows of the edition before
<1>5. \A r \in Renders : render[r] = IdleRender
  BY <1>1 DEF IInv, WorksOnRows
<1>6. render' \in [Renders -> RenderRecords']
  <2>1. IdleRender \in RenderRecords'
    BY DEF IdleRender, RenderRecords, Pages
  <2> QED BY <1>1, <1>5, <2>1 DEF IInv, TypeOK
<1>7. TypeOK'
  BY <1>1, <1>3, <1>4, <1>6 DEF IInv, TypeOK, Pages
<1>8. (WorksOnRows /\ RendersAnew /\ DrawsCached)'
  <2>1. \A r \in Renders : At(r, "idle")' /\ render'[r] = IdleRender
    BY <1>1, <1>5 DEF At
  <2> QED BY <2>1 DEF WorksOnRows, RendersAnew, DrawsCached, At
<1>9. (LiveIsLive /\ SignalsAreOfCached /\ NothingSignalledIsShown)'
  BY <1>1, <1>3 DEF IInv, LiveIsLive, SignalsAreOfCached, NothingSignalledIsShown, Slots, Signal
<1> QED BY <1>7, <1>8, <1>9 DEF IInv

-----------------------------------------------------------------------------
(* The theorems.                                                           *)

LEMMA StepKeeps == OneRender /\ IInv /\ [Next]_vars => IInv'
<1> SUFFICES ASSUME OneRender, IInv, [Next]_vars PROVE IInv'
  OBVIOUS
<1>1. ASSUME NEW r \in Renders, RenderStep(r) PROVE IInv'
  BY <1>1, StartKeeps, RenderSlotsKeeps, ForgetSignalsKeeps, CacheKeeps, DrawPageKeeps, KnowSignalsKeeps,
     KeepMarkupKeeps, ReadSignalKeeps, AllReadKeeps, EndingsKeep, DrawAnywayKeeps, RecordKeeps, DrawSlotsKeeps DEF RenderStep
<1> QED BY <1>1, RefreshesKeep, UpdateKeeps DEF Next

THEOREM Invariant == ASSUME OneRender PROVE Spec => []IInv
<1>1. Init => IInv
  BY InitHolds
<1>2. IInv /\ [Next]_vars => IInv'
  BY StepKeeps
<1> QED BY <1>1, <1>2, PTL DEF Spec

\* The rows and the render keep their shape.
THEOREM TypeCorrect == ASSUME OneRender PROVE Spec => []TypeOK
<1>1. IInv => TypeOK
  BY DEF IInv
<1> QED BY <1>1, Invariant, PTL

\* For any Plugins and markups, whatever fails at whichever await and however
\* often a Plugin refreshes: Render Signals that count as read are those of what
\* is cached.
THEOREM SignalsOfCached == ASSUME OneRender PROVE Spec => []SignalsAreOfCached
<1>1. IInv => SignalsAreOfCached
  BY DEF IInv
<1> QED BY <1>1, Invariant, PTL

\* No stored image has a slot in it that its Plugin asked not to be shown.
THEOREM NothingSignalled == ASSUME OneRender PROVE Spec => []NothingSignalledIsShown
<1>1. IInv => NothingSignalledIsShown
  BY DEF IInv
<1> QED BY <1>1, Invariant, PTL

\* Whatever was refreshed or failed before, a Mashup that honours Render Signals is
\* skipped or held only when every slot of the page it works on signals, and drawn
\* by slots only when one of them does not.
THEOREM SilentOnly == ASSUME OneRender PROVE Spec => SkipsOnlyInSilence
<1> DEFINE Skips(r) == LET page == render[r].page
                       IN /\ SkipOrHold(r) => \A s \in DOMAIN page : Signal(page[s]) # "none"
                          /\ DrawSlots(r) /\ render[r].honor => \E s \in DOMAIN page : Signal(page[s]) = "none"
<1>1. ASSUME IInv, NEW r \in Renders PROVE Skips(r)
  <2> DEFINE page == render[r].page
  <2>1. CASE At(r, "decide") \/ At(r, "redraw")
    <3>1. /\ render[r].slot = slot /\ DOMAIN slot = Slots(edition) /\ DOMAIN page = Slots(edition)
          /\ \A s \in Slots(edition) : slot[s].signal = Signal(page[s])
      BY <1>1, <2>1, Types DEF IInv, DrawsCached, At, IsWhole, HasSignal
    <3>2. At(r, "redraw") => ~(Silent(r) /\ render[r].honor)
      BY <1>1 DEF IInv, DrawsCached
    <3>3. SkipOrHold(r) => Silent(r)
      BY DEF SkipOrHold
    <3>4. DrawSlots(r) => At(r, "redraw")
      BY DEF DrawSlots
    <3> HIDE DEF page
    <3>5. Silent(r) <=> \A s \in DOMAIN page : Signal(page[s]) # "none"
      BY <3>1 DEF Silent
    <3> QED BY <3>2, <3>3, <3>4, <3>5 DEF page
  <2> QED BY <2>1 DEF SkipOrHold, DrawSlots
<1>2. IInv /\ [Next]_vars => [\A r \in Renders : Skips(r)]_vars
  BY <1>1
<1> QED BY <1>2, Invariant, PTL DEF Spec, SkipsOnlyInSilence
==============================================================================
