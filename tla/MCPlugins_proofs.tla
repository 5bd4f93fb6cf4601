--------------------------- MODULE MCPlugins_proofs ---------------------------
(***************************************************************************)
(* What the run of MCPlugins checks of small instances, for every one: the *)
(* Fetch Failure Streak and what an overtaken tick may write, with any     *)
(* number of Screens and ticks, and, by the proofs of MashupRender and     *)
(* RecipeUpdate, their properties as the run states them.                  *)
(***************************************************************************)
EXTENDS MCPlugins, TLAPS

MP == INSTANCE MashupRender_proofs
  WITH cached <- kept, Plugins <- MashupPlugins, NoMarkup <- Rest, Overlap <- Edited
RP == INSTANCE RecipeUpdate_proofs WITH Keys <- UpdateItems, None <- Rest

PluginsNext == RefreshMoves \/ MashupMoves \/ RecipeMoves

LEMMA RefreshMovesOnly == PluginsNext \/ UNCHANGED pluginsVars => [Next]_vars
BY DEF PluginsNext, RefreshMoves, MashupMoves, RecipeMoves, pluginsVars

-----------------------------------------------------------------------------
(* PluginRefresh.                                                          *)

TickRecords ==
  [pc: {"idle", "fetch", "outcome", "render", "write", "writing", "record"},
   timer: BOOLEAN, plugin: Plugins, failed: BOOLEAN, todo: SUBSET Screens]
RequestRecords == [pc: {"idle", "save", "invalidate", "reload", "schedule", "unschedule"}, plugin: Plugins]

RowTyped ==
  /\ saved \in Versions \cup {Deleted} /\ cached \in [Screens -> Versions \cup {None}]
  /\ streak \in Nat /\ inARow \in Nat /\ recorded \in Versions \cup {None}
InFlightTyped ==
  /\ tick \in [Ticks -> TickRecords] /\ request \in [Requests -> RequestRecords]
  /\ onDemand \in [Screens -> Versions \cup {None}]
ServerTyped ==
  /\ job \in Plugins /\ newest \in Ticks \cup {NoTick}
  /\ failures \in 0..MaxFailures /\ crashes \in 0..MaxCrashes

Typed == RowTyped /\ InFlightTyped /\ ServerTyped

LEMMA TypedIsTypeOK == Typed => TypeOK
BY DEF TypeOK, Typed, RowTyped, InFlightTyped, ServerTyped, TickRecords, RequestRecords

LEMMA RecordTypes == NoJob \in Plugins /\ IdleTick \in TickRecords /\ IdleRequest \in RequestRecords
<1>1. NoJob \in Plugins
  BY DEF NoJob, Plugins
<1> QED BY <1>1 DEF IdleTick, TickRecords, IdleRequest, RequestRecords

\* The Plugin as it is loaded, from its row.
LEMMA LoadedTypes == Typed /\ saved # Deleted => Loaded \in Plugins
BY DEF Typed, RowTyped, Loaded, Plugins

LEMMA StreakInit == Init => Typed /\ StreakCountsFailures
<1> SUFFICES ASSUME Init PROVE Typed /\ StreakCountsFailures
  OBVIOUS
<1>1. MaxSaves \in Nat /\ MaxFailures \in Nat /\ MaxCrashes \in Nat
  BY PluginRefreshAssumptions
<1>2. RowTyped
  BY <1>1 DEF Init, RowTyped, Versions
<1>3. InFlightTyped
  BY RecordTypes DEF Init, InFlightTyped
<1>4. ServerTyped
  BY <1>1 DEF Init, ServerTyped, Plugins, Versions
<1>5. StreakCountsFailures
  BY DEF Init, StreakCountsFailures
<1> QED BY <1>2, <1>3, <1>4, <1>5 DEF Typed

\* A tick is where its step has left it.
LEMMA TickMoves ==
  ASSUME InFlightTyped, NEW t \in Ticks, NEW c \in TickRecords, tick' = [tick EXCEPT ![t] = c]
  PROVE  tick' \in [Ticks -> TickRecords]
BY DEF InFlightTyped

LEMMA GotoTypes ==
  ASSUME InFlightTyped, NEW t \in Ticks, NEW pc \in {"fetch", "outcome", "render", "write", "writing", "record"}, Goto(t, pc)
  PROVE  tick' \in [Ticks -> TickRecords]
BY DEF InFlightTyped, Goto, TickRecords

LEMMA EndTypes ==
  ASSUME InFlightTyped, NEW t \in Ticks, End(t)
  PROVE  tick' \in [Ticks -> TickRecords]
BY RecordTypes DEF InFlightTyped, End

LEMMA StartTypes ==
  ASSUME InFlightTyped, NEW t \in Ticks, NEW plugin \in Plugins, NEW timer \in BOOLEAN, StartTick(t, plugin, timer)
  PROVE  tick' \in [Ticks -> TickRecords] /\ newest' = t
<1>1. [IdleTick EXCEPT !.pc = "fetch", !.timer = timer, !.plugin = plugin] \in TickRecords
  BY DEF IdleTick, TickRecords
<1> QED BY <1>1 DEF InFlightTyped, StartTick

\* A column of the row that is written, or not, keeps its type.
LEMMA InRowTypes == ASSUME NEW S, NEW x \in S, NEW y \in S PROVE InRow(x, y) \in S
BY DEF InRow

-----------------------------------------------------------------------------
(* Typing, tick by tick and request by request.                            *)

LEMMA TickTypes ==
  ASSUME Typed, NEW t \in Ticks, TimerTick(t) \/ TickStep(t) \/ TemplateFails(t) \/ TickFails(t)
  PROVE  Typed'
<1>1. RowTyped /\ InFlightTyped /\ ServerTyped /\ tick[t] \in TickRecords
  BY DEF Typed, InFlightTyped
<1>2. MaxFailures \in Nat
  BY PluginRefreshAssumptions
<1> USE DEF Typed, RowTyped, InFlightTyped, ServerTyped, stored
<1>3. CASE TimerTick(t)
  <2>1. tick' \in [Ticks -> TickRecords] /\ newest' = t
    BY <1>1, <1>3, StartTypes DEF TimerTick
  <2> QED BY <1>1, <1>3, <2>1 DEF TimerTick
<1>4. CASE Fetch(t)
  <2>1. PICK failed \in BOOLEAN : tick' = [tick EXCEPT ![t] = [@ EXCEPT !.pc = "outcome", !.failed = failed]]
    BY <1>4 DEF Fetch
  <2>2. tick' \in [Ticks -> TickRecords]
    BY <1>1, <2>1 DEF TickRecords
  <2> QED BY <1>1, <1>4, <2>2 DEF Fetch
<1>5. CASE RecordOutcome(t)
  <2>1. tick' \in [Ticks -> TickRecords]
    BY <1>1, <1>5 DEF RecordOutcome, TickRecords
  <2>2. streak' \in Nat /\ inARow' \in Nat
    BY <1>1, <1>5 DEF RecordOutcome, InRow, StreakAfterFailure
  <2> QED BY <1>1, <1>5, <2>1, <2>2 DEF RecordOutcome
<1>6. CASE Drop(t)
  BY <1>1, <1>6, EndTypes DEF Drop
<1>7. CASE Render(t)
  <2>1. tick' \in [Ticks -> TickRecords]
    <3>1. CASE saved = Deleted
      BY <1>1, <1>7, <3>1, GotoTypes DEF Render
    <3>2. CASE saved # Deleted
      <4>1. [tick[t] EXCEPT !.pc = "write", !.todo = Screens] \in TickRecords
        BY <1>1 DEF TickRecords
      <4> QED BY <1>1, <1>7, <3>2, <4>1, TickMoves DEF Render
    <3> QED BY <3>1, <3>2
  <2> QED BY <1>1, <1>7, <2>1 DEF Render
<1>8. CASE RecordRender(t)
  <2>1. tick[t].plugin.version \in Versions \cup {None}
    BY <1>1 DEF TickRecords, Plugins
  <2>2. recorded' \in Versions \cup {None} /\ tick' \in [Ticks -> TickRecords]
    BY <1>1, <1>8, <2>1, EndTypes DEF RecordRender, InRow
  <2> QED BY <1>1, <1>8, <2>2 DEF RecordRender
<1>9. ASSUME NEW s \in Screens, WriteOutput(t, s) PROVE Typed'
  <2>1. tick[t].plugin.version \in Versions \cup {None}
    BY <1>1 DEF TickRecords, Plugins
  <2>2. cached' \in [Screens -> Versions \cup {None}]
    BY <1>1, <1>9, <2>1 DEF WriteOutput, InRow
  <2>3. tick' \in [Ticks -> TickRecords]
    <3>1. PICK pc \in {"record", "writing"} :
            tick' = [tick EXCEPT ![t] = [tick[t] EXCEPT !.todo = tick[t].todo \ {s}, !.pc = pc]]
      BY <1>9 DEF WriteOutput
    <3>2. tick[t].todo \ {s} \in SUBSET Screens
      BY <1>1 DEF TickRecords
    <3>3. [tick[t] EXCEPT !.todo = tick[t].todo \ {s}, !.pc = pc] \in TickRecords
      BY <1>1, <3>2 DEF TickRecords
    <3> QED BY <1>1, <3>1, <3>3, TickMoves
  <2> QED BY <1>1, <1>9, <2>2, <2>3 DEF WriteOutput
<1>10. CASE TemplateFails(t)
  <2>1. tick' \in [Ticks -> TickRecords] /\ failures' \in 0..MaxFailures
    BY <1>1, <1>2, <1>10, GotoTypes DEF TemplateFails
  <2> QED BY <1>1, <1>10, <2>1 DEF TemplateFails
<1>11. CASE TickFails(t)
  <2>1. tick' \in [Ticks -> TickRecords] /\ failures' \in 0..MaxFailures
    BY <1>1, <1>2, <1>11, EndTypes DEF TickFails
  <2> QED BY <1>1, <1>11, <2>1 DEF TickFails
<1> QED BY <1>3, <1>4, <1>5, <1>6, <1>7, <1>8, <1>9, <1>10, <1>11 DEF TickStep

LEMMA RequestTypes ==
  ASSUME Typed, NEW a \in Requests, LoadForSave(a) \/ DeletePlugin(a) \/ RequestStep(a)
  PROVE  Typed'
<1>1. RowTyped /\ InFlightTyped /\ ServerTyped /\ request[a] \in RequestRecords
  BY DEF Typed, InFlightTyped
<1>2. MaxSaves \in Nat
  BY PluginRefreshAssumptions
<1>3. ASSUME NEW c \in RequestRecords, request' = [request EXCEPT ![a] = c]
      PROVE  request' \in [Requests -> RequestRecords]
  BY <1>1, <1>3 DEF InFlightTyped
<1>4. ASSUME NEW pc \in {"idle", "save", "invalidate", "reload", "schedule", "unschedule"}, Continue(a, pc)
      PROVE  request' \in [Requests -> RequestRecords]
  <2>1. [request[a] EXCEPT !.pc = pc] \in RequestRecords
    BY <1>1 DEF RequestRecords
  <2> QED BY <1>3, <1>4, <2>1 DEF Continue
<1>5. ASSUME NEW plugin \in Plugins, NEW pc \in {"save", "schedule"}
      PROVE  [pc |-> pc, plugin |-> plugin] \in RequestRecords
  BY DEF RequestRecords
<1>6. ASSUME request' = [request EXCEPT ![a] = IdleRequest] PROVE request' \in [Requests -> RequestRecords]
  BY <1>3, <1>6, RecordTypes
<1> USE DEF Typed, RowTyped, InFlightTyped, ServerTyped, stored
<1>7. CASE LoadForSave(a)
  <2>1. request' \in [Requests -> RequestRecords]
    BY <1>3, <1>5, <1>7, LoadedTypes DEF LoadForSave
  <2> QED BY <1>1, <1>7, <2>1 DEF LoadForSave
<1>8. CASE SavePlugin(a)
  <2>1. saved' \in Versions \cup {Deleted}
    BY <1>1, <1>2, <1>8 DEF SavePlugin, InRow, Versions, Deleted
  <2>2. streak' \in Nat
    BY <1>1, <1>8 DEF SavePlugin, StreakSaved, InRow, RequestRecords, Plugins
  <2>3. [IdleRequest EXCEPT !.pc = "invalidate"] \in RequestRecords
    BY RecordTypes DEF RequestRecords
  <2> QED BY <1>1, <1>3, <1>8, <2>1, <2>2, <2>3 DEF SavePlugin
<1>9. CASE SaveRefused(a)
  BY <1>1, <1>6, <1>9 DEF SaveRefused
<1>10. CASE Invalidate(a)
  BY <1>1, <1>4, <1>10 DEF Invalidate
<1>11. CASE Reload(a)
  <2>1. request' \in [Requests -> RequestRecords]
    BY <1>3, <1>5, <1>6, <1>11, LoadedTypes DEF Reload
  <2> QED BY <1>1, <1>11, <2>1 DEF Reload
<1>12. ASSUME NEW t \in Ticks, Reschedule(a, t) PROVE Typed'
  <2>1. request[a].plugin \in Plugins
    BY <1>1 DEF RequestRecords
  <2>2. tick' \in [Ticks -> TickRecords] /\ newest' = t /\ request' \in [Requests -> RequestRecords]
    BY <1>1, <1>6, <1>12, <2>1, StartTypes DEF Reschedule
  <2> QED BY <1>1, <1>12, <2>1, <2>2 DEF Reschedule, JobReplaced
<1>13. CASE DeletePlugin(a)
  BY <1>1, <1>4, <1>13 DEF DeletePlugin
<1>14. CASE Unschedule(a)
  BY <1>1, <1>4, <1>14, RecordTypes DEF Unschedule
<1> QED BY <1>7, <1>8, <1>9, <1>10, <1>11, <1>12, <1>13, <1>14 DEF RequestStep

LEMMA OtherTypes ==
  ASSUME Typed, CrashAndBoot \/ \E s \in Screens : BeginOnDemand(s) \/ CacheOnDemand(s) \/ OnDemandFails(s)
  PROVE  Typed'
<1>1. RowTyped /\ InFlightTyped /\ ServerTyped
  BY DEF Typed
<1> USE DEF Typed, RowTyped, InFlightTyped, ServerTyped, stored
<1>2. ASSUME NEW s \in Screens, BeginOnDemand(s) \/ OnDemandFails(s) PROVE Typed'
  BY <1>1, <1>2 DEF BeginOnDemand, OnDemandFails, OutputDue
<1>3. ASSUME NEW s \in Screens, CacheOnDemand(s) PROVE Typed'
  <2>1. cached' \in [Screens -> Versions \cup {None}]
    BY <1>1, <1>3 DEF CacheOnDemand, InRow
  <2> QED BY <1>1, <1>3, <2>1 DEF CacheOnDemand
<1>4. CASE CrashAndBoot
  <2>1. job' \in Plugins
    BY <1>1, <1>4, LoadedTypes, RecordTypes DEF CrashAndBoot, BootJob
  <2>2. crashes' \in 0..MaxCrashes
    BY <1>1, <1>4, PluginRefreshAssumptions DEF CrashAndBoot
  <2> QED BY <1>1, <1>4, <2>1, <2>2, RecordTypes DEF CrashAndBoot
<1> QED BY <1>2, <1>3, <1>4

LEMMA TypesKept == Typed /\ [Next]_vars => Typed'
<1>1. Typed /\ UNCHANGED vars => Typed'
  BY DEF vars, Typed, RowTyped, InFlightTyped, ServerTyped
<1> QED BY <1>1, TickTypes, RequestTypes, OtherTypes DEF Next

\* The streak counts with the history, whatever ticks overlap: unless a save
\* hands back one it has read, it is written from what the row holds alone.
LEMMA StreakKept == ~StaleSaves /\ StreakCountsFailures /\ [Next]_vars => StreakCountsFailures'
<1> SUFFICES ASSUME ~StaleSaves, StreakCountsFailures, [Next]_vars PROVE StreakCountsFailures'
  OBVIOUS
<1>1. ASSUME UNCHANGED <<streak, inARow>> PROVE StreakCountsFailures'
  BY <1>1 DEF StreakCountsFailures
<1>2. ASSUME NEW t \in Ticks, TimerTick(t) \/ TickStep(t) \/ TemplateFails(t) \/ TickFails(t)
      PROVE  StreakCountsFailures'
  <2>1. CASE RecordOutcome(t)
    BY <2>1 DEF RecordOutcome, InRow, StreakAfterFailure, StreakCountsFailures
  <2>2. CASE ~RecordOutcome(t)
    BY <1>1, <1>2, <2>2 DEF TimerTick, TickStep, TemplateFails, TickFails, Fetch, Drop, Render, RecordRender,
                            WriteOutput, stored
  <2> QED BY <2>1, <2>2
<1>3. ASSUME NEW a \in Requests, LoadForSave(a) \/ DeletePlugin(a) \/ RequestStep(a)
      PROVE  StreakCountsFailures'
  <2>1. CASE SavePlugin(a)
    BY <1>1, <2>1 DEF SavePlugin, InRow, StreakSaved
  <2>2. CASE ~SavePlugin(a)
    BY <1>1, <1>3, <2>2 DEF LoadForSave, DeletePlugin, RequestStep, SaveRefused, Invalidate, Reload, Reschedule,
                            Unschedule, stored
  <2> QED BY <2>1, <2>2
<1>4. CASE CrashAndBoot \/ \E s \in Screens : BeginOnDemand(s) \/ CacheOnDemand(s) \/ OnDemandFails(s)
  BY <1>1, <1>4 DEF CrashAndBoot, BeginOnDemand, CacheOnDemand, OnDemandFails, stored
<1>5. CASE UNCHANGED vars
  BY <1>1, <1>5 DEF vars
<1> QED BY <1>2, <1>3, <1>4, <1>5 DEF Next

-----------------------------------------------------------------------------
\* The shape of the rows, the ticks and the requests, for any number of them.
THEOREM RefreshTyped == PluginsSpec => []TypeOK
<1>1. PluginsInit => Typed
  BY StreakInit DEF PluginsInit
<1>2. Typed /\ [PluginsNext]_pluginsVars => Typed'
  BY RefreshMovesOnly, TypesKept
<1> QED BY <1>1, <1>2, TypedIsTypeOK, PTL DEF PluginsSpec, PluginsNext

\* Unless a tick comes between a save's read and its write, the streak is the
\* number of fetches that failed in a row, however many ticks overlap, and
\* whatever is saved, deleted or killed meanwhile.
THEOREM StreakCounted ==
  ASSUME ~StaleSaves
  PROVE  PluginsSpec => []StreakCountsFailures
<1>1. PluginsInit => StreakCountsFailures
  BY StreakInit DEF PluginsInit
<1>2. StreakCountsFailures /\ [PluginsNext]_pluginsVars => StreakCountsFailures'
  BY RefreshMovesOnly, StreakKept
<1> QED BY <1>1, <1>2, PTL DEF PluginsSpec, PluginsNext

-----------------------------------------------------------------------------
(* An overtaken tick.                                                      *)

OneRequest == \A a, b \in Requests : a = b

\* A save that has read the Plugin again works on it as saved; when none is on its
\* way so do the timer and the newest tick.
WorkOnSaved ==
  saved # Deleted =>
    /\ \A a \in Requests : request[a].pc # "unschedule"
                         /\ (request[a].pc = "schedule" => request[a].plugin.version = saved)
    /\ Settled => /\ job.version = saved
                  /\ newest \in Ticks /\ tick[newest].pc # "idle" => tick[newest].plugin.version = saved

Works == Typed /\ WorkOnSaved

LEMMA WorksInit == Init => Works
<1> SUFFICES ASSUME Init PROVE Works
  OBVIOUS
<1>1. \A a \in Requests : request[a].pc = "idle"
  BY DEF Init, IdleRequest
<1>2. newest \notin Ticks
  BY PluginRefreshAssumptions DEF Init
<1>3. job.version = saved
  BY DEF Init
<1> QED BY <1>1, <1>2, <1>3, StreakInit DEF Works, WorkOnSaved

\* A tick goes on with the Plugin it has.
LEMMA StepsKeepPlugin ==
  ASSUME Typed, NEW t \in Ticks, TickStep(t) \/ TemplateFails(t) \/ TickFails(t)
  PROVE  /\ UNCHANGED <<saved, job, newest, request>>
         /\ \A u \in Ticks : tick'[u].pc # "idle" => tick[u].pc # "idle" /\ tick'[u].plugin = tick[u].plugin
<1>1. UNCHANGED <<saved, job, newest, request>>
  BY DEF TickStep, Fetch, RecordOutcome, Drop, Render, WriteOutput, RecordRender, TemplateFails, TickFails, stored
<1>2. ~At(t, {"idle"}) /\ tick[t] \in TickRecords /\ tick \in [Ticks -> TickRecords]
  BY DEF TickStep, Fetch, RecordOutcome, Drop, Render, WriteOutput, RecordRender, TemplateFails, TickFails, At,
         Typed, InFlightTyped
<1>3. ASSUME NEW c \in TickRecords, c.plugin = tick[t].plugin, tick' = [tick EXCEPT ![t] = c]
      PROVE  \A u \in Ticks : tick'[u].pc # "idle" => tick[u].pc # "idle" /\ tick'[u].plugin = tick[u].plugin
  BY <1>2, <1>3 DEF At
<1>4. ASSUME End(t)
      PROVE  \A u \in Ticks : tick'[u].pc # "idle" => tick[u].pc # "idle" /\ tick'[u].plugin = tick[u].plugin
  BY <1>2, <1>4 DEF End, IdleTick
<1>5. ASSUME NEW pc \in {"fetch", "outcome", "render", "write", "writing", "record"}, Goto(t, pc)
      PROVE  \A u \in Ticks : tick'[u].pc # "idle" => tick[u].pc # "idle" /\ tick'[u].plugin = tick[u].plugin
  <2>1. [tick[t] EXCEPT !.pc = pc] \in TickRecords /\ [tick[t] EXCEPT !.pc = pc].plugin = tick[t].plugin
    BY <1>2 DEF TickRecords
  <2>2. tick' = [tick EXCEPT ![t] = [tick[t] EXCEPT !.pc = pc]]
    BY <1>2, <1>5 DEF Goto
  <2> QED BY <1>3, <2>1, <2>2
<1>6. CASE Fetch(t)
  <2>1. PICK failed \in BOOLEAN : tick' = [tick EXCEPT ![t] = [@ EXCEPT !.pc = "outcome", !.failed = failed]]
    BY <1>6 DEF Fetch
  <2>2. [tick[t] EXCEPT !.pc = "outcome", !.failed = failed] \in TickRecords
    BY <1>2 DEF TickRecords
  <2>3. [tick[t] EXCEPT !.pc = "outcome", !.failed = failed].plugin = tick[t].plugin
    BY <1>2 DEF TickRecords
  <2>4. tick' = [tick EXCEPT ![t] = [tick[t] EXCEPT !.pc = "outcome", !.failed = failed]]
    BY <1>2, <2>1
  <2> QED BY <1>1, <1>3, <2>2, <2>3, <2>4
<1>7. CASE RecordOutcome(t)
  <2>1. /\ [tick[t] EXCEPT !.pc = "render", !.failed = FALSE] \in TickRecords
        /\ [tick[t] EXCEPT !.pc = "render", !.failed = FALSE].plugin = tick[t].plugin
    BY <1>2 DEF TickRecords
  <2>2. tick' = [tick EXCEPT ![t] = [tick[t] EXCEPT !.pc = "render", !.failed = FALSE]]
    BY <1>2, <1>7 DEF RecordOutcome
  <2> QED BY <1>1, <1>3, <2>1, <2>2
<1>8. CASE Render(t)
  <2>1. CASE saved = Deleted
    BY <1>1, <1>5, <1>8, <2>1 DEF Render
  <2>2. CASE saved # Deleted
    <3>1. /\ [tick[t] EXCEPT !.pc = "write", !.todo = Screens] \in TickRecords
          /\ [tick[t] EXCEPT !.pc = "write", !.todo = Screens].plugin = tick[t].plugin
      BY <1>2 DEF TickRecords
    <3>2. tick' = [tick EXCEPT ![t] = [tick[t] EXCEPT !.pc = "write", !.todo = Screens]]
      BY <1>2, <1>8, <2>2 DEF Render
    <3> QED BY <1>1, <1>3, <3>1, <3>2
  <2> QED BY <2>1, <2>2
<1>9. ASSUME NEW s \in Screens, WriteOutput(t, s)
      PROVE  \A u \in Ticks : tick'[u].pc # "idle" => tick[u].pc # "idle" /\ tick'[u].plugin = tick[u].plugin
  <2> DEFINE pc == IF tick[t].todo = {s} THEN "record" ELSE "writing"
  <2>1. /\ [tick[t] EXCEPT !.todo = tick[t].todo \ {s}, !.pc = pc] \in TickRecords
        /\ [tick[t] EXCEPT !.todo = tick[t].todo \ {s}, !.pc = pc].plugin = tick[t].plugin
    BY <1>2 DEF TickRecords
  <2>2. tick' = [tick EXCEPT ![t] = [tick[t] EXCEPT !.todo = tick[t].todo \ {s}, !.pc = pc]]
    BY <1>2, <1>9 DEF WriteOutput
  <2> QED BY <1>3, <2>1, <2>2
<1>10. CASE Drop(t) \/ RecordRender(t) \/ TickFails(t)
  BY <1>1, <1>4, <1>10 DEF Drop, RecordRender, TickFails
<1>11. CASE TemplateFails(t)
  BY <1>1, <1>5, <1>11 DEF TemplateFails
<1> QED BY <1>1, <1>6, <1>7, <1>8, <1>9, <1>10, <1>11 DEF TickStep

\* A tick that starts is the newest, with the Plugin it is given.
LEMMA StartsWith ==
  ASSUME Typed, NEW t \in Ticks, NEW timer \in BOOLEAN, NEW plugin \in Plugins, StartTick(t, plugin, timer)
  PROVE  newest' = t /\ tick'[t].plugin = plugin
BY DEF StartTick, Typed, InFlightTyped, IdleTick

LEMMA TicksWork ==
  ASSUME Works, NEW t \in Ticks, TimerTick(t) \/ TickStep(t) \/ TemplateFails(t) \/ TickFails(t)
  PROVE  WorkOnSaved'
<1>1. CASE TimerTick(t)
  <2>1. newest' = t /\ tick'[t].plugin = job /\ UNCHANGED <<saved, job, request>>
    BY <1>1, StartsWith DEF TimerTick, Works, Typed, ServerTyped, stored
  <2> QED BY <2>1 DEF Works, WorkOnSaved, Settled
<1>2. CASE TickStep(t) \/ TemplateFails(t) \/ TickFails(t)
  <2>1. /\ UNCHANGED <<saved, job, newest, request>>
        /\ \A u \in Ticks : tick'[u].pc # "idle" => tick[u].pc # "idle" /\ tick'[u].plugin = tick[u].plugin
    BY <1>2, StepsKeepPlugin DEF Works
  <2> QED BY <2>1 DEF Works, WorkOnSaved, Settled
<1> QED BY <1>1, <1>2

LEMMA RequestsWork ==
  ASSUME OneRequest, Works, NEW a \in Requests, LoadForSave(a) \/ DeletePlugin(a) \/ RequestStep(a)
  PROVE  WorkOnSaved'
<1>1. request \in [Requests -> RequestRecords] /\ \A b \in Requests : b = a
  BY DEF Works, Typed, InFlightTyped, OneRequest
<1>2. CASE LoadForSave(a)
  <2>1. request'[a].pc = "save" /\ request[a].pc = "idle" /\ UNCHANGED <<saved, job, newest, tick>>
    BY <1>1, <1>2 DEF LoadForSave, stored
  <2> QED BY <1>1, <2>1 DEF Works, WorkOnSaved, Settled
<1>3. CASE DeletePlugin(a)
  BY <1>3 DEF DeletePlugin, WorkOnSaved
<1>4. CASE SavePlugin(a)
  BY <1>1, <1>4 DEF SavePlugin, WorkOnSaved, Settled, IdleRequest
<1>5. CASE SaveRefused(a)
  <2>1. request'[a].pc = "idle" /\ request[a].pc = "save" /\ UNCHANGED <<saved, job, newest, tick>>
    BY <1>1, <1>5 DEF SaveRefused, IdleRequest, stored
  <2> QED BY <1>1, <2>1 DEF Works, WorkOnSaved, Settled
<1>6. CASE Invalidate(a)
  <2>1. request'[a].pc = "reload"
    BY <1>1, <1>6 DEF Invalidate, Continue
  <2> QED BY <1>1, <2>1 DEF WorkOnSaved, Settled
<1>7. CASE Reload(a)
  <2>1. saved' = saved /\ (saved # Deleted => request'[a] = [pc |-> "schedule", plugin |-> Loaded])
    BY <1>1, <1>7 DEF Reload, stored
  <2>2. saved # Deleted => request'[a].pc = "schedule" /\ request'[a].plugin.version = saved
    BY <2>1 DEF Loaded
  <2> QED BY <1>1, <2>1, <2>2 DEF WorkOnSaved, Settled
<1>8. ASSUME NEW t \in Ticks, Reschedule(a, t) PROVE WorkOnSaved'
  <2>1. /\ request[a].pc = "schedule" /\ request'[a].pc = "idle" /\ saved' = saved
        /\ job' = request[a].plugin /\ request[a].plugin \in Plugins
    BY <1>1, <1>8 DEF Reschedule, JobReplaced, IdleRequest, stored, RequestRecords
  <2>2. newest' = t /\ tick'[t].plugin = request[a].plugin
    BY <1>8, <2>1, StartsWith DEF Reschedule, Works
  <2> QED BY <1>1, <2>1, <2>2 DEF Works, WorkOnSaved, Settled
<1>9. CASE Unschedule(a)
  BY <1>9 DEF Unschedule, Works, WorkOnSaved, stored
<1> QED BY <1>2, <1>3, <1>4, <1>5, <1>6, <1>7, <1>8, <1>9 DEF RequestStep

LEMMA WorksKept == OneRequest /\ Works /\ [Next]_vars => Works'
<1> SUFFICES ASSUME OneRequest, Works, [Next]_vars PROVE WorkOnSaved'
  BY TypesKept DEF Works
<1>1. ASSUME NEW s \in Screens, BeginOnDemand(s) \/ CacheOnDemand(s) \/ OnDemandFails(s) PROVE WorkOnSaved'
  BY <1>1 DEF BeginOnDemand, CacheOnDemand, OnDemandFails, stored, Works, WorkOnSaved, Settled
<1>2. CASE CrashAndBoot
  <2>1. /\ saved' = saved /\ (saved # Deleted => job'.version = saved)
        /\ newest' \notin Ticks /\ \A a \in Requests : request'[a].pc = "idle"
    BY <1>2, PluginRefreshAssumptions DEF CrashAndBoot, BootJob, Loaded, IdleRequest, stored
  <2> QED BY <2>1 DEF WorkOnSaved
<1>3. CASE UNCHANGED vars
  BY <1>3 DEF vars, Works, WorkOnSaved, Settled
<1> QED BY <1>1, <1>2, <1>3, TicksWork, RequestsWork DEF Next

\* What a step may put on a Screen when the requests are served.
LEMMA WritesSaved ==
  ASSUME Works, [Next]_vars, NEW s \in Screens,
         Settled, saved # Deleted, cached'[s] \notin {cached[s], None, saved}, ~CacheOnDemand(s)
  PROVE  \E t \in Ticks : At(t, {"writing"}) /\ WriteOutput(t, s)
<1>1. cached \in [Screens -> Versions \cup {None}]
  BY DEF Works, Typed, RowTyped
<1>2. ASSUME NEW t \in Ticks, NEW u \in Screens, WriteOutput(t, u)
      PROVE  At(t, {"writing"}) /\ WriteOutput(t, s)
  <2>1. cached' = [cached EXCEPT ![u] = tick[t].plugin.version]
    BY <1>2 DEF WriteOutput, InRow
  <2>2. u = s
    BY <1>1, <2>1
  <2>3. CASE At(t, {"write"}) /\ IsNewest(t)
    <3>1. newest \in Ticks /\ tick[newest].pc # "idle" /\ newest = t
      BY <2>3 DEF At, IsNewest
    <3>2. tick[t].plugin.version = saved
      BY <3>1 DEF Works, WorkOnSaved
    <3> QED BY <1>1, <2>1, <2>2, <3>2
  <2> QED BY <1>2, <2>2, <2>3 DEF WriteOutput
<1>3. ASSUME NEW t \in Ticks, TimerTick(t) \/ TickStep(t) \/ TemplateFails(t) \/ TickFails(t)
      PROVE  \E u \in Screens : WriteOutput(t, u)
  BY <1>3 DEF TimerTick, TickStep, TemplateFails, TickFails, Fetch, RecordOutcome, Drop, Render, RecordRender, stored
<1>4. ASSUME NEW a \in Requests, LoadForSave(a) \/ DeletePlugin(a) \/ RequestStep(a) PROVE FALSE
  BY <1>1, <1>4 DEF LoadForSave, DeletePlugin, RequestStep, SavePlugin, SaveRefused, Invalidate, Reload, Reschedule,
                    Unschedule, stored
<1>5. ASSUME NEW u \in Screens, BeginOnDemand(u) \/ CacheOnDemand(u) \/ OnDemandFails(u) PROVE FALSE
  <2>1. CASE CacheOnDemand(u)
    <3>1. u # s
      BY <2>1
    <3> QED BY <1>1, <2>1, <3>1 DEF CacheOnDemand, InRow
  <2>2. CASE BeginOnDemand(u) \/ OnDemandFails(u)
    BY <2>2 DEF BeginOnDemand, OnDemandFails, stored
  <2> QED BY <1>5, <2>1, <2>2
<1>6. ~CrashAndBoot /\ ~UNCHANGED vars
  BY DEF CrashAndBoot, stored, vars
<1>7. PICK t \in Ticks : TimerTick(t) \/ TickStep(t) \/ TemplateFails(t) \/ TickFails(t)
  BY <1>4, <1>5, <1>6 DEF Next
<1> QED BY <1>2, <1>3, <1>7

\* One admin at a time: for any number of Screens and of ticks in flight, whatever
\* fails or is killed, what an overtaken tick works on is not put over what is newer.
THEOREM OvertakenIsDropped ==
  ASSUME OneRequest
  PROVE  PluginsSpec => OvertakenWritesNothing
<1> DEFINE Kept ==
      \A s \in Screens :
        Settled /\ saved # Deleted /\ cached'[s] \notin {cached[s], None, saved} =>
          \/ CacheOnDemand(s)
          \/ \E t \in Ticks : At(t, {"writing"}) /\ WriteOutput(t, s)
<1>1. PluginsInit => Works
  BY WorksInit DEF PluginsInit
<1>2. Works /\ [PluginsNext]_pluginsVars => Works'
  BY RefreshMovesOnly, WorksKept
<1>3. Works /\ [PluginsNext]_pluginsVars => [Kept]_vars
  BY RefreshMovesOnly, WritesSaved
<1> QED BY <1>1, <1>2, <1>3, PTL DEF PluginsSpec, PluginsNext, OvertakenWritesNothing

\* Ticks that overlap leave the rows as ticks one by one would, with one admin at a
\* time and no tick between a save's read and its write.
THEOREM TicksDoNoHarm ==
  ASSUME ~StaleSaves, OneRequest
  PROVE  PluginsSpec => OverlappingTicksDoNoHarm
BY StreakCounted, OvertakenIsDropped, PTL DEF OverlappingTicksDoNoHarm

-----------------------------------------------------------------------------
(* MashupRender and RecipeUpdate: what MP and RP prove is of these modules. *)

LEMMA SameMashup ==
  /\ Mashup!Init => MP!Init
  /\ Mashup!Next => MP!Next
  /\ Mashup!SignalsAreOfCached <=> MP!SignalsAreOfCached
  /\ Mashup!NothingSignalledIsShown <=> MP!NothingSignalledIsShown
<1>1. Mashup!Init => MP!Init
  BY DEF Mashup!Init, MP!Init, Mashup!Slots, MP!Slots, Mashup!NewSlot, MP!NewSlot, Mashup!None,
         MP!None, Mashup!IdleRender, MP!IdleRender
<1>2. Mashup!Next => MP!Next
  BY DEF Mashup!Next, MP!Next, Mashup!RenderStep, MP!RenderStep, Mashup!None, MP!None,
         Mashup!Slots, MP!Slots, Mashup!NewSlot, MP!NewSlot, Mashup!IdleRender, MP!IdleRender,
         Mashup!At, MP!At, Mashup!Become, MP!Become, Mashup!End, MP!End, Mashup!Stored, MP!Stored,
         Mashup!Start, MP!Start, Mashup!RenderSlots, MP!RenderSlots, Mashup!KeepMarkup,
         MP!KeepMarkup, Mashup!Unread, MP!Unread, Mashup!ForgetSignals, MP!ForgetSignals,
         Mashup!Cache, MP!Cache, Mashup!Signal, MP!Signal, Mashup!Live, MP!Live, Mashup!DrawPage,
         MP!DrawPage, Mashup!KnowSignals, MP!KnowSignals, Mashup!ReadSignal, MP!ReadSignal,
         Mashup!AllRead, MP!AllRead, Mashup!Silent, MP!Silent, Mashup!SkipOrHold, MP!SkipOrHold,
         Mashup!DrawAnyway, MP!DrawAnyway, Mashup!DrawsLive, MP!DrawsLive, Mashup!Record, MP!Record,
         Mashup!AllRecorded, MP!AllRecorded, Mashup!Return, MP!Return,
         Mashup!Drawing, MP!Drawing, Mashup!DrawSlots, MP!DrawSlots, Mashup!Fail, MP!Fail,
         Mashup!Refresh, MP!Refresh, Mashup!Invalidate, MP!Invalidate, Mashup!Update, MP!Update
<1>3. Mashup!SignalsAreOfCached <=> MP!SignalsAreOfCached
  BY DEF Mashup!SignalsAreOfCached, MP!SignalsAreOfCached, Mashup!None, MP!None, Mashup!Signal,
         MP!Signal
<1>4. Mashup!NothingSignalledIsShown <=> MP!NothingSignalledIsShown
  BY DEF Mashup!NothingSignalledIsShown, MP!NothingSignalledIsShown, Mashup!Signal, MP!Signal
<1> QED BY <1>1, <1>2, <1>3, <1>4

LEMMA SameRecipe ==
  /\ Recipe!Init => RP!Init
  /\ Recipe!Next => RP!Next
  /\ RP!ChosenIsOfferedAgain => Recipe!ChosenIsOfferedAgain
<1>1. Recipe!Init => RP!Init
  BY DEF Recipe!Init, RP!Init, Recipe!Idle, RP!Idle, Recipe!Item, RP!Item
<1>2. Recipe!Next => RP!Next
  BY DEF Recipe!Next, RP!Next, Recipe!Idle, RP!Idle, Recipe!Item, RP!Item, Recipe!Same, RP!Same,
         Recipe!Offered, RP!Offered, Recipe!Load, RP!Load, Recipe!checkForUpdate,
         RP!checkForUpdate, Recipe!applyUpdate, RP!applyUpdate, Recipe!Items, RP!Items,
         Recipe!ShowPreview, RP!ShowPreview, Recipe!Moved, RP!Moved, Recipe!Refuse, RP!Refuse,
         Recipe!SnapshotKept, RP!SnapshotKept, Recipe!Begin, RP!Begin, Recipe!Written, RP!Written,
         Recipe!Merged, RP!Merged, Recipe!ApplyItem, RP!ApplyItem, Recipe!Finish, RP!Finish,
         Recipe!InsertRefused, RP!InsertRefused, Recipe!Fail, RP!Fail, Recipe!Edit, RP!Edit,
         Recipe!Publish, RP!Publish
<1>3. RP!ChosenIsOfferedAgain => Recipe!ChosenIsOfferedAgain
  BY DEF Recipe!ChosenIsOfferedAgain, RP!ChosenIsOfferedAgain, Recipe!Offered, RP!Offered,
         Recipe!Same, RP!Same, Recipe!Item, RP!Item
<1> QED BY <1>1, <1>2, <1>3

\* Of a step of the whole, a component at work makes one of its own or none.
LEMMA MashupMovesOnly ==
  ASSUME part = "mashup", PluginsNext \/ UNCHANGED pluginsVars
  PROVE  [MP!Next]_(MP!vars)
BY SameMashup DEF PluginsNext, RefreshMoves, MashupMoves, RecipeMoves, pluginsVars, mashupOnly, MP!vars

LEMMA RecipeMovesOnly ==
  ASSUME part = "recipe", PluginsNext \/ UNCHANGED pluginsVars
  PROVE  [RP!Next]_(RP!vars)
BY SameRecipe DEF PluginsNext, RefreshMoves, MashupMoves, RecipeMoves, pluginsVars, recipeOnly, RP!vars

LEMMA PartStays == PluginsNext \/ UNCHANGED pluginsVars => part' = part
BY DEF PluginsNext, RefreshMoves, MashupMoves, RecipeMoves, pluginsVars

LEMMA MashupAssumed == Mashup!MashupRenderAssumptions <=> MP!MashupRenderAssumptions
BY DEF Mashup!MashupRenderAssumptions, MP!MashupRenderAssumptions

LEMMA RecipeAssumed == RP!RecipeUpdateAssumptions
BY PluginsAssumptions DEF Recipe!RecipeUpdateAssumptions, RP!RecipeUpdateAssumptions

\* One render at a time, and no edit while it lasts: beyond that the slots' rows may
\* be those of another render or of the Mashup as it was.
OneRender == Edited = FALSE /\ \A q, r \in Renders : q = r

\* The invariant of MashupRender_proofs, of its part.
MashupInv == part = "mashup" => MP!IInv

THEOREM MashupInvariant ==
  ASSUME OneRender
  PROVE  PluginsSpec => []MashupInv
<1>1. MP!OneRender
  BY PluginsAssumptions, MashupAssumed DEF OneRender, MP!OneRender
<1>2. PluginsInit => MashupInv
  BY <1>1, MP!InitHolds, SameMashup DEF PluginsInit, MashupInv
<1>3. MashupInv /\ [PluginsNext]_pluginsVars => MashupInv'
  BY <1>1, MP!StepKeeps, MashupMovesOnly, PartStays DEF MashupInv
<1> QED BY <1>2, <1>3, PTL DEF PluginsSpec, PluginsNext

\* Whatever fails at whichever await and however often the Plugins of a Mashup
\* refresh: signals that count as read are those of what is cached.
THEOREM SignalsOfCached ==
  ASSUME OneRender
  PROVE  PluginsSpec => []SignalsAreOfCached
<1>1. MashupInv => SignalsAreOfCached
  BY SameMashup DEF MashupInv, MP!IInv, SignalsAreOfCached
<1> QED BY <1>1, MashupInvariant, PTL

\* No stored image has a slot in it that its Plugin asked not to be shown.
THEOREM NothingSignalled ==
  ASSUME OneRender
  PROVE  PluginsSpec => []NothingSignalledIsShown
<1>1. MashupInv => NothingSignalledIsShown
  BY SameMashup DEF MashupInv, MP!IInv, NothingSignalledIsShown
<1> QED BY <1>1, MashupInvariant, PTL

-----------------------------------------------------------------------------
\* The invariant of RecipeUpdate_proofs, of its part.
RecipeInv == IF part = "recipe" THEN RP!IInv ELSE run.pc = "rests"

THEOREM RecipeInvariant == PluginsSpec => []RecipeInv
<1>1. PluginsInit => RecipeInv
  BY RecipeAssumed, RP!InitHolds, SameRecipe DEF PluginsInit, RecipeInv, RecipeRests
<1>2. RecipeInv /\ [PluginsNext]_pluginsVars => RecipeInv'
  <2>1. ASSUME part # "recipe", PluginsNext \/ UNCHANGED pluginsVars PROVE UNCHANGED run
    BY <2>1 DEF PluginsNext, RefreshMoves, MashupMoves, RecipeMoves, pluginsVars, recipeOnly
  <2> QED BY <2>1, RecipeAssumed, RP!StepKeeps, RecipeMovesOnly, PartStays DEF RecipeInv
<1> QED BY <1>1, <1>2, PTL DEF PluginsSpec, PluginsNext

\* Wherever an apply ends, the next check offers again what was chosen and is not
\* written, for any items, edits and Recipes.
THEOREM OfferedAgain == PluginsSpec => []ChosenIsOfferedAgain
<1>1. RecipeInv => ChosenIsOfferedAgain
  BY RP!InvariantOffers, SameRecipe DEF RecipeInv, ChosenIsOfferedAgain
<1> QED BY <1>1, RecipeInvariant, PTL

\* Whatever happens to the Plugin and the Recipe meanwhile, an apply writes the
\* chosen items as the preview showed them.
THEOREM AsShown == PluginsSpec => OnlyWhatWasShown
<1>1. RecipeInv /\ [PluginsNext]_pluginsVars =>
        [run.pc = "apply" /\ run' # run =>
           \A k \in UpdateItems : local'[k] # local[k] =>
             /\ k \in run.chosen \cap page.items
             /\ local'[k] # Rest => local'[k].content = page.upstream[k]
             /\ local'[k] = Rest => page.upstream[k] = Rest
             /\ local'[k] # Rest /\ run.local[k] # Rest /\ run.local[k].own => local'[k].own]_(Recipe!vars)
  <2> SUFFICES ASSUME RecipeInv, PluginsNext, run.pc = "apply", run' # run,
                      NEW k \in UpdateItems, local'[k] # local[k]
               PROVE  /\ k \in run.chosen \cap page.items
                      /\ local'[k] # Rest => local'[k].content = page.upstream[k]
                      /\ local'[k] = Rest => page.upstream[k] = Rest
                      /\ local'[k] # Rest /\ run.local[k] # Rest /\ run.local[k].own => local'[k].own
    BY DEF pluginsVars, recipeOnly, Recipe!vars
  <2>1. part = "recipe" /\ RP!IInv
    BY DEF RecipeInv
  <2>2. RP!Next
    BY <2>1, RecipeMovesOnly DEF RP!vars
  <2> QED BY <2>1, <2>2, RecipeAssumed, RP!ApplyWrites
<1> QED BY <1>1, RecipeInvariant, PTL DEF PluginsSpec, PluginsNext, OnlyWhatWasShown, Recipe!OnlyWhatWasShown
===============================================================================
