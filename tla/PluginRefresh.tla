---------------------------- MODULE PluginRefresh ----------------------------
(***************************************************************************)
(* How the output of one Poll-kind Plugin gets into the cache of its       *)
(* Screens: the scheduler's timer (plugin-scheduler.service.ts), the ticks *)
(* it and every save start (plugin-refresh.service.ts), the renders a poll *)
(* makes when nothing is cached, and the admin's saves.  A tick works on   *)
(* the Plugin as it was loaded when it was scheduled, so a Plugin stands   *)
(* here for its version: how often it had been saved by then.              *)
(***************************************************************************)
EXTENDS Integers, FiniteSets

CONSTANTS
  Screens,       \* the Screens the Plugin is assigned to
  Ticks,         \* ticks that may be in flight at the same time
  NoTick,
  Requests,      \* admin requests that may be served at the same time
  StaleSaves,    \* whether a tick may write between a save's read and its write
  MaxSaves,      \* bound: how often the Plugin is saved
  MaxStreak,     \* bound: fetches that fail in a row
  MaxFailures,   \* bound: ticks that end in an error
  MaxCrashes     \* bound: how often the server is killed and boots again

ASSUME PluginRefreshAssumptions ==
  /\ NoTick \notin Ticks
  /\ StaleSaves \in BOOLEAN
  /\ {MaxSaves, MaxStreak, MaxFailures, MaxCrashes} \subseteq Nat

VARIABLES
  saved,       \* the version in the database, or Deleted
  job,         \* the Plugin the scheduler's timer holds, or NoJob
  newest,      \* the tick with the newest generation number
  cached,      \* each Screen's cachedPluginOutput: the version it is of, or None
  streak,      \* fetchFailureStreak of the Plugin's Data Source
  recorded,    \* the version whose scheduled render was last recorded
  tick,        \* each tick in flight: where it stands, and what it works on
  request,     \* each admin request, likewise
  onDemand,    \* each Screen: the version a poll is rendering for it, or None
  failures, crashes,
  inARow       \* ghost: fetches recorded as failed since the last one that was not

stored == <<saved, cached, streak, recorded, inARow>>
vars == <<saved, job, newest, cached, streak, recorded, tick, request, onDemand,
          failures, crashes, inARow>>

-----------------------------------------------------------------------------
None == -1
Deleted == -2

Loaded == [version |-> saved, streak |-> streak]
NoJob == [version |-> None, streak |-> 0]

IdleTick == [pc |-> "idle", timer |-> FALSE, plugin |-> NoJob, failed |-> FALSE, todo |-> {}]
IdleRequest == [pc |-> "idle", plugin |-> NoJob]

Init ==
  /\ saved = 0 /\ streak = 0 /\ recorded = None
  /\ job = [version |-> 0, streak |-> 0]
  /\ newest = NoTick
  /\ cached = [s \in Screens |-> None]
  /\ tick = [t \in Ticks |-> IdleTick]
  /\ request = [a \in Requests |-> IdleRequest]
  /\ onDemand = [s \in Screens |-> None]
  /\ failures = 0 /\ crashes = 0 /\ inARow = 0

At(t, pcs) == tick[t].pc \in pcs
Goto(t, pc) == tick' = [tick EXCEPT ![t].pc = pc]
End(t) == tick' = [tick EXCEPT ![t] = IdleTick]

-----------------------------------------------------------------------------
(* A tick.                                                                 *)

\* runTick: the tick takes the next generation number
StartTick(t, plugin, timer) ==
  /\ At(t, {"idle"})
  /\ tick' = [tick EXCEPT ![t] = [IdleTick EXCEPT !.pc = "fetch", !.timer = timer, !.plugin = plugin]]
  /\ newest' = t

\* The interval is a minute at least, and a tick's requests and transforms time
\* out before it is over: ticks of the timer do not overlap each other.
TimerTick(t) ==
  /\ job # NoJob
  /\ \A other \in Ticks : ~tick[other].timer
  /\ StartTick(t, job, TRUE)
  /\ UNCHANGED <<stored, job, request, onDemand, failures, crashes>>

Fetch(t) ==
  /\ At(t, {"fetch"})
  /\ \E failed \in BOOLEAN :
       /\ failed => streak < MaxStreak
       /\ tick' = [tick EXCEPT ![t] = [@ EXCEPT !.pc = "outcome", !.failed = failed]]
  /\ UNCHANGED <<stored, job, newest, request, onDemand, failures, crashes>>

\* A row of the Plugin is written only while there is one.
InRow(value, column) == IF saved = Deleted THEN column ELSE value

\* increment: the database counts on from what it holds
StreakAfterFailure(t) == streak + 1

\* DataSourceFetchOutcomeService.recordOutcomes, superseded or not, and the
\* Saved States, which no property reads
RecordOutcome(t) ==
  /\ At(t, {"outcome"})
  /\ streak' = InRow(IF tick[t].failed THEN StreakAfterFailure(t) ELSE 0, streak)
  /\ inARow' = InRow(IF tick[t].failed THEN inARow + 1 ELSE 0, inARow)
  /\ tick' = [tick EXCEPT ![t] = [@ EXCEPT !.pc = "render", !.failed = FALSE]]
  /\ UNCHANGED <<saved, job, newest, cached, recorded, request, onDemand, failures, crashes>>

\* Slip: a tick that is overtaken goes on
NeverSuperseded(t) == TRUE
\* dropAsSuperseded does not drop the tick's next write
IsNewest(t) == newest = t

Drop(t) ==
  /\ At(t, {"render", "write", "record"})
  /\ ~IsNewest(t)
  /\ End(t)
  /\ UNCHANGED <<stored, job, newest, request, onDemand, failures, crashes>>

\* renderAndCache finds the Screens and renders for each before it writes any
Render(t) ==
  /\ At(t, {"render"})
  /\ IsNewest(t)
  /\ IF saved = Deleted
     THEN Goto(t, "record")
     ELSE tick' = [tick EXCEPT ![t] = [@ EXCEPT !.pc = "write", !.todo = Screens]]
  /\ UNCHANGED <<stored, job, newest, request, onDemand, failures, crashes>>

\* Whether the tick is superseded is asked before the first write only
WriteOutput(t, s) ==
  /\ \/ At(t, {"write"}) /\ IsNewest(t)
     \/ At(t, {"writing"})
  /\ s \in tick[t].todo
  /\ cached' = InRow([cached EXCEPT ![s] = tick[t].plugin.version], cached)
  /\ tick' = [tick EXCEPT ![t] = [@ EXCEPT !.todo = tick[t].todo \ {s},
                                         !.pc = IF tick[t].todo = {s} THEN "record" ELSE "writing"]]
  /\ UNCHANGED <<saved, job, newest, streak, recorded, inARow, request, onDemand, failures, crashes>>

RecordRender(t) ==
  /\ At(t, {"record"})
  /\ IsNewest(t)
  /\ recorded' = InRow(tick[t].plugin.version, recorded)
  /\ End(t)
  /\ UNCHANGED <<saved, job, newest, cached, streak, inARow, request, onDemand, failures, crashes>>

\* A Template that does not render caches nothing, but the failure is recorded.
TemplateFails(t) ==
  /\ At(t, {"write"})
  /\ failures < MaxFailures
  /\ failures' = failures + 1
  /\ Goto(t, "record")
  /\ UNCHANGED <<stored, job, newest, request, onDemand, crashes>>

\* Any other error ends the tick where it stands.
TickFails(t) ==
  /\ ~At(t, {"idle"})
  /\ failures < MaxFailures
  /\ failures' = failures + 1
  /\ End(t)
  /\ UNCHANGED <<stored, job, newest, request, onDemand, crashes>>

TickStep(t) ==
  \/ Fetch(t) \/ RecordOutcome(t) \/ Drop(t) \/ Render(t) \/ RecordRender(t)
  \/ \E s \in Screens : WriteOutput(t, s)

-----------------------------------------------------------------------------
(* The admin's requests.                                                   *)

Continue(a, pc) == request' = [request EXCEPT ![a].pc = pc]

\* PluginsService.update: the Plugin and its Data Sources are read...
LoadForSave(a) ==
  /\ request[a].pc = "idle"
  /\ saved # Deleted /\ saved < MaxSaves
  /\ request' = [request EXCEPT ![a] = [pc |-> "save", plugin |-> Loaded]]
  /\ UNCHANGED <<stored, job, newest, tick, onDemand, failures, crashes>>

\* saveDataSources: save() of the stored row writes the streak it was read with
StreakSaved(a) == IF StaleSaves THEN request[a].plugin.streak ELSE streak

\* ... and written, all or nothing; of a Plugin deleted since there is no row left
SavePlugin(a) ==
  /\ request[a].pc = "save"
  /\ saved < MaxSaves
  /\ saved' = InRow(saved + 1, saved)
  /\ streak' = InRow(StreakSaved(a), streak)
  /\ request' = [request EXCEPT ![a] = [IdleRequest EXCEPT !.pc = "invalidate"]]
  /\ UNCHANGED <<job, newest, cached, recorded, tick, onDemand, failures, crashes, inARow>>

\* A key that cannot be written refuses the save, and so does a database error:
\* a Data Source or a Template of a deleted Plugin cannot be written.
SaveRefused(a) ==
  /\ request[a].pc = "save"
  /\ request' = [request EXCEPT ![a] = IdleRequest]
  /\ UNCHANGED <<stored, job, newest, tick, onDemand, failures, crashes>>

\* refreshRendersAfterSave, whose database calls are taken to succeed
Invalidate(a) ==
  /\ request[a].pc = "invalidate"
  /\ cached' = [s \in Screens |-> None]
  /\ Continue(a, "reload")
  /\ UNCHANGED <<saved, job, newest, streak, recorded, tick, onDemand, failures, crashes, inARow>>

Reload(a) ==
  /\ request[a].pc = "reload"
  /\ request' = [request EXCEPT ![a] =
                   IF saved = Deleted THEN IdleRequest ELSE [pc |-> "schedule", plugin |-> Loaded]]
  /\ UNCHANGED <<stored, job, newest, tick, onDemand, failures, crashes>>

\* Slip: a Plugin that has a job keeps it
JobKept(plugin) == IF job = NoJob THEN plugin ELSE job
\* schedulePlugin
JobReplaced(plugin) == plugin

Reschedule(a, t) ==
  /\ request[a].pc = "schedule"
  /\ job' = JobReplaced(request[a].plugin)
  /\ StartTick(t, request[a].plugin, FALSE)
  /\ request' = [request EXCEPT ![a] = IdleRequest]
  /\ UNCHANGED <<stored, onDemand, failures, crashes>>

\* PluginsService.remove: the transaction, then the timer
DeletePlugin(a) ==
  /\ request[a].pc = "idle"
  /\ saved # Deleted
  /\ saved' = Deleted
  /\ cached' = [s \in Screens |-> None]
  /\ Continue(a, "unschedule")
  /\ UNCHANGED <<job, newest, streak, recorded, tick, onDemand, failures, crashes, inARow>>

Unschedule(a) ==
  /\ request[a].pc = "unschedule"
  /\ job' = NoJob
  /\ Continue(a, "idle")
  /\ UNCHANGED <<stored, newest, tick, onDemand, failures, crashes>>

RequestStep(a) ==
  SavePlugin(a) \/ SaveRefused(a) \/ Invalidate(a) \/ Reload(a) \/ Unschedule(a) \/ \E t \in Ticks : Reschedule(a, t)

-----------------------------------------------------------------------------
(* A /display poll of a Screen that has nothing cached, and the server.    *)

OutputDue(s) == saved # Deleted /\ cached[s] = None

BeginOnDemand(s) ==
  /\ onDemand[s] = None
  /\ OutputDue(s)
  /\ onDemand' = [onDemand EXCEPT ![s] = saved]
  /\ UNCHANGED <<stored, job, newest, tick, request, failures, crashes>>

\* cachePluginOutput, whatever is cached by then
CacheOnDemand(s) ==
  /\ onDemand[s] # None
  /\ cached' = InRow([cached EXCEPT ![s] = onDemand[s]], cached)
  /\ onDemand' = [onDemand EXCEPT ![s] = None]
  /\ UNCHANGED <<saved, job, newest, streak, recorded, tick, request, failures, crashes, inARow>>

OnDemandFails(s) ==
  /\ onDemand[s] # None
  /\ onDemand' = [onDemand EXCEPT ![s] = None]
  /\ UNCHANGED <<stored, job, newest, tick, request, failures, crashes>>

\* onModuleInit and scheduleAtBoot, before the first request is served
BootJob == IF saved = Deleted THEN NoJob ELSE Loaded

CrashAndBoot ==
  /\ crashes < MaxCrashes
  /\ crashes' = crashes + 1
  /\ job' = BootJob
  /\ newest' = NoTick
  /\ tick' = [t \in Ticks |-> IdleTick]
  /\ request' = [a \in Requests |-> IdleRequest]
  /\ onDemand' = [s \in Screens |-> None]
  /\ UNCHANGED <<stored, failures>>

Next ==
  \/ \E t \in Ticks : TimerTick(t) \/ TickStep(t) \/ TemplateFails(t) \/ TickFails(t)
  \/ \E a \in Requests : LoadForSave(a) \/ DeletePlugin(a) \/ RequestStep(a)
  \/ \E s \in Screens : BeginOnDemand(s) \/ CacheOnDemand(s) \/ OnDemandFails(s)
  \/ CrashAndBoot

Spec == Init /\ [][Next]_vars

\* The interval's timer fires again and again, and every await settles.
FairSpec ==
  /\ Spec
  /\ WF_vars(\E t \in Ticks : TimerTick(t))
  /\ \A t \in Ticks : WF_vars(TickStep(t))
  /\ \A a \in Requests : WF_vars(RequestStep(a))
  /\ \A s \in Screens : WF_vars(CacheOnDemand(s) \/ OnDemandFails(s))

-----------------------------------------------------------------------------
(* What the code is to guarantee.                                          *)

Versions == 0..MaxSaves
Plugins == [version: Versions \cup {None}, streak: Nat]

\* The shape of the rows and of what ticks and requests carry.
TypeOK ==
  /\ saved \in Versions \cup {Deleted}
  /\ job \in Plugins
  /\ newest \in Ticks \cup {NoTick}
  /\ cached \in [Screens -> Versions \cup {None}]
  /\ streak \in Nat /\ inARow \in Nat
  /\ recorded \in Versions \cup {None}
  /\ tick \in [Ticks -> [pc: {"idle", "fetch", "outcome", "render", "write", "writing", "record"},
                         timer: BOOLEAN, plugin: Plugins, failed: BOOLEAN, todo: SUBSET Screens]]
  /\ request \in [Requests -> [pc: {"idle", "save", "invalidate", "reload", "schedule", "unschedule"}, plugin: Plugins]]
  /\ onDemand \in [Screens -> Versions \cup {None}]
  /\ failures \in 0..MaxFailures /\ crashes \in 0..MaxCrashes

\* Fetch Failure Streak: "the number of consecutive scheduled renders on which
\* [the] request failed", though ticks overlap and each holds an old Data Source.
StreakCountsFailures == streak = inARow

\* The admin's requests have had their effect on the timer.
Settled == \A a \in Requests : request[a].pc \in {"idle", "save"}

\* Once a save has replaced the timer and started its tick, no tick of the Plugin as
\* it was before puts its output over a newer one, however slow it is: only one that
\* was in the middle of its writes when it was overtaken, or a render a poll has
\* begun, still stores anything but the Plugin as saved.
OvertakenWritesNothing ==
  [][\A s \in Screens :
       Settled /\ saved # Deleted /\ cached'[s] \notin {cached[s], None, saved} =>
         \/ CacheOnDemand(s)
         \/ \E t \in Ticks : At(t, {"writing"}) /\ WriteOutput(t, s)]_vars

\* Whatever stale output was cached on the way, a Plugin that is saved no more
\* reaches all of its Screens, and stays there.
SavedPluginReachesItsScreens ==
  \A v \in Versions : <>[](saved = v) => <>[](\A s \in Screens : cached[s] = v)
=============================================================================
