------------------------------- MODULE MCPlugins -------------------------------
(***************************************************************************)
(* PluginRefresh, MashupRender and RecipeUpdate for TLC.  They share no    *)
(* state, so a step of one changes nothing the properties of another speak *)
(* of: a behaviour is one of a single component, `part`, and the others    *)
(* rest.                                                                   *)
(***************************************************************************)
EXTENDS PluginRefresh

CONSTANTS
  Rest,          \* what the variables of a component at rest hold
  MashupPlugins, Markups, SignalOf, Renders, Edited, MaxUpdates, MaxRefreshes,
  UpdateItems, Scalars, Contents, MaxChanges, MaxVersions, MaxFaults

VARIABLES
  part,
  output, stale, edition, slot, read, kept, image, render, refreshes,
  upstream, local, snapshot, page, run, asked, changes, versions, faults

-----------------------------------------------------------------------------
\* In the run a markup is named for the Render Signal it raises.
Signals == [m \in Markups |-> m]

Mashup == INSTANCE MashupRender
  WITH cached <- kept, Plugins <- MashupPlugins, NoMarkup <- Rest, Overlap <- Edited
Recipe == INSTANCE RecipeUpdate WITH Keys <- UpdateItems, None <- Rest

ASSUME PluginsAssumptions == Mashup!MashupRenderAssumptions /\ Recipe!RecipeUpdateAssumptions

-----------------------------------------------------------------------------
mashupOnly == <<output, stale, edition, slot, read, kept, image, render, refreshes>>
recipeOnly == <<upstream, local, snapshot, page, run, asked, changes, versions, faults>>
pluginsVars == <<part, vars, mashupOnly, recipeOnly>>

MashupRests ==
  /\ output = Rest /\ stale = Rest /\ edition = Rest /\ slot = Rest /\ read = Rest /\ kept = Rest
  /\ image = Rest /\ render = Rest /\ refreshes = Rest
RecipeRests ==
  /\ upstream = Rest /\ local = Rest /\ snapshot = Rest /\ page = Rest /\ run = [pc |-> "rests"]
  /\ asked = Rest /\ changes = Rest /\ versions = Rest /\ faults = Rest

PluginsInit ==
  /\ part \in {"refresh", "mashup", "recipe"}
  /\ Init
  /\ IF part = "mashup" THEN Mashup!Init ELSE MashupRests
  /\ IF part = "recipe" THEN Recipe!Init ELSE RecipeRests

RefreshMoves == part = "refresh" /\ Next /\ UNCHANGED <<part, mashupOnly, recipeOnly>>
MashupMoves == part = "mashup" /\ Mashup!Next /\ UNCHANGED <<part, vars, recipeOnly>>
RecipeMoves == part = "recipe" /\ Recipe!Next /\ UNCHANGED <<part, vars, mashupOnly>>

\* The fairness of PluginRefresh, for its own part
PluginsSpec ==
  /\ PluginsInit
  /\ [][RefreshMoves \/ MashupMoves \/ RecipeMoves]_pluginsVars
  /\ WF_vars(part = "refresh" /\ \E t \in Ticks : TimerTick(t))
  /\ \A t \in Ticks : WF_vars(part = "refresh" /\ TickStep(t))
  /\ \A a \in Requests : WF_vars(part = "refresh" /\ RequestStep(a))
  /\ \A s \in Screens : WF_vars(part = "refresh" /\ (CacheOnDemand(s) \/ OnDemandFails(s)))

-----------------------------------------------------------------------------
\* Ticks that overlap leave the rows as ticks one by one would: each failed fetch is
\* counted, and what an overtaken tick works on is not put over what is newer
\* (PluginRefresh).
OverlappingTicksDoNoHarm == []StreakCountsFailures /\ OvertakenWritesNothing
\* A Plugin that is saved no more reaches its Screens (PluginRefresh).
SavedIsReached == part = "refresh" => SavedPluginReachesItsScreens
\* Once the slots' signals count as read they are of what is cached (MashupRender).
SignalsAreOfCached == part = "mashup" => Mashup!SignalsAreOfCached
\* No slot shows what its Plugin asked not to be shown (MashupRender).
NothingSignalledIsShown == part = "mashup" => Mashup!NothingSignalledIsShown
\* An apply that ends early loses nothing that was chosen (RecipeUpdate).
ChosenIsOfferedAgain == part = "recipe" => Recipe!ChosenIsOfferedAgain
\* An apply writes what was chosen, as the preview showed it (RecipeUpdate).
OnlyWhatWasShown == Recipe!OnlyWhatWasShown
=============================================================================
