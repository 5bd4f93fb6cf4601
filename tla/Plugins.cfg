CONSTANTS
  Rest = Rest
  MashupPlugins = {p1, p2}
  Markups = {"none", "skip", "hold"}
  SignalOf <- Signals
  Renders = {r1}
  Edited = FALSE
  MaxUpdates = 1
  MaxRefreshes = 2
  UpdateItems = {"name", "full", "source"}
  Scalars = {"name"}
  Contents = {1, 2}
  MaxChanges = 1
  MaxVersions = 1
  MaxFaults = 1
  NoTick = NoTick
  Screens = {s1}
  Ticks = {t1, t2}
  Requests = {a1}
  StaleSaves = FALSE
  MaxSaves = 1
  MaxStreak = 2
  MaxFailures = 1
  MaxCrashes = 1
SPECIFICATION PluginsSpec
CHECK_DEADLOCK FALSE
INVARIANTS SignalsAreOfCached NothingSignalledIsShown ChosenIsOfferedAgain
PROPERTIES OverlappingTicksDoNoHarm SavedIsReached OnlyWhatWasShown
