CONSTANTS
  NoLaunch = NoLaunch
  Renders = {r1, r2, r3}
  Launches = {b1, b2, b3, b4}
  MAX_CONCURRENT_PAGES = 2
  MaxBreaks = 2
  Screens = {s1, s2, s3}
  Ops = {o1, o2}
  Kinds = {"add", "assign", "delete", "reorder"}
  Overlaps <- Harmless
  NoOp = NoOp
  Devices = {d1}
  Models = {"og", "x"}
  ModelOf <- OneModel
  FeedLog <- Withdrawn
  Versions = {2}
  AutoUpdates = {TRUE}
  Patches = {}
  CatchUps = FALSE
  MaxFirmwares = 3
  MaxFaults = 1
  Syncs = {y1}
  Uploads = {u1}
  NoSync = NoSync
SPECIFICATION BackgroundSpec
CHECK_DEADLOCK FALSE
INVARIANTS SlotsAccounted NoStrayBrowser Sequential
PROPERTIES EveryRenderEnds ListSpec FeedIsFollowed
