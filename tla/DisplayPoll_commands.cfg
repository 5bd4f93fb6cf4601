CONSTANTS
  s1 = s1
  s2 = s2
  s3 = s3
  p1 = p1
  p2 = p2
  a1 = a1
  fw1 = fw1
  fw2 = fw2
  NoScreen = NoScreen
  NoFirmware = NoFirmware
  Screens = {s1, s2}
  HtmlScreens = {}
  ExternalScreens = {}
  Polls = {p1}
  Admins = {a1}
  Functions = {"identify", "rewind"}
  Firmware = {fw1, fw2}
  Changes <- OneShots
  Events = {"schedule", "pick", "patch", "regenerate"}
  MaxEvents = 2
  MaxFailures = 1
  MaxKeys = 2
  StalePatches = FALSE
SPECIFICATION FairSpec
INVARIANTS FiresAtMostOnce KeyAgreement
PROPERTIES ClearsOnlyWhatItCarried EveryShowableScreenIsReached
