CONSTANTS
  s1 = s1
  s2 = s2
  s3 = s3
  p1 = p1
  p2 = p2
  a1 = a1
  fw1 = fw1
  fw2 = fw2
  NoScreen = NoScreen
  NoFirmware = NoFirmware
  Screens = {s1, s2, s3}
  HtmlScreens = {s2}
  ExternalScreens = {s3}
  Polls = {p1}
  Admins = {}
  Functions = {"identify", "rewind"}
  Firmware = {fw1, fw2}
  Changes <- NoChanges
  Events = {"schedule", "pick", "delete", "add", "refresh", "sleep"}
  MaxEvents = 2
  MaxFailures = 1
  MaxKeys = 0
  StalePatches = FALSE
SPECIFICATION Spec
INVARIANTS TypeOK AtMostOneActive TurnHeldUntilAnswered NothingShownOnlyIfAllPassedOver PickServedOrLapsed
