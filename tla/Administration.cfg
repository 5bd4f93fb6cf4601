CONSTANTS
  d1 = d1
  d2 = d2
  x1 = x1
  x2 = x2
  y1 = y1
  m1 = m1
  m2 = m2
  s1 = s1
  s2 = s2
  t1 = t1
  p1 = p1
  p2 = p2
  a1 = a1
  token = token
  archived = archived
  own = own
  Damaged = Damaged
  Redacted = Redacted
  Rest = Rest
  Ids = {x1, x2, y1}
  Macs = {m1, m2}
  Screens = {s1, s2, t1}
  Instances <- MCInstances
  Archives <- MCArchives
  MaxKeys = 1
  Values = {1, 2}
  MaxSaves = 3
  MaxLoads = 3
  MaxLosses = 1
  Day = 8
  HOUR = 2
  MIN_SLEEP_REFRESH_RATE = 2
  Rates = {1, 3}
  Days = 5
  Week = 3
  Weekdays = {{}, {0}, {0, 2}}
  DateRanges <- MCDateRanges
  Last = 31
  Devices = {d1}
  Models = {"og", "x"}
  ModelOf <- OneModel
  FeedLog <- TwoFolders
  Syncs = {f1}
  Uploads = {u1, u2}
  Versions = {2}
  AutoUpdates = {FALSE}
  Patches = {"target", "push", "clear"}
  CatchUps = FALSE
  NoSync = NoSync
  MaxFirmwares = 3
  MaxFaults = 1
SYMMETRY Alike
SPECIFICATION AdministrationSpec
CHECK_DEADLOCK FALSE
INVARIANTS BinariesMatchRows PushHasTarget PolicyReachesEveryone HardwareStaysKnown ImagesHaveScreens SentIsShown EndsAsTheClockReads WindowsBelongToTheirDay
PROPERTIES RestoredAsArchived
