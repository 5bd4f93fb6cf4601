CONSTANTS
  r1 = r1
  s1 = s1
  Rules = {r1}
  SubjectsOf <- OneRule
  Levels = {"bad", "band", "good", "unknown"}
  RemindersOn = TRUE
  Sweeps = {w1, w2}
  NoSweep = NoSweep
  MaxAlerts = 2
  MaxFaults = 1
SPECIFICATION FairSpec
CHECK_DEADLOCK FALSE
INVARIANTS OneActivePerSubject AnnouncedOnce
PROPERTIES RemindersKeepTheInterval ResolutionIsAnnounced
