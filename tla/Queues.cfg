CONSTANTS
  Runs = {r1, r2, r3, r4}
  Keys = {k1, k2}
  NoKey = NoKey
  NoRun = NoRun
  Posts = {p1, p2, p3}
  Arrays = {p3}
  StreamLimit = 1
  None = None
  Screens = {s1}
  Others = {o1}
  ClearBetween = FALSE
  MaxSaves = 1
  Polls = {q1, q2}
  Incomplete = {}
  SaveBetween = FALSE
  MaxPastings = 1
  MaxRefreshes = 2
  MaxFaults = 1
SPECIFICATION QueuesSpec
CHECK_DEADLOCK FALSE
INVARIANTS DrawnIsStored StoredIsOfPasted SpentOnlyAfterUnkept
PROPERTIES LockSpec EveryRunIsServed PayloadSpec
