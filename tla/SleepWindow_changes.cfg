CONSTANTS
  Day = 8
  HOUR = 2
  MIN_SLEEP_REFRESH_RATE = 2
  Rates = {1, 3}
  Days = 5
SPECIFICATION Spec
CHECK_DEADLOCK FALSE
INVARIANT NextAgreesWithLast
