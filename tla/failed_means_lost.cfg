SPECIFICATION Spec
CONSTANTS
  Threads = {t1}
  Others = {}
  Workers = {w1}
  Readings = {r1}
  Valid = {r1}
  SESSION_MAX_MESSAGES = 1
  MAX_SESSIONS = 1
  MaxOpened = 1
  MaxCrashes = 0
  Faults = {"timeout"}
  None = None
CHECK_DEADLOCK FALSE
INVARIANT FailedMeansLost
