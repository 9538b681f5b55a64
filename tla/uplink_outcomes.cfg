SPECIFICATION MCFairSpec
CONSTANTS
  Threads = {t1, t2}
  Others = {}
  Workers = {w1, w2}
  Readings = {r1, r2}
  Valid = {r1}
  SESSION_MAX_MESSAGES = 1
  MAX_SESSIONS = 2
  MaxOpened = 3
  MaxCrashes = 1
  Faults = {"timeout", "corrupt", "expire", "cloud_restart", "gateway_restart"}
  None = None
INVARIANT TypeOK
PROPERTIES
  Delivers
  EverySendEnds
