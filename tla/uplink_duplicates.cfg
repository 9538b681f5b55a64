SPECIFICATION MCSpec
CONSTANTS
  Threads = {t1}
  Others = {o1}
  Workers = {w1, w2}
  Readings = {r1, r2}
  Valid = {r1, r2}
  SESSION_MAX_MESSAGES = 2
  MAX_SESSIONS = 2
  MaxOpened = 3
  MaxCrashes = 0
  Faults = {"timeout", "redeliver", "corrupt", "expire"}
  None = None
SYMMETRY Symmetry
INVARIANTS
  BurnedOnlyByItsMessage
  SessionsBounded
  StoredOncePerMessage
 
