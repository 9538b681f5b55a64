SPECIFICATION MCSpec
CONSTANTS
  Threads = {t1, t2}
  Others = {}
  Workers = {w1, w2}
  Readings = {r1, r2, r3}
  Valid = {r1, r2}
  SESSION_MAX_MESSAGES = 2
  MAX_SESSIONS = 2
  MaxOpened = 3
  MaxCrashes = 1
  Faults = {"timeout", "renew", "cloud_restart"}
  None = None
SYMMETRY Symmetry
INVARIANTS
  NonceUnique
  CapNeverRefuses
PROPERTY SessionReplacedOnlyWhenUseless
