SPECIFICATION Spec
CONSTANTS
  Threads = {t1, t2}
  SESSION_TTL_S = 8
  RENEW_MARGIN_S = 6
  CLOUD_TIMEOUT_S = 1
  Pause = 1
  MaxClock = 14
  None = None
SYMMETRY Symmetry
INVARIANT
  NeverDiesInTransit
PROPERTY NotRenewedEarly
