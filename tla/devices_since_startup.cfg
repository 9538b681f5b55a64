SPECIFICATION Spec
CONSTANTS
  Workers = {w1, w2}
  Devices = {d1, d2}
  MAX_STORED_READINGS = 3
  MaxReadings = 5
  MaxClock = 1
  None = None
SYMMETRY Symmetry
INVARIANT EveryDeviceListed
