SPECIFICATION FairSpec
CONSTANTS
  Calls = {1, 2}
  MAX_STORED_READINGS = 3
  MaxReadings = 5
  None = None
INVARIANTS
  StableMeansQuiet
  MeasuredIsStored
PROPERTIES
  DisplayNeverGoesBack
  DisplayCatchesUp
CHECK_DEADLOCK FALSE
