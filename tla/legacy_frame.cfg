SPECIFICATION Spec
CONSTANTS
  Ids <- MCIds
  MAX_FRAME_BYTES = 86
  GATEWAY_MAX_FRAME_BYTES = 1376
  BLOCK = 4
  MAX_ID_LENGTH = 12
  Base = 2
  MaxSeq = 17
  MaxUptime = 8
CHECK_DEADLOCK FALSE
INVARIANTS
  FitsUpToCapacity
  OneFate
