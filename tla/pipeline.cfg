SPECIFICATION PipelineFairSpec
CONSTANTS
  Devices = {d1}
  MaxConns = 2
  MaxSeq = 3
  MaxReboots = 1
  MaxRestarts = 1
  Faults = {"broken_link", "reboot", "oversized", "uplink", "restart"}
  None = None
CHECK_DEADLOCK FALSE
INVARIANTS
  AcceptedIncreasing
  StaleOnlyWhenOvertaken
  FramesAccounted
  CountsBracketStore
  GoesBackOnlyAfterFailure
PROPERTIES
  HopUsedOnce
  RebootedDeviceIsHeard
