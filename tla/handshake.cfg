SPECIFICATION FairSpec
CONSTANTS
  MaxFaults = 5
  None = None
INVARIANTS
  Authentic
  ProofBindsRequest
  ServedKeyPersists
PROPERTY RecoversWithKeyFile
CHECK_DEADLOCK FALSE
