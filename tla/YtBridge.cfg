SPECIFICATION FairSpec
CONSTANTS
  Configs <- MCConfigs
  Multiplier = 2
  OutSize = 5
  MaxFrames = 3
  MaxConfigs = 2
  MaxConns = 2
  MaxFaults = 1
CHECK_DEADLOCK FALSE
INVARIANTS
  TypeOK
  ConnectionHolds
PROPERTY NeverInterrupted CaptureGoesOn NewestIsAnswered
