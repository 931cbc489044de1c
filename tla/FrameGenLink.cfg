SPECIFICATION FairSpec
CONSTANTS
  MaxCalls = 5
  MaxTimeouts = 2
  MaxStalls = 1
  MayDie = TRUE
  Callers = {"live", "bridge"}
CHECK_DEADLOCK FALSE
INVARIANT TypeOK BuffersHold
PROPERTY ServiceSpec CallsReturn CloseEndsHost
