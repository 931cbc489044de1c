SPECIFICATION FairSpec
CONSTANTS
  MaxPipelines = 1
  MaxResults = 1
  MaxAge = 1
  Stall = 2
CHECK_DEADLOCK FALSE
PROPERTY FrozenNever
