SPECIFICATION FairSpec
CONSTANTS
  Kinds = {"submit", "upscale", "encode"}
  MaxCalls = 6
  MaxTimeouts = 2
  MayDie = TRUE
CHECK_DEADLOCK FALSE
INVARIANT Consistent
PROPERTY ServiceSpec CallsReturn
