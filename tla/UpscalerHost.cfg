SPECIFICATION FairSpec
CONSTANTS
  Methods = {"dlssg", "fsr3"}
  Pipelined = {"dlssg"}
  MaxBehind = 2
  MaxFrames = 3
  MaxEvents = 2
CHECK_DEADLOCK FALSE
INVARIANT TypeOK NothingStale
PROPERTY DisplayOrder CallsReturn ScreenCatchesUp
