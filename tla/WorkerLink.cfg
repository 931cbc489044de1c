SPECIFICATION FairSpec
CONSTANTS
  Sizes = {1, 2, 3}
  Ceiling = 2
  MaxCalls = 4
  MaxTimeouts = 1
  MaxRejects = 1
  MayCrash = TRUE
  KeepAfterFrame = TRUE
  KeepAfterReconfigure = TRUE
CHECK_DEADLOCK FALSE
INVARIANTS
  TypeOK
  PartiesAgree
  AckFollowsRequest
PROPERTY ServiceSpec CallsAreAnswered OutStableWhileRead
