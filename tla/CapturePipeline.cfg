SPECIFICATION FairSpec
CONSTANTS
  Extra = {extra}
  Ceiling = 2
  MaxEvents = 2
CHECK_DEADLOCK FALSE
INVARIANT TypeOK NewerAndFits
PROPERTY FramesFlow
