SPECIFICATION FairSpec
CONSTANTS
  MaxCommits = 2
  MaxEvents = 2
CHECK_DEADLOCK FALSE
INVARIANT TypeOK
PROPERTY CopiedWhole InOrder CatchesUp
