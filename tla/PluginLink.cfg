SPECIFICATION Spec
CONSTANTS
  MaxPipelines = 2
  MaxResults = 3
  MaxAge = 1
  Stall = 2
CHECK_DEADLOCK FALSE
INVARIANT TypeOK ZeroCopyIfCoherent
PROPERTY DrawnWhole StalledUncovers
