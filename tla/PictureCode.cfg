SPECIFICATION Spec
CONSTANTS
  MaxRows = 9
  Threads = {1, 2, 3, 12}
  MaxLine = 4
  Widths = {5, 16, 65}
  MaxFrames = 3
CHECK_DEADLOCK FALSE
INVARIANT RowsAndSums NothingOld
