SPECIFICATION Spec
CONSTANTS
  Extra = {}
  Ceiling = 2
  MaxEvents = 2
CHECK_DEADLOCK FALSE
INVARIANT WindowWithinCeiling
