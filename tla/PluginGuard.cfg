SPECIFICATION GuardFairSpec
CONSTANTS
  Trip = 3
  MaxHappened = 6
CHECK_DEADLOCK FALSE
INVARIANT GuardTypeOK UnloadedIsGone
 
