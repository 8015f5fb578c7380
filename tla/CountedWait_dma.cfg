SPECIFICATION FairSpec
CONSTANTS
  User = {u1, u2}
  Waiter = {w1}
  MaxUses = 1
  MaxSpurious = 1
  Locked = FALSE
  None = None
CHECK_DEADLOCK FALSE
PROPERTIES WaitsReturn
