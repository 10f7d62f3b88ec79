CONSTANTS
  MaxMessages = 3
  MaxRestarts = 1
SPECIFICATION Spec
INVARIANT FreshProtected
CHECK_DEADLOCK FALSE
