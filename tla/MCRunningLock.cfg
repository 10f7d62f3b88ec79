CONSTANTS
  MaxMessages = 5
  MaxRestarts = 1
SPECIFICATION FairSpec
INVARIANTS
  TypeOK
  HeldWhileCounted
  FreeWhenAllAcked
  CountsTheSharing
  FreshProtectedUnlessStray
PROPERTY ArmedLockIsReleased
CHECK_DEADLOCK FALSE
