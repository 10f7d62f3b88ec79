SPECIFICATION FairSpec
CONSTANTS
  Setters = {s1, s2}
  MaxTimers = 2
  MaxTime = 2
  Delays = {0, 1}
  MaxStarts = 2
INVARIANTS
  TypeOK
  SleepsOnlyIfNothingToDo
PROPERTIES
  ImplementsTimerService
  TimersEnd
  JoinReturns
CHECK_DEADLOCK FALSE
