CONSTANTS
  request = request
  r1 = r1
  r2 = r2
  Listener = listener
  NoReader = none
  Readers <- TwoReaders
  Requests <- OneRequest
  Descriptors = {1, 2}
  MaxFaults = 1
SPECIFICATION Spec
SYMMETRY Swap
INVARIANTS
  TypeOK
  NoDeafChannel
  SleepsOnlyThroughMissedSignal
