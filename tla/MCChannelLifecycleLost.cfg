CONSTANTS
  request = request
  r1 = r1
  r2 = r2
  Listener = listener
  NoReader = none
  Readers <- TwoReaders
  Requests = {}
  Descriptors = {1, 2}
  MaxFaults = 1
SPECIFICATION FairSpec
PROPERTY LostChannelIsReopened
CHECK_DEADLOCK FALSE
