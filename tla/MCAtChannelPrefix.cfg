CONSTANTS
  request = request
  background = background
  p1 = p1
  p2 = p2
  Nobody = Nobody
  NoPrefix = NoPrefix
  Digits = Digits
  Senders <- OneSender
  Requesters <- TheRequest
  Prefixes <- TwoPrefixes
  SpuriousWakeups = FALSE
  MaxCommands = 3
  Mishaps = {"urc"}
  MaxMishaps = 1
SPECIFICATION Spec
INVARIANT CollectedLinesMatchPrefix
CHECK_DEADLOCK FALSE
