CONSTANTS
  request = request
  background = background
  p1 = p1
  p2 = p2
  Nobody = Nobody
  NoPrefix = NoPrefix
  Digits = Digits
  Senders <- AllSenders
  Requesters <- TheRequest
  Prefixes <- TwoPrefixes
  SpuriousWakeups = FALSE
  MaxCommands = 3
  Mishaps = {"fault"}
  MaxMishaps = 1
SPECIFICATION FairSpec
PROPERTIES
  AnsweredSendersReturn
  ClosedChannelReleases
CHECK_DEADLOCK FALSE
