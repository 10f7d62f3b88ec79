CONSTANTS
  request = request
  background = background
  p1 = p1
  p2 = p2
  Nobody = Nobody
  NoPrefix = NoPrefix
  Digits = Digits
  Senders <- AllSenders
  Requesters <- TheRequest
  Prefixes <- TwoPrefixes
  SpuriousWakeups = TRUE
  MaxCommands = 3
  Mishaps = {"urc", "timeout", "fault"}
  MaxMishaps = 1
SYMMETRY PrefixSymmetry
SPECIFICATION Spec
INVARIANTS
  TypeOK
  OneOwner
  CrossedAnswersWereAbandoned
  PromptsGetTheirPdu
  LinesLostOnlyWhenDisturbed
PROPERTY ImplementsSlot
CHECK_DEADLOCK FALSE
