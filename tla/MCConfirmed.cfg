CONSTANTS
  answer = answer
  update = update
  detailed = detailed
  state = state
  bad = bad
  reset = reset
  created = created
  Messages = {answer, created}
  Kind <- MCKind
  Refers <- MCRefers
  LargeMessages = {}
  MaxUnacknowledgedMessageCount = 2
  HighPriorityTraffic = TRUE
  BadPackets = FALSE
  MaxSession = 1
  MaxTransport = 1
  MaxConnection = 2
  MaxContainer = 1
  MaxQueue = 1
  MaxOutgoing = 1
SPECIFICATION FairSpec
PROPERTIES
  EventuallyConfirmed
