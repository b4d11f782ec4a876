CONSTANTS
  answer = answer
  update = update
  detailed = detailed
  state = state
  bad = bad
  reset = reset
  created = created
  Messages = {answer, detailed, state, bad, reset}
  Kind <- MCKind
  Refers <- MCRefers
  LargeMessages = {answer}
  MaxUnacknowledgedMessageCount = 1
  HighPriorityTraffic = TRUE
  BadPackets = TRUE
  MaxSession = 3
  MaxTransport = 3
  MaxConnection = 2
  MaxContainer = 2
  MaxQueue = 1
  MaxOutgoing = 1
SPECIFICATION Spec
INVARIANTS
  TypeOK
  NotForgotten
  ConfirmedWereHandled
  HandledInOwnSession
  ResendsAreMissing
  NoForgottenResend
