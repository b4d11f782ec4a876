CONSTANTS
  MaxFaults = 2
  MaxCalls = 2
  MaxPings = 1
SPECIFICATION Spec
CHECK_DEADLOCK FALSE
INVARIANTS
  ReconnectsAfterClose
  LockIsOwed
PROPERTIES
  RequestIsServed
  StopClosesSockets
