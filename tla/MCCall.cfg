CONSTANTS
  Relays = {1}
  MaxPeers = 1
  MaxPackets = 5
  MaxCalls = 1
SPECIFICATION Spec
CHECK_DEADLOCK FALSE
INVARIANTS
  EstablishedAfterInitAck
  RelayToFallBackOn
PROPERTY
  SilentCallFails
