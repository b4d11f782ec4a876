CONSTANTS
  Producers = {tick, recv, audio}
  BufferCount = 2
  Capacity = 3
  MaxPackets = 5
SPECIFICATION Spec
CHECK_DEADLOCK FALSE
INVARIANTS
  TypeOK
  NeverAborts
  PacketsIntact
  NoBufferLeak
PROPERTIES
  StopReturns
  QueuedIsProcessed
