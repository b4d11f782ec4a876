CONSTANTS
  SlotCount = 2
  HistorySize = 2
  Sizes = {1, 3}
  Cwnd = 2
  Timeout = 2
  ActionInterval = 2
  MaxSeq = 4
  MaxTime = 6
SPECIFICATION Spec
CHECK_DEADLOCK FALSE
INVARIANTS
  InflightExact
  EachPacketAccounted
