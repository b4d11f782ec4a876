CONSTANTS
  caller = caller
  callee = callee
  mute = mute
  Peers = {caller, callee}
  Other <- MCOther
  Messages = {mute}
  Owner <- MCOwner
  Window = 3
  KeepSeqs = 2
  SeqMod = 16
  MaxRaces = 1
  MaxSeq <- MCMaxSeq
SPECIFICATION Spec
CHECK_DEADLOCK FALSE
INVARIANTS
  TypeOK
  WindowExact
  ProcessedOnce
  AckedOrNextReceived
