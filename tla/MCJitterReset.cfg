CONSTANTS
  SlotCount = 3
  MaxUsedSlots = 2
  Step = 60
  FirstDelay = 2
  InitialDelay = 1
  MinMinDelay = 1
  MaxMinDelay = 2
  LossesToReset = 3
  GotPerDelay = 1
  LateToResync = 2
  Garbage = {0, 3}
  MaxFrames = 3
  MaxTicks = 2
  MaxResets = 1
SPECIFICATION Spec
CHECK_DEADLOCK FALSE
INVARIANT
  ReuseIsValid
