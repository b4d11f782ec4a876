CONSTANTS
  SlotCount = 3
  MaxUsedSlots = 2
  Step = 60
  FirstDelay = 2
  InitialDelay = 1
  MinMinDelay = 1
  MaxMinDelay = 2
  LossesToReset = 3
  GotPerDelay = 25
  LateToResync = 2
  Garbage = {0}
  MaxFrames = 5
  MaxTicks = 0
  MaxResets = 0
SPECIFICATION Spec
CHECK_DEADLOCK FALSE
PROPERTY
  RecoveredIsLate
