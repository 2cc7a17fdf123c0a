SPECIFICATION Spec
CONSTANTS
  NSlots = 3
  Frames = 2
  MaxRuns = 4
  Acts <- EveryAct
  None = none
CHECK_DEADLOCK FALSE
INVARIANTS FrameIntact AlwaysASlot DisplayHasImage
PROPERTY SlotIdle
