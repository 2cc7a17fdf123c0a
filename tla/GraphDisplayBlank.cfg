SPECIFICATION Spec
CONSTANTS
  NSlots = 3
  Frames = 2
  MaxRuns = 4
  Acts <- PlainActs
  None = none
CHECK_DEADLOCK FALSE
INVARIANT AlwaysABuffer
