SPECIFICATION FairSpec
CONSTANTS
  NSlots = 3
  Frames = 2
  MaxRuns = 4
  Acts <- CloseActs
  None = none
PROPERTY Served
