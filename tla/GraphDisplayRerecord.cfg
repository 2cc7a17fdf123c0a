SPECIFICATION Spec
CONSTANTS
  NSlots = 3
  Frames = 2
  MaxRuns = 4
  Acts <- DownloadActs
  None = none
PROPERTY RecordsIdle
