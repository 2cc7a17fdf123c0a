SPECIFICATION FairSpec
CONSTANTS
  NSlots = 3
  Frames = 2
  MaxRuns = 4
  Acts <- PlainActs
  None = none
PROPERTIES RecordsIdle Served ReachesDisplay
