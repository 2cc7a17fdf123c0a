CONSTANTS
  w1 = w1  w2 = w2
  main = main  other = other
  j1 = j1  j2 = j2
  none = none
  Workers = {w1, w2}
  Clients = {main}
  Main = main
  NSlots = 2
  Jobs = {j1, j2}
  MaxItems = 2
  Cnt <- SingleCnt
  Parts <- SingleParts
  WithFree = {j1}
  Waited = {}
  None = none
SPECIFICATION FairSpec
PROPERTY TaskIsWorkedOn
CHECK_DEADLOCK FALSE
