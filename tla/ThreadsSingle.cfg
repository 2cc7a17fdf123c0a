CONSTANTS
  w1 = w1  w2 = w2
  main = main  other = other
  j1 = j1  j2 = j2
  none = none
  Workers = {w1, w2}
  Clients = {main, other}
  Main = main
  NSlots = 2
  Jobs = {j1, j2}
  MaxItems = 2
  Cnt <- SingleCnt
  Parts <- SingleParts
  WithFree = {j1}
  Waited = {j1}
  None = none
SPECIFICATION FairSpec
INVARIANTS TypeOK
PROPERTIES ImplementsJobPool WaitSound WaitReturns
CHECK_DEADLOCK FALSE
