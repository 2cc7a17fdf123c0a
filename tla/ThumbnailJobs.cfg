CONSTANTS
  w1 = w1  w2 = w2
  p1 = p1  p2 = p2
  None = None  Bomb = Bomb
  Workers = {w1, w2}
  Photos = {p1, p2}
  Directories <- TwoDirectories
  Writable = {p1}
  Fragile = {p2}
  MaxImages = 2
  MaxLists = 2
  MaxVersion = 1
  MaxActs = 2
SYMMETRY WorkerSymmetry
SPECIFICATION Spec
INVARIANTS DbSafe CollAlive Fresh AbortWaitsForRender
CHECK_DEADLOCK FALSE
