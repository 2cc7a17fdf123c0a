CONSTANTS
  None = None
  Count = 4
  Size <- Sizes
  Broken = {1}
  ThumbMax = 5
  HeapSize = 10
  Iv = 2
  Rows = 4
  Frames = 3
  MaxActs = 0
SPECIFICATION FairSpec
PROPERTY NoneBehind
