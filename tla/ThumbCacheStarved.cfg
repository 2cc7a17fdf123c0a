CONSTANTS
  None = None
  Count = 3
  Size <- Sizes
  Broken = {1}
  ThumbMax = 4
  HeapSize = 10
  Iv = 2
  Rows = 2
  Frames = 3
  MaxActs = 0
SPECIFICATION FairSpec
PROPERTY NoneWaits
