CONSTANTS
  None = None
  Count = 4
  Size <- Sizes
  Broken = {}
  ThumbMax = 4
  HeapSize = 10
  Iv = 2
  Rows = 2
  Frames = 3
  MaxActs = 0
SPECIFICATION Spec
INVARIANT Corresponds
