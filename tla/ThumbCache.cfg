CONSTANTS
  None = None
  Count = 5
  Size <- Sizes
  Broken = {1}
  ThumbMax = 4
  HeapSize = 3
  Iv = 2
  Rows = 3
  Frames = 3
  MaxActs = 2
SPECIFICATION FairSpec
INVARIANTS LruChain ShowsOwn
PROPERTIES RebuildWaits AllLoaded
