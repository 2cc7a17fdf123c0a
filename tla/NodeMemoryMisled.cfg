SPECIFICATION Spec
CONSTANTS
  a = a
  b = b
  c = c
  d = d
  s1 = s1
  s2 = s2
  s3 = s3
  k1 = k1
  k2 = k2
  k3 = k3
  k4 = k4
  NumNodes = 5
  Bufs <- MCBufs
  NoBuf = NoBuf
  Shared <- MCShared
  Kept <- MCKept
  NoUnit = NoUnit
  Nets <- MCMisled
  MaxRuns = 3
SYMMETRY Symmetric
INVARIANT ReadsHold
CHECK_DEADLOCK FALSE
