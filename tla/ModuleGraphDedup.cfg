SPECIFICATION Spec
CONSTANTS
  Keys <- MCKeys
  NoKey = "none"
  Displays = {"dsp"}
  NumSlots = 3
  NumConns = 2
  Tokens <- MCTokens
  Class <- MCClass
  Params = {0}
  Default = 0
INVARIANTS Deduplicated
