SPECIFICATION HSpec
CONSTANTS
  Keys <- MCKeys
  NoKey = "none"
  Displays = {"dsp", "dspy"}
  NumSlots = 4
  NumConns = 2
  Tokens <- MCTokens
  Class <- MCClass
  Params = {0, 1, 2, 3, 4, 5}
  Default = 0
  Preview = "dspy"
  WithParam = {"fil"}
  UserValues = {0, 1}
  Configs <- MCConfigs
  ItemMax = 7
  MaxEdits = 3
  Oldest = 3
  MaxValue = 2
  LookBack = 2
INVARIANTS BringsBack RoundTrip
