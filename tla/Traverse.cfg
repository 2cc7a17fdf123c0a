SPECIFICATION FairSpec
CONSTANTS
  NumNodes = 4
  Nets <- MCNets
  MaxStack = 5
  MaxFeedback = 2
INVARIANTS TypeOK Ordered Complete
PROPERTIES Terminates
CHECK_DEADLOCK FALSE
