SPECIFICATION FairSpec
CONSTANTS
  w1 = w1
  w2 = w2
  w3 = w3
  w4 = w4
  Thread <- MCThreadPair
  Role <- MCRolePair
  MaxSpurious = 0
PROPERTY SayCompletes
CHECK_DEADLOCK FALSE
