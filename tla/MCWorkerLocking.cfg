SPECIFICATION FairSpec
CONSTANTS
  w1 = w1
  w2 = w2
  w3 = w3
  w4 = w4
  Thread <- MCThreadMix
  Role <- MCRoleMix
  MaxSpurious = 1
INVARIANTS
  CountersExact
  MutualExclusion
  WriterNotStranded
PROPERTIES
  WriterPriority
  ImplementsLock
  WritersGetIn
CHECK_DEADLOCK FALSE
