SPECIFICATION Spec
CONSTANTS
  a1 = a1  a2 = a2  a3 = a3
  n1 = n1  n2 = n2  n3 = n3  n4 = n4
  NoName = NoName
  NoAddr = NoAddr
  Addr <- MCAddr
  Name <- MCName
  NamesOf <- MCDistinctNames
  Worker = {w1, w2}
  MaxCommands = 2
  Kinds <- MCSayingKinds
  InitialClients <- MCTwoClients
INVARIANT NodesUsedWhileLive
CHECK_DEADLOCK FALSE
