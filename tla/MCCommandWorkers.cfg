SPECIFICATION Spec
CONSTANTS
  a1 = a1  a2 = a2  a3 = a3
  n1 = n1  n2 = n2  n3 = n3  n4 = n4
  NoName = NoName
  NoAddr = NoAddr
  Addr <- MCAddr
  Name <- MCName
  NamesOf <- MCDistinctNames
  Worker = {w1, w2, w3}
  MaxCommands = 3
  Kinds <- AllKinds
  InitialClients <- MCTwoClients
INVARIANTS ListMatchesHeap BroadcastStartsAtHead
PROPERTIES AdminSuccession DisconnectRemovesSender NullOnlyForRemoved AdminsKick ListStableForReaders
CHECK_DEADLOCK FALSE
