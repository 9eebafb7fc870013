SPECIFICATION FairSpec
CONSTANTS
  a1 = a1  a2 = a2
  n1 = n1  n2 = n2  n3 = n3
  NoName = NoName
  NoAddr = NoAddr
  Addr <- MCAddr
  Name <- MCName
  Command <- MCCommand
  INACTIVITY_THRESHOLD = 2
  PING_TIMEOUT = 2
  MaxLag = 1
  MaxNodes = 2
  MaxPending = 1
  InitialClients <- MCClients
INVARIANTS TypeOK TimeToAnswer
PROPERTY SilentIsRemoved
CHECK_DEADLOCK FALSE
