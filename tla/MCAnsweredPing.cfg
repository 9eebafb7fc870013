SPECIFICATION Spec
CONSTANTS
  a1 = a1  a2 = a2
  n1 = n1  n2 = n2  n3 = n3
  NoName = NoName
  NoAddr = NoAddr
  Addr <- MCAddr
  Name <- MCName
  Command <- MCCommand
  INACTIVITY_THRESHOLD = 1
  PING_TIMEOUT = 1
  MaxLag = 0
  MaxNodes = 2
  MaxPending = 1
  InitialClients <- MCClients
PROPERTY AnsweredStays
CHECK_DEADLOCK FALSE
