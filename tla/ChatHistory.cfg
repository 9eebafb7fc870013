SPECIFICATION Spec
CONSTANTS
  MAX_MSGS = 3
  CHAT_HISTORY_SIZE = 2
  Sayer = {s1, s2}
  Joiner = {j1}
  MaxSays = 4
INVARIANTS LoneSaysRecorded NothingMissed
CHECK_DEADLOCK FALSE
