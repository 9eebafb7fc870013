SPECIFICATION Spec
CONSTANTS
  QUEUE_MSG_SIZE = 512
  MAX_COMMAND_LEN = 50
  MAX_CMD_SIZE = 50
  NAME_SIZE = 20
  MAX_MESSAGE = 256
  MAX_NAME_LEN = 30
  RESPONSE_BUFFER_SIZE = 512
  JOIN_SIZE = 300
  Line <- MCLine
  SenderName <- MCSenderName
INVARIANTS TypeOK ClientCommandSet JoinFits SaysArriveWhole SenderRecognised
CHECK_DEADLOCK FALSE
