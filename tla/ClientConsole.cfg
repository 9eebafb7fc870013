SPECIFICATION FairSpec
CONSTANTS
  Handler = {h1, h2}
  MaxAsked = 1
  MaxNodes = 2
  MaxSent = 1
  Nobody = Nobody
INVARIANTS InputNotStranded NothingBeforeWelcome
PROPERTY ConsoleAttended
CHECK_DEADLOCK FALSE
