SPECIFICATION FairSpec
CONSTANTS
  Client = {c1}
  None = None
  NumFd = 1
  MaxMessages = 1
  CloseWakes = TRUE
PROPERTIES
  StopReturns
CHECK_DEADLOCK FALSE
