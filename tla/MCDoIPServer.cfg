SPECIFICATION FairSpec
CONSTANTS
  Client = {c1, c2}
  None = None
  NumFd = 2
  MaxMessages = 2
  CloseWakes = FALSE
INVARIANTS
  TableMatchesHandlers
  StopLeavesNothing
PROPERTIES
  GoneClientsReleased
CHECK_DEADLOCK FALSE
