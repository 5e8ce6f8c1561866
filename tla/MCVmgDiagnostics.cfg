SPECIFICATION FairSpec
CONSTANTS
  Client = {c1, c2}
  Reader = {c1}
  None = None
  Seed = {1, 2}
  AttemptMod = 4
  SendBuffer = 1
INVARIANTS
  AnswersInOrder
  KeyRefusedOnlyAfterInterference
PROPERTIES
  SeedsStopAtLimit
  ReadersServed
CHECK_DEADLOCK FALSE
