SPECIFICATION FairSpec
CONSTANTS
  Id = {r1, r2}
  Ecu = {e1, e2}
  TIMEOUT = 1
  MAX_RETRIES = 2
  MaxAge = 3
  MaxRequests = 2
INVARIANTS
  AnsweredOnce
  RetriesSound
PROPERTIES
  EveryRequestAnswered
