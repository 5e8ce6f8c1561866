SPECIFICATION SimSpec
CONSTANTS
  Blocks = 2
  MaxWrites = 3
  Seed = {1, 2}
  CounterMax = 2
  MaxTransfers = 4
INVARIANTS
  ActiveBankMarkedValid
  SeedUsedOnce
  BlocksInSequence
PROPERTIES
  RunningBankUntouched
  DownloadProved
CHECK_DEADLOCK FALSE
