\* Lockouts across wraps of the tick, and downloads whose block counter wraps,
\* whose writes fail and that overrun the announced size.
CONSTANTS
  ATTEMPTS = 2
  DELAY = 2
  TickMod = 4
  SeqMod = 3
  Sizes = {0, 2}
  Lens = {1, 2}
  MaxBytes = 3
  MaxBlocks = 3
SPECIFICATION Spec
INVARIANTS
  ProgrammingNeedsOwnKey
  BlocksInOrder
PROPERTIES
  LockoutHolds
  LockoutEnds
  ExitMeansComplete
