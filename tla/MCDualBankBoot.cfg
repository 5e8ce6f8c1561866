\* Interrupted boots: the power may fail at any step and one byte of the DFLASH
\* record may change once.
CONSTANTS
  MAX_BOOT_ATTEMPTS = 3
  CntMod = 5
  Faults = {"none", "crc"}
  MaxLosses = 2
  MaxCorruptions = 1
SPECIFICATION FairSpec
INVARIANTS
  BootSound
PROPERTIES
  HealthyAppKept
  HealthyStage2Kept
  RefinesVerifiedBoot
  BootsWheneverItCan
CHECK_DEADLOCK FALSE
