\* Interrupted boots and updates, with one corruption of the DFLASH record.
CONSTANTS
  MAX_BOOT_ATTEMPTS = 2
  CntMod = 4
  Faults = {"none", "crc"}
  MaxLosses = 2
  MaxCorruptions = 1
SPECIFICATION FairSpec
INVARIANTS
  HandoverSealed
PROPERTIES
  HealthyAppKept
  OtaEventuallyProcessed
  RefinesVerifiedBoot
  BootsWheneverItCan
CHECK_DEADLOCK FALSE
