\* A power loss between the switch and the clearing of the pending flag.
CONSTANTS
  MAX_BOOT_ATTEMPTS = 3
  CntMod = 8
  Faults = {"none"}
  MaxLosses = 1
  MaxCorruptions = 0
SPECIFICATION Spec
PROPERTY OtaReachesTarget
CHECK_DEADLOCK FALSE
