------------------------------ MODULE BootCommon ------------------------------
(***************************************************************************)
(* The data both TC375 bootloaders share (boot_common.h): two banks, the   *)
(* boot configuration kept in DFLASH, and what can be wrong with an image. *)
(*                                                                         *)
(* An image is abstracted to the first check it fails: "none" is an image  *)
(* every check accepts.  The CRC stored with the configuration is          *)
(* abstracted to the configuration it was computed from (crc = cfg iff     *)
(* calculate_crc32 over the stored fields gives the stored CRC), so a      *)
(* field written without recomputing the CRC is seen exactly when its      *)
(* value changed.                                                          *)
(***************************************************************************)
EXTENDS Naturals

CONSTANTS
  MAX_BOOT_ATTEMPTS,   \* 3 in the source
  CntMod,              \* boot counters are uint8_t: 256 in the source
  Faults               \* what may be wrong with an image; a subset of AllFaults

BANK_A == 0
BANK_B == 1
Bank == {BANK_A, BANK_B}

\* The other bank of the pair.
OtherBank(b) == 1 - b

AllFaults == {"none", "magic", "valid", "crc", "signature"}

ASSUME BootAssumption ==
  /\ MAX_BOOT_ATTEMPTS \in Nat \ {0}
  /\ CntMod \in Nat
  /\ MAX_BOOT_ATTEMPTS < CntMod
  /\ Faults \subseteq AllFaults
  /\ "none" \in Faults

BootConfig == [stage2_active   : Bank,
               stage2_boot_cnt : [Bank -> 0 .. CntMod - 1],
               app_active      : Bank,
               app_boot_cnt    : [Bank -> 0 .. CntMod - 1],
               ota_pending     : {0, 1}]

\* A provisioned configuration: counters clear.
FreshConfig(s, a, p) ==
  [stage2_active   |-> s, stage2_boot_cnt |-> [b \in Bank |-> 0],
   app_active      |-> a, app_boot_cnt    |-> [b \in Bank |-> 0],
   ota_pending     |-> p]

\* A uint8_t counter incremented by one.
Bumped(n) == (n + 1) % CntMod

===============================================================================
