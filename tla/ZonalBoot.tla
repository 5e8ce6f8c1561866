------------------------------- MODULE ZonalBoot -------------------------------
(***************************************************************************)
(* The bootloader of the zonal gateway (zonal_gateway/tc375/bootloader).   *)
(* It shares boot_common.h with the end node's, but not its control:       *)
(* Stage 1 checks the limit before it counts, tries the backup bank in the *)
(* same boot, never clears the counter of a bank that boots, and ends in a *)
(* safe mode; Stage 2 installs a pending OTA update first.  The flash      *)
(* writes of that installation are commented out in the source, so it only *)
(* switches the active application.                                        *)
(*                                                                         *)
(* As in DualBankBoot, each write to DFLASH is a step and the power may    *)
(* fail between any two.                                                   *)
(***************************************************************************)
EXTENDS BootCommon

CONSTANTS
  MaxLosses,        \* bound: power losses in a behaviour
  MaxCorruptions    \* bound: corruptions of the DFLASH record in a behaviour

ASSUME BoundAssumption == MaxLosses \in Nat /\ MaxCorruptions \in Nat

VARIABLES
  cfg, crc,         \* the record in DFLASH; the record its CRC was computed from
  stage2, app,      \* what is wrong with the images of each bank
  pc,               \* the statement group about to run
  active_bank,      \* Stage 1's local, and the Stage 2 bank it jumps to
  active_app,       \* Stage 2's local
  ota_target,       \* history: the bank of the last requested update
  losses, corruptions

dflash == <<cfg, crc>>
images == <<stage2, app>>
locals == <<active_bank, active_app>>
disturbances == <<losses, corruptions>>
vars == <<dflash, images, pc, locals, ota_target, disturbances>>

Stage1Points == {"stage1_select", "stage1_reset", "stage1_reset_crc",
                 "stage1_increment", "stage1_increment_crc", "stage1_verify"}
OtaPoints == {"ota_toggle", "ota_toggle_crc", "ota_clear_count",
              "ota_clear_pending", "ota_clear_crc"}
Stage2Points == {"stage2_ota", "stage2_select", "stage2_increment",
                 "stage2_increment_crc", "stage2_check", "stage2_toggle",
                 "stage2_toggle_crc", "stage2_clear", "stage2_reset",
                 "stage2_reset_crc"}

TypeOK ==
  /\ cfg \in BootConfig /\ crc \in BootConfig
  /\ stage2 \in [Bank -> Faults] /\ app \in [Bank -> Faults]
  /\ pc \in Stage1Points \cup OtaPoints \cup Stage2Points
            \cup {"safe_mode", "application"}
  /\ active_bank \in Bank /\ active_app \in Bank /\ ota_target \in Bank
  /\ losses \in 0 .. MaxLosses /\ corruptions \in 0 .. MaxCorruptions

-------------------------------------------------------------------------------
\* The checks

ConfigIntact == crc = cfg

\* stage1_verify_stage2 and stage2_verify_app: the signature check is commented
\* out in both.
Accepts(fault) == fault \notin {"magic", "valid", "crc"}

\* stage1_read_active_stage2 and stage2_read_active_app.
SelectedStage2 == IF ConfigIntact THEN cfg.stage2_active ELSE BANK_A
SelectedApp == IF ConfigIntact THEN cfg.app_active ELSE BANK_A

-------------------------------------------------------------------------------
\* Statement groups

\* Change the record (without its CRC) or store the CRC, and go on.
Write(from, record, to) ==
  /\ pc = from
  /\ cfg' = record
  /\ pc' = to
  /\ UNCHANGED <<crc, images, locals, ota_target, disturbances>>

StoreCrc(from, to) ==
  /\ pc = from
  /\ crc' = cfg
  /\ pc' = to
  /\ UNCHANGED <<cfg, images, locals, ota_target, disturbances>>

Restart == pc' = "stage1_select" /\ active_bank' = BANK_A /\ active_app' = BANK_A

\* The active bank, or the other one, its counter to be reset, at the limit.
Stage1Select ==
  /\ pc = "stage1_select"
  /\ IF cfg.stage2_boot_cnt[SelectedStage2] < MAX_BOOT_ATTEMPTS
     THEN active_bank' = SelectedStage2 /\ pc' = "stage1_increment"
     ELSE active_bank' = OtherBank(SelectedStage2) /\ pc' = "stage1_reset"
  /\ UNCHANGED <<dflash, images, active_app, ota_target, disturbances>>

Stage1Reset ==
  Write("stage1_reset", [cfg EXCEPT !.stage2_boot_cnt[active_bank] = 0],
        "stage1_reset_crc")

Stage1ResetCrc == StoreCrc("stage1_reset_crc", "stage1_increment")

Stage1Increment ==
  Write("stage1_increment", [cfg EXCEPT !.stage2_boot_cnt[active_bank] = Bumped(@)],
        "stage1_increment_crc")

\* (mutant) the counter is written without its CRC.
Stage1IncrementUnsealed ==
  /\ pc = "stage1_increment_crc"
  /\ pc' = "stage1_verify"
  /\ UNCHANGED <<dflash, images, locals, ota_target, disturbances>>

Stage1IncrementCrc == StoreCrc("stage1_increment_crc", "stage1_verify")

\* (mutant) the backup is started without looking at it.
Stage1VerifyBlind ==
  /\ pc = "stage1_verify"
  /\ active_bank' = IF Accepts(stage2[active_bank]) THEN active_bank
                    ELSE OtherBank(active_bank)
  /\ pc' = "stage2_ota"
  /\ UNCHANGED <<dflash, images, active_app, ota_target, disturbances>>

\* The active bank if it verifies, else the backup if it does, else safe mode.
Stage1Verify ==
  /\ pc = "stage1_verify"
  /\ \/ /\ Accepts(stage2[active_bank])
        /\ active_bank' = active_bank /\ pc' = "stage2_ota"
     \/ /\ ~Accepts(stage2[active_bank])
        /\ Accepts(stage2[OtherBank(active_bank)])
        /\ active_bank' = OtherBank(active_bank) /\ pc' = "stage2_ota"
     \/ /\ \A b \in Bank : ~Accepts(stage2[b])
        /\ active_bank' = active_bank /\ pc' = "safe_mode"
  /\ UNCHANGED <<dflash, images, active_app, ota_target, disturbances>>

Stage2CheckOta ==
  /\ pc = "stage2_ota"
  /\ pc' = IF cfg.ota_pending = 1 THEN "ota_toggle" ELSE "stage2_select"
  /\ UNCHANGED <<dflash, images, locals, ota_target, disturbances>>

\* stage2_process_ota: stage2_switch_app, stage2_clear_ota_pending, reset.
OtaToggle ==
  Write("ota_toggle", [cfg EXCEPT !.app_active = OtherBank(@)], "ota_toggle_crc")

OtaToggleCrc == StoreCrc("ota_toggle_crc", "ota_clear_count")

OtaClearCount ==
  Write("ota_clear_count", [cfg EXCEPT !.app_boot_cnt[cfg.app_active] = 0],
        "ota_clear_pending")

\* (mutant) the pending flag stays set.
OtaClearPendingMissing == Write("ota_clear_pending", cfg, "ota_clear_crc")

OtaClearPending ==
  Write("ota_clear_pending", [cfg EXCEPT !.ota_pending = 0], "ota_clear_crc")

OtaFinish ==
  /\ pc = "ota_clear_crc"
  /\ crc' = cfg
  /\ Restart
  /\ UNCHANGED <<cfg, images, ota_target, disturbances>>

Stage2Select ==
  /\ pc = "stage2_select"
  /\ active_app' = SelectedApp
  /\ pc' = "stage2_increment"
  /\ UNCHANGED <<dflash, images, active_bank, ota_target, disturbances>>

Stage2Increment ==
  Write("stage2_increment", [cfg EXCEPT !.app_boot_cnt[active_app] = Bumped(@)],
        "stage2_increment_crc")

Stage2IncrementCrc == StoreCrc("stage2_increment_crc", "stage2_check")

\* (mutant) the limit is one attempt early.
Stage2CheckEarly ==
  /\ pc = "stage2_check"
  /\ pc' = IF /\ cfg.app_boot_cnt[active_app] + 1 < MAX_BOOT_ATTEMPTS
              /\ Accepts(app[active_app])
           THEN "stage2_reset" ELSE "stage2_toggle"
  /\ UNCHANGED <<dflash, images, locals, ota_target, disturbances>>

Stage2Check ==
  /\ pc = "stage2_check"
  /\ pc' = IF /\ cfg.app_boot_cnt[active_app] < MAX_BOOT_ATTEMPTS
              /\ Accepts(app[active_app])
           THEN "stage2_reset" ELSE "stage2_toggle"
  /\ UNCHANGED <<dflash, images, locals, ota_target, disturbances>>

\* (mutant) the switch keeps the application.
Stage2ToggleMissing == Write("stage2_toggle", cfg, "stage2_toggle_crc")

\* stage2_switch_app: the counter is cleared after the CRC is stored.
Stage2Toggle ==
  Write("stage2_toggle", [cfg EXCEPT !.app_active = OtherBank(@)],
        "stage2_toggle_crc")

Stage2ToggleCrc == StoreCrc("stage2_toggle_crc", "stage2_clear")

Stage2ClearFallback ==
  /\ pc = "stage2_clear"
  /\ cfg' = [cfg EXCEPT !.app_boot_cnt[cfg.app_active] = 0]
  /\ Restart
  /\ UNCHANGED <<crc, images, ota_target, disturbances>>

Stage2Reset ==
  Write("stage2_reset", [cfg EXCEPT !.app_boot_cnt[active_app] = 0],
        "stage2_reset_crc")

Stage2Jump == StoreCrc("stage2_reset_crc", "application")

-------------------------------------------------------------------------------
\* The environment

ApplicationReset ==
  /\ pc = "application"
  /\ Restart
  /\ UNCHANGED <<dflash, images, ota_target, disturbances>>

\* The application stores an image in a bank it does not run from.
Reflash ==
  /\ pc = "application"
  /\ \E f \in Faults :
       \/ /\ stage2' = [stage2 EXCEPT ![OtherBank(active_bank)] = f]
          /\ app' = app
       \/ /\ app' = [app EXCEPT ![OtherBank(active_app)] = f]
          /\ stage2' = stage2
  /\ UNCHANGED <<dflash, pc, locals, ota_target, disturbances>>

\* The application asks Stage 2 to install an update into the inactive bank.
RequestOta ==
  /\ pc = "application"
  /\ cfg' = [cfg EXCEPT !.ota_pending = 1]
  /\ crc' = cfg'
  /\ ota_target' = OtherBank(active_app)
  /\ UNCHANGED <<images, pc, locals, disturbances>>

PowerLoss ==
  /\ losses < MaxLosses
  /\ losses' = losses + 1
  /\ Restart
  /\ UNCHANGED <<dflash, images, ota_target, corruptions>>

\* One byte of the DFLASH record changes while the gateway is off.
DflashCorruption ==
  /\ pc = "stage1_select"
  /\ corruptions < MaxCorruptions
  /\ corruptions' = corruptions + 1
  /\ \/ \E b \in Bank : \/ cfg' = [cfg EXCEPT !.stage2_active = b]
                       \/ cfg' = [cfg EXCEPT !.app_active = b]
                       \/ cfg' = [cfg EXCEPT !.ota_pending = b]
     \/ \E b \in Bank, n \in 0 .. CntMod - 1 :
          \/ cfg' = [cfg EXCEPT !.stage2_boot_cnt[b] = n]
          \/ cfg' = [cfg EXCEPT !.app_boot_cnt[b] = n]
  /\ UNCHANGED <<crc, images, pc, locals, ota_target, losses>>

-------------------------------------------------------------------------------
Init ==
  /\ \E s, a \in Bank : cfg = FreshConfig(s, a, 0)
  /\ crc = cfg
  /\ stage2 \in [Bank -> Faults] /\ app \in [Bank -> Faults]
  /\ pc = "stage1_select"
  /\ active_bank = BANK_A /\ active_app = BANK_A
  /\ ota_target = BANK_A
  /\ losses = 0 /\ corruptions = 0

Stage1Step ==
  \/ Stage1Select \/ Stage1Reset \/ Stage1ResetCrc \/ Stage1Increment
  \/ Stage1IncrementCrc \/ Stage1Verify

OtaStep ==
  \/ OtaToggle \/ OtaToggleCrc \/ OtaClearCount \/ OtaClearPending \/ OtaFinish

Stage2Step ==
  \/ Stage2CheckOta \/ Stage2Select \/ Stage2Increment \/ Stage2IncrementCrc
  \/ Stage2Check \/ Stage2Toggle \/ Stage2ToggleCrc \/ Stage2ClearFallback
  \/ Stage2Reset \/ Stage2Jump

Next ==
  \/ Stage1Step \/ OtaStep \/ Stage2Step
  \/ ApplicationReset \/ Reflash \/ RequestOta \/ PowerLoss \/ DflashCorruption

Spec == Init /\ [][Next]_vars

\* The CPU keeps executing bootloader code while it has power.
FairSpec == Spec /\ WF_vars(Stage1Step \/ OtaStep \/ Stage2Step)

-------------------------------------------------------------------------------
\* Properties

\* What each jump hands over.  _start always seals the record before Stage 2
\* reads it, so the default of stage2_read_active_app never applies and an
\* update flag is never read from a corrupt record that is not sealed; the
\* application runs from the bank the record names, with a cleared counter.
\* Stage 1 never clears the counter of a bank that boots, yet no counter of a
\* Stage 2 bank passes the limit: stage1_check_boot_limit comes before the
\* increment, so the uint8_t cannot wrap and make a bank look fresh.
HandoverSealed ==
  /\ TypeOK
  /\ pc \in {"stage2_ota", "stage2_select", "application"} => ConfigIntact
  /\ pc = "application" => /\ cfg.app_active = active_app
                          /\ cfg.app_boot_cnt[active_app] = 0
  /\ corruptions = 0 => \A b \in Bank : cfg.stage2_boot_cnt[b] <= MAX_BOOT_ATTEMPTS

\* stage2_main rolls an application that passes verification back only after at
\* least MAX_BOOT_ATTEMPTS - 1 attempts were cut short by a power loss; updates
\* in between do not count against it.
HealthyAppKept ==
  [][ (/\ pc = "stage2_check" /\ pc' = "stage2_toggle"
       /\ Accepts(app[active_app]) /\ corruptions = 0)
      => losses + 1 >= MAX_BOOT_ATTEMPTS ]_vars

\* A boot that finds an update pending, and a Stage 2 to process it, ends with
\* the flag cleared: power losses delay stage2_process_ota, they do not make it
\* repeat for ever.
OtaEventuallyProcessed ==
  (/\ pc = "stage1_select" /\ cfg.ota_pending = 1
   /\ \E b \in Bank : Accepts(stage2[b])) ~> cfg.ota_pending = 0

\* "OTA installation complete": stage2_process_ota leaves the bank the update was
\* requested for active.
OtaReachesTarget ==
  [][ (/\ pc = "ota_clear_crc" /\ losses' = losses /\ corruptions = 0)
      => cfg'.app_active = ota_target ]_vars

-------------------------------------------------------------------------------
\* What the bootloader promises: VerifiedBoot, with safe mode as its "halted".
AbstractBoot == INSTANCE VerifiedBoot WITH
  phase          <- CASE pc = "application" -> "running"
                      [] pc = "safe_mode" -> "halted"
                      [] OTHER -> "booting",
  runStage2      <- IF pc = "application" THEN active_bank ELSE BANK_A,
  runApp         <- IF pc = "application" THEN active_app ELSE BANK_A,
  Stage2Accepted <- {f \in Faults : Accepts(f)},
  AppAccepted    <- {f \in Faults : Accepts(f)}

\* Every step of the bootloader is a step of VerifiedBoot or invisible to it: only
\* images that verify run, and safe mode is entered only when no Stage 2 does.
RefinesVerifiedBoot == AbstractBoot!Spec

\* It keeps VerifiedBoot's promise of progress as well: as long as there is a
\* Stage 2 and an application to start, the resets and switches between banks do
\* not go on for ever, an application is started.
BootsWheneverItCan == AbstractBoot!Fairness

===============================================================================
