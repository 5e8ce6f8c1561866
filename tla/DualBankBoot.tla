----------------------------- MODULE DualBankBoot -----------------------------
(***************************************************************************)
(* The two-stage, dual-bank bootloader of the end node ECU                 *)
(* (end_node_ecu/tc375/bootloader): Stage 1 (ssw_main.c) selects, verifies *)
(* and starts one of two Stage 2 images, Stage 2 (stage2_main.c) does the  *)
(* same with two application images.  Both keep their choice and a counter *)
(* of boot attempts in a CRC-protected record in DFLASH.                   *)
(*                                                                         *)
(* Every write to DFLASH is a step of its own, because power may fail      *)
(* between any two of them: pc names the next statement group, and a power *)
(* loss or a reset starts again at Stage 1 with only DFLASH and PFLASH     *)
(* kept.                                                                   *)
(***************************************************************************)
EXTENDS BootCommon

CONSTANTS
  MaxLosses,        \* bound: power losses in a behaviour
  MaxCorruptions    \* bound: corruptions of the DFLASH record in a behaviour

ASSUME BoundAssumption == MaxLosses \in Nat /\ MaxCorruptions \in Nat

VARIABLES
  cfg,              \* the BootConfig record in DFLASH, without its CRC
  crc,              \* the record the stored CRC was computed from
  stage2,           \* stage2[b]: what is wrong with the Stage 2 image of bank b
  app,              \* app[b]: what is wrong with the application of bank b
  pc,               \* the statement group about to run
  active_stage2,    \* Stage 1's local: the bank it selected
  active_app,       \* Stage 2's local: the bank it selected
  losses,           \* power losses so far
  corruptions       \* DFLASH corruptions so far

dflash == <<cfg, crc>>
images == <<stage2, app>>
locals == <<active_stage2, active_app>>
disturbances == <<losses, corruptions>>
vars == <<dflash, images, pc, locals, disturbances>>

Stage1Points == {"stage1_select", "stage1_increment", "stage1_increment_crc",
                 "stage1_check", "stage1_toggle", "stage1_toggle_crc",
                 "stage1_clear", "stage1_reset", "stage1_reset_crc"}
Stage2Points == {"stage2_select", "stage2_increment", "stage2_increment_crc",
                 "stage2_check", "stage2_toggle", "stage2_clear",
                 "stage2_toggle_crc", "stage2_reset", "stage2_reset_crc"}

TypeOK ==
  /\ cfg \in BootConfig /\ crc \in BootConfig
  /\ stage2 \in [Bank -> Faults] /\ app \in [Bank -> Faults]
  /\ pc \in Stage1Points \cup Stage2Points \cup {"application"}
  /\ active_stage2 \in Bank /\ active_app \in Bank
  /\ losses \in 0 .. MaxLosses /\ corruptions \in 0 .. MaxCorruptions

-------------------------------------------------------------------------------
\* The checks

ConfigIntact == crc = cfg

\* stage1_main checks the magic number and the CRC of a Stage 2 image.
Stage1Accepts(fault) == fault \notin {"magic", "crc"}

\* stage2_verify_application: magic, valid flag, CRC and signature.
Stage2Accepts(fault) == fault = "none"

\* stage1_read_active_stage2: a corrupt record selects bank A.
SelectedStage2 == IF ConfigIntact THEN cfg.stage2_active ELSE BANK_A

-------------------------------------------------------------------------------
\* Statement groups

\* Recompute and store the CRC of the record.
StoreCrc(from, to) ==
  /\ pc = from
  /\ crc' = cfg
  /\ pc' = to
  /\ UNCHANGED <<cfg, images, locals, disturbances>>

\* system_reset, and what a power cycle does to the CPU: start over.
Restart == pc' = "stage1_select" /\ active_stage2' = BANK_A /\ active_app' = BANK_A

Stage1Select ==
  /\ pc = "stage1_select"
  /\ active_stage2' = SelectedStage2
  /\ pc' = "stage1_increment"
  /\ UNCHANGED <<dflash, images, active_app, disturbances>>

Stage1Increment ==
  /\ pc = "stage1_increment"
  /\ cfg' = [cfg EXCEPT !.stage2_boot_cnt[active_stage2] = Bumped(@)]
  /\ pc' = "stage1_increment_crc"
  /\ UNCHANGED <<crc, images, locals, disturbances>>

Stage1IncrementCrc == StoreCrc("stage1_increment_crc", "stage1_check")

\* (mutant) the limit is one attempt early.
Stage1CheckEarly ==
  /\ pc = "stage1_check"
  /\ pc' = IF /\ cfg.stage2_boot_cnt[active_stage2] + 1 < MAX_BOOT_ATTEMPTS
              /\ Stage1Accepts(stage2[active_stage2])
           THEN "stage1_reset" ELSE "stage1_toggle"
  /\ UNCHANGED <<dflash, images, locals, disturbances>>

Stage1Check ==
  /\ pc = "stage1_check"
  /\ pc' = IF /\ cfg.stage2_boot_cnt[active_stage2] < MAX_BOOT_ATTEMPTS
              /\ Stage1Accepts(stage2[active_stage2])
           THEN "stage1_reset" ELSE "stage1_toggle"
  /\ UNCHANGED <<dflash, images, locals, disturbances>>

\* (mutant) the switch keeps the bank.
Stage1ToggleMissing ==
  /\ pc = "stage1_toggle"
  /\ pc' = "stage1_toggle_crc"
  /\ UNCHANGED <<dflash, images, locals, disturbances>>

\* stage1_switch_to_fallback, up to the CRC ...
Stage1Toggle ==
  /\ pc = "stage1_toggle"
  /\ cfg' = [cfg EXCEPT !.stage2_active = OtherBank(@)]
  /\ pc' = "stage1_toggle_crc"
  /\ UNCHANGED <<crc, images, locals, disturbances>>

Stage1ToggleCrc == StoreCrc("stage1_toggle_crc", "stage1_clear")

\* ... and after it: the counter is cleared once the CRC is stored.
Stage1ClearFallback ==
  /\ pc = "stage1_clear"
  /\ cfg' = [cfg EXCEPT !.stage2_boot_cnt[cfg.stage2_active] = 0]
  /\ Restart
  /\ UNCHANGED <<crc, images, disturbances>>

Stage1ResetCount ==
  /\ pc = "stage1_reset"
  /\ cfg' = [cfg EXCEPT !.stage2_boot_cnt[active_stage2] = 0]
  /\ pc' = "stage1_reset_crc"
  /\ UNCHANGED <<crc, images, locals, disturbances>>

\* The CRC, then stage1_jump_to_stage2.
Stage1Jump == StoreCrc("stage1_reset_crc", "stage2_select")

\* stage2_read_active_app does not look at the CRC.
Stage2Select ==
  /\ pc = "stage2_select"
  /\ active_app' = cfg.app_active
  /\ pc' = "stage2_increment"
  /\ UNCHANGED <<dflash, images, active_stage2, disturbances>>

Stage2Increment ==
  /\ pc = "stage2_increment"
  /\ cfg' = [cfg EXCEPT !.app_boot_cnt[active_app] = Bumped(@)]
  /\ pc' = "stage2_increment_crc"
  /\ UNCHANGED <<crc, images, locals, disturbances>>

Stage2IncrementCrc == StoreCrc("stage2_increment_crc", "stage2_check")

\* (mutants) the limit is one attempt early; the counter alone decides; the
\* metadata of the other bank is verified.
Stage2CheckEarly ==
  /\ pc = "stage2_check"
  /\ pc' = IF /\ cfg.app_boot_cnt[active_app] + 1 < MAX_BOOT_ATTEMPTS
              /\ Stage2Accepts(app[active_app])
           THEN "stage2_reset" ELSE "stage2_toggle"
  /\ UNCHANGED <<dflash, images, locals, disturbances>>

Stage2CheckCountOnly ==
  /\ pc = "stage2_check"
  /\ pc' = IF cfg.app_boot_cnt[active_app] < MAX_BOOT_ATTEMPTS
           THEN "stage2_reset" ELSE "stage2_toggle"
  /\ UNCHANGED <<dflash, images, locals, disturbances>>

Stage2CheckWrongBank ==
  /\ pc = "stage2_check"
  /\ pc' = IF /\ cfg.app_boot_cnt[active_app] < MAX_BOOT_ATTEMPTS
              /\ Stage2Accepts(app[OtherBank(active_app)])
           THEN "stage2_reset" ELSE "stage2_toggle"
  /\ UNCHANGED <<dflash, images, locals, disturbances>>

Stage2Check ==
  /\ pc = "stage2_check"
  /\ pc' = IF /\ cfg.app_boot_cnt[active_app] < MAX_BOOT_ATTEMPTS
              /\ Stage2Accepts(app[active_app])
           THEN "stage2_reset" ELSE "stage2_toggle"
  /\ UNCHANGED <<dflash, images, locals, disturbances>>

\* stage2_switch_to_fallback_app: here the CRC comes last.
Stage2Toggle ==
  /\ pc = "stage2_toggle"
  /\ cfg' = [cfg EXCEPT !.app_active = OtherBank(@)]
  /\ pc' = "stage2_clear"
  /\ UNCHANGED <<crc, images, locals, disturbances>>

Stage2ClearFallback ==
  /\ pc = "stage2_clear"
  /\ cfg' = [cfg EXCEPT !.app_boot_cnt[cfg.app_active] = 0]
  /\ pc' = "stage2_toggle_crc"
  /\ UNCHANGED <<crc, images, locals, disturbances>>

Stage2ToggleCrc ==
  /\ pc = "stage2_toggle_crc"
  /\ crc' = cfg
  /\ Restart
  /\ UNCHANGED <<cfg, images, disturbances>>

Stage2ResetCount ==
  /\ pc = "stage2_reset"
  /\ cfg' = [cfg EXCEPT !.app_boot_cnt[active_app] = 0]
  /\ pc' = "stage2_reset_crc"
  /\ UNCHANGED <<crc, images, locals, disturbances>>

\* The CRC, then stage2_jump_to_application.
Stage2Jump == StoreCrc("stage2_reset_crc", "application")

-------------------------------------------------------------------------------
\* The environment

\* The application resets the ECU, or the watchdog does.
ApplicationReset ==
  /\ pc = "application"
  /\ Restart
  /\ UNCHANGED <<dflash, images, disturbances>>

\* The application rewrites an image it is not running from, with any result.
Reflash ==
  /\ pc = "application"
  /\ \E f \in Faults :
       \/ /\ stage2' = [stage2 EXCEPT ![OtherBank(active_stage2)] = f]
          /\ app' = app
       \/ /\ app' = [app EXCEPT ![OtherBank(active_app)] = f]
          /\ stage2' = stage2
  /\ UNCHANGED <<dflash, pc, locals, disturbances>>

PowerLoss ==
  /\ losses < MaxLosses
  /\ losses' = losses + 1
  /\ Restart
  /\ UNCHANGED <<dflash, images, corruptions>>

\* One byte of the DFLASH record changes while the ECU is off.
DflashCorruption ==
  /\ pc = "stage1_select"
  /\ corruptions < MaxCorruptions
  /\ corruptions' = corruptions + 1
  /\ \/ \E b \in Bank : \/ cfg' = [cfg EXCEPT !.stage2_active = b]
                       \/ cfg' = [cfg EXCEPT !.app_active = b]
     \/ \E b \in Bank, n \in 0 .. CntMod - 1 :
          \/ cfg' = [cfg EXCEPT !.stage2_boot_cnt[b] = n]
          \/ cfg' = [cfg EXCEPT !.app_boot_cnt[b] = n]
  /\ UNCHANGED <<crc, images, pc, locals, losses>>

-------------------------------------------------------------------------------
Init ==
  /\ \E s, a \in Bank : cfg = FreshConfig(s, a, 0)
  /\ crc = cfg
  /\ stage2 \in [Bank -> Faults]
  /\ app \in [Bank -> Faults]
  /\ pc = "stage1_select"
  /\ active_stage2 = BANK_A /\ active_app = BANK_A
  /\ losses = 0 /\ corruptions = 0

Stage1Step ==
  \/ Stage1Select \/ Stage1Increment \/ Stage1IncrementCrc \/ Stage1Check
  \/ Stage1Toggle \/ Stage1ToggleCrc \/ Stage1ClearFallback
  \/ Stage1ResetCount \/ Stage1Jump

Stage2Step ==
  \/ Stage2Select \/ Stage2Increment \/ Stage2IncrementCrc \/ Stage2Check
  \/ Stage2Toggle \/ Stage2ClearFallback \/ Stage2ToggleCrc
  \/ Stage2ResetCount \/ Stage2Jump

Next ==
  \/ Stage1Step \/ Stage2Step
  \/ ApplicationReset \/ Reflash \/ PowerLoss \/ DflashCorruption

Spec == Init /\ [][Next]_vars

\* The CPU keeps executing bootloader code while it has power.
FairSpec == Spec /\ WF_vars(Stage1Step \/ Stage2Step)

-------------------------------------------------------------------------------
\* Properties

\* Past a check of stage1_main or stage2_main, the image that was checked is
\* still one the check accepts: whatever the order of resets, power losses and
\* reflashing, no Stage 2 code runs from a bank stage1_main rejects and no
\* application from a bank stage2_verify_application rejects.
OnlyVerifiedCodeRuns ==
  /\ pc \in Stage2Points \cup {"stage1_reset", "stage1_reset_crc", "application"}
       => Stage1Accepts(stage2[active_stage2])
  /\ pc \in {"stage2_reset", "stage2_reset_crc", "application"}
       => Stage2Accepts(app[active_app])

\* What each jump hands over.  Stage 2, which reads app_active without looking
\* at the CRC, always starts with a sealed record; the application starts with
\* a sealed record that names the bank it runs from and with both counters of
\* the banks in use cleared.
HandoverSealed ==
  /\ pc \in {"stage2_select", "application"} => ConfigIntact
  /\ pc \in Stage2Points \cup {"application"}
       => cfg.stage2_boot_cnt[active_stage2] = 0
  /\ pc = "application" => /\ cfg.app_active = active_app
                          /\ cfg.app_boot_cnt[active_app] = 0

\* A boot counter never counts more attempts than power losses can explain
\* (the "+ 1" is the attempt under way, or the failed check that left the
\* counter of the abandoned bank at one).
CountersExplained ==
  corruptions = 0 => \A b \in Bank : cfg.app_boot_cnt[b] <= losses + 1

\* All of this together, whatever the order of power losses, resets, reflashing
\* and one corrupted byte: code runs verified, jumps of stage1_main and
\* stage2_main hand over a sealed and consistent record, and the counters tell
\* losses, not guesses.
BootSound ==
  /\ TypeOK
  /\ OnlyVerifiedCodeRuns
  /\ HandoverSealed
  /\ CountersExplained

\* stage2_main rolls an application that passes verification back only after at
\* least MAX_BOOT_ATTEMPTS - 1 attempts were cut short by a power loss.
HealthyAppKept ==
  [][ (/\ pc = "stage2_check" /\ pc' = "stage2_toggle"
       /\ Stage2Accepts(app[active_app]) /\ corruptions = 0)
      => losses + 1 >= MAX_BOOT_ATTEMPTS ]_vars

\* The same of stage1_main and a Stage 2 image, although a stale CRC can make
\* Stage 1 count an attempt of bank A when B is the active bank (which is why it
\* holds of the three attempts of boot_common.h, and not of six).
HealthyStage2Kept ==
  [][ (/\ pc = "stage1_check" /\ pc' = "stage1_toggle"
       /\ Stage1Accepts(stage2[active_stage2]) /\ corruptions = 0)
      => losses + 1 >= MAX_BOOT_ATTEMPTS ]_vars

\* stage2_switch_to_fallback_app stores the CRC last: unless the power fails,
\* the reset that ends it finds a sealed record that names the other bank.
AppSwitchTakesEffect ==
  [][ (pc = "stage2_toggle_crc" /\ losses' = losses)
        => ConfigIntact' /\ cfg'.app_active = OtherBank(active_app) ]_vars

-------------------------------------------------------------------------------
\* What the bootloader promises, stated without counters, CRCs or steps.

AbstractBoot == INSTANCE VerifiedBoot WITH
  phase          <- IF pc = "application" THEN "running" ELSE "booting",
  runStage2      <- IF pc = "application" THEN active_stage2 ELSE BANK_A,
  runApp         <- IF pc = "application" THEN active_app ELSE BANK_A,
  Stage2Accepted <- {f \in Faults : Stage1Accepts(f)},
  AppAccepted    <- {f \in Faults : Stage2Accepts(f)}

\* Every step of the bootloader is a step of VerifiedBoot or invisible to it.
RefinesVerifiedBoot == AbstractBoot!Spec

\* It keeps VerifiedBoot's promise of progress as well: as long as there is a
\* Stage 2 and an application to start, the resets and switches between banks do
\* not go on for ever, an application is started.
BootsWheneverItCan == AbstractBoot!Fairness

===============================================================================
