-------------------------- MODULE DualBankBootProofs --------------------------
(***************************************************************************)
(* TLAPS proofs about DualBankBoot, for every MAX_BOOT_ATTEMPTS, counter   *)
(* width, set of image faults and bound on losses and corruptions.         *)
(*                                                                         *)
(* The inductive invariant is BootInv: TypeOK, OnlyVerifiedCodeRuns, what  *)
(* is known of the record at each point (RecordInv, of which               *)
(* HandoverSealed is the observable part) and the counting argument        *)
(* (CountInv).  HealthyStage2Kept needs NoLossInv and OneLossInv besides   *)
(* and is stated for the limit of the source, three attempts.              *)
(***************************************************************************)
EXTENDS DualBankBoot, TLAPS

\* Points at which Stage 2 still works on the bank the record names ...
BeforeToggle == {"stage2_increment", "stage2_increment_crc", "stage2_check",
                 "stage2_toggle", "stage2_reset", "stage2_reset_crc",
                 "application"}
\* ... and at which the record already names the other one.
AfterToggle == {"stage2_clear", "stage2_toggle_crc"}

RecordInv ==
  /\ pc \in {"stage2_select", "application"} => ConfigIntact
  /\ pc \in Stage2Points \cup {"stage1_reset_crc", "application"}
       => cfg.stage2_boot_cnt[active_stage2] = 0
  /\ pc \in BeforeToggle => cfg.app_active = active_app
  /\ pc \in AfterToggle => cfg.app_active = OtherBank(active_app)
  /\ pc \in {"stage2_reset_crc", "application"}
       => cfg.app_boot_cnt[active_app] = 0

\* The attempt under way, a bank that has been abandoned, and a bank that has
\* just become active may be one ahead of the losses.
Slack(b) ==
  IF /\ b = cfg.app_active
     /\ pc \notin {"stage2_increment_crc", "stage2_check", "stage2_toggle",
                   "stage2_clear", "stage2_reset"}
  THEN 0 ELSE 1

CountInv ==
  corruptions = 0 => \A b \in Bank : cfg.app_boot_cnt[b] <= losses + Slack(b)

BootInv == TypeOK /\ OnlyVerifiedCodeRuns /\ RecordInv /\ CountInv

-------------------------------------------------------------------------------
\* The other bank is a bank, and not the same one.
LEMMA OtherBankFacts ==
  \A b \in Bank : OtherBank(b) \in Bank /\ OtherBank(b) # b
                  /\ OtherBank(OtherBank(b)) = b
BY DEF Bank, BANK_A, BANK_B, OtherBank

\* A uint8_t counter stays in its range and grows by at most one.
LEMMA BumpedFacts ==
  \A n \in 0 .. CntMod - 1 : Bumped(n) \in 0 .. CntMod - 1 /\ Bumped(n) <= n + 1
<1> SUFFICES ASSUME NEW n \in 0 .. CntMod - 1
             PROVE  Bumped(n) \in 0 .. CntMod - 1 /\ Bumped(n) <= n + 1
  OBVIOUS
<1>1. CntMod \in Nat \ {0}
  BY BootAssumption
<1>2. CASE n + 1 < CntMod
  BY <1>1, <1>2 DEF Bumped
<1>3. CASE n + 1 = CntMod
  BY <1>1, <1>3 DEF Bumped
<1> QED BY <1>1, <1>2, <1>3

\* The initial states satisfy the type invariant.
LEMMA InitTypeOK == Init => TypeOK
<1> SUFFICES ASSUME Init PROVE TypeOK
  OBVIOUS
<1>1. 0 \in 0 .. CntMod - 1
  BY BootAssumption
<1>2. PICK s \in Bank, a \in Bank : cfg = FreshConfig(s, a, 0)
  BY DEF Init
<1>3. cfg \in BootConfig
  BY <1>1, <1>2 DEF FreshConfig, BootConfig
<1> QED BY <1>3, BoundAssumption
        DEF Init, TypeOK, Stage1Points, Bank, BANK_A, BANK_B

\* Every step preserves it.
LEMMA NextTypeOK == TypeOK /\ [Next]_vars => TypeOK'
<1> SUFFICES ASSUME TypeOK, [Next]_vars PROVE TypeOK'
  OBVIOUS
<1> USE DEF TypeOK, dflash, images, locals, disturbances
<1>a. BANK_A \in Bank
  BY DEF Bank, BANK_A
<1>b. 0 \in 0 .. CntMod - 1
  BY BootAssumption
<1>1. CASE Stage1Select
  BY <1>1, <1>a DEF Stage1Select, SelectedStage2, Stage1Points, BootConfig
<1>2. CASE Stage1Increment
  BY <1>2, BumpedFacts DEF Stage1Increment, Stage1Points, BootConfig
<1>3. CASE Stage1IncrementCrc
  BY <1>3 DEF Stage1IncrementCrc, StoreCrc, Stage1Points
<1>4. CASE Stage1Check
  BY <1>4 DEF Stage1Check, Stage1Points
<1>5. CASE Stage1Toggle
  BY <1>5, OtherBankFacts DEF Stage1Toggle, Stage1Points, BootConfig
<1>6. CASE Stage1ToggleCrc
  BY <1>6 DEF Stage1ToggleCrc, StoreCrc, Stage1Points
<1>7. CASE Stage1ClearFallback
  BY <1>7, <1>a, <1>b DEF Stage1ClearFallback, Restart, Stage1Points, BootConfig
<1>8. CASE Stage1ResetCount
  BY <1>8, <1>b DEF Stage1ResetCount, Stage1Points, BootConfig
<1>9. CASE Stage1Jump
  BY <1>9 DEF Stage1Jump, StoreCrc, Stage2Points
<1>10. CASE Stage2Select
  BY <1>10 DEF Stage2Select, Stage2Points, BootConfig
<1>11. CASE Stage2Increment
  BY <1>11, BumpedFacts DEF Stage2Increment, Stage2Points, BootConfig
<1>12. CASE Stage2IncrementCrc
  BY <1>12 DEF Stage2IncrementCrc, StoreCrc, Stage2Points
<1>13. CASE Stage2Check
  BY <1>13 DEF Stage2Check, Stage2Points
<1>14. CASE Stage2Toggle
  BY <1>14, OtherBankFacts DEF Stage2Toggle, Stage2Points, BootConfig
<1>15. CASE Stage2ClearFallback
  BY <1>15, <1>b DEF Stage2ClearFallback, Stage2Points, BootConfig
<1>16. CASE Stage2ToggleCrc
  BY <1>16, <1>a DEF Stage2ToggleCrc, Restart, Stage1Points
<1>17. CASE Stage2ResetCount
  BY <1>17, <1>b DEF Stage2ResetCount, Stage2Points, BootConfig
<1>18. CASE Stage2Jump
  BY <1>18 DEF Stage2Jump, StoreCrc
<1>19. CASE ApplicationReset
  BY <1>19, <1>a DEF ApplicationReset, Restart, Stage1Points
<1>20. CASE Reflash
  BY <1>20, OtherBankFacts DEF Reflash
<1>21. CASE PowerLoss
  BY <1>21, <1>a, BoundAssumption DEF PowerLoss, Restart, Stage1Points
<1>22. CASE DflashCorruption
  <2>1. cfg' \in BootConfig
    BY <1>22 DEF DflashCorruption, BootConfig
  <2> QED BY <1>22, <2>1, BoundAssumption DEF DflashCorruption
<1>23. CASE UNCHANGED vars
  BY <1>23 DEF vars
<1> QED BY <1>1, <1>2, <1>3, <1>4, <1>5, <1>6, <1>7, <1>8, <1>9, <1>10, <1>11,
           <1>12, <1>13, <1>14, <1>15, <1>16, <1>17, <1>18, <1>19, <1>20,
           <1>21, <1>22, <1>23 DEF Next, Stage1Step, Stage2Step

\* Type correctness of the bootloader model.
THEOREM TypeCorrect == Spec => []TypeOK
BY InitTypeOK, NextTypeOK, PTL DEF Spec

-------------------------------------------------------------------------------
\* Whatever passed a check keeps passing it until the ECU restarts: only the
\* application changes images, and never the ones it runs from.
LEMMA VerifiedStep ==
  TypeOK /\ OnlyVerifiedCodeRuns /\ [Next]_vars => OnlyVerifiedCodeRuns'
<1> SUFFICES ASSUME TypeOK /\ OnlyVerifiedCodeRuns, [Next]_vars PROVE OnlyVerifiedCodeRuns'
  OBVIOUS
<1> USE DEF TypeOK, OnlyVerifiedCodeRuns, Stage2Points, dflash, images, locals,
            disturbances
<1>1. CASE Stage1Select
  BY <1>1 DEF Stage1Select, SelectedStage2
<1>2. CASE Stage1Increment
  BY <1>2 DEF Stage1Increment
<1>3. CASE Stage1IncrementCrc
  BY <1>3 DEF Stage1IncrementCrc, StoreCrc
<1>4. CASE Stage1Check
  BY <1>4 DEF Stage1Check
<1>5. CASE Stage1Toggle
  BY <1>5 DEF Stage1Toggle
<1>6. CASE Stage1ToggleCrc
  BY <1>6 DEF Stage1ToggleCrc, StoreCrc
<1>7. CASE Stage1ClearFallback
  BY <1>7 DEF Stage1ClearFallback, Restart
<1>8. CASE Stage1ResetCount
  BY <1>8 DEF Stage1ResetCount
<1>9. CASE Stage1Jump
  BY <1>9 DEF Stage1Jump, StoreCrc
<1>10. CASE Stage2Select
  BY <1>10 DEF Stage2Select
<1>11. CASE Stage2Increment
  BY <1>11 DEF Stage2Increment
<1>12. CASE Stage2IncrementCrc
  BY <1>12 DEF Stage2IncrementCrc, StoreCrc
<1>13. CASE Stage2Check
  BY <1>13 DEF Stage2Check
<1>14. CASE Stage2Toggle
  BY <1>14 DEF Stage2Toggle
<1>15. CASE Stage2ClearFallback
  BY <1>15 DEF Stage2ClearFallback
<1>16. CASE Stage2ToggleCrc
  BY <1>16 DEF Stage2ToggleCrc, Restart
<1>17. CASE Stage2ResetCount
  BY <1>17 DEF Stage2ResetCount
<1>18. CASE Stage2Jump
  BY <1>18 DEF Stage2Jump, StoreCrc
<1>19. CASE ApplicationReset
  BY <1>19 DEF ApplicationReset, Restart
<1>20. CASE Reflash
  BY <1>20, OtherBankFacts DEF Reflash
<1>21. CASE PowerLoss
  BY <1>21 DEF PowerLoss, Restart
<1>22. CASE DflashCorruption
  BY <1>22 DEF DflashCorruption
<1>23. CASE UNCHANGED vars
  BY <1>23 DEF vars
<1> QED BY <1>1, <1>2, <1>3, <1>4, <1>5, <1>6, <1>7, <1>8, <1>9, <1>10,
           <1>11, <1>12, <1>13, <1>14, <1>15, <1>16, <1>17, <1>18,
           <1>19, <1>20, <1>21, <1>22, <1>23 DEF Next, Stage1Step,
           Stage2Step

\* The record at each point.
LEMMA RecordStep ==
  TypeOK /\ RecordInv /\ [Next]_vars => RecordInv'
<1> SUFFICES ASSUME TypeOK /\ RecordInv, [Next]_vars PROVE RecordInv'
  OBVIOUS
<1> USE DEF TypeOK, RecordInv, Stage2Points, BeforeToggle, AfterToggle,
            ConfigIntact, BootConfig, dflash, images, locals, disturbances
<1>1. CASE Stage1Select
  BY <1>1 DEF Stage1Select, SelectedStage2
<1>2. CASE Stage1Increment
  BY <1>2, BumpedFacts DEF Stage1Increment
<1>3. CASE Stage1IncrementCrc
  BY <1>3, BumpedFacts DEF Stage1IncrementCrc, StoreCrc
<1>4. CASE Stage1Check
  BY <1>4 DEF Stage1Check
<1>5. CASE Stage1Toggle
  BY <1>5, OtherBankFacts DEF Stage1Toggle
<1>6. CASE Stage1ToggleCrc
  BY <1>6 DEF Stage1ToggleCrc, StoreCrc
<1>7. CASE Stage1ClearFallback
  BY <1>7 DEF Stage1ClearFallback, Restart
<1>8. CASE Stage1ResetCount
  BY <1>8 DEF Stage1ResetCount
<1>9. CASE Stage1Jump
  BY <1>9 DEF Stage1Jump, StoreCrc
<1>10. CASE Stage2Select
  BY <1>10 DEF Stage2Select
<1>11. CASE Stage2Increment
  BY <1>11, BumpedFacts DEF Stage2Increment
<1>12. CASE Stage2IncrementCrc
  BY <1>12, BumpedFacts DEF Stage2IncrementCrc, StoreCrc
<1>13. CASE Stage2Check
  BY <1>13 DEF Stage2Check
<1>14. CASE Stage2Toggle
  BY <1>14, OtherBankFacts DEF Stage2Toggle
<1>15. CASE Stage2ClearFallback
  BY <1>15 DEF Stage2ClearFallback
<1>16. CASE Stage2ToggleCrc
  BY <1>16 DEF Stage2ToggleCrc, Restart
<1>17. CASE Stage2ResetCount
  BY <1>17 DEF Stage2ResetCount
<1>18. CASE Stage2Jump
  BY <1>18 DEF Stage2Jump, StoreCrc
<1>19. CASE ApplicationReset
  BY <1>19 DEF ApplicationReset, Restart
<1>20. CASE Reflash
  BY <1>20 DEF Reflash
<1>21. CASE PowerLoss
  BY <1>21 DEF PowerLoss, Restart
<1>22. CASE DflashCorruption
  BY <1>22 DEF DflashCorruption
<1>23. CASE UNCHANGED vars
  BY <1>23 DEF vars
<1> QED BY <1>1, <1>2, <1>3, <1>4, <1>5, <1>6, <1>7, <1>8, <1>9, <1>10,
           <1>11, <1>12, <1>13, <1>14, <1>15, <1>16, <1>17, <1>18,
           <1>19, <1>20, <1>21, <1>22, <1>23 DEF Next, Stage1Step,
           Stage2Step

\* The counting argument: only Stage2Increment adds to a counter, and the counter
\* it adds to is cleared again unless a loss intervenes.
LEMMA CountStep ==
  TypeOK /\ RecordInv /\ CountInv /\ [Next]_vars => CountInv'
<1> SUFFICES ASSUME TypeOK /\ RecordInv /\ CountInv, [Next]_vars PROVE CountInv'
  OBVIOUS
<1> USE DEF TypeOK, CountInv, Slack, BootConfig, dflash, images, locals,
            disturbances
<1>1. CASE Stage1Select
  BY <1>1 DEF Stage1Select, SelectedStage2
<1>2. CASE Stage1Increment
  BY <1>2, BumpedFacts DEF Stage1Increment
<1>3. CASE Stage1IncrementCrc
  BY <1>3, BumpedFacts DEF Stage1IncrementCrc, StoreCrc
<1>4. CASE Stage1Check
  BY <1>4 DEF Stage1Check
<1>5. CASE Stage1Toggle
  BY <1>5 DEF Stage1Toggle
<1>6. CASE Stage1ToggleCrc
  BY <1>6 DEF Stage1ToggleCrc, StoreCrc
<1>7. CASE Stage1ClearFallback
  BY <1>7 DEF Stage1ClearFallback, Restart
<1>8. CASE Stage1ResetCount
  BY <1>8 DEF Stage1ResetCount
<1>9. CASE Stage1Jump
  BY <1>9 DEF Stage1Jump, StoreCrc
<1>10. CASE Stage2Select
  BY <1>10 DEF Stage2Select, RecordInv, BeforeToggle, AfterToggle
<1>11. CASE Stage2Increment
  BY <1>11, BumpedFacts DEF Stage2Increment, RecordInv, BeforeToggle, AfterToggle
<1>12. CASE Stage2IncrementCrc
  BY <1>12, BumpedFacts DEF Stage2IncrementCrc, StoreCrc, RecordInv, BeforeToggle, AfterToggle
<1>13. CASE Stage2Check
  BY <1>13 DEF Stage2Check, RecordInv, BeforeToggle, AfterToggle
<1>14. CASE Stage2Toggle
  BY <1>14, OtherBankFacts DEF Stage2Toggle, RecordInv, BeforeToggle, AfterToggle
<1>15. CASE Stage2ClearFallback
  BY <1>15 DEF Stage2ClearFallback, RecordInv, BeforeToggle, AfterToggle
<1>16. CASE Stage2ToggleCrc
  BY <1>16 DEF Stage2ToggleCrc, Restart, RecordInv, BeforeToggle, AfterToggle
<1>17. CASE Stage2ResetCount
  BY <1>17 DEF Stage2ResetCount, RecordInv, BeforeToggle, AfterToggle
<1>18. CASE Stage2Jump
  BY <1>18 DEF Stage2Jump, StoreCrc, RecordInv, BeforeToggle, AfterToggle
<1>19. CASE ApplicationReset
  BY <1>19 DEF ApplicationReset, Restart
<1>20. CASE Reflash
  BY <1>20 DEF Reflash
<1>21. CASE PowerLoss
  BY <1>21 DEF PowerLoss, Restart
<1>22. CASE DflashCorruption
  BY <1>22 DEF DflashCorruption
<1>23. CASE UNCHANGED vars
  BY <1>23 DEF vars
<1> QED BY <1>1, <1>2, <1>3, <1>4, <1>5, <1>6, <1>7, <1>8, <1>9, <1>10,
           <1>11, <1>12, <1>13, <1>14, <1>15, <1>16, <1>17, <1>18,
           <1>19, <1>20, <1>21, <1>22, <1>23 DEF Next, Stage1Step,
           Stage2Step

\* BootInv is an invariant.
THEOREM BootInvariant == Spec => []BootInv
<1>1. Init => BootInv
  <2> SUFFICES ASSUME Init PROVE BootInv
    OBVIOUS
  <2>1. TypeOK
    BY InitTypeOK
  <2>2. OnlyVerifiedCodeRuns /\ RecordInv
    BY DEF Init, OnlyVerifiedCodeRuns, RecordInv, Stage2Points, BeforeToggle,
           AfterToggle
  <2>3. CountInv
    BY DEF Init, CountInv, Slack, FreshConfig
  <2> QED BY <2>1, <2>2, <2>3 DEF BootInv
<1>2. BootInv /\ [Next]_vars => BootInv'
  BY NextTypeOK, VerifiedStep, RecordStep, CountStep DEF BootInv
<1> QED BY <1>1, <1>2, PTL DEF Spec

\* No Stage 2 and no application runs that its check rejects.
THEOREM Verified == Spec => []OnlyVerifiedCodeRuns
<1>1. BootInv => OnlyVerifiedCodeRuns
  BY DEF BootInv
<1> QED BY <1>1, BootInvariant, PTL

\* Both hand-overs find the record as HandoverSealed says.
THEOREM Sealed == Spec => []HandoverSealed
<1>1. BootInv => HandoverSealed
  BY DEF BootInv, RecordInv, HandoverSealed, BeforeToggle, Stage2Points
<1> QED BY <1>1, BootInvariant, PTL

\* No counter is ahead of the power losses by more than one.
THEOREM Counters == Spec => []CountersExplained
<1>1. BootInv => CountersExplained
  BY DEF BootInv, TypeOK, CountInv, CountersExplained, Slack, BootConfig
<1> QED BY <1>1, BootInvariant, PTL

\* The four together, for every number of power losses and corruptions: what
\* stage1_main and stage2_main run is verified, what they hand over is sealed,
\* and the application counters are explained by the losses.
THEOREM Sound == Spec => []BootSound
BY TypeCorrect, Verified, Sealed, Counters, PTL DEF BootSound

\* A healthy application is rolled back only after MAX_BOOT_ATTEMPTS - 1 losses.
THEOREM AppKept == Spec => HealthyAppKept
<1> DEFINE Rolled == /\ pc = "stage2_check" /\ pc' = "stage2_toggle"
                     /\ Stage2Accepts(app[active_app]) /\ corruptions = 0
<1>1. BootInv /\ [Next]_vars => [Rolled => losses + 1 >= MAX_BOOT_ATTEMPTS]_vars
  <2> SUFFICES ASSUME BootInv, Next, Rolled
               PROVE  losses + 1 >= MAX_BOOT_ATTEMPTS
    OBVIOUS
  <2>1. Stage2Check
    BY DEF Next, Stage1Step, Stage2Step, Stage1Select, Stage1Increment,
           Stage1IncrementCrc, Stage1Check, Stage1Toggle, Stage1ToggleCrc,
           Stage1ClearFallback, Stage1ResetCount, Stage1Jump, Stage2Select,
           Stage2Increment, Stage2IncrementCrc, Stage2Toggle,
           Stage2ClearFallback, Stage2ToggleCrc, Stage2ResetCount, Stage2Jump,
           ApplicationReset, Reflash, PowerLoss, DflashCorruption, StoreCrc,
           Restart
  <2>2. ~(cfg.app_boot_cnt[active_app] < MAX_BOOT_ATTEMPTS)
    BY <2>1 DEF Stage2Check
  <2>3. cfg.app_boot_cnt[active_app] <= losses + 1
    BY DEF BootInv, TypeOK, CountInv, Slack, BootConfig
  <2> QED BY <2>2, <2>3, BootAssumption DEF BootInv, TypeOK, BootConfig
<1> QED BY <1>1, BootInvariant, PTL DEF Spec, HealthyAppKept

\* Unless the power fails, the switch to the fallback application takes effect.
THEOREM AppSwitch == Spec => AppSwitchTakesEffect
<1> DEFINE Switched == pc = "stage2_toggle_crc" /\ losses' = losses
           Effective == ConfigIntact' /\ cfg'.app_active = OtherBank(active_app)
<1>1. BootInv /\ [Next]_vars => [Switched => Effective]_vars
  <2> SUFFICES ASSUME BootInv, Next, Switched
               PROVE  Effective
    OBVIOUS
  <2>1. Stage2ToggleCrc
    BY DEF Next, Stage1Step, Stage2Step, Stage1Select, Stage1Increment,
           Stage1IncrementCrc, Stage1Check, Stage1Toggle, Stage1ToggleCrc,
           Stage1ClearFallback, Stage1ResetCount, Stage1Jump, Stage2Select,
           Stage2Increment, Stage2IncrementCrc, Stage2Check, Stage2Toggle,
           Stage2ClearFallback, Stage2ResetCount, Stage2Jump,
           ApplicationReset, Reflash, PowerLoss, DflashCorruption, StoreCrc,
           BootInv, TypeOK
  <2> QED BY <2>1 DEF Stage2ToggleCrc, BootInv, RecordInv, AfterToggle,
                      ConfigIntact
<1> QED BY <1>1, BootInvariant, PTL DEF Spec, AppSwitchTakesEffect

-------------------------------------------------------------------------------
(***************************************************************************)
(* HealthyStage2Kept needs an argument of its own.  A power loss can leave *)
(* a stale CRC, and Stage 1 then counts an attempt of bank A whatever bank *)
(* the record names; a bank that is rejected collects such attempts, and   *)
(* keeps them when it is reflashed.  So there is no bound of the form      *)
(* "losses + 1" on these counters: with a limit of six attempts four       *)
(* losses are enough to roll a healthy Stage 2 image back.  With the three *)
(* of boot_common.h the property holds, and only behaviours with at most   *)
(* one loss have to be followed: NoLossInv and OneLossInv bound, up to the *)
(* first and to the second loss, what the counter of an image that would   *)
(* be accepted can have reached.                                           *)
(***************************************************************************)
Attempts(b) == cfg.stage2_boot_cnt[b]
Healthy(b) == Stage1Accepts(stage2[b])
SomeHealthy == \E b \in Bank : Healthy(b)
\* Stage 1 has counted the attempt under way and not yet settled it ...
Counted == {"stage1_increment_crc", "stage1_check", "stage1_toggle",
            "stage1_reset"}
\* ... and the points between naming the other bank and clearing its counter.
Switched == {"stage1_toggle_crc", "stage1_clear"}

\* Before the first loss a counter is at most one, and zero for the bank the
\* record names unless its attempt is under way.
NoLossInv ==
  corruptions = 0 /\ losses = 0 /\ SomeHealthy =>
    /\ \A b \in Bank : Attempts(b) <= 1
    /\ pc \in {"stage1_select", "stage1_clear"} => ConfigIntact
    /\ pc \notin Switched \cup {"stage1_select"}
         => active_stage2 = cfg.stage2_active
    /\ pc \notin Counted => Attempts(cfg.stage2_active) = 0
    /\ Healthy(OtherBank(cfg.stage2_active)) /\ ~Healthy(cfg.stage2_active) =>
         Attempts(OtherBank(cfg.stage2_active)) = 0
    /\ pc \in Switched \cup {"stage1_toggle"} => ~Healthy(active_stage2)
    /\ pc \in Switched => active_stage2 = OtherBank(cfg.stage2_active)

\* Between the first loss and the second: one attempt is left over from before
\* the loss, and one may be under way.
OneLossInv ==
  corruptions = 0 /\ losses = 1 /\ SomeHealthy =>
    /\ pc \notin Switched =>
         Attempts(cfg.stage2_active) <=
           IF pc \in Counted /\ active_stage2 = cfg.stage2_active THEN 2 ELSE 1
    /\ pc = "stage1_select" /\ ~ConfigIntact /\ Healthy(BANK_A)
         => Attempts(BANK_A) <= 1
    /\ pc = "stage1_increment" /\ Healthy(active_stage2)
         => Attempts(active_stage2) <= 1
    /\ pc \in Counted /\ Healthy(active_stage2) => Attempts(active_stage2) <= 2
    /\ pc \in Switched \cup {"stage1_toggle"} => ~Healthy(active_stage2)
    /\ pc \in Counted \cup {"stage1_increment"} /\ active_stage2 = BANK_B =>
         cfg.stage2_active = BANK_B
    /\ pc \in Switched /\ active_stage2 = BANK_B => cfg.stage2_active = BANK_A

\* stage1_main starts nothing if both banks are rejected, and only the
\* application rewrites an image: a bank is accepted now only if one was before.
LEMMA HealthyBefore ==
  OnlyVerifiedCodeRuns /\ TypeOK /\ [Next]_vars /\ SomeHealthy' => SomeHealthy
<1> SUFFICES ASSUME OnlyVerifiedCodeRuns, TypeOK, [Next]_vars, SomeHealthy'
             PROVE  SomeHealthy
  OBVIOUS
<1>1. CASE UNCHANGED stage2
  BY <1>1 DEF SomeHealthy, Healthy
<1>2. CASE Reflash
  BY <1>2 DEF Reflash, OnlyVerifiedCodeRuns, SomeHealthy, Healthy, TypeOK
<1>3. Reflash \/ UNCHANGED stage2
  BY DEF Next, Stage1Step, Stage2Step, Stage1Select, Stage1Increment,
         Stage1IncrementCrc, Stage1Check, Stage1Toggle, Stage1ToggleCrc,
         Stage1ClearFallback, Stage1ResetCount, Stage1Jump, Stage2Select,
         Stage2Increment, Stage2IncrementCrc, Stage2Check, Stage2Toggle,
         Stage2ClearFallback, Stage2ToggleCrc, Stage2ResetCount, Stage2Jump,
         ApplicationReset, PowerLoss, DflashCorruption, StoreCrc, images, vars
<1> QED BY <1>1, <1>2, <1>3

\* The two banks, by name.
LEMMA BanksAre ==
  /\ Bank = {BANK_A, BANK_B} /\ BANK_A # BANK_B
  /\ OtherBank(BANK_A) = BANK_B /\ OtherBank(BANK_B) = BANK_A
BY DEF Bank, BANK_A, BANK_B, OtherBank

\* NoLossInv is kept by every step that loses no power.
LEMMA NoLossStep ==
  ASSUME MAX_BOOT_ATTEMPTS = 3, BootInv, NoLossInv, [Next]_vars
  PROVE  NoLossInv'
<1> SUFFICES ASSUME corruptions' = 0, losses' = 0, SomeHealthy'
             PROVE  NoLossInv'
  BY DEF NoLossInv
<1>0. TypeOK /\ OnlyVerifiedCodeRuns /\ RecordInv
  BY DEF BootInv
<1>a. SomeHealthy
  BY <1>0, HealthyBefore
<1>b. /\ cfg.stage2_active \in Bank /\ active_stage2 \in Bank
      /\ \A b \in Bank : Attempts(b) \in 0 .. CntMod - 1
  BY <1>0 DEF TypeOK, BootConfig, Attempts
<1>c. CntMod \in Nat /\ 3 < CntMod /\ Bumped(0) = 1 /\ Bumped(1) = 2
  BY BootAssumption DEF Bumped
<1> USE DEF TypeOK, NoLossInv, SomeHealthy, Healthy, Attempts, Counted,
            Switched, BootConfig, ConfigIntact, dflash, images, locals,
            disturbances
<1>1. CASE Stage1Select
  BY <1>0, <1>a, <1>b, <1>c, <1>1, BanksAre DEF Stage1Select, SelectedStage2
<1>2. CASE Stage1Increment
  BY <1>0, <1>a, <1>b, <1>c, <1>2, BanksAre DEF Stage1Increment
<1>3. CASE Stage1IncrementCrc
  BY <1>0, <1>a, <1>b, <1>c, <1>3, BanksAre DEF Stage1IncrementCrc, StoreCrc
<1>4. CASE Stage1Check
  BY <1>0, <1>a, <1>b, <1>c, <1>4, BanksAre DEF Stage1Check
<1>5. CASE Stage1Toggle
  BY <1>0, <1>a, <1>b, <1>c, <1>5, BanksAre DEF Stage1Toggle
<1>6. CASE Stage1ToggleCrc
  BY <1>0, <1>a, <1>b, <1>c, <1>6, BanksAre DEF Stage1ToggleCrc, StoreCrc
<1>7. CASE Stage1ClearFallback
  BY <1>0, <1>a, <1>b, <1>c, <1>7, BanksAre DEF Stage1ClearFallback, Restart
<1>8. CASE Stage1ResetCount
  BY <1>0, <1>a, <1>b, <1>c, <1>8, BanksAre DEF Stage1ResetCount
<1>9. CASE Stage1Jump
  BY <1>0, <1>a, <1>b, <1>c, <1>9, BanksAre DEF Stage1Jump, StoreCrc
<1>10. CASE Stage2Step
  BY <1>0, <1>a, <1>b, <1>10
  DEF Stage2Step, Stage2Select, Stage2Increment, Stage2IncrementCrc, Stage2Check,
      Stage2Toggle, Stage2ClearFallback, Stage2ToggleCrc, Stage2ResetCount,
      Stage2Jump, StoreCrc, Restart, RecordInv, Stage2Points
<1>11. CASE ApplicationReset
  BY <1>0, <1>a, <1>b, <1>11 DEF ApplicationReset, Restart, RecordInv
<1>12. CASE Reflash
  BY <1>0, <1>a, <1>b, <1>12, BanksAre DEF Reflash, OnlyVerifiedCodeRuns
<1>13. CASE PowerLoss
  BY <1>0, <1>13 DEF PowerLoss
<1>14. CASE DflashCorruption
  BY <1>0, <1>14 DEF DflashCorruption
<1>15. CASE UNCHANGED vars
  BY <1>15 DEF vars
<1> QED BY <1>1, <1>2, <1>3, <1>4, <1>5, <1>6, <1>7, <1>8, <1>9, <1>10,
           <1>11, <1>12, <1>13, <1>14, <1>15 DEF Next, Stage1Step

\* OneLossInv follows from NoLossInv at the first loss and is kept from there.
LEMMA OneLossStep ==
  ASSUME MAX_BOOT_ATTEMPTS = 3, BootInv, NoLossInv, OneLossInv, [Next]_vars
  PROVE  OneLossInv'
<1> SUFFICES ASSUME corruptions' = 0, losses' = 1, SomeHealthy'
             PROVE  OneLossInv'
  BY DEF OneLossInv
<1>0. TypeOK /\ OnlyVerifiedCodeRuns /\ RecordInv
  BY DEF BootInv
<1>a. SomeHealthy
  BY <1>0, HealthyBefore
<1>b. /\ cfg.stage2_active \in Bank /\ active_stage2 \in Bank
      /\ \A b \in Bank : Attempts(b) \in 0 .. CntMod - 1
  BY <1>0 DEF TypeOK, BootConfig, Attempts
<1>c. CntMod \in Nat /\ 3 < CntMod /\ Bumped(0) = 1 /\ Bumped(1) = 2
  BY BootAssumption DEF Bumped
<1> USE DEF TypeOK, OneLossInv, SomeHealthy, Healthy, Attempts, Counted,
            Switched, BootConfig, ConfigIntact, dflash, images, locals,
            disturbances
<1>1. CASE Stage1Select
  BY <1>0, <1>a, <1>b, <1>c, <1>1, BanksAre DEF Stage1Select, SelectedStage2
<1>2. CASE Stage1Increment
  BY <1>0, <1>a, <1>b, <1>c, <1>2, BanksAre DEF Stage1Increment
<1>3. CASE Stage1IncrementCrc
  BY <1>0, <1>a, <1>b, <1>c, <1>3, BanksAre DEF Stage1IncrementCrc, StoreCrc
<1>4. CASE Stage1Check
  BY <1>0, <1>a, <1>b, <1>c, <1>4, BanksAre DEF Stage1Check
<1>5. CASE Stage1Toggle
  BY <1>0, <1>a, <1>b, <1>c, <1>5, BanksAre DEF Stage1Toggle
<1>6. CASE Stage1ToggleCrc
  BY <1>0, <1>a, <1>b, <1>c, <1>6, BanksAre DEF Stage1ToggleCrc, StoreCrc
<1>7. CASE Stage1ClearFallback
  BY <1>0, <1>a, <1>b, <1>c, <1>7, BanksAre DEF Stage1ClearFallback, Restart
<1>8. CASE Stage1ResetCount
  BY <1>0, <1>a, <1>b, <1>c, <1>8, BanksAre DEF Stage1ResetCount
<1>9. CASE Stage1Jump
  BY <1>0, <1>a, <1>b, <1>c, <1>9, BanksAre DEF Stage1Jump, StoreCrc
<1>10. CASE Stage2Step
  BY <1>0, <1>a, <1>b, <1>10
  DEF Stage2Step, Stage2Select, Stage2Increment, Stage2IncrementCrc, Stage2Check,
      Stage2Toggle, Stage2ClearFallback, Stage2ToggleCrc, Stage2ResetCount,
      Stage2Jump, StoreCrc, Restart, RecordInv, Stage2Points
<1>11. CASE ApplicationReset
  BY <1>0, <1>a, <1>b, <1>11 DEF ApplicationReset, Restart, RecordInv
<1>12. CASE Reflash
  BY <1>0, <1>a, <1>b, <1>12, BanksAre DEF Reflash, OnlyVerifiedCodeRuns
<1>13. CASE PowerLoss
  BY <1>0, <1>a, <1>b, <1>13, BanksAre DEF PowerLoss, Restart, NoLossInv
<1>14. CASE DflashCorruption
  BY <1>0, <1>14 DEF DflashCorruption
<1>15. CASE UNCHANGED vars
  BY <1>15 DEF vars
<1> QED BY <1>1, <1>2, <1>3, <1>4, <1>5, <1>6, <1>7, <1>8, <1>9, <1>10,
           <1>11, <1>12, <1>13, <1>14, <1>15 DEF Next, Stage1Step

\* With the limit of boot_common.h, a Stage 2 image that passes its check is
\* rolled back only after two losses.
THEOREM Stage2Kept ==
  ASSUME MAX_BOOT_ATTEMPTS = 3 PROVE Spec => HealthyStage2Kept
<1> DEFINE Rolled == /\ pc = "stage1_check" /\ pc' = "stage1_toggle"
                     /\ Stage1Accepts(stage2[active_stage2]) /\ corruptions = 0
<1>1. Init => NoLossInv /\ OneLossInv
  <2> SUFFICES ASSUME Init PROVE NoLossInv /\ OneLossInv
    OBVIOUS
  <2>1. OneLossInv
    BY DEF Init, OneLossInv
  <2>2. pc = "stage1_select" /\ crc = cfg /\ \A b \in Bank : Attempts(b) = 0
    BY DEF Init, FreshConfig, Attempts
  <2>3. NoLossInv
    BY <2>2, BanksAre DEF Init, FreshConfig, NoLossInv, ConfigIntact,
                            Counted, Switched, Attempts
  <2> QED BY <2>1, <2>3
<1>2. BootInv /\ NoLossInv /\ OneLossInv /\ [Next]_vars
        => NoLossInv' /\ OneLossInv'
  BY NoLossStep, OneLossStep
<1>3. BootInv /\ NoLossInv /\ OneLossInv /\ [Next]_vars
        => [Rolled => losses + 1 >= MAX_BOOT_ATTEMPTS]_vars
  <2> SUFFICES ASSUME BootInv, NoLossInv, OneLossInv, Next, Rolled
               PROVE  losses + 1 >= MAX_BOOT_ATTEMPTS
    OBVIOUS
  <2>0. /\ losses \in Nat /\ active_stage2 \in Bank /\ SomeHealthy
        /\ Attempts(active_stage2) \in Nat
    BY BootAssumption DEF BootInv, TypeOK, BootConfig, Attempts,
                          SomeHealthy, Healthy
  <2>1. Stage1Check
    BY DEF Next, Stage1Step, Stage2Step, Stage1Select, Stage1Increment,
           Stage1IncrementCrc, Stage1Toggle, Stage1ToggleCrc,
           Stage1ClearFallback, Stage1ResetCount, Stage1Jump, Stage2Select,
           Stage2Increment, Stage2IncrementCrc, Stage2Check, Stage2Toggle,
           Stage2ClearFallback, Stage2ToggleCrc, Stage2ResetCount, Stage2Jump,
           ApplicationReset, Reflash, PowerLoss, DflashCorruption, StoreCrc,
           Restart
  <2>2. ~(Attempts(active_stage2) < 3)
    BY <2>1 DEF Stage1Check, Attempts
  <2>3. losses # 0
    BY <2>0, <2>2 DEF NoLossInv
  <2>4. losses # 1
    BY <2>0, <2>2 DEF OneLossInv, Counted, Healthy
  <2> QED BY <2>0, <2>3, <2>4
<1> QED BY <1>1, <1>2, <1>3, BootInvariant, PTL DEF Spec, HealthyStage2Kept

-------------------------------------------------------------------------------
\* The bootloader implements VerifiedBoot: Stage2Jump is its Boot, every way
\* out of the application its Reset, and all other steps are invisible to it.
THEOREM Refinement == Spec => RefinesVerifiedBoot
<1>1. Init => AbstractBoot!Init
  BY DEF Init, AbstractBoot!Init, BANK_A, AbstractBoot!Bank, Bank, BANK_B
<1>2. BootInv /\ [Next]_vars => [AbstractBoot!Next]_AbstractBoot!vars
  <2> SUFFICES ASSUME BootInv, [Next]_vars
               PROVE  AbstractBoot!Next \/ UNCHANGED AbstractBoot!vars
    OBVIOUS
  <2> USE DEF dflash, images, locals, disturbances, AbstractBoot!vars,
              AbstractBoot!images
  <2>1. CASE /\ pc # "application" /\ pc' # "application"
             /\ UNCHANGED images
    BY <2>1
  <2>2. CASE Stage2Jump
    <3>1. /\ stage2[active_stage2] \in {f \in Faults : Stage1Accepts(f)}
          /\ app[active_app] \in {f \in Faults : Stage2Accepts(f)}
      BY <2>2 DEF Stage2Jump, StoreCrc, BootInv, TypeOK, OnlyVerifiedCodeRuns,
                  Stage2Points
    <3>2. active_stage2 \in AbstractBoot!Bank /\ active_app \in AbstractBoot!Bank
      BY DEF BootInv, TypeOK, Bank, BANK_A, BANK_B, AbstractBoot!Bank
    <3>3. AbstractBoot!Boot
      BY <2>2, <3>1, <3>2 DEF Stage2Jump, StoreCrc, AbstractBoot!Boot
    <3> QED BY <3>3 DEF AbstractBoot!Next
  <2>3. CASE pc = "application" /\ Restart /\ UNCHANGED images
    <3>1. AbstractBoot!Reset
      BY <2>3 DEF Restart, AbstractBoot!Reset, BANK_A
    <3> QED BY <3>1 DEF AbstractBoot!Next
  <2>4. CASE Reflash
    <3>1. AbstractBoot!Reflash
      BY <2>4 DEF Reflash, AbstractBoot!Reflash, OtherBank
    <3> QED BY <3>1 DEF AbstractBoot!Next
  <2>5. CASE UNCHANGED vars
    BY <2>5 DEF vars
  <2>6. CASE PowerLoss
    BY <2>6, <2>1, <2>3 DEF PowerLoss, Restart
  <2>7. CASE ApplicationReset
    BY <2>7, <2>3 DEF ApplicationReset
  <2>8. CASE Stage1Step
    BY <2>8, <2>1
    DEF Stage1Step, Stage1Select, Stage1Increment, Stage1IncrementCrc,
        Stage1Check, Stage1Toggle, Stage1ToggleCrc, Stage1ClearFallback,
        Stage1ResetCount, Stage1Jump, StoreCrc, Restart
  <2>9. CASE Stage2Step
    BY <2>9, <2>1, <2>2
    DEF Stage2Step, Stage2Select, Stage2Increment, Stage2IncrementCrc,
        Stage2Check, Stage2Toggle, Stage2ClearFallback, Stage2ToggleCrc,
        Stage2ResetCount, StoreCrc, Restart
  <2>10. CASE DflashCorruption
    BY <2>10, <2>1 DEF DflashCorruption
  <2> QED BY <2>4, <2>5, <2>6, <2>7, <2>8, <2>9, <2>10 DEF Next
<1> QED BY <1>1, <1>2, BootInvariant, PTL
        DEF Spec, RefinesVerifiedBoot, AbstractBoot!Spec

===============================================================================
