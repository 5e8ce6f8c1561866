------------------------------ MODULE OtaManager ------------------------------
(***************************************************************************)
(* The A/B update manager of the simulator (tc375_simulator                *)
(* ota_manager.cpp) with its simulated Bootloader.  An image is the set of *)
(* blocks that hold firmware; a bank can be booted when all of them do.    *)
(* verifyCRC and verifySignature are stubs that accept everything.  File   *)
(* operations may fail where the code looks at their result.               *)
(***************************************************************************)
EXTENDS Naturals

CONSTANTS
  Blocks,        \* number of blocks of a firmware
  MaxWrites      \* bound: blocks written in one download

ASSUME OtaAssumption == Blocks \in Nat \ {0} /\ MaxWrites \in Nat

Bank == {"A", "B"}
Other(b) == IF b = "A" THEN "B" ELSE "A"
Block == 0 .. Blocks - 1

VARIABLES
  state,         \* state_
  current_bank,  \* current_bank_: the bank the manager was started from
  target_size,   \* target_size_, in blocks
  bytes_written, \* bytes_written_, in blocks
  g_active_bank, \* the bank the next boot uses
  g_valid,       \* g_bank_a_valid, g_bank_b_valid
  image          \* image[b]: the blocks of bank b that hold firmware

manager == <<state, current_bank, target_size, bytes_written>>
vars == <<manager, g_active_bank, g_valid, image>>

State == {"IDLE", "DOWNLOADING", "VERIFYING", "INSTALLING", "ROLLBACK",
          "SUCCESS", "FAILED"}

TypeOK ==
  /\ state \in State /\ current_bank \in Bank
  /\ target_size \in {0, Blocks} /\ bytes_written \in 0 .. MaxWrites
  /\ g_active_bank \in Bank /\ g_valid \in [Bank -> BOOLEAN]
  /\ image \in [Bank -> SUBSET Block]

-------------------------------------------------------------------------------
\* (mutant) the bank in use.
TargetIsCurrent == current_bank

getTargetBank == Other(current_bank)

\* The statics of the Bootloader and an OtaManager made at start-up.
Init ==
  /\ state = "IDLE" /\ target_size = 0 /\ bytes_written = 0
  /\ g_active_bank = "A" /\ current_bank = g_active_bank
  /\ g_valid = [b \in Bank |-> b = "A"]
  /\ image = [b \in Bank |-> IF b = "A" THEN Block ELSE {}]

\* eraseBank cannot fail.  The valid flag of the erased bank stays as it is.
startDownload ==
  /\ state = "IDLE"
  /\ state' = "DOWNLOADING"
  /\ target_size' = Blocks /\ bytes_written' = 0
  /\ image' = [image EXCEPT ![getTargetBank] = {}]
  /\ UNCHANGED <<current_bank, g_active_bank, g_valid>>

\* Blocks may come in any order and more than once.
writeBlock(offset) ==
  /\ state = "DOWNLOADING"
  /\ offset < target_size
  /\ bytes_written < MaxWrites
  /\ image' = [image EXCEPT ![getTargetBank] = @ \cup {offset}]
  /\ bytes_written' = bytes_written + 1
  /\ UNCHANGED <<state, current_bank, target_size, g_active_bank, g_valid>>

\* VERIFYING is also the state a successful verification leaves.
verify ==
  /\ state = "DOWNLOADING"
  /\ state' \in {"VERIFYING", "FAILED"}      \* saveBankMetadata may fail
  /\ UNCHANGED <<current_bank, target_size, bytes_written, g_active_bank,
                 g_valid, image>>

\* (mutant) the switch comes without marking the bank valid.
installUnmarked ==
  /\ state = "VERIFYING"
  /\ state' = "SUCCESS"
  /\ g_active_bank' = getTargetBank
  /\ UNCHANGED <<current_bank, target_size, bytes_written, g_valid, image>>

install ==
  /\ state = "VERIFYING"
  /\ state' = "SUCCESS"
  /\ g_valid' = [g_valid EXCEPT ![getTargetBank] = TRUE]
  /\ g_active_bank' = getTargetBank
  /\ UNCHANGED <<current_bank, target_size, bytes_written, image>>

\* rollback has no guard: it may come in any state.
rollback ==
  LET fallback == Other(current_bank) IN
  /\ IF g_valid[fallback]
     THEN /\ state' = "SUCCESS"
          /\ g_active_bank' = fallback
     ELSE /\ state' = "FAILED"
          /\ UNCHANGED g_active_bank
  /\ UNCHANGED <<current_bank, target_size, bytes_written, g_valid, image>>

\* A reboot: the bootloader starts the active bank, whose manager starts over.
reboot ==
  /\ state' = "IDLE" /\ target_size' = 0 /\ bytes_written' = 0
  /\ current_bank' = g_active_bank
  /\ UNCHANGED <<g_active_bank, g_valid, image>>

Next ==
  \/ startDownload \/ (\E offset \in 0 .. Blocks : writeBlock(offset)) \/ verify
  \/ install \/ rollback \/ reboot

Spec == Init /\ [][Next]_vars

-------------------------------------------------------------------------------
\* Properties

\* The bank the next boot uses is always one the Bootloader holds valid, in
\* whatever state rollback() or a reboot comes.
ActiveBankMarkedValid == TypeOK /\ g_valid[g_active_bank]

\* The firmware that is running is never erased or overwritten, also after the
\* active bank was switched under it: the target is the opposite of the bank the
\* manager was started from, not of the active one.
RunningBankUntouched ==
  [][image'[current_bank] = image[current_bank]]_vars

===============================================================================
