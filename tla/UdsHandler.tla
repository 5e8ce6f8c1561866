------------------------------ MODULE UdsHandler ------------------------------
(***************************************************************************)
(* The UDS server of the TC375 ECUs (tc375_bootloader/common/uds_handler.c *)
(* with uds_platform_tc375.c): one action per service, each the whole      *)
(* handler with its early returns.                                         *)
(*                                                                         *)
(* Seed and key are abstracted to whether the key is right for the last    *)
(* seed, and a flash address to its offset in the download.  The response  *)
(* buffer is taken to be large enough, so building a positive response     *)
(* does not fail.                                                          *)
(***************************************************************************)
EXTENDS Naturals

CONSTANTS
  ATTEMPTS,      \* UDS_SECURITY_ACCESS_ATTEMPTS, 3
  DELAY,         \* UDS_SECURITY_ACCESS_DELAY_MS, 10000
  TickMod,       \* the tick is a uint32_t: 2^32
  SeqMod,        \* the block sequence counter is a uint8_t: 256
  Sizes,         \* sizes a download may announce
  Lens,          \* lengths of the data of one TransferData request
  MaxBytes,      \* bound: bytes received in one download
  MaxBlocks      \* bound: blocks received in one download

ASSUME UdsAssumption ==
  /\ ATTEMPTS \in Nat \ {0} /\ DELAY \in Nat \ {0}
  /\ TickMod \in Nat /\ DELAY < TickMod
  /\ SeqMod \in Nat /\ SeqMod > 1
  /\ Sizes \subseteq Nat /\ Lens \subseteq Nat
  /\ MaxBytes \in Nat /\ MaxBlocks \in Nat

VARIABLES
  session, security, security_attempts, security_lockout_time,
  transfer_active, block_sequence_counter, transfer_size, transfer_received,
  tick,          \* dummy_tick of uds_platform_get_tick_ms
  up,            \* FALSE while uds_platform_ecu_reset spins
  reply,         \* the last response: "none", "positive" or an NRC
  \* history
  keyed,         \* a right key was given since the session was last selected
  refused,       \* security requests refused since the lockout began
  blocks,        \* blocks accepted since the last RequestDownload
  flash          \* offsets written since the last RequestDownload

securityState == <<security_attempts, security_lockout_time, tick, refused>>
sessionState == <<session, security, keyed>>
transferState == <<transfer_active, block_sequence_counter, transfer_size,
                   transfer_received, blocks, flash>>
vars == <<sessionState, securityState, transferState, up, reply>>

Session == {"default", "programming", "extended"}

Replies == {"none", "positive", "serviceNotSupported", "subFunctionNotSupported",
            "incorrectMessageLength", "conditionsNotCorrect",
            "requestSequenceError", "requestOutOfRange", "securityAccessDenied",
            "invalidKey", "exceedNumberOfAttempts", "requiredTimeDelayNotExpired",
            "generalProgrammingFailure", "wrongBlockSequenceCounter"}

TypeOK ==
  /\ session \in Session /\ security \in {"locked", "unlocked"}
  /\ security_attempts \in 0 .. ATTEMPTS
  /\ security_lockout_time \in 0 .. TickMod - 1 /\ tick \in 0 .. TickMod - 1
  /\ transfer_active \in BOOLEAN /\ block_sequence_counter \in 0 .. SeqMod - 1
  /\ transfer_size \in Sizes \cup {0} /\ transfer_received \in Nat
  /\ up \in BOOLEAN /\ reply \in Replies
  /\ keyed \in BOOLEAN /\ refused \in Nat /\ blocks \in Nat
  /\ flash \in SUBSET Nat

\* A request that only produces a response.
Answer(r) ==
  /\ up
  /\ reply' = r
  /\ UNCHANGED <<sessionState, securityState, transferState, up>>

-------------------------------------------------------------------------------
\* 0x10 Diagnostic Session Control

\* (mutant) entering the programming session keeps the security state.
SessionControlKeepsUnlock(type) ==
  /\ up
  /\ session' = type
  /\ security' = IF type = "default" THEN "locked" ELSE security
  /\ keyed' = FALSE
  /\ reply' = "positive"
  /\ UNCHANGED <<securityState, transferState, up>>

\* An active transfer goes on whatever the session.
SessionControl(type) ==
  /\ up
  /\ session' = type
  /\ security' = IF type = "extended" THEN security ELSE "locked"
  /\ keyed' = FALSE
  /\ reply' = "positive"
  /\ UNCHANGED <<securityState, transferState, up>>

-------------------------------------------------------------------------------
\* 0x11 ECU Reset

\* The response is built, but uds_platform_ecu_reset spins until the watchdog
\* fires, so it is never sent.
EcuReset ==
  /\ up
  /\ up' = FALSE
  /\ reply' = "none"
  /\ UNCHANGED <<sessionState, securityState, transferState>>

\* uds_handler_init, and the static tick of the platform.
Init ==
  /\ session = "default" /\ security = "locked" /\ keyed = FALSE
  /\ security_attempts = 0 /\ security_lockout_time = 0
  /\ tick = 0 /\ refused = 0
  /\ transfer_active = FALSE /\ block_sequence_counter = 0
  /\ transfer_size = 0 /\ transfer_received = 0 /\ blocks = 0 /\ flash = {}
  /\ up = TRUE /\ reply = "none"

\* The watchdog fires and the ECU starts again: Init.
Watchdog ==
  /\ ~up
  /\ session' = "default" /\ security' = "locked" /\ keyed' = FALSE
  /\ security_attempts' = 0 /\ security_lockout_time' = 0
  /\ tick' = 0 /\ refused' = 0
  /\ transfer_active' = FALSE /\ block_sequence_counter' = 0
  /\ transfer_size' = 0 /\ transfer_received' = 0 /\ blocks' = 0 /\ flash' = {}
  /\ up' = TRUE /\ reply' = "none"

-------------------------------------------------------------------------------
\* 0x27 Security Access

\* uds_platform_get_tick_ms returns dummy_tick++.
NextTick(t) == (t + 1) % TickMod

\* (mutant) the deadline is computed instead of the elapsed time.
DelayPassedByDeadline == ~(tick < security_lockout_time + DELAY)

\* current_time - security_lockout_time in uint32_t arithmetic.
DelayPassed == (tick + TickMod - security_lockout_time) % TickMod >= DELAY

AtLimit == security_attempts >= ATTEMPTS

\* The lockout check refuses the request ...
SecurityRefused ==
  /\ up
  /\ AtLimit /\ ~DelayPassed
  /\ tick' = NextTick(tick)
  /\ refused' = IF refused < DELAY THEN refused + 1 ELSE refused
  /\ reply' = "requiredTimeDelayNotExpired"
  /\ UNCHANGED <<sessionState, transferState, security_attempts,
                 security_lockout_time, up>>

\* ... or lets it through, with the attempts and the tick it leaves behind.
Admitted == up /\ (AtLimit => DelayPassed)
AttemptsNow == IF AtLimit THEN 0 ELSE security_attempts
TickNow == IF AtLimit THEN NextTick(tick) ELSE tick

\* A seed is generated (from the tick) unless the handler is unlocked.
RequestSeed ==
  /\ Admitted
  /\ security_attempts' = AttemptsNow
  /\ tick' = IF security = "unlocked" THEN TickNow ELSE NextTick(TickNow)
  /\ reply' = "positive"
  /\ UNCHANGED <<sessionState, transferState, security_lockout_time, refused, up>>

SendRightKey ==
  /\ Admitted
  /\ security' = "unlocked" /\ keyed' = TRUE
  /\ security_attempts' = 0
  /\ tick' = TickNow
  /\ reply' = "positive"
  /\ UNCHANGED <<session, transferState, security_lockout_time, refused, up>>

\* (mutant) the lockout is noticed but its time is not recorded.
SendWrongKeyUntimed ==
  /\ Admitted
  /\ security_attempts' = AttemptsNow + 1
  /\ IF security_attempts' >= ATTEMPTS
     THEN /\ tick' = NextTick(TickNow) /\ refused' = 0
          /\ reply' = "exceedNumberOfAttempts"
     ELSE /\ tick' = TickNow /\ refused' = refused
          /\ reply' = "invalidKey"
  /\ UNCHANGED <<sessionState, transferState, security_lockout_time, up>>

SendWrongKey ==
  /\ Admitted
  /\ security_attempts' = AttemptsNow + 1
  /\ IF security_attempts' >= ATTEMPTS
     THEN /\ security_lockout_time' = TickNow
          /\ tick' = NextTick(TickNow) /\ refused' = 0
          /\ reply' = "exceedNumberOfAttempts"
     ELSE /\ UNCHANGED security_lockout_time
          /\ tick' = TickNow /\ refused' = refused
          /\ reply' = "invalidKey"
  /\ UNCHANGED <<sessionState, transferState, up>>

\* An unknown sub-function, or a key that is too short: only the lockout check
\* has had its effect.
SecurityMalformed(r) ==
  /\ Admitted
  /\ security_attempts' = AttemptsNow
  /\ tick' = TickNow
  /\ reply' = r
  /\ UNCHANGED <<sessionState, transferState, security_lockout_time, refused, up>>

SecurityAccess ==
  \/ SecurityRefused \/ RequestSeed \/ SendRightKey \/ SendWrongKey
  \/ \E r \in {"subFunctionNotSupported", "incorrectMessageLength"} :
       SecurityMalformed(r)

-------------------------------------------------------------------------------
\* 0x34, 0x36, 0x37: download

RequestDownload(size) ==
  /\ up
  /\ session = "programming" /\ security = "unlocked"
  /\ transfer_active' = TRUE
  /\ block_sequence_counter' = 1
  /\ transfer_size' = size
  /\ transfer_received' = 0
  /\ blocks' = 0 /\ flash' = {}
  /\ reply' = "positive"
  /\ UNCHANGED <<sessionState, securityState, up>>

RequestDownloadRejected ==
  \/ session # "programming" /\ Answer("conditionsNotCorrect")
  \/ /\ session = "programming" /\ security # "unlocked"
     /\ Answer("securityAccessDenied")

\* (mutant) the counter wraps to 0.
CounterWrapsToZero(c) == (c + 1) % SeqMod

\* The counter wraps past 0.
NextCounter(c) == IF (c + 1) % SeqMod = 0 THEN 1 ELSE (c + 1) % SeqMod

\* (mutant) the block is written whatever its counter.
TransferDataUnordered(seq, len) ==
  /\ up
  /\ transfer_active
  /\ transfer_received + len <= MaxBytes /\ blocks < MaxBlocks
  /\ flash' = flash \cup (transfer_received .. transfer_received + len - 1)
  /\ transfer_received' = transfer_received + len
  /\ block_sequence_counter' = IF seq = block_sequence_counter
                               THEN NextCounter(block_sequence_counter)
                               ELSE block_sequence_counter
  /\ blocks' = blocks + 1
  /\ reply' = "positive"
  /\ UNCHANGED <<sessionState, securityState, transfer_active, transfer_size, up>>

\* Neither the session, the security state nor the announced size is checked.
TransferData(seq, len) ==
  /\ up
  /\ transfer_active
  /\ seq = block_sequence_counter
  /\ transfer_received + len <= MaxBytes /\ blocks < MaxBlocks
  /\ flash' = flash \cup (transfer_received .. transfer_received + len - 1)
  /\ transfer_received' = transfer_received + len
  /\ block_sequence_counter' = NextCounter(block_sequence_counter)
  /\ blocks' = blocks + 1
  /\ reply' = "positive"
  /\ UNCHANGED <<sessionState, securityState, transfer_active, transfer_size, up>>

\* A write that fails may have written some of the block.
TransferDataFails(seq, len) ==
  /\ up
  /\ transfer_active
  /\ seq = block_sequence_counter
  /\ transfer_received + len <= MaxBytes
  /\ \E n \in 0 .. len :
       flash' = flash \cup (transfer_received .. transfer_received + n - 1)
  /\ reply' = "generalProgrammingFailure"
  /\ UNCHANGED <<sessionState, securityState, transfer_active, transfer_size,
                 transfer_received, block_sequence_counter, blocks, up>>

TransferDataRejected(seq) ==
  \/ ~transfer_active /\ Answer("requestSequenceError")
  \/ /\ transfer_active /\ seq # block_sequence_counter
     /\ Answer("wrongBlockSequenceCounter")

\* (mutant) an exit is accepted once enough bytes have come.
TransferExitLoose ==
  /\ up
  /\ transfer_active /\ transfer_received >= transfer_size
  /\ transfer_active' = FALSE
  /\ reply' = "positive"
  /\ UNCHANGED <<sessionState, securityState, block_sequence_counter,
                 transfer_size, transfer_received, blocks, flash, up>>

TransferExit ==
  /\ up
  /\ transfer_active /\ transfer_received = transfer_size
  /\ transfer_active' = FALSE
  /\ reply' = "positive"
  /\ UNCHANGED <<sessionState, securityState, block_sequence_counter,
                 transfer_size, transfer_received, blocks, flash, up>>

TransferExitRejected ==
  \/ ~transfer_active /\ Answer("requestSequenceError")
  \/ /\ transfer_active /\ transfer_received # transfer_size
     /\ Answer("generalProgrammingFailure")

-------------------------------------------------------------------------------
\* 0x22, 0x2E, 0x3E, an unknown service, a short request.  None changes the
\* handler: writing a data identifier is a stub.
ReadDataById == \E r \in {"positive", "requestOutOfRange"} : Answer(r)

WriteDataById ==
  Answer(IF security = "unlocked" THEN "positive" ELSE "securityAccessDenied")

OtherRequest ==
  \E r \in {"positive", "serviceNotSupported", "subFunctionNotSupported",
            "incorrectMessageLength"} : Answer(r)

-------------------------------------------------------------------------------
Next ==
  \/ \E type \in Session : SessionControl(type)
  \/ EcuReset \/ Watchdog
  \/ SecurityAccess
  \/ \E size \in Sizes : RequestDownload(size)
  \/ RequestDownloadRejected
  \/ \E seq \in 0 .. SeqMod - 1, len \in Lens :
       TransferData(seq, len) \/ TransferDataFails(seq, len)
  \/ \E seq \in 0 .. SeqMod - 1 : TransferDataRejected(seq)
  \/ TransferExit \/ TransferExitRejected
  \/ ReadDataById \/ WriteDataById \/ OtherRequest

Spec == Init /\ [][Next]_vars

-------------------------------------------------------------------------------
\* Properties

\* After too many wrong keys, uds_service_security_access serves nothing until
\* the clock has been read DELAY times since (the platform's clock advances when
\* it is read), also when the tick wraps in between.
LockoutHolds ==
  [][ (security_attempts = ATTEMPTS /\ security_attempts' < ATTEMPTS /\ up')
      => (~up \/ refused + 1 >= DELAY) ]_vars

\* A tester that keeps asking is served again.
LockoutEnds ==
  []<><<SecurityAccess>>_vars => (AtLimit ~> ~AtLimit)

\* In the programming session the handler is unlocked only by a key given in
\* that session, however the sessions were changed before: 0x34 cannot rest on
\* an unlock of the default or the extended session.
ProgrammingNeedsOwnKey ==
  session = "programming" /\ security = "unlocked" => keyed

\* While a transfer is active the counter the handler expects is that of the
\* next block, 1 .. 255 cyclically, and every accepted byte is in the flash
\* behind the one before: no block is skipped, repeated or overwritten, across
\* wraps of the counter, failed writes and rejected blocks.
BlocksInOrder ==
  /\ TypeOK
  /\ transfer_active =>
    /\ block_sequence_counter = (blocks % (SeqMod - 1)) + 1
    /\ 0 .. transfer_received - 1 \subseteq flash

\* A transfer that ends with a positive response wrote exactly the announced
\* bytes: 0x37 after a failed write, a short or an overlong transfer is refused.
\* (A failed write may have touched bytes past the end.)
ExitMeansComplete ==
  [][ (transfer_active /\ ~transfer_active' /\ up)
      => /\ 0 .. transfer_size - 1 \subseteq flash
         /\ transfer_received = transfer_size ]_vars

===============================================================================
