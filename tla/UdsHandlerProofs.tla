-------------------------- MODULE UdsHandlerProofs --------------------------
(***************************************************************************)
(* Proofs about the end node on the TC375.  Of its UDS handler             *)
(* (UdsHandler), for any limit and delay of the security access, any width *)
(* of the tick and of the block counter, and downloads of any size.  Of    *)
(* its link to the zonal gateway (EcuLink), for any number of calls on a   *)
(* connection and any way the stream is cut.  The two modules share no     *)
(* variable.                                                               *)
(***************************************************************************)
EXTENDS UdsHandler, EcuLink, NumberLemmas, SequenceTheorems, TLAPS

-----------------------------------------------------------------------------
(* The UDS handler.                                                        *)

\* One service does not touch the state of another: the steps that leave the
\* session, the lockout or the transfer alone.
LEMMA Untouched ==
  /\ \A r : Answer(r) => UNCHANGED <<sessionState, securityState, transferState, up>>
  /\ RequestDownloadRejected \/ TransferExitRejected \/ ReadDataById \/ WriteDataById
       \/ OtherRequest \/ (\E seq \in 0 .. SeqMod - 1 : TransferDataRejected(seq))
     => UNCHANGED <<sessionState, securityState, transferState, up>>
<1>1. ASSUME NEW r, Answer(r)
      PROVE  UNCHANGED <<sessionState, securityState, transferState, up>>
  BY <1>1, Zenon DEF Answer
<1> QED
  BY <1>1, Zenon DEF RequestDownloadRejected, TransferExitRejected, ReadDataById,
                     WriteDataById, OtherRequest, TransferDataRejected

Rejection ==
  RequestDownloadRejected \/ TransferExitRejected \/ ReadDataById \/ WriteDataById
    \/ OtherRequest \/ (\E seq \in 0 .. SeqMod - 1 : TransferDataRejected(seq))

-----------------------------------------------------------------------------
(* Sessions.                                                               *)

\* An unlock of the programming session rests on a key given in it, whatever
\* sessions came before (uds_service_diagnostic_session_control).
THEOREM OwnKey == Spec => []ProgrammingNeedsOwnKey
<1> USE DEF ProgrammingNeedsOwnKey
<1>1. Init => ProgrammingNeedsOwnKey
  BY DEF Init
<1>2. ProgrammingNeedsOwnKey /\ [Next]_vars => ProgrammingNeedsOwnKey'
  <2> SUFFICES ASSUME ProgrammingNeedsOwnKey, [Next]_vars PROVE ProgrammingNeedsOwnKey'
    OBVIOUS
  <2>1. CASE UNCHANGED sessionState
    BY <2>1, Zenon DEF sessionState
  <2>2. ASSUME NEW type \in Session, SessionControl(type) PROVE ProgrammingNeedsOwnKey'
    <3>1. session' = "programming" => security' = "locked"
      BY <2>2 DEF SessionControl
    <3> QED
      BY <3>1
  <2>3. CASE SendRightKey
    BY <2>3, Zenon DEF SendRightKey
  <2>4. CASE Watchdog
    BY <2>4 DEF Watchdog
  <2>5. ASSUME SecurityAccess, ~SendRightKey PROVE UNCHANGED sessionState
    BY <2>5, Zenon DEF SecurityAccess, SecurityRefused, RequestSeed, SendWrongKey,
                       SecurityMalformed
  <2>6. ASSUME \/ EcuReset \/ TransferExit
               \/ \E size \in Sizes : RequestDownload(size)
               \/ \E seq \in 0 .. SeqMod - 1, len \in Lens :
                    TransferData(seq, len) \/ TransferDataFails(seq, len)
        PROVE  UNCHANGED sessionState
    BY <2>6, Zenon DEF EcuReset, TransferExit, RequestDownload, TransferData,
                       TransferDataFails
  <2>7. Rejection \/ UNCHANGED vars => UNCHANGED sessionState
    BY Untouched, Zenon DEF Rejection, vars
  <2> QED
    BY <2>1, <2>2, <2>3, <2>4, <2>5, <2>6, <2>7, Zenon DEF Next, SecurityAccess, Rejection
<1> QED
  BY <1>1, <1>2, PTL DEF Spec

-----------------------------------------------------------------------------
(* The lockout.                                                            *)

\* The time since the lockout began, in uint32_t arithmetic.
Elapsed == (tick + TickMod - security_lockout_time) % TickMod

\* While the handler is locked out, the time that has passed is the number of
\* refusals since, and the delay is not over for longer than one request.
LockoutInv ==
  /\ security_attempts \in 0 .. ATTEMPTS
  /\ tick \in 0 .. TickMod - 1 /\ security_lockout_time \in 0 .. TickMod - 1
  /\ refused \in Nat
  /\ security_attempts = ATTEMPTS => Elapsed = refused + 1 /\ refused + 1 <= DELAY

LEMMA TickInRange ==
  ASSUME NEW t \in 0 .. TickMod - 1
  PROVE  NextTick(t) \in 0 .. TickMod - 1
<1>1. TickMod \in Nat \ {0} /\ t \in Nat /\ t + 1 \in Nat
  BY UdsAssumption
<1> QED
  BY <1>1, Successor DEF NextTick

\* Every request that passes the lockout check leaves fewer than the limit of
\* attempts, or begins a lockout at the tick it has read last.
LEMMA AdmittedTypes ==
  ASSUME LockoutInv
  PROVE  AttemptsNow \in 0 .. ATTEMPTS - 1 /\ TickNow \in 0 .. TickMod - 1
<1>1. NextTick(tick) \in 0 .. TickMod - 1
  BY TickInRange DEF LockoutInv
<1> QED
  BY <1>1, UdsAssumption DEF LockoutInv, AttemptsNow, TickNow, AtLimit

\* The tick after the beginning of a lockout is one later.
LEMMA FirstTick ==
  ASSUME NEW t \in 0 .. TickMod - 1
  PROVE  (NextTick(t) + TickMod - t) % TickMod = 1
<1>1. TickMod \in Nat \ {0} /\ TickMod > 1 /\ TickMod - 1 > 0
  BY UdsAssumption
<1>2. (t + TickMod - t) % TickMod = 0
  BY <1>1, TickDifference
<1>3. (((t + 1) % TickMod) + TickMod - t) % TickMod = 0 + 1
  BY <1>1, <1>2, TickAdvances
<1> QED
  BY <1>3 DEF NextTick

LEMMA RefusedStep ==
  ASSUME LockoutInv, SecurityRefused
  PROVE  LockoutInv'
<1>1. /\ security_attempts = ATTEMPTS /\ Elapsed = refused + 1 /\ Elapsed < DELAY
      /\ TickMod \in Nat \ {0} /\ DELAY \in Nat /\ DELAY <= TickMod - 1
  <2>1. Elapsed \in 0 .. TickMod - 1
    <3>1. TickMod \in Nat \ {0}
      BY UdsAssumption
    <3> QED
      BY <3>1, TickAdvances DEF LockoutInv, Elapsed
  <2>2. security_attempts = ATTEMPTS
    BY UdsAssumption DEF SecurityRefused, AtLimit, LockoutInv
  <2>3. ~(Elapsed >= DELAY)
    BY DEF SecurityRefused, DelayPassed, Elapsed
  <2>4. Elapsed = refused + 1
    BY <2>2 DEF LockoutInv
  <2> QED
    BY <2>1, <2>2, <2>3, <2>4, UdsAssumption
<1>2. /\ tick' = NextTick(tick) /\ security_lockout_time' = security_lockout_time
      /\ security_attempts' = security_attempts
      /\ refused' = IF refused < DELAY THEN refused + 1 ELSE refused
  BY Zenon DEF SecurityRefused
<1>3. refused' = refused + 1 /\ refused' \in Nat /\ refused' + 1 <= DELAY
  BY <1>1, <1>2 DEF LockoutInv
<1>4. Elapsed' = Elapsed + 1
  <2>1. (((tick + 1) % TickMod) + TickMod - security_lockout_time) % TickMod
          = ((tick + TickMod - security_lockout_time) % TickMod) + 1
    <3>1. (tick + TickMod - security_lockout_time) % TickMod < TickMod - 1
      <4>1. Elapsed < TickMod - 1
        BY <1>1 DEF LockoutInv
      <4> QED
        BY <4>1 DEF Elapsed
    <3> QED
      BY <1>1, <3>1, TickAdvances DEF LockoutInv
  <2> QED
    BY <1>2, <2>1 DEF Elapsed, NextTick
<1>5. tick' \in 0 .. TickMod - 1
  BY <1>2, TickInRange DEF LockoutInv
<1> HIDE DEF Elapsed
<1>6. Elapsed' = refused' + 1
  BY <1>1, <1>3, <1>4
<1> QED
  BY <1>1, <1>2, <1>3, <1>5, <1>6 DEF LockoutInv

\* A request that leaves fewer attempts than the limit starts no lockout.
LEMMA BelowLimit ==
  ASSUME LockoutInv, security_attempts' \in 0 .. ATTEMPTS - 1,
         tick' \in 0 .. TickMod - 1, security_lockout_time' = security_lockout_time,
         refused' = refused
  PROVE  LockoutInv'
  BY UdsAssumption DEF LockoutInv

LEMMA WrongKeyStep ==
  ASSUME LockoutInv, SendWrongKey
  PROVE  LockoutInv'
<1> DEFINE n == AttemptsNow
           t == TickNow
<1>1. n \in 0 .. ATTEMPTS - 1 /\ t \in 0 .. TickMod - 1
  BY AdmittedTypes
<1>2. security_attempts' = n + 1
  BY Zenon DEF SendWrongKey
<1>3. CASE security_attempts' >= ATTEMPTS
  <2>1. security_lockout_time' = t /\ tick' = NextTick(t) /\ refused' = 0
    BY <1>3, Zenon DEF SendWrongKey
  <2>2. security_attempts' \in 0 .. ATTEMPTS
    BY <1>1, <1>2, UdsAssumption
  <2> HIDE DEF t, n
  <2>3. (tick' + TickMod - security_lockout_time') % TickMod = 1
    BY <1>1, <2>1, FirstTick
  <2>4. tick' \in 0 .. TickMod - 1
    BY <1>1, <2>1, TickInRange
  <2>5. Elapsed' = 1
    BY <2>3 DEF Elapsed
  <2> QED
    BY <1>1, <2>1, <2>2, <2>4, <2>5, UdsAssumption DEF LockoutInv
<1>4. CASE ~(security_attempts' >= ATTEMPTS)
  <2>1. security_lockout_time' = security_lockout_time /\ tick' = t /\ refused' = refused
    BY <1>4, Zenon DEF SendWrongKey
  <2>2. security_attempts' \in 0 .. ATTEMPTS - 1
    BY <1>1, <1>2, <1>4, UdsAssumption
  <2> QED
    BY <1>1, <2>1, <2>2, BelowLimit
<1> QED
  BY <1>3, <1>4

\* The other requests that pass the lockout check.
LEMMA PassedStep ==
  ASSUME LockoutInv,
         \/ RequestSeed \/ SendRightKey
         \/ \E r \in {"subFunctionNotSupported", "incorrectMessageLength"} :
              SecurityMalformed(r)
  PROVE  LockoutInv'
<1>1. /\ AttemptsNow \in 0 .. ATTEMPTS - 1 /\ 0 \in 0 .. ATTEMPTS - 1
      /\ TickNow \in 0 .. TickMod - 1 /\ NextTick(TickNow) \in 0 .. TickMod - 1
  BY AdmittedTypes, TickInRange, UdsAssumption
<1>2. /\ security_attempts' \in {AttemptsNow, 0} /\ tick' \in {TickNow, NextTick(TickNow)}
      /\ security_lockout_time' = security_lockout_time /\ refused' = refused
  BY Zenon DEF RequestSeed, SendRightKey, SecurityMalformed
<1>3. security_attempts' \in 0 .. ATTEMPTS - 1 /\ tick' \in 0 .. TickMod - 1
  BY <1>1, <1>2, Zenon
<1> QED
  BY <1>2, <1>3, BelowLimit

LEMMA LockoutStep == LockoutInv /\ [Next]_vars => LockoutInv'
<1> SUFFICES ASSUME LockoutInv, [Next]_vars PROVE LockoutInv'
  OBVIOUS
<1>1. CASE UNCHANGED securityState
  BY <1>1 DEF securityState, LockoutInv, Elapsed
<1>2. CASE SecurityAccess
  BY <1>2, RefusedStep, WrongKeyStep, PassedStep, Zenon DEF SecurityAccess
<1>3. CASE Watchdog
  <2>1. security_attempts' = 0 /\ security_lockout_time' = 0 /\ tick' = 0 /\ refused' = 0
    BY <1>3, Zenon DEF Watchdog
  <2> QED
    BY <2>1, UdsAssumption DEF LockoutInv
<1>4. ASSUME \/ EcuReset \/ TransferExit
             \/ \E type \in Session : SessionControl(type)
             \/ \E size \in Sizes : RequestDownload(size)
             \/ \E seq \in 0 .. SeqMod - 1, len \in Lens :
                  TransferData(seq, len) \/ TransferDataFails(seq, len)
      PROVE  UNCHANGED securityState
  BY <1>4, Zenon DEF EcuReset, TransferExit, SessionControl, RequestDownload,
                     TransferData, TransferDataFails
<1>5. Rejection \/ UNCHANGED vars => UNCHANGED securityState
  BY Untouched, Zenon DEF Rejection, vars
<1> QED
  BY <1>1, <1>2, <1>3, <1>4, <1>5, Zenon DEF Next, Rejection

LEMMA LockoutAlways == Spec => []LockoutInv
<1>1. Init => LockoutInv
  BY UdsAssumption DEF Init, LockoutInv
<1> QED
  BY <1>1, LockoutStep, PTL DEF Spec

\* After too many wrong keys nothing is served until the clock has been read
\* DELAY times (uds_service_security_access), for any width of the tick.
THEOREM LockoutLasts == Spec => LockoutHolds
<1> DEFINE A == (security_attempts = ATTEMPTS /\ security_attempts' < ATTEMPTS /\ up')
                  => (~up \/ refused + 1 >= DELAY)
<1>1. LockoutInv /\ [Next]_vars => [A]_vars
  <2> SUFFICES ASSUME LockoutInv, [Next]_vars,
                      security_attempts = ATTEMPTS, security_attempts' < ATTEMPTS
               PROVE  ~up \/ refused + 1 >= DELAY
    OBVIOUS
  <2>1. ASSUME Admitted PROVE refused + 1 >= DELAY
    <3>1. Elapsed >= DELAY
      BY <2>1, UdsAssumption DEF Admitted, AtLimit, DelayPassed, Elapsed
    <3>2. Elapsed = refused + 1
      BY DEF LockoutInv
    <3> HIDE DEF Elapsed
    <3> QED
      BY <3>1, <3>2
  <2>2. CASE SecurityAccess
    <3>1. Admitted \/ SecurityRefused
      BY <2>2, Zenon DEF SecurityAccess, RequestSeed, SendRightKey, SendWrongKey,
                         SecurityMalformed
    <3>2. SecurityRefused => security_attempts' = security_attempts
      BY Zenon DEF SecurityRefused
    <3>3. security_attempts' # security_attempts
      BY UdsAssumption
    <3> QED
      BY <2>1, <3>1, <3>2, <3>3, Zenon
  <2>3. CASE Watchdog
    BY <2>3, Zenon DEF Watchdog
  <2>4. ASSUME \/ EcuReset \/ TransferExit
               \/ \E type \in Session : SessionControl(type)
               \/ \E size \in Sizes : RequestDownload(size)
               \/ \E seq \in 0 .. SeqMod - 1, len \in Lens :
                    TransferData(seq, len) \/ TransferDataFails(seq, len)
        PROVE  UNCHANGED securityState
    BY <2>4, Zenon DEF EcuReset, TransferExit, SessionControl, RequestDownload,
                       TransferData, TransferDataFails
  <2>5. Rejection \/ UNCHANGED vars => UNCHANGED securityState
    BY Untouched, Zenon DEF Rejection, vars
  <2>6. ~UNCHANGED securityState
    BY UdsAssumption DEF securityState
  <2> QED
    BY <2>2, <2>3, <2>4, <2>5, <2>6, Zenon DEF Next, Rejection
<1>2. LockoutHolds <=> [][A]_vars
  BY DEF LockoutHolds
<1> QED
  BY <1>1, <1>2, LockoutAlways, PTL DEF Spec

-----------------------------------------------------------------------------
(* Transfers.                                                              *)

TransferInv ==
  /\ transfer_active \in BOOLEAN /\ block_sequence_counter \in 0 .. SeqMod - 1
  /\ transfer_size \in Sizes \cup {0} /\ transfer_received \in Nat
  /\ blocks \in Nat /\ flash \in SUBSET Nat
  /\ transfer_active =>
       /\ block_sequence_counter = (blocks % (SeqMod - 1)) + 1
       /\ 0 .. transfer_received - 1 \subseteq flash

\* The counter of block b, and the one after it, which skips 0 at the wrap.
LEMMA CounterFollows ==
  ASSUME NEW b \in Nat
  PROVE  /\ (b % (SeqMod - 1)) + 1 \in 0 .. SeqMod - 1
         /\ NextCounter((b % (SeqMod - 1)) + 1) = ((b + 1) % (SeqMod - 1)) + 1
<1> DEFINE K == SeqMod - 1
           r == b % K
           t == (b + 1) % K
<1>1. K \in Nat \ {0} /\ SeqMod = K + 1 /\ SeqMod \in Nat \ {0}
  BY UdsAssumption
<1>2. r \in 0 .. K - 1 /\ t = IF r = K - 1 THEN 0 ELSE r + 1
  BY <1>1, Successor
<1> HIDE DEF K, r, t
<1>3. NextCounter(r + 1) = IF ((r + 1) + 1) % SeqMod = 0 THEN 1 ELSE ((r + 1) + 1) % SeqMod
  BY DEF NextCounter
<1>4. CASE r = K - 1
  <2>1. 0 \in 0 .. SeqMod - 1 /\ (r + 1) + 1 = 0 + SeqMod
    BY <1>1, <1>2, <1>4
  <2>2. ((r + 1) + 1) % SeqMod = 0
    BY <1>1, <2>1, WrappedRemainder
  <2>3. NextCounter(r + 1) = t + 1
    BY <1>2, <1>3, <1>4, <2>2
  <2> QED
    BY <1>1, <1>2, <2>3 DEF K, r, t
<1>5. CASE r # K - 1
  <2>1. (r + 1) + 1 \in 0 .. SeqMod - 1 /\ (r + 1) + 1 # 0
    BY <1>1, <1>2, <1>5
  <2>2. ((r + 1) + 1) % SeqMod = (r + 1) + 1
    BY <1>1, <2>1, SmallRemainder
  <2>3. NextCounter(r + 1) = t + 1
    BY <1>2, <1>3, <1>5, <2>1, <2>2
  <2> QED
    BY <1>1, <1>2, <2>3 DEF K, r, t
<1> QED
  BY <1>4, <1>5

LEMMA BlockStep ==
  ASSUME TransferInv, NEW seq, NEW len \in Lens, TransferData(seq, len)
  PROVE  TransferInv'
<1>1. /\ transfer_active = TRUE /\ transfer_active' = transfer_active
      /\ transfer_size' = transfer_size
      /\ flash' = flash \cup (transfer_received .. transfer_received + len - 1)
      /\ transfer_received' = transfer_received + len
      /\ block_sequence_counter' = NextCounter(block_sequence_counter)
      /\ blocks' = blocks + 1
  BY Zenon DEF TransferData, TransferInv
<1>2. len \in Nat /\ transfer_received \in Nat /\ blocks \in Nat /\ flash \in SUBSET Nat
  BY UdsAssumption DEF TransferInv
<1>3. /\ block_sequence_counter = (blocks % (SeqMod - 1)) + 1
      /\ 0 .. transfer_received - 1 \subseteq flash
  BY <1>1, Zenon DEF TransferInv
<1>4. /\ block_sequence_counter' = (blocks' % (SeqMod - 1)) + 1
      /\ block_sequence_counter' \in 0 .. SeqMod - 1 /\ blocks' \in Nat
  <2>1. blocks + 1 \in Nat
    BY <1>2
  <2>2. NextCounter(block_sequence_counter) = ((blocks + 1) % (SeqMod - 1)) + 1
    BY <1>2, <1>3, CounterFollows
  <2>3. ((blocks + 1) % (SeqMod - 1)) + 1 \in 0 .. SeqMod - 1
    BY <2>1, CounterFollows
  <2> QED
    BY <1>1, <2>1, <2>2, <2>3, Zenon
<1>5. /\ 0 .. transfer_received' - 1 \subseteq flash'
      /\ transfer_received' \in Nat /\ flash' \in SUBSET Nat
  BY <1>1, <1>2, <1>3
<1> QED
  BY <1>1, <1>4, <1>5, Zenon DEF TransferInv

\* A failed write adds to the flash and changes nothing else.
LEMMA FailedWriteStep ==
  ASSUME TransferInv, NEW seq, NEW len \in Lens, TransferDataFails(seq, len)
  PROVE  TransferInv'
<1>1. PICK n \in 0 .. len :
        flash' = flash \cup (transfer_received .. transfer_received + n - 1)
  BY Zenon DEF TransferDataFails
<1>2. UNCHANGED <<transfer_active, transfer_size, transfer_received,
                  block_sequence_counter, blocks>>
  BY Zenon DEF TransferDataFails
<1>3. flash \subseteq flash' /\ flash' \in SUBSET Nat
  BY <1>1, UdsAssumption DEF TransferInv
<1>4. /\ transfer_active' = transfer_active /\ transfer_size' = transfer_size
      /\ transfer_received' = transfer_received /\ blocks' = blocks
      /\ block_sequence_counter' = block_sequence_counter
  BY <1>2, Zenon
<1> QED
  BY <1>3, <1>4, Zenon DEF TransferInv

LEMMA StartStep ==
  ASSUME TransferInv, NEW size \in Sizes, RequestDownload(size)
  PROVE  TransferInv'
<1>1. /\ transfer_active' = TRUE /\ block_sequence_counter' = 1 /\ transfer_size' = size
      /\ transfer_received' = 0 /\ blocks' = 0 /\ flash' = {}
  BY Zenon DEF RequestDownload
<1>2. /\ (0 % (SeqMod - 1)) + 1 = 1 /\ 1 \in 0 .. SeqMod - 1
      /\ 0 .. 0 - 1 = {} /\ 0 \in Nat
  <2>1. SeqMod - 1 \in Nat \ {0} /\ 0 \in 0 .. (SeqMod - 1) - 1
    BY UdsAssumption
  <2>2. 0 % (SeqMod - 1) = 0
    BY <2>1, SmallRemainder
  <2> QED
    BY <2>1, <2>2
<1>3. 0 .. transfer_received' - 1 \subseteq flash'
  BY <1>1, <1>2
<1>4. block_sequence_counter' = (blocks' % (SeqMod - 1)) + 1
  BY <1>1, <1>2, Zenon
<1> QED
  BY <1>1, <1>2, <1>3, <1>4, Zenon DEF TransferInv

\* An exit keeps the counters and makes the transfer inactive.
LEMMA ExitStep ==
  ASSUME TransferInv, TransferExit
  PROVE  TransferInv'
<1>1. /\ transfer_active' = FALSE /\ transfer_size' = transfer_size
      /\ transfer_received' = transfer_received /\ blocks' = blocks
      /\ block_sequence_counter' = block_sequence_counter /\ flash' = flash
  BY Zenon DEF TransferExit
<1> QED
  BY <1>1, Zenon DEF TransferInv

LEMMA RestartStep ==
  ASSUME TransferInv, Watchdog
  PROVE  TransferInv'
<1>1. /\ transfer_active' = FALSE /\ transfer_size' = 0 /\ transfer_received' = 0
      /\ blocks' = 0 /\ block_sequence_counter' = 0 /\ flash' = {}
  BY Zenon DEF Watchdog
<1>2. 0 \in 0 .. SeqMod - 1 /\ 0 \in Nat
  BY UdsAssumption
<1> QED
  BY <1>1, <1>2, Zenon DEF TransferInv

\* The steps that leave the transfer alone.
LEMMA TransferKept ==
  ASSUME \/ \E type \in Session : SessionControl(type)
         \/ EcuReset \/ SecurityAccess \/ Rejection \/ UNCHANGED vars
  PROVE  UNCHANGED transferState
<1>1. ASSUME SecurityAccess PROVE UNCHANGED transferState
  BY <1>1, Zenon DEF SecurityAccess, SecurityRefused, RequestSeed, SendRightKey,
                     SendWrongKey, SecurityMalformed
<1>2. ASSUME EcuReset \/ \E type \in Session : SessionControl(type)
      PROVE  UNCHANGED transferState
  BY <1>2, Zenon DEF EcuReset, SessionControl
<1>3. Rejection \/ UNCHANGED vars => UNCHANGED transferState
  BY Untouched, Zenon DEF Rejection, vars
<1> QED
  BY <1>1, <1>2, <1>3, Zenon

LEMMA TransferStep == TransferInv /\ [Next]_vars => TransferInv'
<1> SUFFICES ASSUME TransferInv, [Next]_vars PROVE TransferInv'
  OBVIOUS
<1>1. ASSUME UNCHANGED transferState PROVE TransferInv'
  <2>1. /\ transfer_active' = transfer_active /\ transfer_size' = transfer_size
        /\ transfer_received' = transfer_received /\ blocks' = blocks
        /\ block_sequence_counter' = block_sequence_counter /\ flash' = flash
    BY <1>1, Zenon DEF transferState
  <2> QED
    BY <2>1, Zenon DEF TransferInv
<1>2. ASSUME \/ \E type \in Session : SessionControl(type)
             \/ EcuReset \/ SecurityAccess \/ Rejection \/ UNCHANGED vars
      PROVE  TransferInv'
  BY <1>1, <1>2, TransferKept
<1>3. ASSUME \E seq \in 0 .. SeqMod - 1, len \in Lens :
               TransferData(seq, len) \/ TransferDataFails(seq, len)
      PROVE  TransferInv'
  BY <1>3, BlockStep, FailedWriteStep, Zenon
<1>4. ASSUME \E size \in Sizes : RequestDownload(size) PROVE TransferInv'
  BY <1>4, StartStep, Zenon
<1> QED
  BY <1>2, <1>3, <1>4, ExitStep, RestartStep, Zenon DEF Next, Rejection

LEMMA TransferAlways == Spec => []TransferInv
<1>1. Init => TransferInv
  <2> SUFFICES ASSUME Init PROVE TransferInv
    OBVIOUS
  <2>1. /\ transfer_active = FALSE /\ transfer_size = 0 /\ transfer_received = 0
        /\ blocks = 0 /\ block_sequence_counter = 0 /\ flash = {}
    BY Zenon DEF Init
  <2>2. 0 \in 0 .. SeqMod - 1 /\ 0 \in Nat
    BY UdsAssumption
  <2> QED
    BY <2>1, <2>2, Zenon DEF TransferInv
<1> QED
  BY <1>1, TransferStep, PTL DEF Spec

\* The types of the session, the security state and the answer.
SessionTypes ==
  /\ session \in Session /\ security \in {"locked", "unlocked"}
  /\ keyed \in BOOLEAN /\ up \in BOOLEAN /\ reply \in Replies

LEMMA SessionStep == SessionTypes /\ [Next]_vars => SessionTypes'
<1> SUFFICES ASSUME SessionTypes, [Next]_vars PROVE SessionTypes'
  OBVIOUS
<1> USE DEF SessionTypes
<1>1. ASSUME NEW r \in Replies, Answer(r) PROVE SessionTypes'
  BY <1>1, Zenon DEF Answer, sessionState
<1>2. ASSUME Rejection PROVE \E r \in Replies : Answer(r)
  <2>1. {"positive", "serviceNotSupported", "subFunctionNotSupported",
         "incorrectMessageLength", "conditionsNotCorrect", "securityAccessDenied",
         "requestSequenceError", "wrongBlockSequenceCounter", "requestOutOfRange",
         "generalProgrammingFailure"} \subseteq Replies
    BY DEF Replies
  <2>2. CASE \/ RequestDownloadRejected \/ TransferExitRejected
             \/ \E seq \in 0 .. SeqMod - 1 : TransferDataRejected(seq)
    BY <2>1, <2>2, Zenon DEF RequestDownloadRejected, TransferExitRejected, TransferDataRejected
  <2>3. CASE ReadDataById \/ WriteDataById
    BY <2>1, <2>3, Zenon DEF ReadDataById, WriteDataById
  <2>4. CASE OtherRequest
    BY <2>1, <2>4, Zenon DEF OtherRequest
  <2> QED
    BY <1>2, <2>2, <2>3, <2>4, Zenon DEF Rejection
<1>3. ASSUME NEW type \in Session, SessionControl(type) PROVE SessionTypes'
  <2>1. /\ session' = type /\ keyed' = FALSE /\ up' = up /\ reply' = "positive"
        /\ security' = IF type = "extended" THEN security ELSE "locked"
    BY <1>3, Zenon DEF SessionControl
  <2> QED
    BY <2>1, Zenon DEF Replies
<1>4. CASE EcuReset \/ Watchdog
  BY <1>4, Zenon DEF EcuReset, Watchdog, sessionState, Session, Replies
<1>5. CASE SecurityAccess
  <2>1. /\ session' = session /\ up' = up
        /\ security' \in {security, "unlocked"} /\ keyed' \in {keyed, TRUE}
        /\ reply' \in {"positive", "requiredTimeDelayNotExpired", "exceedNumberOfAttempts",
                       "invalidKey", "subFunctionNotSupported", "incorrectMessageLength"}
    BY <1>5, Zenon DEF SecurityAccess, SecurityRefused, RequestSeed, SendRightKey,
                       SendWrongKey, SecurityMalformed, sessionState
  <2> QED
    BY <2>1, Zenon DEF Replies
<1>6. CASE \/ TransferExit \/ \E size \in Sizes : RequestDownload(size)
           \/ \E seq \in 0 .. SeqMod - 1, len \in Lens :
                TransferData(seq, len) \/ TransferDataFails(seq, len)
  <2>1. /\ UNCHANGED <<sessionState, up>>
        /\ reply' \in {"positive", "generalProgrammingFailure"}
    BY <1>6, Zenon DEF TransferExit, RequestDownload, TransferData, TransferDataFails
  <2> QED
    BY <2>1, Zenon DEF sessionState, Replies
<1>7. CASE UNCHANGED vars
  BY <1>7, Zenon DEF vars, sessionState
<1> QED
  BY <1>1, <1>2, <1>3, <1>4, <1>5, <1>6, <1>7, Zenon DEF Next, Rejection

LEMMA SessionAlways == Spec => []SessionTypes
<1>1. Init => SessionTypes
  BY Zenon DEF Init, SessionTypes, Session, Replies
<1> QED
  BY <1>1, SessionStep, PTL DEF Spec

\* The handler expects the counter of the next block, and every accepted byte is
\* in the flash (uds_service_transfer_data), for any width of the counter.
THEOREM InOrder == Spec => []BlocksInOrder
<1>1. SessionTypes /\ LockoutInv /\ TransferInv => BlocksInOrder
  BY Zenon DEF SessionTypes, LockoutInv, TransferInv, BlocksInOrder, TypeOK
<1> QED
  BY <1>1, SessionAlways, LockoutAlways, TransferAlways, PTL

\* A transfer that ends with a positive response has received as many bytes as
\* were announced, and they are in the flash (uds_service_request_transfer_exit).
THEOREM ExitComplete == Spec => ExitMeansComplete
<1> DEFINE A == (transfer_active /\ ~transfer_active' /\ up)
                  => /\ 0 .. transfer_size - 1 \subseteq flash
                     /\ transfer_received = transfer_size
<1>1. TransferInv /\ [Next]_vars => [A]_vars
  <2> SUFFICES ASSUME TransferInv, [Next]_vars, transfer_active, ~transfer_active', up
               PROVE  /\ 0 .. transfer_size - 1 \subseteq flash
                      /\ transfer_received = transfer_size
    OBVIOUS
  <2>1. CASE TransferExit
    <3>1. transfer_received = transfer_size
      BY <2>1, Zenon DEF TransferExit
    <3>2. 0 .. transfer_received - 1 \subseteq flash
      BY Zenon DEF TransferInv
    <3> QED
      BY <3>1, <3>2, Zenon
  <2>2. ~Watchdog /\ ~UNCHANGED transferState
    BY Zenon DEF Watchdog, transferState
  <2>3. ~\E size \in Sizes : RequestDownload(size)
    BY Zenon DEF RequestDownload
  <2>4. ~\E seq \in 0 .. SeqMod - 1, len \in Lens :
            TransferData(seq, len) \/ TransferDataFails(seq, len)
    BY Zenon DEF TransferData, TransferDataFails
  <2> QED
    BY <2>1, <2>2, <2>3, <2>4, TransferKept, Zenon DEF Next, Rejection
<1>2. ExitMeansComplete <=> [][A]_vars
  BY DEF ExitMeansComplete
<1> QED
  BY <1>1, <1>2, TransferAlways, PTL DEF Spec

-----------------------------------------------------------------------------
(* The DoIP client of the node (EcuLink).                                  *)

\* The flags, which agree with the socket except inside an activation.
FlagsInv ==
  /\ {tcp_socket, udp_socket, is_connected, routing_active, opened} \subseteq BOOLEAN
  /\ zg_connected \in BOOLEAN
  /\ is_connected <=> tcp_socket
  /\ pc = "activate" => is_connected /\ ~routing_active /\ ~zg_connected
  /\ pc # "activate" => (zg_connected <=> is_connected) /\ (routing_active <=> is_connected)
  /\ tcp_socket \/ udp_socket => opened

\* The stream and the call in progress have their types; a call that is to
\* send its request has no answer yet.
StreamTypes ==
  /\ state \in {"INIT", "READY", "OTA_IN_PROGRESS"}
  /\ pc \in {"idle", "activate", "send", "first", "second", "identify"}
  /\ unread \in 0..SendBuffer
  /\ serial \in 0..MaxCalls /\ answer \in 0..MaxCalls
  /\ disturbed \in BOOLEAN /\ peer_open \in BOOLEAN
  /\ wire \in Seq(Fragment) /\ todo \in Seq(Request)
  /\ pc = "send" => serial < MaxCalls /\ answer = 0

\* While every call of the connection has succeeded, the stream holds nothing
\* older than the last request, and nothing behind a message that ends a call:
\* only an acknowledgement is followed by another message.  Between calls it
\* holds nothing, nor does it until the next request has been sent.
StreamInv ==
  ~disturbed =>
    /\ \A i \in 1..Len(wire) : wire[i].tag = serial
    /\ \A i \in 1..Len(todo) : todo[i].tag = serial
    /\ Len(todo) <= 1
    /\ \A i \in 1..Len(wire) : wire[i].part = "head" /\ wire[i].kind # "ack" =>
         i + 1 = Len(wire) /\ todo = <<>>
    /\ pc \in {"idle", "identify", "send"} => wire = <<>> /\ todo = <<>>
    /\ answer # 0 => answer = serial

\* The inductive invariant of the link.
NodeInv == FlagsInv /\ StreamTypes /\ StreamInv

\* The flags change together: when an activation succeeds, and on disconnecting.
LEMMA FlagsStep == FlagsInv /\ [LinkNext]_linkVars => FlagsInv'
<1> SUFFICES ASSUME FlagsInv, [LinkNext]_linkVars PROVE FlagsInv'
  OBVIOUS
<1> USE DEF FlagsInv
<1>1. CASE Start
  BY <1>1, Zenon DEF Start, OpenTcp, node
<1>2. ASSUME NEW k \in 1..Len(wire), Activated(k) PROVE FlagsInv'
  BY <1>2, Zenon DEF Activated
<1>3. CASE ActivationFails
  BY <1>3, Zenon DEF ActivationFails, Disconnect, node
<1>4. CASE Discover
  BY <1>4, Zenon DEF Discover, OpenUdp, node
<1>5. CASE Stop
  BY <1>5, Zenon DEF Stop, Disconnect, client
<1>6. CASE ReceiveOta
  BY <1>6, Zenon DEF ReceiveOta, client
<1>7. ASSUME \/ Heartbeat \/ RequestSent \/ SendFails \/ TimesOut \/ DiscoveryEnds
             \/ \E k \in 1..Len(wire) : FirstIsAck(k) \/ Answered(k) \/ Unusable(k)
             \/ PeerReads \/ PeerActivates \/ PeerAcks \/ PeerAnswers \/ PeerCloses
             \/ UNCHANGED linkVars
      PROVE  UNCHANGED <<client, node>> /\ (pc = "activate" <=> pc' = "activate")
  <2>1. UNCHANGED <<client, node>>
    BY <1>7, Zenon DEF Heartbeat, RequestSent, SendFails, CallFails, TimesOut, DiscoveryEnds,
         FirstIsAck, Answered, Unusable, PeerReads, PeerActivates, PeerAcks,
         PeerAnswers, PeerSends, PeerCloses, linkVars
  <2>2. pc = "activate" <=> pc' = "activate"
    BY <1>7 DEF Heartbeat, RequestSent, SendFails, CallFails, TimesOut, DiscoveryEnds,
         FirstIsAck, Answered, Unusable, PeerReads, PeerActivates, PeerAcks,
         PeerAnswers, PeerSends, PeerCloses, linkVars
  <2> QED
    BY <2>1, <2>2
<1>8. CASE UNCHANGED <<client, node>> /\ (pc = "activate" <=> pc' = "activate")
  BY <1>8, Zenon DEF client, node
<1> QED
  BY <1>1, <1>2, <1>3, <1>4, <1>5, <1>6, <1>7, <1>8, Zenon DEF LinkNext, ClientStep

\* A message is two fragments with the kind and the tag it was built with.
LEMMA MessageFacts ==
  ASSUME NEW k \in Kind, NEW n \in 0..MaxCalls
  PROVE  /\ Message(k, n) \in Seq(Fragment) /\ Len(Message(k, n)) = 2
         /\ Message(k, n)[1].part = "head" /\ Message(k, n)[2].part = "tail"
         /\ \A i \in 1..2 : Message(k, n)[i].tag = n /\ Message(k, n)[i].kind = k
  BY DEF Message, Fragment

\* What recv() leaves is the end of the stream.
LEMMA ReceiveFacts ==
  ASSUME wire \in Seq(Fragment), NEW k \in 1..Len(wire), Receive(k)
  PROVE  /\ wire' \in Seq(Fragment) /\ Len(wire') = Len(wire) - k
         /\ \A i \in 1..Len(wire') : wire'[i] = wire[i + k]
         /\ UNCHANGED <<todo, unread, peer_open>>
<1>1. \A i \in k + 1..Len(wire) : wire[i] \in Fragment
  BY ElementOfSeq
<1>2. Len(wire) \in Nat
  BY LenProperties
<1>3. wire' = SubSeq(wire, k + 1, Len(wire))
  BY DEF Receive
<1>4. /\ SubSeq(wire, k + 1, Len(wire)) \in Seq(Fragment)
      /\ Len(SubSeq(wire, k + 1, Len(wire)))
           = IF k + 1 <= Len(wire) THEN Len(wire) - (k + 1) + 1 ELSE 0
      /\ \A i \in 1..Len(wire) - (k + 1) + 1 :
           SubSeq(wire, k + 1, Len(wire))[i] = wire[(k + 1) + i - 1]
  BY <1>1, <1>2, SubSeqProperties
<1> HIDE DEF Fragment
<1> QED
  BY <1>2, <1>3, <1>4 DEF Receive

\* What recv() returns is its beginning.
LEMMA BufferFacts ==
  ASSUME wire \in Seq(Fragment), NEW k \in 1..Len(wire)
  PROVE  Len(Buffer(k)) = k /\ Buffer(k)[1] = wire[1]
<1>1. \A i \in 1..k : wire[i] \in Fragment
  BY ElementOfSeq
<1>2. Len(wire) \in Nat
  BY LenProperties
<1>3. Len(Buffer(k)) = k /\ \A i \in 1..k - 1 + 1 : Buffer(k)[i] = wire[1 + i - 1]
  BY <1>1, <1>2, SubSeqProperties DEF Buffer
<1> QED
  BY <1>2, <1>3

\* A message is added behind the stream.
LEMMA SendsFacts ==
  ASSUME wire \in Seq(Fragment), todo \in Seq(Request), NEW kind \in Kind,
         NEW rest \in Seq(Request), PeerSends(kind, rest)
  PROVE  /\ todo # <<>> /\ Len(todo) >= 1
         /\ wire' \in Seq(Fragment) /\ Len(wire') = Len(wire) + 2
         /\ \A i \in 1..Len(wire) : wire'[i] = wire[i]
         /\ wire'[Len(wire) + 1].part = "head" /\ wire'[Len(wire) + 2].part = "tail"
         /\ \A i \in {Len(wire) + 1, Len(wire) + 2} :
              wire'[i].tag = todo[1].tag /\ wire'[i].kind = kind
         /\ todo' \in Seq(Request) /\ Len(todo') = Len(rest) + Len(todo) - 1
         /\ \A i \in 1..Len(rest) : todo'[i] = rest[i]
         /\ \A i \in Len(rest) + 1..Len(todo') : todo'[i] = todo[i - Len(rest) + 1]
<1>1. /\ todo # <<>> /\ wire' = wire \o Message(kind, Head(todo).tag)
      /\ todo' = rest \o Tail(todo)
  BY DEF PeerSends
<1>2. /\ Head(todo) \in Request /\ Head(todo) = todo[1] /\ Tail(todo) \in Seq(Request)
      /\ Len(Tail(todo)) = Len(todo) - 1
      /\ \A i \in 1..Len(Tail(todo)) : Tail(todo)[i] = todo[i + 1]
  BY <1>1, HeadTailProperties
<1>3. Head(todo).tag \in 0..MaxCalls
  BY <1>2 DEF Request
<1> DEFINE m == Message(kind, Head(todo).tag)
<1>4. /\ m \in Seq(Fragment) /\ Len(m) = 2 /\ m[1].part = "head" /\ m[2].part = "tail"
      /\ \A i \in 1..2 : m[i].tag = Head(todo).tag /\ m[i].kind = kind
  BY <1>3, MessageFacts
<1> HIDE DEF m
<1>5. /\ wire \o m \in Seq(Fragment) /\ Len(wire \o m) = Len(wire) + Len(m)
      /\ \A i \in 1..Len(wire) + Len(m) :
           (wire \o m)[i] = IF i <= Len(wire) THEN wire[i] ELSE m[i - Len(wire)]
  BY <1>4, ConcatProperties
<1>6. /\ todo' \in Seq(Request) /\ Len(todo') = Len(rest) + Len(Tail(todo))
      /\ \A i \in 1..Len(rest) + Len(Tail(todo)) :
           todo'[i] = IF i <= Len(rest) THEN rest[i] ELSE Tail(todo)[i - Len(rest)]
  BY <1>1, <1>2, ConcatProperties
<1>7. wire' = wire \o m
  BY <1>1 DEF m
<1>8. Len(wire) \in Nat /\ Len(todo) \in Nat \ {0} /\ Len(rest) \in Nat
  BY <1>1, LenProperties, EmptySeq
<1>9. /\ wire'[Len(wire) + 1] = m[1] /\ wire'[Len(wire) + 2] = m[2]
      /\ \A i \in 1..Len(wire) : wire'[i] = wire[i]
      /\ Len(wire') = Len(wire) + 2 /\ wire' \in Seq(Fragment)
  BY <1>4, <1>5, <1>7, <1>8
<1>10. /\ \A i \in 1..Len(rest) : todo'[i] = rest[i]
       /\ \A i \in Len(rest) + 1..Len(todo') : todo'[i] = todo[i - Len(rest) + 1]
       /\ Len(todo') = Len(rest) + Len(todo) - 1
  <2>1. Len(todo') = Len(rest) + Len(todo) - 1
    BY <1>2, <1>6, <1>8
  <2>2. \A i \in 1..Len(rest) : todo'[i] = rest[i]
    BY <1>2, <1>6, <1>8
  <2>3. ASSUME NEW i \in Len(rest) + 1..Len(todo')
        PROVE  todo'[i] = todo[i - Len(rest) + 1]
    <3>1. i - Len(rest) \in 1..Len(Tail(todo)) /\ ~(i <= Len(rest))
      BY <1>2, <1>8, <2>1
    <3>2. todo'[i] = Tail(todo)[i - Len(rest)]
      BY <1>2, <1>6, <1>8, <2>1, <3>1
    <3> QED
      BY <1>2, <3>1, <3>2
  <2> QED
    BY <2>1, <2>2, <2>3
<1>11. \A i \in {Len(wire) + 1, Len(wire) + 2} :
         wire'[i].tag = todo[1].tag /\ wire'[i].kind = kind
  BY <1>2, <1>4, <1>8, <1>9
<1>12. Len(todo) >= 1
  BY <1>8
<1> QED
  BY <1>1, <1>4, <1>6, <1>9, <1>10, <1>11, <1>12, Zenon

\* The gateway adds to the stream only while something is left to do.
LEMMA PeerStep ==
  ASSUME NodeInv, NEW kind \in Kind, NEW rest \in Seq(Request), PeerSends(kind, rest),
         Len(rest) <= 1, rest # <<>> => rest[1].tag = todo[1].tag,
         kind # "ack" => rest = <<>>
  PROVE  StreamTypes' /\ StreamInv'
<1> USE DEF NodeInv
<1>1. UNCHANGED <<state, pc, serial, answer, disturbed, unread, peer_open>>
  BY Zenon DEF PeerSends, node
<1>2. wire \in Seq(Fragment) /\ todo \in Seq(Request)
  BY DEF StreamTypes
<1>3. /\ Len(wire) \in Nat /\ Len(todo) \in Nat /\ Len(rest) \in Nat
      /\ (Len(rest) = 0 <=> rest = <<>>)
  BY <1>2, LenProperties, EmptySeq
<1>4. StreamTypes'
  BY <1>1, <1>2, SendsFacts, Zenon DEF StreamTypes
<1>5. ASSUME ~disturbed PROVE StreamInv'
  <2>1. todo # <<>> /\ Len(todo) = 1 /\ todo[1].tag = serial
    <3>1. todo # <<>> /\ Len(todo) >= 1
      BY <1>2, SendsFacts, Zenon
    <3>2. Len(todo) <= 1
      BY <1>5, Zenon DEF StreamInv
    <3>3. \A i \in 1..Len(todo) : todo[i].tag = serial
      BY <1>5, Zenon DEF StreamInv
    <3>4. Len(todo) = 1 /\ 1 \in 1..Len(todo)
      <4>1. \A n \in Nat : n >= 1 /\ n <= 1 => n = 1 /\ 1 \in 1..n
        OBVIOUS
      <4> QED
        BY <1>3, <3>1, <3>2, <4>1, Zenon
    <3> QED
      BY <3>1, <3>3, <3>4, Zenon
  <2>2. pc \notin {"idle", "identify", "send"} /\ (answer # 0 => answer = serial)
    BY <1>5, <2>1 DEF StreamInv
  <2>3. \A i \in 1..Len(wire) :
          wire[i].tag = serial /\ ~(wire[i].part = "head" /\ wire[i].kind # "ack")
    BY <1>5, <2>1 DEF StreamInv
  <2>4. Len(todo') = Len(rest) /\ \A i \in 1..Len(rest) : todo'[i] = rest[i]
    BY <1>2, <1>3, <2>1, SendsFacts
  <2>5. \A i \in 1..Len(todo') : todo'[i].tag = serial
    BY <1>3, <2>1, <2>4
  <2>6. Len(wire') = Len(wire) + 2 /\ \A i \in 1..Len(wire) : wire'[i] = wire[i]
    BY <1>2, SendsFacts
  <2>7. \A i \in 1..Len(wire') : wire'[i].tag = serial
    <3>1. \A i \in {Len(wire) + 1, Len(wire) + 2} : wire'[i].tag = serial
      BY <1>2, <2>1, SendsFacts
    <3> QED
      BY <1>3, <2>3, <2>6, <3>1
  <2>8. ASSUME NEW i \in 1..Len(wire'), wire'[i].part = "head", wire'[i].kind # "ack"
        PROVE  i + 1 = Len(wire') /\ todo' = <<>>
    <3>1. i = Len(wire) + 1 /\ kind # "ack"
      <4>1. /\ wire'[Len(wire) + 2].part = "tail"
            /\ wire'[Len(wire) + 1].kind = kind
        BY <1>2, SendsFacts
      <4>2. ~(i \in 1..Len(wire)) /\ i # Len(wire) + 2
        BY <2>3, <2>6, <2>8, <4>1
      <4>3. i = Len(wire) + 1
        BY <1>3, <2>6, <4>2
      <4> QED
        BY <2>8, <4>1, <4>3
    <3>2. Len(todo') = 0 /\ todo' \in Seq(Request)
      BY <1>2, <1>3, <2>4, <3>1, SendsFacts
    <3>3. todo' = <<>>
      BY <3>2, EmptySeq
    <3> QED
      BY <1>3, <2>6, <3>1, <3>3
  <2> QED
    BY <1>1, <1>3, <2>2, <2>4, <2>5, <2>7, <2>8 DEF StreamInv
<1> QED
  BY <1>1, <1>4, <1>5, Zenon DEF StreamInv

\* A message that the client takes as the end of its call was all there was.
LEMMA CallEnds ==
  ASSUME NodeInv, NEW k \in 1..Len(wire), Receive(k), Parses(Buffer(k)),
         wire[1].kind # "ack", ~disturbed
  PROVE  wire' = <<>> /\ todo' = <<>> /\ wire[1].tag = serial
<1> USE DEF NodeInv
<1>1. wire \in Seq(Fragment) /\ Len(wire) \in Nat
  BY LenProperties DEF StreamTypes
<1>2. wire[1].part = "head" /\ k >= 2
  BY <1>1, BufferFacts DEF Parses
<1>3. Len(wire) = 2 /\ todo = <<>> /\ wire[1].tag = serial
  <2>1. 1 \in 1..Len(wire)
    BY <1>1
  <2>2. 1 + 1 = Len(wire) /\ todo = <<>> /\ wire[1].tag = serial
    BY <1>2, <2>1 DEF StreamInv
  <2> QED
    BY <2>2
<1>4. Len(wire') = 0 /\ wire' \in Seq(Fragment) /\ todo' = todo
  BY <1>1, <1>2, <1>3, ReceiveFacts
<1> QED
  BY <1>3, <1>4, EmptySeq

\* What an acknowledgement leaves of the stream.
LEMMA AckStep ==
  ASSUME NodeInv, NEW k \in 1..Len(wire), FirstIsAck(k)
  PROVE  StreamTypes' /\ StreamInv'
<1> USE DEF NodeInv
<1>1. /\ Receive(k) /\ pc' = "second"
      /\ UNCHANGED <<state, serial, answer, disturbed>>
  BY Zenon DEF FirstIsAck, node
<1>2. wire \in Seq(Fragment) /\ Len(wire) \in Nat
  BY LenProperties DEF StreamTypes
<1>3. /\ wire' \in Seq(Fragment) /\ Len(wire') = Len(wire) - k
      /\ \A i \in 1..Len(wire') : wire'[i] = wire[i + k]
      /\ UNCHANGED <<todo, unread, peer_open>>
  BY <1>1, <1>2, ReceiveFacts
<1>4. StreamTypes'
  BY <1>1, <1>3 DEF StreamTypes
<1>5. ASSUME ~disturbed PROVE StreamInv'
  <2>1. \A i \in 1..Len(wire') : i + k \in 1..Len(wire)
    BY <1>2, <1>3
  <2>2. \A i \in 1..Len(wire') : wire'[i].tag = serial
    BY <1>3, <1>5, <2>1 DEF StreamInv
  <2>3. ASSUME NEW i \in 1..Len(wire'), wire'[i].part = "head", wire'[i].kind # "ack"
        PROVE  i + 1 = Len(wire') /\ todo = <<>>
    <3>1. i + k + 1 = Len(wire) /\ todo = <<>>
      BY <1>3, <1>5, <2>1, <2>3 DEF StreamInv
    <3>2. Len(wire') = Len(wire) - k /\ Len(wire) \in Nat /\ i \in Int
      BY <1>2, <1>3
    <3>3. i + 1 = Len(wire')
      BY <3>1, <3>2
    <3> QED
      BY <3>1, <3>3
  <2> QED
    BY <1>1, <1>3, <1>5, <2>2, <2>3 DEF StreamInv
<1> QED
  BY <1>1, <1>4, <1>5, Zenon DEF StreamInv

\* Every step keeps the stream in order.
LEMMA StreamStep == NodeInv /\ [LinkNext]_linkVars => StreamTypes' /\ StreamInv'
<1> SUFFICES ASSUME NodeInv, [LinkNext]_linkVars PROVE StreamTypes' /\ StreamInv'
  OBVIOUS
<1> USE DEF NodeInv, client, node, net
<1>0. /\ wire \in Seq(Fragment) /\ todo \in Seq(Request) /\ MaxCalls \in Nat \ {0}
      /\ <<>> \in Seq(Request) /\ <<>> \in Seq(Fragment) /\ Len(<<>>) = 0
      /\ 0 \in 0..MaxCalls /\ 1 \in 0..MaxCalls /\ Len(<<>>) <= 1
      /\ SendBuffer \in Nat \ {0} /\ 0 \in 0..SendBuffer /\ 1 \in 0..SendBuffer
  BY EmptySeq, MaxCallsAssumption, SendBufferAssumption DEF StreamTypes
<1>1. CASE Start
  <2>1. ActivationRequest \in Request /\ ActivationRequest.tag = 1
    BY <1>0 DEF ActivationRequest, Request
  <2>2. /\ wire' = <<>> /\ todo' = <<ActivationRequest>> /\ pc' = "activate"
        /\ serial' = 1 /\ answer' = 0 /\ peer_open' = TRUE /\ state' = state
        /\ disturbed' = FALSE /\ unread' = 1
    BY <1>1, Zenon DEF Start
  <2>3. /\ todo' \in Seq(Request) /\ Len(todo') = 1 /\ todo'[1] = ActivationRequest
    BY <2>1, <2>2
  <2>4. StreamTypes'
    BY <1>0, <2>2, <2>3, Zenon DEF StreamTypes
  <2>5. StreamInv'
    BY <1>0, <2>1, <2>2, <2>3 DEF StreamInv
  <2> QED
    BY <2>4, <2>5
<1>2. ASSUME NEW k \in 1..Len(wire), Activated(k) PROVE StreamTypes' /\ StreamInv'
  <2>1. /\ Receive(k) /\ Parses(Buffer(k)) /\ Buffer(k)[1].kind = "ra_ok"
        /\ state' = "READY" /\ pc' = "idle"
        /\ UNCHANGED <<serial, answer, disturbed>>
    BY <1>2, Zenon DEF Activated, ActivationAccepted
  <2>2. StreamTypes'
    BY <1>0, <2>1, ReceiveFacts DEF StreamTypes
  <2>3. ASSUME ~disturbed PROVE StreamInv'
    <3>1. wire' = <<>> /\ todo' = <<>>
      BY <1>0, <2>1, <2>3, BufferFacts, CallEnds
    <3> QED
      BY <1>0, <2>1, <2>3, <3>1 DEF StreamInv
  <2> QED
    BY <2>1, <2>2, <2>3, Zenon DEF StreamInv
<1>3. ASSUME NEW k \in 1..Len(wire), Answered(k) PROVE StreamTypes' /\ StreamInv'
  <2>1. /\ Receive(k) /\ Parses(Buffer(k)) /\ Buffer(k)[1].kind = "diag"
        /\ answer' = wire[1].tag /\ pc' = "idle"
        /\ UNCHANGED <<state, serial, disturbed>>
    BY <1>3, Zenon DEF Answered, AnswerAccepted
  <2>2. wire[1].tag \in 0..MaxCalls
    <3>1. wire[1] \in Fragment
      BY <1>0, LenProperties, ElementOfSeq
    <3> QED
      BY <3>1 DEF Fragment
  <2>3. StreamTypes'
    BY <1>0, <2>1, <2>2, ReceiveFacts DEF StreamTypes
  <2>4. ASSUME ~disturbed PROVE StreamInv'
    <3>1. wire' = <<>> /\ todo' = <<>> /\ wire[1].tag = serial
      BY <1>0, <2>1, <2>4, BufferFacts, CallEnds
    <3> QED
      BY <1>0, <2>1, <3>1 DEF StreamInv
  <2> QED
    BY <2>1, <2>3, <2>4, Zenon DEF StreamInv
<1>4. CASE ActivationFails \/ Stop
  <2>1. /\ \/ wire' = <<>> /\ todo' = <<>> /\ unread' = 0 /\ peer_open' = FALSE
           \/ pc = "idle" /\ UNCHANGED net
        /\ pc' = "idle" /\ state' \in {state, "INIT"}
        /\ UNCHANGED <<serial, answer, disturbed>>
    BY <1>4, Zenon DEF ActivationFails, Stop, Disconnect
  <2>2. StreamTypes'
    BY <1>0, <2>1, Zenon DEF StreamTypes
  <2>3. CASE wire' = <<>> /\ todo' = <<>>
    <3>1. Len(todo') <= 1 /\ \A i \in 1..Len(wire') : FALSE
      BY <1>0, <2>3
    <3>2. \A i \in 1..Len(todo') : FALSE
      BY <1>0, <2>3
    <3> QED
      BY <2>1, <2>2, <2>3, <3>1, <3>2, Zenon DEF StreamInv
  <2>4. CASE pc = "idle" /\ UNCHANGED net
    <3>1. UNCHANGED <<pc, wire, todo, serial, answer, disturbed>>
      BY <2>1, <2>4, Zenon
    <3> QED
      BY <2>2, <3>1, Zenon DEF StreamInv
  <2> QED
    BY <2>1, <2>3, <2>4
<1>5. CASE Heartbeat
  <2>1. /\ pc = "idle" /\ pc' = "send" /\ answer' = 0 /\ serial < MaxCalls
        /\ UNCHANGED <<state, serial, disturbed, wire, todo, unread, peer_open>>
    BY <1>5, Zenon DEF Heartbeat
  <2>2. StreamTypes'
    BY <1>0, <2>1 DEF StreamTypes
  <2>3. StreamInv'
    BY <2>1 DEF StreamInv
  <2> QED
    BY <2>2, <2>3
<1>6. CASE RequestSent
  <2> DEFINE r == [kind |-> "diag", tag |-> serial + 1]
  <2>1. /\ pc = "send" /\ pc' = "first" /\ serial' = serial + 1
        /\ UNCHANGED <<state, answer, disturbed, wire, peer_open>>
        /\ SendReturns
    BY <1>6, Zenon DEF RequestSent, SendRequest
  <2>2. \/ peer_open /\ todo' = Append(todo, r) /\ unread' = unread + 1
        \/ ~peer_open /\ todo' = todo /\ unread' = unread
    BY <1>6, Zenon DEF RequestSent, SendRequest
  <2>3. r \in Request /\ r.tag = serial' /\ serial' \in 0..MaxCalls /\ answer = 0
    BY <2>1, <1>0 DEF Request, StreamTypes
  <2> HIDE DEF r
  <2>4. Append(todo, r) \in Seq(Request)
    BY <1>0, <2>3, AppendProperties
  <2>5. unread' \in 0..SendBuffer
    BY <1>0, <2>1, <2>2 DEF SendReturns, StreamTypes
  <2>6. StreamTypes'
    BY <1>0, <2>1, <2>2, <2>3, <2>4, <2>5 DEF StreamTypes
  <2>7. ASSUME ~disturbed PROVE StreamInv'
    <3>1. wire = <<>> /\ todo = <<>>
      BY <2>1, <2>7 DEF StreamInv
    <3>2. /\ Len(Append(todo, r)) = 1 /\ Append(todo, r)[1] = r
      BY <1>0, <2>3, <3>1, AppendProperties
    <3>3. Len(todo') <= 1 /\ \A i \in 1..Len(todo') : todo'[i].tag = serial'
      <4>1. CASE todo' = Append(todo, r)
        <5>1. Len(todo') = 1 /\ todo'[1] = r /\ r.tag = serial'
          BY <2>3, <3>2, <4>1
        <5> QED
          BY <5>1
      <4>2. CASE todo' = todo
        BY <1>0, <3>1, <4>2
      <4> QED
        BY <2>2, <4>1, <4>2
    <3> QED
      BY <1>0, <2>1, <2>3, <3>1, <3>3 DEF StreamInv
  <2> QED
    BY <2>1, <2>6, <2>7, Zenon DEF StreamInv
<1>7. ASSUME SendFails \/ TimesOut \/ \E k \in 1..Len(wire) : Unusable(k)
      PROVE  StreamTypes' /\ StreamInv'
  <2>1. /\ pc' = "idle" /\ disturbed' = TRUE
        /\ UNCHANGED <<state, serial, answer, todo, unread, peer_open>>
    BY <1>7, Zenon DEF SendFails, TimesOut, Unusable, CallFails, ReceiveNothing, Receive
  <2>2. wire' \in Seq(Fragment)
    <3>1. ASSUME NEW k \in 1..Len(wire), Unusable(k) PROVE wire' \in Seq(Fragment)
      BY <1>0, <3>1, ReceiveFacts DEF Unusable
    <3>2. ASSUME SendFails \/ TimesOut PROVE wire' = wire
      BY <3>2, Zenon DEF SendFails, TimesOut, ReceiveNothing
    <3> QED
      BY <1>0, <1>7, <3>1, <3>2
  <2> QED
    BY <2>1, <2>2 DEF StreamTypes, StreamInv
<1>8. CASE Discover \/ DiscoveryEnds \/ ReceiveOta
  <2>1. /\ pc \in {"idle", "identify"} /\ pc' \in {"idle", "identify"}
        /\ state' \in {state, "OTA_IN_PROGRESS"}
        /\ UNCHANGED <<serial, answer, disturbed, net>>
    BY <1>8 DEF Discover, DiscoveryEnds, ReceiveOta
  <2> QED
    BY <2>1 DEF StreamTypes, StreamInv
<1>9. ASSUME PeerActivates \/ PeerAnswers \/ PeerSends("nack", <<>>)
      PROVE  StreamTypes' /\ StreamInv'
  <2>1. PICK kind \in {"ra_ok", "ra_denied", "diag", "alien", "nack"} :
          PeerSends(kind, <<>>)
    BY <1>9, Zenon DEF PeerActivates, PeerAnswers
  <2>2. kind \in Kind /\ kind # "ack"
    BY DEF Kind
  <2> QED
    BY <1>0, <2>1, <2>2, PeerStep, Zenon
<1>10. ASSUME todo # <<>>, PeerSends("ack", <<[Head(todo) EXCEPT !.kind = "acked"]>>)
      PROVE  StreamTypes' /\ StreamInv'
  <2> DEFINE r == [Head(todo) EXCEPT !.kind = "acked"]
  <2>1. Head(todo) \in Request /\ Head(todo) = todo[1]
    BY <1>0, <1>10, HeadTailProperties
  <2>2. r \in Request /\ r.tag = todo[1].tag
    BY <2>1 DEF Request
  <2> HIDE DEF r
  <2>3. <<r>> \in Seq(Request) /\ Len(<<r>>) = 1 /\ <<r>>[1] = r
    BY <2>2
  <2>4. "ack" \in Kind
    BY DEF Kind
  <2>5. PeerSends("ack", <<r>>)
    BY <1>10 DEF r
  <2>6. Len(<<r>>) <= 1
    BY <2>3
  <2> QED
    BY <2>2, <2>3, <2>4, <2>5, <2>6, PeerStep, Zenon
<1>11. CASE PeerCloses
  <2>1. /\ peer_open' = FALSE /\ todo' = <<>> /\ unread' = 0
        /\ UNCHANGED <<state, pc, serial, answer, disturbed, wire>>
    BY <1>11, Zenon DEF PeerCloses
  <2>2. StreamTypes'
    BY <1>0, <2>1, Zenon DEF StreamTypes
  <2>3. Len(todo') <= 1 /\ \A i \in 1..Len(todo') : todo'[i].tag = serial
    BY <1>0, <2>1
  <2> QED
    BY <2>1, <2>2, <2>3, Zenon DEF StreamInv
<1>12. CASE PeerReads
  <2>1. /\ unread > 0 /\ unread' = unread - 1
        /\ UNCHANGED <<state, pc, serial, answer, disturbed, wire, todo, peer_open>>
    BY <1>12, Zenon DEF PeerReads
  <2>2. unread' \in 0..SendBuffer
    BY <1>0, <2>1 DEF StreamTypes
  <2> QED
    BY <2>1, <2>2, Zenon DEF StreamTypes, StreamInv
<1>13. CASE UNCHANGED linkVars
  BY <1>13, Zenon DEF linkVars, StreamTypes, StreamInv
<1> QED
  BY <1>1, <1>2, <1>3, <1>4, <1>5, <1>6, <1>7, <1>8, <1>9, <1>10, <1>11, <1>12, <1>13,
     AckStep, Zenon
  DEF LinkNext, ClientStep, PeerAcks

\* The invariant holds always.
LEMMA NodeAlways == LinkSpec => []NodeInv
<1>1. LinkInit => NodeInv
  <2> SUFFICES ASSUME LinkInit PROVE NodeInv
    OBVIOUS
  <2>1. FlagsInv
    BY Zenon DEF LinkInit, ClientInit, FlagsInv
  <2>2. /\ <<>> \in Seq(Request) /\ <<>> \in Seq(Fragment) /\ Len(<<>>) = 0
        /\ 0 \in 0..MaxCalls /\ 0 \in 0..SendBuffer
    BY EmptySeq, MaxCallsAssumption, SendBufferAssumption
  <2>3. StreamTypes
    BY <2>2, Zenon DEF LinkInit, StreamTypes
  <2>4. StreamInv
    BY <2>2 DEF LinkInit, StreamInv
  <2> QED
    BY <2>1, <2>3, <2>4 DEF NodeInv
<1>2. NodeInv /\ [LinkNext]_linkVars => NodeInv'
  BY FlagsStep, StreamStep DEF NodeInv
<1> QED
  BY <1>1, <1>2, PTL DEF LinkSpec

\* The answer a call returns is the answer to its own request, for any number of
\* calls, wherever the stream is cut and whatever the gateway acknowledges, refuses
\* or leaves unanswered, as long as no call has failed (doip_client_send_diagnostic,
\* doip_client_routing_activation).
THEOREM AnswersMatch == LinkSpec => []AnswerMatchesRequest
<1>1. NodeInv => AnswerMatchesRequest
  BY Zenon DEF NodeInv, StreamInv, AnswerMatchesRequest
<1> QED
  BY <1>1, NodeAlways, PTL

\* The flags of the node and of its client agree with the sockets between calls
\* (ecu_connect_to_zg, ecu_stop, doip_client_disconnect).
THEOREM NodeFlagsAgree == LinkSpec => []FlagsAgree
<1>1. NodeInv => FlagsAgree
  <2> SUFFICES ASSUME NodeInv PROVE FlagsAgree
    OBVIOUS
  <2>1. LinkTypeOK
    BY Zenon DEF LinkTypeOK, NodeInv, FlagsInv, StreamTypes
  <2>2. pc = "idle" => pc # "activate"
    OBVIOUS
  <2> QED
    BY <2>1, <2>2, Zenon DEF FlagsAgree, NodeInv, FlagsInv
<1> QED
  BY <1>1, NodeAlways, PTL
=============================================================================
