------------------------- MODULE SimulatorUdsProofs -------------------------
(***************************************************************************)
(* Proofs about the diagnostics of the simulated device, for any set of    *)
(* seeds, any width of the block counter, any length of a transfer and any *)
(* size of the firmware, and about how its process and the other programs  *)
(* of Endpoints start and end, for any selection of them.                  *)
(***************************************************************************)
EXTENDS SimulatorUds, ProcessShutdown, NumberLemmas, SequenceTheorems, TLAPS

-----------------------------------------------------------------------------
(* The block counter.                                                      *)

\* The counter that is expected after block n is the one block n + 1 carries,
\* also across the wrap, and never the one block n carried.
LEMMA CounterFollows ==
  ASSUME NEW n \in Nat \ {0}
  PROVE  /\ CounterOf(n) \in 1..CounterMax
         /\ NextCounter(CounterOf(n)) = CounterOf(n + 1)
         /\ CounterOf(n + 1) # CounterOf(n)
<1> DEFINE M == CounterMax
           r == (n - 1) % M
<1>1. M \in Nat \ {0} /\ M >= 2 /\ n - 1 \in Nat
  BY UdsAssumption
<1>2. r \in 0..M - 1 /\ n % M = IF r = M - 1 THEN 0 ELSE r + 1
  <2>1. (n - 1) + 1 = n
    OBVIOUS
  <2> QED
    BY <1>1, <2>1, Successor
<1>3. CounterOf(n) = r + 1 /\ CounterOf(n + 1) = (n % M) + 1
  BY SMT DEF CounterOf
<1>4. NextCounter(r + 1) = ((r + 1) % M) + 1
  BY DEF NextCounter
<1> HIDE DEF r, M
<1>5. r % M = r
  BY <1>1, <1>2, SmallRemainder
<1>6. (r + 1) % M = IF r % M = M - 1 THEN 0 ELSE (r % M) + 1
  <2>1. r \in Nat
    BY <1>1, <1>2
  <2> QED
    BY <1>1, <2>1, Successor
<1>7. (r + 1) % M = n % M
  BY <1>2, <1>5, <1>6
<1>8. CounterOf(n) \in 1..M /\ CounterOf(n + 1) # CounterOf(n)
  BY <1>1, <1>2, <1>3, SMT
<1> QED
  BY <1>3, <1>4, <1>7, <1>8 DEF M

-----------------------------------------------------------------------------
(* Security access.                                                        *)

\* A seed that may still be answered has not been tried.
SeedInv ==
  /\ security \in {"locked", "seed_sent", "unlocked"}
  /\ proved \in BOOLEAN
  /\ tries \in 0..1
  /\ security = "seed_sent" => tries = 0
  /\ security = "unlocked" <=> proved

LEMMA SeedStep == SeedInv /\ [SimNext]_simVars => SeedInv'
<1> SUFFICES ASSUME SeedInv, [SimNext]_simVars PROVE SeedInv'
  OBVIOUS
<1>0. CASE UNCHANGED <<security, tries, proved>>
  BY <1>0, Zenon DEF SeedInv
<1>1. ASSUME NEW d, RequestSeed(d) PROVE SeedInv'
  <2>1. security' = "seed_sent" /\ tries' = 0 /\ proved' = FALSE
    BY <1>1, Zenon DEF RequestSeed
  <2>2. tries' \in 0..1
    BY <2>1
  <2> QED
    BY <2>1, <2>2, Zenon DEF SeedInv
<1>2. ASSUME NEW d, NEW k, SendKey(d, k) PROVE SeedInv'
  <2>1. security = "seed_sent" /\ tries = 0
    BY <1>2, Zenon DEF SendKey, SeedInv
  <2>2. tries' \in 0..1
    BY <1>2, <2>1 DEF SendKey
  <2>3. CASE k = seed
    <3>1. security' = "unlocked" /\ proved' = TRUE
      BY <1>2, <2>3, Zenon DEF SendKey
    <3> QED
      BY <2>2, <3>1, Zenon DEF SeedInv
  <2>4. CASE k # seed
    <3>1. security' = "locked" /\ proved' = FALSE
      BY <1>2, <2>4, Zenon DEF SendKey
    <3> QED
      BY <2>2, <3>1, Zenon DEF SeedInv
  <2> QED
    BY <2>3, <2>4
<1>3. ASSUME NEW d, DiagnosticSession(d) PROVE UNCHANGED <<security, tries, proved>>
  BY <1>3 DEF DiagnosticSession
<1>4. ASSUME RequestDownload \/ RequestTransferExit \/ \E n \in Sent : TransferData(n)
      PROVE  UNCHANGED <<security, tries, proved>>
  BY <1>4 DEF RequestDownload, RequestTransferExit, TransferData
<1>5. UNCHANGED udsVars => UNCHANGED <<security, tries, proved>>
  BY DEF udsVars
<1>6. CASE HandleRequest
  BY <1>0, <1>1, <1>2, <1>3, <1>4, <1>6 DEF HandleRequest
<1> QED
  BY <1>0, <1>5, <1>6 DEF SimNext, simVars

LEMMA SeedAlways == SimSpec => []SeedInv
<1>1. SimInit => SeedInv
  <2> SUFFICES ASSUME SimInit PROVE SeedInv
    OBVIOUS
  <2>1. security = "locked" /\ proved = FALSE
    BY Zenon DEF SimInit, UdsInit
  <2>2. tries \in 0..1
    BY DEF SimInit, UdsInit
  <2> QED
    BY <2>1, <2>2, Zenon DEF SeedInv
<1> QED
  BY <1>1, SeedStep, PTL DEF SimSpec

\* No transfer starts without the proof of a right key (handleRequestDownload),
\* for any set of seeds.
THEOREM DownloadsProved == SimSpec => DownloadProved
<1> DEFINE A == ~active /\ active' => proved /\ session = "programming"
<1>1. SeedInv /\ [SimNext]_simVars => [A]_simVars
  <2> SUFFICES ASSUME SeedInv, [SimNext]_simVars, ~active, active'
               PROVE  proved /\ session = "programming"
    OBVIOUS
  <2>1. ASSUME RequestDownload PROVE proved /\ session = "programming"
    BY <2>1, Zenon DEF RequestDownload, SeedInv
  <2>2. ASSUME HandleRequest, ~RequestDownload PROVE active' = active \/ active' = FALSE
    BY <2>2 DEF HandleRequest, DiagnosticSession, RequestSeed, SendKey, TransferData,
                RequestTransferExit
  <2>3. UNCHANGED udsVars => active' = active
    BY DEF udsVars
  <2> QED
    BY <2>1, <2>2, <2>3 DEF SimNext, simVars
<1>2. DownloadProved <=> [][A]_simVars
  BY DEF DownloadProved
<1> QED
  BY <1>1, <1>2, SeedAlways, PTL DEF SimSpec

-----------------------------------------------------------------------------
(* Transfers.                                                              *)

TransferInv ==
  /\ session \in {"default", "programming", "extended"}
  /\ seed \in Seed \cup {0}
  /\ active \in BOOLEAN /\ counter \in 0..CounterMax
  /\ received \in Seq(1..MaxTransfers)
  /\ BlocksInSequence

\* A new transfer expects block 1.
LEMMA FirstBlock ==
  /\ CounterOf(1) = 1 /\ 1 \in 0..CounterMax
  /\ <<>> \in Seq(1..MaxTransfers) /\ Len(<<>>) = 0 /\ DOMAIN <<>> = {}
<1>1. 0 % CounterMax = 0
  BY UdsAssumption, SmallRemainder
<1>2. CounterOf(1) = 1
  BY <1>1 DEF CounterOf
<1> QED
  BY <1>2, UdsAssumption, EmptySeq

\* A repeated block is refused, and the next one takes its place in the sequence.
LEMMA TransferStep ==
  ASSUME TransferInv, NEW n \in Sent, TransferData(n)
  PROVE  TransferInv'
<1> DEFINE L == Len(received)
<1>1. active = TRUE /\ active' = active /\ session' = session /\ seed' = seed
  BY Zenon DEF TransferData, TransferInv
<1>2. /\ received \in Seq(1..MaxTransfers) /\ L \in Nat /\ DOMAIN received = 1..L
      /\ \A i \in 1..L : received[i] = i
      /\ counter = CounterOf(L + 1)
  BY <1>1, LenProperties DEF TransferInv, BlocksInSequence
<1>3. n \in 1..MaxTransfers /\ n \in {L, L + 1} /\ counter = CounterOf(n)
  BY DEF Sent, TransferData
<1>4. n = L + 1
  <2>1. ASSUME n = L PROVE FALSE
    BY <1>2, <1>3, <2>1, CounterFollows
  <2> QED
    BY <1>3, <2>1
<1>5. /\ received' = Append(received, L + 1)
      /\ counter' = NextCounter(CounterOf(L + 1))
  BY <1>3, <1>4 DEF TransferData
<1>6. /\ counter' = CounterOf((L + 1) + 1) /\ counter' \in 0..CounterMax
  <2>1. L + 1 \in Nat \ {0} /\ (L + 1) + 1 \in Nat \ {0}
    BY <1>2
  <2>2. counter' = CounterOf((L + 1) + 1) /\ CounterOf((L + 1) + 1) \in 1..CounterMax
    BY <1>5, <2>1, CounterFollows
  <2> QED
    BY <2>2, UdsAssumption
<1>7. /\ received' \in Seq(1..MaxTransfers) /\ Len(received') = L + 1
      /\ DOMAIN received' = 1..L + 1
      /\ \A i \in 1..L : received'[i] = received[i]
      /\ received'[L + 1] = L + 1
  BY <1>2, <1>3, <1>4, <1>5, AppendProperties, LenProperties
<1>8. \A i \in 1..L + 1 : received'[i] = i
  BY <1>2, <1>7
<1>9. BlocksInSequence'
  BY <1>6, <1>7, <1>8 DEF BlocksInSequence
<1> QED
  BY <1>1, <1>6, <1>7, <1>9 DEF TransferInv

LEMMA TransferInductive == TransferInv /\ [SimNext]_simVars => TransferInv'
<1> SUFFICES ASSUME TransferInv, [SimNext]_simVars PROVE TransferInv'
  OBVIOUS
<1>0. ASSUME UNCHANGED <<active, counter, received>>,
             session' \in {"default", "programming", "extended"},
             seed' \in Seed \cup {0}
      PROVE  TransferInv'
  BY <1>0 DEF TransferInv, BlocksInSequence, CounterOf
<1>1. ASSUME NEW d, DiagnosticSession(d) PROVE TransferInv'
  BY <1>0, <1>1 DEF DiagnosticSession, TransferInv
<1>2. ASSUME NEW d, RequestSeed(d) PROVE TransferInv'
  BY <1>0, <1>2 DEF RequestSeed, TransferInv
<1>3. ASSUME NEW d, NEW k, SendKey(d, k) PROVE TransferInv'
  BY <1>0, <1>3 DEF SendKey, TransferInv
<1>4. ASSUME RequestDownload PROVE TransferInv'
  <2>1. /\ active' = TRUE /\ counter' = 1 /\ received' = <<>>
        /\ session' = session /\ seed' = seed
    BY <1>4, Zenon DEF RequestDownload
  <2>2. BlocksInSequence'
    BY <2>1, FirstBlock DEF BlocksInSequence, CounterOf
  <2>3. active' \in BOOLEAN
    BY <2>1, Zenon
  <2> QED
    BY <2>1, <2>2, <2>3, FirstBlock DEF TransferInv
<1>5. ASSUME RequestTransferExit PROVE TransferInv'
  <2>1. active' = FALSE /\ UNCHANGED <<session, seed, counter, received>>
    BY <1>5, Zenon DEF RequestTransferExit
  <2>2. BlocksInSequence'
    BY <2>1, Zenon DEF BlocksInSequence
  <2>3. active' \in BOOLEAN
    BY <2>1, Zenon
  <2> QED
    BY <2>1, <2>2, <2>3 DEF TransferInv
<1>6. CASE HandleRequest
  BY <1>1, <1>2, <1>3, <1>4, <1>5, <1>6, TransferStep DEF HandleRequest
<1>7. CASE UNCHANGED udsVars
  BY <1>0, <1>7 DEF udsVars, TransferInv
<1> QED
  BY <1>6, <1>7 DEF SimNext, simVars

LEMMA TransferAlways == SimSpec => []TransferInv
<1>1. SimInit => TransferInv
  <2> SUFFICES ASSUME SimInit PROVE TransferInv
    OBVIOUS
  <2>1. active = FALSE /\ session = "default" /\ seed = 0 /\ counter = 0 /\ received = <<>>
    BY Zenon DEF SimInit, UdsInit
  <2>2. BlocksInSequence /\ active \in BOOLEAN
    BY <2>1, Zenon DEF BlocksInSequence
  <2>3. counter \in 0..CounterMax
    BY <2>1, UdsAssumption
  <2> QED
    BY <2>1, <2>2, <2>3, EmptySeq DEF TransferInv
<1> QED
  BY <1>1, TransferInductive, PTL DEF SimSpec

\* The blocks of a transfer arrive without a gap and none twice
\* (handleTransferData), for any width of the counter and any length of the
\* transfer.
THEOREM InSequence == SimSpec => []BlocksInSequence
<1>1. TransferInv => BlocksInSequence
  BY DEF TransferInv
<1> QED
  BY <1>1, TransferAlways, PTL

\* A seed admits one key and the device is unlocked exactly while the last key
\* was right (handleSecurityAccess), for any set of seeds.
THEOREM OneKeyPerSeed == SimSpec => []SeedUsedOnce
<1>1. SeedInv /\ TransferInv => SeedUsedOnce
  <2> SUFFICES ASSUME SeedInv, TransferInv PROVE SeedUsedOnce
    OBVIOUS
  <2>1. tries \in 0..2 /\ tries <= 1
    BY DEF SeedInv
  <2> QED
    BY <2>1, Zenon DEF SeedInv, TransferInv, SeedUsedOnce, UdsTypeOK
<1> QED
  BY <1>1, SeedAlways, TransferAlways, PTL

-----------------------------------------------------------------------------
(* The banks.                                                              *)

LEMMA BankStep == ActiveBankMarkedValid /\ [SimNext]_simVars => ActiveBankMarkedValid'
<1> SUFFICES ASSUME ActiveBankMarkedValid, [SimNext]_simVars
             PROVE  ActiveBankMarkedValid'
  OBVIOUS
<1> USE OtaAssumption
<1> USE DEF ActiveBankMarkedValid, TypeOK, State, Bank, Block
<1>1. CASE startDownload
  BY <1>1 DEF startDownload, getTargetBank, Other
<1>2. ASSUME NEW k \in 0..Blocks, writeBlock(k) PROVE ActiveBankMarkedValid'
  BY <1>2 DEF writeBlock, getTargetBank, Other
<1>3. CASE verify
  BY <1>3 DEF verify
<1>4. CASE install
  BY <1>4 DEF install, getTargetBank, Other
<1>5. CASE rollback
  BY <1>5 DEF rollback, Other
<1>6. CASE reboot
  BY <1>6 DEF reboot
<1>7. CASE UNCHANGED vars
  BY <1>7 DEF vars, manager
<1> QED
  BY <1>1, <1>2, <1>3, <1>4, <1>5, <1>6, <1>7 DEF SimNext, Next, simVars

LEMMA BanksAlways == SimSpec => []ActiveBankMarkedValid
<1>1. SimInit => ActiveBankMarkedValid
  <2> SUFFICES ASSUME SimInit PROVE ActiveBankMarkedValid
    OBVIOUS
  <2>1. /\ g_active_bank = "A" /\ current_bank = "A" /\ "A" \in Bank
        /\ state \in State
    BY DEF SimInit, Init, Bank, State
  <2>2. g_valid \in [Bank -> BOOLEAN] /\ g_valid["A"]
    BY <2>1 DEF SimInit, Init
  <2>3. image \in [Bank -> SUBSET Block]
    BY DEF SimInit, Init
  <2>4. target_size \in {0, Blocks} /\ bytes_written \in 0..MaxWrites
    BY OtaAssumption DEF SimInit, Init
  <2> QED
    BY <2>1, <2>2, <2>3, <2>4, Zenon DEF ActiveBankMarkedValid, TypeOK
<1> QED
  BY <1>1, BankStep, PTL DEF SimSpec

\* The bank the next boot uses is one the Bootloader holds valid, in whatever
\* state rollback() or a reboot comes, for any size of the firmware.
THEOREM ActiveBankValid == SimSpec => []ActiveBankMarkedValid
  BY BanksAlways

\* The firmware that is running is never erased or overwritten, for any size
\* of it (startDownload, writeBlock).
THEOREM RunningKept == SimSpec => RunningBankUntouched
<1> DEFINE A == image'[current_bank] = image[current_bank]
<1>1. ActiveBankMarkedValid /\ [SimNext]_simVars => [A]_vars
  <2> SUFFICES ASSUME ActiveBankMarkedValid, [SimNext]_simVars PROVE [A]_vars
    OBVIOUS
  <2>1. current_bank \in Bank /\ image \in [Bank -> SUBSET Block]
    BY DEF ActiveBankMarkedValid, TypeOK
  <2>2. Other(current_bank) # current_bank
    BY <2>1 DEF Other, Bank
  <2>3. CASE Next
    BY <2>1, <2>2, <2>3 DEF Next, startDownload, writeBlock, verify, install, rollback,
                            reboot, getTargetBank
  <2> QED
    BY <2>3 DEF SimNext, simVars
<1>2. RunningBankUntouched <=> [][A]_vars
  BY DEF RunningBankUntouched
<1> QED
  BY <1>1, <1>2, BanksAlways, PTL DEF SimSpec

-----------------------------------------------------------------------------
(* Start, threads and end of the programs of ProcessShutdown.              *)

\* What the stages that have passed have acquired, and the connections the
\* mbedTLS server has handed to a thread.
Acquired == {SetUp[i] : i \in 1..(stage - 1)} \ Check
Handled == {Workers[i] : i \in 1..started}

\* Between SetRunning and the end.
Serving == {"spawn", "store", "loop"}

\* What a failure leaves: what the program's release finds, but for two cases.
LeftByFailure ==
  \/ held \subseteq Release
  \/ program = "simulator" /\ held \ Release = {"context"} /\ SetUp[stage] = "certificates"
  \/ program = "mbed_server" /\ ~IsUp

\* Where main can be.
MainInv ==
  /\ program \in Program
  /\ main \in {"start", "failed", "up", "active", "accepted", "returned"} \cup Serving
  /\ stage \in 1..(Len(SetUp) + 1)
  /\ main = "start" => ~IsUp
  /\ main \in {"up", "active", "accepted"} \cup Serving => IsUp
  /\ main \in Serving => Stopped
  /\ main = "active" => program \in {"pqc_doip", "mbed_doip"}
  /\ main = "accepted" => program \in {"mbed_server", "pqc_server"}

\* What is held there, once the programs that signals stop have started too, as
\* long as no handler has released it.
HeldInv ==
  /\ main = "start" => held = Acquired
  /\ main = "failed" => LeftByFailure
  /\ program # "mbed_server" /\ main \in {"up", "active"} => held = Needed
  /\ program = "pqc_server" /\ main = "accepted" => held = Needed \cup {"connection"}
  /\ program = "mbed_server" /\ main = "up" => held = Needed \cup Handled
  /\ program = "mbed_server" /\ main = "accepted" =>
       held = Needed \cup Handled \cup {Workers[started + 1]}
  /\ main \in Serving /\ closers = {} => Needed \subseteq held
  /\ Stopped => held \subseteq Needed \cup {"vmg_client"}
  /\ held \subseteq Needed \cup Connection \cup {"connection", "vmg_client"}
  /\ main = "returned" =>
       \/ held = Handled
       \/ program = "simulator" /\ held = {"context"} /\ SetUp[stage] = "certificates"
       \/ program = "mbed_server" /\ ~IsUp

\* The workers are started and their handles stored one after the other.
WorkerInv ==
  /\ worker \in [Name -> {"none", "idle", "busy", "done"}]
  /\ started \in 0..Len(Workers)
  /\ \A w \in Name : worker[w] # "none" => \E i \in 1..started : w = Workers[i]
  /\ main \notin Serving => stored = started
  /\ main \in {"start", "failed"} => started = 0
  /\ main \notin Serving /\ program # "mbed_server" => started = 0
  /\ main = "accepted" /\ program = "mbed_server" => started < Len(Workers)
  /\ main = "store" => started > 0 /\ stored = started - 1
  /\ main = "spawn" => started < Len(Workers) /\ stored = started
  /\ main = "loop" => started = Len(Workers) /\ stored = started
  /\ closers \subseteq {"main"} =>
       \A i \in 1..stored : worker[Workers[i]] # "done" => Needed \subseteq held

HandlerSet ==
  [blocked : SUBSET Signal, next : 0..3,
   pc : {"none", "check", "clear", "join", "wait", "release", "exit"}]

\* The workers that main's handler has got past have ended.
Past(n) == \A i \in 1..stored : i <= n => worker[Workers[i]] = "done"

\* Handlers come with signals, and get past running_ when the workers are there.
\* A joined worker has ended, and the handler on main passes and releases when
\* those before, or all, have.
HandlerInv ==
  /\ handler \in [Thread -> HandlerSet]
  /\ joiner \in [Name -> Thread \cup {"nobody", "joined"}] /\ closers \subseteq Thread
  /\ \A t \in Thread :
       /\ handler[t].pc = "none" <=> handler[t].blocked = {}
       /\ handler[t].pc # "none" => Stopped /\ handler[t].next <= Len(Workers)
       /\ handler[t].pc = "wait" => handler[t].next < Len(Workers)
       /\ handler[t].pc \in {"clear", "join", "wait", "release"} => main \in Serving
  /\ \A w \in Name : joiner[w] = "joined" => worker[w] = "done"
  /\ handler["main"].pc # "none" => Past(handler["main"].next)
  /\ handler["main"].pc = "release" => Past(Len(Workers))
  /\ "main" \in closers => handler["main"].pc # "none" /\ Past(Len(Workers))

\* No signal has come.
Calm == \A t \in Thread : handler[t].pc = "none"

\* One signal has come, main handles it, and it found main in its loop.
Alone ==
  /\ main = "loop"
  /\ \E s \in Signal : handler["main"].blocked = {s}
  /\ \A w \in Name : handler[w].pc = "none"

\* Without a signal nobody stops anything.  A handler alone finds running_ set,
\* joins every worker, releases and ends the process.
StopInv ==
  /\ running \in BOOLEAN /\ reads \in BOOLEAN /\ ended \in BOOLEAN
  /\ Stopped /\ running => main \in Serving
  /\ Calm => /\ main \in Serving => running
             /\ closers = {} /\ \A w \in Name : joiner[w] = "nobody"
  /\ Alone =>
       /\ handler["main"].pc \in {"check", "clear"} => running
       /\ handler["main"].pc = "exit" => "main" \in closers
       /\ "main" \in closers => held \subseteq {"vmg_client"}
       /\ \A w \in Name :
            \/ joiner[w] \in {"nobody", "joined"}
            \/ handler["main"].pc = "wait" /\ w = Workers[handler["main"].next + 1]
       /\ ended => handler["main"].pc = "exit"

ProcessInv == MainInv /\ HeldInv /\ WorkerInv /\ HandlerInv /\ StopInv
-----------------------------------------------------------------------------
(* The programs, one by one.                                               *)

\* The stages of each, none of them named like a connection.
LEMMA SetUpShape ==
  ASSUME program \in Program
  PROVE  /\ Len(SetUp) \in 1..8
         /\ DOMAIN SetUp = 1..Len(SetUp)
         /\ \A i \in 1..Len(SetUp) : SetUp[i] \notin Connection \cup {"connection", "vmg_client"}
<1>1. CASE program = "gateway"
  BY <1>1 DEF SetUp, Connection, GatewaySetUp
<1>2. CASE program = "simulator"
  BY <1>2 DEF SetUp, Connection, TlsClientSetUp
<1>3. CASE program = "pqc_doip"
  BY <1>3 DEF SetUp, Connection, PqcDoipSetUp
<1>4. CASE program = "https"
  BY <1>4 DEF SetUp, Connection, PqcClientSetUp
<1>5. CASE program = "mqtt"
  BY <1>5 DEF SetUp, Connection, MqttSetUp
<1>6. CASE program = "zonal_doip"
  BY <1>6 DEF SetUp, Connection, ZonalSetUp
<1>7. CASE program = "mbed_doip"
  BY <1>7 DEF SetUp, Connection, MbedDoipSetUp
<1>8. CASE program = "mbed_server"
  BY <1>8 DEF SetUp, Connection, MbedServerSetUp
<1>9. CASE program = "pqc_server"
  BY <1>9 DEF SetUp, Connection, PqcServerSetUp
<1> QED
  BY <1>1, <1>2, <1>3, <1>4, <1>5, <1>6, <1>7, <1>8, <1>9, ProgramAssumption

\* What a failing stage and the way out of main free together is all that the
\* stages before it had acquired, but for the simulated device's certificates.
LEMMA FailureFrees ==
  ASSUME program \in Program, program # "mbed_server", stage \in 1..Len(SetUp)
  PROVE  LET left == (Acquired \ Frees(SetUp[stage])) \ Release
         IN  \/ left = {}
             \/ program = "simulator" /\ left = {"context"} /\ SetUp[stage] = "certificates"
<1> USE DEF Acquired, Frees, SetUp, Release, IsUp, Check
<1>1. CASE program = "gateway"
  BY <1>1 DEF GatewaySetUp, GatewayFrees
<1>2. CASE program = "simulator"
  BY <1>2 DEF TlsClientSetUp, TlsClientFrees, TlsClientRelease
<1>3. CASE program = "pqc_doip"
  BY <1>3 DEF PqcDoipSetUp, PqcDoipFrees, PqcDoipRelease
<1>4. CASE program = "https"
  BY <1>4 DEF PqcClientSetUp, PqcClientFrees, PqcClientRelease
<1>5. CASE program = "mqtt"
  BY <1>5 DEF MqttSetUp, MqttFrees, PqcClientFrees, PqcClientRelease, MqttRelease
<1>6. CASE program = "zonal_doip"
  BY <1>6 DEF ZonalSetUp, ZonalFrees, ZonalRelease
<1>7. CASE program = "mbed_doip"
  BY <1>7 DEF MbedDoipSetUp, MbedDoipRelease
<1>8. CASE program = "pqc_server"
  BY <1>8 DEF PqcServerSetUp, PqcServerFrees
<1> QED
  BY <1>1, <1>2, <1>3, <1>4, <1>5, <1>6, <1>7, <1>8, ProgramAssumption

\* What is freed after a success is all that the set-up acquired.
LEMMA ReleaseFrees ==
  ASSUME program \in Program, IsUp
  PROVE  /\ program \in {"pqc_doip", "https", "mqtt", "mbed_doip"} =>
              Needed \subseteq Release
         /\ program = "gateway" => Needed \subseteq GatewayRelease
         /\ program = "simulator" => Needed \subseteq TlsClientRelease(IsUp)
         /\ program = "mbed_server" => Needed \subseteq MbedServerRelease
<1> USE DEF Needed, ToSet, SetUp, Release, Check
<1>1. CASE program = "gateway"
  BY <1>1 DEF GatewaySetUp, GatewayRelease
<1>2. CASE program = "simulator"
  BY <1>2 DEF TlsClientSetUp, TlsClientRelease
<1>3. CASE program = "pqc_doip"
  BY <1>3 DEF PqcDoipSetUp, PqcDoipRelease
<1>4. CASE program = "https"
  BY <1>4 DEF PqcClientSetUp, PqcClientRelease
<1>5. CASE program = "mqtt"
  BY <1>5 DEF MqttSetUp, MqttRelease, PqcClientRelease
<1>6. CASE program = "zonal_doip"
  BY <1>6
<1>7. CASE program = "mbed_doip"
  BY <1>7 DEF MbedDoipSetUp, MbedDoipRelease
<1>8. CASE program = "mbed_server"
  BY <1>8 DEF MbedServerSetUp, MbedServerRelease
<1>9. CASE program = "pqc_server"
  BY <1>9
<1> QED
  BY <1>1, <1>2, <1>3, <1>4, <1>5, <1>6, <1>7, <1>8, <1>9, ProgramAssumption

\* The workers of each, no two of them the same.
LEMMA WorkersShape ==
  ASSUME program \in Program
  PROVE  /\ Len(Workers) \in 0..3
         /\ \A i \in 1..Len(Workers) : Workers[i] \in Name
         /\ \A i, j \in 1..Len(Workers) : Workers[i] = Workers[j] => i = j
         /\ program = "mbed_server" =>
              Len(Workers) = 2 /\ \A i \in 1..2 : Workers[i] \in Connection
BY ProgramAssumption DEF Workers, Name, Connection

\* The program, and all that depends on it alone, stays.
LEMMA Fixed ==
  ASSUME program' = program
  PROVE  /\ SetUp' = SetUp /\ Workers' = Workers /\ Needed' = Needed
         /\ Stopped' <=> Stopped
         /\ stage' = stage => (IsUp' <=> IsUp) /\ Release' = Release /\ Acquired' = Acquired
         /\ started' = started => Handled' = Handled
BY DEF SetUp, Workers, Needed, Stopped, IsUp, Release, Acquired, Handled

-----------------------------------------------------------------------------
(* The stages.                                                             *)

LEMMA BeforeLast ==
  ASSUME program \in Program, stage \in 1..(Len(SetUp) + 1), ~IsUp
  PROVE  stage \in 1..Len(SetUp)
<1>1. Len(SetUp) \in Nat
  BY SetUpShape
<1> QED
  BY <1>1 DEF IsUp

\* One more stage adds one more resource.
LEMMA OneMoreOf ==
  ASSUME NEW s, NEW n \in Nat \ {0}
  PROVE  {s[i] : i \in 1..n} = {s[i] : i \in 1..(n - 1)} \cup {s[n]}
<1>1. \A i : i \in 1..n <=> i \in 1..(n - 1) \/ i = n
  OBVIOUS
<1> QED
  BY <1>1, Zenon

\* The stage after the last one is the first beyond it.
LEMMA Following ==
  ASSUME NEW n \in Nat, NEW k \in 1..n
  PROVE  k + 1 > n <=> k = n
OBVIOUS

-----------------------------------------------------------------------------
(* The steps of main.                                                      *)

LEMMA ProcessInitInv == ProcessInit => ProcessInv
<1> SUFFICES ASSUME ProcessInit PROVE ProcessInv
  OBVIOUS
<1>1. program \in Program /\ main = "start" /\ stage = 1 /\ held = {} /\ started = 0 /\ stored = 0
  BY DEF ProcessInit, EndpointInit
<1>2. /\ handler = [t \in Thread |-> NoHandler] /\ closers = {}
      /\ joiner = [w \in Name |-> "nobody"] /\ worker = [w \in Name |-> "none"]
  BY DEF ProcessInit
<1>3. MainInv
  BY <1>1, SetUpShape DEF MainInv, Serving, IsUp
<1>4. HeldInv
  BY <1>1, SetUpShape DEF HeldInv, Serving, Acquired
<1>5. WorkerInv
  BY <1>1, <1>2, WorkersShape DEF WorkerInv, Serving
<1>6. HandlerInv
  <2>1. NoHandler \in HandlerSet /\ NoHandler.pc = "none" /\ NoHandler.blocked = {}
    BY DEF NoHandler, HandlerSet
  <2>2. \A t \in Thread : handler[t] = NoHandler
    BY <1>2
  <2>3. handler \in [Thread -> HandlerSet] /\ joiner \in [Name -> Thread \cup {"nobody", "joined"}]
    BY <1>2, <2>1
  <2>4. \A w \in Name : joiner[w] = "nobody"
    BY <1>2
  <2>5. "main" \in Thread
    BY DEF Thread
  <2> HIDE DEF NoHandler
  <2> QED
    BY <1>2, <2>1, <2>2, <2>3, <2>4, <2>5 DEF HandlerInv
<1>7. StopInv
  <2>1. /\ reads = TRUE /\ ended = FALSE /\ running \in BOOLEAN
        /\ running => ~Stopped
    BY DEF ProcessInit, Stopped
  <2> QED
    BY <1>1, <1>2, <2>1 DEF StopInv, Alone, Serving
<1> QED
  BY <1>3, <1>4, <1>5, <1>6, <1>7 DEF ProcessInv

\* A step that touches no handler, while workers only end and no handle is
\* stored behind the back of the handler on main.
LEMMA HandlersStay ==
  ASSUME HandlerInv, UNCHANGED <<handler, joiner, closers, program>>, program \in Program,
         main \in Serving => main' \in Serving,
         \A w \in Name : worker[w] = "done" => worker'[w] = "done",
         handler["main"].pc = "none" \/ UNCHANGED stored,
         stored \in 0..Len(Workers)
  PROVE  HandlerInv'
<1>1. Workers' = Workers /\ (Stopped' <=> Stopped)
  BY Fixed
<1>2. \A i \in 1..stored : Workers[i] \in Name
  BY WorkersShape
<1>3. \A n : Past(n) /\ UNCHANGED stored => Past(n)'
  BY <1>1, <1>2 DEF Past
<1> QED
  BY <1>1, <1>3 DEF HandlerInv

\* While none runs on main, nobody is alone.
LEMMA MainUncalled ==
  ASSUME HandlerInv, handler["main"].pc = "none"
  PROVE  ~Alone /\ "main" \notin closers /\ handler["main"].blocked = {}
<1>1. "main" \in Thread
  BY DEF Thread
<1>2. handler["main"].blocked = {}
  BY <1>1 DEF HandlerInv
<1> QED
  BY <1>2 DEF Alone, HandlerInv

\* A step on main's own account, or on the server's.
LEMMA MainsStep ==
  ASSUME HandlerInv, StopInv, handler["main"].pc = "none",
         UNCHANGED <<handler, joiner, closers, program, reads>>,
         running' \in BOOLEAN, ended' \in BOOLEAN,
         Stopped /\ running' => main' \in Serving,
         Calm => (main' \in Serving => running')
  PROVE  StopInv'
<1>1. ~Alone'
  <2>1. handler'["main"].blocked = {}
    BY MainUncalled
  <2> QED
    BY <2>1 DEF Alone
<1>2. Calm' <=> Calm
  BY DEF Calm
<1>3. Stopped' <=> Stopped
  BY Fixed
<1> QED
  BY <1>1, <1>2, <1>3 DEF StopInv

\* The set-up and the ways out of main.
LEMMA EndpointStep == ProcessInv /\ Endpoint => ProcessInv'
<1> SUFFICES ASSUME ProcessInv, Endpoint PROVE ProcessInv'
  OBVIOUS
<1>1. /\ MainInv /\ HeldInv /\ WorkerInv /\ HandlerInv /\ StopInv
      /\ handler["main"].pc = "none" /\ ~ended
      /\ UNCHANGED <<handler, joiner, closers, running, stored, started, worker, reads>>
      /\ program' = program
      /\ ended' = (main' = "returned")
  BY DEF ProcessInv, Endpoint, Free, Own, threads, stopVars, StagePasses, StageFails, Activates,
         Returns, PqcServerAccepts, PqcServerEchoes
<1>2. program \in Program
  BY <1>1 DEF MainInv
<1>3. /\ SetUp' = SetUp /\ Workers' = Workers /\ Needed' = Needed /\ (Stopped' <=> Stopped)
      /\ stage' = stage => (IsUp' <=> IsUp) /\ Release' = Release /\ Acquired' = Acquired
      /\ Handled' = Handled
  BY <1>1, Fixed
<1>4. Len(SetUp) \in 1..8 /\ DOMAIN SetUp = 1..Len(SetUp)
  BY <1>2, SetUpShape
<1>6. main' \notin Serving /\ main \notin Serving
  BY <1>1 DEF MainInv, Endpoint, StagePasses, StageFails, Activates, Returns, PqcServerAccepts,
         PqcServerEchoes, Serving, Stopped
<1>0. started = 0 /\ stored = 0
  BY <1>1, <1>6 DEF WorkerInv, MainInv, Endpoint, StagePasses, StageFails, Activates, Returns,
         PqcServerAccepts, PqcServerEchoes
<1>5. HandlerInv'
  <2>1. stored \in 0..Len(Workers)
    BY <1>0, <1>2, WorkersShape
  <2> QED
    BY <1>1, <1>2, <1>6, <2>1, HandlersStay
<1>7. StopInv'
  <2>1. running \in BOOLEAN /\ ended' \in BOOLEAN /\ (Stopped => ~running)
    BY <1>1, <1>6 DEF StopInv
  <2> QED
    BY <1>1, <1>6, <2>1, MainsStep
<1>8. WorkerInv'
  <2>1. ~(main' = "accepted" /\ program' = "mbed_server")
    BY <1>1 DEF Endpoint, StagePasses, StageFails, Activates, Returns, PqcServerAccepts,
           PqcServerEchoes
  <2> QED
    BY <1>0, <1>1, <1>2, <1>3, <1>6, <2>1, WorkersShape DEF WorkerInv, Serving
<1>9. MainInv'
  <2> USE <1>1, <1>2, <1>3, <1>4, <1>6 DEF MainInv
  <2>1. CASE StagePasses
    <3>0. main = "start" /\ stage' = stage + 1 /\ ~IsUp
      BY <2>1 DEF StagePasses
    <3>1. stage \in 1..Len(SetUp)
      BY <3>0, BeforeLast
    <3>2. \/ stage = Len(SetUp) /\ main' = "up" /\ IsUp'
          \/ stage # Len(SetUp) /\ main' = "start" /\ ~IsUp'
      <4>1. IsUp' <=> stage + 1 > Len(SetUp)
        BY <1>3, <3>0 DEF IsUp
      <4>2. Len(SetUp) \in Nat
        BY <1>4
      <4>4. stage + 1 > Len(SetUp) <=> stage = Len(SetUp)
        BY <3>1, <4>2, Following, Zenon
      <4>3. main' = IF stage = Len(SetUp) THEN "up" ELSE "start"
        BY <2>1 DEF StagePasses
      <4> HIDE <1>1, <1>2, <1>3, <1>4, <1>6
      <4> QED
        BY <4>1, <4>3, <4>4, Zenon
    <3>3. stage' \in 1..(Len(SetUp) + 1)
      BY <3>0, <3>1
    <3> QED
      BY <3>2, <3>3 DEF Serving
  <2>2. CASE StageFails
    BY <2>2 DEF StageFails, Serving
  <2>3. CASE Activates
    BY <2>3 DEF Activates, Serving
  <2>4. CASE Returns
    BY <2>4 DEF Returns, Serving
  <2>5. CASE PqcServerAccepts
    BY <2>5 DEF PqcServerAccepts, Serving
  <2>6. CASE PqcServerEchoes
    BY <2>6 DEF PqcServerEchoes, Serving
  <2> QED
    BY <2>1, <2>2, <2>3, <2>4, <2>5, <2>6 DEF Endpoint
<1>10. HeldInv'
  <2> USE <1>1, <1>2, <1>3, <1>4, <1>6
  <2>1. CASE StagePasses
    <3>1. held = Acquired /\ stage \in 1..Len(SetUp) /\ stage' = stage + 1
      <4>1. main = "start" /\ stage' = stage + 1
        BY <2>1 DEF StagePasses
      <4>2. stage \in 1..Len(SetUp)
        BY <4>1, BeforeLast DEF MainInv
      <4> QED
        BY <4>1, <4>2 DEF HeldInv
    <3>2. held' = {SetUp[i] : i \in 1..stage} \ Check
      <4>1. held' = Acquired \cup ({SetUp[stage]} \ Check)
        BY <2>1, <3>1 DEF StagePasses
      <4>2. {SetUp[i] : i \in 1..stage} = {SetUp[i] : i \in 1..(stage - 1)} \cup {SetUp[stage]}
        BY <1>4, <3>1, OneMoreOf
      <4> QED
        BY <4>1, <4>2 DEF Acquired
    <3>3. Acquired' = held'
      BY <3>1, <3>2 DEF Acquired
    <3>4. stage = Len(SetUp) => held' = Needed
      BY <3>2 DEF Needed, ToSet
    <3>5. held' \subseteq Needed
      BY <3>1, <3>2 DEF Needed, ToSet
    <3>6. Handled' = {}
      BY <1>0 DEF Handled
    <3> QED
      BY <2>1, <3>3, <3>4, <3>5, <3>6 DEF StagePasses, HeldInv
  <2>2. CASE StageFails
    <3>1. held = Acquired /\ stage \in 1..Len(SetUp)
      BY <2>2, BeforeLast DEF StageFails, HeldInv, MainInv
    <3>2. held' = Acquired \ Frees(SetUp[stage]) /\ main' = "failed" /\ stage' = stage
      BY <2>2, <3>1 DEF StageFails
    <3>3. program = "mbed_server" => ~IsUp
      BY <3>1 DEF IsUp
    <3>4. LeftByFailure'
      BY <3>1, <3>2, <3>3, FailureFrees DEF LeftByFailure
    <3> QED
      BY <2>2, <3>2, <3>4 DEF StageFails, HeldInv
  <2>3. CASE Activates
    <3>1. held = Needed /\ IsUp /\ UNCHANGED <<stage, held>> /\ ~Stopped
      BY <2>3 DEF Activates, HeldInv, MainInv, Stopped
    <3>2. held' \subseteq Release'
      BY <2>3, <3>1, ReleaseFrees DEF Activates
    <3> QED
      BY <2>3, <3>1, <3>2 DEF Activates, HeldInv, LeftByFailure
  <2>4. CASE Returns
    <3>1. UNCHANGED stage /\ held' = held \ Release /\ main' = "returned"
      BY <2>4 DEF Returns
    <3>2. \/ held \subseteq Release
          \/ program = "simulator" /\ held \ Release = {"context"} /\ SetUp[stage] = "certificates"
          \/ program = "mbed_server" /\ ~IsUp
      BY <2>4, ReleaseFrees DEF Returns, HeldInv, MainInv, LeftByFailure
    <3>3. Handled = {}
      BY <1>0 DEF Handled
    <3>4. Stopped => held' \subseteq Needed \cup {"vmg_client"}
      BY <3>1 DEF HeldInv
    <3> QED
      BY <3>1, <3>2, <3>3, <3>4 DEF HeldInv
  <2>5. CASE PqcServerAccepts
    BY <2>5 DEF PqcServerAccepts, HeldInv, Stopped
  <2>6. CASE PqcServerEchoes
    BY <2>6, SetUpShape DEF PqcServerEchoes, HeldInv, Stopped, Needed, ToSet
  <2> QED
    BY <2>1, <2>2, <2>3, <2>4, <2>5, <2>6 DEF Endpoint
<1> QED
  BY <1>5, <1>7, <1>8, <1>9, <1>10 DEF ProcessInv

\* Starting the threads: nothing is released, no handler is on main.
LEMMA ServingStep == ProcessInv /\ (SetRunning \/ Spawn \/ Store) => ProcessInv'
<1> SUFFICES ASSUME ProcessInv, SetRunning \/ Spawn \/ Store PROVE ProcessInv'
  OBVIOUS
<1>1. /\ MainInv /\ HeldInv /\ WorkerInv /\ HandlerInv /\ StopInv
      /\ handler["main"].pc = "none" /\ Stopped /\ ~ended
      /\ UNCHANGED <<program, stage, held, handler, joiner, closers, reads, ended>>
      /\ main \in {"up", "spawn", "store"} /\ main' \in Serving
  BY DEF ProcessInv, SetRunning, Spawn, Store, InMain, Free, Own, threads, stopVars, Serving
<1>2. program \in Program /\ Len(Workers) \in 0..3
  BY <1>1, WorkersShape DEF MainInv
<1>3. /\ SetUp' = SetUp /\ Workers' = Workers /\ Needed' = Needed /\ (Stopped' <=> Stopped)
      /\ IsUp' <=> IsUp
  BY <1>1, Fixed
<1>4. IsUp /\ (closers = {} => Needed \subseteq held)
  BY <1>1 DEF HeldInv, MainInv, Serving, Stopped
<1>5. MainInv'
  BY <1>1, <1>3, <1>4 DEF MainInv, Serving
<1>6. HeldInv'
  BY <1>1, <1>3, <1>4 DEF HeldInv, Serving
<1>7. closers \subseteq {"main"} => Needed \subseteq held
  BY <1>1, <1>4, MainUncalled
<1>8. WorkerInv' /\ \A w \in Name : worker[w] = "done" => worker'[w] = "done"
  <2> USE <1>1, <1>2, <1>3, <1>7 DEF WorkerInv, Serving
  <2>1. CASE SetRunning
    <3>1. started = 0 /\ stored = 0 /\ 0 < Len(Workers)
      BY <2>1 DEF SetRunning, InMain, Stopped, Workers
    <3> QED
      BY <2>1, <3>1 DEF SetRunning, threads
  <2>2. CASE Spawn
    <3> DEFINE w == Workers[started + 1]
    <3>1. /\ main = "spawn" /\ main' = "store" /\ stored' = stored
          /\ started' = started + 1 /\ started < Len(Workers) /\ stored = started
          /\ \E s \in {"busy", "idle"} : worker' = [worker EXCEPT ![w] = s]
      BY <2>2 DEF Spawn, InMain
    <3>2. w \in Name /\ worker[w] = "none"
      <4>1. w \in Name /\ \A i \in 1..started : w # Workers[i]
        BY <3>1, WorkersShape
      <4> QED
        BY <4>1
    <3>3. \A v \in Name : worker'[v] # "none" => \E i \in 1..started' : v = Workers[i]
      BY <3>1, <3>2
    <3>4. worker' \in [Name -> {"none", "idle", "busy", "done"}]
      BY <3>1, <3>2
    <3> QED
      BY <3>1, <3>2, <3>3, <3>4
  <2>3. CASE Store
    BY <2>3 DEF Store, InMain, threads
  <2> QED
    BY <2>1, <2>2, <2>3
<1>9. HandlerInv'
  <2>1. stored \in 0..Len(Workers)
    BY <1>1, <1>2 DEF WorkerInv, Serving
  <2> QED
    BY <1>1, <1>2, <1>8, <2>1, HandlersStay
<1>10. StopInv'
  <2>1. \/ running' = TRUE
        \/ running' = running /\ main \in Serving
    BY <1>1 DEF SetRunning, Spawn, Store, InMain, Serving
  <2>2. running' \in BOOLEAN /\ ended' \in BOOLEAN /\ (Calm => running')
    BY <1>1, <2>1 DEF StopInv
  <2> QED
    BY <1>1, <2>2, MainsStep
<1> QED
  BY <1>5, <1>6, <1>8, <1>9, <1>10 DEF ProcessInv

\* Main's own way out of its loop.
LEMMA LeavesStep == ProcessInv /\ MainLeaves => ProcessInv'
<1> SUFFICES ASSUME ProcessInv, MainLeaves PROVE ProcessInv'
  OBVIOUS
<1>1. /\ MainInv /\ HeldInv /\ WorkerInv /\ HandlerInv /\ StopInv
      /\ handler["main"].pc = "none" /\ ~running /\ ended' = TRUE
      /\ UNCHANGED <<program, main, stage, held, handler, joiner, closers, running,
                     stored, started, worker, reads>>
  BY DEF ProcessInv, MainLeaves, InMain, Free, Own, threads, stopVars, endpointVars
<1>2. /\ SetUp' = SetUp /\ Workers' = Workers /\ Needed' = Needed /\ (Stopped' <=> Stopped)
      /\ (IsUp' <=> IsUp) /\ Release' = Release /\ Acquired' = Acquired /\ Handled' = Handled
  BY <1>1, Fixed
<1>3. MainInv' /\ HeldInv' /\ WorkerInv'
  BY <1>1, <1>2 DEF MainInv, HeldInv, LeftByFailure, WorkerInv
<1>4. program \in Program /\ stored \in 0..Len(Workers)
  BY <1>1, WorkersShape DEF WorkerInv, MainInv, Serving
<1>5. HandlerInv'
  BY <1>1, <1>4, HandlersStay
<1>6. StopInv'
  <2>1. running' \in BOOLEAN /\ ended' \in BOOLEAN /\ ~running' /\ (Calm => main' \notin Serving)
    BY <1>1 DEF StopInv
  <2> QED
    BY <1>1, <2>1, MainsStep
<1> QED
  BY <1>3, <1>5, <1>6 DEF ProcessInv

\* The server accepts its clients one after the other and returns when each
\* thread has ended.
LEMMA ServerStep == ProcessInv /\ Server => ProcessInv'
<1> SUFFICES ASSUME ProcessInv, Server PROVE ProcessInv'
  OBVIOUS
<1>1. /\ MainInv /\ HeldInv /\ WorkerInv /\ HandlerInv /\ StopInv
      /\ handler["main"].pc = "none" /\ program = "mbed_server" /\ ~Stopped /\ ~ended
      /\ UNCHANGED <<program, stage, handler, joiner, closers, running, reads>>
      /\ main \in {"up", "accepted"} /\ main' \in {"up", "accepted", "returned"}
      /\ ended' \in BOOLEAN
  <2>1. MainInv /\ HeldInv /\ WorkerInv /\ HandlerInv /\ StopInv
    BY DEF ProcessInv
  <2>2. /\ handler["main"].pc = "none" /\ program = "mbed_server" /\ ~ended
        /\ main \in {"up", "accepted"}
    BY DEF Server, ServerAccepts, HandshakeFails, HandshakePasses, ServerReturns, InServer, Free,
           Own
  <2>3. UNCHANGED <<program, stage, handler, joiner, closers, running, reads>>
    BY DEF Server, ServerAccepts, HandshakeFails, HandshakePasses, ServerReturns, stopVars
  <2>4. \/ main' \in {"up", "accepted"} /\ ended' = ended
        \/ main' = "returned" /\ ended' = TRUE
    BY DEF Server, ServerAccepts, HandshakeFails, HandshakePasses, ServerReturns
  <2>5. ended \in BOOLEAN
    BY <2>1 DEF StopInv
  <2>6. ~Stopped
    BY <2>2 DEF Stopped
  <2>7. main' \in {"up", "accepted", "returned"}
    BY <2>4
  <2>8. ended' \in BOOLEAN
    BY <2>4, <2>5
  <2> QED
    BY <2>1, <2>2, <2>3, <2>6, <2>7, <2>8
<1>2. program \in Program /\ Len(Workers) = 2 /\ \A i \in 1..2 : Workers[i] \in Connection
  BY <1>1, WorkersShape DEF MainInv
<1>3. /\ SetUp' = SetUp /\ Workers' = Workers /\ Needed' = Needed /\ (Stopped' <=> Stopped)
      /\ IsUp' <=> IsUp
      /\ started' = started => Handled' = Handled
  BY <1>1, Fixed
<1>4. Connection \cap Needed = {}
  BY <1>2, SetUpShape DEF Needed, ToSet
<1>5. started \in 0..2 /\ stored = started /\ IsUp
  BY <1>1, <1>2 DEF WorkerInv, MainInv, Serving
<1>6. MainInv'
  BY <1>1, <1>3, <1>5 DEF MainInv, Serving
<1>7. HeldInv'
  <2>1. CASE ServerAccepts
    <3>1. Workers[started + 1] \in Connection
      BY <1>2, <1>5, <2>1 DEF ServerAccepts
    <3> QED
      BY <1>1, <1>3, <2>1, <3>1 DEF HeldInv, ServerAccepts, InServer, threads, Serving
  <2>2. CASE HandshakeFails
    <3>1. Workers[started + 1] \in Connection /\ Workers[started + 1] \notin Handled
      BY <1>1, <1>2, <1>5, <2>2, WorkersShape DEF HandshakeFails, InServer, WorkerInv, Handled
    <3>2. held' = Needed \cup Handled
      BY <1>1, <1>4, <2>2, <3>1 DEF HeldInv, HandshakeFails, InServer
    <3> QED
      BY <1>1, <1>3, <2>2, <3>2 DEF HeldInv, HandshakeFails, threads, Serving
  <2>3. CASE HandshakePasses
    <3>1. Handled' = Handled \cup {Workers[started + 1]}
      <4>1. Handled' = {Workers[i] : i \in 1..(started + 1)}
        BY <1>3, <2>3 DEF Handled, HandshakePasses
      <4> QED
        BY <1>5, <4>1, OneMoreOf DEF Handled
    <3>2. held' = Needed \cup Handled'
      BY <1>1, <2>3, <3>1 DEF HeldInv, HandshakePasses, InServer
    <3> QED
      BY <1>1, <1>3, <2>3, <3>2 DEF HeldInv, HandshakePasses, Serving
  <2>4. CASE ServerReturns
    <3>1. Needed \subseteq MbedServerRelease /\ Handled \cap MbedServerRelease = {}
      <4>1. Handled \subseteq Connection
        BY <1>2, <1>5 DEF Handled
      <4> QED
        BY <1>1, <1>2, <1>5, <4>1, ReleaseFrees DEF MbedServerRelease, Connection
    <3>2. held' = Handled
      BY <1>1, <2>4, <3>1 DEF HeldInv, ServerReturns, InServer
    <3> QED
      BY <1>1, <1>3, <2>4, <3>2 DEF HeldInv, ServerReturns, threads, Serving
  <2> QED
    BY <2>1, <2>2, <2>3, <2>4 DEF Server
<1>8. WorkerInv' /\ \A w \in Name : worker[w] = "done" => worker'[w] = "done"
  <2> USE <1>1, <1>2, <1>3, <1>5 DEF WorkerInv, Serving
  <2>1. CASE ServerAccepts
    BY <2>1 DEF ServerAccepts, InServer, threads
  <2>2. CASE HandshakeFails
    <3>1. \A r \in Needed : r \in held => r \in held'
      BY <1>4, <2>2 DEF HandshakeFails, InServer
    <3> QED
      BY <2>2, <3>1 DEF HandshakeFails, InServer, threads
  <2>3. CASE HandshakePasses
    <3> DEFINE w == Workers[started + 1]
    <3>1. /\ main' = "up" /\ started' = started + 1 /\ stored' = started + 1 /\ started < 2
          /\ worker' = [worker EXCEPT ![w] = "busy"]
          /\ held' = held /\ Needed \subseteq held
      BY <2>3 DEF HandshakePasses, InServer, HeldInv
    <3>2. w \in Name /\ worker[w] = "none"
      <4>1. w \in Name /\ \A i \in 1..started : w # Workers[i]
        BY <3>1, WorkersShape
      <4> QED
        BY <4>1
    <3>3. \A v \in Name : worker'[v] # "none" => \E i \in 1..started' : v = Workers[i]
      BY <3>1, <3>2
    <3>4. worker' \in [Name -> {"none", "idle", "busy", "done"}]
      BY <3>1, <3>2
    <3>5. \A v \in Name : worker[v] = "done" => worker'[v] = "done"
      BY <3>1, <3>2
    <3>6. started' \in 0..2 /\ main' # "accepted"
      BY <3>1
    <3> HIDE DEF w
    <3> QED
      BY <3>1, <3>3, <3>4, <3>5, <3>6
  <2>4. CASE ServerReturns
    BY <2>4 DEF ServerReturns, InServer, threads
  <2> QED
    BY <2>1, <2>2, <2>3, <2>4 DEF Server
<1>9. HandlerInv'
  <2>1. stored \in 0..Len(Workers) /\ main \notin Serving
    BY <1>1, <1>2, <1>5 DEF Serving
  <2> QED
    BY <1>1, <1>2, <1>8, <2>1, HandlersStay
<1>10. StopInv'
  <2>1. running' \in BOOLEAN /\ main' \notin Serving
    BY <1>1 DEF StopInv, Serving
  <2> QED
    BY <1>1, <2>1, MainsStep
<1> QED
  BY <1>6, <1>7, <1>8, <1>9, <1>10 DEF ProcessInv

\* The workers' own steps: none is started by them, one that has ended stays
\* so, and the gateway's client may add its socket to what is held.
LEMMA WorkersStep ==
  ASSUME ProcessInv,
         BeginRound \/ ConnectEnds \/ WriteEnds \/ \E w \in Name : SessionEnds(w) \/ Leave(w)
  PROVE  ProcessInv'
<1>1. /\ MainInv /\ HeldInv /\ WorkerInv /\ HandlerInv /\ StopInv
      /\ UNCHANGED <<program, main, stage, handler, joiner, closers, running, stored, started,
                     reads, ended>>
  BY DEF ProcessInv, BeginRound, ConnectEnds, WriteEnds, SessionEnds, Leave, endpointVars, stopVars
<1>2. /\ SetUp' = SetUp /\ Workers' = Workers /\ Needed' = Needed /\ (Stopped' <=> Stopped)
      /\ (IsUp' <=> IsUp) /\ Release' = Release /\ Acquired' = Acquired /\ Handled' = Handled
  BY <1>1, Fixed
<1>3. \E w \in Name, s \in {"idle", "busy", "done"} :
         worker[w] \in {"idle", "busy"} /\ worker' = [worker EXCEPT ![w] = s]
  BY DEF BeginRound, ConnectEnds, WriteEnds, SessionEnds, Leave, Name
<1>4. /\ worker' \in [Name -> {"none", "idle", "busy", "done"}]
      /\ \A w \in Name : worker'[w] # "none" => worker[w] # "none"
      /\ \A w \in Name : worker[w] = "done" => worker'[w] = "done"
  BY <1>1, <1>3 DEF WorkerInv
<1>5. \A i \in 1..started : Workers[i] \in Name
  BY <1>1, WorkersShape DEF WorkerInv, MainInv
<1>6. started \in Nat /\ stored \in 0..started /\ stored \in 0..Len(Workers)
  BY <1>1, WorkersShape DEF WorkerInv, MainInv, Serving
<1>7. \/ held' = held
      \/ main \in Serving /\ Stopped /\ held' = held \cup {"vmg_client"}
  <2>1. CASE held' = held \cup {"vmg_client"} /\ worker["client"] = "busy"
    <3>1. PICK i \in 1..started : "client" = Workers[i]
      BY <1>1, <2>1 DEF WorkerInv, Name
    <3>2. program \in Program /\ i \in 1..Len(Workers)
      BY <1>1, <3>1, WorkersShape DEF WorkerInv, MainInv
    <3>3. program = "gateway"
      BY <3>1, <3>2 DEF Workers
    <3>4. main \in Serving
      BY <1>1, <1>6, <3>1, <3>3 DEF WorkerInv
    <3> QED
      BY <2>1, <3>3, <3>4 DEF Stopped
  <2>2. held' = held \/ (held' = held \cup {"vmg_client"} /\ worker["client"] = "busy")
    BY DEF BeginRound, ConnectEnds, WriteEnds, SessionEnds, Leave, endpointVars
  <2> QED
    BY <2>1, <2>2
<1>8. MainInv'
  BY <1>1, <1>2 DEF MainInv
<1>9. HeldInv'
  <2>1. CASE held' = held
    BY <1>1, <1>2, <2>1 DEF HeldInv, LeftByFailure
  <2>2. CASE main \in Serving /\ Stopped /\ held' = held \cup {"vmg_client"}
    BY <1>1, <1>2, <2>2 DEF HeldInv, Serving, Stopped
  <2> QED
    BY <1>7, <2>1, <2>2
<1>10. WorkerInv'
  <2>1. Needed \subseteq held => Needed \subseteq held'
    BY <1>7
  <2> QED
    BY <1>1, <1>2, <1>4, <1>5, <1>6, <2>1 DEF WorkerInv
<1>11. HandlerInv'
  <2>1. program \in Program
    BY <1>1 DEF MainInv
  <2> QED
    BY <1>1, <1>4, <1>6, <2>1, HandlersStay
<1>12. StopInv'
  <2>1. (Calm' <=> Calm) /\ (Alone' <=> Alone)
    BY <1>1 DEF Calm, Alone
  <2>2. held \subseteq {"vmg_client"} => held' \subseteq {"vmg_client"}
    BY <1>7
  <2> QED
    BY <1>1, <1>2, <2>1, <2>2 DEF StopInv
<1> QED
  BY <1>8, <1>9, <1>10, <1>11, <1>12 DEF ProcessInv

\* The peer of the TLS session, and stuttering.
LEMMA PeerStep == ProcessInv /\ (PeerReads \/ UNCHANGED processVars) => ProcessInv'
<1> SUFFICES ASSUME ProcessInv, PeerReads \/ UNCHANGED processVars PROVE ProcessInv'
  OBVIOUS
<1>1. /\ MainInv /\ HeldInv /\ WorkerInv /\ HandlerInv /\ StopInv
      /\ UNCHANGED <<program, main, stage, held, handler, joiner, closers, running, stored,
                     started, worker, ended>>
  BY DEF ProcessInv, PeerReads, processVars, threads, endpointVars, stopVars
<1>2. /\ SetUp' = SetUp /\ Workers' = Workers /\ Needed' = Needed /\ (Stopped' <=> Stopped)
      /\ (IsUp' <=> IsUp) /\ Release' = Release /\ Acquired' = Acquired /\ Handled' = Handled
  BY <1>1, Fixed
<1>3. reads' \in BOOLEAN
  BY <1>1 DEF PeerReads, processVars, StopInv
<1>4. MainInv'
  BY <1>1, <1>2 DEF MainInv
<1>5. HeldInv'
  BY <1>1, <1>2 DEF HeldInv, LeftByFailure
<1>6. WorkerInv'
  BY <1>1, <1>2 DEF WorkerInv
<1>7. HandlerInv'
  BY <1>1, <1>2 DEF HandlerInv, Past
<1>8. StopInv'
  <2>1. (Calm' <=> Calm) /\ (Alone' <=> Alone)
    BY <1>1 DEF Calm, Alone
  <2> QED
    BY <1>1, <1>2, <1>3, <2>1 DEF StopInv
<1> QED
  BY <1>4, <1>5, <1>6, <1>7, <1>8 DEF ProcessInv

\* The mbedTLS server's signal only clears running.
LEMMA ServerSignalStep == ProcessInv /\ ServerSignal => ProcessInv'
<1> SUFFICES ASSUME ProcessInv, ServerSignal PROVE ProcessInv'
  OBVIOUS
<1>1. /\ MainInv /\ HeldInv /\ WorkerInv /\ HandlerInv /\ StopInv
      /\ UNCHANGED <<program, main, stage, held, handler, joiner, closers, stored, started,
                     worker, reads, ended>>
      /\ ~Stopped /\ running' = FALSE
  BY DEF ProcessInv, ServerSignal, threads, endpointVars, stopVars, Stopped
<1>2. /\ SetUp' = SetUp /\ Workers' = Workers /\ Needed' = Needed /\ (Stopped' <=> Stopped)
      /\ (IsUp' <=> IsUp) /\ Release' = Release /\ Acquired' = Acquired /\ Handled' = Handled
  BY <1>1, Fixed
<1>3. MainInv'
  BY <1>1, <1>2 DEF MainInv
<1>4. main \notin Serving
  BY <1>1 DEF MainInv
<1>5. HeldInv'
  BY <1>1, <1>2 DEF HeldInv, LeftByFailure
<1>6. WorkerInv'
  BY <1>1, <1>2 DEF WorkerInv
<1>7. HandlerInv'
  BY <1>1, <1>2 DEF HandlerInv, Past
<1>8. StopInv'
  <2>1. ~Alone' /\ (Calm' <=> Calm)
    BY <1>1, <1>4 DEF Calm, Alone, Serving
  <2> QED
    BY <1>1, <1>2, <1>4, <2>1 DEF StopInv
<1> QED
  BY <1>3, <1>5, <1>6, <1>7, <1>8 DEF ProcessInv

\* Counting up to a number of handles that is three at most.
LEMMA NextHandle ==
  ASSUME NEW m \in 0..3, NEW k \in 0..3, k < m
  PROVE  k + 1 \in 0..3
OBVIOUS

LEMMA AtMostAll ==
  ASSUME NEW m \in 0..3, NEW k \in 0..m
  PROVE  k \in 0..3
OBVIOUS

\* A signal comes: main or a worker begins a handler, on top of an older one
\* perhaps.
LEMMA DeliverStep ==
  ASSUME ProcessInv, NEW t \in Thread, NEW s \in Signal, Deliver(t, s)
  PROVE  ProcessInv'
<1> DEFINE g == [blocked |-> handler[t].blocked \cup {s}, pc |-> "check", next |-> 0]
<1>1. /\ MainInv /\ HeldInv /\ WorkerInv /\ HandlerInv /\ StopInv
      /\ UNCHANGED <<program, main, stage, held, joiner, closers, running, stored, started,
                     worker, reads, ended>>
      /\ Stopped /\ ~ended /\ handler' = [handler EXCEPT ![t] = g]
  BY DEF ProcessInv, Deliver, endpointVars, threads
<1>2. /\ SetUp' = SetUp /\ Workers' = Workers /\ Needed' = Needed /\ (Stopped' <=> Stopped)
      /\ (IsUp' <=> IsUp) /\ Release' = Release /\ Acquired' = Acquired /\ Handled' = Handled
  BY <1>1, Fixed
<1>3. g \in HandlerSet /\ g.blocked # {} /\ g.pc = "check" /\ g.next = 0 /\ Len(Workers) \in 0..3
  <2>1. handler[t].blocked \in SUBSET Signal
    BY <1>1 DEF HandlerInv, HandlerSet
  <2> QED
    BY <1>1, <2>1, WorkersShape DEF HandlerSet, MainInv
<1>4. g.blocked = handler[t].blocked \cup {s}
  OBVIOUS
<1> HIDE DEF g
<1>5. /\ handler' \in [Thread -> HandlerSet] /\ handler'[t] = g
      /\ \A u \in Thread \ {t} : handler'[u] = handler[u]
      /\ "main" \in Thread /\ "main" \notin Name /\ Name \subseteq Thread
  BY <1>1, <1>3 DEF HandlerInv, Thread, Name
<1>6. MainInv'
  BY <1>1, <1>2 DEF MainInv
<1>7. HeldInv'
  BY <1>1, <1>2 DEF HeldInv, LeftByFailure
<1>8. WorkerInv'
  BY <1>1, <1>2 DEF WorkerInv
<1>9. HandlerInv'
  <2>1. \A n : Past(n)' <=> Past(n)
    BY <1>1, <1>2 DEF Past
  <2>2. Past(0)
    BY DEF Past
  <2>3. ASSUME NEW u \in Thread
        PROVE  /\ handler'[u].pc = "none" <=> handler'[u].blocked = {}
               /\ handler'[u].pc # "none" => Stopped /\ handler'[u].next <= Len(Workers)
               /\ handler'[u].pc = "wait" => handler'[u].next < Len(Workers)
               /\ handler'[u].pc \in {"clear", "join", "wait", "release"} => main \in Serving
    <3>1. CASE u = t
      BY <1>1, <1>3, <1>5, <3>1
    <3>2. CASE u # t
      BY <1>1, <1>5, <3>2 DEF HandlerInv
    <3> QED
      BY <3>1, <3>2
  <2>4. /\ handler'["main"].pc # "none" => Past(handler'["main"].next)
        /\ handler'["main"].pc = "release" => Past(Len(Workers))
        /\ "main" \in closers => handler'["main"].pc # "none" /\ Past(Len(Workers))
    <3>1. CASE t = "main"
      BY <1>1, <1>3, <1>5, <2>2, <3>1 DEF HandlerInv
    <3>2. CASE t # "main"
      <4>1. handler'["main"] = handler["main"]
        BY <1>5, <3>2
      <4> QED
        BY <1>1, <4>1 DEF HandlerInv
    <3> QED
      BY <3>1, <3>2
  <2> QED
    BY <1>1, <1>2, <1>5, <2>1, <2>3, <2>4 DEF HandlerInv
<1>10. StopInv'
  <2>1. ~Calm'
    BY <1>3, <1>5 DEF Calm
  <2>2. ASSUME Alone'
        PROVE  Calm /\ main \in Serving /\ handler'["main"].pc = "check"
    <3>1. t = "main"
      <4>1. \A w \in Name : handler'[w].pc = "none"
        BY <2>2 DEF Alone
      <4> QED
        BY <1>3, <1>5, <4>1 DEF Thread
    <3>2. handler["main"].blocked = {}
      <4>1. PICK r \in Signal : handler'["main"].blocked = {r}
        BY <2>2 DEF Alone
      <4>2. handler["main"].blocked \cup {s} = {r} /\ s \notin handler["main"].blocked
        BY <1>4, <1>5, <3>1, <4>1 DEF Deliver
      <4> QED
        BY <4>2
    <3>3. handler["main"].pc = "none"
      BY <1>1, <1>5, <3>2 DEF HandlerInv
    <3>4. \A w \in Name : handler[w].pc = "none"
      <4>1. \A w \in Name : handler'[w].pc = "none"
        BY <2>2 DEF Alone
      <4> QED
        BY <1>5, <3>1, <4>1
    <3>5. Calm
      BY <3>3, <3>4 DEF Calm, Thread
    <3>6. main = "loop"
      BY <1>1, <2>2 DEF Alone
    <3> QED
      BY <1>3, <1>5, <3>1, <3>5, <3>6 DEF Serving
  <2>3. Calm /\ main \in Serving =>
          running /\ "main" \notin closers /\ \A w \in Name : joiner[w] = "nobody"
    BY <1>1 DEF StopInv
  <2> QED
    BY <1>1, <1>2, <2>1, <2>2, <2>3 DEF StopInv
<1> QED
  BY <1>6, <1>7, <1>8, <1>9, <1>10 DEF ProcessInv

\* A handler goes from one place to another: what has to be shown of the place
\* it comes to.
LEMMA HandlerMoves ==
  ASSUME HandlerInv, UNCHANGED <<program, main, stored, worker>>, program \in Program,
         NEW t \in Thread, handler[t].pc # "none",
         NEW g \in HandlerSet, handler' = [handler EXCEPT ![t] = g],
         g.blocked = handler[t].blocked, g.pc # "none", g.next <= Len(Workers),
         g.pc = "wait" => g.next < Len(Workers),
         g.pc \in {"clear", "join", "wait", "release"} => main \in Serving,
         t = "main" => Past(g.next) /\ (g.pc = "release" => Past(Len(Workers))),
         joiner' \in [Name -> Thread \cup {"nobody", "joined"}],
         \A w \in Name : joiner'[w] = "joined" => worker[w] = "done",
         closers' \subseteq Thread,
         "main" \in closers' => "main" \in closers \/ (t = "main" /\ Past(Len(Workers)))
  PROVE  /\ HandlerInv' /\ Stopped /\ ~Calm'
         /\ Alone' <=> Alone
         /\ Alone => t = "main" /\ handler'["main"] = g
<1>1. Workers' = Workers /\ (Stopped' <=> Stopped)
  BY Fixed
<1>2. /\ handler' \in [Thread -> HandlerSet] /\ handler'[t] = g
      /\ \A u \in Thread \ {t} : handler'[u] = handler[u]
      /\ "main" \in Thread /\ Name \subseteq Thread
  BY DEF HandlerInv, Thread
<1>3. Stopped
  BY DEF HandlerInv
<1>4. \A n : Past(n)' <=> Past(n)
  BY <1>1 DEF Past
<1>5. \A u \in Thread : handler'[u].blocked = handler[u].blocked
                        /\ (handler'[u].pc = "none" <=> handler[u].pc = "none")
  BY <1>2
<1>6. ~Calm' /\ (Alone' <=> Alone)
  BY <1>2, <1>5 DEF Calm, Alone
<1>7. Alone => t = "main" /\ handler'["main"] = g
  BY <1>2 DEF Alone, Thread
<1>8. ASSUME NEW u \in Thread
      PROVE  /\ handler'[u].pc = "none" <=> handler'[u].blocked = {}
             /\ handler'[u].pc # "none" => Stopped /\ handler'[u].next <= Len(Workers)
             /\ handler'[u].pc = "wait" => handler'[u].next < Len(Workers)
             /\ handler'[u].pc \in {"clear", "join", "wait", "release"} => main \in Serving
  <2>1. CASE u = t
    BY <1>2, <1>3, <2>1 DEF HandlerInv
  <2>2. CASE u # t
    BY <1>2, <2>2 DEF HandlerInv
  <2> QED
    BY <2>1, <2>2
<1>9. /\ handler'["main"].pc # "none" => Past(handler'["main"].next)
      /\ handler'["main"].pc = "release" => Past(Len(Workers))
      /\ "main" \in closers' => handler'["main"].pc # "none" /\ Past(Len(Workers))
  <2>1. CASE t = "main"
    BY <1>2, <2>1 DEF HandlerInv
  <2>2. CASE t # "main"
    <3>1. handler'["main"] = handler["main"]
      BY <1>2, <2>2
    <3> QED
      BY <2>2, <3>1 DEF HandlerInv
  <2> QED
    BY <2>1, <2>2
<1>10. HandlerInv'
  BY <1>1, <1>2, <1>4, <1>8, <1>9 DEF HandlerInv
<1> QED
  BY <1>3, <1>6, <1>7, <1>10

\* What every step of a handler leaves alone.
LEMMA HandlerFacts ==
  ASSUME ProcessInv, NEW t \in Thread, Handler(t)
  PROVE  /\ MainInv /\ HeldInv /\ WorkerInv /\ HandlerInv /\ StopInv
         /\ UNCHANGED <<program, main, stage, stored, started, worker, reads>>
         /\ ~ended /\ handler[t].pc # "none" /\ handler[t] \in HandlerSet
         /\ handler[t].next <= Len(Workers) /\ Stopped
         /\ handler[t].pc \in {"clear", "join", "wait", "release"} => main \in Serving
         /\ program \in Program /\ Len(Workers) \in 0..3
         /\ \A i \in 1..Len(Workers) : Workers[i] \in Name
         /\ stored \in 0..Len(Workers)
         /\ SetUp' = SetUp /\ Workers' = Workers /\ Needed' = Needed /\ (Stopped' <=> Stopped)
         /\ (IsUp' <=> IsUp) /\ Release' = Release /\ Acquired' = Acquired /\ Handled' = Handled
         /\ MainInv'
<1>1. MainInv /\ HeldInv /\ WorkerInv /\ HandlerInv /\ StopInv
  BY DEF ProcessInv
<1>2. UNCHANGED <<program, main, stage, stored, started, worker, reads>>
  BY DEF Handler, StopCheck, StopClear, StopSkip, StopJoin, JoinThrows, StopJoined, StopAllJoined,
         StopRelease, FreedTwice, Exit, endpointVars, threads
<1>3. ~ended /\ handler[t].pc # "none"
  BY DEF Handler, StopCheck, StopClear, StopSkip, StopJoin, JoinThrows, StopJoined, StopAllJoined,
         StopRelease, FreedTwice, Exit, At
<1>4. /\ handler[t] \in HandlerSet /\ handler[t].next <= Len(Workers) /\ Stopped
      /\ handler[t].pc \in {"clear", "join", "wait", "release"} => main \in Serving
  BY <1>1, <1>3 DEF HandlerInv
<1>5. program \in Program /\ Len(Workers) \in 0..3 /\ \A i \in 1..Len(Workers) : Workers[i] \in Name
  BY <1>1, WorkersShape DEF MainInv
<1>6. stored \in 0..Len(Workers)
  BY <1>1, <1>5 DEF WorkerInv, MainInv, Serving
<1>7. /\ SetUp' = SetUp /\ Workers' = Workers /\ Needed' = Needed /\ (Stopped' <=> Stopped)
      /\ (IsUp' <=> IsUp) /\ Release' = Release /\ Acquired' = Acquired /\ Handled' = Handled
  BY <1>2, Fixed
<1>8. MainInv'
  BY <1>1, <1>2, <1>7 DEF MainInv
<1> QED
  BY <1>1, <1>2, <1>3, <1>4, <1>5, <1>6, <1>7, <1>8

\* A handler moves and nothing is released: what has to be shown besides.
LEMMA NothingReleased ==
  ASSUME ProcessInv, NEW t \in Thread, Handler(t), UNCHANGED <<held, closers, ended>>,
         running' \in BOOLEAN, running' => running, HandlerInv', ~Calm', Alone' <=> Alone,
         Alone =>
           /\ handler'["main"].pc \in {"check", "clear"} => running'
           /\ handler'["main"].pc = "exit" => "main" \in closers
           /\ \A w \in Name :
                \/ joiner'[w] \in {"nobody", "joined"}
                \/ handler'["main"].pc = "wait" /\ w = Workers[handler'["main"].next + 1]
           /\ handler["main"].pc # "exit"
  PROVE  ProcessInv'
<1>1. /\ MainInv /\ HeldInv /\ WorkerInv /\ HandlerInv /\ StopInv
      /\ UNCHANGED <<program, main, stage, stored, started, worker, reads>> /\ ~ended
      /\ SetUp' = SetUp /\ Workers' = Workers /\ Needed' = Needed /\ (Stopped' <=> Stopped)
      /\ (IsUp' <=> IsUp) /\ Release' = Release /\ Acquired' = Acquired /\ Handled' = Handled
      /\ MainInv'
  BY HandlerFacts
<1>2. HeldInv'
  BY <1>1 DEF HeldInv, LeftByFailure
<1>3. WorkerInv'
  BY <1>1 DEF WorkerInv
<1>4. StopInv'
  BY <1>1 DEF StopInv
<1> QED
  BY <1>1, <1>2, <1>3, <1>4 DEF ProcessInv

\* running_ is looked at and cleared.
LEMMA StopBeginStep ==
  ASSUME ProcessInv, NEW t \in Thread, StopCheck(t) \/ StopClear(t)
  PROVE  ProcessInv'
<1> DEFINE p == IF handler[t].pc = "clear" THEN "join" ELSE IF running THEN "clear" ELSE "exit"
           g == [handler[t] EXCEPT !.pc = p]
<1>0. Handler(t)
  BY DEF Handler
<1>1. /\ HandlerInv /\ StopInv /\ handler[t] \in HandlerSet
      /\ UNCHANGED <<program, main, stage, stored, started, worker, reads>>
      /\ handler[t].pc # "none" /\ handler[t].next <= Len(Workers) /\ Stopped
      /\ handler[t].pc \in {"clear", "join", "wait", "release"} => main \in Serving
      /\ program \in Program
  BY <1>0, HandlerFacts
<1>2. /\ handler' = [handler EXCEPT ![t] = g] /\ UNCHANGED <<held, joiner, closers, ended>>
      /\ handler[t].pc \in {"check", "clear"}
      /\ running' = IF handler[t].pc = "clear" THEN FALSE ELSE running
  BY DEF StopCheck, StopClear, At, GoTo, endpointVars
<1>3. /\ p \in {"clear", "join", "exit"}
      /\ p = "clear" <=> handler[t].pc = "check" /\ running
      /\ p = "join" <=> handler[t].pc = "clear"
  BY <1>2
<1> HIDE DEF p
<1>4. /\ g \in HandlerSet /\ g.pc = p /\ g.next = handler[t].next
      /\ g.blocked = handler[t].blocked
  BY <1>1, <1>3 DEF HandlerSet
<1> HIDE DEF g
<1>5. running => main \in Serving
  BY <1>1 DEF StopInv
<1>6. t = "main" => Past(g.next)
  BY <1>1, <1>4 DEF HandlerInv
<1>7. HandlerInv' /\ ~Calm' /\ (Alone' <=> Alone) /\ (Alone => t = "main" /\ handler'["main"] = g)
  <2>1. /\ joiner' \in [Name -> Thread \cup {"nobody", "joined"}]
        /\ \A w \in Name : joiner'[w] = "joined" => worker[w] = "done"
        /\ closers' \subseteq Thread /\ closers' = closers
    BY <1>1, <1>2 DEF HandlerInv
  <2>2. g.pc \in {"clear", "join", "wait", "release"} => main \in Serving
    BY <1>1, <1>3, <1>4, <1>5
  <2>3. g.pc \notin {"none", "wait", "release"}
    BY <1>3, <1>4
  <2> QED
    BY <1>1, <1>2, <1>4, <1>6, <2>1, <2>2, <2>3, HandlerMoves
<1>8. running' \in BOOLEAN /\ (running' => running)
  BY <1>1, <1>2 DEF StopInv
<1>9. ASSUME Alone
      PROVE  /\ handler'["main"].pc \in {"check", "clear"} => running'
             /\ handler'["main"].pc # "exit"
             /\ \A w \in Name : joiner'[w] \in {"nobody", "joined"}
  <2>1. t = "main" /\ handler'["main"].pc = p
    BY <1>4, <1>7, <1>9
  <2>2. running /\ \A w \in Name : joiner[w] \in {"nobody", "joined"}
    BY <1>1, <1>2, <1>9, <2>1 DEF StopInv
  <2> QED
    BY <1>2, <1>3, <2>1, <2>2
<1> QED
  BY <1>0, <1>2, <1>7, <1>8, <1>9, NothingReleased

\* The handles, one by one.
LEMMA StopJoinStep ==
  ASSUME ProcessInv, NEW t \in Thread,
         StopSkip(t) \/ StopJoin(t) \/ StopJoined(t) \/ StopAllJoined(t)
  PROVE  ProcessInv'
<1> DEFINE n == handler[t].next
           w == Workers[n + 1]
<1>0. Handler(t)
  BY DEF Handler
<1>1. /\ HandlerInv /\ StopInv /\ handler[t] \in HandlerSet
      /\ UNCHANGED <<program, main, stage, stored, started, worker, reads>>
      /\ handler[t].pc # "none" /\ n <= Len(Workers) /\ Stopped
      /\ handler[t].pc \in {"clear", "join", "wait", "release"} => main \in Serving
      /\ program \in Program /\ Len(Workers) \in 0..3 /\ stored \in 0..Len(Workers)
      /\ \A i \in 1..Len(Workers) : Workers[i] \in Name
  BY <1>0, HandlerFacts
<1>2. UNCHANGED <<held, closers, ended, running>> /\ handler[t].pc \in {"join", "wait"}
  BY DEF StopSkip, StopJoin, StopJoined, StopAllJoined, At, endpointVars
<1>3. n \in 0..3 /\ handler[t].blocked \subseteq Signal /\ main \in Serving
  BY <1>1, <1>2 DEF HandlerSet
<1>4. running' \in BOOLEAN /\ (running' => running)
  BY <1>1, <1>2 DEF StopInv
<1>5. /\ joiner \in [Name -> Thread \cup {"nobody", "joined"}] /\ closers \subseteq Thread
      /\ \A v \in Name : joiner[v] = "joined" => worker[v] = "done"
      /\ t = "main" => Past(n)
      /\ handler[t].pc = "wait" => n < Len(Workers)
  BY <1>1 DEF HandlerInv
<1>6. Alone =>
        /\ handler["main"].pc # "exit"
        /\ \A v \in Name :
             \/ joiner[v] \in {"nobody", "joined"}
             \/ handler["main"].pc = "wait" /\ v = Workers[handler["main"].next + 1]
  <2>1. Alone => t = "main"
    BY <1>1 DEF Alone, Thread
  <2> QED
    BY <1>1, <1>2, <2>1 DEF StopInv
<1>7. n < Len(Workers) => w \in Name
  BY <1>1, <1>3
\* What has to be shown of the place the handler comes to, and of the handles.
<1>8. ASSUME NEW g \in HandlerSet, handler' = [handler EXCEPT ![t] = g],
             g.blocked = handler[t].blocked, g.pc \in {"join", "wait", "release"},
             g.next <= Len(Workers), g.pc = "wait" => g.next < Len(Workers),
             t = "main" => Past(g.next), g.pc = "release" => g.next = Len(Workers),
             joiner' \in [Name -> Thread \cup {"nobody", "joined"}],
             \A v \in Name : joiner'[v] = "joined" => worker[v] = "done",
             Alone /\ t = "main" =>
               \A v \in Name : \/ joiner'[v] \in {"nobody", "joined"}
                               \/ g.pc = "wait" /\ v = Workers[g.next + 1]
      PROVE  ProcessInv'
  <2>1. g.pc \notin {"none", "check", "clear", "exit"}
    BY <1>8
  <2>2. HandlerInv' /\ ~Calm' /\ (Alone' <=> Alone) /\ (Alone => t = "main" /\ handler'["main"] = g)
    <3>1. /\ HandlerInv /\ UNCHANGED <<program, main, stored, worker>> /\ program \in Program
          /\ handler[t].pc # "none" /\ g.pc # "none"
      BY <1>1, <2>1
    <3>2. /\ g.pc \in {"clear", "join", "wait", "release"} => main \in Serving
          /\ t = "main" => Past(g.next) /\ (g.pc = "release" => Past(Len(Workers)))
      BY <1>3, <1>8
    <3>3. /\ closers' \subseteq Thread
          /\ "main" \in closers' => "main" \in closers \/ (t = "main" /\ Past(Len(Workers)))
      BY <1>2, <1>5
    <3> HIDE DEF n, w
    <3> QED
      BY <1>8, <3>1, <3>2, <3>3, HandlerMoves
  <2> QED
    BY <1>0, <1>2, <1>4, <1>6, <1>8, <2>1, <2>2, NothingReleased
<1>9. CASE StopSkip(t)
  <2> DEFINE g == [handler[t] EXCEPT !.next = n + 1]
  <2>1. /\ handler' = [handler EXCEPT ![t] = g] /\ joiner' = joiner
        /\ handler[t].pc = "join" /\ n < Len(Workers)
        /\ n + 1 > stored \/ joiner[w] = "joined"
    BY <1>1, <1>3, <1>9 DEF StopSkip, At, Joinable
  <2>0. n + 1 \in 0..3
    <3>1. n < Len(Workers)
      BY <2>1
    <3>2. n \in 0..3 /\ Len(Workers) \in 0..3
      BY <1>1, <1>3
    <3> HIDE DEF n
    <3> QED
      BY <3>1, <3>2, NextHandle
  <2>2. /\ g \in HandlerSet /\ g.next = n + 1 /\ g.pc = "join" /\ g.blocked = handler[t].blocked
    BY <1>1, <2>0, <2>1 DEF HandlerSet
  <2>3. t = "main" => Past(n + 1)
    <3>1. \A i \in 1..stored : i <= n + 1 => i <= n \/ i = n + 1
      BY <1>1, <1>3
    <3>2. n + 1 \in 1..stored => worker[w] = "done"
      BY <1>1, <1>3, <1>5, <1>7, <2>1
    <3> QED
      BY <1>5, <3>1, <3>2 DEF Past
  <2>4. n + 1 <= Len(Workers)
    BY <1>1, <1>3, <2>1
  <2> HIDE DEF g
  <2>5. Alone /\ t = "main" => \A v \in Name : joiner'[v] \in {"nobody", "joined"}
    BY <1>6, <2>1
  <2> QED
    BY <1>5, <1>8, <2>1, <2>2, <2>3, <2>4, <2>5
<1>10. CASE StopJoin(t)
  <2> DEFINE g == [handler[t] EXCEPT !.pc = "wait"]
  <2>1. /\ handler' = [handler EXCEPT ![t] = g] /\ joiner' = [joiner EXCEPT ![w] = t]
        /\ handler[t].pc = "join" /\ n < Len(Workers)
    BY <1>10 DEF StopJoin, At, GoTo
  <2>2. /\ g \in HandlerSet /\ g.next = n /\ g.pc = "wait" /\ g.blocked = handler[t].blocked
    BY <1>1, <1>3 DEF HandlerSet
  <2> HIDE DEF g
  <2>3. /\ joiner' \in [Name -> Thread \cup {"nobody", "joined"}]
        /\ joiner'[w] = t
        /\ \A v \in Name : v # w => joiner'[v] = joiner[v]
    BY <1>5, <1>7, <2>1
  <2>4. t # "joined"
    BY DEF Thread, Name
  <2>5. \A v \in Name : joiner'[v] = "joined" => worker[v] = "done"
    BY <1>5, <2>3, <2>4
  <2>6. Alone /\ t = "main" =>
          \A v \in Name : joiner'[v] \in {"nobody", "joined"} \/ v = w
    BY <1>6, <2>1, <2>3
  <2> QED
    BY <1>1, <1>5, <1>8, <2>1, <2>2, <2>3, <2>5, <2>6
<1>11. CASE StopJoined(t)
  <2> DEFINE g == [handler[t] EXCEPT !.pc = "join", !.next = n + 1]
  <2>1. /\ handler' = [handler EXCEPT ![t] = g] /\ joiner' = [joiner EXCEPT ![w] = "joined"]
        /\ handler[t].pc = "wait" /\ n < Len(Workers) /\ worker[w] = "done"
    BY <1>5, <1>11 DEF StopJoined, At
  <2>0. n + 1 \in 0..3
    <3>1. n < Len(Workers)
      BY <2>1
    <3>2. n \in 0..3 /\ Len(Workers) \in 0..3
      BY <1>1, <1>3
    <3> HIDE DEF n
    <3> QED
      BY <3>1, <3>2, NextHandle
  <2>2. /\ g \in HandlerSet /\ g.next = n + 1 /\ g.pc = "join" /\ g.blocked = handler[t].blocked
    BY <1>1, <2>0, <2>1 DEF HandlerSet
  <2> HIDE DEF g
  <2>3. /\ joiner' \in [Name -> Thread \cup {"nobody", "joined"}]
        /\ joiner'[w] = "joined"
        /\ \A v \in Name : v # w => joiner'[v] = joiner[v]
    BY <1>5, <1>7, <2>1
  <2>4. \A v \in Name : joiner'[v] = "joined" => worker[v] = "done"
    BY <1>5, <2>1, <2>3
  <2>5. t = "main" => Past(n + 1)
    <3>1. \A i \in 1..stored : i <= n + 1 => i <= n \/ i = n + 1
      BY <1>1, <1>3
    <3> QED
      BY <1>5, <2>1, <3>1 DEF Past
  <2>6. Alone /\ t = "main" => \A v \in Name : joiner'[v] \in {"nobody", "joined"}
    BY <1>6, <2>3
  <2>7. n + 1 <= Len(Workers)
    BY <1>1, <1>3, <2>1
  <2>8. /\ g.pc \in {"join", "wait", "release"} /\ g.pc # "wait" /\ g.pc # "release"
        /\ g.next <= Len(Workers) /\ (t = "main" => Past(g.next))
    BY <2>2, <2>5, <2>7
  <2> HIDE DEF n, w
  <2> QED
    BY <1>8, <2>1, <2>2, <2>3, <2>4, <2>6, <2>8
<1>12. CASE StopAllJoined(t)
  <2> DEFINE g == [handler[t] EXCEPT !.pc = "release"]
  <2>1. /\ handler' = [handler EXCEPT ![t] = g] /\ joiner' = joiner
        /\ handler[t].pc = "join" /\ n = Len(Workers)
    BY <1>12 DEF StopAllJoined, At, GoTo
  <2>2. /\ g \in HandlerSet /\ g.next = n /\ g.pc = "release" /\ g.blocked = handler[t].blocked
    BY <1>1, <1>3 DEF HandlerSet
  <2> HIDE DEF g
  <2>3. Alone /\ t = "main" => \A v \in Name : joiner'[v] \in {"nobody", "joined"}
    BY <1>6, <2>1
  <2> QED
    BY <1>1, <1>5, <1>8, <2>1, <2>2, <2>3
<1> QED
  BY <1>9, <1>10, <1>11, <1>12

\* closeServerSockets or disconnect(): what the set-up acquired is released.
LEMMA StopReleaseStep ==
  ASSUME ProcessInv, NEW t \in Thread, StopRelease(t)
  PROVE  ProcessInv'
<1> DEFINE g == [handler[t] EXCEPT !.pc = "exit"]
           freed == IF program = "gateway" THEN GatewayRelease ELSE TlsClientRelease(IsUp)
<1>0. Handler(t)
  BY DEF Handler
<1>1. /\ MainInv /\ HeldInv /\ WorkerInv /\ HandlerInv /\ StopInv /\ handler[t] \in HandlerSet
      /\ UNCHANGED <<program, main, stage, stored, started, worker, reads>> /\ ~ended
      /\ handler[t].pc # "none" /\ handler[t].next <= Len(Workers) /\ Stopped
      /\ handler[t].pc \in {"clear", "join", "wait", "release"} => main \in Serving
      /\ program \in Program /\ Len(Workers) \in 0..3 /\ stored \in 0..Len(Workers)
      /\ SetUp' = SetUp /\ Workers' = Workers /\ Needed' = Needed /\ (Stopped' <=> Stopped)
      /\ MainInv'
  BY <1>0, HandlerFacts
<1>2. /\ handler' = [handler EXCEPT ![t] = g] /\ UNCHANGED <<joiner, running, ended>>
      /\ handler[t].pc = "release" /\ closers' = closers \cup {t} /\ held' = held \ freed
  BY DEF StopRelease, At, GoTo
<1>3. /\ g \in HandlerSet /\ g.pc = "exit"
      /\ g.next = handler[t].next /\ g.blocked = handler[t].blocked
  BY <1>1 DEF HandlerSet
<1> HIDE DEF g, freed
<1>4. main \in Serving /\ t \in closers'
  BY <1>1, <1>2
<1>5. t = "main" => Past(g.next) /\ Past(Len(Workers))
  BY <1>1, <1>2, <1>3 DEF HandlerInv
<1>6. HandlerInv' /\ ~Calm' /\ (Alone' <=> Alone) /\ (Alone => t = "main" /\ handler'["main"] = g)
  <2>1. /\ joiner' \in [Name -> Thread \cup {"nobody", "joined"}]
        /\ \A w \in Name : joiner'[w] = "joined" => worker[w] = "done"
        /\ closers' \subseteq Thread
        /\ "main" \in closers' => "main" \in closers \/ t = "main"
    BY <1>1, <1>2 DEF HandlerInv
  <2> QED
    BY <1>1, <1>2, <1>3, <1>5, <2>1, HandlerMoves
<1>7. held' \subseteq {"vmg_client"} /\ held' \subseteq held
  <2>1. IsUp /\ held \subseteq Needed \cup {"vmg_client"} /\ program \in {"gateway", "simulator"}
    BY <1>1, <1>4 DEF MainInv, HeldInv, Stopped
  <2>2. Needed \subseteq freed
    BY <1>1, <2>1, ReleaseFrees DEF freed
  <2> QED
    BY <1>2, <2>1, <2>2
<1>8. HeldInv'
  BY <1>1, <1>2, <1>4, <1>7 DEF HeldInv, Serving, Stopped
<1>9. WorkerInv'
  <2>1. closers' \subseteq {"main"} => \A i \in 1..stored : worker[Workers[i]] = "done"
    <3>1. \A i \in 1..stored : i <= Len(Workers)
      BY <1>1
    <3> QED
      BY <1>4, <1>5, <3>1 DEF Past
  <2> QED
    BY <1>1, <2>1 DEF WorkerInv
<1>10. StopInv'
  <2>1. Alone => \A w \in Name : joiner'[w] \in {"nobody", "joined"}
    BY <1>1, <1>2, <1>6 DEF StopInv
  <2>2. Alone => handler'["main"].pc = "exit" /\ "main" \in closers'
    BY <1>3, <1>4, <1>6
  <2> QED
    BY <1>1, <1>2, <1>6, <1>7, <2>1, <2>2 DEF StopInv
<1> QED
  BY <1>1, <1>6, <1>8, <1>9, <1>10 DEF ProcessInv

\* A handler ends the process.  One that is alone does not find a join refused,
\* nor another that frees.
LEMMA EndStep ==
  ASSUME ProcessInv, NEW t \in Thread, JoinThrows(t) \/ FreedTwice(t) \/ Exit(t)
  PROVE  ProcessInv'
<1>0. Handler(t)
  BY DEF Handler
<1>1. /\ MainInv /\ HeldInv /\ WorkerInv /\ HandlerInv /\ StopInv
      /\ UNCHANGED <<program, main, stage, stored, started, worker, reads>>
      /\ handler[t].pc # "none" /\ handler[t] \in HandlerSet
      /\ Len(Workers) \in 0..3 /\ \A i \in 1..Len(Workers) : Workers[i] \in Name
      /\ SetUp' = SetUp /\ Workers' = Workers /\ Needed' = Needed /\ (Stopped' <=> Stopped)
      /\ (IsUp' <=> IsUp) /\ Release' = Release /\ Acquired' = Acquired /\ Handled' = Handled
      /\ MainInv'
  BY <1>0, HandlerFacts
<1>2. UNCHANGED <<held, handler, joiner, closers, running>> /\ ended' = TRUE
  BY DEF JoinThrows, FreedTwice, Exit, endpointVars, stopVars
<1>3. HeldInv' /\ WorkerInv'
  BY <1>1, <1>2 DEF HeldInv, LeftByFailure, WorkerInv
<1>4. HandlerInv'
  BY <1>1, <1>2 DEF HandlerInv, Past
<1>5. Alone => handler["main"].pc = "exit"
  <2> SUFFICES ASSUME Alone PROVE handler["main"].pc = "exit"
    OBVIOUS
  <2>1. t = "main" /\ \A w \in Name : handler[w].pc = "none"
    BY <1>1 DEF Alone, Thread
  <2>2. ~JoinThrows(t)
    <3> SUFFICES ASSUME JoinThrows(t) PROVE FALSE
      OBVIOUS
    <3> DEFINE n == handler[t].next
               w == Workers[n + 1]
    <3>1. /\ handler[t].pc = "join" /\ n < Len(Workers) /\ joiner[w] # "joined"
          /\ w = t \/ joiner[w] # "nobody"
      BY <2>1 DEF JoinThrows, At, Joinable, Clash
    <3>2. w \in Name
      BY <1>1, <3>1 DEF HandlerSet
    <3>3. joiner[w] \in {"nobody", "joined"}
      BY <1>1, <2>1, <3>1, <3>2 DEF StopInv
    <3> QED
      BY <2>1, <3>1, <3>2, <3>3 DEF Name
  <2>3. ~FreedTwice(t)
    BY <2>1 DEF FreedTwice, At, Thread
  <2> QED
    BY <2>1, <2>2, <2>3 DEF Exit, At
<1>6. StopInv'
  <2>1. (Calm' <=> Calm) /\ (Alone' <=> Alone)
    BY <1>1, <1>2 DEF Calm, Alone
  <2> QED
    BY <1>1, <1>2, <1>5, <2>1 DEF StopInv
<1> QED
  BY <1>1, <1>3, <1>4, <1>6 DEF ProcessInv

-----------------------------------------------------------------------------
(* The theorems.                                                           *)

LEMMA ProcessAlwaysInv == ProcessSpec => []ProcessInv
<1>1. ProcessInv /\ [ProcessNext]_processVars => ProcessInv'
  <2> SUFFICES ASSUME ProcessInv, [ProcessNext]_processVars PROVE ProcessInv'
    OBVIOUS
  <2>1. CASE Start
    BY <2>1, EndpointStep, ServingStep, LeavesStep DEF Start
  <2>2. CASE Server
    BY <2>2, ServerStep
  <2>3. CASE BeginRound \/ ConnectEnds \/ WriteEnds \/ \E w \in Name : SessionEnds(w) \/ Leave(w)
    BY <2>3, WorkersStep
  <2>4. CASE \E t \in Thread : \E s \in Signal : Deliver(t, s)
    BY <2>4, DeliverStep
  <2>5. CASE \E t \in Thread : Handler(t)
    BY <2>5, StopBeginStep, StopJoinStep, StopReleaseStep, EndStep DEF Handler
  <2>6. CASE PeerReads \/ UNCHANGED processVars
    BY <2>6, PeerStep
  <2>7. CASE ServerSignal
    BY <2>7, ServerSignalStep
  <2> QED
    BY <2>1, <2>2, <2>3, <2>4, <2>5, <2>6, <2>7 DEF ProcessNext
<1> QED
  BY <1>1, ProcessInitInv, PTL DEF ProcessSpec

\* Whatever signals come, and whichever threads handle them: a worker whose
\* handle is stored never runs without what the set-up acquired, as long as no
\* handler on another worker has got through stop(); and one signal, handled by
\* main in its loop, ends the process with the workers ended and all that is
\* ever closed released: the gateway's socket to the VMG is not (stop,
\* signal_handler).
THEOREM ShutdownClean == ProcessSpec => []CleanExit
<1>1. ProcessInv => CleanExit
  <2> SUFFICES ASSUME ProcessInv PROVE CleanExit
    OBVIOUS
  <2>1. MainInv /\ HeldInv /\ WorkerInv /\ HandlerInv /\ StopInv
    BY DEF ProcessInv
  <2>2. program \in Program /\ Len(Workers) \in 0..3
    BY <2>1, WorkersShape DEF MainInv
  <2>3. ProcessTypeOK
    <3>1. held \subseteq Needed \cup Connection \cup {"connection", "vmg_client"}
      BY <2>1 DEF HeldInv
    <3>2. stored \in 0..3 /\ started \in 0..3
      <4>1. started \in 0..3 /\ (main \notin Serving => stored = started)
        <5>1. started \in 0..Len(Workers) /\ (main \notin Serving => stored = started)
          BY <2>1 DEF WorkerInv
        <5> QED
          BY <2>2, <5>1, AtMostAll
      <4>2. main \in Serving => stored = started \/ (started > 0 /\ stored = started - 1)
        BY <2>1 DEF WorkerInv, Serving
      <4> QED
        BY <4>1, <4>2
    <3>3. handler \in [Thread -> HandlerSet]
      BY <2>1 DEF HandlerInv
    <3> QED
      BY <2>1, <3>1, <3>2, <3>3
         DEF ProcessTypeOK, MainInv, WorkerInv, HandlerInv, StopInv, Serving, HandlerSet
  <2>4. closers \subseteq {"main"} =>
          \A i \in 1..stored : worker[Workers[i]] # "done" => Needed \subseteq held
    BY <2>1 DEF WorkerInv
  <2>5. ASSUME ended, main = "loop", NEW s \in Signal, Delivered = {<<"main", s>>}
        PROVE  held \subseteq {"vmg_client"} /\ \A w \in Name : worker[w] \in {"none", "done"}
    <3>1. \A t \in Thread, r \in Signal :
             r \in handler[t].blocked <=> t = "main" /\ r = s
      <4>1. \A t \in Thread, r \in Signal : r \in handler[t].blocked <=> <<t, r>> \in Delivered
        BY DEF Delivered
      <4> QED
        BY <2>5, <4>1
    <3>2. /\ \A t \in Thread : handler[t].blocked \subseteq Signal
          /\ \A t \in Thread : handler[t].pc = "none" <=> handler[t].blocked = {}
          /\ "main" \in Thread /\ \A w \in Name : w \in Thread /\ w # "main"
      BY <2>1 DEF HandlerInv, HandlerSet, Thread, Name
    <3>3. handler["main"].blocked = {s}
      BY <3>1, <3>2
    <3>4. \A w \in Name : handler[w].pc = "none"
      BY <3>1, <3>2
    <3>5. Alone
      BY <2>5, <3>3, <3>4 DEF Alone
    <3>6. "main" \in closers /\ held \subseteq {"vmg_client"}
      BY <2>1, <2>5, <3>5 DEF StopInv
    <3>7. started = Len(Workers) /\ stored = started
      BY <2>1, <2>5 DEF WorkerInv
    <3>8. \A i \in 1..started : worker[Workers[i]] = "done"
      BY <2>1, <2>2, <3>6, <3>7 DEF HandlerInv, Past
    <3> QED
      BY <2>1, <3>6, <3>8 DEF WorkerInv
  <2> QED
    BY <2>3, <2>4, <2>5 DEF CleanExit
<1> QED
  BY <1>1, ProcessAlwaysInv, PTL

\* Whatever stage of the set-up fails, main returns with nothing held but for
\* the cases ReturnsEmptyHanded names, the zonal gateway's client returns its
\* error with nothing held, and no client talks with less than its set-up
\* acquired (connect, create, init and what frees in each of them).
THEOREM ReturnsClean == ProcessSpec => []ReturnsEmptyHanded
<1>1. ProcessInv => ReturnsEmptyHanded
  <2> SUFFICES ASSUME ProcessInv PROVE ReturnsEmptyHanded
    OBVIOUS
  <2>1. MainInv /\ HeldInv
    BY DEF ProcessInv
  <2>2. program = "mbed_server" => Release = {}
    BY DEF Release
  <2>3. main = "active" \/ (main = "up" /\ Release # {}) => program # "mbed_server"
    BY <2>1, <2>2 DEF MainInv
  <2>4. program = "zonal_doip" => Release = {}
    BY DEF Release
  <2>5. program = "zonal_doip" /\ main = "failed" => held = {}
    BY <2>1, <2>4 DEF HeldInv, LeftByFailure
  <2> QED
    BY <2>1, <2>3, <2>5 DEF ReturnsEmptyHanded, HeldInv, Handled
<1> QED
  BY <1>1, ProcessAlwaysInv, PTL
=============================================================================
