---------------------------- MODULE SimulatorUds ----------------------------
(***************************************************************************)
(* The diagnostic side of the simulated device: its UDS handler            *)
(* (tc375_simulator/src/uds_handler.cpp) next to its update manager        *)
(* (OtaManager).  Both serve the same tester, and no call leads from one   *)
(* to the other: a transferred block is acknowledged and not yet written   *)
(* anywhere, so the two interleave freely.                                 *)
(*                                                                         *)
(* A request is what UdsMessage::deserialize makes of it: the second byte  *)
(* becomes sub_function, which no service reads, and each service takes    *)
(* its own sub-function from the byte after it.  A key is named by the     *)
(* seed it is right for.                                                   *)
(***************************************************************************)
EXTENDS OtaManager, Sequences

CONSTANTS Seed,         \* the seeds, which exclude 0
          CounterMax,   \* the largest block counter (0xFF)
          MaxTransfers  \* bound: blocks of one transfer

ASSUME UdsAssumption ==
  /\ Seed \subseteq Nat \ {0}
  /\ CounterMax \in Nat \ 0..1 /\ MaxTransfers \in Nat

VARIABLES
  session,   \* current_session_
  security,  \* security_level_
  seed,      \* current_seed_
  active,    \* download_state_.active
  counter,   \* download_state_.block_counter
  tries,     \* ghost: keys compared with the present seed, at most 2
  proved,    \* ghost: the last key compared was right and no seed came after it
  received   \* ghost: the blocks accepted in this transfer, by their position

udsVars == <<session, security, seed, active, counter, tries, proved, received>>
simVars == <<vars, udsVars>>

UdsInit ==
  /\ session = "default" /\ security = "locked" /\ seed = 0
  /\ active = FALSE /\ counter = 0
  /\ tries = 0 /\ proved = FALSE /\ received = <<>>

-----------------------------------------------------------------------------
(* Requests.                                                               *)

\* What a service finds of the bytes after the service identifier.
Parsed(bytes) == IF Len(bytes) > 1 THEN Tail(bytes) ELSE <<>>

\* A tester may put the sub-function where ISO 14229 has it (one byte), or
\* where the handler looks for it (after a byte of padding).
Layout(b) == {<<b>>, <<0, b>>}

Bytes ==
  UNION {Layout(b) : b \in {"default", "programming", "extended", "other",
                            "odd", "even"}}

-----------------------------------------------------------------------------
(* The services.                                                           *)

\* The programming session needs the security access, the others give none up.
DiagnosticSession(data) ==
  /\ data # <<>>
  /\ data[1] \in {"default", "programming", "extended"}
  /\ data[1] = "programming" => security = "unlocked"
  /\ session' = data[1]
  /\ UNCHANGED <<security, seed, active, counter, tries, proved, received>>

\* An odd sub-function.  A new seed is made, and locks, in any state.
RequestSeed(data) ==
  /\ data # <<>> /\ data[1] = "odd"
  /\ \E s \in Seed : seed' = s
  /\ security' = "seed_sent"
  /\ tries' = 0 /\ proved' = FALSE
  /\ UNCHANGED <<session, active, counter, received>>

\* (mutant) a wrong key leaves the seed open for another try.
SendKeyAgain(data, key) ==
  /\ data # <<>> /\ data[1] = "even"
  /\ security = "seed_sent"
  /\ security' = IF key = seed THEN "unlocked" ELSE "seed_sent"
  /\ tries' = IF tries = 2 THEN 2 ELSE tries + 1
  /\ proved' = (key = seed)
  /\ UNCHANGED <<session, seed, active, counter, received>>

\* An even sub-function, with the four bytes of a key after it.
SendKey(data, key) ==
  /\ data # <<>> /\ data[1] = "even"
  /\ security = "seed_sent"
  /\ security' = IF key = seed THEN "unlocked" ELSE "locked"
  /\ tries' = IF tries = 2 THEN 2 ELSE tries + 1
  /\ proved' = (key = seed)
  /\ UNCHANGED <<session, seed, active, counter, received>>

\* (mutant) the session is all that is looked at.
RequestDownloadLocked ==
  /\ session = "programming"
  /\ active' = TRUE /\ counter' = 1
  /\ received' = <<>>
  /\ UNCHANGED <<session, security, seed, tries, proved>>

\* Address and size of the request are not parsed.
RequestDownload ==
  /\ session = "programming"
  /\ security = "unlocked"
  /\ active' = TRUE /\ counter' = 1
  /\ received' = <<>>
  /\ UNCHANGED <<session, security, seed, tries, proved>>

\* (mutant) the counter runs through zero.
NextCounterWithZero(c) == (c + 1) % (CounterMax + 1)

NextCounter(c) == (c % CounterMax) + 1

\* The counter a tester gives block n.
CounterOf(n) == ((n - 1) % CounterMax) + 1

\* Block n of the transfer arrives with its counter.
TransferData(n) ==
  /\ active
  /\ counter = CounterOf(n)
  /\ counter' = NextCounter(counter)
  /\ received' = Append(received, n)
  /\ UNCHANGED <<session, security, seed, active, tries, proved>>

\* The number of blocks is not compared with anything.
RequestTransferExit ==
  /\ active
  /\ active' = FALSE
  /\ UNCHANGED <<session, security, seed, counter, tries, proved, received>>

\* The tester sends the next block, or the last one again when the answer to
\* it was lost.
Sent == {n \in {Len(received), Len(received) + 1} : n \in 1..MaxTransfers}

\* Services that change nothing (reset, tester present, reading) and refused
\* requests are stuttering steps.
HandleRequest ==
  \/ \E bytes \in Bytes :
       \/ DiagnosticSession(Parsed(bytes))
       \/ RequestSeed(Parsed(bytes))
       \/ \E key \in Seed \cup {0} : SendKey(Parsed(bytes), key)
  \/ RequestDownload
  \/ \E n \in Sent : TransferData(n)
  \/ RequestTransferExit

SimInit == Init /\ UdsInit

SimNext ==
  \/ Next /\ UNCHANGED udsVars
  \/ HandleRequest /\ UNCHANGED vars

SimSpec == SimInit /\ [][SimNext]_simVars

-----------------------------------------------------------------------------

UdsTypeOK ==
  /\ session \in {"default", "programming", "extended"}
  /\ security \in {"locked", "seed_sent", "unlocked"}
  /\ seed \in Seed \cup {0}
  /\ active \in BOOLEAN /\ counter \in 0..CounterMax
  /\ tries \in 0..2 /\ proved \in BOOLEAN
  /\ received \in Seq(1..MaxTransfers)

\* A seed admits one key, right or wrong, however keys, seeds and sessions
\* follow each other, and the device is unlocked exactly while the last key
\* was right and no new seed has been asked for (handleSecurityAccess).
SeedUsedOnce ==
  /\ UdsTypeOK
  /\ tries <= 1
  /\ security = "unlocked" <=> proved

\* No transfer starts unless the last key was right and its session is the
\* programming session, also when a new seed has locked the device in it
\* (handleRequestDownload).
DownloadProved ==
  [][~active /\ active' => proved /\ session = "programming"]_simVars

\* The blocks of a transfer arrive without a gap and none twice, and the next
\* one is always expected, although the tester repeats a block whose answer it
\* has missed and the counter wraps from its maximum to 1 (handleTransferData).
BlocksInSequence ==
  active => /\ \A i \in DOMAIN received : received[i] = i
            /\ counter = CounterOf(Len(received) + 1)
=============================================================================
