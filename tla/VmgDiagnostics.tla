--------------------------- MODULE VmgDiagnostics ---------------------------
(***************************************************************************)
(* Diagnostics at the vehicle gateway: what the handler threads of the     *)
(* DoIP server (vehicle_gateway/src/doip_server.cpp) do with the messages  *)
(* of their connections, and the one UDS service handler that all of them  *)
(* share (vehicle_gateway/src/uds_service_handler.cpp), called under       *)
(* uds_mutex_ as example_vmg_doip_server.cpp registers it.                 *)
(*                                                                         *)
(* The connections stay up; DoIPServer models how they come and go.  A     *)
(* message is its type and, for a diagnostic message, the service and the  *)
(* argument the handler looks at.  A key is named by the seed it is right  *)
(* for; 0 is the seed before any was drawn.                                *)
(***************************************************************************)
EXTENDS Naturals, Sequences, SequencesExt

CONSTANTS Client,      \* the connections
          Reader,      \* the clients that keep reading what they are sent
          None,        \* no client
          Seed,        \* the random seeds, which exclude 0
          AttemptMod,  \* security_attempts_ counts modulo this (2^8)
          SendBuffer   \* how many messages a client may leave unread

ASSUME ConstantsAssumption ==
  /\ Reader \subseteq Client /\ None \notin Client
  /\ Seed \subseteq Nat \ {0}
  /\ AttemptMod \in Nat \ 0..3
  /\ SendBuffer \in Nat \ {0}

MaxAttempts == 3

VARIABLES
  pc,        \* where the handler thread of each connection is
  request,   \* what the thread works on: a message, then its answer
  mutex,     \* who holds uds_mutex_
  unlocked,  \* security_unlocked_
  seed,      \* security_seed_
  attempts,  \* security_attempts_
  outbox,    \* messages the client has not read yet
  owed,      \* ghost: the answers each client still has to read, in order
  holder,    \* ghost: who was given a seed last
  given,     \* ghost: that seed
  wrong      \* ghost: wrong keys since the last right one, at most AttemptMod

thread == <<pc, request, mutex>>
uds == <<unlocked, seed, attempts>>
net == <<outbox, owed>>
ghost == <<given, holder, wrong>>
vars == <<thread, uds, net, ghost>>

-----------------------------------------------------------------------------
(* Messages and what answers them.                                         *)

\* "short" is a routing activation or a diagnostic message too short for its
\* addresses.
Plain == {"routing", "short", "alive", "unsupported"}

\* The services that touch the state of the handler.  "other" stands for
\* those that only look at it or echo (current_session_ is read by nobody),
\* and for requests that are refused.
Uds ==
  {<<"key", k>> : k \in Seed \cup {0}}
    \cup {<<s, 0>> : s \in {"default_session", "seed", "other"}}

Message == {<<p, 0>> : p \in Plain} \cup Uds

\* A plain message has one answer or none, a diagnostic message is
\* acknowledged and then answered.
Answers(m) ==
  CASE m[1] = "unsupported" -> <<>>
    [] m[1] \in Plain \ {"unsupported"} -> <<"plain">>
    [] OTHER -> <<"ack", "response">>

Idle == <<"none", 0>>
Answer(a) == <<a, 0>>

Init ==
  /\ pc = [c \in Client |-> "recv"]
  /\ request = [c \in Client |-> Idle]
  /\ mutex = None
  /\ unlocked = FALSE /\ seed = 0 /\ attempts = 0
  /\ outbox = [c \in Client |-> <<>>]
  /\ owed = [c \in Client |-> <<>>]
  /\ given = 0 /\ holder = None /\ wrong = 0

-----------------------------------------------------------------------------
(* The clients.  What they send is chosen where it is received.            *)

Read(c) ==
  /\ outbox[c] # <<>>
  /\ outbox' = [outbox EXCEPT ![c] = Tail(@)]
  /\ owed' = [owed EXCEPT ![c] = Tail(@)]
  /\ UNCHANGED <<thread, uds, ghost>>

-----------------------------------------------------------------------------
(* clientHandlerThread and handleTCPMessage, per connection.               *)

\* A message is received and dispatched by its type.  The source address and
\* routing_active_, which a routing activation stores in the session, are
\* read by nobody and left out.
Receive(c, m) ==
  /\ pc[c] = "recv"
  /\ IF m \in Uds
       THEN /\ pc' = [pc EXCEPT ![c] = "ack"]
            /\ request' = [request EXCEPT ![c] = m]
       ELSE IF Answers(m) # <<>>
         THEN /\ pc' = [pc EXCEPT ![c] = "send"]
              /\ request' = [request EXCEPT ![c] = Answer("plain")]
         ELSE UNCHANGED <<pc, request>>
  /\ owed' = [owed EXCEPT ![c] = @ \o Answers(m)]
  /\ UNCHANGED <<mutex, uds, outbox, ghost>>

\* send() blocks while the peer does not read.
CanSend(c) == Len(outbox[c]) < SendBuffer
Put(c, a) == outbox' = [outbox EXCEPT ![c] = Append(@, a)]

\* (mutant) the message is acknowledged once it has been carried out.
SendAckLate(c) ==
  /\ pc[c] = "ack"
  /\ pc' = [pc EXCEPT ![c] = "lock"]
  /\ UNCHANGED <<request, mutex, uds, net, ghost>>

SendAck(c) ==
  /\ pc[c] = "ack"
  /\ CanSend(c)
  /\ Put(c, "ack")
  /\ pc' = [pc EXCEPT ![c] = "lock"]
  /\ UNCHANGED <<request, mutex, uds, owed, ghost>>

Lock(c) ==
  /\ pc[c] = "lock"
  /\ mutex = None
  /\ mutex' = c
  /\ pc' = [pc EXCEPT ![c] = "uds"]
  /\ UNCHANGED <<request, uds, net, ghost>>

SendReply(c) ==
  /\ pc[c] = "send"
  /\ CanSend(c)
  /\ Put(c, request[c][1])
  /\ pc' = [pc EXCEPT ![c] = "recv"]
  /\ request' = [request EXCEPT ![c] = Idle]
  /\ UNCHANGED <<mutex, uds, owed, ghost>>

-----------------------------------------------------------------------------
(* The shared handler: processRequest, one disjunct per service.           *)

\* Only the default session locks; the others are just stored.
DefaultSession ==
  /\ unlocked' = FALSE
  /\ UNCHANGED <<seed, attempts, ghost>>

\* (mutant) a new seed although the limit has been reached.
RequestSeedUnlimited(c) ==
  \E s \in Seed :
    /\ ~unlocked
    /\ seed' = s
    /\ given' = s /\ holder' = c
    /\ UNCHANGED <<unlocked, attempts, wrong>>

\* An unlocked handler answers a seed of zero; after too many wrong keys it
\* refuses.
RequestSeed(c) ==
  IF unlocked \/ attempts >= MaxAttempts
    THEN UNCHANGED <<uds, ghost>>
    ELSE \E s \in Seed :
           /\ seed' = s
           /\ given' = s /\ holder' = c
           /\ UNCHANGED <<unlocked, attempts, wrong>>

RightKey(k) == k = seed

\* (mutant) a wrong key uses up the seed.
SendKeyDropsSeed(k) ==
  /\ IF RightKey(k)
       THEN unlocked' = TRUE /\ attempts' = 0 /\ wrong' = 0 /\ seed' = seed
       ELSE /\ unlocked' = unlocked
            /\ attempts' = (attempts + 1) % AttemptMod
            /\ wrong' = IF wrong = AttemptMod THEN wrong ELSE wrong + 1
            /\ seed' = 0
  /\ UNCHANGED <<given, holder>>

\* Neither the limit nor an earlier request for a seed is looked at, the
\* seed stays valid, and an unlocked handler counts wrong keys too.
SendKey(k) ==
  /\ IF RightKey(k)
       THEN unlocked' = TRUE /\ attempts' = 0 /\ wrong' = 0
       ELSE /\ unlocked' = unlocked
            /\ attempts' = (attempts + 1) % AttemptMod
            /\ wrong' = IF wrong = AttemptMod THEN wrong ELSE wrong + 1
  /\ UNCHANGED <<seed, given, holder>>

\* Resetting, reading, writing and routines change nothing here: they look
\* at the state or echo.
OtherService == UNCHANGED <<uds, ghost>>

Process(c) ==
  LET m == request[c]
  IN CASE m[1] = "default_session" -> DefaultSession
       [] m[1] = "seed" -> RequestSeed(c)
       [] m[1] = "key" -> SendKey(m[2])
       [] OTHER -> OtherService

\* (mutant) a return from the handler that leaves the mutex locked.
CallKeepingMutex(c) ==
  /\ pc[c] = "uds"
  /\ Process(c)
  /\ pc' = [pc EXCEPT ![c] = "send"]
  /\ request' = [request EXCEPT ![c] = Answer("response")]
  /\ UNCHANGED <<mutex, net>>

Call(c) ==
  /\ pc[c] = "uds"
  /\ Process(c)
  /\ mutex' = None
  /\ pc' = [pc EXCEPT ![c] = "send"]
  /\ request' = [request EXCEPT ![c] = Answer("response")]
  /\ UNCHANGED net

Next ==
  \E c \in Client :
    \/ \E m \in Message : Receive(c, m)
    \/ SendAck(c) \/ Lock(c) \/ Call(c) \/ SendReply(c)
    \/ Read(c)

Spec == Init /\ [][Next]_vars

\* Threads run and the mutex is handed over; nobody has to ask, and only the
\* clients in Reader read.  A thread that waits for the mutex gets it
\* although others take it in between.
Fairness ==
  /\ \A c \in Client : WF_vars(SendAck(c) \/ Call(c) \/ SendReply(c))
  /\ \A c \in Client : SF_vars(Lock(c))
  /\ \A c \in Reader : WF_vars(Read(c))

FairSpec == Spec /\ Fairness

-----------------------------------------------------------------------------

TypeOK ==
  /\ pc \in [Client -> {"recv", "ack", "lock", "uds", "send"}]
  /\ request \in [Client -> Message \cup {Idle, Answer("plain"), Answer("response")}]
  /\ mutex \in Client \cup {None}
  /\ unlocked \in BOOLEAN /\ seed \in Seed \cup {0} /\ attempts \in 0..AttemptMod - 1
  /\ \A c \in Client : Len(outbox[c]) <= SendBuffer
  /\ given \in Seed \cup {0} /\ holder \in Client \cup {None}
  /\ wrong \in 0..AttemptMod

\* Types hold, and what a client finds on its connection is, message by
\* message, the answers to its own requests in the order it sent them, an
\* acknowledgement before each response, however the threads interleave in
\* the shared handler (handleDiagnosticMessage).
AnswersInOrder ==
  /\ TypeOK
  /\ \A c \in Client : IsPrefix(outbox[c], owed[c])

\* A key that is right for the seed its sender was given last is refused, and
\* counted as an attempt, only when another client has been given a seed in
\* between: the handler keeps one seed for all (handleSecurityAccess).
KeyRefusedOnlyAfterInterference ==
  \A c \in Client :
    pc[c] = "uds" /\ request[c] = <<"key", given>> /\ holder = c => RightKey(given)

\* Once three wrong keys have come since the last right one, from whichever
\* clients, no seed is handed out, until the 8-bit counter wraps.
SeedsStopAtLimit ==
  [][wrong \notin MaxAttempts..AttemptMod - 1 \/ UNCHANGED given]_vars

\* Each message of a client that keeps reading is answered to the end, also when
\* another client never reads and its thread is stuck in send().
ReadersServed ==
  \A c \in Reader : pc[c] # "recv" ~> pc[c] = "recv"
=============================================================================
