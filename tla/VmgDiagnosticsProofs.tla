------------------------ MODULE VmgDiagnosticsProofs ------------------------
(***************************************************************************)
(* Proofs about the shared UDS handler of the vehicle gateway and the      *)
(* connections that use it, for any set of clients and seeds, any width of *)
(* the attempt counter and any size of the send buffers.                   *)
(***************************************************************************)
EXTENDS VmgDiagnostics, SequenceTheorems, TLAPS

Text == {"plain", "ack", "response"}

\* What the thread of a connection still has to send for its request.
Unsent(c) ==
  CASE pc[c] = "ack" -> <<"ack", "response">>
    [] pc[c] \in {"lock", "uds"} -> <<"response">>
    [] pc[c] = "send" -> <<request[c][1]>>
    [] OTHER -> <<>>

\* The types of the streams, and what a thread works on at each place.
ThreadInv ==
  /\ pc \in [Client -> {"recv", "ack", "lock", "uds", "send"}]
  /\ request \in [Client -> Message \cup {Idle, Answer("plain"), Answer("response")}]
  /\ mutex \in Client \cup {None}
  /\ outbox \in [Client -> Seq(Text)]
  /\ owed \in [Client -> Seq(Text)]
  /\ \A c \in Client :
       /\ pc[c] \in {"ack", "lock", "uds"} => request[c] \in Uds
       /\ pc[c] = "send" => request[c] \in {Answer("plain"), Answer("response")}
       /\ Len(outbox[c]) <= SendBuffer

\* What a client has not read is what lies in its stream and what its thread
\* has yet to send, in this order.
FlowInv == \A c \in Client : owed[c] = outbox[c] \o Unsent(c)

\* The handler's state: the seed is the one that was given last, and the
\* counter is exact until it wraps.
HandlerInv ==
  /\ unlocked \in BOOLEAN /\ seed \in Seed \cup {0} /\ attempts \in 0..AttemptMod - 1
  /\ given \in Seed \cup {0} /\ holder \in Client \cup {None}
  /\ wrong \in 0..AttemptMod
  /\ holder # None => given = seed
  /\ wrong < AttemptMod => attempts = wrong

-----------------------------------------------------------------------------
(* The shared handler.                                                     *)

LEMMA InitHandler == Init => HandlerInv
<1> SUFFICES ASSUME Init PROVE HandlerInv
  OBVIOUS
<1>1. unlocked \in BOOLEAN /\ holder = None /\ wrong = attempts
  BY Zenon DEF Init
<1>2. /\ seed \in Seed \cup {0} /\ given \in Seed \cup {0}
      /\ attempts \in 0..AttemptMod - 1 /\ wrong \in 0..AttemptMod
  BY ConstantsAssumption, SMT DEF Init
<1> QED
  BY <1>1, <1>2, Zenon DEF HandlerInv

\* Wrong keys are counted until the counter is full, and then modulo its width.
LEMMA CountUp ==
  ASSUME HandlerInv
  PROVE  /\ (attempts + 1) % AttemptMod \in 0..AttemptMod - 1
         /\ wrong + 1 < AttemptMod => (attempts + 1) % AttemptMod = wrong + 1
  BY ConstantsAssumption, SMT DEF HandlerInv

LEMMA KeyStep ==
  ASSUME HandlerInv, NEW k, SendKey(k)
  PROVE  HandlerInv'
<1>1. /\ unlocked' \in BOOLEAN
      /\ seed' = seed /\ given' = given /\ holder' = holder
  BY Zenon DEF HandlerInv, SendKey
<1>2. \/ attempts' = 0 /\ wrong' = 0
      \/ /\ attempts' = (attempts + 1) % AttemptMod
         /\ wrong' = IF wrong = AttemptMod THEN wrong ELSE wrong + 1
  BY Zenon DEF SendKey
<1>3. /\ attempts' \in 0..AttemptMod - 1
      /\ wrong' \in 0..AttemptMod
      /\ wrong' < AttemptMod => attempts' = wrong'
  <2>1. wrong \in 0..AttemptMod /\ AttemptMod \in Nat /\ AttemptMod > 3
    BY ConstantsAssumption DEF HandlerInv
  <2> QED
    BY <1>2, <2>1, CountUp, SMT
<1> QED
  BY <1>1, <1>3 DEF HandlerInv

LEMMA SeedStep ==
  ASSUME HandlerInv, NEW c \in Client, RequestSeed(c)
  PROVE  HandlerInv'
  BY ConstantsAssumption DEF HandlerInv, RequestSeed, uds, ghost

LEMMA ProcessStep ==
  ASSUME HandlerInv, NEW c \in Client, Process(c)
  PROVE  HandlerInv'
<1> DEFINE m == request[c]
<1>1. CASE m[1] = "default_session"
  BY <1>1 DEF Process, DefaultSession, HandlerInv, ghost
<1>2. CASE m[1] = "seed"
  BY <1>2, SeedStep DEF Process
<1>3. CASE m[1] = "key"
  BY <1>3, KeyStep DEF Process
<1>4. CASE m[1] \notin {"default_session", "seed", "key"}
  BY <1>4 DEF Process, OtherService, HandlerInv, uds, ghost
<1> QED
  BY <1>1, <1>2, <1>3, <1>4

LEMMA HandlerStep == HandlerInv /\ [Next]_vars => HandlerInv'
<1> SUFFICES ASSUME HandlerInv, [Next]_vars PROVE HandlerInv'
  OBVIOUS
<1>1. ASSUME NEW c \in Client, Call(c) PROVE HandlerInv'
  BY <1>1, ProcessStep DEF Call
<1>2. CASE UNCHANGED <<uds, ghost>>
  BY <1>2 DEF HandlerInv, uds, ghost
<1>3. ASSUME NEW c \in Client,
             \/ \E m \in Message : Receive(c, m)
             \/ SendAck(c) \/ Lock(c) \/ SendReply(c) \/ Read(c)
      PROVE  UNCHANGED <<uds, ghost>>
  BY <1>3 DEF Receive, SendAck, Lock, SendReply, Read
<1>4. UNCHANGED vars => UNCHANGED <<uds, ghost>>
  BY DEF vars
<1> QED
  BY <1>1, <1>2, <1>3, <1>4 DEF Next

LEMMA HandlerAlways == Spec => []HandlerInv
  BY InitHandler, HandlerStep, PTL DEF Spec

\* A right key is refused only when another client has been given a seed since
\* (handleSecurityAccess): for any number of clients and seeds.
THEOREM KeysHonoured == Spec => []KeyRefusedOnlyAfterInterference
<1>1. HandlerInv => KeyRefusedOnlyAfterInterference
  BY ConstantsAssumption DEF HandlerInv, KeyRefusedOnlyAfterInterference, RightKey
<1> QED
  BY <1>1, HandlerAlways, PTL

\* Between the limit and the wrap of the counter no seed is given, for any
\* width of the counter.
THEOREM SeedLimit == Spec => SeedsStopAtLimit
<1> DEFINE A == wrong \notin MaxAttempts..AttemptMod - 1 \/ UNCHANGED given
<1>1. HandlerInv /\ [Next]_vars => [A]_vars
  <2> SUFFICES ASSUME HandlerInv, [Next]_vars, wrong \in MaxAttempts..AttemptMod - 1
               PROVE  UNCHANGED given
    BY DEF vars
  <2>0. attempts >= MaxAttempts
    BY ConstantsAssumption DEF HandlerInv, MaxAttempts
  <2>1. ASSUME NEW c \in Client, Call(c) PROVE UNCHANGED given
    BY <2>0, <2>1 DEF Call, Process, DefaultSession, RequestSeed, SendKey,
                      OtherService, ghost
  <2>2. ASSUME NEW c \in Client,
               \/ \E m \in Message : Receive(c, m)
               \/ SendAck(c) \/ Lock(c) \/ SendReply(c) \/ Read(c)
        PROVE  UNCHANGED given
    BY <2>2 DEF Receive, SendAck, Lock, SendReply, Read, ghost
  <2> QED
    BY <2>1, <2>2 DEF Next, vars, ghost
<1>2. SeedsStopAtLimit <=> [][A]_vars
  BY DEF SeedsStopAtLimit
<1> QED
  BY <1>1, <1>2, HandlerAlways, PTL DEF Spec

-----------------------------------------------------------------------------
(* The streams.                                                            *)

\* Appending to the stream moves the boundary between sent and unsent by one.
LEMMA AppendMoves ==
  ASSUME NEW o \in Seq(Text), NEW u \in Seq(Text), NEW a \in Text
  PROVE  o \o (<<a>> \o u) = Append(o, a) \o u
<1>1. <<a>> \in Seq(Text)
  BY SMT
<1> QED
  BY <1>1, AppendIsConcat, ConcatAssociative

\* Reading takes the first message of what is owed.
LEMMA TailOfConcat ==
  ASSUME NEW o \in Seq(Text), NEW u \in Seq(Text), o # <<>>
  PROVE  Tail(o \o u) = Tail(o) \o u
<1>1. /\ o \o u \in Seq(Text) /\ o \o u # <<>>
      /\ Len(o \o u) = Len(o) + Len(u) /\ Len(o) \in Nat \ {0} /\ Len(u) \in Nat
  BY ConcatProperties, EmptySeq, LenProperties, ConcatSimplifications
<1>2. /\ Tail(o \o u) \in Seq(Text) /\ Tail(o) \o u \in Seq(Text)
      /\ Len(Tail(o \o u)) = Len(o) + Len(u) - 1
      /\ Len(Tail(o) \o u) = Len(o) + Len(u) - 1
  BY <1>1, HeadTailProperties, ConcatProperties
<1>3. ASSUME NEW i \in 1..Len(o) + Len(u) - 1
      PROVE  Tail(o \o u)[i] = (Tail(o) \o u)[i]
  <2>1. Tail(o \o u)[i] = (o \o u)[i + 1]
    BY <1>1, <1>2, HeadTailProperties
  <2>2. (o \o u)[i + 1] = IF i + 1 <= Len(o) THEN o[i + 1] ELSE u[i + 1 - Len(o)]
    BY <1>1, ConcatProperties
  <2>3. /\ Tail(o) \in Seq(Text) /\ Len(Tail(o)) = Len(o) - 1
        /\ \A j \in 1..Len(Tail(o)) : Tail(o)[j] = o[j + 1]
    BY HeadTailProperties
  <2>4. (Tail(o) \o u)[i] = IF i <= Len(o) - 1 THEN Tail(o)[i] ELSE u[i - (Len(o) - 1)]
    BY <1>1, <2>3, ConcatProperties
  <2>5. i - (Len(o) - 1) = i + 1 - Len(o) /\ (i <= Len(o) - 1 <=> i + 1 <= Len(o))
    BY <1>1
  <2> QED
    BY <1>1, <2>1, <2>2, <2>3, <2>4, <2>5
<1> QED
  BY <1>2, <1>3, SeqEqual

\* The front of a concatenation is a prefix of it.
LEMMA FrontIsPrefix ==
  ASSUME NEW o \in Seq(Text), NEW u \in Seq(Text)
  PROVE  IsPrefix(o, o \o u)
<1>1. /\ Len(o) \in Nat /\ Len(u) \in Nat
      /\ o \o u \in Seq(Text) /\ Len(o \o u) = Len(o) + Len(u)
      /\ \A i \in 1..Len(o) : (o \o u)[i] = o[i]
  BY ConcatProperties, LenProperties
<1>2. \A i \in 1..Len(o) : o[i] \in Text
  BY ElementOfSeq
<1>3. /\ SubSeq(o \o u, 1, Len(o)) \in Seq(Text)
      /\ Len(SubSeq(o \o u, 1, Len(o))) = Len(o)
      /\ \A i \in 1..Len(o) : SubSeq(o \o u, 1, Len(o))[i] = o[i]
  BY <1>1, <1>2, SubSeqProperties
<1>4. SubSeq(o \o u, 1, Len(o)) = o
  BY <1>3, SeqEqual
<1> QED
  BY <1>1, <1>4, SubSeqFull DEF IsPrefix

\* Answers and what remains of them are sequences of messages.
LEMMA Texts ==
  /\ <<>> \in Seq(Text) /\ <<"ack", "response">> \in Seq(Text)
  /\ \A a \in Text : <<a>> \in Seq(Text)
  /\ <<"ack", "response">> = <<"ack">> \o <<"response">>
<1>1. <<>> \in Seq(Text) /\ \A a \in Text : <<a>> \in Seq(Text)
  BY EmptySeq
<1>2. <<"ack", "response">> \in Seq(Text)
  BY DEF Text
<1>3. /\ <<"ack">> \in Seq(Text) /\ <<"response">> \in Seq(Text)
      /\ Len(<<"ack">>) = 1 /\ Len(<<"response">>) = 1
  BY DEF Text
<1>4. <<"ack", "response">> = <<"ack">> \o <<"response">>
  <2>1. /\ <<"ack">> \o <<"response">> \in Seq(Text)
        /\ Len(<<"ack">> \o <<"response">>) = 2
        /\ (<<"ack">> \o <<"response">>)[1] = "ack"
        /\ (<<"ack">> \o <<"response">>)[2] = "response"
    BY <1>3, ConcatProperties
  <2>2. Len(<<"ack", "response">>) = 2
    OBVIOUS
  <2>3. \A j \in 1..2 : <<"ack", "response">>[j] = (<<"ack">> \o <<"response">>)[j]
    <3>1. 1..2 = {1, 2}
      OBVIOUS
    <3> QED
      BY <2>1, <3>1
  <2> QED
    BY <1>2, <2>1, <2>2, <2>3, SeqEqual
<1> QED
  BY <1>1, <1>2, <1>4

\* A diagnostic message is acknowledged and answered, another message has one
\* answer or none.
LEMMA AnswersKnown ==
  ASSUME NEW m \in Message
  PROVE  /\ m \in Uds => Answers(m) = <<"ack", "response">>
         /\ m \notin Uds => Answers(m) \in {<<>>, <<"plain">>}
         /\ <<"plain">> # <<>>
<1>1. m \in Uds => m[1] \in {"key", "default_session", "seed", "other"}
  BY DEF Uds
<1>2. m \notin Uds => m[1] \in Plain
  BY DEF Message
<1> QED
  BY <1>1, <1>2 DEF Answers, Plain

\* What is unsent is a sequence of messages.
LEMMA UnsentKnown ==
  ASSUME ThreadInv, NEW c \in Client
  PROVE  /\ Unsent(c) \in Seq(Text)
         /\ pc[c] = "recv" => Unsent(c) = <<>>
         /\ pc[c] = "send" => request[c][1] \in Text
<1>1. pc[c] = "send" => request[c][1] \in {"plain", "response"}
  BY DEF ThreadInv, Answer
<1>2. pc[c] = "recv" => Unsent(c) = <<>>
  BY DEF Unsent
<1>3. pc[c] = "ack" => Unsent(c) = <<"ack", "response">>
  BY DEF Unsent
<1>4. pc[c] \in {"lock", "uds"} => Unsent(c) = <<"response">>
  BY DEF Unsent
<1>5. pc[c] = "send" => Unsent(c) = <<request[c][1]>>
  BY DEF Unsent
<1>6. pc[c] \in {"recv", "ack", "lock", "uds", "send"} /\ "response" \in Text /\ "plain" \in Text
  BY DEF ThreadInv, Text
<1> QED
  BY <1>1, <1>2, <1>3, <1>4, <1>5, <1>6, Texts

-----------------------------------------------------------------------------
(* Steps of one connection.                                                *)

\* Nothing of a connection but c changes.
Others(c) ==
  \A d \in Client \ {c} :
    /\ pc'[d] = pc[d] /\ request'[d] = request[d]
    /\ outbox'[d] = outbox[d] /\ owed'[d] = owed[d]

StreamInv == ThreadInv /\ FlowInv

\* The invariant after a step of c follows from what the step does to c.
LEMMA OneConnection ==
  ASSUME StreamInv, NEW c \in Client, Others(c),
         NEW p \in {"recv", "ack", "lock", "uds", "send"},
         NEW r \in Message \cup {Idle, Answer("plain"), Answer("response")},
         NEW o \in Seq(Text), NEW w \in Seq(Text),
         pc' = [pc EXCEPT ![c] = p], request' = [request EXCEPT ![c] = r],
         outbox' = [outbox EXCEPT ![c] = o], owed' = [owed EXCEPT ![c] = w],
         mutex' \in Client \cup {None},
         p \in {"ack", "lock", "uds"} => r \in Uds,
         p = "send" => r \in {Answer("plain"), Answer("response")},
         Len(o) <= SendBuffer,
         w = o \o Unsent(c)'
  PROVE  StreamInv'
<1>1. ThreadInv'
  BY DEF StreamInv, ThreadInv
<1>2. \A d \in Client \ {c} : owed'[d] = outbox'[d] \o Unsent(d)'
  BY DEF StreamInv, FlowInv, Unsent, Others
<1>3. owed'[c] = outbox'[c] \o Unsent(c)'
  BY DEF StreamInv, ThreadInv
<1>4. FlowInv'
  BY <1>2, <1>3 DEF FlowInv
<1> QED
  BY <1>1, <1>4 DEF StreamInv

LEMMA ReceiveStep ==
  ASSUME StreamInv, NEW c \in Client, NEW m \in Message, Receive(c, m)
  PROVE  StreamInv'
<1> DEFINE o == outbox[c]
           w == owed[c] \o Answers(m)
           p == IF m \in Uds THEN "ack" ELSE IF Answers(m) # <<>> THEN "send" ELSE "recv"
           r == IF m \in Uds THEN m ELSE IF Answers(m) # <<>> THEN Answer("plain")
                                                             ELSE request[c]
<1>0. ThreadInv /\ FlowInv
  BY DEF StreamInv
<1>1. /\ o \in Seq(Text) /\ owed[c] \in Seq(Text) /\ Len(o) <= SendBuffer
      /\ request[c] \in Message \cup {Idle, Answer("plain"), Answer("response")}
      /\ pc[c] = "recv"
  BY <1>0 DEF ThreadInv, Receive
<1>2. owed[c] = o
  BY <1>0, <1>1, UnsentKnown, ConcatEmptySeq DEF FlowInv
<1>3. Answers(m) \in Seq(Text) /\ w \in Seq(Text)
  BY <1>1, AnswersKnown, Texts, ConcatProperties DEF Text
<1>4. /\ pc' = [pc EXCEPT ![c] = p] /\ request' = [request EXCEPT ![c] = r]
      /\ outbox' = [outbox EXCEPT ![c] = o] /\ owed' = [owed EXCEPT ![c] = w]
      /\ mutex' = mutex
  BY <1>0, <1>1 DEF Receive, ThreadInv
<1>5. Others(c)
  BY <1>0, <1>4 DEF Others, ThreadInv
<1>6. Unsent(c)' = Answers(m)
  <2>1. pc'[c] = p /\ request'[c] = r
    BY <1>0, <1>4 DEF ThreadInv
  <2>2. CASE m \in Uds
    BY <2>1, <2>2, AnswersKnown DEF Unsent
  <2>3. CASE m \notin Uds /\ Answers(m) = <<"plain">>
    BY <2>1, <2>3, AnswersKnown DEF Unsent, Answer
  <2>4. CASE m \notin Uds /\ Answers(m) = <<>>
    BY <2>1, <2>4, AnswersKnown DEF Unsent
  <2> QED
    BY <2>2, <2>3, <2>4, AnswersKnown
<1>7. /\ p \in {"recv", "ack", "lock", "uds", "send"}
      /\ r \in Message \cup {Idle, Answer("plain"), Answer("response")}
      /\ p \in {"ack", "lock", "uds"} => r \in Uds
      /\ p = "send" => r \in {Answer("plain"), Answer("response")}
  BY <1>1
<1>8. mutex' \in Client \cup {None}
  BY <1>0, <1>4 DEF ThreadInv
<1> HIDE DEF o, w, p, r
<1>9. w = o \o Unsent(c)'
  BY <1>2, <1>6 DEF w
<1> QED
  BY <1>1, <1>3, <1>4, <1>5, <1>7, <1>8, <1>9, OneConnection DEF o

LEMMA SendAckStep ==
  ASSUME StreamInv, NEW c \in Client, SendAck(c)
  PROVE  StreamInv'
<1> DEFINE o == Append(outbox[c], "ack")
<1>0. ThreadInv /\ FlowInv
  BY DEF StreamInv
<1>1. /\ outbox[c] \in Seq(Text) /\ owed[c] \in Seq(Text) /\ "ack" \in Text
      /\ request[c] \in Uds /\ Len(outbox[c]) < SendBuffer /\ pc[c] = "ack"
  BY <1>0 DEF ThreadInv, SendAck, CanSend, Text
<1>2. o \in Seq(Text) /\ Len(o) <= SendBuffer
  <2>1. o \in Seq(Text) /\ Len(o) = Len(outbox[c]) + 1 /\ Len(outbox[c]) \in Nat
    BY <1>1, AppendProperties, LenProperties
  <2> QED
    BY <1>1, <2>1, ConstantsAssumption
<1>3. /\ pc' = [pc EXCEPT ![c] = "lock"] /\ request' = [request EXCEPT ![c] = request[c]]
      /\ outbox' = [outbox EXCEPT ![c] = o] /\ owed' = [owed EXCEPT ![c] = owed[c]]
      /\ mutex' \in Client \cup {None}
  BY <1>0 DEF SendAck, Put, ThreadInv
<1>4. Others(c)
  BY <1>0, <1>3 DEF Others, ThreadInv
<1>5. owed[c] = o \o Unsent(c)'
  <2>1. Unsent(c) = <<"ack">> \o <<"response">>
    BY <1>1, Texts DEF Unsent
  <2>2. pc'[c] = "lock"
    BY <1>0, <1>3 DEF ThreadInv
  <2>3. Unsent(c)' = <<"response">> /\ <<"response">> \in Seq(Text)
    BY <2>2, Texts DEF Unsent, Text
  <2>4. owed[c] = outbox[c] \o Unsent(c)
    BY <1>0 DEF FlowInv
  <2>5. outbox[c] \o (<<"ack">> \o <<"response">>) = o \o <<"response">>
    BY <1>1, <2>3, AppendMoves
  <2> QED
    BY <2>1, <2>3, <2>4, <2>5
<1>6. request[c] \in Message
  BY <1>1 DEF Message
<1> HIDE DEF o
<1> QED
  BY <1>1, <1>2, <1>3, <1>4, <1>5, <1>6, OneConnection

LEMMA LockStep ==
  ASSUME StreamInv, NEW c \in Client, Lock(c)
  PROVE  StreamInv'
<1>0. ThreadInv /\ FlowInv
  BY DEF StreamInv
<1>1. /\ outbox[c] \in Seq(Text) /\ owed[c] \in Seq(Text)
      /\ request[c] \in Uds /\ Len(outbox[c]) <= SendBuffer /\ pc[c] = "lock"
  BY <1>0 DEF ThreadInv, Lock
<1>2. /\ pc' = [pc EXCEPT ![c] = "uds"] /\ request' = [request EXCEPT ![c] = request[c]]
      /\ outbox' = [outbox EXCEPT ![c] = outbox[c]] /\ owed' = [owed EXCEPT ![c] = owed[c]]
      /\ mutex' \in Client \cup {None}
  BY <1>0 DEF Lock, net, ThreadInv
<1>3. Others(c) /\ pc'[c] = "uds"
  BY <1>0, <1>2 DEF Others, ThreadInv
<1>4. owed[c] = outbox[c] \o Unsent(c)'
  <2>1. Unsent(c) = <<"response">> /\ Unsent(c)' = <<"response">>
    BY <1>1, <1>3 DEF Unsent
  <2> QED
    BY <1>0, <2>1 DEF FlowInv
<1>5. request[c] \in Message
  BY <1>1 DEF Message
<1> QED
  BY <1>1, <1>2, <1>3, <1>4, <1>5, OneConnection

LEMMA CallStep ==
  ASSUME StreamInv, NEW c \in Client, Call(c)
  PROVE  StreamInv'
<1>0. ThreadInv /\ FlowInv
  BY DEF StreamInv
<1>1. /\ outbox[c] \in Seq(Text) /\ owed[c] \in Seq(Text)
      /\ Len(outbox[c]) <= SendBuffer /\ pc[c] = "uds"
  BY <1>0 DEF ThreadInv, Call
<1>2. /\ pc' = [pc EXCEPT ![c] = "send"]
      /\ request' = [request EXCEPT ![c] = Answer("response")]
      /\ outbox' = [outbox EXCEPT ![c] = outbox[c]] /\ owed' = [owed EXCEPT ![c] = owed[c]]
      /\ mutex' \in Client \cup {None}
  BY <1>0 DEF Call, net, ThreadInv
<1>3. Others(c) /\ pc'[c] = "send" /\ request'[c] = Answer("response")
  BY <1>0, <1>2 DEF Others, ThreadInv
<1>4. owed[c] = outbox[c] \o Unsent(c)'
  <2>1. Unsent(c) = <<"response">>
    BY <1>1 DEF Unsent
  <2>2. Unsent(c)' = <<"response">>
    BY <1>3 DEF Unsent, Answer
  <2> QED
    BY <1>0, <2>1, <2>2 DEF FlowInv
<1> QED
  BY <1>1, <1>2, <1>3, <1>4, OneConnection

LEMMA SendReplyStep ==
  ASSUME StreamInv, NEW c \in Client, SendReply(c)
  PROVE  StreamInv'
<1> DEFINE o == Append(outbox[c], request[c][1])
<1>0. ThreadInv /\ FlowInv
  BY DEF StreamInv
<1>1. /\ outbox[c] \in Seq(Text) /\ owed[c] \in Seq(Text)
      /\ Len(outbox[c]) < SendBuffer /\ pc[c] = "send"
  BY <1>0 DEF ThreadInv, SendReply, CanSend
<1>2. request[c][1] \in Text
  BY <1>0, <1>1, UnsentKnown
<1>3. o \in Seq(Text) /\ Len(o) <= SendBuffer
  <2>1. o \in Seq(Text) /\ Len(o) = Len(outbox[c]) + 1 /\ Len(outbox[c]) \in Nat
    BY <1>1, <1>2, AppendProperties, LenProperties
  <2> QED
    BY <1>1, <2>1, ConstantsAssumption
<1>4. /\ pc' = [pc EXCEPT ![c] = "recv"] /\ request' = [request EXCEPT ![c] = Idle]
      /\ outbox' = [outbox EXCEPT ![c] = o] /\ owed' = [owed EXCEPT ![c] = owed[c]]
      /\ mutex' \in Client \cup {None}
  BY <1>0 DEF SendReply, Put, ThreadInv
<1>5. Others(c) /\ pc'[c] = "recv"
  BY <1>0, <1>4 DEF Others, ThreadInv
<1>6. owed[c] = o \o Unsent(c)'
  <2>1. owed[c] = outbox[c] \o <<request[c][1]>>
    BY <1>0, <1>1 DEF FlowInv, Unsent
  <2>2. outbox[c] \o <<request[c][1]>> = o
    BY <1>1, <1>2, AppendIsConcat
  <2>3. Unsent(c)' = <<>>
    BY <1>5 DEF Unsent
  <2> QED
    BY <1>3, <2>1, <2>2, <2>3, ConcatEmptySeq
<1> HIDE DEF o
<1> QED
  BY <1>1, <1>3, <1>4, <1>5, <1>6, OneConnection

LEMMA ReadStep ==
  ASSUME StreamInv, NEW c \in Client, Read(c)
  PROVE  StreamInv'
<1>0. ThreadInv /\ FlowInv
  BY DEF StreamInv
<1>1. /\ outbox[c] \in Seq(Text) /\ owed[c] \in Seq(Text)
      /\ Len(outbox[c]) <= SendBuffer /\ outbox[c] # <<>>
  BY <1>0 DEF ThreadInv, Read
<1>2. /\ owed[c] = outbox[c] \o Unsent(c) /\ Unsent(c) \in Seq(Text)
  BY <1>0, UnsentKnown DEF FlowInv
<1>3. Tail(owed[c]) = Tail(outbox[c]) \o Unsent(c)
  BY <1>1, <1>2, TailOfConcat
<1>4. /\ Tail(outbox[c]) \in Seq(Text) /\ Tail(owed[c]) \in Seq(Text)
      /\ Len(Tail(outbox[c])) <= SendBuffer
  <2>1. /\ Tail(outbox[c]) \in Seq(Text)
        /\ Len(Tail(outbox[c])) = Len(outbox[c]) - 1 /\ Len(outbox[c]) \in Nat
    BY <1>1, HeadTailProperties, LenProperties
  <2> QED
    BY <1>1, <1>2, <1>3, <2>1, ConcatProperties, ConstantsAssumption
<1>5. /\ pc' = [pc EXCEPT ![c] = pc[c]] /\ request' = [request EXCEPT ![c] = request[c]]
      /\ outbox' = [outbox EXCEPT ![c] = Tail(outbox[c])]
      /\ owed' = [owed EXCEPT ![c] = Tail(owed[c])]
      /\ mutex' \in Client \cup {None}
  BY <1>0 DEF Read, thread, ThreadInv
<1>6. Others(c) /\ Unsent(c)' = Unsent(c)
  BY <1>0, <1>5 DEF Others, ThreadInv, Unsent
<1>7. /\ pc[c] \in {"recv", "ack", "lock", "uds", "send"}
      /\ request[c] \in Message \cup {Idle, Answer("plain"), Answer("response")}
      /\ pc[c] \in {"ack", "lock", "uds"} => request[c] \in Uds
      /\ pc[c] = "send" => request[c] \in {Answer("plain"), Answer("response")}
  BY <1>0 DEF ThreadInv
<1> QED
  BY <1>3, <1>4, <1>5, <1>6, <1>7, OneConnection

LEMMA InitStream == Init => StreamInv
<1> SUFFICES ASSUME Init PROVE StreamInv
  OBVIOUS
<1>1. ThreadInv
  BY ConstantsAssumption, EmptySeq DEF Init, ThreadInv
<1>2. FlowInv
  BY EmptySeq, ConcatEmptySeq DEF Init, FlowInv, Unsent
<1> QED
  BY <1>1, <1>2 DEF StreamInv

LEMMA StreamStep == StreamInv /\ [Next]_vars => StreamInv'
<1> SUFFICES ASSUME StreamInv, [Next]_vars PROVE StreamInv'
  OBVIOUS
<1>1. CASE UNCHANGED vars
  BY <1>1 DEF vars, thread, net, StreamInv, ThreadInv, FlowInv, Unsent
<1>2. CASE Next
  BY <1>2, ReceiveStep, SendAckStep, LockStep, CallStep, SendReplyStep, ReadStep DEF Next
<1> QED
  BY <1>1, <1>2

\* What a client finds on its connection is the answers to its own requests, in
\* order, an acknowledgement before each response (handleDiagnosticMessage):
\* for any number of clients that share the handler.
THEOREM Ordered == Spec => []AnswersInOrder
<1>1. Spec => []StreamInv
  BY InitStream, StreamStep, PTL DEF Spec
<1>2. StreamInv /\ HandlerInv => AnswersInOrder
  <2> SUFFICES ASSUME StreamInv, HandlerInv PROVE AnswersInOrder
    OBVIOUS
  <2>1. TypeOK
    BY DEF StreamInv, ThreadInv, HandlerInv, TypeOK
  <2>2. ASSUME NEW c \in Client PROVE IsPrefix(outbox[c], owed[c])
    <3>1. /\ outbox[c] \in Seq(Text) /\ Unsent(c) \in Seq(Text)
          /\ owed[c] = outbox[c] \o Unsent(c)
      BY UnsentKnown DEF StreamInv, ThreadInv, FlowInv
    <3> QED
      BY <3>1, FrontIsPrefix
  <2> QED
    BY <2>1, <2>2 DEF AnswersInOrder
<1> QED
  BY <1>1, <1>2, HandlerAlways, PTL
=============================================================================
