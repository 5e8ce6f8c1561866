-------------------------- MODULE DoIPServerProofs --------------------------
(***************************************************************************)
(* Proofs about the threads of the DoIP server, for any number of clients  *)
(* and descriptors: the session table stays exact although descriptor      *)
(* numbers are reused, and stop() leaves nothing behind.                   *)
(***************************************************************************)
EXTENDS DoIPServer, NumberLemmas, TLAPS

-----------------------------------------------------------------------------
(* The invariant.                                                          *)

\* Who holds a session follows from where the threads are.
RefsInv ==
  \A c \in Client :
    /\ "accept" \in refs[c] <=> current = c
    /\ "handler" \in refs[c] <=> handler[c] \in {"check", "recv", "erase", "release"}
    /\ "table" \in refs[c] <=> Served(c) \/ (tcp_pc = "spawn" /\ current = c)

\* The accept thread sets up a connection that has no handler yet.
CurrentInv ==
  /\ current # None <=> tcp_pc \in {"register", "spawn", "drop"}
  /\ tcp_pc \in {"register", "spawn"} => handler[current] = "none"

\* A connection that waits in the kernel, or a client without one, has neither a
\* handler nor the accept thread.
BacklogInv ==
  \A c \in Client : c \in backlog \/ client[c] = "idle" =>
    /\ handler[c] = "none" /\ current # c
    /\ ~(c \in backlog /\ client[c] = "idle")

\* The table and the references it holds.
SessionsInv ==
  /\ \A c \in Client : "table" \in refs[c] =>
       socket[c] \in DOMAIN sessions /\ sessions[socket[c]] = c
  /\ \A f \in DOMAIN sessions :
       "table" \in refs[sessions[f]] /\ socket[sessions[f]] = f

\* Every session that somebody holds has a descriptor of its own, and the
\* descriptors that are open are theirs.
OpenInv ==
  /\ \A c, d \in Client :
       refs[c] # {} /\ refs[d] # {} /\ socket[c] = socket[d] => c = d
  /\ \A c \in Client : refs[c] # {} => socket[c] \in open
  /\ \A f \in open : \E c \in Client : refs[c] # {} /\ socket[c] = f

\* What stop() has waited for, nobody starts again.
StopInv ==
  /\ stop_pc \notin {"serving", "close"} => ~listening
  /\ stop_pc # "serving" => ~running
  /\ stop_pc \in {"join_tcp", "join_clients", "clear", "stopped"} => udp_pc = "exited"
  /\ stop_pc \in {"join_clients", "clear", "stopped"} => tcp_pc = "exited"
  /\ stop_pc \in {"clear", "stopped"} =>
       \A c \in Client : handler[c] \in {"none", "exited"}

CoreInv == RefsInv /\ CurrentInv /\ BacklogInv /\ SessionsInv /\ OpenInv

ServerInv == TypeOK /\ CoreInv /\ StopInv

-----------------------------------------------------------------------------
(* Helpers of the server.                                                  *)

\* accept() returns a descriptor that was free.
LEMMA LowestFree ==
  ASSUME open \subseteq Fd, Fd \ open # {}
  PROVE  Min(Fd \ open) \in Fd \ open
<1>1. Fd \ open \subseteq Nat
  BY ConstantsAssumption DEF Fd
<1> DEFINE S == Fd \ open
<1>2. \E m \in S : \A x \in S : m <= x
  <2> HIDE DEF S
  <2>1. S \subseteq Nat /\ S # {}
    BY <1>1 DEF S
  <2> QED
    BY <2>1, LeastNumber
<1> HIDE DEF S
<1>3. Min(S) \in S
  BY <1>2 DEF Min
<1> QED
  BY <1>3 DEF S

\* The handler erases its own session, whatever the number was used for before.
LEMMA EraseIsOwn ==
  ASSUME ServerInv, NEW c \in Client, HandlerErase(c)
  PROVE  /\ socket[c] \in DOMAIN sessions /\ sessions[socket[c]] = c
         /\ sessions' = Without(socket[c])
         /\ Drop(c, {"table"})
  BY DEF ServerInv, CoreInv, RefsInv, SessionsInv, Served, HandlerErase

LEMMA AcceptTakesFree ==
  ASSUME ServerInv, NEW c \in Client, TcpAccept(c)
  PROVE  \E f \in Fd \ open : /\ socket' = [socket EXCEPT ![c] = f]
                               /\ open' = open \cup {f}
<1> DEFINE f == Min(Fd \ open)
<1>1. f \in Fd \ open
  BY LowestFree DEF ServerInv, TypeOK, TcpAccept
<1>2. socket' = [socket EXCEPT ![c] = f] /\ open' = open \cup {f}
  BY Zenon DEF TcpAccept
<1> HIDE DEF f
<1> QED
  BY <1>1, <1>2

\* The session is stored under its number, which no other session is stored under.
LEMMA RegisterIsNew ==
  ASSUME ServerInv, TcpRegister
  PROVE  /\ current \in Client /\ socket[current] \in Fd \ DOMAIN sessions
         /\ DOMAIN sessions' = DOMAIN sessions \cup {socket[current]}
         /\ sessions'[socket[current]] = current
         /\ \A g \in DOMAIN sessions : sessions'[g] = sessions[g]
         /\ sessions' \in [DOMAIN sessions' -> Client]
         /\ refs' = [refs EXCEPT ![current] = @ \cup {"table"}]
<1> USE DEF ServerInv, CoreInv
<1>1. current \in Client /\ current # None
  BY DEF TcpRegister, CurrentInv, TypeOK
<1>2. "accept" \in refs[current] /\ "table" \notin refs[current]
  BY <1>1 DEF RefsInv, TcpRegister, Served, CurrentInv
<1>3. socket[current] \in open /\ socket[current] \in Fd
  BY <1>1, <1>2 DEF OpenInv, TypeOK
<1>4. socket[current] \notin DOMAIN sessions
  <2> SUFFICES ASSUME socket[current] \in DOMAIN sessions PROVE FALSE
    OBVIOUS
  <2> DEFINE d == sessions[socket[current]]
  <2>1. d \in Client /\ "table" \in refs[d] /\ socket[d] = socket[current]
    BY DEF TypeOK, SessionsInv
  <2>2. d = current
    BY <1>1, <1>2, <2>1 DEF OpenInv
  <2> QED
    BY <1>2, <2>1, <2>2
<1>5. sessions' = [g \in DOMAIN sessions \cup {socket[current]} |->
                     IF g = socket[current] THEN current ELSE sessions[g]]
  BY Zenon DEF TcpRegister
<1>6. refs' = [c \in Client |-> IF c = current THEN refs[c] \cup {"table"} ELSE refs[c]]
  BY <1>4 DEF TcpRegister
<1>7. refs' = [refs EXCEPT ![current] = @ \cup {"table"}]
  BY <1>1, <1>6 DEF TypeOK
<1>8. \A g \in DOMAIN sessions : sessions[g] \in Client
  BY DEF TypeOK
<1> QED
  BY <1>1, <1>3, <1>4, <1>5, <1>7, <1>8

-----------------------------------------------------------------------------
(* Types.                                                                  *)

LEMMA TypesStep == ServerInv /\ [Next]_vars => TypeOK'
<1> SUFFICES ASSUME ServerInv, [Next]_vars PROVE TypeOK'
  OBVIOUS
<1>0. TypeOK
  BY DEF ServerInv
<1> USE <1>0, ConstantsAssumption DEF TypeOK, server, threads, table, net
<1>1. CASE StopBegin
  BY <1>1 DEF StopBegin, Advance
<1>2. CASE StopClose
  BY <1>2 DEF StopClose, Advance
<1>3. CASE StopJoinUdp
  BY <1>3 DEF StopJoinUdp, Advance
<1>4. CASE StopJoinTcp
  BY <1>4 DEF StopJoinTcp, Advance
<1>5. CASE StopJoinClients
  BY <1>5 DEF StopJoinClients, Advance
<1>6. CASE StopClear
  <2>1. DOMAIN sessions' = {} /\ sessions' \in [DOMAIN sessions' -> Client]
    BY <1>6 DEF StopClear
  <2>2. refs' \in [Client -> SUBSET Holder]
    BY <1>6 DEF StopClear
  <2>3. open' \subseteq open
    <3>1. \A d \in Client : refs'[d] # {} => socket[d] \in open
      BY <1>6 DEF StopClear, ServerInv, CoreInv, OpenInv
    <3>2. open' = {socket[d] : d \in {e \in Client : refs'[e] # {}}}
      BY <1>6, Zenon DEF StopClear
    <3> QED
      BY <3>1, <3>2
  <2> QED
    BY <1>6, <2>1, <2>2, <2>3 DEF StopClear, Advance
<1>7. CASE TcpCheck
  BY <1>7 DEF TcpCheck
<1>8. CASE TcpCall
  BY <1>8 DEF TcpCall
<1>9. CASE TcpRegister
  <2>1. DOMAIN sessions' \subseteq Fd
    BY <1>9, RegisterIsNew
  <2> QED
    BY <1>9, <2>1, RegisterIsNew DEF TcpRegister, Holder
<1>10. CASE TcpSpawn
  BY <1>10 DEF TcpSpawn, Holder
<1>11. CASE TcpDrop
  BY <1>11 DEF TcpDrop, Drop
<1>12. CASE TcpAcceptError
  BY <1>12 DEF TcpAcceptError
<1>13. CASE TcpWoken
  BY <1>13 DEF TcpWoken
<1>14. CASE UdpCheck
  BY <1>14 DEF UdpCheck
<1>15. CASE UdpReceive
  BY <1>15 DEF UdpReceive
<1>16. CASE UdpWoken
  BY <1>16 DEF UdpWoken
<1>17. ASSUME NEW c \in Client, TcpAccept(c) PROVE TypeOK'
  <2>1. PICK f \in Fd \ open : /\ socket' = [socket EXCEPT ![c] = f]
                                /\ open' = open \cup {f}
    BY <1>17, AcceptTakesFree
  <2>2. socket' \in [Client -> 0..NumFd] /\ open' \subseteq Fd
    BY <2>1 DEF Fd
  <2>3. /\ UNCHANGED <<server, udp_pc, handler, sessions, client, inbox>>
        /\ tcp_pc' = "register" /\ current' = c /\ backlog' = backlog \ {c}
        /\ refs' = [refs EXCEPT ![c] = {"accept"}]
    BY <1>17, Zenon DEF TcpAccept
  <2> QED
    BY <2>2, <2>3 DEF Holder
<1>18. ASSUME NEW c \in Client, HandlerCheck(c) PROVE TypeOK'
  BY <1>18 DEF HandlerCheck
<1>19. ASSUME NEW c \in Client, HandlerMessage(c) PROVE TypeOK'
  BY <1>19 DEF HandlerMessage
<1>20. ASSUME NEW c \in Client, HandlerHangup(c) PROVE TypeOK'
  BY <1>20 DEF HandlerHangup
<1>21. ASSUME NEW c \in Client, HandlerErase(c) PROVE TypeOK'
  BY <1>21, EraseIsOwn DEF HandlerErase, Drop, Without
<1>22. ASSUME NEW c \in Client, HandlerRelease(c) PROVE TypeOK'
  BY <1>22 DEF HandlerRelease, Drop
<1>23. ASSUME NEW c \in Client, Connect(c) PROVE TypeOK'
  BY <1>23 DEF Connect
<1>24. ASSUME NEW c \in Client, Send(c) PROVE TypeOK'
  BY <1>24 DEF Send
<1>25. ASSUME NEW c \in Client, HangUp(c) PROVE TypeOK'
  BY <1>25 DEF HangUp
<1>26. ASSUME NEW c \in Client, Return(c) PROVE TypeOK'
  BY <1>26 DEF Return
<1>27. CASE UNCHANGED vars
  BY <1>27 DEF vars
<1> QED
  BY <1>1, <1>2, <1>3, <1>4, <1>5, <1>6, <1>7, <1>8, <1>9, <1>10, <1>11, <1>12,
     <1>13, <1>14, <1>15, <1>16, <1>17, <1>18, <1>19, <1>20, <1>21, <1>22, <1>23,
     <1>24, <1>25, <1>26, <1>27
  DEF Next, StopRest, TcpThread, HandlerThread

-----------------------------------------------------------------------------
(* What each step does to the sessions.                                    *)

\* Steps of the accept thread around its call, and those of stop() and of the UDP
\* thread, touch no session.
LEMMA QuietStep ==
  ASSUME ServerInv, UNCHANGED <<current, handler, table, backlog, client>>,
         \/ UNCHANGED tcp_pc
         \/ /\ tcp_pc \in {"check", "call", "accept"}
            /\ tcp_pc' \in {"check", "call", "accept", "exited"}
  PROVE  CoreInv'
<1> USE DEF ServerInv, CoreInv, table
<1>1. RefsInv' /\ CurrentInv'
  BY DEF RefsInv, CurrentInv, Served
<1>2. BacklogInv'
  BY Zenon DEF BacklogInv
<1>3. SessionsInv' /\ OpenInv'
  BY Zenon DEF SessionsInv, OpenInv
<1> QED
  BY <1>1, <1>2, <1>3

\* A handler that goes on serving keeps its references.
LEMMA ServeStep ==
  ASSUME ServerInv, NEW c \in Client, UNCHANGED <<tcp_pc, current, table, backlog, client>>,
         handler[c] \in {"check", "recv"}, NEW p \in {"check", "recv", "erase"},
         handler' = [handler EXCEPT ![c] = p]
  PROVE  CoreInv'
<1> USE DEF ServerInv, CoreInv, table
<1>1. RefsInv'
  BY DEF RefsInv, Served, TypeOK
<1>2. CurrentInv'
  BY DEF CurrentInv, TypeOK
<1>3. BacklogInv'
  BY DEF BacklogInv, TypeOK
<1>4. SessionsInv' /\ OpenInv'
  BY Zenon DEF SessionsInv, OpenInv
<1> QED
  BY <1>1, <1>2, <1>3, <1>4

\* A client connects when nothing of its last connection is left.
LEMMA ClientStep ==
  ASSUME ServerInv, NEW c \in Client, Connect(c) \/ HangUp(c)
  PROVE  CoreInv'
<1> USE DEF ServerInv, CoreInv, server, threads, table
<1>1. UNCHANGED <<tcp_pc, current, handler, refs, socket, sessions, open>>
  BY Zenon DEF Connect, HangUp
<1>2. RefsInv' /\ CurrentInv' /\ SessionsInv' /\ OpenInv'
  BY <1>1, Zenon DEF RefsInv, CurrentInv, SessionsInv, OpenInv, Served
<1>3. BacklogInv'
  BY <1>1 DEF BacklogInv, Connect, HangUp, TypeOK
<1> QED
  BY <1>2, <1>3

\* The number of a new connection is nobody else's.
LEMMA AcceptStep ==
  ASSUME ServerInv, NEW c \in Client, TcpAccept(c)
  PROVE  CoreInv'
<1> USE DEF ServerInv, CoreInv
<1>1. PICK f \in Fd \ open : /\ socket' = [socket EXCEPT ![c] = f]
                              /\ open' = open \cup {f}
  BY AcceptTakesFree
<1>2. /\ tcp_pc = "accept" /\ tcp_pc' = "register" /\ c \in backlog
      /\ current' = c /\ refs' = [refs EXCEPT ![c] = {"accept"}]
      /\ backlog' = backlog \ {c}
      /\ UNCHANGED <<handler, sessions, client>>
  BY Zenon DEF TcpAccept
<1>3. current = None /\ handler[c] = "none" /\ refs[c] = {}
  BY <1>2 DEF CurrentInv, BacklogInv, RefsInv, TypeOK, Served, Holder
<1>4. c # None /\ None \notin Client
  BY ConstantsAssumption
<1>5. RefsInv'
  BY <1>2, <1>3, <1>4 DEF RefsInv, Served, TypeOK
<1>6. CurrentInv'
  BY <1>2, <1>3, <1>4 DEF CurrentInv
<1>7. BacklogInv'
  BY <1>2 DEF BacklogInv
<1>8. SessionsInv'
  BY <1>1, <1>2, <1>3 DEF SessionsInv, TypeOK
<1>9. OpenInv'
  BY <1>1, <1>2, <1>3, SMTT(30) DEF OpenInv, TypeOK
<1> QED
  BY <1>5, <1>6, <1>7, <1>8, <1>9

LEMMA RegisterStep ==
  ASSUME ServerInv, TcpRegister
  PROVE  CoreInv'
<1> USE DEF ServerInv, CoreInv
<1>1. /\ tcp_pc = "register" /\ tcp_pc' = "spawn"
      /\ UNCHANGED <<current, handler, socket, open, backlog, client>>
  BY Zenon DEF TcpRegister, net
<1>2. RefsInv'
  BY <1>1, RegisterIsNew DEF RefsInv, CurrentInv, Served, TypeOK
<1>3. CurrentInv' /\ BacklogInv'
  BY <1>1, Zenon DEF CurrentInv, BacklogInv
<1>4. SessionsInv'
  BY <1>1, RegisterIsNew DEF SessionsInv, TypeOK
<1>5. OpenInv'
  <2>1. \A d \in Client : refs'[d] # {} <=> refs[d] # {}
    BY <1>1, RegisterIsNew DEF RefsInv, TypeOK
  <2> QED
    BY <1>1, <2>1, Zenon DEF OpenInv
<1> QED
  BY <1>2, <1>3, <1>4, <1>5

LEMMA SpawnStep ==
  ASSUME ServerInv, TcpSpawn
  PROVE  CoreInv'
<1> USE DEF ServerInv, CoreInv
<1>1. /\ tcp_pc = "spawn" /\ tcp_pc' = "drop" /\ current \in Client
      /\ handler' = [handler EXCEPT ![current] = "check"]
      /\ refs' = [refs EXCEPT ![current] = @ \cup {"handler"}]
      /\ UNCHANGED <<current, sessions, socket, open, backlog, client>>
  BY DEF TcpSpawn, net, CurrentInv, TypeOK
<1>2. RefsInv'
  BY <1>1 DEF RefsInv, CurrentInv, Served, TypeOK
<1>3. CurrentInv'
  BY <1>1 DEF CurrentInv
<1>4. BacklogInv'
  BY <1>1 DEF BacklogInv, TypeOK
<1>5. SessionsInv'
  BY <1>1 DEF SessionsInv, TypeOK
<1>6. OpenInv'
  <2>1. \A d \in Client : refs'[d] # {} <=> refs[d] # {}
    BY <1>1 DEF RefsInv, TypeOK
  <2> QED
    BY <1>1, <2>1, Zenon DEF OpenInv
<1> QED
  BY <1>2, <1>3, <1>4, <1>5, <1>6

\* A descriptor is closed exactly when nobody holds its session any more.
LEMMA DropKeepsOpen ==
  ASSUME ServerInv, NEW c \in Client, NEW who, Drop(c, who), UNCHANGED socket,
         refs[c] # {}
  PROVE  OpenInv'
<1> USE DEF ServerInv, CoreInv
<1>1. \A d \in Client : refs'[d] = IF d = c THEN refs[c] \ who ELSE refs[d]
  BY DEF Drop, TypeOK
<1>2. CASE refs[c] \subseteq who
  <2>1. refs'[c] = {} /\ open' = open \ {socket[c]}
    BY <1>1, <1>2 DEF Drop
  <2> QED
    BY <1>1, <2>1 DEF OpenInv
<1>3. CASE ~(refs[c] \subseteq who)
  <2>1. refs'[c] # {} /\ open' = open
    BY <1>1, <1>3 DEF Drop
  <2>2. \A d \in Client : refs'[d] # {} <=> refs[d] # {}
    BY <1>1, <2>1
  <2> QED
    BY <2>1, <2>2, Zenon DEF OpenInv
<1> QED
  BY <1>2, <1>3

LEMMA DropStep ==
  ASSUME ServerInv, TcpDrop
  PROVE  CoreInv'
<1> USE DEF ServerInv, CoreInv
<1>1. /\ tcp_pc = "drop" /\ tcp_pc' = "check" /\ current \in Client
      /\ current' = None /\ Drop(current, {"accept"})
      /\ UNCHANGED <<handler, sessions, socket, backlog, client>>
  BY DEF TcpDrop, net, CurrentInv, TypeOK
<1>2. refs' = [refs EXCEPT ![current] = @ \ {"accept"}] /\ None \notin Client
  BY <1>1, ConstantsAssumption DEF Drop
<1>3. RefsInv'
  BY <1>1, <1>2 DEF RefsInv, Served, TypeOK
<1>4. CurrentInv' /\ BacklogInv'
  BY <1>1, <1>2 DEF CurrentInv, BacklogInv
<1>5. SessionsInv'
  BY <1>1, <1>2 DEF SessionsInv, TypeOK
<1>6. OpenInv'
  BY <1>1, DropKeepsOpen DEF RefsInv
<1> QED
  BY <1>3, <1>4, <1>5, <1>6

LEMMA EraseStep ==
  ASSUME ServerInv, NEW c \in Client, HandlerErase(c)
  PROVE  CoreInv'
<1> USE DEF ServerInv, CoreInv
<1>1. /\ handler[c] = "erase" /\ handler' = [handler EXCEPT ![c] = "release"]
      /\ UNCHANGED <<tcp_pc, current, socket, backlog, client>>
  BY Zenon DEF HandlerErase, server, net
<1>2. /\ refs' = [refs EXCEPT ![c] = @ \ {"table"}]
      /\ DOMAIN sessions' = DOMAIN sessions \ {socket[c]}
      /\ \A g \in DOMAIN sessions' : sessions'[g] = sessions[g]
      /\ socket[c] \in DOMAIN sessions /\ sessions[socket[c]] = c
  BY EraseIsOwn DEF Drop, Without
<1>3. RefsInv'
  BY <1>1, <1>2 DEF RefsInv, CurrentInv, Served, TypeOK
<1>4. CurrentInv' /\ BacklogInv'
  BY <1>1 DEF CurrentInv, BacklogInv, TypeOK
<1>5. SessionsInv'
  BY <1>1, <1>2 DEF SessionsInv, TypeOK
<1>6. OpenInv'
  BY <1>1, EraseIsOwn, DropKeepsOpen DEF RefsInv, Served
<1> QED
  BY <1>3, <1>4, <1>5, <1>6

LEMMA ReleaseStep ==
  ASSUME ServerInv, NEW c \in Client, HandlerRelease(c)
  PROVE  CoreInv'
<1> USE DEF ServerInv, CoreInv
<1>1. /\ handler[c] = "release" /\ handler' = [handler EXCEPT ![c] = "exited"]
      /\ Drop(c, {"handler"})
      /\ UNCHANGED <<tcp_pc, current, sessions, socket, backlog, client>>
  BY Zenon DEF HandlerRelease, server, net
<1>2. refs' = [refs EXCEPT ![c] = @ \ {"handler"}]
  BY <1>1 DEF Drop
<1>3. RefsInv'
  BY <1>1, <1>2 DEF RefsInv, CurrentInv, Served, TypeOK
<1>4. CurrentInv' /\ BacklogInv'
  BY <1>1 DEF CurrentInv, BacklogInv, TypeOK
<1>5. SessionsInv'
  BY <1>1, <1>2 DEF SessionsInv, TypeOK
<1>6. OpenInv'
  BY <1>1, DropKeepsOpen DEF RefsInv
<1> QED
  BY <1>3, <1>4, <1>5, <1>6

LEMMA ReturnStep ==
  ASSUME ServerInv, NEW c \in Client, Return(c)
  PROVE  CoreInv'
<1> USE DEF ServerInv, CoreInv
<1>1. /\ handler[c] = "exited" /\ handler' = [handler EXCEPT ![c] = "none"]
      /\ client' = [client EXCEPT ![c] = "idle"] /\ refs[c] = {} /\ c \notin backlog
      /\ UNCHANGED <<tcp_pc, current, refs, sessions, socket, open, backlog>>
  BY Zenon DEF Return, server, table
<1>2. RefsInv'
  BY <1>1 DEF RefsInv, Served, TypeOK
<1>3. current # c
  BY <1>1 DEF RefsInv
<1>4. CurrentInv'
  BY <1>1, <1>3 DEF CurrentInv, TypeOK
<1>5. BacklogInv'
  BY <1>1, <1>3 DEF BacklogInv, TypeOK
<1>6. SessionsInv' /\ OpenInv'
  BY <1>1, Zenon DEF SessionsInv, OpenInv
<1> QED
  BY <1>2, <1>4, <1>5, <1>6

\* By the time stop() clears the table there is nothing in it.
LEMMA ClearFindsNothing ==
  ASSUME ServerInv, stop_pc \in {"clear", "stopped"}
  PROVE  /\ tcp_pc = "exited" /\ current = None
         /\ \A c \in Client : handler[c] \in {"none", "exited"} /\ refs[c] = {}
         /\ DOMAIN sessions = {} /\ open = {}
<1> USE DEF ServerInv, CoreInv
<1>1. tcp_pc = "exited" /\ current = None
  BY DEF StopInv, CurrentInv
<1>2. ASSUME NEW c \in Client PROVE handler[c] \in {"none", "exited"} /\ refs[c] = {}
  BY <1>1, ConstantsAssumption DEF StopInv, RefsInv, Served, TypeOK, Holder
<1>3. DOMAIN sessions = {}
  <2>1. ASSUME NEW f \in DOMAIN sessions PROVE FALSE
    <3>1. sessions[f] \in Client
      BY DEF TypeOK
    <3>2. "table" \in refs[sessions[f]]
      BY Zenon DEF SessionsInv
    <3> QED
      BY <1>2, <3>1, <3>2
  <2> QED
    BY <2>1
<1>4. open = {}
  BY <1>2 DEF OpenInv
<1> QED
  BY <1>1, <1>2, <1>3, <1>4

LEMMA ClearStep ==
  ASSUME ServerInv, StopClear
  PROVE  CoreInv'
<1> USE DEF ServerInv, CoreInv
<1>1. UNCHANGED <<tcp_pc, current, handler, socket, backlog, client>>
  BY Zenon DEF StopClear, threads, net
<1>2. DOMAIN sessions = {} /\ open = {} /\ \A c \in Client : refs[c] = {}
  BY ClearFindsNothing DEF StopClear, Advance
<1>3. /\ DOMAIN sessions' = {} /\ refs' = [c \in Client |-> {}]
      /\ open' = {socket[c] : c \in {d \in Client : refs'[d] # {}}}
  BY <1>2 DEF StopClear
<1>4. refs' = refs /\ open' = {}
  BY <1>2, <1>3 DEF TypeOK
<1>5. RefsInv' /\ CurrentInv' /\ BacklogInv'
  BY <1>1, <1>4, Zenon DEF RefsInv, CurrentInv, BacklogInv, Served
<1>6. SessionsInv'
  BY <1>2, <1>3, <1>4 DEF SessionsInv
<1>7. OpenInv'
  BY <1>2, <1>4 DEF OpenInv
<1> QED
  BY <1>5, <1>6, <1>7

LEMMA CoreStep == ServerInv /\ [Next]_vars => CoreInv'
<1> SUFFICES ASSUME ServerInv, [Next]_vars PROVE CoreInv'
  OBVIOUS
<1> USE DEF server, threads, table, net
<1>1. ASSUME \/ StopBegin \/ StopClose \/ StopJoinUdp \/ StopJoinTcp \/ StopJoinClients
             \/ TcpCheck \/ TcpCall \/ TcpAcceptError \/ TcpWoken
             \/ UdpCheck \/ UdpReceive \/ UdpWoken
             \/ \E c \in Client : Send(c)
             \/ UNCHANGED vars
      PROVE  CoreInv'
  <2>1. UNCHANGED <<current, handler, table, backlog, client>>
    BY <1>1, Zenon DEF StopBegin, StopClose, StopJoinUdp, StopJoinTcp, StopJoinClients,
         TcpCheck, TcpCall, TcpAcceptError, TcpWoken, UdpCheck, UdpReceive, UdpWoken,
         Send, vars
  <2>2. \/ UNCHANGED tcp_pc
        \/ /\ tcp_pc \in {"check", "call", "accept"}
           /\ tcp_pc' \in {"check", "call", "accept", "exited"}
    BY <1>1 DEF StopBegin, StopClose, StopJoinUdp, StopJoinTcp, StopJoinClients,
         TcpCheck, TcpCall, TcpAcceptError, TcpWoken, UdpCheck, UdpReceive, UdpWoken,
         Send, vars
  <2> QED
    BY <2>1, <2>2, QuietStep
<1>2. ASSUME NEW c \in Client, HandlerCheck(c) \/ HandlerMessage(c) \/ HandlerHangup(c)
      PROVE  CoreInv'
  <2>1. /\ UNCHANGED <<tcp_pc, current, table, backlog, client>>
        /\ handler[c] \in {"check", "recv"}
        /\ \E p \in {"check", "recv", "erase"} : handler' = [handler EXCEPT ![c] = p]
    BY <1>2 DEF HandlerCheck, HandlerMessage, HandlerHangup
  <2> QED
    BY <2>1, ServeStep
<1> QED
  BY <1>1, <1>2, ClientStep, AcceptStep, RegisterStep, SpawnStep, DropStep, EraseStep,
     ReleaseStep, ReturnStep, ClearStep, Zenon
  DEF Next, StopRest, TcpThread, HandlerThread

\* Once stop() has joined a thread the thread stays ended, and no other starts.
LEMMA StopStep == ServerInv /\ [Next]_vars => StopInv'
<1> SUFFICES ASSUME ServerInv, [Next]_vars PROVE StopInv'
  OBVIOUS
<1> USE DEF ServerInv, server, threads, table, net
<1>1. CASE StopBegin \/ StopClose \/ StopJoinUdp \/ StopJoinTcp \/ StopJoinClients
           \/ StopClear
  BY <1>1 DEF StopBegin, StopClose, StopJoinUdp, StopJoinTcp, StopJoinClients, StopClear,
              Advance, StopInv
<1>2. CASE TcpThread \/ TcpWoken
  <2>1. tcp_pc # "exited" /\ UNCHANGED <<running, listening, stop_pc, udp_pc>>
    BY <1>2 DEF TcpThread, TcpCheck, TcpCall, TcpAccept, TcpAcceptError, TcpWoken,
                TcpRegister, TcpSpawn, TcpDrop
  <2> QED
    BY <2>1 DEF StopInv
<1>3. CASE UdpCheck \/ UdpReceive \/ UdpWoken
  BY <1>3 DEF UdpCheck, UdpReceive, UdpWoken, StopInv
<1>4. ASSUME NEW c \in Client, HandlerThread(c)
      PROVE  StopInv'
  <2>1. /\ handler[c] \notin {"none", "exited"}
        /\ UNCHANGED <<running, listening, stop_pc, tcp_pc, udp_pc>>
    BY <1>4 DEF HandlerThread, HandlerCheck, HandlerMessage, HandlerHangup, HandlerErase,
                HandlerRelease
  <2> QED
    BY <2>1, Zenon DEF StopInv
<1>5. ASSUME NEW c \in Client, Connect(c) \/ Send(c) \/ HangUp(c) \/ Return(c)
      PROVE  StopInv'
  <2>1. /\ UNCHANGED <<running, listening, stop_pc, tcp_pc, udp_pc>>
        /\ handler' = handler \/ handler' = [handler EXCEPT ![c] = "none"]
    BY <1>5, Zenon DEF Connect, Send, HangUp, Return
  <2>2. ASSUME NEW d \in Client, handler[d] \in {"none", "exited"}
        PROVE  handler'[d] \in {"none", "exited"}
    BY <2>1, <2>2 DEF TypeOK
  <2> QED
    BY <2>1, <2>2, Zenon DEF StopInv
<1>6. CASE UNCHANGED vars
  BY <1>6, Zenon DEF vars, StopInv
<1> QED
  BY <1>1, <1>2, <1>3, <1>4, <1>5, <1>6 DEF Next, StopRest

LEMMA ServerAlways == Spec => []ServerInv
<1>1. Init => ServerInv
  <2> SUFFICES ASSUME Init PROVE ServerInv
    OBVIOUS
  <2> USE ConstantsAssumption DEF Init
  <2>1. TypeOK
    BY DEF TypeOK, Holder
  <2>2. RefsInv /\ CurrentInv /\ BacklogInv
    BY DEF RefsInv, CurrentInv, BacklogInv, Served
  <2>3. SessionsInv /\ OpenInv /\ StopInv
    BY DEF SessionsInv, OpenInv, StopInv
  <2> QED
    BY <2>1, <2>2, <2>3 DEF ServerInv, CoreInv
<1>2. ServerInv /\ [Next]_vars => ServerInv'
  BY TypesStep, CoreStep, StopStep DEF ServerInv
<1> QED
  BY <1>1, <1>2, PTL DEF Spec

-----------------------------------------------------------------------------
(* The properties.                                                         *)

\* The session table lists the connections being served, each under a number of
\* its own, for any number of clients and descriptors and however often numbers are
\* reused (tcpAcceptThread, clientHandlerThread, the destructor of
\* DoIPClientSession).
THEOREM TableAlwaysMatches == Spec => []TableMatchesHandlers
<1>1. ServerInv => TableMatchesHandlers
  <2> SUFFICES ASSUME ServerInv PROVE TableMatchesHandlers
    OBVIOUS
  <2> USE DEF ServerInv, CoreInv
  <2>1. \A c \in Client : Served(c) =>
          socket[c] \in DOMAIN sessions /\ sessions[socket[c]] = c
    BY DEF RefsInv, SessionsInv
  <2>2. ASSUME NEW f \in DOMAIN sessions
        PROVE  Served(sessions[f]) \/ (tcp_pc = "spawn" /\ current = sessions[f])
    <3>1. sessions[f] \in Client
      BY DEF TypeOK
    <3> QED
      BY <3>1, Zenon DEF SessionsInv, RefsInv
  <2>3. \A c \in Client : refs[c] # {} =>
          /\ socket[c] \in open
          /\ \A d \in Client \ {c} : refs[d] # {} => socket[d] # socket[c]
    BY Zenon DEF OpenInv
  <2> QED
    BY <2>1, <2>2, <2>3 DEF TableMatchesHandlers
<1> QED
  BY <1>1, ServerAlways, PTL

\* When stop() has returned no thread runs, no connection is open and the table is
\* empty, whenever it was called and whatever was being accepted (stop,
\* tcpAcceptThread, clientHandlerThread).
THEOREM StopAlwaysLeavesNothing == Spec => []StopLeavesNothing
<1>1. ServerInv => StopLeavesNothing
  BY ClearFindsNothing DEF StopLeavesNothing, ServerInv, StopInv
<1> QED
  BY <1>1, ServerAlways, PTL
=============================================================================
