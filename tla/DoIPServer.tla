----------------------------- MODULE DoIPServer -----------------------------
(***************************************************************************)
(* The threads of the vehicle gateway's DoIP server                        *)
(* (vehicle_gateway/src/doip_server.cpp): the accept thread, the UDP       *)
(* thread, one handler thread per connection, and the owner that calls     *)
(* stop().  Connections share a table keyed by the descriptor number, the  *)
(* kernel hands out the lowest free number, and a connection is closed     *)
(* when the last shared_ptr to its session goes away.                      *)
(*                                                                         *)
(* A client makes one connection at a time.  The two listening sockets     *)
(* have descriptors of their own outside Fd; stop() closes both in one     *)
(* step.                                                                   *)
(***************************************************************************)
EXTENDS Naturals, FiniteSets, FiniteSetsExt

CONSTANTS Client,      \* the remote ends, one connection each at a time
          None,        \* no client
          NumFd,       \* how many descriptors connections can have
          MaxMessages, \* bound: messages of a client on their way at a time
          CloseWakes   \* whether close() ends an accept or recvfrom in progress

ASSUME ConstantsAssumption ==
  /\ NumFd \in Nat \ {0} /\ MaxMessages \in Nat
  /\ CloseWakes \in BOOLEAN /\ None \notin Client

Fd == 1..NumFd

VARIABLES
  running,    \* running_
  listening,  \* the listening sockets have not been closed
  stop_pc,    \* where the owner is in stop()
  tcp_pc,     \* where the accept thread is
  current,    \* the connection the accept thread is setting up
  udp_pc,     \* where the UDP thread is
  handler,    \* where the handler thread of each connection is
  sessions,   \* sessions_: a function on descriptor numbers
  socket,     \* the descriptor of each session, 0 without a session
  refs,       \* who holds a shared_ptr to the session
  open,       \* the descriptors the kernel has given out
  backlog,    \* connections waiting in the kernel to be accepted
  client,     \* what the remote end has done
  inbox       \* messages on their way to the server

server == <<running, listening, stop_pc>>
threads == <<tcp_pc, current, udp_pc, handler>>
table == <<sessions, socket, refs, open>>
net == <<backlog, client, inbox>>
vars == <<server, threads, table, net>>

Holder == {"accept", "table", "handler"}

Init ==  \* after start()
  /\ running = TRUE /\ listening = TRUE /\ stop_pc = "serving"
  /\ tcp_pc = "check" /\ current = None /\ udp_pc = "check"
  /\ handler = [c \in Client |-> "none"]
  /\ sessions = [f \in {} |-> None]
  /\ socket = [c \in Client |-> 0]
  /\ refs = [c \in Client |-> {}]
  /\ open = {}
  /\ backlog = {} /\ client = [c \in Client |-> "idle"]
  /\ inbox = [c \in Client |-> 0]

-----------------------------------------------------------------------------
(* Sessions and descriptors.                                               *)

\* Give up references; the destructor of DoIPClientSession closes the socket.
Drop(c, who) ==
  /\ refs' = [refs EXCEPT ![c] = @ \ who]
  /\ open' = IF refs[c] \subseteq who THEN open \ {socket[c]} ELSE open

Without(f) == [g \in DOMAIN sessions \ {f} |-> sessions[g]]

-----------------------------------------------------------------------------
(* tcpAcceptThread.                                                        *)

TcpCheck ==
  /\ tcp_pc = "check"
  /\ tcp_pc' = IF running THEN "call" ELSE "exited"
  /\ UNCHANGED <<server, current, udp_pc, handler, table, net>>

\* A call after the close fails at once, and running_ is already false.
TcpCall ==
  /\ tcp_pc = "call"
  /\ tcp_pc' = IF listening THEN "accept" ELSE "exited"
  /\ UNCHANGED <<server, current, udp_pc, handler, table, net>>

TcpAccept(c) ==
  /\ tcp_pc = "accept"
  /\ c \in backlog
  /\ Fd \ open # {}
  /\ LET f == Min(Fd \ open)
     IN /\ socket' = [socket EXCEPT ![c] = f]
        /\ open' = open \cup {f}
  /\ backlog' = backlog \ {c}
  /\ current' = c
  /\ refs' = [refs EXCEPT ![c] = {"accept"}]
  /\ tcp_pc' = "register"
  /\ UNCHANGED <<server, udp_pc, handler, sessions, client, inbox>>

\* accept() fails, for want of a descriptor or because the client has given
\* up: tried again.
TcpAcceptError ==
  /\ tcp_pc = "accept"
  /\ backlog # {}
  /\ tcp_pc' = IF running THEN "check" ELSE "exited"
  /\ UNCHANGED <<server, current, udp_pc, handler, table, net>>

\* accept() fails because the socket was closed under it, where the platform
\* notices that.
TcpWoken ==
  /\ tcp_pc = "accept"
  /\ ~listening
  /\ tcp_pc' = "exited"
  /\ UNCHANGED <<server, current, udp_pc, handler, table, net>>

TcpRegister ==
  /\ tcp_pc = "register"
  /\ LET f == socket[current]
     IN /\ sessions' = [g \in DOMAIN sessions \cup {f} |->
                          IF g = f THEN current ELSE sessions[g]]
        /\ refs' = [c \in Client |->
                      IF c = current THEN refs[c] \cup {"table"}
                      ELSE IF f \in DOMAIN sessions /\ sessions[f] = c
                        THEN refs[c] \ {"table"} ELSE refs[c]]
  /\ tcp_pc' = "spawn"
  /\ UNCHANGED <<server, current, udp_pc, handler, socket, open, net>>

TcpSpawn ==
  /\ tcp_pc = "spawn"
  /\ handler' = [handler EXCEPT ![current] = "check"]
  /\ refs' = [refs EXCEPT ![current] = @ \cup {"handler"}]
  /\ tcp_pc' = "drop"
  /\ UNCHANGED <<server, current, udp_pc, sessions, socket, open, net>>

\* The end of the iteration: the local shared_ptr goes out of scope, perhaps
\* after the handler has already finished.
TcpDrop ==
  /\ tcp_pc = "drop"
  /\ Drop(current, {"accept"})
  /\ current' = None
  /\ tcp_pc' = "check"
  /\ UNCHANGED <<server, udp_pc, handler, sessions, socket, net>>

TcpThread ==
  \/ TcpCheck \/ TcpCall \/ TcpRegister \/ TcpSpawn \/ TcpDrop \/ TcpAcceptError
  \/ \E c \in Client : TcpAccept(c)

-----------------------------------------------------------------------------
(* clientHandlerThread.                                                    *)

HandlerCheck(c) ==
  /\ handler[c] = "check"
  /\ handler' = [handler EXCEPT ![c] = IF running THEN "recv" ELSE "erase"]
  /\ UNCHANGED <<server, tcp_pc, current, udp_pc, table, net>>

\* A whole message is received, parsed and answered.
HandlerMessage(c) ==
  /\ handler[c] = "recv"
  /\ inbox[c] > 0
  /\ inbox' = [inbox EXCEPT ![c] = @ - 1]
  /\ handler' = [handler EXCEPT ![c] = "check"]
  /\ UNCHANGED <<server, tcp_pc, current, udp_pc, table, backlog, client>>

\* recv() reports the end of the connection, in front of or inside a message.
HandlerHangup(c) ==
  /\ handler[c] = "recv"
  /\ client[c] = "gone"
  /\ handler' = [handler EXCEPT ![c] = "erase"]
  /\ UNCHANGED <<server, tcp_pc, current, udp_pc, table, net>>

\* (mutant) the entry is left to stop().
HandlerEraseMissing(c) ==
  /\ handler[c] = "erase"
  /\ handler' = [handler EXCEPT ![c] = "release"]
  /\ UNCHANGED <<server, tcp_pc, current, udp_pc, table, net>>

\* sessions_.erase(number): whichever session is stored under the number.
HandlerErase(c) ==
  /\ handler[c] = "erase"
  /\ sessions' = Without(socket[c])
  /\ IF socket[c] \in DOMAIN sessions
       THEN Drop(sessions[socket[c]], {"table"})
       ELSE UNCHANGED <<refs, open>>
  /\ handler' = [handler EXCEPT ![c] = "release"]
  /\ UNCHANGED <<server, tcp_pc, current, udp_pc, socket, net>>

HandlerRelease(c) ==
  /\ handler[c] = "release"
  /\ Drop(c, {"handler"})
  /\ handler' = [handler EXCEPT ![c] = "exited"]
  /\ UNCHANGED <<server, tcp_pc, current, udp_pc, sessions, socket, net>>

HandlerThread(c) ==
  \/ HandlerCheck(c) \/ HandlerMessage(c) \/ HandlerHangup(c)
  \/ HandlerErase(c) \/ HandlerRelease(c)

-----------------------------------------------------------------------------
(* udpListenerThread.                                                      *)

UdpCheck ==
  /\ udp_pc = "check"
  /\ udp_pc' = IF running THEN "recv" ELSE "exited"
  /\ UNCHANGED <<server, tcp_pc, current, handler, table, net>>

\* A datagram, which may come at any time, is answered.
UdpReceive ==
  /\ udp_pc = "recv"
  /\ udp_pc' = "check"
  /\ UNCHANGED <<server, tcp_pc, current, handler, table, net>>

UdpWoken ==
  /\ udp_pc = "recv"
  /\ ~listening
  /\ udp_pc' = "exited"
  /\ UNCHANGED <<server, tcp_pc, current, handler, table, net>>

-----------------------------------------------------------------------------
(* stop(), called by the owner at any time.                                *)

Advance(from, to) == stop_pc = from /\ stop_pc' = to

StopBegin ==
  /\ Advance("serving", "close")
  /\ running' = FALSE
  /\ UNCHANGED <<listening, threads, table, net>>

StopClose ==
  /\ Advance("close", "join_udp")
  /\ listening' = FALSE
  /\ UNCHANGED <<running, threads, table, net>>

StopJoinUdp ==
  /\ udp_pc = "exited"
  /\ Advance("join_udp", "join_tcp")
  /\ UNCHANGED <<running, listening, threads, table, net>>

\* (mutant) the accept thread is not waited for.
StopJoinTcpMissing ==
  /\ Advance("join_tcp", "join_clients")
  /\ UNCHANGED <<running, listening, threads, table, net>>
StopJoinTcp ==
  /\ tcp_pc = "exited"
  /\ Advance("join_tcp", "join_clients")
  /\ UNCHANGED <<running, listening, threads, table, net>>

StopJoinClients ==
  /\ \A c \in Client : handler[c] \in {"none", "exited"}
  /\ Advance("join_clients", "clear")
  /\ UNCHANGED <<running, listening, threads, table, net>>

StopClear ==
  /\ Advance("clear", "stopped")
  /\ sessions' = [f \in {} |-> None]
  /\ refs' = [c \in Client |-> refs[c] \ {"table"}]
  /\ open' = {socket[c] : c \in {d \in Client : refs'[d] # {}}}
  /\ UNCHANGED <<running, listening, threads, socket, net>>

StopRest == StopClose \/ StopJoinUdp \/ StopJoinTcp \/ StopJoinClients \/ StopClear

-----------------------------------------------------------------------------
(* The remote ends.                                                        *)

\* The kernel completes connections as long as the listening socket exists,
\* which an accept() in progress keeps alive past its close().
Connect(c) ==
  /\ client[c] = "idle"
  /\ listening \/ tcp_pc = "accept"
  /\ client' = [client EXCEPT ![c] = "connected"]
  /\ backlog' = backlog \cup {c}
  /\ UNCHANGED <<server, threads, table, inbox>>

Send(c) ==
  /\ client[c] = "connected"
  /\ inbox[c] < MaxMessages
  /\ inbox' = [inbox EXCEPT ![c] = @ + 1]
  /\ UNCHANGED <<server, threads, table, backlog, client>>

HangUp(c) ==
  /\ client[c] = "connected"
  /\ client' = [client EXCEPT ![c] = "gone"]
  /\ UNCHANGED <<server, threads, table, backlog, inbox>>

\* A connection that is over makes room for another one.
Return(c) ==
  /\ client[c] = "gone" /\ c \notin backlog
  /\ handler[c] = "exited" /\ refs[c] = {}
  /\ client' = [client EXCEPT ![c] = "idle"]
  /\ handler' = [handler EXCEPT ![c] = "none"]
  /\ inbox' = [inbox EXCEPT ![c] = 0]
  /\ UNCHANGED <<server, tcp_pc, current, udp_pc, table, backlog>>

Next ==
  \/ StopBegin \/ StopRest
  \/ TcpThread \/ TcpWoken
  \/ UdpCheck \/ UdpReceive \/ UdpWoken
  \/ \E c \in Client : HandlerThread(c)
  \/ \E c \in Client : Connect(c) \/ Send(c) \/ HangUp(c) \/ Return(c)

Spec == Init /\ [][Next]_vars

\* Every thread keeps running, and a blocked call returns once it can;
\* nobody has to send a datagram.
Fairness ==
  /\ WF_vars(TcpThread) /\ WF_vars(UdpCheck) /\ WF_vars(StopRest)
  /\ \A c \in Client : WF_vars(HandlerThread(c))
  /\ CloseWakes => WF_vars(TcpWoken) /\ WF_vars(UdpWoken)

FairSpec == Spec /\ Fairness

-----------------------------------------------------------------------------

Served(c) == handler[c] \in {"check", "recv", "erase"}

\* The table, the threads and the descriptors have their types.
TypeOK ==
  /\ running \in BOOLEAN /\ listening \in BOOLEAN
  /\ stop_pc \in {"serving", "close", "join_udp", "join_tcp", "join_clients", "clear", "stopped"}
  /\ tcp_pc \in {"check", "call", "accept", "register", "spawn", "drop", "exited"}
  /\ current \in Client \cup {None}
  /\ udp_pc \in {"check", "recv", "exited"}
  /\ handler \in [Client -> {"none", "check", "recv", "erase", "release", "exited"}]
  /\ DOMAIN sessions \subseteq Fd /\ sessions \in [DOMAIN sessions -> Client]
  /\ socket \in [Client -> 0..NumFd]
  /\ refs \in [Client -> SUBSET Holder]
  /\ open \subseteq Fd
  /\ backlog \subseteq Client
  /\ client \in [Client -> {"idle", "connected", "gone"}]
  /\ inbox \in [Client -> 0..MaxMessages]

\* The table lists exactly the connections being served, each under its own
\* number, although numbers are reused: what getActiveConnections counts, and
\* what keeps one handler from erasing the session of another.  No thread works
\* on a number that is closed or that now belongs to another connection.
TableMatchesHandlers ==
  /\ TypeOK
  /\ \A c \in Client : Served(c) =>
       socket[c] \in DOMAIN sessions /\ sessions[socket[c]] = c
  /\ \A f \in DOMAIN sessions :
       Served(sessions[f]) \/ (tcp_pc = "spawn" /\ current = sessions[f])
  /\ \A c \in Client : refs[c] # {} =>
       /\ socket[c] \in open
       /\ \A d \in Client \ {c} : refs[d] # {} => socket[d] # socket[c]

\* When stop() returns no thread of the server is left, every connection is
\* closed and the table is empty, also for a connection accepted while stop()
\* was running.
StopLeavesNothing ==
  stop_pc = "stopped" =>
    /\ tcp_pc = "exited" /\ udp_pc = "exited"
    /\ \A c \in Client : handler[c] \in {"none", "exited"} /\ refs[c] = {}
    /\ open = {} /\ DOMAIN sessions = {}

\* A client that goes away gets its descriptor back to the server, whatever
\* it had sent and whether or not stop() is called.
GoneClientsReleased ==
  \A c \in Client : client[c] = "gone" /\ refs[c] # {} ~> refs[c] = {}

\* stop() returns.
StopReturns == stop_pc # "serving" ~> stop_pc = "stopped"
=============================================================================
