------------------------------ MODULE EcuLink ------------------------------
(***************************************************************************)
(* An end node ECU (end_node_ecu/tc375/src/ecu_node.c) and the blocking    *)
(* DoIP client it uses (tc375_bootloader/common/doip_client.c), over one   *)
(* TCP connection to a zonal gateway that answers in order.                *)
(*                                                                         *)
(* TCP is a stream: a message is two fragments, recv() returns any         *)
(* non-empty part of what has arrived, and the client parses one message   *)
(* from it and drops the rest.  A call that fails leaves the connection    *)
(* open and whatever is still on its way to the next call.  recv() has a   *)
(* timeout; send() has none, and waits as long as the connection holds     *)
(* SendBuffer requests the gateway has not read.  Before it connects, or   *)
(* at any other time, the node may look for the gateway with a UDP         *)
(* broadcast; the VIN and the address it learns are read by nobody, the    *)
(* socket stays open until the client disconnects.                         *)
(***************************************************************************)
EXTENDS Naturals, Sequences

CONSTANTS
  MaxCalls,    \* how many requests are sent on a connection
  SendBuffer   \* how many the connection holds that the gateway has not read

ASSUME MaxCallsAssumption == MaxCalls \in Nat \ {0}
ASSUME SendBufferAssumption == SendBuffer \in Nat \ {0}

VARIABLES
  tcp_socket,     \* the client's TCP socket is open
  udp_socket,     \* the client's UDP socket is open
  is_connected,   \* flags of DoIPClient_t
  routing_active,
  zg_connected,   \* flag of ECUNode_t
  state,          \* state of ECUNode_t
  pc,             \* the call in progress and the send() or recv() it waits in
  serial,         \* number of the last request of the connection
  answer,         \* number of the request whose answer the last call returned
  disturbed,      \* a call on this connection has failed
  wire,           \* fragments from the gateway
  todo,           \* requests the gateway has not answered yet
  unread,         \* how many of them, the last ones, it has not even read
  peer_open,      \* the gateway keeps the connection
  opened          \* ghost: a socket has been opened since the last disconnect

client == <<tcp_socket, udp_socket, is_connected, routing_active, opened>>
node == <<zg_connected, state>>
net == <<wire, todo, unread, peer_open>>
linkVars == <<client, node, pc, serial, answer, disturbed, net>>

\* "alien" is a diagnostic message between other addresses, or longer than the
\* caller's buffer.
Kind == {"ra_ok", "ra_denied", "ack", "nack", "diag", "alien"}
Fragment == [kind : Kind, tag : 0..MaxCalls, part : {"head", "tail"}]
Request == [kind : {"ra", "diag", "acked"}, tag : 0..MaxCalls]

Message(k, n) == <<[kind |-> k, tag |-> n, part |-> "head"],
                   [kind |-> k, tag |-> n, part |-> "tail"]>>

\* doip_client_init.
ClientInit ==
  /\ tcp_socket = FALSE /\ udp_socket = FALSE /\ opened = FALSE
  /\ is_connected = FALSE /\ routing_active = FALSE

LinkInit ==  \* after ecu_init
  /\ ClientInit
  /\ zg_connected = FALSE /\ state = "INIT"
  /\ pc = "idle" /\ serial = 0 /\ answer = 0 /\ disturbed = FALSE
  /\ wire = <<>> /\ todo = <<>> /\ unread = 0 /\ peer_open = FALSE

-----------------------------------------------------------------------------
(* The socket.                                                             *)

\* doip_parse_message: one whole message at the front of the buffer.
Parses(buf) == Len(buf) >= 2 /\ buf[1].part = "head"

\* doip_parse_routing_activation_res, and the response code.
ActivationAccepted(buf) == Parses(buf) /\ buf[1].kind = "ra_ok"

\* doip_parse_diagnostic_message, the addresses and the length.
AnswerAccepted(buf) == Parses(buf) /\ buf[1].kind = "diag"

\* recv() returns the first k fragments.
Receive(k) ==
  /\ k \in 1..Len(wire)
  /\ wire' = SubSeq(wire, k + 1, Len(wire))
  /\ UNCHANGED <<todo, unread, peer_open>>
Buffer(k) == SubSeq(wire, 1, k)

\* recv() returns 0: nothing has come in time, or the gateway has closed.
ReceiveNothing == wire = <<>> /\ UNCHANGED net

\* A blocking send(): there is room, or the connection is no more.
SendReturns == unread < SendBuffer \/ ~peer_open

\* send() to a gateway that has closed may still succeed.
SendRequest(kind) ==
  /\ SendReturns
  /\ serial' = serial + 1
  /\ IF peer_open THEN /\ todo' = Append(todo, [kind |-> kind, tag |-> serial + 1])
                       /\ unread' = unread + 1
                  ELSE UNCHANGED <<todo, unread>>
  /\ UNCHANGED <<wire, peer_open>>

\* doip_client_disconnect; the kernel forgets the connection.
Disconnect ==
  /\ tcp_socket' = FALSE /\ udp_socket' = FALSE /\ opened' = FALSE
  /\ is_connected' = FALSE
  /\ routing_active' = FALSE
  /\ wire' = <<>> /\ todo' = <<>> /\ unread' = 0 /\ peer_open' = FALSE

-----------------------------------------------------------------------------
(* ecu_start: doip_client_connect and doip_client_routing_activation.      *)

OpenTcp == tcp_socket' = TRUE /\ opened' = TRUE

ActivationRequest == [kind |-> "ra", tag |-> 1]

\* A connect() that fails closes the new socket again, and a client that is
\* connected refuses: neither changes anything.  The first request of a
\* connection always finds room.
Start ==
  /\ pc = "idle" /\ ~is_connected
  /\ OpenTcp /\ is_connected' = TRUE
  /\ serial' = 1 /\ answer' = 0 /\ disturbed' = FALSE
  /\ wire' = <<>> /\ todo' = <<ActivationRequest>> /\ unread' = 1 /\ peer_open' = TRUE
  /\ pc' = "activate"
  /\ UNCHANGED <<udp_socket, routing_active, node>>

\* The answer to the activation arrives and accepts.
Activated(k) ==
  /\ pc = "activate"
  /\ Receive(k)
  /\ ActivationAccepted(Buffer(k))
  /\ routing_active' = TRUE
  /\ zg_connected' = TRUE /\ state' = "READY"
  /\ pc' = "idle"
  /\ UNCHANGED <<tcp_socket, udp_socket, is_connected, opened, serial, answer, disturbed>>

\* (mutant) the node does not disconnect after a failed activation.
ActivationLeft ==
  /\ pc = "activate"
  /\ \/ ReceiveNothing
     \/ \E k \in 1..Len(wire) :
          Receive(k) /\ ~ActivationAccepted(Buffer(k))
  /\ pc' = "idle"
  /\ disturbed' = TRUE
  /\ UNCHANGED <<client, node, serial, answer>>

\* Nothing, a part of a message or a refusal: ecu_connect_to_zg disconnects.
ActivationFails ==
  /\ pc = "activate"
  /\ wire = <<>> \/ \E k \in 1..Len(wire) : ~ActivationAccepted(Buffer(k))
  /\ Disconnect
  /\ pc' = "idle"
  /\ UNCHANGED <<node, serial, answer, disturbed>>

-----------------------------------------------------------------------------
(* ecu_send_heartbeat: doip_client_send_diagnostic.                        *)

Heartbeat ==
  /\ pc = "idle" /\ zg_connected
  /\ is_connected /\ routing_active
  /\ serial < MaxCalls
  /\ answer' = 0
  /\ pc' = "send"
  /\ UNCHANGED <<client, node, serial, disturbed, net>>

RequestSent ==
  /\ pc = "send"
  /\ SendRequest("diag")
  /\ pc' = "first"
  /\ UNCHANGED <<client, node, answer, disturbed>>

\* Every early return from the send() on: the connection stays as it is.
CallFails ==
  /\ pc' = "idle"
  /\ disturbed' = TRUE
  /\ UNCHANGED <<client, node, serial, answer>>

SendFails ==
  /\ pc = "send"
  /\ ~peer_open
  /\ CallFails
  /\ UNCHANGED net

\* (mutant) an acknowledgement ends the call.
AckEndsCall(k) ==
  /\ pc = "first"
  /\ Receive(k)
  /\ Parses(Buffer(k)) /\ wire[1].kind = "ack"
  /\ pc' = "idle"
  /\ UNCHANGED <<client, node, serial, answer, disturbed>>

FirstIsAck(k) ==
  /\ pc = "first"
  /\ Receive(k)
  /\ Parses(Buffer(k)) /\ wire[1].kind = "ack"
  /\ pc' = "second"
  /\ UNCHANGED <<client, node, serial, answer, disturbed>>

\* The answer itself, after an acknowledgement or without one.
Answered(k) ==
  /\ pc \in {"first", "second"}
  /\ Receive(k)
  /\ AnswerAccepted(Buffer(k))
  /\ answer' = wire[1].tag
  /\ pc' = "idle"
  /\ UNCHANGED <<client, node, serial, disturbed>>

\* A part of a message, a refusal, an answer to something else.
Unusable(k) ==
  /\ pc \in {"first", "second"}
  /\ Receive(k)
  /\ ~AnswerAccepted(Buffer(k))
  /\ ~(pc = "first" /\ Parses(Buffer(k)) /\ wire[1].kind = "ack")
  /\ CallFails

\* (mutant) an empty recv() is tried again.
TimesOutNever ==
  /\ pc \in {"first", "second"}
  /\ ReceiveNothing
  /\ UNCHANGED linkVars

TimesOut ==
  /\ pc \in {"first", "second"}
  /\ ReceiveNothing
  /\ CallFails

-----------------------------------------------------------------------------
(* ecu_discover_zone_gateway: doip_client_vehicle_identification.          *)

\* A socket that is there is used again; without one the call fails.
OpenUdp == udp_socket' = TRUE /\ opened' = TRUE

Discover ==
  /\ pc = "idle"
  /\ OpenUdp
  /\ pc' = "identify"
  /\ UNCHANGED <<tcp_socket, is_connected, routing_active, node, serial, answer,
                disturbed, net>>

\* The broadcast fails, its time is over, or a datagram comes, from whichever
\* entity: the socket stays open in any case.
DiscoveryEnds ==
  /\ pc = "identify"
  /\ pc' = "idle"
  /\ UNCHANGED <<client, node, serial, answer, disturbed, net>>

-----------------------------------------------------------------------------
(* ecu_stop and ecu_receive_ota_firmware.                                  *)

Stop ==
  /\ pc = "idle"
  /\ IF zg_connected THEN Disconnect /\ zg_connected' = FALSE
                     ELSE UNCHANGED <<client, zg_connected, net>>
  /\ state' = "INIT"
  /\ UNCHANGED <<pc, serial, answer, disturbed>>

ReceiveOta ==
  /\ pc = "idle"
  /\ state' = "OTA_IN_PROGRESS"
  /\ UNCHANGED <<client, zg_connected, pc, serial, answer, disturbed, net>>

-----------------------------------------------------------------------------
(* The gateway reads the requests and answers them in order, when it       *)
(* likes, and may close the connection.                                    *)

PeerReads ==
  /\ unread > 0
  /\ unread' = unread - 1
  /\ UNCHANGED <<client, node, pc, serial, answer, disturbed, wire, todo, peer_open>>

PeerSends(kind, rest) ==
  /\ peer_open /\ todo # <<>> /\ unread < Len(todo)
  /\ wire' = wire \o Message(kind, Head(todo).tag)
  /\ todo' = rest \o Tail(todo)
  /\ UNCHANGED <<client, node, pc, serial, answer, disturbed, unread, peer_open>>

PeerActivates ==
  /\ todo # <<>> /\ Head(todo).kind = "ra"
  /\ PeerSends("ra_ok", <<>>) \/ PeerSends("ra_denied", <<>>)

PeerAcks ==
  /\ todo # <<>> /\ Head(todo).kind = "diag"
  /\ \/ PeerSends("ack", <<[Head(todo) EXCEPT !.kind = "acked"]>>)
     \/ PeerSends("nack", <<>>)

PeerAnswers ==
  /\ todo # <<>> /\ Head(todo).kind \in {"diag", "acked"}
  /\ PeerSends("diag", <<>>) \/ PeerSends("alien", <<>>)

PeerCloses ==
  /\ peer_open
  /\ peer_open' = FALSE /\ todo' = <<>> /\ unread' = 0
  /\ UNCHANGED <<client, node, pc, serial, answer, disturbed, wire>>

ClientStep ==
  \/ ActivationFails \/ RequestSent \/ SendFails \/ TimesOut \/ DiscoveryEnds
  \/ \E k \in 1..Len(wire) : Activated(k) \/ FirstIsAck(k) \/ Answered(k) \/ Unusable(k)

LinkNext ==
  \/ Start \/ Heartbeat \/ Discover \/ Stop \/ ReceiveOta
  \/ ClientStep
  \/ PeerReads \/ PeerActivates \/ PeerAcks \/ PeerAnswers \/ PeerCloses

LinkSpec == LinkInit /\ [][LinkNext]_linkVars

\* A recv() returns when data has come or its timeout is over, a send() when
\* there is room or no connection any more.  The gateway need do nothing.
LinkFairSpec == LinkSpec /\ WF_linkVars(ClientStep)

-----------------------------------------------------------------------------

\* The flags, the call in progress and the stream have their types.
LinkTypeOK ==
  /\ {tcp_socket, udp_socket, is_connected, routing_active, opened} \subseteq BOOLEAN
  /\ zg_connected \in BOOLEAN /\ state \in {"INIT", "READY", "OTA_IN_PROGRESS"}
  /\ pc \in {"idle", "activate", "send", "first", "second", "identify"}
  /\ serial \in 0..MaxCalls /\ answer \in 0..MaxCalls /\ disturbed \in BOOLEAN
  /\ wire \in Seq(Fragment) /\ todo \in Seq(Request)
  /\ unread \in 0..SendBuffer /\ peer_open \in BOOLEAN

\* As long as every call on a connection has succeeded, the answer a call
\* returns is the answer to its own request, however the stream is cut.
AnswerMatchesRequest ==
  pc = "idle" /\ answer # 0 /\ ~disturbed => answer = serial

\* Between calls the node's flag and the client's flags agree with the
\* socket: a node that is not connected can connect again, and none believes
\* in a connection its client has closed.  Disconnecting leaves no socket
\* open, neither that of the connection nor that of a discovery.
FlagsAgree ==
  /\ LinkTypeOK
  /\ pc = "idle" =>
    /\ zg_connected <=> is_connected
    /\ is_connected <=> tcp_socket
    /\ routing_active <=> is_connected
  /\ tcp_socket \/ udp_socket => opened

\* A call ends, whatever the gateway answers or leaves unanswered, unless the
\* gateway keeps the connection and reads nothing more: then the heartbeat that
\* finds the buffer full waits in send() for good, and no other call does.
CallsReturn ==
  \/ []<>(pc = "idle")
  \/ <>[](pc = "send" /\ peer_open /\ unread = SendBuffer)
=============================================================================
