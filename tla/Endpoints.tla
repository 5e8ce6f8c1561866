------------------------------ MODULE Endpoints ------------------------------
(***************************************************************************)
(* How the repository's programs set up what they talk through and release *)
(* it again: the sockets of the Linux zonal gateway, and the OpenSSL and   *)
(* mbedTLS clients and servers.  A set-up is a sequence of stages; a stage *)
(* that passes acquires the resource of its name (some only check), one    *)
(* that fails frees what the code at that place frees, and the function    *)
(* returns an error.  What main does then, and what its destructors do, is *)
(* the program's release.  Every program sets up once.                     *)
(***************************************************************************)
EXTENDS Naturals, Sequences, SequencesExt

CONSTANT Program  \* the programs to look at

ASSUME ProgramAssumption ==
  Program \subseteq {"gateway", "simulator", "pqc_doip", "https", "mqtt",
                     "zonal_doip", "mbed_doip", "mbed_server", "pqc_server"}

VARIABLES
  program,  \* which program this is
  main,     \* where its main thread is
  stage,    \* the stage of the set-up that comes next
  held      \* resources acquired and not released

endpointVars == <<program, main, stage, held>>

\* Stages that acquire nothing.
Check == {"certificates", "handshake", "verify", "listen", "bind", "connack"}

-----------------------------------------------------------------------------
(* The zonal gateway's server sockets.                                     *)

GatewaySetUp == <<"tcp", "listen", "udp", "bind">>
GatewayFrees ==
  [tcp |-> {}, listen |-> {"tcp"}, udp |-> {"tcp"}, bind |-> {"tcp", "udp"}]
\* closeServerSockets does not know the socket to the VMG.
GatewayRelease == {"tcp", "udp"}

(* TlsClient of the simulated device: disconnect() looks at connected_, so *)
(* the destructor does nothing for a client that never was.                *)

TlsClientSetUp == <<"context", "certificates", "socket", "session", "handshake">>
TlsClientFrees ==
  [context |-> {}, certificates |-> {}, socket |-> {"context"},
   session |-> {"socket", "context"},
   handshake |-> {"session", "context", "socket"}]
TlsClientRelease(connected) ==
  IF connected THEN {"session", "context", "socket"} ELSE {}

(* PQC_DoIP_Client: disconnect() looks at each pointer.                    *)

PqcDoipSetUp == <<"context", "certificates", "socket", "session", "handshake">>
PqcDoipFrees ==
  [context |-> {}, certificates |-> {"context"}, socket |-> {"context"},
   session |-> {"socket", "context"},
   handshake |-> {"session", "socket", "context"}]
PqcDoipRelease == {"session", "socket", "context"}

(* pqc_client_create, used by the HTTPS and the MQTT client.               *)

PqcClientSetUp ==
  <<"memory", "context", "certificates", "socket", "session", "handshake">>
\* (mutant) the context is forgotten when the host is not reached.
PqcClientFreesMemory ==
  [memory |-> {}, context |-> {"memory"},
   certificates |-> {"context", "memory"}, socket |-> {"memory"},
   session |-> {"socket", "context", "memory"},
   handshake |-> {"session", "socket", "context", "memory"}]
PqcClientFrees ==
  [memory |-> {}, context |-> {"memory"},
   certificates |-> {"context", "memory"}, socket |-> {"context", "memory"},
   session |-> {"socket", "context", "memory"},
   handshake |-> {"session", "socket", "context", "memory"}]
PqcClientRelease == {"session", "socket", "context", "memory"}

\* pqc_client_create first.
MqttSetUp ==
  <<"memory", "context", "certificates", "socket", "session", "handshake",
    "mqtt", "connack">>
MqttFrees(s) ==
  CASE s = "mqtt" -> PqcClientRelease
    [] s = "connack" -> {"mqtt"} \cup PqcClientRelease
    [] OTHER -> PqcClientFrees[s]
MqttRelease == PqcClientRelease \cup {"mqtt"}

(* The mbedTLS clients.  The simulated device's frees nothing on an error; *)
(* its destructor frees it all.  Nothing calls the zonal gateway's: it is  *)
(* the function that sets up, up to its return, and "failed" is its error. *)

ZonalSetUp ==
  <<"memory", "rng", "credentials", "socket", "config", "session", "handshake">>
ZonalRelease == {"socket", "credentials", "session", "config", "rng", "memory"}
ZonalFrees(s) == IF s = "memory" THEN {} ELSE ZonalRelease

MbedDoipSetUp ==
  <<"rng", "credentials", "socket", "config", "session", "handshake", "verify">>
MbedDoipRelease == {"socket", "credentials", "session", "config", "rng"}

(* The servers.  main of the mbedTLS server returns without freeing        *)
(* anything when the set-up fails.                                         *)

MbedServerSetUp == <<"rng", "credentials", "config", "listener">>
MbedServerRelease == {"listener", "credentials", "config", "rng"}

PqcServerSetUp == <<"memory", "context", "certificates", "listener">>
PqcServerFrees ==
  [memory |-> {}, context |-> {"memory"},
   certificates |-> {"context", "memory"}, listener |-> {"context", "memory"}]

-----------------------------------------------------------------------------
(* Set-up and release of the program that runs.                            *)

SetUp ==
  CASE program = "gateway" -> GatewaySetUp
    [] program = "simulator" -> TlsClientSetUp
    [] program = "pqc_doip" -> PqcDoipSetUp
    [] program = "https" -> PqcClientSetUp
    [] program = "mqtt" -> MqttSetUp
    [] program = "zonal_doip" -> ZonalSetUp
    [] program = "mbed_doip" -> MbedDoipSetUp
    [] program = "mbed_server" -> MbedServerSetUp
    [] program = "pqc_server" -> PqcServerSetUp

Frees(s) ==
  CASE program = "gateway" -> GatewayFrees[s]
    [] program = "simulator" -> TlsClientFrees[s]
    [] program = "pqc_doip" -> PqcDoipFrees[s]
    [] program = "https" -> PqcClientFrees[s]
    [] program = "mqtt" -> MqttFrees(s)
    [] program = "zonal_doip" -> ZonalFrees(s)
    [] program \in {"mbed_doip", "mbed_server"} -> {}
    [] program = "pqc_server" -> PqcServerFrees[s]

IsUp == stage > Len(SetUp)
Needed == ToSet(SetUp) \ Check

\* What is freed on the way out of a client's main.
Release ==
  CASE program = "simulator" -> TlsClientRelease(IsUp)
    [] program = "pqc_doip" -> PqcDoipRelease
    [] program = "https" -> IF IsUp THEN PqcClientRelease ELSE {}
    [] program = "mqtt" -> IF IsUp THEN MqttRelease ELSE {}
    [] program = "mbed_doip" -> MbedDoipRelease
    [] OTHER -> {}

EndpointInit ==
  /\ program \in Program
  /\ main = "start" /\ stage = 1 /\ held = {}

\* The next stage passes; after the last one the program is up.
StagePasses ==
  /\ main = "start"
  /\ held' = held \cup ({SetUp[stage]} \ Check)
  /\ stage' = stage + 1
  /\ main' = IF stage = Len(SetUp) THEN "up" ELSE "start"
  /\ UNCHANGED program

StageFails ==
  /\ main = "start"
  /\ held' = held \ Frees(SetUp[stage])
  /\ main' = "failed"
  /\ UNCHANGED <<program, stage>>

\* The DoIP clients ask for routing activation; without it their main returns
\* an error.  With it they send their messages, whatever comes of them.
Activates ==
  /\ main = "up"
  /\ program \in {"pqc_doip", "mbed_doip"}
  /\ main' \in {"active", "failed"}
  /\ UNCHANGED <<program, stage, held>>

\* A client's main returns: after a failure, or when it has said what it had to.
Returns ==
  /\ \/ main = "failed" /\ program # "zonal_doip"
     \/ main = "active"
     \/ main = "up" /\ program \in {"https", "mqtt"}
  /\ held' = held \ Release
  /\ main' = "returned"
  /\ UNCHANGED <<program, stage>>

\* The PQC server's example loop: one connection at a time, closed again
\* whatever happens to its session.
PqcServerAccepts ==
  /\ program = "pqc_server" /\ main = "up"
  /\ held' = held \cup {"connection"}
  /\ main' = "accepted"
  /\ UNCHANGED <<program, stage>>

PqcServerEchoes ==
  /\ main = "accepted" /\ program = "pqc_server"
  /\ held' = held \ {"connection"}
  /\ main' = "up"
  /\ UNCHANGED <<program, stage>>
=============================================================================
