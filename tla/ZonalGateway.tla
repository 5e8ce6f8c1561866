---------------------------- MODULE ZonalGateway ----------------------------
(***************************************************************************)
(* The zonal gateway on the TC375, in three parts that one application     *)
(* uses side by side: the gateway itself, with its table of the ECUs of    *)
(* the zone and its DoIP connection to the vehicle gateway                 *)
(* (zonal_gateway.c), the diagnostic router (diagnostic_router.c) and the  *)
(* reconnecting DoIP client (doip_client_reconnect.c).                     *)
(*                                                                         *)
(* The calls come in any order from one thread; the program that makes     *)
(* them is example_zonal_gateway.c, for the client its own task.  What the *)
(* network answers is chosen by the environment, also in place of          *)
(* attempt_connection, which is a stub for the TLS client's connect.       *)
(* A report names its ECU twice, by the argument ecu_id and in the record: *)
(* the two are taken to be equal, as they are in every call of the source. *)
(* Counters that are only reported, and the table of pending requests,     *)
(* which nothing fills, are left out.  Times are differences to now, so    *)
(* that the clock itself does not appear.                                  *)
(***************************************************************************)
EXTENDS Naturals, Sequences, FiniteSetsExt, SequencesExt

CONSTANTS EcuId,           \* the ECUs of the zone
          Address,         \* their logical addresses
          MaxEcus,         \* ZG_MAX_ECUS
          MaxRoutes,       \* DIAG_ROUTER_MAX_ECUS
          InitialBackoff,  \* DOIP_INITIAL_BACKOFF_MS
          MaxBackoff,      \* DOIP_MAX_BACKOFF_MS
          KeepAlive        \* DOIP_KEEPALIVE_INTERVAL_MS

ASSUME ConstantsAssumption ==
  /\ MaxEcus \in Nat /\ MaxRoutes \in Nat
  /\ InitialBackoff \in Nat \ {0} /\ KeepAlive \in Nat
  /\ MaxBackoff \in Nat /\ InitialBackoff <= MaxBackoff

VARIABLES
  vci,            \* zone_vci.ecus: identifier and is_online of each entry
  socket,         \* how many sockets to the VMG are open
  is_connected,   \* vmg_client.is_connected
  routing_active, \* vmg_client.routing_active
  vmg_connected,  \* what the gateway remembers
  routes,         \* router->ecus: address and is_connected of each entry
  link,           \* state of the reconnecting client
  link_up,        \* its is_connected
  backoff,        \* backoff_ms
  uptime,         \* now, up to MaxBackoff
  waited,         \* now - last_attempt_time_ms, up to MaxBackoff
  unrefreshed,    \* now - last_keepalive_time_ms, up to KeepAlive + 1
  reported,       \* ghost: the last report about each ECU
  stopped,        \* ghost: zg_stop has been called since the activation
  failed,         \* ghost: failures since the back-off was last reset
  quiet           \* ghost: the time since the last attempt, start or reset

zone == <<vci, reported>>
gateway == <<socket, is_connected, routing_active, vmg_connected, stopped>>
timers == <<uptime, waited, unrefreshed, quiet>>
client == <<link, link_up, backoff, failed, timers>>
gatewayVars == <<zone, gateway, routes, client>>

Report == {"online", "offline"}
Unknown == "unknown"

GatewayInit ==
  /\ vci = <<>> /\ reported = [e \in EcuId |-> Unknown]
  /\ socket = 0 /\ is_connected = FALSE /\ routing_active = FALSE
  /\ vmg_connected = FALSE /\ stopped = FALSE
  /\ routes = <<>>
  /\ link = "disconnected" /\ link_up = FALSE
  /\ backoff = InitialBackoff /\ failed = 0
  /\ uptime = 0 /\ waited = 0 /\ unrefreshed = 0 /\ quiet = 0

-----------------------------------------------------------------------------
(* The table of the zone: zg_update_ecu_info.                              *)

Entry(e, online) == [id |-> e, online |-> online]

Listed(e) == {i \in DOMAIN vci : vci[i].id = e}

\* (mutant) a full table takes no news of the ECUs it lists.
UpdateOfFullTable(e, online) ==
  /\ reported' = [reported EXCEPT ![e] = online]
  /\ vci' = IF Len(vci) >= MaxEcus THEN vci
            ELSE IF Listed(e) = {} THEN Append(vci, Entry(e, online))
            ELSE [vci EXCEPT ![Min(Listed(e))] = Entry(e, online)]
  /\ UNCHANGED <<gateway, routes, client>>

\* An entry is replaced, else added; a new ECU is refused by a full table.
UpdateEcuInfo(e, online) ==
  /\ reported' = [reported EXCEPT ![e] = online]
  /\ vci' = IF Listed(e) # {}
              THEN [vci EXCEPT ![Min(Listed(e))] = Entry(e, online)]
              ELSE IF Len(vci) < MaxEcus THEN Append(vci, Entry(e, online)) ELSE vci
  /\ UNCHANGED <<gateway, routes, client>>

-----------------------------------------------------------------------------
(* The connection to the VMG, over the DoIP client.                        *)

\* (mutant) the client is connected again although it is connected.
ConnectTwice(tcp, activated) ==
  /\ socket' = socket + (IF tcp THEN 1 ELSE 0)
  /\ is_connected' = (is_connected \/ tcp)
  /\ routing_active' = (tcp /\ activated)
  /\ vmg_connected' = (vmg_connected \/ routing_active')
  /\ stopped' = (stopped /\ ~routing_active')
  /\ UNCHANGED <<zone, routes, client>>

\* zg_connect_to_vmg.  doip_client_connect refuses while is_connected, which
\* stays set when the routing activation after it fails.
ConnectToVmg(tcp, activated) ==
  /\ ~is_connected
  /\ socket' = socket + (IF tcp THEN 1 ELSE 0)
  /\ is_connected' = tcp
  /\ routing_active' = (tcp /\ activated)
  /\ vmg_connected' = (vmg_connected \/ routing_active')
  /\ stopped' = (stopped /\ ~routing_active')
  /\ UNCHANGED <<zone, routes, client>>

\* zg_stop: the DoIP client is disconnected, vmg_connected is left.
Stop ==
  /\ socket' = 0 /\ is_connected' = FALSE /\ routing_active' = FALSE
  /\ stopped' = vmg_connected
  /\ UNCHANGED <<vmg_connected, zone, routes, client>>

-----------------------------------------------------------------------------
(* The router.                                                             *)

Route(a, connected) == [address |-> a, connected |-> connected]

\* diagnostic_router_register_ecu: an address may be registered twice.
RegisterEcu(a) ==
  /\ Len(routes) < MaxRoutes
  /\ routes' = Append(routes, Route(a, FALSE))
  /\ UNCHANGED <<zone, gateway, client>>

\* diagnostic_router_find_ecu: the first entry; route_to_ecu sends to it,
\* whether it is connected or not.
FindEcu(a) == SelectInSeq(routes, LAMBDA r : r.address = a)

\* diagnostic_router_route_to_vmg: a message from an ECU marks its entry.
RouteToVmg(a) ==
  /\ routes' = IF FindEcu(a) = 0 THEN routes
               ELSE [routes EXCEPT ![FindEcu(a)] = Route(a, TRUE)]
  /\ UNCHANGED <<zone, gateway, client>>

\* diagnostic_router_broadcast sends to these entries, one message each.
BroadcastTargets == {i \in DOMAIN routes : routes[i].connected}

-----------------------------------------------------------------------------
(* The reconnecting client.                                                *)

Trying == link \in {"connecting", "reconnecting"}

Upto(bound, n) == Min({bound, n})

Tick ==
  /\ uptime' = Upto(MaxBackoff, uptime + 1)
  /\ waited' = Upto(MaxBackoff, waited + 1)
  /\ unrefreshed' = Upto(KeepAlive + 1, unrefreshed + 1)
  /\ quiet' = Upto(MaxBackoff, quiet + 1)
  /\ UNCHANGED <<link, link_up, backoff, failed, zone, gateway, routes>>

\* doip_client_reconnect_start.  In the connected state it does nothing; the
\* task calls it once.
Start ==
  /\ link = "disconnected"
  /\ link' = "connecting"
  /\ waited' = 0 /\ quiet' = 0
  /\ UNCHANGED <<link_up, backoff, failed, uptime, unrefreshed, zone, gateway, routes>>

\* doip_client_reconnect_process, when the back-off is over.
AttemptSucceeds ==
  /\ Trying
  /\ waited >= backoff
  /\ link' = "connected" /\ link_up' = TRUE
  /\ backoff' = InitialBackoff /\ failed' = 0
  /\ waited' = 0 /\ quiet' = 0 /\ unrefreshed' = 0
  /\ UNCHANGED <<uptime, zone, gateway, routes>>

\* (mutant) the back-off starts from its first value after every failure.
AttemptFailsFlat ==
  /\ Trying
  /\ waited >= backoff
  /\ link' = "reconnecting"
  /\ backoff' = Upto(MaxBackoff, 2 * InitialBackoff)
  /\ failed' = Upto(MaxBackoff, failed + 1)
  /\ waited' = 0 /\ quiet' = 0
  /\ UNCHANGED <<link_up, uptime, unrefreshed, zone, gateway, routes>>

AttemptFails ==
  /\ Trying
  /\ waited >= backoff
  /\ link' = "reconnecting"
  /\ backoff' = Upto(MaxBackoff, 2 * backoff)
  /\ failed' = Upto(MaxBackoff, failed + 1)
  /\ waited' = 0 /\ quiet' = 0
  /\ UNCHANGED <<link_up, uptime, unrefreshed, zone, gateway, routes>>

Attempt == AttemptSucceeds \/ AttemptFails

\* The keep-alive is a placeholder: only its time is stored.
RefreshKeepAlive ==
  /\ link = "connected"
  /\ unrefreshed > KeepAlive
  /\ unrefreshed' = 0
  /\ UNCHANGED <<link, link_up, backoff, failed, uptime, waited, quiet,
                 zone, gateway, routes>>

\* (mutant) the reset counts as an attempt.
ResetAsAttempt ==
  /\ link' = "reconnecting" /\ link_up' = FALSE
  /\ backoff' = InitialBackoff /\ failed' = 0
  /\ waited' = 0
  /\ quiet' = MaxBackoff
  /\ UNCHANGED <<uptime, unrefreshed, zone, gateway, routes>>

\* doip_client_reconnect_reset: the last attempt is said to have been at time
\* zero, so the next one is due at once unless the node has just started.
Reset ==
  /\ link' = "reconnecting" /\ link_up' = FALSE
  /\ backoff' = InitialBackoff /\ failed' = 0
  /\ waited' = uptime
  /\ quiet' = MaxBackoff
  /\ UNCHANGED <<uptime, unrefreshed, zone, gateway, routes>>

\* doip_client_reconnect_cleanup closes the connection and leaves the state,
\* so that a start after it believes in the old connection; the client is
\* used again only after doip_client_reconnect_init.
Cleanup ==
  /\ link_up' = FALSE
  /\ UNCHANGED <<link, backoff, failed, timers, zone, gateway, routes>>

Reinit ==
  /\ link' = "disconnected" /\ link_up' = FALSE
  /\ backoff' = InitialBackoff /\ failed' = 0
  /\ waited' = uptime /\ unrefreshed' = Upto(KeepAlive + 1, uptime)
  /\ UNCHANGED <<uptime, quiet, zone, gateway, routes>>

CleanupAndInit == Cleanup \/ Reinit

GatewayNext ==
  \/ \E e \in EcuId, online \in Report : UpdateEcuInfo(e, online)
  \/ \E tcp, activated \in BOOLEAN : ConnectToVmg(tcp, activated)
  \/ Stop
  \/ \E a \in Address : RegisterEcu(a) \/ RouteToVmg(a)
  \/ Tick \/ Start \/ AttemptSucceeds \/ AttemptFails
  \/ RefreshKeepAlive \/ Reset \/ CleanupAndInit

GatewaySpec == GatewayInit /\ [][GatewayNext]_gatewayVars

\* Time passes and the task calls process again and again.
GatewayFairSpec == GatewaySpec /\ WF_gatewayVars(Tick) /\ WF_gatewayVars(Attempt)

-----------------------------------------------------------------------------

GatewayTypeOK ==
  /\ vci \in SeqOf([id : EcuId, online : Report], MaxEcus)
  /\ reported \in [EcuId -> Report \cup {Unknown}]
  /\ socket \in Nat
  /\ {is_connected, routing_active, vmg_connected, stopped, link_up} \subseteq BOOLEAN
  /\ routes \in SeqOf([address : Address, connected : BOOLEAN], MaxRoutes)
  /\ link \in {"disconnected", "connecting", "connected", "reconnecting"}
  /\ backoff \in InitialBackoff..MaxBackoff
  /\ {uptime, waited, quiet, failed} \subseteq 0..MaxBackoff
  /\ unrefreshed \in 0..KeepAlive + 1

\* The zone table lists each ECU once, with its latest report, and misses one
\* only when it is full: what is sent to the VMG as the zone's VCI and what
\* zg_check_ota_readiness decides on.  A broadcast reaches an address at most
\* once, and by the entry that requests to the address are routed to, although
\* registering does not look for an earlier entry of the address.
TablesCurrent ==
  /\ GatewayTypeOK
  /\ \A i, j \in DOMAIN vci : vci[i].id = vci[j].id => i = j
  /\ \A i \in DOMAIN vci : vci[i].online = reported[vci[i].id]
  /\ \A e \in EcuId :
       reported[e] # Unknown /\ Listed(e) = {} => Len(vci) = MaxEcus
  /\ \A i \in BroadcastTargets : FindEcu(routes[i].address) = i

\* The DoIP client holds one socket exactly while it says so, and when the
\* gateway believes in its connection there is an activated one, unless it
\* has been stopped since.
VmgLinkAgrees ==
  /\ socket = IF is_connected THEN 1 ELSE 0
  /\ routing_active => is_connected
  /\ vmg_connected => routing_active \/ stopped

\* Unless somebody asks for a reset, attempts keep a distance that doubles
\* with every failure up to the maximum and starts over after a success.
RetriesBackOff ==
  [][Attempt => quiet >= Upto(MaxBackoff, InitialBackoff * 2^failed)]_gatewayVars

\* A client that stays unconnected makes attempt after attempt, however often
\* it is reset in between.
AttemptsContinue == <>[]Trying => []<><<Attempt>>_gatewayVars
=============================================================================
