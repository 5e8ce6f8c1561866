------------------------- MODULE ZonalGatewayProofs -------------------------
(***************************************************************************)
(* Proofs about the zonal gateway.  Of its application (ZonalGateway): the *)
(* link to the vehicle gateway and the tables stay exact and attempts to   *)
(* connect back off, for any zone, any sizes and any delays.  Of its       *)
(* bootloader (ZonalBoot): what every jump hands over, when an application *)
(* may be rolled back, and that it implements VerifiedBoot, for any limit, *)
(* any width of the counters and any number of power losses and            *)
(* corruptions.  The two modules share no variable.                        *)
(***************************************************************************)
EXTENDS ZonalGateway, ZonalBoot, NumberLemmas, SequenceTheorems, TLAPS

-----------------------------------------------------------------------------
(* The link to the vehicle gateway.                                        *)

\* The flags are Booleans, and there is one socket exactly while the client
\* says so.
LinkInv ==
  /\ is_connected \in BOOLEAN /\ routing_active \in BOOLEAN
  /\ vmg_connected \in BOOLEAN /\ stopped \in BOOLEAN
  /\ is_connected => socket = 1
  /\ ~is_connected => socket = 0
  /\ routing_active => is_connected
  /\ vmg_connected => routing_active \/ stopped

LEMMA InitLink == GatewayInit => LinkInv
  BY Zenon DEF GatewayInit, LinkInv

\* A connection is only made while there is none; what the gateway remembers of
\* an earlier one stays behind a stop.
LEMMA ConnectStep ==
  ASSUME LinkInv, NEW tcp \in BOOLEAN, NEW activated \in BOOLEAN,
         ConnectToVmg(tcp, activated)
  PROVE  LinkInv'
<1>1. ~is_connected /\ ~routing_active /\ socket = 0
  BY Zenon DEF ConnectToVmg, LinkInv
<1>2. CASE tcp
  <2>1. socket' = 1
    BY <1>1, <1>2 DEF ConnectToVmg
  <2> QED
    BY <1>1, <1>2, <2>1, Zenon DEF ConnectToVmg, LinkInv
<1>3. CASE ~tcp
  <2>1. socket' = 0
    BY <1>1, <1>3 DEF ConnectToVmg
  <2> QED
    BY <1>1, <1>3, <2>1, Zenon DEF ConnectToVmg, LinkInv
<1> QED
  BY <1>2, <1>3

LEMMA StopStep ==
  ASSUME LinkInv, Stop
  PROVE  LinkInv'
  BY Zenon DEF LinkInv, Stop

LEMMA LinkStep == LinkInv /\ [GatewayNext]_gatewayVars => LinkInv'
<1> SUFFICES ASSUME LinkInv, [GatewayNext]_gatewayVars PROVE LinkInv'
  OBVIOUS
<1>1. CASE UNCHANGED gateway
  BY <1>1, Zenon DEF gateway, LinkInv
<1>2. ASSUME \/ \E e \in EcuId, online \in Report : UpdateEcuInfo(e, online)
             \/ \E a \in Address : RegisterEcu(a) \/ RouteToVmg(a)
             \/ Tick \/ Start \/ AttemptSucceeds \/ AttemptFails
             \/ RefreshKeepAlive \/ Reset \/ CleanupAndInit
      PROVE  UNCHANGED gateway
  BY <1>2, Zenon DEF UpdateEcuInfo, RegisterEcu, RouteToVmg, Tick, Start, AttemptSucceeds,
                     AttemptFails, RefreshKeepAlive, Reset, CleanupAndInit, Cleanup, Reinit
<1>3. UNCHANGED gatewayVars => UNCHANGED gateway
  BY DEF gatewayVars
<1> QED
  BY <1>1, <1>2, <1>3, ConnectStep, StopStep, Zenon DEF GatewayNext

\* The client's socket and flags agree with each other and with what the gateway
\* remembers of its connection (zg_connect_to_vmg, zg_stop), in any order of the
\* gateway's calls.
THEOREM LinkAgrees == GatewaySpec => []VmgLinkAgrees
<1>1. LinkInv => VmgLinkAgrees
  BY Zenon DEF LinkInv, VmgLinkAgrees
<1> QED
  BY <1>1, InitLink, LinkStep, PTL DEF GatewaySpec

-----------------------------------------------------------------------------
(* The tables and the timers.                                              *)

\* A bounded sequence is a sequence that is short enough.
LEMMA SeqOfFacts ==
  ASSUME NEW S, NEW n \in Nat, NEW s
  PROVE  s \in SeqOf(S, n) <=> s \in Seq(S) /\ Len(s) <= n
<1>1. ASSUME s \in SeqOf(S, n) PROVE s \in Seq(S) /\ Len(s) <= n
  BY <1>1 DEF SeqOf
<1>2. ASSUME s \in Seq(S), Len(s) <= n PROVE s \in SeqOf(S, n)
  <2>1. Len(s) \in 0..n /\ s \in [1..Len(s) -> S]
    BY <1>2
  <2> QED
    BY <2>1, Zenon DEF SeqOf
<1> QED
  BY <1>1, <1>2

\* A time that is cut off at its bound.
LEMMA UptoFacts ==
  ASSUME NEW a \in Nat, NEW b \in Nat
  PROVE  Upto(a, b) = IF b <= a THEN b ELSE a
  BY DEF Upto, Min

\* The search for the first entry of an address.
LEMMA FirstEntry ==
  ASSUME NEW r \in Seq([address : Address, connected : BOOLEAN]), NEW a
  PROVE  LET n == SelectInSeq(r, LAMBDA x : x.address = a)
         IN  \/ n = 0 /\ \A i \in 1..Len(r) : r[i].address # a
             \/ /\ n \in 1..Len(r) /\ r[n].address = a
                /\ \A i \in 1..Len(r) : r[i].address = a => n <= i
<1> DEFINE I == {i \in 1..Len(r) : r[i].address = a}
<1>1. CASE I = {}
  BY <1>1 DEF SelectInSeq
<1>2. CASE I # {}
  <2>1. \E m \in I : \A x \in I : m <= x
    <3>1. I \subseteq Nat
      OBVIOUS
    <3> HIDE DEF I
    <3> QED
      BY <1>2, <3>1, LeastNumber
  <2>2. Min(I) \in I /\ \A x \in I : Min(I) <= x
    <3> HIDE DEF I
    <3> QED
      BY <2>1 DEF Min
  <2>3. SelectInSeq(r, LAMBDA x : x.address = a) = Min(I)
    BY <1>2 DEF SelectInSeq
  <2> HIDE DEF I
  <2>4. LET n == Min(I)
        IN  /\ n \in 1..Len(r) /\ r[n].address = a
            /\ \A i \in 1..Len(r) : r[i].address = a => n <= i
    BY <2>2 DEF I
  <2> QED
    BY <2>3, <2>4, Zenon
<1> QED
  BY <1>1, <1>2

\* Each ECU of the zone is listed once, with its latest report, unless the
\* table was full.
ZoneInv ==
  /\ vci \in Seq([id : EcuId, online : Report]) /\ Len(vci) <= MaxEcus
  /\ reported \in [EcuId -> Report \cup {Unknown}]
  /\ \A i, j \in DOMAIN vci : vci[i].id = vci[j].id => i = j
  /\ \A i \in DOMAIN vci : vci[i].online = reported[vci[i].id]
  /\ \A e \in EcuId :
       reported[e] # Unknown /\ Listed(e) = {} => Len(vci) = MaxEcus

\* An entry that broadcasts reach is the first of its address.
RoutesInv ==
  /\ routes \in Seq([address : Address, connected : BOOLEAN])
  /\ Len(routes) <= MaxRoutes
  /\ \A i, j \in 1..Len(routes) :
       routes[i].connected /\ routes[j].address = routes[i].address => i <= j

\* The timers and the back-off stay in their bounds.
TimersInv ==
  /\ backoff \in InitialBackoff..MaxBackoff
  /\ uptime \in 0..MaxBackoff /\ waited \in 0..MaxBackoff
  /\ quiet \in 0..MaxBackoff /\ failed \in 0..MaxBackoff
  /\ unrefreshed \in 0..KeepAlive + 1

\* The reconnecting client is in one of its four states.
StateInv ==
  /\ link \in {"disconnected", "connecting", "connected", "reconnecting"}
  /\ link_up \in BOOLEAN

LEMMA StateStep == StateInv /\ [GatewayNext]_gatewayVars => StateInv'
  BY Zenon DEF StateInv, GatewayNext, gatewayVars, UpdateEcuInfo, ConnectToVmg, Stop,
       RegisterEcu, RouteToVmg, Tick, Start, AttemptSucceeds, AttemptFails,
       RefreshKeepAlive, Reset, CleanupAndInit, Cleanup, Reinit, client

LEMMA TimersStep == TimersInv /\ [GatewayNext]_gatewayVars => TimersInv'
<1> SUFFICES ASSUME TimersInv, [GatewayNext]_gatewayVars PROVE TimersInv'
  OBVIOUS
<1> USE ConstantsAssumption DEF TimersInv
<1>1. CASE Tick
  BY <1>1, UptoFacts DEF Tick
<1>2. CASE Start
  BY <1>2 DEF Start
<1>3. CASE AttemptSucceeds
  BY <1>3 DEF AttemptSucceeds
<1>4. CASE AttemptFails
  BY <1>4, UptoFacts DEF AttemptFails
<1>5. CASE RefreshKeepAlive
  BY <1>5 DEF RefreshKeepAlive
<1>6. CASE Reset
  BY <1>6 DEF Reset
<1>7. CASE CleanupAndInit
  <2>1. Upto(KeepAlive + 1, uptime) \in 0..KeepAlive + 1
    BY UptoFacts
  <2>2. CASE Cleanup
    BY <2>2 DEF Cleanup, timers
  <2>3. CASE Reinit
    BY <2>1, <2>3 DEF Reinit
  <2> QED
    BY <1>7, <2>2, <2>3 DEF CleanupAndInit
<1>8. CASE UNCHANGED client
  BY <1>8 DEF client, timers
<1>9. ASSUME \/ \E e \in EcuId, online \in Report : UpdateEcuInfo(e, online)
             \/ \E tcp, activated \in BOOLEAN : ConnectToVmg(tcp, activated)
             \/ Stop
             \/ \E a \in Address : RegisterEcu(a) \/ RouteToVmg(a)
             \/ UNCHANGED gatewayVars
      PROVE  UNCHANGED client
  BY <1>9, Zenon DEF UpdateEcuInfo, ConnectToVmg, Stop, RegisterEcu, RouteToVmg, gatewayVars
<1> QED
  BY <1>1, <1>2, <1>3, <1>4, <1>5, <1>6, <1>7, <1>8, <1>9 DEF GatewayNext

\* zg_update_ecu_info: the entry of an ECU is its only one.
LEMMA UpdateStep ==
  ASSUME ZoneInv, NEW e \in EcuId, NEW online \in Report, UpdateEcuInfo(e, online)
  PROVE  ZoneInv'
<1> USE ConstantsAssumption DEF ZoneInv
<1>1. /\ reported' = [reported EXCEPT ![e] = online]
      /\ reported' \in [EcuId -> Report \cup {Unknown}]
      /\ online # Unknown
  BY DEF UpdateEcuInfo, Report, Unknown
<1>2. CASE Listed(e) # {}
  <2>1. PICK i \in DOMAIN vci : vci[i].id = e
    BY <1>2 DEF Listed
  <2>2. Listed(e) = {i}
    BY <2>1 DEF Listed
  <2>3. i \in 1..Len(vci) /\ Min(Listed(e)) = i
    BY <2>1, <2>2 DEF Min
  <2>4. vci' = [vci EXCEPT ![i] = Entry(e, online)]
    BY <1>2, <2>3, Zenon DEF UpdateEcuInfo
  <2>5. /\ vci' \in Seq([id : EcuId, online : Report]) /\ Len(vci') = Len(vci)
        /\ vci'[i] = Entry(e, online)
        /\ \A j \in 1..Len(vci) : j # i => vci'[j] = vci[j]
    BY <2>3, <2>4 DEF Entry
  <2>6. \A j \in 1..Len(vci) : vci'[j].id = vci[j].id
    BY <2>1, <2>5 DEF Entry
  <2>7. \A d \in EcuId : Listed(d)' = Listed(d)
    BY <2>5, <2>6 DEF Listed
  <2>8. \A j \in DOMAIN vci' : vci'[j].online = reported'[vci'[j].id]
    <3>1. vci'[i].id = e /\ vci'[i].online = online /\ reported'[e] = online
      <4>1. vci'[i].id = e /\ vci'[i].online = online
        BY <2>5 DEF Entry
      <4>2. reported'[e] = online
        BY <1>1, Zenon
      <4> QED
        BY <4>1, <4>2
    <3>2. ASSUME NEW j \in 1..Len(vci), j # i
          PROVE  vci[j].id # e /\ vci[j].id \in EcuId
      <4>1. vci[j] \in [id : EcuId, online : Report]
        BY ElementOfSeq, Zenon
      <4>2. vci[j].id # e
        BY <2>1, <2>3, <3>2
      <4> QED
        BY <4>1, <4>2
    <3>3. \A j \in 1..Len(vci) :
            j # i => /\ vci'[j].online = vci[j].online
                     /\ reported'[vci[j].id] = reported[vci[j].id]
      BY <1>1, <2>5, <3>2
    <3>4. DOMAIN vci' = 1..Len(vci) /\ DOMAIN vci = 1..Len(vci)
      BY <2>5
    <3> QED
      BY <2>6, <3>1, <3>3, <3>4, ZenonT(40)
  <2>9. \A d \in EcuId :
          reported'[d] # Unknown /\ Listed(d)' = {} => Len(vci') = MaxEcus
    BY <1>1, <1>2, <2>5, <2>7
  <2>10. \A j, k \in DOMAIN vci' : vci'[j].id = vci'[k].id => j = k
    BY <2>3, <2>5, <2>6, SMTT(30)
  <2> QED
    BY <1>1, <2>5, <2>8, <2>9, <2>10, Zenon
<1>3. CASE Listed(e) = {} /\ Len(vci) < MaxEcus
  <2>1. vci' = Append(vci, Entry(e, online))
    BY <1>3, Zenon DEF UpdateEcuInfo
  <2>2. /\ vci' \in Seq([id : EcuId, online : Report]) /\ Len(vci') = Len(vci) + 1
        /\ vci'[Len(vci) + 1] = Entry(e, online)
        /\ \A j \in 1..Len(vci) : vci'[j] = vci[j]
    BY <2>1 DEF Entry
  <2>3. \A j \in 1..Len(vci) : vci[j].id # e
    BY <1>3 DEF Listed
  <2>4. \A d \in EcuId : Listed(d)' = {} => Listed(d) = {} /\ d # e
    BY <2>2 DEF Listed, Entry
  <2>5. \A d \in EcuId :
          reported'[d] # Unknown /\ Listed(d)' = {} => Len(vci') = MaxEcus
    BY <1>1, <1>3, <2>2, <2>4
  <2>6. \A j \in DOMAIN vci' : vci'[j].online = reported'[vci'[j].id]
    BY <1>1, <2>2, <2>3 DEF Entry
  <2>7. \A j, k \in DOMAIN vci' : vci'[j].id = vci'[k].id => j = k
    BY <2>2, <2>3, SMTT(30) DEF Entry
  <2> QED
    BY <1>1, <1>3, <2>2, <2>5, <2>6, <2>7
<1>4. CASE Listed(e) = {} /\ ~(Len(vci) < MaxEcus)
  <2>1. vci' = vci /\ Len(vci) = MaxEcus
    BY <1>4 DEF UpdateEcuInfo
  <2>2. \A j \in DOMAIN vci : vci[j].id # e
    BY <1>4 DEF Listed
  <2> QED
    BY <1>1, <2>1, <2>2 DEF Listed
<1> QED
  BY <1>2, <1>3, <1>4

\* diagnostic_router_register_ecu adds behind all entries of the address.
LEMMA RegisterStep ==
  ASSUME RoutesInv, NEW a \in Address, RegisterEcu(a)
  PROVE  RoutesInv'
<1> USE ConstantsAssumption DEF RoutesInv
<1>1. routes' = Append(routes, Route(a, FALSE)) /\ Len(routes) < MaxRoutes
  BY Zenon DEF RegisterEcu
<1>2. /\ routes' \in Seq([address : Address, connected : BOOLEAN])
      /\ Len(routes') = Len(routes) + 1
      /\ routes'[Len(routes) + 1] = Route(a, FALSE)
      /\ \A j \in 1..Len(routes) : routes'[j] = routes[j]
  BY <1>1 DEF Route
<1> QED
  BY <1>1, <1>2 DEF Route

\* diagnostic_router_route_to_vmg marks the first entry of the address.
LEMMA MarkStep ==
  ASSUME RoutesInv, NEW a \in Address, RouteToVmg(a)
  PROVE  RoutesInv'
<1> USE DEF RoutesInv
<1> DEFINE n == FindEcu(a)
<1>1. \/ n = 0
      \/ /\ n \in 1..Len(routes) /\ routes[n].address = a
         /\ \A i \in 1..Len(routes) : routes[i].address = a => n <= i
  BY FirstEntry, Zenon DEF FindEcu
<1>2. routes' = IF n = 0 THEN routes ELSE [routes EXCEPT ![n] = Route(a, TRUE)]
  BY Zenon DEF RouteToVmg
<1> HIDE DEF n
<1>3. CASE n = 0
  BY <1>2, <1>3
<1>4. CASE n # 0
  <2>1. /\ routes' \in Seq([address : Address, connected : BOOLEAN])
        /\ Len(routes') = Len(routes)
        /\ \A j \in 1..Len(routes) : routes'[j].address = routes[j].address
        /\ \A j \in 1..Len(routes) : j # n => routes'[j] = routes[j]
    BY <1>1, <1>2, <1>4 DEF Route
  <2>2. ASSUME NEW i \in 1..Len(routes), NEW j \in 1..Len(routes),
               routes'[i].connected, routes'[j].address = routes'[i].address
        PROVE  i <= j
    <3>1. routes[j].address = routes[i].address
      BY <2>1, <2>2
    <3>2. CASE i = n
      BY <1>1, <1>4, <3>1, <3>2
    <3>3. CASE i # n
      BY <2>1, <2>2, <3>1, <3>3
    <3> QED
      BY <3>2, <3>3
  <2> QED
    BY <2>1, <2>2
<1> QED
  BY <1>3, <1>4

\* The inductive invariant of the gateway's application.
TablesInv == LinkInv /\ StateInv /\ ZoneInv /\ RoutesInv /\ TimersInv

LEMMA TablesStep == TablesInv /\ [GatewayNext]_gatewayVars => TablesInv'
<1> SUFFICES ASSUME TablesInv, [GatewayNext]_gatewayVars PROVE TablesInv'
  OBVIOUS
<1>1. LinkInv' /\ StateInv' /\ TimersInv'
  BY LinkStep, StateStep, TimersStep DEF TablesInv
<1>2. ZoneInv'
  <2>1. CASE UNCHANGED zone
    BY <2>1, Zenon DEF zone, ZoneInv, Listed, TablesInv
  <2>2. ASSUME \/ \E tcp, activated \in BOOLEAN : ConnectToVmg(tcp, activated)
               \/ Stop
               \/ \E a \in Address : RegisterEcu(a) \/ RouteToVmg(a)
               \/ Tick \/ Start \/ AttemptSucceeds \/ AttemptFails
               \/ RefreshKeepAlive \/ Reset \/ CleanupAndInit
               \/ UNCHANGED gatewayVars
        PROVE  UNCHANGED zone
    BY <2>2, Zenon DEF ConnectToVmg, Stop, RegisterEcu, RouteToVmg, Tick, Start,
         AttemptSucceeds, AttemptFails, RefreshKeepAlive, Reset, CleanupAndInit, Cleanup,
         Reinit, gatewayVars
  <2> QED
    BY <2>1, <2>2, UpdateStep, Zenon DEF GatewayNext, TablesInv
<1>3. RoutesInv'
  <2>1. CASE UNCHANGED routes
    BY <2>1, Zenon DEF RoutesInv, TablesInv
  <2>2. ASSUME \/ \E e \in EcuId, online \in Report : UpdateEcuInfo(e, online)
               \/ \E tcp, activated \in BOOLEAN : ConnectToVmg(tcp, activated)
               \/ Stop \/ Tick \/ Start \/ AttemptSucceeds \/ AttemptFails
               \/ RefreshKeepAlive \/ Reset \/ CleanupAndInit
               \/ UNCHANGED gatewayVars
        PROVE  UNCHANGED routes
    BY <2>2, Zenon DEF UpdateEcuInfo, ConnectToVmg, Stop, Tick, Start,
         AttemptSucceeds, AttemptFails, RefreshKeepAlive, Reset, CleanupAndInit, Cleanup,
         Reinit, gatewayVars
  <2> QED
    BY <2>1, <2>2, RegisterStep, MarkStep, Zenon DEF GatewayNext, TablesInv
<1> QED
  BY <1>1, <1>2, <1>3 DEF TablesInv

\* The tables of the zone and of the router stay exact, for any number of ECUs,
\* of addresses and of entries: no report is kept in two places or out of date,
\* and a broadcast goes where requests are routed (zg_update_ecu_info,
\* diagnostic_router_register_ecu, diagnostic_router_route_to_vmg).
THEOREM TablesStayCurrent == GatewaySpec => []TablesCurrent
<1>1. GatewayInit => TablesInv
  <2> SUFFICES ASSUME GatewayInit PROVE TablesInv
    OBVIOUS
  <2>1. ZoneInv
    <3>1. reported \in [EcuId -> Report \cup {Unknown}]
      BY Zenon DEF GatewayInit
    <3>2. \A e \in EcuId : reported[e] = Unknown
      BY Zenon DEF GatewayInit
    <3>3. vci = <<>> /\ vci \in Seq([id : EcuId, online : Report]) /\ Len(vci) = 0
      BY DEF GatewayInit
    <3> QED
      BY <3>1, <3>2, <3>3, ConstantsAssumption DEF ZoneInv
  <2>2. RoutesInv
    BY ConstantsAssumption DEF GatewayInit, RoutesInv
  <2>3. TimersInv
    BY ConstantsAssumption DEF GatewayInit, TimersInv
  <2>4. StateInv
    BY Zenon DEF GatewayInit, StateInv
  <2> QED
    BY <2>1, <2>2, <2>3, <2>4, InitLink DEF TablesInv
<1>2. TablesInv => TablesCurrent
  <2> SUFFICES ASSUME TablesInv PROVE TablesCurrent
    OBVIOUS
  <2>1. /\ vci \in SeqOf([id : EcuId, online : Report], MaxEcus)
        /\ routes \in SeqOf([address : Address, connected : BOOLEAN], MaxRoutes)
    BY SeqOfFacts, ConstantsAssumption DEF TablesInv, ZoneInv, RoutesInv
  <2>2. socket \in Nat
    BY DEF TablesInv, LinkInv
  <2>3. GatewayTypeOK
    BY <2>1, <2>2 DEF GatewayTypeOK, TablesInv, ZoneInv, LinkInv, StateInv, TimersInv
  <2>4. ASSUME NEW i \in BroadcastTargets PROVE FindEcu(routes[i].address) = i
    <3> DEFINE n == FindEcu(routes[i].address)
    <3>1. i \in 1..Len(routes) /\ routes[i].connected
      BY <2>4 DEF BroadcastTargets, TablesInv, RoutesInv
    <3>2. \/ n = 0 /\ \A j \in 1..Len(routes) : routes[j].address # routes[i].address
          \/ /\ n \in 1..Len(routes) /\ routes[n].address = routes[i].address
             /\ \A j \in 1..Len(routes) :
                  routes[j].address = routes[i].address => n <= j
      BY FirstEntry, Zenon DEF FindEcu, TablesInv, RoutesInv
    <3> HIDE DEF n
    <3>3. n = i
      BY <3>1, <3>2 DEF TablesInv, RoutesInv
    <3> QED
      BY <3>3 DEF n
  <2> QED
    BY <2>3, <2>4 DEF TablesCurrent, TablesInv, ZoneInv
<1> QED
  BY <1>1, <1>2, TablesStep, PTL DEF GatewaySpec

-----------------------------------------------------------------------------
(* The distance of the attempts.                                           *)

\* The back-off is the first one doubled for every failure, and an attempt that
\* is due by the client's clock is due by the real one, since only a reset sets
\* the two apart.
BackoffInv ==
  /\ backoff = Upto(MaxBackoff, InitialBackoff * 2^failed)
  /\ Trying => waited <= quiet

\* Doubling a back-off that is cut at the maximum is cutting the doubled one,
\* also once the failures are no longer counted.
LEMMA BackoffDoubles ==
  ASSUME NEW n \in 0..MaxBackoff
  PROVE  Upto(MaxBackoff, 2 * Upto(MaxBackoff, InitialBackoff * 2^n))
           = Upto(MaxBackoff, InitialBackoff * 2^Upto(MaxBackoff, n + 1))
<1> DEFINE p == 2^n
           d == InitialBackoff * p
<1>1. n \in Nat /\ n + 1 \in Nat /\ MaxBackoff \in Nat /\ InitialBackoff \in Nat \ {0}
  BY ConstantsAssumption
<1>2. p \in Nat /\ n < p /\ 2^(n + 1) = 2 * p
  BY <1>1, PowerAbove, PowerDoubles, Zenon
<1>3. d \in Nat /\ p <= d /\ InitialBackoff * (2 * p) = 2 * d
  <2> HIDE DEF p
  <2> QED
    BY <1>1, <1>2
<1>4. CASE n < MaxBackoff
  <2>1. Upto(MaxBackoff, n + 1) = n + 1
    BY <1>1, <1>4, UptoFacts
  <2>2. InitialBackoff * 2^Upto(MaxBackoff, n + 1) = 2 * d
    BY <1>2, <1>3, <2>1, Zenon
  <2>3. Upto(MaxBackoff, 2 * Upto(MaxBackoff, d)) = Upto(MaxBackoff, 2 * d)
    <3> HIDE DEF d
    <3> QED
      BY <1>1, <1>3, UptoFacts
  <2> QED
    BY <2>2, <2>3, Zenon
<1>5. CASE n = MaxBackoff
  <2>1. Upto(MaxBackoff, n + 1) = n
    BY <1>1, <1>5, UptoFacts
  <2>2. InitialBackoff * 2^Upto(MaxBackoff, n + 1) = d
    BY <2>1, Zenon
  <2>3. Upto(MaxBackoff, 2 * Upto(MaxBackoff, d)) = Upto(MaxBackoff, d)
    <3> HIDE DEF d, p
    <3> QED
      BY <1>1, <1>2, <1>3, <1>5, UptoFacts
  <2> QED
    BY <2>2, <2>3, Zenon
<1> QED
  BY <1>1, <1>4, <1>5

LEMMA BackoffStep ==
  TimersInv /\ StateInv /\ BackoffInv /\ [GatewayNext]_gatewayVars => BackoffInv'
<1> SUFFICES ASSUME TimersInv, StateInv, BackoffInv, [GatewayNext]_gatewayVars
             PROVE  BackoffInv'
  OBVIOUS
<1> DEFINE delay(n) == Upto(MaxBackoff, InitialBackoff * 2^n)
<1>0. /\ MaxBackoff \in Nat /\ InitialBackoff \in Nat /\ failed \in 0..MaxBackoff
      /\ uptime \in 0..MaxBackoff /\ waited \in Nat /\ quiet \in Nat
      /\ backoff = delay(failed)
  BY ConstantsAssumption DEF TimersInv, BackoffInv
<1>a. delay(0) = InitialBackoff
  <2>1. InitialBackoff * 1 = InitialBackoff /\ InitialBackoff <= MaxBackoff
    BY ConstantsAssumption
  <2>2. Upto(MaxBackoff, InitialBackoff) = InitialBackoff
    BY <1>0, <2>1, UptoFacts
  <2> QED
    BY <2>1, <2>2, PowerOfZero, Zenon
<1>b. delay(Upto(MaxBackoff, failed + 1)) = Upto(MaxBackoff, 2 * backoff)
  BY <1>0, BackoffDoubles, Zenon
<1>c. BackoffInv' <=> backoff' = delay(failed') /\ (Trying' => waited' <= quiet')
  BY Zenon DEF BackoffInv
<1> HIDE DEF delay
<1>1. CASE Tick
  <2>1. backoff' = delay(failed') /\ link' = link
    BY <1>0, <1>1, Zenon DEF Tick
  <2>2. Trying => Upto(MaxBackoff, waited + 1) <= Upto(MaxBackoff, quiet + 1)
    BY <1>0, UptoFacts DEF BackoffInv
  <2> QED
    BY <1>c, <1>1, <2>1, <2>2, Zenon DEF Tick, Trying
<1>2. CASE Start
  BY <1>0, <1>c, <1>2 DEF Start
<1>3. CASE AttemptSucceeds
  BY <1>a, <1>c, <1>3 DEF AttemptSucceeds
<1>4. CASE AttemptFails
  BY <1>b, <1>c, <1>4 DEF AttemptFails
<1>5. CASE RefreshKeepAlive
  BY <1>0, <1>c, <1>5 DEF RefreshKeepAlive, Trying
<1>6. CASE Reset
  BY <1>0, <1>a, <1>c, <1>6 DEF Reset
<1>7. CASE Cleanup
  BY <1>0, <1>c, <1>7, Zenon DEF Cleanup, timers, Trying, BackoffInv
<1>8. CASE Reinit
  BY <1>a, <1>c, <1>8 DEF Reinit, Trying
<1>9. CASE UNCHANGED client
  BY <1>0, <1>c, <1>9, Zenon DEF client, timers, Trying, BackoffInv
<1>10. ASSUME \/ \E e \in EcuId, online \in Report : UpdateEcuInfo(e, online)
              \/ \E tcp, activated \in BOOLEAN : ConnectToVmg(tcp, activated)
              \/ Stop
              \/ \E a \in Address : RegisterEcu(a) \/ RouteToVmg(a)
              \/ UNCHANGED gatewayVars
       PROVE  UNCHANGED client
  BY <1>10, Zenon DEF UpdateEcuInfo, ConnectToVmg, Stop, RegisterEcu, RouteToVmg,
                      gatewayVars
<1> QED
  BY <1>1, <1>2, <1>3, <1>4, <1>5, <1>6, <1>7, <1>8, <1>9, <1>10
  DEF GatewayNext, CleanupAndInit

\* Attempts keep a distance that doubles with every failure up to the maximum,
\* whatever the first back-off and the maximum, and however resets and
\* reconnections are mixed (doip_client_reconnect_process).
THEOREM AttemptsBackOff == GatewaySpec => RetriesBackOff
<1> DEFINE A == Attempt => quiet >= Upto(MaxBackoff, InitialBackoff * 2^failed)
           I == TimersInv /\ StateInv /\ BackoffInv
<1>1. GatewayInit => I
  <2> SUFFICES ASSUME GatewayInit PROVE I
    OBVIOUS
  <2>1. TimersInv
    BY ConstantsAssumption DEF GatewayInit, TimersInv
  <2>2. StateInv
    BY Zenon DEF GatewayInit, StateInv
  <2>3. InitialBackoff * 1 = InitialBackoff
        /\ Upto(MaxBackoff, InitialBackoff) = InitialBackoff
    BY ConstantsAssumption, UptoFacts
  <2>4. backoff = Upto(MaxBackoff, InitialBackoff * 2^failed)
    BY <2>3, PowerOfZero, Zenon DEF GatewayInit
  <2>5. waited <= quiet
    BY DEF GatewayInit
  <2> QED
    BY <2>1, <2>2, <2>4, <2>5, Zenon DEF BackoffInv
<1>2. I /\ [GatewayNext]_gatewayVars => I'
  BY TimersStep, StateStep, BackoffStep, Zenon
<1>3. I /\ [GatewayNext]_gatewayVars => [A]_gatewayVars
  <2> SUFFICES ASSUME TimersInv, BackoffInv, Attempt
               PROVE  quiet >= backoff
    BY Zenon DEF BackoffInv
  <2>1. Trying /\ waited >= backoff
    BY Zenon DEF Attempt, AttemptSucceeds, AttemptFails
  <2>2. waited <= quiet
    BY <2>1, Zenon DEF BackoffInv
  <2>3. waited \in Nat /\ quiet \in Nat /\ backoff \in Nat
    BY ConstantsAssumption DEF TimersInv
  <2> QED
    BY <2>1, <2>2, <2>3
<1>4. RetriesBackOff <=> [][A]_gatewayVars
  BY Zenon DEF RetriesBackOff
<1> QED
  BY <1>1, <1>2, <1>3, <1>4, PTL DEF GatewaySpec

-----------------------------------------------------------------------------
(* The bootloader.                                                         *)

\* The other bank is a bank, and not the same one.
LEMMA OtherBankFacts ==
  \A b \in Bank : OtherBank(b) \in Bank /\ OtherBank(b) # b
                  /\ \A c \in Bank : c = b \/ c = OtherBank(b)
BY DEF Bank, BANK_A, BANK_B, OtherBank

\* A counter stays in its range, grows by at most one, and below the limit by
\* exactly one.
LEMMA BumpedFacts ==
  \A n \in 0 .. CntMod - 1 :
     /\ Bumped(n) \in 0 .. CntMod - 1 /\ Bumped(n) <= n + 1
     /\ n < MAX_BOOT_ATTEMPTS => Bumped(n) <= MAX_BOOT_ATTEMPTS
<1> SUFFICES ASSUME NEW n \in 0 .. CntMod - 1
             PROVE  Bumped(n) \in 0 .. CntMod - 1 /\ Bumped(n) <= n + 1
  BY BootAssumption
<1>1. CntMod \in Nat \ {0}
  BY BootAssumption
<1>2. CASE n + 1 < CntMod
  BY <1>1, <1>2 DEF Bumped
<1>3. CASE n + 1 = CntMod
  BY <1>1, <1>3 DEF Bumped
<1> QED BY <1>1, <1>2, <1>3

\* Types: no counter leaves its width, no state is left without a next one.
LEMMA BootTypes ==
  TypeOK /\ [Next]_vars => TypeOK'
<1> SUFFICES ASSUME TypeOK, [Next]_vars PROVE TypeOK'
  OBVIOUS
<1> USE DEF TypeOK, Stage1Points, OtaPoints, Stage2Points, dflash, images, locals,
            disturbances
<1>a. BANK_A \in Bank /\ BANK_A \in {0, 1} /\ Bank = {0, 1}
  BY DEF Bank, BANK_A, BANK_B
<1>b. 0 \in 0 .. CntMod - 1
  BY BootAssumption
<1>1. CASE Stage1Select
  BY <1>1, <1>a, OtherBankFacts DEF Stage1Select, SelectedStage2, BootConfig
<1>2. CASE Stage1Reset
  BY <1>2, <1>b DEF Stage1Reset, Write, BootConfig
<1>3. CASE Stage1ResetCrc
  BY <1>3 DEF Stage1ResetCrc, StoreCrc
<1>4. CASE Stage1Increment
  BY <1>4, BumpedFacts DEF Stage1Increment, Write, BootConfig
<1>5. CASE Stage1IncrementCrc
  BY <1>5 DEF Stage1IncrementCrc, StoreCrc
<1>6. CASE Stage1Verify
  BY <1>6, OtherBankFacts DEF Stage1Verify
<1>7. CASE Stage2CheckOta
  BY <1>7 DEF Stage2CheckOta
<1>8. CASE OtaToggle
  BY <1>8, OtherBankFacts DEF OtaToggle, Write, BootConfig
<1>9. CASE OtaToggleCrc
  BY <1>9 DEF OtaToggleCrc, StoreCrc
<1>10. CASE OtaClearCount
  BY <1>10, <1>b DEF OtaClearCount, Write, BootConfig
<1>11. CASE OtaClearPending
  BY <1>11 DEF OtaClearPending, Write, BootConfig
<1>12. CASE OtaFinish
  BY <1>12, <1>a DEF OtaFinish, Restart
<1>13. CASE Stage2Select
  BY <1>13, <1>a DEF Stage2Select, SelectedApp, BootConfig
<1>14. CASE Stage2Increment
  BY <1>14, BumpedFacts DEF Stage2Increment, Write, BootConfig
<1>15. CASE Stage2IncrementCrc
  BY <1>15 DEF Stage2IncrementCrc, StoreCrc
<1>16. CASE Stage2Check
  BY <1>16 DEF Stage2Check
<1>17. CASE Stage2Toggle
  BY <1>17, OtherBankFacts DEF Stage2Toggle, Write, BootConfig
<1>18. CASE Stage2ToggleCrc
  BY <1>18 DEF Stage2ToggleCrc, StoreCrc
<1>19. CASE Stage2ClearFallback
  BY <1>19, <1>a, <1>b DEF Stage2ClearFallback, Restart, BootConfig
<1>20. CASE Stage2Reset
  BY <1>20, <1>b DEF Stage2Reset, Write, BootConfig
<1>21. CASE Stage2Jump
  BY <1>21 DEF Stage2Jump, StoreCrc
<1>22. CASE ApplicationReset
  BY <1>22, <1>a DEF ApplicationReset, Restart
<1>23. CASE Reflash
  BY <1>23, OtherBankFacts DEF Reflash
<1>24. CASE RequestOta
  BY <1>24, OtherBankFacts DEF RequestOta, BootConfig
<1>25. CASE PowerLoss
  BY <1>25, <1>a, BoundAssumption DEF PowerLoss, Restart
<1>26. CASE DflashCorruption
  BY <1>26, <1>a, BoundAssumption DEF DflashCorruption, BootConfig
<1>27. CASE UNCHANGED vars
  BY <1>27 DEF vars
<1> QED BY <1>1, <1>2, <1>3, <1>4, <1>5, <1>6, <1>7, <1>8, <1>9, <1>10,
           <1>11, <1>12, <1>13, <1>14, <1>15, <1>16, <1>17, <1>18, <1>19,
           <1>20, <1>21, <1>22, <1>23, <1>24, <1>25, <1>26, <1>27
        DEF Next, Stage1Step, OtaStep, Stage2Step

\* What the points of Stage 1 and Stage 2 know of the images they are about to
\* start.
VerifiedInv ==
  /\ pc \in OtaPoints \cup Stage2Points \cup {"application"}
       => Accepts(stage2[active_bank])
  /\ pc \in {"stage2_reset", "stage2_reset_crc", "application"}
       => Accepts(app[active_app])

\* An image is looked at before the step that starts it, and Reflash reaches only
\* banks that do not run.
LEMMA VerifiedStep ==
  TypeOK /\ VerifiedInv /\ [Next]_vars => VerifiedInv'
<1> SUFFICES ASSUME TypeOK, VerifiedInv, [Next]_vars PROVE VerifiedInv'
  OBVIOUS
<1> USE DEF TypeOK, VerifiedInv, OtaPoints, Stage2Points, dflash, images, locals,
            disturbances
<1>1. CASE Stage1Select
  BY <1>1 DEF Stage1Select
<1>2. CASE Stage1Reset
  BY <1>2 DEF Stage1Reset, Write
<1>3. CASE Stage1ResetCrc
  BY <1>3 DEF Stage1ResetCrc, StoreCrc
<1>4. CASE Stage1Increment
  BY <1>4 DEF Stage1Increment, Write
<1>5. CASE Stage1IncrementCrc
  BY <1>5 DEF Stage1IncrementCrc, StoreCrc
<1>6. CASE Stage1Verify
  BY <1>6 DEF Stage1Verify
<1>7. CASE Stage2CheckOta
  BY <1>7 DEF Stage2CheckOta
<1>8. CASE OtaToggle
  BY <1>8 DEF OtaToggle, Write
<1>9. CASE OtaToggleCrc
  BY <1>9 DEF OtaToggleCrc, StoreCrc
<1>10. CASE OtaClearCount
  BY <1>10 DEF OtaClearCount, Write
<1>11. CASE OtaClearPending
  BY <1>11 DEF OtaClearPending, Write
<1>12. CASE OtaFinish
  BY <1>12 DEF OtaFinish, Restart
<1>13. CASE Stage2Select
  BY <1>13 DEF Stage2Select
<1>14. CASE Stage2Increment
  BY <1>14 DEF Stage2Increment, Write
<1>15. CASE Stage2IncrementCrc
  BY <1>15 DEF Stage2IncrementCrc, StoreCrc
<1>16. CASE Stage2Check
  BY <1>16 DEF Stage2Check
<1>17. CASE Stage2Toggle
  BY <1>17 DEF Stage2Toggle, Write
<1>18. CASE Stage2ToggleCrc
  BY <1>18 DEF Stage2ToggleCrc, StoreCrc
<1>19. CASE Stage2ClearFallback
  BY <1>19 DEF Stage2ClearFallback, Restart
<1>20. CASE Stage2Reset
  BY <1>20 DEF Stage2Reset, Write
<1>21. CASE Stage2Jump
  BY <1>21 DEF Stage2Jump, StoreCrc
<1>22. CASE ApplicationReset
  BY <1>22 DEF ApplicationReset, Restart
<1>23. CASE Reflash
  BY <1>23, OtherBankFacts DEF Reflash
<1>24. CASE RequestOta
  BY <1>24 DEF RequestOta
<1>25. CASE PowerLoss
  BY <1>25 DEF PowerLoss, Restart
<1>26. CASE DflashCorruption
  BY <1>26 DEF DflashCorruption
<1>27. CASE UNCHANGED vars
  BY <1>27 DEF vars
<1> QED BY <1>1, <1>2, <1>3, <1>4, <1>5, <1>6, <1>7, <1>8, <1>9, <1>10,
           <1>11, <1>12, <1>13, <1>14, <1>15, <1>16, <1>17, <1>18, <1>19,
           <1>20, <1>21, <1>22, <1>23, <1>24, <1>25, <1>26, <1>27
        DEF Next, Stage1Step, OtaStep, Stage2Step

\* What each point knows of the record.
RecordInv ==
  /\ pc \in {"stage1_verify", "stage2_ota", "stage2_select", "application"}
       => ConfigIntact
  /\ pc \in {"stage2_increment", "stage2_increment_crc", "stage2_check",
             "stage2_toggle", "stage2_reset", "stage2_reset_crc", "application"}
       => cfg.app_active = active_app
  /\ pc \in {"stage2_reset_crc", "application"} => cfg.app_boot_cnt[active_app] = 0

\* Every sequence of writes ends with the CRC, or with a restart.
LEMMA RecordStep ==
  TypeOK /\ RecordInv /\ [Next]_vars => RecordInv'
<1> SUFFICES ASSUME TypeOK, RecordInv, [Next]_vars PROVE RecordInv'
  OBVIOUS
<1> USE DEF TypeOK, RecordInv, ConfigIntact, BootConfig, dflash, images, locals,
            disturbances
<1>1. CASE Stage1Select
  BY <1>1 DEF Stage1Select
<1>2. CASE Stage1Reset
  BY <1>2 DEF Stage1Reset, Write
<1>3. CASE Stage1ResetCrc
  BY <1>3 DEF Stage1ResetCrc, StoreCrc
<1>4. CASE Stage1Increment
  BY <1>4 DEF Stage1Increment, Write
<1>5. CASE Stage1IncrementCrc
  BY <1>5 DEF Stage1IncrementCrc, StoreCrc
<1>6. CASE Stage1Verify
  BY <1>6 DEF Stage1Verify
<1>7. CASE Stage2CheckOta
  BY <1>7 DEF Stage2CheckOta
<1>8. CASE OtaToggle
  BY <1>8 DEF OtaToggle, Write
<1>9. CASE OtaToggleCrc
  BY <1>9 DEF OtaToggleCrc, StoreCrc
<1>10. CASE OtaClearCount
  BY <1>10 DEF OtaClearCount, Write
<1>11. CASE OtaClearPending
  BY <1>11 DEF OtaClearPending, Write
<1>12. CASE OtaFinish
  BY <1>12 DEF OtaFinish, Restart
<1>13. CASE Stage2Select
  BY <1>13 DEF Stage2Select, SelectedApp
<1>14. CASE Stage2Increment
  BY <1>14 DEF Stage2Increment, Write
<1>15. CASE Stage2IncrementCrc
  BY <1>15 DEF Stage2IncrementCrc, StoreCrc
<1>16. CASE Stage2Check
  BY <1>16 DEF Stage2Check
<1>17. CASE Stage2Toggle
  BY <1>17 DEF Stage2Toggle, Write
<1>18. CASE Stage2ToggleCrc
  BY <1>18 DEF Stage2ToggleCrc, StoreCrc
<1>19. CASE Stage2ClearFallback
  BY <1>19 DEF Stage2ClearFallback, Restart
<1>20. CASE Stage2Reset
  BY <1>20 DEF Stage2Reset, Write
<1>21. CASE Stage2Jump
  BY <1>21 DEF Stage2Jump, StoreCrc
<1>22. CASE ApplicationReset
  BY <1>22 DEF ApplicationReset, Restart
<1>23. CASE Reflash
  BY <1>23 DEF Reflash
<1>24. CASE RequestOta
  BY <1>24 DEF RequestOta
<1>25. CASE PowerLoss
  BY <1>25 DEF PowerLoss, Restart
<1>26. CASE DflashCorruption
  BY <1>26 DEF DflashCorruption
<1>27. CASE UNCHANGED vars
  BY <1>27 DEF vars
<1> QED BY <1>1, <1>2, <1>3, <1>4, <1>5, <1>6, <1>7, <1>8, <1>9, <1>10,
           <1>11, <1>12, <1>13, <1>14, <1>15, <1>16, <1>17, <1>18, <1>19,
           <1>20, <1>21, <1>22, <1>23, <1>24, <1>25, <1>26, <1>27
        DEF Next, Stage1Step, OtaStep, Stage2Step

\* Without corruption: a bank that is about to be counted is below the limit.
LimitInv ==
  corruptions = 0 =>
    /\ \A b \in Bank : cfg.stage2_boot_cnt[b] <= MAX_BOOT_ATTEMPTS
    /\ pc \in {"stage1_reset_crc", "stage1_increment"}
         => cfg.stage2_boot_cnt[active_bank] < MAX_BOOT_ATTEMPTS

\* stage1_check_boot_limit comes before the increment.
LEMMA LimitStep ==
  TypeOK /\ LimitInv /\ [Next]_vars => LimitInv'
<1> SUFFICES ASSUME TypeOK, LimitInv, [Next]_vars PROVE LimitInv'
  OBVIOUS
<1> USE BootAssumption DEF TypeOK, LimitInv, BootConfig, dflash, images, locals, disturbances
<1>1. CASE Stage1Select
  BY <1>1 DEF Stage1Select, SelectedStage2
<1>2. CASE Stage1Reset
  BY <1>2 DEF Stage1Reset, Write
<1>3. CASE Stage1ResetCrc
  BY <1>3 DEF Stage1ResetCrc, StoreCrc
<1>4. CASE Stage1Increment
  BY <1>4, BumpedFacts DEF Stage1Increment, Write
<1>5. CASE Stage1IncrementCrc
  BY <1>5 DEF Stage1IncrementCrc, StoreCrc
<1>6. CASE Stage1Verify
  BY <1>6 DEF Stage1Verify
<1>7. CASE Stage2CheckOta
  BY <1>7 DEF Stage2CheckOta
<1>8. CASE OtaToggle
  BY <1>8 DEF OtaToggle, Write
<1>9. CASE OtaToggleCrc
  BY <1>9 DEF OtaToggleCrc, StoreCrc
<1>10. CASE OtaClearCount
  BY <1>10 DEF OtaClearCount, Write
<1>11. CASE OtaClearPending
  BY <1>11 DEF OtaClearPending, Write
<1>12. CASE OtaFinish
  BY <1>12 DEF OtaFinish, Restart
<1>13. CASE Stage2Select
  BY <1>13 DEF Stage2Select
<1>14. CASE Stage2Increment
  BY <1>14 DEF Stage2Increment, Write
<1>15. CASE Stage2IncrementCrc
  BY <1>15 DEF Stage2IncrementCrc, StoreCrc
<1>16. CASE Stage2Check
  BY <1>16 DEF Stage2Check
<1>17. CASE Stage2Toggle
  BY <1>17 DEF Stage2Toggle, Write
<1>18. CASE Stage2ToggleCrc
  BY <1>18 DEF Stage2ToggleCrc, StoreCrc
<1>19. CASE Stage2ClearFallback
  BY <1>19 DEF Stage2ClearFallback, Restart
<1>20. CASE Stage2Reset
  BY <1>20 DEF Stage2Reset, Write
<1>21. CASE Stage2Jump
  BY <1>21 DEF Stage2Jump, StoreCrc
<1>22. CASE ApplicationReset
  BY <1>22 DEF ApplicationReset, Restart
<1>23. CASE Reflash
  BY <1>23 DEF Reflash
<1>24. CASE RequestOta
  BY <1>24 DEF RequestOta
<1>25. CASE PowerLoss
  BY <1>25 DEF PowerLoss, Restart
<1>26. CASE DflashCorruption
  BY <1>26 DEF DflashCorruption
<1>27. CASE UNCHANGED vars
  BY <1>27 DEF vars
<1> QED BY <1>1, <1>2, <1>3, <1>4, <1>5, <1>6, <1>7, <1>8, <1>9, <1>10,
           <1>11, <1>12, <1>13, <1>14, <1>15, <1>16, <1>17, <1>18, <1>19,
           <1>20, <1>21, <1>22, <1>23, <1>24, <1>25, <1>26, <1>27
        DEF Next, Stage1Step, OtaStep, Stage2Step

\* The counters of the applications: an attempt that did not end in a jump was
\* ended by a power loss.  The attempt that is being made, and a bank that is not
\* active, may be one ahead.
Slack(b) ==
  IF /\ b = cfg.app_active
     /\ pc \notin {"ota_toggle_crc", "ota_clear_count", "stage2_increment_crc",
                   "stage2_check", "stage2_toggle", "stage2_toggle_crc",
                   "stage2_clear", "stage2_reset"}
  THEN 0 ELSE 1

CountInv ==
  corruptions = 0 => \A b \in Bank : cfg.app_boot_cnt[b] <= losses + Slack(b)

\* A counter grows by one from the select of Stage 2 on, and the jump clears it.
LEMMA CountStep ==
  TypeOK /\ RecordInv /\ CountInv /\ [Next]_vars => CountInv'
<1> SUFFICES ASSUME TypeOK, RecordInv, CountInv, [Next]_vars PROVE CountInv'
  OBVIOUS
<1> USE DEF TypeOK, CountInv, Slack, BootConfig, dflash, images, locals, disturbances
<1>1. CASE Stage1Select
  BY <1>1 DEF Stage1Select
<1>2. CASE Stage1Reset
  BY <1>2 DEF Stage1Reset, Write
<1>3. CASE Stage1ResetCrc
  BY <1>3 DEF Stage1ResetCrc, StoreCrc
<1>4. CASE Stage1Increment
  BY <1>4 DEF Stage1Increment, Write
<1>5. CASE Stage1IncrementCrc
  BY <1>5 DEF Stage1IncrementCrc, StoreCrc
<1>6. CASE Stage1Verify
  BY <1>6 DEF Stage1Verify
<1>7. CASE Stage2CheckOta
  BY <1>7 DEF Stage2CheckOta
<1>8. CASE OtaToggle
  BY <1>8, OtherBankFacts DEF OtaToggle, Write
<1>9. CASE OtaToggleCrc
  BY <1>9 DEF OtaToggleCrc, StoreCrc
<1>10. CASE OtaClearCount
  BY <1>10 DEF OtaClearCount, Write
<1>11. CASE OtaClearPending
  BY <1>11 DEF OtaClearPending, Write
<1>12. CASE OtaFinish
  BY <1>12 DEF OtaFinish, Restart
<1>13. CASE Stage2Select
  BY <1>13 DEF Stage2Select
<1>14. CASE Stage2Increment
  BY <1>14, BumpedFacts DEF Stage2Increment, Write, RecordInv
<1>15. CASE Stage2IncrementCrc
  BY <1>15 DEF Stage2IncrementCrc, StoreCrc
<1>16. CASE Stage2Check
  BY <1>16 DEF Stage2Check
<1>17. CASE Stage2Toggle
  BY <1>17, OtherBankFacts DEF Stage2Toggle, Write
<1>18. CASE Stage2ToggleCrc
  BY <1>18 DEF Stage2ToggleCrc, StoreCrc
<1>19. CASE Stage2ClearFallback
  BY <1>19 DEF Stage2ClearFallback, Restart
<1>20. CASE Stage2Reset
  BY <1>20 DEF Stage2Reset, Write, RecordInv
<1>21. CASE Stage2Jump
  BY <1>21 DEF Stage2Jump, StoreCrc, RecordInv
<1>22. CASE ApplicationReset
  BY <1>22 DEF ApplicationReset, Restart
<1>23. CASE Reflash
  BY <1>23 DEF Reflash
<1>24. CASE RequestOta
  BY <1>24 DEF RequestOta
<1>25. CASE PowerLoss
  BY <1>25 DEF PowerLoss, Restart
<1>26. CASE DflashCorruption
  BY <1>26 DEF DflashCorruption
<1>27. CASE UNCHANGED vars
  BY <1>27 DEF vars
<1> QED BY <1>1, <1>2, <1>3, <1>4, <1>5, <1>6, <1>7, <1>8, <1>9, <1>10,
           <1>11, <1>12, <1>13, <1>14, <1>15, <1>16, <1>17, <1>18, <1>19,
           <1>20, <1>21, <1>22, <1>23, <1>24, <1>25, <1>26, <1>27
        DEF Next, Stage1Step, OtaStep, Stage2Step

\* The inductive invariant of the bootloader.
ZonalInv == TypeOK /\ VerifiedInv /\ RecordInv /\ LimitInv /\ CountInv

\* It holds always.
LEMMA ZonalAlways == Spec => []ZonalInv
<1>1. Init => ZonalInv
  <2> SUFFICES ASSUME Init PROVE ZonalInv
    OBVIOUS
  <2>1. PICK s \in Bank, a \in Bank : cfg = FreshConfig(s, a, 0)
    BY DEF Init
  <2>2. 0 \in 0 .. CntMod - 1 /\ BANK_A \in Bank
    BY BootAssumption DEF Bank, BANK_A
  <2>3. TypeOK
    BY <2>1, <2>2, BoundAssumption
    DEF Init, TypeOK, Stage1Points, FreshConfig, BootConfig
  <2>4. VerifiedInv /\ RecordInv
    BY DEF Init, VerifiedInv, RecordInv, OtaPoints, Stage2Points
  <2>5. LimitInv /\ CountInv
    BY <2>1, BootAssumption DEF Init, LimitInv, CountInv, Slack, FreshConfig
  <2> QED BY <2>3, <2>4, <2>5 DEF ZonalInv
<1>2. ZonalInv /\ [Next]_vars => ZonalInv'
  BY BootTypes, VerifiedStep, RecordStep, LimitStep, CountStep DEF ZonalInv
<1> QED BY <1>1, <1>2, PTL DEF Spec

\* What each jump of the zonal bootloader hands over, for every limit, counter
\* width and number of losses and corruptions (_start, stage2_main).
THEOREM ZonalSealed == Spec => []HandoverSealed
<1>1. ZonalInv => HandoverSealed
  BY DEF ZonalInv, RecordInv, LimitInv, HandoverSealed
<1> QED BY <1>1, ZonalAlways, PTL

\* Only Stage 2 itself moves from its check to the switch.
LEMMA OnlyCheckSwitches ==
  ASSUME [Next]_vars, pc = "stage2_check", pc' = "stage2_toggle"
  PROVE  Stage2Check
BY DEF Next, Stage1Step, OtaStep, Stage2Step, Stage1Select, Stage1Reset,
       Stage1ResetCrc, Stage1Increment, Stage1IncrementCrc, Stage1Verify,
       Stage2CheckOta, OtaToggle, OtaToggleCrc, OtaClearCount, OtaClearPending,
       OtaFinish, Stage2Select, Stage2Increment, Stage2IncrementCrc, Stage2Toggle,
       Stage2ToggleCrc, Stage2ClearFallback, Stage2Reset, Stage2Jump,
       ApplicationReset, Reflash, RequestOta, PowerLoss, DflashCorruption, Write,
       StoreCrc, Restart, vars

\* A healthy application is rolled back only after MAX_BOOT_ATTEMPTS - 1 losses,
\* however many updates come in between (stage2_main).
THEOREM ZonalAppKept == Spec => HealthyAppKept
<1> DEFINE Rolled == /\ pc = "stage2_check" /\ pc' = "stage2_toggle"
                     /\ Accepts(app[active_app]) /\ corruptions = 0
<1>1. ZonalInv /\ [Next]_vars => [Rolled => losses + 1 >= MAX_BOOT_ATTEMPTS]_vars
  <2> SUFFICES ASSUME ZonalInv, [Next]_vars, Rolled
               PROVE  losses + 1 >= MAX_BOOT_ATTEMPTS
    OBVIOUS
  <2>1. cfg.app_boot_cnt[active_app] >= MAX_BOOT_ATTEMPTS
    BY OnlyCheckSwitches, BootAssumption DEF Stage2Check, ZonalInv, TypeOK, BootConfig
  <2>2. cfg.app_boot_cnt[active_app] <= losses + 1
    BY DEF ZonalInv, CountInv, Slack, TypeOK, BootConfig
  <2> QED BY <2>1, <2>2, BootAssumption DEF ZonalInv, TypeOK, BootConfig
<1>2. HealthyAppKept <=> [][Rolled => losses + 1 >= MAX_BOOT_ATTEMPTS]_vars
  BY DEF HealthyAppKept
<1> QED BY <1>1, <1>2, ZonalAlways, PTL DEF Spec

\* The zonal bootloader implements VerifiedBoot: Stage2Jump is its Boot, safe
\* mode its Halt, every way out of the application or of safe mode its Reset.
THEOREM ZonalRefinement == Spec => RefinesVerifiedBoot
<1>1. Init => AbstractBoot!Init
  BY DEF Init, AbstractBoot!Init, BANK_A, AbstractBoot!Bank, Bank, BANK_B
<1>2. ZonalInv /\ [Next]_vars => [AbstractBoot!Next]_AbstractBoot!vars
  <2> SUFFICES ASSUME ZonalInv, [Next]_vars
               PROVE  AbstractBoot!Next \/ UNCHANGED AbstractBoot!vars
    OBVIOUS
  <2> USE DEF dflash, images, locals, disturbances, AbstractBoot!vars,
              AbstractBoot!images
  <2>1. CASE /\ pc \notin {"application", "safe_mode"}
             /\ pc' \notin {"application", "safe_mode"}
             /\ UNCHANGED images
    BY <2>1
  <2>2. CASE Stage2Jump
    <3>1. /\ stage2[active_bank] \in {f \in Faults : Accepts(f)}
          /\ app[active_app] \in {f \in Faults : Accepts(f)}
      BY <2>2 DEF Stage2Jump, StoreCrc, ZonalInv, TypeOK, VerifiedInv, Stage2Points
    <3>2. active_bank \in AbstractBoot!Bank /\ active_app \in AbstractBoot!Bank
      BY DEF ZonalInv, TypeOK, Bank, BANK_A, BANK_B, AbstractBoot!Bank
    <3>3. AbstractBoot!Boot
      BY <2>2, <3>1, <3>2 DEF Stage2Jump, StoreCrc, AbstractBoot!Boot
    <3> QED BY <3>3 DEF AbstractBoot!Next
  <2>3. CASE Stage1Verify
    <3>1. CASE pc' = "stage2_ota"
      BY <2>1, <2>3, <3>1 DEF Stage1Verify
    <3>2. CASE pc' = "safe_mode"
      <4>1. AbstractBoot!Halt
        BY <2>3, <3>2 DEF Stage1Verify, AbstractBoot!Halt, AbstractBoot!Bank, Bank,
                          BANK_A, BANK_B
      <4> QED BY <4>1 DEF AbstractBoot!Next
    <3> QED BY <2>3, <3>1, <3>2 DEF Stage1Verify
  <2>4. CASE pc \in {"application", "safe_mode"} /\ Restart /\ UNCHANGED images
    <3>1. AbstractBoot!Reset
      BY <2>4 DEF Restart, AbstractBoot!Reset, BANK_A
    <3> QED BY <3>1 DEF AbstractBoot!Next
  <2>5. CASE Reflash
    <3>1. AbstractBoot!Reflash
      BY <2>5 DEF Reflash, AbstractBoot!Reflash, OtherBank
    <3> QED BY <3>1 DEF AbstractBoot!Next
  <2>6. CASE RequestOta \/ UNCHANGED vars
    BY <2>6 DEF RequestOta, vars
  <2>7. CASE PowerLoss
    BY <2>7, <2>1, <2>4 DEF PowerLoss, Restart
  <2>8. CASE ApplicationReset
    BY <2>8, <2>4 DEF ApplicationReset
  <2>9. CASE Stage1Step
    BY <2>9, <2>1, <2>3
    DEF Stage1Step, Stage1Select, Stage1Reset, Stage1ResetCrc, Stage1Increment,
        Stage1IncrementCrc, Write, StoreCrc
  <2>10. CASE OtaStep
    BY <2>10, <2>1
    DEF OtaStep, OtaToggle, OtaToggleCrc, OtaClearCount, OtaClearPending, OtaFinish,
        Write, StoreCrc, Restart
  <2>11. CASE Stage2Step
    BY <2>11, <2>1, <2>2
    DEF Stage2Step, Stage2CheckOta, Stage2Select, Stage2Increment,
        Stage2IncrementCrc, Stage2Check, Stage2Toggle, Stage2ToggleCrc,
        Stage2ClearFallback, Stage2Reset, Write, StoreCrc, Restart
  <2>12. CASE DflashCorruption
    BY <2>12, <2>1 DEF DflashCorruption
  <2> QED BY <2>3, <2>5, <2>6, <2>7, <2>8, <2>9, <2>10, <2>11, <2>12 DEF Next
<1> QED BY <1>1, <1>2, ZonalAlways, PTL
        DEF Spec, RefinesVerifiedBoot, AbstractBoot!Spec
=============================================================================
