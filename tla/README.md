# Formal models of the vehicle gateway, zonal gateway and ECU software

The repository is the software of a vehicle network in four tiers: a cloud
server, a vehicle gateway (VMG, C++ on Linux), zonal gateways (ZG, C on TC375 or
C++ on Linux) and end node ECUs (C on TC375).  Tiers talk DoIP (ISO 13400) with
UDS (ISO 14229) inside, and every TC375 node starts through a two-stage
bootloader with two banks per stage.  This directory holds TLA+ modules of the
parts that carry control of their own, the TLC configurations that check them
and TLAPS proofs of what matters most.

`tlc -config X.cfg M` checks a run, `tlapm M.tla` checks the proofs of a module.
`PROJECT.json` maps each definition to source lines and lists runs, hazards,
findings and theorems.

## 1. Inventory

| Component | State | Operations | What is hard | What makes it correct |
|---|---|---|---|---|
| End node bootloader (`end_node_ecu/tc375/bootloader`) | DFLASH record: active banks, counters, CRC; PFLASH images | Stage 1 and Stage 2 boot, count, switch, jump | power loss between any two DFLASH writes; corrupt record | only verified images run; a bootable ECU boots; healthy images are kept |
| Zonal bootloader (`zonal_gateway/tc375/bootloader`) | the same and `ota_pending` | the same, the update path, safe mode | the same, and an interrupted update | the same, and updates end on the new image |
| TC375 UDS handler (`tc375_bootloader/common/uds_handler.c`) | session, security, lockout timer, transfer | one per UDS service | tick and block counter wrap, partial writes, order of requests | lockout lasts and ends; downloads are gapless |
| Simulated device, diagnostics (`tc375_simulator/src/uds_handler.cpp`, `ota_manager.cpp`) | session, security level, seed, transfer; OTA state, banks, valid flags | UDS services; download, write, verify, install, rollback | repeated blocks, counter wrap, new seeds and rollback in any state | a seed is good for one key; no block lost or doubled; the active bank is bootable |
| Remote diagnostics handler (`vehicle_gateway`) | pending map, routes, counters | request, periodic pass | duplicates, timeouts, retries | one answer per request, after all attempts |
| VMG DoIP server (`vehicle_gateway`) | sockets, session table, threads | accept, serve, stop | threads, reused descriptor numbers, shutdown | exact table, clean stop, no leak |
| DoIP client and ECU node (`tc375_bootloader/common`, `end_node_ecu/tc375/src`) | socket, flags, one TCP stream | discovery, start, heartbeat, stop | stream boundaries, timeouts, late answers, a `send()` that blocks | answers match requests; flags match the socket |
| Zonal gateway on TC375 (`zonal_gateway/tc375/src`) | zone table, link to the VMG; routing table; state and back-off of the reconnecting client | reports, registration, connect, stop, attempts | tables at their limits, flags that outlive sockets, timers | one current entry per ECU; flags match sockets; attempts back off and go on |
| VMG UDS service handler (`vehicle_gateway/src/uds_service_handler.cpp`) | seed, unlock state, attempts: one for all connections | UDS services under a mutex | clients interfere; a client that stops reading | answers in order; readers are served; seeds stop at the limit |
| Processes: Linux zonal gateway, simulated device, mbedTLS and PQC servers | sockets, threads, `running_`, signal handlers | start, worker loops, `stop()`, `main` | signals at any moment of `start()`, handled by any thread, several at once; threads using what is released | main never takes from a worker what it uses; signals end the program |
| Secure clients and servers: TLS, PQC-DoIP, HTTPS, MQTT, mbedTLS (Linux and TC375) | context, socket, session, buffers | create, connect, activate, destroy | failure at every stage of the set-up | no failure leaks, nothing is used before it exists |
| HSM access, persistent MQTT client, Ethernet, schemas, device data | library handles | wrappers | | not modelled, see 6 |

How they interact: the bootloader hands over from Stage 1 to Stage 2 to the
application through jumps and the DFLASH record only.  A downloaded image
reaches the banks through the UDS handler (TC375) or the OTA manager
(simulator).  The ECU node calls the DoIP client, which blocks on one TCP
connection to its gateway.  The VMG server calls one UDS handler under a mutex
for all its connections.  The remote diagnostics handler is called by the MQTT
side (requests) and by a periodic loop (timeouts).  The zonal gateway's three
parts share one application thread and no state.  In the simulated device the
UDS handler and the OTA manager serve one tester, and no call leads from one to
the other.

## 2. Modules

| Module | Models | Correspondence |
|---|---|---|
| `BootCommon` | `boot_common.h` | bank names, the DFLASH record `BootConfig`, the wrapping increment of a counter |
| `VerifiedBoot` | abstract specification | what both bootloaders promise: an application runs only if it and the Stage 2 that starts it are acceptable; the rest of the time the node is booting |
| `DualBankBoot` | end node Stage 1 and Stage 2 | one action per DFLASH write, check or jump of `stage1_main` and `stage2_main`, in the order of the code; environment: application reset, reflashing, power loss, corruption |
| `ZonalBoot` | zonal Stage 1 and Stage 2 | the same, with the pending-update path and safe mode |
| `DualBankBootProofs` | theorems about `DualBankBoot` | |
| `UdsHandler` | `uds_handler.c`, `uds_platform_tc375.c` | one action per service and early return; ticks modulo `TickMod`, block counter modulo `SeqMod` |
| `UdsHandlerProofs` | theorems about `UdsHandler` and `EcuLink` | |
| `OtaManager` | `ota_manager.cpp` and its simulated `Bootloader` | one action per public method |
| `SimulatorUds` | `tc375_simulator/src/uds_handler.cpp`, extends `OtaManager` | one action per service; a step of either side leaves the other alone |
| `SimulatorUdsProofs` | theorems about `SimulatorUds`, `OtaManager`, `ProcessShutdown` and `Endpoints` | |
| `RemoteDiagnostics` | `remote_diagnostics_handler.cpp` | one action per method; `Tick` is the clock; `history` is a ghost |
| `RemoteDiagnosticsProofs` | theorems about `RemoteDiagnostics` | |
| `DoIPServer` | threads and connections of `doip_server.cpp` | one action per step of a thread between two shared accesses |
| `DoIPServerProofs` | theorems about `DoIPServer` | |
| `EcuLink` | `ecu_node.c`, `doip_client.c`, `doip_message.c`, `doip_socket_lwip.c` | one action per return of a blocking call; messages are two fragments; the connection holds `SendBuffer` requests the gateway has not read, and `send()` waits when it is full |
| `VmgDiagnostics` | message handling of `doip_server.cpp`, `uds_service_handler.cpp` | one action per blocking step of a handler thread: receive, acknowledge, lock, call, reply; composes the connections with the one handler they share |
| `VmgDiagnosticsProofs` | theorems about `VmgDiagnostics` | |
| `ZonalGateway` | `zonal_gateway.c`, `diagnostic_router.c`, `doip_client_reconnect.c` | one action per function that changes state; times are differences to now, cut at the largest one compared with |
| `ZonalGatewayProofs` | theorems about `ZonalGateway` and `ZonalBoot` | |
| `NumberLemmas` | lemmas about numbers | that a set of numbers has a least element; what a counter that wraps, a difference of ticks and a successor are, for any modulus; how powers of two grow |
| `Endpoints` | set-up and release of the sockets, TLS, PQC and mbedTLS clients and servers | a set-up is a sequence of stages; for each, what the code frees when it fails; `Release` is what `main` and the destructors free; the set-up of the zonal gateway's TC375 client (`zonal_doip`) is a function without a `main` and ends with its return value |
| `ProcessShutdown` | `zonal_gateway_linux.cpp`, `device_simulator.cpp`, `doip_server_mbedtls.cpp` and the `main`s; extends `Endpoints` | one action per step of the main thread, a worker or a signal handler; each thread has the handlers that run on top of it (`handler`), each handle of a thread has the one that joins it (`joiner`) |

Each module lists, marked `(mutant)`, broken variants of its actions; each
property of a passing run is violated when one of them takes the place of the
action, so no property holds for want of behaviour.

A module of proofs covers the modules that model one device.  Where it extends
two of them, the definitions every module has (`Init`, `Next`, `Spec`) carry the
part's name in one: `GatewayInit`, `LinkNext`, `SimSpec`, `ProcessSpec`.

Images are abstracted to the set of faults a check can see (magic, CRC,
signature, version), and a corrupt record to one whose stored CRC differs from
its contents.  Time is counted in ticks.  A key is named by the seed it is right
for, a message by its type and the argument its handler looks at.

`VmgDiagnostics` and `DoIPServer` divide the VMG server: the first keeps the
connections up and models what flows on them, the second lets them come and go
and leaves the messages out.  Nothing of a message but its arrival touches the
table, the descriptors or `stop()`, and the shared UDS handler keeps its state
across connections, so neither side misses a step of the other.

## 3. Runs

| Run | Shows | Bounds |
|---|---|---|
| `end_node_boot` | the end node bootloader implements `VerifiedBoot`, boots whenever it can, hands over sealed records (`BootSound`), and leaves a healthy image only after enough power losses | limit 3, counters modulo 5, 2 power losses, 1 corruption |
| `zonal_boot` | the same for the zonal gateway, and that updates end | limit 2, counters modulo 4, 2 losses, 1 corruption |
| `zonal_ota_power_loss` | violation: an interrupted update returns to the old application | 1 loss |
| `uds` | lockout, unlocking and downloads | 2 attempts, a delay of 2 ticks, ticks modulo 4, block counter modulo 3, at most 3 bytes and 3 blocks |
| `simulator_diagnostics` | seeds are used once (`SeedUsedOnce`), transfers start proved and stay in sequence (`DownloadProved`, `BlocksInSequence`), updates keep the active bank valid and the running bank intact | 2 seeds, counter up to 2, 4 blocks of a transfer; images of 2 blocks, 3 writes |
| `remote_diagnostics` | one answer, all attempts, termination | 2 identifiers, 2 requests each, 2 ECUs, timeout 1, 2 retries, a pass at least every 3 ticks |
| `doip_server` | exact table, clean stop, release | 2 clients that come and go for ever, 2 descriptors, 2 messages of each client in flight |
| `doip_server_stop` | violation: `stop()` hangs on a silent client | 1 client |
| `ecu_link` | answers match, flags agree, calls return unless the gateway stops reading | 5 requests per connection, any fragmentation, a send buffer of 2 requests, discoveries between them |
| `vmg_diagnostics` | answers keep their order, a right key fails only after another client took a seed, seeds stop at the limit, readers are served | 2 clients, one of which may stop reading, 2 seeds, attempts modulo 4, send buffer of 1 message |
| `zonal_gateway` | tables exact at their limits, flags agree with sockets, attempts back off and never cease | 2 ECUs and a table of 1, 2 addresses and 3 routes, back-off 1 to 3, keep-alive 1 |
| `process_shutdown` | clean exits, empty-handed returns, signals end the process | 9 programs, each set-up failing at each stage, up to 3 signals of either kind on any threads, 2 clients of the mbedTLS server |

Why the bounds are enough: a limit of 2 or 3 with two power losses lets every
counter run up to, at and past its limit, the counter moduli are larger than the
limit so that a wrap is distinguishable from a reset, and one corruption can hit
any of the intermediate states.  Two descriptors with two returning clients give
every reuse of a number; two identifiers show interference between requests, and
two requests of one identifier the replacement.  Five requests reach the state in
which a late answer is answered by a later request twice over, and with a buffer
of two a gateway can stop reading before, during and after it fills.  Three signals
are one on main and two on workers, or two nested and one beside them: enough for a
handler that joins its own thread, one that joins what another joins, two that join
each other, and two that release at once.  In
`VmgDiagnostics` the attempts wrap just above their limit of 3, so the limit is
reached, passed and wrapped.  Two ECUs compete for a table of one, and a route
table with room for three of two addresses shows a duplicate if one can arise.
A back-off of 1, 2, 3 is doubled, cut and held.  Four blocks with a counter of 2
pass its wrap.

Fairness.  Bootloaders: the CPU keeps executing bootloader code (power losses are
finitely many in a behaviour); an application may run for ever.  UDS: none;
`LockoutEnds` states its own condition, a tester that keeps asking for access.  Remote diagnostics: the clock runs and `processPendingRequests` is called
("call periodically", `remote_diagnostics_handler.hpp`).  DoIP server: each
thread that can take a step does; nobody is obliged to connect, send or hang up,
and whether `close()` wakes a blocked `accept()` is the constant `CloseWakes`
(false on Linux).  ECU link: a `recv()` returns once there is data or its
timeout is over; a `send()`, which has no timeout (`doip_socket_lwip.c:88`), once
there is room or the connection is gone.  The gateway need not read, so
`CallsReturn` has an exception: a heartbeat may wait in `send()` for good.  VMG diagnostics: threads run, and a thread that waits for
`uds_mutex_` gets it in the end although others take it in between (strong
fairness: the mutex is free again and again, and the C++ library's mutex gives
no weaker chance to anyone than a scheduler that runs every thread); of the
clients only those in `Reader` have to read.  Zonal gateway: the clock runs and
the task calls `doip_client_reconnect_process` again and again; no attempt has to
succeed.  Processes: handlers and workers run and `connect()` returns; signals
need not come, and the peer of a TLS session need not read.  No fairness says which
thread gets a signal: POSIX lets the kernel choose any that does not block it, and
nothing in either program blocks signals in the workers (`main.cpp:41-42`,
`main.cpp:63-64`), so `Deliver` may choose any thread, and the same signal may
arrive again on another while its handler runs on the first.  Simulated device:
none.

## 4. Proofs

`DualBankBootProofs` proves for every limit, counter width and set of faults, and
any number of losses and corruptions, that the end node bootloader is type
correct, runs only verified code, hands over sealed records, explains its
counters, keeps healthy applications, and implements `VerifiedBoot` (safety).
`HealthyAppKept` is not inductive: whether Stage 2 gives up depends on the
counter, the counter on earlier losses, and the meaning of the record on whether
the CRC was stored after the last change.  The inductive invariant
`BootInv == TypeOK /\ OnlyVerifiedCodeRuns /\ RecordInv /\ CountInv` adds, for
each program location, which part of the record is sealed (`RecordInv`) and how
much of each counter is due to losses (`CountInv`).  Theorem `Sound` is the
invariant the run checks (`BootSound`: types, `OnlyVerifiedCodeRuns`,
`HandoverSealed` and `CountersExplained`), `Refinement` the implementation of
`VerifiedBoot`.

`HealthyStage2Kept` does not follow from it.  A stale CRC makes Stage 1 count an
attempt of bank A whatever bank the record names, and an image that is rejected
collects such attempts and keeps them when it is reflashed, so losses and attempts
are not tied to each other.  The attempt to prove it for every limit ended in a
counterexample: TLC finds that it holds for limits up to 5, and that with a limit
of 6 four losses are enough to leave a healthy image.  Theorem `Stage2Kept` therefore assumes
`MAX_BOOT_ATTEMPTS = 3`, the value in `boot_common.h:151`; it remains general in the
counter width, the faults and the bounds.  `NoLossInv` and `OneLossInv` follow the
record up to the second loss, after which the property asks for nothing: without a
loss a counter is at most one and the bank the record names is the one that runs,
and after one loss an image that would be accepted has at most one attempt left
over before the next is counted.

`RemoteDiagnosticsProofs` proves for every timeout, number of retries and finite
set of identifiers that each request is answered once, that an ECU sees it at
most `MAX_RETRIES + 1` times, and that a timeout is answered only after that many
whole timeouts.  The inductive invariant is
`DiagInv == TypeOK /\ AnsweredOnce /\ AttemptsComplete /\ RetryBudget`: patience
at the end needs the time that each attempt so far has taken, which is
`AttemptsComplete`.  Theorem `SoundRetries` is the invariant the run checks.

`UdsHandlerProofs` proves, for any limit, delay, width of the tick and of the
block counter, and any sizes of downloads:

- `LockoutLasts`: `LockoutHolds` needs the relation between the time and the
  refusals.  `LockoutInv` states it: while the handler is locked out, the ticks
  since the lockout began, in wrapping arithmetic, are the refusals plus one, and at
  most the delay.  A refusal adds one to both (`TickAdvances`: a difference of ticks
  grows by one also when the tick wraps); the wrong key at the limit sets both.
- `OwnKey`: `ProgrammingNeedsOwnKey` is inductive as it stands.
- `InOrder` and `ExitComplete` from `TransferInv`: the expected counter is the
  number of blocks modulo 255, plus one, and the accepted bytes are in the flash.
  The step over a wrap is `CounterFollows`.  A failed write only adds to the flash.

`SimulatorUdsProofs` proves, for any seeds, counter width, image size and number of
blocks: `OneKeyPerSeed` and `DownloadsProved` from `SeedInv` (a seed that is out
has had no key yet, and unlocked is proved), `InSequence` from `TransferInv` (the
types of the transfer with `BlocksInSequence`), and, for every order of downloads,
installations, rollbacks and reboots, `ActiveBankValid` and `RunningKept`.

`VmgDiagnosticsProofs` proves for any set of clients, seeds, width of the attempts
and size of the send buffer: `Ordered`, from `StreamInv == ThreadInv /\ FlowInv`;
`FlowInv` says that what a client is owed is what lies in its stream followed by
what its thread has still to send, which is where the program location of the
thread enters; `KeysHonoured` and `SeedLimit`, from `HandlerInv` (the stored seed
is the one given last, and the attempts are exact until they wrap).

The same module proves about `EcuLink`, for any number of calls, `AnswersMatch` and
`NodeFlagsAgree`.  That the answer is the caller's needs to know what is still in
the stream: `StreamInv` says that while no call has failed it holds nothing older
than the last request, that nothing follows a message that ends a call, and that it
is empty between calls, so what `recv` takes next cannot be an earlier answer.
`FlagsInv` adds the state inside an activation, in which connected and activated
differ.

`DoIPServerProofs` proves, for any set of clients and any number of descriptors,
`TableAlwaysMatches` and `StopAlwaysLeavesNothing` from
`ServerInv == TypeOK /\ CoreInv /\ StopInv`.  The table is exact because of who
refers to a session: `RefsInv` ties each reference to the position of a thread,
`OpenInv` says that two sessions somebody refers to never share a number and that a
number is open exactly while somebody does, and `SessionsInv` that the table's
references are its entries.  A number is reused only when the last reference is
gone, after the handler has erased its own entry.  `StopInv` says which threads
have ended at each point of `stop()` and that nobody starts one again; the accept
thread ends before the handlers are joined.

`ZonalGatewayProofs` proves for the application `LinkAgrees` from `LinkInv`, the same
statement with the types of the flags, and `TablesStayCurrent` from `TablesInv`.
The route table may hold an address twice; that a broadcast reaches it once rests on
`RoutesInv`: an entry marked as connected is the first of its address, since marking
looks from the front and registering appends.  `AttemptsBackOff` is the action
property `RetriesBackOff`, from `BackoffInv`: the back-off is the first one doubled
for every failure, cut at the maximum, and the client's clock is never ahead of the
real one while it is trying.  What it needs of powers of two (`PowerDoubles`,
`PowerAbove` in `NumberLemmas`) comes from counting subsets, the one fact about
powers the library has.  For the bootloader it proves
`ZonalSealed`, `ZonalAppKept` and `ZonalRefinement` from `ZonalInv`, the analogue of
`BootInv` with a part more, `LimitInv`: the counter of Stage 1, which counts every
boot, never exceeds the limit and is below it where it is about to be counted up.

`SimulatorUdsProofs` also proves, for any selection of the nine programs and any
number of signals, `ShutdownClean` and `ReturnsClean` from `ProcessInv == MainInv /\
HeldInv /\ WorkerInv /\ HandlerInv /\ StopInv`.  What is held is known from the
stage of the set-up and the program (`HeldInv`); the lemmas `SetUpShape`,
`FailureFrees` and `ReleaseFrees` go through the nine programs and are the only
place that looks at their lists.  `HandlerInv` says that handlers come with signals
and that main's handler passes a handle only when its worker has ended (`Past`), so
main releases only what no stored worker uses. `StopInv` is about the signals:
before any has come (`Calm`) `running_` is set and nothing has been joined or
released, and if one has come, which main handles in its loop (`Alone`), it finds
`running_` set and leaves `stop()` only when it has released.  What is left is the
socket to the VMG, and the theorem says so.  With a second signal, or with the first
on a worker, the theorem promises nothing about the workers at the end, since the
code does not: see 5.

Assumptions are the named `ASSUME`s of the modules: natural constants, limits of at
least 1, a counter width larger than its limit, a delay shorter than a wrap of the
tick, a finite set of identifiers, seeds that are not 0; and, of `Stage2Kept` alone,
the limit of the source.

Only model-checked: everything under fairness (`BootsWheneverItCan`,
`OtaEventuallyProcessed`, `LockoutEnds`, `EveryRequestAnswered`,
`GoneClientsReleased`, `CallsReturn`, `ReadersServed`, `AttemptsContinue`,
`SignalsEnd`), which is beyond the prover.  Every other property of a passing run is
the statement of a theorem.

## 5. Findings and observations

Shown by a run that expects a violation (details in `PROJECT.json`): the repeated
update switch of the zonal gateway, and the `stop()` that does not return.

Seen while modelling, and present in the models as the code has them unless a
line says otherwise.

Bootloaders and updates:

- The end node's Stage 1 stores the CRC of a switched record (`ssw_main.c:77`)
  before it clears the counter of the bank it switches to; if that counter was not
  zero, the next boot finds a wrong CRC and takes bank A, so a switch to B is put
  off by a boot that is counted against A.  With more than five attempts allowed
  this could make Stage 1 leave a healthy image early; with three it cannot
  (`Stage2Kept`).
- The end node's Stage 2 clears the counter before it jumps (`stage2_main.c:209`),
  so an application that verifies and always crashes is never rolled back.
- `OtaManager` erases a bank and leaves its valid flag (`ota_manager.cpp:71`);
  `rollback` then activates an erased bank.
- With both Stage 2 images invalid the end node resets for ever;
  `tc375_bootloader/README.md:164-169` describes an emergency mode.
- The zonal Stage 1 counts every boot and clears the counter only on a switch, so
  the boot after the limit leaves a healthy bank;
  `zonal_gateway/tc375/bootloader/README.md:71` speaks of failed boots.
- The zonal signature check is commented out; the same README, line 72, promises it.
- `uds_platform_ecu_reset` never returns, so the reply to an ECU reset is built
  and never sent (`uds_handler.c:185`, `:197`).
- `OtaManager::rollback` between an installation and the reboot activates the new
  firmware again; its progress passes 100% when a block is repeated.
- `uds_handler.c` has no RoutineControl although `UDS_IMPLEMENTATION_STATUS.md`
  lists it, and TransferExit checks no CRC.
- A remote diagnostics request is given up after four timeouts (20 s), where
  `docs/diagnostics/REMOTE_DIAGNOSTICS_ARCHITECTURE.md:237` says 15 s; the failure
  of an unrouted request is counted twice; no answer of an ECU is ever taken.

Connections of the ECU and the zonal gateway:

- After one call of the DoIP client fails, later calls on the connection may
  return the answer to an earlier request, and nothing in the client prevents it:
  `AnswerMatchesRequest` speaks only of connections on which no call has failed.  An
  acknowledgement and an answer in one `recv()` lose the answer.
- `doip_socket_tcp_send` is a blocking `send()` without a timeout, so a gateway that
  keeps the connection and stops reading can hold a heartbeat for ever
  (`CallsReturn` has this as its only exception).
- `ecu_stop` disconnects only a connected node, so the UDP socket of a discovery
  that no connection followed stays open; `doip_parse_vehicle_id_res` demands the
  status byte its comment calls optional (`doip_message.c:242`).
- `ecu_get_tick_ms` returns 0, so `ecu_run` never sends a heartbeat.
- `zg_connect_to_vmg` does not disconnect after a failed activation, unlike
  `ecu_connect_to_zg`, so every later attempt is refused until `zg_stop`
  (`VmgLinkAgrees` is about flags and the socket and does not forbid that); `zg_stop` disconnects and leaves `vmg_connected` set; `zg_init` ignores a
  failing `doip_client_init`.
- The reconnecting client: the "immediate retry" of a reset waits while the uptime
  is below the back-off; a start after a cleanup in the connected state answers
  "already connected"; with `GET_TIME_MS()` 0, as on bare metal, no attempt is
  ever made.
- OTA readiness of the zone is always false: battery and storage are set nowhere
  (only the example copy sets them).
- The Linux gateway never reconnects, never resets `vmg_connected_` and never
  closes the socket to the VMG (`vmg_client_socket_`), which is why `CleanExit` lists
  it as what may be left; the `stop()` after its main loop finds `running_` cleared
  and does nothing.

Vehicle gateway:

- `DoIPMessage::toBytes` swaps bytes twice on a little-endian host; `fromBytes`
  and the C code use network order (not modelled: no property is about layout).
- `max_clients` is never enforced, and one finished thread object per connection
  stays in `client_threads_` until `stop()`; a write to a client that has gone
  raises SIGPIPE.
- The shared UDS handler counts wrong keys in 8 bits, without a lockout of
  `SendKey` itself, also while unlocked; a key for seed 0 is right before any seed
  was requested; an activation is stored and never read.

Simulated device:

- `deserialize` drops the byte after the service, so requests in the layout of
  ISO 14229 are refused; `serialize` leaves out a sub-function of 0.
- A seed request locks in any state, the default session keeps the unlock, the
  transfer's exit checks nothing; writing and routines are not registered.
- A signal between the start of a thread and the assignment of its handle leaves
  that thread unjoined; a worker blocked in `SSL_write` blocks the first signal; a
  second signal that comes before the first has looked at `running_` is the one
  that waits.  Sensor readings are shared without a lock.
- This one and the Linux gateway install `stop()` and `exit()` as handlers of
  SIGINT and SIGTERM and block neither in their workers.  A signal handled by a
  worker joins that worker's own thread, and the exception of `join()` ends the
  process with workers running; so does joining a thread another handler joins.  A
  second signal that finds `running_` cleared ends the process by `exit(0)` at once,
  before the first has joined anything; two handlers in `disconnect()` free one TLS
  session twice.  The program ends in each case (`SignalsEnd`), but not cleanly;
  `CleanExit` promises that for a single signal handled by main in its loop.

TLS clients and servers:

- `TlsClient` leaks its context when the certificates cannot be loaded; the
  mbedTLS server frees nothing when its set-up fails (`ReturnsEmptyHanded` lists
  both).  `mbedtls_doip_client_init` (`mbedtls_doip.c:164-286`) frees nothing either
  on its early returns and leaves that to its caller, which its header does not say;
  nothing in the repository calls it, so it is not modelled.
- The mbedTLS server keeps the address of a local `client_fd` in the session
  (`mbedtls_doip.c:133`), never closes a connection, and cannot accept during a
  handshake; it looks at `running` only between two clients.
- The example server's threads are detached and use a session on the stack of
  the accepting loop.
- The PQC client writes header and payload as two records and leaves the rest of
  an over-long payload unread; the MQTT packet identifier may wrap to 0.

## 6. Not modelled

- `mbedtls_doip_client_init`, `_free` and what lies between them: nothing calls
  them, so there is no `main` whose behaviour could be followed.  Of the TC375 client
  (`doip_client_mbedtls.c`), whose functions nothing calls either, only the set-up
  and what it frees itself when it fails are modelled.
- What a handler may not do in a signal context (allocate, print, lock) and what
  the C library makes of it: `stop()` and `exit()` are taken to run as anywhere else,
  and an exception that leaves a handler to end the process.
- `doip_client_reconnect_start` in a state other than disconnected; a report whose
  `ecu_id` argument differs from the one in its record, which no caller makes.
- `mqtt_client_persistent.hpp` is a class declaration without an implementation;
  `vmg_gateway.cpp` and `device_info.cpp` start or report what the others provide.
- HSM functions are stubs around registers; cryptography and its parameters are the
  libraries'.
- `unified_message.hpp`, the JSON schemas, metrics, scripts and most examples format
  data; Ethernet bring-up writes registers.
- The end node bootloader's old copy under `tc375_bootloader/` has the control flow
  of the one modelled.
- Flash writes of the zonal update are commented out in the source; so are the
  zonal gateway's servers for its ECUs, the sending of remote requests and the
  rounds of the Linux gateway's server and discovery threads.
- The table of pending requests of the diagnostic router, which nothing fills, and
  counters that are only reported.
- Memory of finished handler threads and the effect of SIGPIPE on the server
  process are outside `DoIPServer`; the layout and byte order of DoIP headers are
  outside `EcuLink`.
- The answer of the TC375 client to an alive check, which has no caller; what a
  vehicle identification says, which nobody reads.

## 7. Plan

What is left, in this order:

1. Layout and byte order of DoIP headers against a reference definition.
2. An abstract specification of a diagnostic exchange, implemented by `EcuLink` and
   `VmgDiagnostics` as `VerifiedBoot` is by the two bootloaders.
3. The action properties behind the liveness properties, such as that the variant of
   a back-off or of a shutdown never grows, which can be proved where the liveness
   itself cannot.
