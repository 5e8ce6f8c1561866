--------------------------- MODULE ProcessShutdown ---------------------------
(***************************************************************************)
(* Start, threads and end of the programs of Endpoints.  The Linux zonal   *)
(* gateway (zonal_gateway/linux) and the simulated device (tc375_simulator *)
(* /main.cpp, device_simulator.cpp) have one skeleton: the main thread     *)
(* acquires what the workers use, sets running_, starts the workers one    *)
(* after the other and sleeps.  SIGINT and SIGTERM call stop() and exit()  *)
(* on top of whatever a thread is doing.  The workers inherit a mask that  *)
(* blocks neither, so that a signal may be handled by main or by a worker; *)
(* it is blocked during its own handler, in that thread alone.  A handler  *)
(* never returns.  One on a worker may find that worker's own handle in    *)
(* stop(): the join fails, and the exception ends the process.  So does    *)
(* joining what another handler is joining.                                *)
(*                                                                         *)
(* The gateway's server and discovery rounds are stubs that return at      *)
(* once, its client thread connects and then only sleeps; the socket to    *)
(* the VMG is closed by nobody.  In the simulator the worker writes to the *)
(* TLS session and the sensor thread changes readings that no property is  *)
(* about.                                                                  *)
(*                                                                         *)
(* The mbedTLS server (doip_server_mbedtls.cpp) accepts one client after   *)
(* the other, its handshake included, and gives each a handler thread; a   *)
(* signal only clears running, which is looked at between two clients.  A  *)
(* handler reads through the address of accept's local client_fd, which is *)
(* gone by then: it may find its connection, another one or none, so that  *)
(* it may end at any time.  The connection itself is never closed.         *)
(***************************************************************************)
EXTENDS Endpoints, FiniteSets

CONSTANT MaxSignals  \* how many signals come at most

ASSUME MaxSignalsAssumption == MaxSignals \in Nat

VARIABLES
  handler,   \* of each thread: the signals on its stack, and the newest handler
  running,   \* running_
  started,   \* how many workers have been started
  stored,    \* how many of them have their handle in the object
  joiner,    \* of each handle: who joins it, if anybody does or has
  worker,    \* state of each worker
  closers,   \* ghost: threads whose handler has released what there was
  reads,     \* the peer of the TLS session reads
  ended      \* the process has ended

threads == <<started, worker>>
stopVars == <<handler, joiner, closers>>
processVars == <<endpointVars, stopVars, running, stored, threads, reads, ended>>

-----------------------------------------------------------------------------

Signal == {"SIGINT", "SIGTERM"}

\* The workers in the order in which they are started and joined.  The server
\* has two clients at most, in this model.
Workers ==
  CASE program = "gateway" -> <<"server", "discovery", "client">>
    [] program = "simulator" -> <<"worker", "sensor">>
    [] program = "mbed_server" -> <<"first", "second">>
    [] OTHER -> <<>>

Name == {"server", "discovery", "client", "worker", "sensor", "first", "second"}
Connection == {"first", "second"}
Thread == Name \cup {"main"}

\* The two programs whose signal handlers stop them.
Stopped == program \in {"gateway", "simulator"}

\* A thread without a handler; "next" is the number of handles stop() is done
\* with.
NoHandler == [blocked |-> {}, pc |-> "none", next |-> 0]

ProcessInit ==
  /\ EndpointInit
  /\ handler = [t \in Thread |-> NoHandler]
  /\ joiner = [w \in Name |-> "nobody"] /\ closers = {}
  /\ running = (program = "mbed_server") /\ stored = 0
  /\ started = 0 /\ worker = [w \in Name |-> "none"]
  /\ reads = TRUE /\ ended = FALSE

-----------------------------------------------------------------------------
(* The main thread, while no handler runs on top of it.                    *)

Own(t) == ~ended /\ handler[t].pc = "none"
Free == Own("main")
InMain(pc) == Free /\ Stopped /\ main = pc

\* Set-up, the dialogues of the clients and the way out of main.
Endpoint ==
  /\ Free
  /\ \/ StagePasses \/ StageFails \/ Activates \/ Returns
     \/ PqcServerAccepts \/ PqcServerEchoes
  /\ ended' = (main' = "returned")
  /\ UNCHANGED <<stopVars, running, stored, threads, reads>>

SetRunning ==
  /\ InMain("up")
  /\ running' = TRUE
  /\ main' = "spawn"
  /\ UNCHANGED <<program, stage, held, stopVars, stored, threads, reads, ended>>

\* A thread runs before its handle is assigned.  The gateway's client connects
\* first thing.
Spawn ==
  /\ InMain("spawn")
  /\ started' = started + 1
  /\ worker' = [worker EXCEPT ![Workers[started + 1]] =
                  IF Workers[started + 1] = "client" THEN "busy" ELSE "idle"]
  /\ main' = "store"
  /\ UNCHANGED <<program, stage, held, stopVars, running, stored, reads, ended>>

Store ==
  /\ InMain("store")
  /\ stored' = started
  /\ main' = IF started = Len(Workers) THEN "loop" ELSE "spawn"
  /\ UNCHANGED <<program, stage, held, stopVars, running, threads, reads, ended>>

\* running_ is clear: main stops what is stopped already and returns.  Where a
\* handle has not been joined its destructor ends the process.
MainLeaves ==
  /\ InMain("loop") /\ ~running
  /\ ended' = TRUE
  /\ UNCHANGED <<endpointVars, stopVars, running, stored, threads, reads>>

Start == Endpoint \/ SetRunning \/ Spawn \/ Store \/ MainLeaves

-----------------------------------------------------------------------------
(* The main thread of the mbedTLS server.                                  *)

InServer(pc) == Free /\ program = "mbed_server" /\ main = pc

\* accept() returns with the next client.
ServerAccepts ==
  /\ InServer("up") /\ running
  /\ started < Len(Workers)
  /\ held' = held \cup {Workers[started + 1]}
  /\ main' = "accepted"
  /\ UNCHANGED <<program, stage, stopVars, running, stored, threads, reads, ended>>

\* The session cannot be set up, or the client gives up the handshake.
HandshakeFails ==
  /\ InServer("accepted")
  /\ held' = held \ {Workers[started + 1]}
  /\ main' = "up"
  /\ UNCHANGED <<program, stage, stopVars, running, stored, threads, reads, ended>>

HandshakePasses ==
  /\ InServer("accepted")
  /\ started' = started + 1 /\ stored' = started + 1
  /\ worker' = [worker EXCEPT ![Workers[started + 1]] = "busy"]
  /\ main' = "up"
  /\ UNCHANGED <<program, stage, held, stopVars, running, reads, ended>>

\* After the loop every handler is joined, and the server freed.
ServerReturns ==
  /\ InServer("up") /\ ~running
  /\ \A i \in 1..stored : worker[Workers[i]] = "done"
  /\ held' = held \ MbedServerRelease
  /\ main' = "returned" /\ ended' = TRUE
  /\ UNCHANGED <<program, stage, stopVars, running, stored, threads, reads>>

Server == ServerAccepts \/ HandshakeFails \/ HandshakePasses \/ ServerReturns

-----------------------------------------------------------------------------
(* The workers' loops.                                                     *)

\* running_ is looked at, then the round is made.
BeginRound ==
  /\ Own("worker") /\ running
  /\ worker["worker"] = "idle"
  /\ worker' = [worker EXCEPT !["worker"] = "busy"]
  /\ UNCHANGED <<endpointVars, stopVars, running, stored, started, reads, ended>>

\* connect() of the gateway's client returns in any case; without a connection
\* the thread ends.
ConnectEnds ==
  /\ Own("client")
  /\ worker["client"] = "busy"
  /\ \/ /\ held' = held \cup {"vmg_client"}
        /\ worker' = [worker EXCEPT !["client"] = "idle"]
     \/ /\ UNCHANGED held
        /\ worker' = [worker EXCEPT !["client"] = "done"]
  /\ UNCHANGED <<program, main, stage, stopVars, running, stored, started, reads, ended>>

\* A heartbeat or a report is written when the peer of the session reads.
WriteEnds ==
  /\ Own("worker") /\ reads
  /\ worker["worker"] = "busy"
  /\ worker' = [worker EXCEPT !["worker"] = "idle"]
  /\ UNCHANGED <<endpointVars, stopVars, running, stored, started, reads, ended>>

\* A handler of the server answers until reading fails.
SessionEnds(w) ==
  /\ ~ended
  /\ w \in Connection /\ worker[w] = "busy"
  /\ worker' = [worker EXCEPT ![w] = "done"]
  /\ UNCHANGED <<endpointVars, stopVars, running, stored, started, reads, ended>>

Leave(w) ==
  /\ Own(w) /\ ~running
  /\ worker[w] = "idle"
  /\ worker' = [worker EXCEPT ![w] = "done"]
  /\ UNCHANGED <<endpointVars, stopVars, running, stored, started, reads, ended>>

PeerReads ==
  /\ ~ended
  /\ program = "simulator"
  /\ reads' = ~reads
  /\ UNCHANGED <<endpointVars, stopVars, running, stored, threads, ended>>

-----------------------------------------------------------------------------
(* The signal handlers and stop().                                         *)

Delivered == {d \in Thread \X Signal : d[2] \in handler[d[1]].blocked}
CanHandle(t) == t # "main" => worker[t] \in {"idle", "busy"}

\* Any thread that does not block the signal.
Deliver(t, s) ==
  /\ ~ended /\ Stopped
  /\ Cardinality(Delivered) < MaxSignals
  /\ CanHandle(t) /\ s \notin handler[t].blocked
  /\ handler' = [handler EXCEPT ![t] =
                   [blocked |-> handler[t].blocked \cup {s}, pc |-> "check", next |-> 0]]
  /\ UNCHANGED <<endpointVars, joiner, closers, running, stored, threads, reads, ended>>

\* The server's handler, installed after the set-up.
ServerSignal ==
  /\ ~ended
  /\ program = "mbed_server" /\ main \in {"up", "accepted"}
  /\ running' = FALSE
  /\ UNCHANGED <<endpointVars, stopVars, stored, threads, reads, ended>>

At(t, pc) == ~ended /\ handler[t].pc = pc
GoTo(t, pc) == handler' = [handler EXCEPT ![t].pc = pc]

StopCheck(t) ==
  /\ At(t, "check")
  /\ GoTo(t, IF running THEN "clear" ELSE "exit")
  /\ UNCHANGED <<endpointVars, joiner, closers, running, stored, threads, reads, ended>>

\* (mutant) the workers are not told.
StopClearForgotten(t) ==
  /\ At(t, "clear")
  /\ GoTo(t, "join")
  /\ UNCHANGED <<endpointVars, joiner, closers, running, stored, threads, reads, ended>>

StopClear(t) ==
  /\ At(t, "clear")
  /\ GoTo(t, "join")
  /\ running' = FALSE
  /\ UNCHANGED <<endpointVars, joiner, closers, stored, threads, reads, ended>>

Joinable(i) == i <= stored /\ joiner[Workers[i]] # "joined"

\* The thread itself, one that somebody joins, or one that joins this one.
Clash(t, w) == w = t \/ joiner[w] # "nobody" \/ (t # "main" /\ joiner[t] = w)

\* A handle that is not there, or not any more.
StopSkip(t) ==
  /\ At(t, "join") /\ handler[t].next < Len(Workers)
  /\ ~Joinable(handler[t].next + 1)
  /\ handler' = [handler EXCEPT ![t].next = handler[t].next + 1]
  /\ UNCHANGED <<endpointVars, joiner, closers, running, stored, threads, reads, ended>>

StopJoin(t) ==
  /\ At(t, "join") /\ handler[t].next < Len(Workers)
  /\ LET w == Workers[handler[t].next + 1]
     IN /\ Joinable(handler[t].next + 1) /\ ~Clash(t, w)
        /\ joiner' = [joiner EXCEPT ![w] = t]
  /\ GoTo(t, "wait")
  /\ UNCHANGED <<endpointVars, closers, running, stored, threads, reads, ended>>

\* std::thread::join() throws; uncaught on a worker, and main only returns.
JoinThrows(t) ==
  /\ At(t, "join") /\ handler[t].next < Len(Workers)
  /\ Joinable(handler[t].next + 1) /\ Clash(t, Workers[handler[t].next + 1])
  /\ ended' = TRUE
  /\ UNCHANGED <<endpointVars, stopVars, running, stored, threads, reads>>

\* (mutant) the thread is let go instead.
StopDetached(t) ==
  /\ At(t, "wait")
  /\ LET w == Workers[handler[t].next + 1]
     IN joiner' = [joiner EXCEPT ![w] = "joined"]
  /\ handler' = [handler EXCEPT ![t].pc = "join", ![t].next = handler[t].next + 1]
  /\ UNCHANGED <<endpointVars, closers, running, stored, threads, reads, ended>>

StopJoined(t) ==
  /\ At(t, "wait")
  /\ LET w == Workers[handler[t].next + 1]
     IN /\ worker[w] = "done"
        /\ joiner' = [joiner EXCEPT ![w] = "joined"]
  /\ handler' = [handler EXCEPT ![t].pc = "join", ![t].next = handler[t].next + 1]
  /\ UNCHANGED <<endpointVars, closers, running, stored, threads, reads, ended>>

\* All handles are looked after: closeServerSockets or disconnect() is next.
StopAllJoined(t) ==
  /\ At(t, "join") /\ handler[t].next = Len(Workers)
  /\ GoTo(t, "release")
  /\ UNCHANGED <<endpointVars, joiner, closers, running, stored, threads, reads, ended>>

StopRelease(t) ==
  /\ At(t, "release")
  /\ held' = held \ (IF program = "gateway" THEN GatewayRelease
                     ELSE TlsClientRelease(IsUp))
  /\ closers' = closers \cup {t}
  /\ GoTo(t, "exit")
  /\ UNCHANGED <<program, main, stage, joiner, running, stored, threads, reads, ended>>

\* Two handlers free one TLS session.
FreedTwice(t) ==
  /\ At(t, "release") /\ program = "simulator"
  /\ \E u \in Thread \ {t} : At(u, "release")
  /\ ended' = TRUE
  /\ UNCHANGED <<endpointVars, stopVars, running, stored, threads, reads>>

Exit(t) ==
  /\ At(t, "exit")
  /\ ended' = TRUE
  /\ UNCHANGED <<endpointVars, stopVars, running, stored, threads, reads>>

Handler(t) ==
  \/ StopCheck(t) \/ StopClear(t)
  \/ StopSkip(t) \/ StopJoin(t) \/ JoinThrows(t) \/ StopJoined(t) \/ StopAllJoined(t)
  \/ StopRelease(t) \/ FreedTwice(t) \/ Exit(t)

ProcessNext ==
  \/ Start \/ Server
  \/ BeginRound \/ ConnectEnds \/ WriteEnds \/ PeerReads
  \/ \E w \in Name : SessionEnds(w) \/ Leave(w)
  \/ \E t \in Thread : Handler(t) \/ \E s \in Signal : Deliver(t, s)
  \/ ServerSignal

ProcessSpec == ProcessInit /\ [][ProcessNext]_processVars

\* Threads run and connect() comes to an end; signals need not come, the peer
\* of the session need not read, and the server's clients need not go.
Fairness ==
  /\ \A t \in Thread : WF_processVars(Handler(t))
  /\ WF_processVars(ConnectEnds) /\ WF_processVars(WriteEnds)
  /\ \A w \in Name : WF_processVars(Leave(w))

ProcessFairSpec == ProcessSpec /\ Fairness

-----------------------------------------------------------------------------

ProcessTypeOK ==
  /\ program \in Program
  /\ main \in {"start", "failed", "up", "active", "accepted", "spawn", "store",
              "loop", "returned"}
  /\ stage \in 1..(Len(SetUp) + 1)
  /\ held \subseteq Needed \cup Connection \cup {"connection", "vmg_client"}
  /\ handler \in [Thread -> [blocked : SUBSET Signal, next : 0..3,
                              pc : {"none", "check", "clear", "join", "wait",
                                    "release", "exit"}]]
  /\ joiner \in [Name -> Thread \cup {"nobody", "joined"}] /\ closers \subseteq Thread
  /\ running \in BOOLEAN /\ stored \in 0..3 /\ started \in 0..3
  /\ worker \in [Name -> {"none", "idle", "busy", "done"}]
  /\ reads \in BOOLEAN /\ ended \in BOOLEAN

\* A worker whose handle is stored never runs without what the set-up acquired,
\* unless a handler on another worker got through stop() while start() was
\* still at work.  If one signal comes in all, main handles it, and it finds
\* main in its loop, then the process ends with every worker ended and
\* everything released but the socket to the VMG, which nothing closes.  With
\* a second signal, or on a worker, the process may end while workers run
\* (stop(), signal_handler, main of the mbedTLS server).
CleanExit ==
  /\ ProcessTypeOK
  /\ closers \subseteq {"main"} =>
       \A i \in 1..stored : worker[Workers[i]] # "done" => Needed \subseteq held
  /\ ended /\ main = "loop" /\ (\E s \in Signal : Delivered = {<<"main", s>>}) =>
       held \subseteq {"vmg_client"} /\ \A w \in Name : worker[w] \in {"none", "done"}

\* At whatever stage the set-up or the activation fails, main returns with
\* nothing held, and so it does after a success, but for: the context of a
\* TlsClient whose certificates cannot be loaded, whatever the mbedTLS server
\* had when it could not be set up, and one connection for every handler that
\* server ever had.  The set-up of the zonal gateway's client returns its error
\* with nothing held.  The PQC server keeps nothing of a connection, and no
\* client talks with less than its set-up acquired (connect, create, init,
\* disconnect, destroy, free).
ReturnsEmptyHanded ==
  /\ main = "returned" =>
       \/ held = {Workers[i] : i \in 1..started}
       \/ program = "simulator" /\ held = {"context"} /\ SetUp[stage] = "certificates"
       \/ program = "mbed_server" /\ ~IsUp
  /\ program = "zonal_doip" /\ main = "failed" => held = {}
  /\ program \in {"pqc_server", "zonal_doip"} /\ main = "up" => held = Needed
  /\ main = "active" \/ (main = "up" /\ Release # {}) => held = Needed

\* A signal ends the program at whatever point of start() it comes and whatever
\* thread handles it, if the peer keeps reading in the end.  Once running_ is
\* clear, a further signal ends it although a worker is stuck in a write.
SignalsEnd ==
  /\ <>[]reads => ((\E t \in Thread : handler[t].pc # "none") ~> ended)
  /\ (\E t \in Thread : handler[t].pc = "check" /\ ~running) ~> ended
=============================================================================
