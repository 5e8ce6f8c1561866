------------------------- MODULE RemoteDiagnostics -------------------------
(***************************************************************************)
(* The remote diagnostics handler of the vehicle gateway                   *)
(* (vehicle_gateway/src/remote_diagnostics_handler.cpp): requests arrive   *)
(* over MQTT, possibly more than once, are routed to an ECU and stay       *)
(* pending until their last retry has timed out.  The code that would send *)
(* to the ECU and take its answer is still to be written (the TODO of      *)
(* sendToECU), so a routed request ends in a timeout or is replaced.       *)
(*                                                                         *)
(* Time is counted in units of the caller's choice; a request keeps its    *)
(* age, the time since its timestamp.                                      *)
(***************************************************************************)
EXTENDS Naturals, FiniteSets

CONSTANTS Id,           \* the values of request_id
          Ecu,          \* the values of ecu_id
          TIMEOUT,      \* timeout_ms of a request
          MAX_RETRIES,  \* max_retries of a request
          MaxAge,       \* longest time between two calls of processPendingRequests
          MaxRequests   \* how many requests arrive in a behaviour

ASSUME ConstantsAssumption ==
  /\ IsFiniteSet(Id)
  /\ TIMEOUT \in Nat /\ MAX_RETRIES \in Nat /\ MaxAge \in Nat /\ MaxRequests \in Nat

VARIABLES
  ecu_routing,  \* the ECUs registerECU has been called for
  pending,      \* pending_requests_: a function on the pending identifiers
  stats,        \* the counters of getStatistics
  history       \* per identifier, what has become of its requests

vars == <<ecu_routing, pending, stats, history>>

Request == [ecu : Ecu, age : Nat, retry_count : 0..MAX_RETRIES]

\* received, answered and replaced count requests; sent counts the calls of
\* sendToECU that found a route; waited is the time since the last request.
History == [received : Nat, answered : Nat, replaced : Nat, sent : Nat, waited : Nat]

Stats == [total : Nat, failed : Nat, timeout : Nat, retry : Nat]

Init ==
  /\ ecu_routing = {}
  /\ pending = [id \in {} |-> 0]
  /\ stats = [total |-> 0, failed |-> 0, timeout |-> 0, retry |-> 0]
  /\ history = [id \in Id |-> [received |-> 0, answered |-> 0, replaced |-> 0,
                               sent |-> 0, waited |-> 0]]

registerECU(e) ==
  /\ ecu_routing' = ecu_routing \cup {e}
  /\ UNCHANGED <<pending, stats, history>>

\* sendToECU needs a route, and cannot fail when it has one.
Routed(e) == e \in ecu_routing

Taken(id) == history[id].received < MaxRequests
Superseded(id) == IF id \in DOMAIN pending THEN 1 ELSE 0

\* The request is stored under its identifier, over whatever was there.
handleRequest(id, e) ==
  /\ Taken(id)
  /\ Routed(e)
  /\ pending' = [i \in DOMAIN pending \cup {id} |->
                   IF i = id THEN [ecu |-> e, age |-> 0, retry_count |-> 0]
                             ELSE pending[i]]
  /\ stats' = [stats EXCEPT !.total = @ + 1]
  /\ history' = [history EXCEPT ![id].received = @ + 1,
                                ![id].replaced = @ + Superseded(id),
                                ![id].sent = @ + 1,
                                ![id].waited = 0]
  /\ UNCHANGED ecu_routing

\* sendResponse counts a failure and handleRequest counts it again.
UnroutedFailures == 2

\* (mutant) the request stays pending after its answer.
UnroutedRequestKept(id, e) ==
  /\ Taken(id)
  /\ ~Routed(e)
  /\ pending' = [i \in DOMAIN pending \cup {id} |->
                   IF i = id THEN [ecu |-> e, age |-> 0, retry_count |-> 0]
                             ELSE pending[i]]
  /\ stats' = [stats EXCEPT !.total = @ + 1, !.failed = @ + UnroutedFailures]
  /\ history' = [history EXCEPT ![id].received = @ + 1,
                                ![id].replaced = @ + Superseded(id),
                                ![id].answered = @ + 1,
                                ![id].waited = 0]
  /\ UNCHANGED ecu_routing

\* No route: answered with an error at once and erased, together with an
\* earlier request of the same identifier.
handleUnroutedRequest(id, e) ==
  /\ Taken(id)
  /\ ~Routed(e)
  /\ pending' = [i \in DOMAIN pending \ {id} |-> pending[i]]
  /\ stats' = [stats EXCEPT !.total = @ + 1, !.failed = @ + UnroutedFailures]
  /\ history' = [history EXCEPT ![id].received = @ + 1,
                                ![id].replaced = @ + Superseded(id),
                                ![id].answered = @ + 1,
                                ![id].waited = 0]
  /\ UNCHANGED ecu_routing

Expired == {id \in DOMAIN pending : pending[id].age > TIMEOUT}
GivenUp == {id \in Expired : pending[id].retry_count >= MAX_RETRIES}
\* (mutant) the last retry is neither made nor given up.
RetriedTooSeldom == {id \in Expired : pending[id].retry_count + 1 < MAX_RETRIES}
Retried == Expired \ GivenUp

\* (mutant) a retry forgets the count.
RetryUncounted(r) == [r EXCEPT !.age = 0]
\* What a retry stores.
RetryEntry(r) == [r EXCEPT !.retry_count = @ + 1, !.age = 0]

\* sendResponse.
Answer(h) == [h EXCEPT !.answered = @ + 1]

\* The result of sendToECU is ignored for a retry; a route is never removed.
processPendingRequests ==
  /\ Expired # {}
  /\ pending' = [id \in DOMAIN pending \ GivenUp |->
                   IF id \in Retried THEN RetryEntry(pending[id]) ELSE pending[id]]
  /\ stats' = [stats EXCEPT !.failed = @ + Cardinality(GivenUp),
                            !.timeout = @ + Cardinality(GivenUp),
                            !.retry = @ + Cardinality(Retried)]
  /\ history' = [id \in Id |->
                   IF id \in GivenUp
                     THEN Answer(history[id])
                   ELSE IF id \in Retried
                     THEN [history[id] EXCEPT !.sent = @ + 1]
                   ELSE history[id]]
  /\ UNCHANGED ecu_routing

\* The clock, which only matters while a request is pending.
Tick ==
  /\ DOMAIN pending # {}
  /\ \A id \in DOMAIN pending : pending[id].age < MaxAge
  /\ pending' = [id \in DOMAIN pending |-> [pending[id] EXCEPT !.age = @ + 1]]
  /\ history' = [id \in Id |-> IF id \in DOMAIN pending
                                 THEN [history[id] EXCEPT !.waited = @ + 1]
                                 ELSE history[id]]
  /\ UNCHANGED <<ecu_routing, stats>>

\* Everything that has arrived is answered and no more arrives.
Done ==
  /\ DOMAIN pending = {}
  /\ \A id \in Id : ~Taken(id)
  /\ UNCHANGED vars

Next ==
  \/ \E e \in Ecu : registerECU(e)
  \/ \E id \in Id, e \in Ecu : handleRequest(id, e) \/ handleUnroutedRequest(id, e)
  \/ processPendingRequests
  \/ Tick
  \/ Done

Spec == Init /\ [][Next]_vars

\* The header asks the owner to call processPendingRequests periodically.
FairSpec == Spec /\ WF_vars(processPendingRequests) /\ WF_vars(Tick)

-----------------------------------------------------------------------------

\* The routing table, the pending map, the counters and the histories have
\* their types.
TypeOK ==
  /\ ecu_routing \subseteq Ecu
  /\ DOMAIN pending \subseteq Id
  /\ pending \in [DOMAIN pending -> Request]
  /\ stats \in Stats
  /\ history \in [Id -> History]

\* Every request of an identifier is in exactly one place: answered once,
\* replaced by a later one, or still pending.  Neither a retry nor an answer
\* for one identifier loses or repeats the answer for another.
AnsweredOnce ==
  \A id \in Id :
    history[id].received = history[id].answered + history[id].replaced + Superseded(id)

\* A pending request has waited a full timeout for each of its retries, and
\* its age on top: no attempt is cut short.
AttemptsComplete ==
  \A id \in DOMAIN pending :
    history[id].waited >= pending[id].retry_count * (TIMEOUT + 1) + pending[id].age

\* A timeout is answered only after MAX_RETRIES + 1 full timeouts of the
\* request that is answered, whatever earlier request it replaced.
NotGivenUpEarly ==
  [][\A id \in Id :
       id \in DOMAIN pending /\ id \notin DOMAIN pending'
         /\ history'[id].received = history[id].received
       => history[id].waited >= (MAX_RETRIES + 1) * (TIMEOUT + 1)]_vars

\* The ECU sees a request at most MAX_RETRIES + 1 times.
RetryBudget ==
  \A id \in Id :
    history[id].sent + (IF id \in DOMAIN pending
                          THEN MAX_RETRIES - pending[id].retry_count ELSE 0)
      <= history[id].received * (MAX_RETRIES + 1)

\* Retries neither cut an attempt short nor exceed their number, however late
\* processPendingRequests comes and whatever requests replace each other.
RetriesSound ==
  /\ TypeOK
  /\ AttemptsComplete
  /\ RetryBudget

\* Whatever is received is answered or replaced in the end, also when other
\* requests keep arriving.
EveryRequestAnswered ==
  \A id \in Id : id \in DOMAIN pending ~> id \notin DOMAIN pending

=============================================================================
