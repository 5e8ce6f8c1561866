---------------------- MODULE RemoteDiagnosticsProofs ----------------------
(***************************************************************************)
(* Proofs about the remote diagnostics handler, for every set of           *)
(* identifiers and ECUs, every timeout and every number of retries.        *)
(***************************************************************************)
EXTENDS RemoteDiagnostics, FiniteSetTheorems, TLAPS

\* The inductive invariant: the bookkeeping of each identifier, the time its
\* attempts have taken and what it has left of its retries.
DiagInv == TypeOK /\ AnsweredOnce /\ AttemptsComplete /\ RetryBudget

\* One more attempt is one more full timeout: the arithmetic of a retry.
LEMMA OneMore ==
  ASSUME NEW r \in Nat, NEW t \in Nat
  PROVE  r * t \in Nat /\ (r + 1) * t = r * t + t
  BY SMT

\* The sets processPendingRequests counts are finite: the counters stay
\* natural numbers.
LEMMA Countable ==
  ASSUME DOMAIN pending \subseteq Id
  PROVE  Cardinality(GivenUp) \in Nat /\ Cardinality(Retried) \in Nat
<1>1. GivenUp \subseteq Id /\ Retried \subseteq Id
  BY DEF GivenUp, Retried, Expired
<1>2. IsFiniteSet(GivenUp) /\ IsFiniteSet(Retried)
  BY <1>1, FS_Subset, ConstantsAssumption
<1> QED
  BY <1>2, FS_CardinalityType

LEMMA InitInv == Init => DiagInv
<1> SUFFICES ASSUME Init PROVE DiagInv
  OBVIOUS
<1> USE DEF Init
<1>0. DOMAIN pending = {}
  OBVIOUS
<1>1. TypeOK
  BY <1>0 DEF TypeOK, Stats, History, Request
<1>2. AnsweredOnce
  BY <1>0 DEF AnsweredOnce, Superseded
<1>3. AttemptsComplete
  BY <1>0 DEF AttemptsComplete
<1>4. RetryBudget
  BY <1>0, ConstantsAssumption, OneMore DEF RetryBudget
<1> QED
  BY <1>1, <1>2, <1>3, <1>4 DEF DiagInv

\* A request that is taken, routed or not: only its own identifier changes.
LEMMA HandleInv ==
  ASSUME DiagInv, NEW id \in Id, NEW e \in Ecu,
         handleRequest(id, e) \/ handleUnroutedRequest(id, e)
  PROVE  DiagInv'
<1> USE DEF DiagInv
<1> DEFINE h == history[id]
<1>0. /\ h \in History /\ Superseded(id) \in {0, 1}
      /\ DOMAIN pending' \subseteq Id
      /\ \A i \in Id \ {id} : /\ history'[i] = history[i]
                              /\ i \in DOMAIN pending' <=> i \in DOMAIN pending
                              /\ i \in DOMAIN pending => pending'[i] = pending[i]
  BY DEF TypeOK, handleRequest, handleUnroutedRequest, Superseded
<1>3. (h.received + 1) * (MAX_RETRIES + 1) = h.received * (MAX_RETRIES + 1) + (MAX_RETRIES + 1)
  BY <1>0, OneMore, ConstantsAssumption DEF History
<1>4. h.sent <= h.received * (MAX_RETRIES + 1)
  <2>1. id \in DOMAIN pending => pending[id].retry_count \in 0..MAX_RETRIES
    BY DEF TypeOK, Request
  <2>2. h.received * (MAX_RETRIES + 1) \in Nat
    BY <1>0, OneMore, ConstantsAssumption DEF History
  <2> QED
    BY <2>1, <2>2, <1>0, ConstantsAssumption DEF RetryBudget, History
<1>1. CASE handleRequest(id, e)
  <2>1. /\ id \in DOMAIN pending'
        /\ pending'[id] = [ecu |-> e, age |-> 0, retry_count |-> 0]
        /\ history'[id] = [received |-> h.received + 1, answered |-> h.answered,
                           replaced |-> h.replaced + Superseded(id),
                           sent |-> h.sent + 1, waited |-> 0]
    BY <1>1, <1>0 DEF handleRequest, TypeOK, History
  <2>2. TypeOK'
    <3>1. pending' \in [DOMAIN pending' -> Request]
      BY <1>1, <1>0, <2>1, ConstantsAssumption DEF handleRequest, TypeOK, Request
    <3>2. stats' \in Stats /\ ecu_routing' \subseteq Ecu
      BY <1>1 DEF handleRequest, TypeOK, Stats
    <3>3. history' \in [Id -> History]
      BY <1>1, <1>0, <2>1 DEF handleRequest, TypeOK, History
    <3> QED
      BY <1>0, <3>1, <3>2, <3>3 DEF TypeOK
  <2>3. AnsweredOnce'
    BY <1>0, <2>1 DEF AnsweredOnce, Superseded, TypeOK, History
  <2>4. AttemptsComplete'
    BY <1>0, <2>1, ConstantsAssumption, OneMore DEF AttemptsComplete
  <2>5. RetryBudget'
    <3>1. \A i \in Id \ {id} : RetryBudget!(i)'
      BY <1>0 DEF RetryBudget
    <3>2. RetryBudget!(id)'
      BY <1>0, <1>3, <1>4, <2>1, ConstantsAssumption, OneMore DEF History
    <3> QED
      BY <3>1, <3>2 DEF RetryBudget
  <2> QED
    BY <2>2, <2>3, <2>4, <2>5
<1>2. CASE handleUnroutedRequest(id, e)
  <2>1. /\ id \notin DOMAIN pending'
        /\ history'[id] = [received |-> h.received + 1, answered |-> h.answered + 1,
                           replaced |-> h.replaced + Superseded(id),
                           sent |-> h.sent, waited |-> 0]
    BY <1>2, <1>0 DEF handleUnroutedRequest, TypeOK, History
  <2>2. TypeOK'
    <3>1. pending' \in [DOMAIN pending' -> Request]
      BY <1>2, <1>0 DEF handleUnroutedRequest, TypeOK
    <3>2. stats' \in Stats /\ ecu_routing' \subseteq Ecu
      <4>1. stats' = [total |-> stats.total + 1, failed |-> stats.failed + UnroutedFailures,
                      timeout |-> stats.timeout, retry |-> stats.retry]
        BY <1>2, Zenon DEF handleUnroutedRequest, TypeOK, Stats
      <4> QED
        BY <4>1, <1>2 DEF handleUnroutedRequest, TypeOK, Stats, UnroutedFailures
    <3>3. history' \in [Id -> History]
      BY <1>2, <1>0, <2>1 DEF handleUnroutedRequest, TypeOK, History
    <3> QED
      BY <1>0, <3>1, <3>2, <3>3 DEF TypeOK
  <2>3. AnsweredOnce'
    BY <1>0, <2>1 DEF AnsweredOnce, Superseded, TypeOK, History
  <2>4. AttemptsComplete'
    BY <1>0, <2>1 DEF AttemptsComplete
  <2>5. RetryBudget'
    <3>1. \A i \in Id \ {id} : RetryBudget!(i)'
      BY <1>0 DEF RetryBudget
    <3>2. RetryBudget!(id)'
      BY <1>0, <1>3, <1>4, <2>1, ConstantsAssumption, OneMore DEF History
    <3> QED
      BY <3>1, <3>2 DEF RetryBudget
  <2> QED
    BY <2>2, <2>3, <2>4, <2>5
<1> QED
  BY <1>1, <1>2

\* A pass over the pending requests: each one is retried, answered or left.
LEMMA ProcessInv ==
  ASSUME DiagInv, processPendingRequests
  PROVE  DiagInv'
<1> USE DEF DiagInv
<1>1. /\ DOMAIN pending' = DOMAIN pending \ GivenUp
      /\ DOMAIN pending \subseteq Id
      /\ GivenUp \subseteq DOMAIN pending /\ Retried \subseteq DOMAIN pending
      /\ GivenUp \cap Retried = {}
  <2>1. \A id \in DOMAIN pending : pending[id].retry_count \in 0..MAX_RETRIES
    BY DEF TypeOK, Request
  <2> QED
    BY <2>1, ConstantsAssumption DEF TypeOK, GivenUp, Retried, Expired, processPendingRequests
<1>2. ASSUME NEW id \in Id
      PROVE  /\ history[id] \in History /\ history'[id] \in History
             /\ history'[id].received = history[id].received
             /\ history'[id].replaced = history[id].replaced
             /\ history'[id].waited = history[id].waited
             /\ history'[id].answered = history[id].answered + (IF id \in GivenUp THEN 1 ELSE 0)
             /\ history'[id].sent = history[id].sent + (IF id \in Retried THEN 1 ELSE 0)
  BY <1>1 DEF processPendingRequests, Answer, TypeOK, History
<1>3. ASSUME NEW id \in DOMAIN pending'
      PROVE  /\ pending[id] \in Request /\ pending'[id] \in Request
             /\ IF id \in Retried
                  THEN /\ pending[id].age > TIMEOUT
                       /\ pending'[id].retry_count = pending[id].retry_count + 1
                       /\ pending'[id].age = 0
                  ELSE pending'[id] = pending[id]
  <2>1. pending[id] \in Request
    BY <1>1 DEF TypeOK
  <2>2. pending'[id] = IF id \in Retried THEN RetryEntry(pending[id]) ELSE pending[id]
    BY <1>1 DEF processPendingRequests
  <2>3. CASE id \in Retried
    <3>1. pending[id].age > TIMEOUT /\ pending[id].retry_count < MAX_RETRIES
      BY <2>1, <2>3, ConstantsAssumption DEF Retried, GivenUp, Expired, Request
    <3>2. pending'[id] = [ecu |-> pending[id].ecu, age |-> 0,
                          retry_count |-> pending[id].retry_count + 1]
      BY <2>1, <2>2, <2>3, Zenon DEF RetryEntry, Request
    <3> QED
      BY <2>1, <2>3, <3>1, <3>2, ConstantsAssumption DEF Request
  <2> QED
    BY <2>1, <2>2, <2>3
<1>4. TypeOK'
  <2>1. pending' \in [DOMAIN pending' -> Request]
    BY <1>1, <1>3 DEF processPendingRequests
  <2>2. history' \in [Id -> History]
    BY <1>2 DEF processPendingRequests
  <2>3. stats' = [total |-> stats.total, failed |-> stats.failed + Cardinality(GivenUp),
                  timeout |-> stats.timeout + Cardinality(GivenUp),
                  retry |-> stats.retry + Cardinality(Retried)]
    BY Zenon DEF processPendingRequests, TypeOK, Stats
  <2>4. stats' \in Stats
    BY <2>3, <1>1, Countable DEF TypeOK, Stats
  <2> QED
    BY <1>1, <2>1, <2>2, <2>4 DEF TypeOK, processPendingRequests
<1>5. AnsweredOnce'
  BY <1>1, <1>2 DEF AnsweredOnce, Superseded, History
<1>6. AttemptsComplete'
  <2> SUFFICES ASSUME NEW id \in DOMAIN pending' PROVE AttemptsComplete!(id)'
    BY DEF AttemptsComplete
  <2>1. id \in DOMAIN pending /\ id \in Id
    BY <1>1
  <2>2. history[id].waited >= pending[id].retry_count * (TIMEOUT + 1) + pending[id].age
    BY <2>1 DEF AttemptsComplete
  <2>3. /\ pending[id].retry_count * (TIMEOUT + 1) \in Nat
        /\ (pending[id].retry_count + 1) * (TIMEOUT + 1)
             = pending[id].retry_count * (TIMEOUT + 1) + (TIMEOUT + 1)
    BY <1>3, OneMore, ConstantsAssumption DEF Request
  <2> QED
    BY <2>1, <2>2, <2>3, <1>2, <1>3, ConstantsAssumption DEF Request, History
<1>7. RetryBudget'
  <2> SUFFICES ASSUME NEW id \in Id PROVE RetryBudget!(id)'
    BY DEF RetryBudget
  <2>1. history[id].received * (MAX_RETRIES + 1) \in Nat
    BY <1>2, OneMore, ConstantsAssumption DEF History
  <2>2. RetryBudget!(id)
    BY DEF RetryBudget
  <2>3. id \in DOMAIN pending => pending[id].retry_count \in 0..MAX_RETRIES
    BY DEF TypeOK, Request
  <2>4. CASE id \in DOMAIN pending'
    BY <2>1, <2>2, <2>3, <2>4, <1>1, <1>2, <1>3, ConstantsAssumption DEF History, Request
  <2>5. CASE id \notin DOMAIN pending'
    BY <2>1, <2>2, <2>3, <2>5, <1>1, <1>2, ConstantsAssumption DEF History
  <2> QED
    BY <2>4, <2>5
<1> QED
  BY <1>4, <1>5, <1>6, <1>7

\* The clock adds the same to a request's age and to the time it has waited.
LEMMA TickInv ==
  ASSUME DiagInv, Tick
  PROVE  DiagInv'
<1> USE DEF DiagInv
<1>1. /\ DOMAIN pending' = DOMAIN pending /\ DOMAIN pending \subseteq Id
  BY DEF Tick, TypeOK
<1>2. ASSUME NEW id \in Id
      PROVE  /\ history[id] \in History /\ history'[id] \in History
             /\ history'[id].received = history[id].received
             /\ history'[id].replaced = history[id].replaced
             /\ history'[id].answered = history[id].answered
             /\ history'[id].sent = history[id].sent
             /\ history'[id].waited = history[id].waited + (IF id \in DOMAIN pending THEN 1 ELSE 0)
  BY <1>1, SMTT(30) DEF Tick, TypeOK, History
<1>3. ASSUME NEW id \in DOMAIN pending
      PROVE  /\ pending[id] \in Request /\ pending'[id] \in Request
             /\ pending'[id].age = pending[id].age + 1
             /\ pending'[id].retry_count = pending[id].retry_count
  BY DEF Tick, TypeOK, Request
<1>4. TypeOK'
  BY <1>1, <1>2, <1>3 DEF Tick, TypeOK
<1>5. AnsweredOnce'
  BY <1>1, <1>2 DEF AnsweredOnce, Superseded
<1>6. AttemptsComplete'
  <2> SUFFICES ASSUME NEW id \in DOMAIN pending PROVE AttemptsComplete!(id)'
    BY <1>1 DEF AttemptsComplete
  <2>1. pending[id].retry_count * (TIMEOUT + 1) \in Nat
    BY <1>3, OneMore, ConstantsAssumption DEF Request
  <2>2. AttemptsComplete!(id)
    BY DEF AttemptsComplete
  <2> QED
    BY <2>1, <2>2, <1>1, <1>2, <1>3 DEF Request, History
<1>7. RetryBudget'
  BY <1>1, <1>2, <1>3 DEF RetryBudget
<1> QED
  BY <1>4, <1>5, <1>6, <1>7

LEMMA NextInv == DiagInv /\ [Next]_vars => DiagInv'
<1> SUFFICES ASSUME DiagInv, [Next]_vars PROVE DiagInv'
  OBVIOUS
<1>1. ASSUME NEW e \in Ecu, registerECU(e) PROVE DiagInv'
  BY <1>1 DEF DiagInv, registerECU, TypeOK, AnsweredOnce, AttemptsComplete, RetryBudget, Superseded
<1>2. ASSUME NEW id \in Id, NEW e \in Ecu,
             handleRequest(id, e) \/ handleUnroutedRequest(id, e)
      PROVE  DiagInv'
  BY <1>2, HandleInv
<1>3. CASE processPendingRequests
  BY <1>3, ProcessInv
<1>4. CASE Tick
  BY <1>4, TickInv
<1>5. CASE Done \/ UNCHANGED vars
  BY <1>5 DEF Done, vars, DiagInv, TypeOK, AnsweredOnce, AttemptsComplete, RetryBudget, Superseded
<1> QED
  BY <1>1, <1>2, <1>3, <1>4, <1>5 DEF Next

\* DiagInv holds in every reachable state of the handler.
THEOREM Invariance == Spec => []DiagInv
  BY InitInv, NextInv, PTL DEF Spec

\* The handler is type correct: maps, counters and retry counts.
THEOREM TypeCorrect == Spec => []TypeOK
  BY Invariance, PTL DEF DiagInv

\* Every request handleRequest accepts is answered once, replaced or pending.
THEOREM OneAnswer == Spec => []AnsweredOnce
  BY Invariance, PTL DEF DiagInv

\* An ECU sees a request at most MAX_RETRIES + 1 times.
THEOREM BoundedRetries == Spec => []RetryBudget
  BY Invariance, PTL DEF DiagInv

\* Types, whole attempts and the retry budget together, for every timeout and
\* number of retries of processPendingRequests.
THEOREM SoundRetries == Spec => []RetriesSound
  BY Invariance, PTL DEF DiagInv, RetriesSound

\* processPendingRequests answers a timeout only after MAX_RETRIES + 1 whole
\* timeouts of the request it answers.
THEOREM FullPatience == Spec => NotGivenUpEarly
<1> DEFINE Patient(id) == id \in DOMAIN pending /\ id \notin DOMAIN pending'
                            /\ history'[id].received = history[id].received
                          => history[id].waited >= (MAX_RETRIES + 1) * (TIMEOUT + 1)
<1>1. ASSUME DiagInv, [Next]_vars PROVE [\A id \in Id : Patient(id)]_vars
  <2> SUFFICES ASSUME NEW id \in Id, Next,
                      id \in DOMAIN pending, id \notin DOMAIN pending',
                      history'[id].received = history[id].received
               PROVE  history[id].waited >= (MAX_RETRIES + 1) * (TIMEOUT + 1)
    BY <1>1
  <2>1. history \in [Id -> History] /\ pending[id] \in Request
    BY <1>1 DEF DiagInv, TypeOK
  <2>2. ~\E e \in Ecu : registerECU(e)
    BY DEF registerECU
  <2>3. ASSUME NEW i \in Id, NEW e \in Ecu, handleRequest(i, e) PROVE FALSE
    BY <2>3 DEF handleRequest
  <2>4. ASSUME NEW i \in Id, NEW e \in Ecu, handleUnroutedRequest(i, e) PROVE FALSE
    <3>1. i = id
      BY <2>4 DEF handleUnroutedRequest
    <3>2. history'[id].received = history[id].received + 1
      BY <3>1, <2>4, <2>1 DEF handleUnroutedRequest, History
    <3> QED
      BY <3>2, <2>1 DEF History
  <2>5. ~Tick /\ ~Done
    BY DEF Tick, Done, vars
  <2>6. processPendingRequests
    BY <2>2, <2>3, <2>4, <2>5 DEF Next
  <2>7. pending[id].age > TIMEOUT /\ pending[id].retry_count = MAX_RETRIES
    <3>1. id \in GivenUp
      BY <2>6 DEF processPendingRequests
    <3>2. pending[id].age > TIMEOUT /\ pending[id].retry_count >= MAX_RETRIES
      BY <3>1 DEF GivenUp, Expired
    <3>3. pending[id].retry_count \in 0..MAX_RETRIES
      BY <2>1 DEF Request
    <3> QED
      BY <3>2, <3>3, ConstantsAssumption
  <2>8. history[id].waited >= MAX_RETRIES * (TIMEOUT + 1) + pending[id].age
    BY <1>1, <2>7 DEF DiagInv, AttemptsComplete
  <2> QED
    BY <2>1, <2>7, <2>8, OneMore, ConstantsAssumption DEF Request, History
<1> QED
  BY <1>1, Invariance, PTL DEF Spec, NotGivenUpEarly
=============================================================================
