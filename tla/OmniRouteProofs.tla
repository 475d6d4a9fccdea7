-------------------------- MODULE OmniRouteProofs ---------------------------
(***************************************************************************)
(* OmniRoute for any number of providers, requests, calls, candidates,     *)
(* retries, limits and budgets: what the router asks of the breaker, how   *)
(* much probe traffic the breaker lets through, what the cancellations and *)
(* strategies of the execution engine guarantee, where the scheduler keeps *)
(* a request, how much the rate limiter lets through, and what the budgets *)
(* charge and hold.                                                        *)
(***************************************************************************)
EXTENDS OmniRoute, ExecutionEngine, RequestScheduler, RateLimiter, BudgetEngine, Recursion,
        FiniteSetTheorems, SequenceTheorems, TLAPS

(***************************************************************************)
(* The circuit breaker                                                     *)
(***************************************************************************)
\* Of the requests let through while HALF_OPEN all but the first are in attempts.
ProbesCounted ==
  \A p \in Providers :
    /\ circuit[p].state = "half_open" => admitted[p] <= circuit[p].attempts + 1
    /\ circuit[p].state # "half_open" => admitted[p] = 0

\* The inductive invariant of the circuit breaker.
BreakerInv == BreakerTypeOK /\ ProbesCounted

\* What every operation ends in: a circuit that counts the n requests let through.
LEMMA SetCircuitKeeps ==
  ASSUME BreakerInv, NEW p \in Providers, NEW b \in CircuitState, NEW n \in Nat,
         SetCircuit(p, b, n),
         b.state = "half_open" =>
           IF circuit[p].state = "half_open" THEN circuit[p].attempts + n <= b.attempts
           ELSE n <= b.attempts + 1
  PROVE  BreakerInv'
<1>1. circuit[p] \in CircuitState /\ admitted[p] \in Nat /\ due[p] \in BOOLEAN
  BY DEF BreakerInv, BreakerTypeOK
<1>2. b.attempts \in Nat /\ circuit[p].attempts \in Nat
  BY <1>1, BreakerAssumption DEF CircuitState
<1> DEFINE a == IF b.state # "half_open" THEN 0
                ELSE IF circuit[p].state = "half_open" THEN admitted[p] + n ELSE n
<1>3. /\ circuit' = [circuit EXCEPT ![p] = b]
      /\ admitted' = [admitted EXCEPT ![p] = a]
  BY DEF SetCircuit
<1>4. a \in Nat
  BY <1>1
<1>5. IF b.state = "half_open" THEN a <= b.attempts + 1 ELSE a = 0
  BY <1>1, <1>2 DEF BreakerInv, ProbesCounted
<1> HIDE DEF a
<1>6. due' \in [Providers -> BOOLEAN]
  BY Zenon DEF SetCircuit, BreakerInv, BreakerTypeOK
<1>7. BreakerTypeOK'
  BY <1>3, <1>4, <1>6 DEF SetCircuit, BreakerInv, BreakerTypeOK
<1>8. ProbesCounted'
  <2> SUFFICES ASSUME NEW q \in Providers
               PROVE  IF circuit'[q].state = "half_open"
                      THEN admitted'[q] <= circuit'[q].attempts + 1 ELSE admitted'[q] = 0
    BY DEF ProbesCounted
  <2>1. CASE q = p
    BY <1>3, <1>5, <2>1 DEF BreakerInv, BreakerTypeOK
  <2>2. CASE q # p
    BY <1>3, <2>2 DEF BreakerInv, BreakerTypeOK, ProbesCounted
  <2> QED
    BY <2>1, <2>2
<1> QED
  BY <1>7, <1>8 DEF BreakerInv

\* Saturated counters stay within their limits.
LEMMA SaturateType ==
  ASSUME NEW limit \in Nat, NEW n \in 0..limit
  PROVE  Saturate(n + 1, limit) \in 0..limit
  BY DEF Saturate

\* _transition resets the attempts when the circuit becomes HALF_OPEN.
LEMMA TransitionKeeps ==
  ASSUME NEW b \in CircuitState, NEW to \in {"open", "half_open", "closed"}
  PROVE  /\ Transition(b, to) \in CircuitState
         /\ Transition(b, to).state = to
         /\ b.state = to => Transition(b, to) = b
<1>1. 0 \in 0..ProbeCount /\ 0 \in 0..Threshold /\ 0 \in 0..WindowSize
  BY BreakerAssumption
<1>2. CASE b.state = to
  BY <1>2 DEF Transition
<1>3. CASE b.state # to /\ to = "open"
  BY <1>3 DEF Transition, CircuitState
<1>4. CASE b.state # to /\ to = "half_open"
  BY <1>1, <1>4 DEF Transition, CircuitState
<1>5. CASE b.state # to /\ to = "closed"
  BY <1>1, <1>5 DEF Transition, CircuitState
<1> QED
  BY <1>2, <1>3, <1>4, <1>5

\* record_success() keeps the count of probes within the limit.
LEMMA RecordSuccessKeeps ==
  ASSUME BreakerInv, NEW p \in Providers, RecordSuccess(p)
  PROVE  BreakerInv'
<1> DEFINE b == [circuit[p] EXCEPT !.total = Saturate(@ + 1, MinRequests),
                                   !.consecutive = 0,
                                   !.successes = Saturate(@ + 1, WindowSize)]
           closing == [b EXCEPT !.probes = ProbeCount]
           new == IF b.state # "half_open" THEN b
                  ELSE IF b.probes + 1 >= ProbeCount THEN Transition(closing, "closed")
                       ELSE [b EXCEPT !.probes = @ + 1]
<1>1. circuit[p] \in CircuitState
  BY DEF BreakerInv, BreakerTypeOK
<1>2. /\ Saturate(circuit[p].total + 1, MinRequests) \in 0..MinRequests
      /\ Saturate(circuit[p].successes + 1, WindowSize) \in 0..WindowSize
      /\ 0 \in 0..Threshold
  BY <1>1, SaturateType, BreakerAssumption DEF CircuitState
<1>3. /\ b \in CircuitState
      /\ b.state = circuit[p].state /\ b.attempts = circuit[p].attempts
  BY <1>1, <1>2 DEF CircuitState
<1>4. SetCircuit(p, new, 0)
  BY DEF RecordSuccess
<1> HIDE DEF b
<1>5. closing \in CircuitState /\ closing.state = b.state
  BY <1>3, BreakerAssumption DEF CircuitState
<1>6. /\ new \in CircuitState
      /\ new.state = "half_open" => b.state = "half_open" /\ new.attempts = b.attempts
  <2>1. CASE b.state # "half_open"
    BY <1>3, <2>1
  <2>2. CASE b.state = "half_open" /\ b.probes + 1 >= ProbeCount
    BY <1>5, <2>2, TransitionKeeps
  <2>3. CASE b.state = "half_open" /\ ~(b.probes + 1 >= ProbeCount)
    <3>1. b.probes + 1 \in 0..ProbeCount
      BY <1>3, <2>3, BreakerAssumption DEF CircuitState
    <3> QED
      BY <1>3, <2>3, <3>1 DEF CircuitState
  <2> QED
    BY <2>1, <2>2, <2>3
<1>7. circuit[p].attempts \in Nat
  BY <1>1, BreakerAssumption DEF CircuitState
<1> HIDE DEF new
<1> QED
  BY <1>3, <1>4, <1>6, <1>7, SetCircuitKeeps

\* record_failure() does too.
LEMMA RecordFailureKeeps ==
  ASSUME BreakerInv, NEW p \in Providers, RecordFailure(p)
  PROVE  BreakerInv'
<1> DEFINE b == [circuit[p] EXCEPT !.total = Saturate(@ + 1, MinRequests),
                                   !.consecutive = Saturate(@ + 1, Threshold),
                                   !.failures = Saturate(@ + 1, WindowSize)]
<1>1. circuit[p] \in CircuitState
  BY DEF BreakerInv, BreakerTypeOK
<1>2. /\ Saturate(circuit[p].total + 1, MinRequests) \in 0..MinRequests
      /\ Saturate(circuit[p].consecutive + 1, Threshold) \in 0..Threshold
      /\ Saturate(circuit[p].failures + 1, WindowSize) \in 0..WindowSize
  BY <1>1, SaturateType, BreakerAssumption DEF CircuitState
<1>3. b \in CircuitState /\ b.state = circuit[p].state
  BY <1>1, <1>2 DEF CircuitState
<1>4. \/ /\ b.state = "closed"
         /\ \E trip \in ShouldTrip(b) :
              SetCircuit(p, IF trip THEN Transition(b, "open") ELSE b, 0)
      \/ b.state # "closed" /\ SetCircuit(p, Transition(b, "open"), 0)
  BY DEF RecordFailure
<1> HIDE DEF b
<1>5. \/ SetCircuit(p, Transition(b, "open"), 0)
      \/ b.state = "closed" /\ SetCircuit(p, b, 0)
  BY <1>4
<1>6. Transition(b, "open") \in CircuitState /\ Transition(b, "open").state = "open"
  BY <1>3, TransitionKeeps
<1> QED
  BY <1>3, <1>5, <1>6, SetCircuitKeeps

\* A request let through is counted, or is the one that opened the circuit half.
LEMMA AllowRequestKeeps ==
  ASSUME BreakerInv, NEW p \in Providers, AllowRequest(p)
  PROVE  BreakerInv'
<1>1. circuit[p] \in CircuitState
  BY DEF BreakerInv, BreakerTypeOK
<1>2. CASE /\ Allowed(p) /\ circuit[p].state = "open"
           /\ SetCircuit(p, Transition(circuit[p], "half_open"), 1)
  <2> DEFINE b == Transition(circuit[p], "half_open")
  <2>1. b \in CircuitState
    BY <1>1, TransitionKeeps
  <2>2. b.attempts \in Nat
    BY <2>1, BreakerAssumption DEF CircuitState
  <2> HIDE DEF b
  <2>3. SetCircuit(p, b, 1)
    BY <1>2 DEF b
  <2> QED
    BY <1>2, <2>1, <2>2, <2>3, SetCircuitKeeps
<1>3. CASE /\ breakerUp /\ Allowed(p) /\ circuit[p].state = "half_open"
           /\ SetCircuit(p, [circuit[p] EXCEPT !.attempts = Saturate(@ + 1, ProbeCount)], 1)
  <2>1. circuit[p].attempts \in 0..ProbeCount /\ circuit[p].attempts < ProbeCount
    BY <1>1, <1>3 DEF Allowed, CircuitState
  <2>2. Saturate(circuit[p].attempts + 1, ProbeCount) = circuit[p].attempts + 1
    BY <2>1, BreakerAssumption DEF Saturate
  <2> DEFINE b == [circuit[p] EXCEPT !.attempts = circuit[p].attempts + 1]
  <2>3. circuit[p].attempts + 1 \in 0..ProbeCount
    BY <2>1, BreakerAssumption
  <2>4. b \in CircuitState /\ b.attempts = circuit[p].attempts + 1
    BY <1>1, <2>3 DEF CircuitState
  <2>5. SetCircuit(p, b, 1)
    BY <1>3, <2>2
  <2> HIDE DEF b
  <2> QED
    BY <1>3, <2>1, <2>4, <2>5, SetCircuitKeeps
<1>4. CASE UNCHANGED breakerVars
  BY <1>4 DEF BreakerInv, BreakerTypeOK, ProbesCounted, breakerVars
<1> QED
  BY <1>2, <1>3, <1>4 DEF AllowRequest

\* force_state() keeps the count of probes.
LEMMA ForceStateKeeps ==
  ASSUME BreakerInv, NEW p \in Providers, NEW to \in {"open", "half_open", "closed"},
         ForceState(p, to)
  PROVE  BreakerInv'
<1>1. circuit[p] \in CircuitState
  BY DEF BreakerInv, BreakerTypeOK
<1> DEFINE b == Transition(circuit[p], to)
<1>2. b \in CircuitState /\ (circuit[p].state = b.state => b = circuit[p])
  BY <1>1, TransitionKeeps
<1>3. b.attempts \in Nat
  BY <1>2, BreakerAssumption DEF CircuitState
<1>4. SetCircuit(p, b, 0)
  BY DEF ForceState
<1> HIDE DEF b
<1> QED
  BY <1>2, <1>3, <1>4, SetCircuitKeeps

\* reset() forgets the circuit with its count.
LEMMA ResetCircuitKeeps ==
  ASSUME BreakerInv, NEW p \in Providers, ResetCircuit(p)
  PROVE  BreakerInv'
<1>1. FreshCircuit \in CircuitState /\ FreshCircuit.state = "closed"
  BY BreakerAssumption DEF FreshCircuit, CircuitState
<1> QED
  BY <1>1, SetCircuitKeeps DEF ResetCircuit

\* A breaker without circuits satisfies the invariant.
LEMMA BreakerInitially == BreakerInit => BreakerInv
<1>1. FreshCircuit \in CircuitState /\ FreshCircuit.state = "closed"
  BY BreakerAssumption DEF FreshCircuit, CircuitState
<1> QED
  BY <1>1 DEF BreakerInit, BreakerInv, BreakerTypeOK, ProbesCounted

\* Every step of the breaker keeps it.
LEMMA BreakerInductive == BreakerInv /\ [BreakerNext]_breakerVars => BreakerInv'
<1> SUFFICES ASSUME BreakerInv, [BreakerNext]_breakerVars PROVE BreakerInv'
  OBVIOUS
<1>1. CASE BreakerStart
  BY <1>1 DEF BreakerStart, BreakerInv, BreakerTypeOK, ProbesCounted
<1>2. CASE BreakerStop
  <2>1. FreshCircuit \in CircuitState /\ FreshCircuit.state = "closed"
    BY BreakerAssumption DEF FreshCircuit, CircuitState
  <2>2. CASE UNCHANGED <<circuit, due, admitted>>
    BY <1>2, <2>2 DEF BreakerStop, BreakerInv, BreakerTypeOK, ProbesCounted
  <2>3. CASE /\ circuit' = [p \in Providers |-> FreshCircuit]
             /\ due' = [p \in Providers |-> FALSE]
             /\ admitted' = [p \in Providers |-> 0]
    <3>1. BreakerTypeOK'
      BY <1>2, <2>1, <2>3 DEF BreakerStop, BreakerTypeOK
    <3>2. ProbesCounted'
      BY <2>1, <2>3 DEF ProbesCounted
    <3> QED
      BY <3>1, <3>2 DEF BreakerInv
  <2> QED
    BY <1>2, <2>2, <2>3 DEF BreakerStop
<1>3. ASSUME NEW p \in Providers, RecoveryTimeout(p)
      PROVE  BreakerInv'
  BY <1>3 DEF RecoveryTimeout, BreakerInv, BreakerTypeOK, ProbesCounted
<1>4. CASE UNCHANGED breakerVars
  BY <1>4 DEF breakerVars, BreakerInv, BreakerTypeOK, ProbesCounted
<1> QED
  BY <1>1, <1>2, <1>3, <1>4, RecordSuccessKeeps, RecordFailureKeeps, AllowRequestKeeps,
     ForceStateKeeps, ResetCircuitKeeps DEF BreakerNext

\* A HALF_OPEN circuit lets half_open_probe_count requests through and the one that
\* opened it half, whoever asks, reports late or forces a state
\* (CircuitBreakerEngineImpl.allow_request).
THEOREM BreakerLimitsProbes == BreakerSpec => []ProbeTrafficLimited
<1>1. BreakerInv => ProbeTrafficLimited
  <2> SUFFICES ASSUME BreakerInv, NEW p \in Providers
               PROVE  admitted[p] <= ProbeCount + 1
    BY DEF ProbeTrafficLimited
  <2>1. circuit[p].attempts \in 0..ProbeCount /\ admitted[p] \in Nat /\ ProbeCount \in Nat
    BY BreakerAssumption DEF BreakerInv, BreakerTypeOK, CircuitState
  <2> QED
    BY <2>1 DEF BreakerInv, ProbesCounted
<1> QED
  BY BreakerInitially, BreakerInductive, <1>1, PTL DEF BreakerSpec

(***************************************************************************)
(* The router                                                              *)
(***************************************************************************)
\* Only providers are put to the breaker and reported to it.
RoutesKnown == route \in [Requests -> RouteState]

\* A request in flight has a provider.
InFlightSelected ==
  \A r \in Requests : route[r].at = "in_flight" => route[r].selected \in Providers

\* The inductive invariant of the router.
RouteInv == RoutesKnown /\ InFlightSelected

\* Every step of the router is one operation of the breaker, or none.
LEMMA RouterStep ==
  ASSUME RouteInv, [OmniNext]_omniVars
  PROVE  RouteInv' /\ [BreakerNext]_breakerVars
<1> USE DEF RouteInv
<1>1. ASSUME NEW r \in Requests, RouteBegins(r)
      PROVE  RouteInv' /\ UNCHANGED breakerVars
  BY <1>1, RouteAssumption DEF RouteBegins, RoutesKnown, RouteState, InFlightSelected, NoRoute
<1>2. ASSUME NEW r \in Requests, AskBreaker(r)
      PROVE  RouteInv' /\ BreakerNext
  <2> DEFINE p == Head(route[r].todo)
  <2>1. p \in Providers /\ Tail(route[r].todo) \in Seq(Providers)
    BY <1>2 DEF AskBreaker, RoutesKnown, RouteState
  <2>2. AllowRequest(p)
    BY <1>2 DEF AskBreaker
  <2>3. route' = [route EXCEPT ![r].todo = Tail(@),
                               ![r].allowed = IF Allowed(p) THEN @ \union {p} ELSE @]
    BY <1>2 DEF AskBreaker
  <2> HIDE DEF p
  <2>4. RouteInv'
    BY ZenonT(40), <2>1, <2>3 DEF RoutesKnown, RouteState, InFlightSelected
  <2> QED
    BY <2>1, <2>2, <2>4 DEF BreakerNext
<1>3. ASSUME NEW r \in Requests, RouteEnds(r) \/ LaterFiltersExclude(r)
      PROVE  RouteInv' /\ UNCHANGED breakerVars
  <2>1. NoRoute \in RouteState /\ NoRoute.at = "idle"
    BY DEF NoRoute, RouteState
  <2> DEFINE sent(p) == [NoRoute EXCEPT !.at = "in_flight", !.selected = p]
  <2>2. \A p \in Providers : sent(p) \in RouteState /\ sent(p).selected = p
    BY <2>1 DEF RouteState
  <2>3. \A p \in route[r].allowed : p \in Providers
    BY DEF RoutesKnown, RouteState
  <2> HIDE DEF sent
  <2>4. \/ \E p \in route[r].allowed : route' = [route EXCEPT ![r] = sent(p)]
        \/ route' = [route EXCEPT ![r] = NoRoute]
    BY <1>3 DEF RouteEnds, LaterFiltersExclude, sent
  <2>5. \E v \in RouteState : /\ route' = [route EXCEPT ![r] = v]
                              /\ v.at = "in_flight" => v.selected \in Providers
    BY <2>1, <2>2, <2>3, <2>4
  <2>6. RouteInv'
    BY <2>5 DEF RoutesKnown, InFlightSelected
  <2> QED
    BY <1>3, <2>6 DEF RouteEnds, LaterFiltersExclude
<1>4. ASSUME NEW r \in Requests, ReportOutcome(r)
      PROVE  RouteInv' /\ [BreakerNext]_breakerVars
  <2>1. route[r].selected \in Providers
    BY <1>4 DEF ReportOutcome, InFlightSelected
  <2>2. [BreakerNext]_breakerVars
    BY <1>4, <2>1 DEF ReportOutcome, BreakerNext
  <2>3. RouteInv'
    BY <1>4 DEF ReportOutcome, RoutesKnown, RouteState, InFlightSelected, NoRoute
  <2> QED
    BY <2>2, <2>3
<1>5. CASE Operate
  BY <1>5 DEF Operate, BreakerNext, RoutesKnown, InFlightSelected
<1>6. ASSUME NEW p \in Providers, TimeoutRunsOut(p)
      PROVE  RouteInv' /\ BreakerNext
  BY <1>6 DEF TimeoutRunsOut, BreakerNext, RoutesKnown, InFlightSelected
<1>7. CASE UNCHANGED omniVars
  BY <1>7 DEF omniVars, RoutesKnown, InFlightSelected
<1> QED
  BY <1>1, <1>2, <1>3, <1>4, <1>5, <1>6, <1>7 DEF OmniNext, Traffic

\* A router before its first request satisfies the invariant, and its breaker
\* is an initial one.
LEMMA RouterInitially == OmniInit => RouteInv /\ BreakerInit
  BY DEF OmniInit, RouteInv, RoutesKnown, RouteState, InFlightSelected, NoRoute

\* Concurrent requests, interleaved at every await between two questions, use the
\* breaker only through its operations: routing implements the breaker's
\* specification (RouterEngineImpl.route, _filter_circuit_breaker).
THEOREM RoutingUsesBreaker == OmniSpec => BreakerSpec
  BY RouterInitially, RouterStep, PTL DEF OmniSpec, BreakerSpec

\* So the limit on probe traffic holds of the requests that are routed, whatever
\* the filters drop and whenever the outcomes are reported.
THEOREM RoutingLimitsProbes == OmniSpec => []ProbeTrafficLimited
  BY RoutingUsesBreaker, BreakerLimitsProbes, PTL

(***************************************************************************)
(* The execution engine                                                    *)
(***************************************************************************)
\* The calls of a strategy differ, are not streams, and those that are idle are
\* those it has not launched.
FlowInOrder ==
  /\ flow.launched <= Len(flow.members)
  /\ \A j, k \in 1..Len(flow.members) : j # k => flow.members[j] # flow.members[k]
  /\ \A k \in 1..Len(flow.members) : /\ flow.members[k] \notin Streams
                                     /\ k > flow.launched <=> stage[flow.members[k]] = "idle"

\* A call has a result when it has returned, and sleeps only before an attempt it has left.
CallsInOrder ==
  \A c \in Calls : /\ outcome[c] # "none" => stage[c] = "done"
                   /\ stage[c] = "backoff" => attempt[c] <= MaxRetries
                   /\ stage[c] = "streaming" => c \in Streams

\* The tasks that were asked to cancel are launched calls that have not ended, and
\* once the strategy has decided these are all that have not.
LosersAsked ==
  /\ \A c \in asked : c \in Launched /\ ~Done(c)
  /\ Decided => \A c \in Launched : Done(c) \/ c \in asked

\* The inductive invariant of the execution engine.
ExecInv == ExecTypeOK /\ FlowInOrder /\ CallsInOrder /\ CancelReachesInvocation /\ LosersAsked

\* Every call has an execution id.
LEMMA IdKnown == ASSUME NEW c \in Calls PROVE IdOf[c] \in CallIds
  BY DEF CallIds

\* A call that has not returned moves on, the strategy standing still.
LEMMA CallMoves ==
  ASSUME ExecInv, NEW c \in Calls, NEW to \in Stages, NEW res \in Outcomes, NEW n,
         n \in 0..(MaxRetries + 1), UNCHANGED flow,
         stage[c] # "done", stage[c] = "idle" => c \notin Members \/ c \in Streams,
         to # "idle", to = "streaming" => c \in Streams,
         (c \notin asked /\ UNCHANGED asked) \/ (to = "done" /\ asked' = asked \ {c}),
         stage' = [stage EXCEPT ![c] = to],
         outcome' = [outcome EXCEPT ![c] = res],
         attempt' = [attempt EXCEPT ![c] = n],
         res # "none" => to = "done", to = "backoff" => n <= MaxRetries
  PROVE  /\ stage' \in [Calls -> Stages] /\ outcome' \in [Calls -> Outcomes]
         /\ attempt' \in [Calls -> 0..(MaxRetries + 1)]
         /\ FlowInOrder' /\ CallsInOrder' /\ LosersAsked' /\ asked' \subseteq Calls
<1>1. /\ stage' \in [Calls -> Stages] /\ outcome' \in [Calls -> Outcomes]
      /\ attempt' \in [Calls -> 0..(MaxRetries + 1)]
  BY DEF ExecInv, ExecTypeOK
<1>2. /\ stage'[c] = to /\ outcome'[c] = res /\ attempt'[c] = n
      /\ \A d \in Calls \ {c} : /\ stage'[d] = stage[d] /\ outcome'[d] = outcome[d]
                                /\ attempt'[d] = attempt[d]
  BY DEF ExecInv, ExecTypeOK
<1>3. CallsInOrder'
  BY <1>2 DEF ExecInv, CallsInOrder
<1>4. \A k \in 1..Len(flow.members) : flow.members[k] \in Calls
  BY DEF ExecInv, ExecTypeOK, FlowState
<1>5. \A k \in 1..Len(flow.members) : k > flow.launched => flow.members[k] # c
  BY DEF ExecInv, FlowInOrder, Members
<1>6. FlowInOrder'
  BY <1>2, <1>4, <1>5 DEF ExecInv, FlowInOrder
<1>7. Launched \subseteq Calls
  BY <1>4 DEF ExecInv, ExecTypeOK, FlowState, FlowInOrder, Launched
<1>8. LosersAsked'
  <2>1. Launched' = Launched /\ (Decided' <=> Decided)
    BY DEF Launched, Decided
  <2>2. \A d \in Launched \ {c} : Done(d)' <=> Done(d)
    BY <1>2, <1>7 DEF Done
  <2>3. Done(c)' <=> to = "done"
    BY <1>2 DEF Done
  <2>4. ~Done(c)
    BY DEF Done
  <2> QED
    BY <2>1, <2>2, <2>3, <2>4 DEF ExecInv, LosersAsked
<1>9. asked' \subseteq Calls
  BY DEF ExecInv, ExecTypeOK
<1> QED
  BY <1>1, <1>3, <1>6, <1>8, <1>9

\* A call that is no part of a strategy, or has not been asked, goes on unasked.
LEMMA NotAsked ==
  ASSUME ExecInv, NEW c \in Calls, c \in Streams \/ c \notin Members \/ stage[c] = "idle"
  PROVE  c \notin asked
<1>1. ASSUME c \in asked PROVE FALSE
  <2>1. c \in Launched
    BY <1>1 DEF ExecInv, LosersAsked
  <2>2. PICK k \in 1..flow.launched : flow.members[k] = c
    BY <2>1 DEF Launched
  <2>3. flow.launched \in Nat /\ Len(flow.members) \in Nat /\ flow.launched <= Len(flow.members)
    BY DEF ExecInv, ExecTypeOK, FlowState, FlowInOrder
  <2>4. k \in 1..Len(flow.members) /\ ~(k > flow.launched)
    BY <2>3
  <2> QED
    BY <2>2, <2>4 DEF Members, ExecInv, FlowInOrder
<1> QED
  BY <1>1

\* What a call does to the store when it starts an attempt or ends one.
LEMMA TokenMoves ==
  ASSUME ExecInv, NEW c \in Calls, NEW to \in Stages,
         stage' = [stage EXCEPT ![c] = to],
         \/ Register(c)
         \/ Unregister(c) /\ UNCHANGED tokenSet /\ to # "invoking"
         \/ UNCHANGED <<stored, tokenSet>> /\ to # "invoking"
  PROVE  /\ stored' \in [CallIds -> Calls \union {NoCall}]
         /\ tokenSet' \in [Calls -> BOOLEAN]
         /\ CancelReachesInvocation'
<1>1. IdOf[c] \in CallIds
  BY IdKnown
<1>2. /\ stored \in [CallIds -> Calls \union {NoCall}]
      /\ tokenSet \in [Calls -> BOOLEAN] /\ stage \in [Calls -> Stages]
  BY DEF ExecInv, ExecTypeOK
<1>3. stored' \in [CallIds -> Calls \union {NoCall}]
  BY <1>1, <1>2 DEF Register, Unregister
<1>4. tokenSet' \in [Calls -> BOOLEAN]
  BY <1>2 DEF Register
<1>5. ASSUME NEW d \in Calls, stage'[d] = "invoking", ~Sharing(d), d # c
      PROVE  stored'[IdOf[d]] = d \/ tokenSet'[d]
  <2>1. IdOf[d] # IdOf[c] /\ IdOf[d] \in CallIds
    BY <1>5, IdKnown DEF Sharing
  <2>2. stored'[IdOf[d]] = stored[IdOf[d]] /\ tokenSet'[d] = tokenSet[d]
    BY <1>1, <1>2, <1>5, <2>1 DEF Register, Unregister
  <2>3. stage[d] = "invoking"
    BY <1>2, <1>5
  <2> QED
    BY <1>5, <2>2, <2>3 DEF ExecInv, CancelReachesInvocation
<1>6. stage'[c] = "invoking" => stored'[IdOf[c]] = c
  BY <1>1, <1>2 DEF Register
<1>7. CancelReachesInvocation'
  BY <1>5, <1>6 DEF CancelReachesInvocation, Sharing
<1> QED
  BY <1>3, <1>4, <1>7

\* The beginning of an attempt keeps the invariant of the executions.
LEMMA AttemptKeeps ==
  ASSUME ExecInv, NEW c \in Calls, NEW n \in 1..(MaxRetries + 1),
         stage[c] # "done", stage[c] = "idle" => c \notin Members,
         c \notin asked, StartAttempt(c, n), UNCHANGED <<engineUp, asked, flow>>
  PROVE  ExecInv'
<1>1. n \in 0..(MaxRetries + 1) /\ outcome[c] \in Outcomes /\ outcome[c] = "none"
  BY ExecutionAssumption DEF ExecInv, ExecTypeOK, CallsInOrder
<1>2. \E to \in {"invoking", "done"}, res \in {"none", "cancelled"} :
        /\ stage' = [stage EXCEPT ![c] = to]
        /\ outcome' = [outcome EXCEPT ![c] = res]
        /\ attempt' = [attempt EXCEPT ![c] = n]
        /\ res # "none" => to = "done"
        /\ Register(c) \/ (Unregister(c) /\ UNCHANGED tokenSet /\ to # "invoking")
  <2>1. outcome = [outcome EXCEPT ![c] = "none"]
    BY <1>1 DEF ExecInv, ExecTypeOK
  <2> QED
    BY <2>1 DEF StartAttempt, Return
<1>3. PICK to \in {"invoking", "done"}, res \in {"none", "cancelled"} :
        /\ stage' = [stage EXCEPT ![c] = to]
        /\ outcome' = [outcome EXCEPT ![c] = res]
        /\ attempt' = [attempt EXCEPT ![c] = n]
        /\ res # "none" => to = "done"
        /\ Register(c) \/ (Unregister(c) /\ UNCHANGED tokenSet /\ to # "invoking")
  BY <1>2
<1>4. to \in Stages /\ res \in Outcomes /\ to \notin {"backoff", "idle", "streaming"}
  BY <1>3 DEF Stages, Outcomes
<1>5. contexts' \subseteq CallIds
  BY IdKnown DEF StartAttempt, Return, ExecInv, ExecTypeOK
<1>6. /\ stage' \in [Calls -> Stages] /\ outcome' \in [Calls -> Outcomes]
      /\ attempt' \in [Calls -> 0..(MaxRetries + 1)]
      /\ FlowInOrder' /\ CallsInOrder' /\ LosersAsked' /\ asked' \subseteq Calls
  BY <1>1, <1>3, <1>4, CallMoves
<1>7. /\ stored' \in [CallIds -> Calls \union {NoCall}]
      /\ tokenSet' \in [Calls -> BOOLEAN] /\ CancelReachesInvocation'
  BY <1>3, <1>4, TokenMoves
<1> QED
  BY <1>5, <1>6, <1>7 DEF ExecInv, ExecTypeOK

\* A call under way returns, or sleeps before an attempt it has left.
LEMMA CallEnds ==
  ASSUME ExecInv, NEW c \in Calls, NEW to \in {"done", "backoff"}, NEW res \in Outcomes,
         stage[c] # "done", stage[c] = "idle" => c \notin Members,
         to = "done" \/ (res = "none" /\ attempt[c] <= MaxRetries),
         stage' = [stage EXCEPT ![c] = to],
         outcome' = [outcome EXCEPT ![c] = res],
         Unregister(c) \/ UNCHANGED stored,
         (c \notin asked /\ UNCHANGED asked) \/ (to = "done" /\ asked' = asked \ {c}),
         contexts' \subseteq contexts, UNCHANGED <<engineUp, attempt, tokenSet, flow>>
  PROVE  ExecInv'
<1>1. to \in Stages /\ to \notin {"invoking", "idle", "streaming"}
  BY DEF Stages
<1>2. attempt[c] \in 0..(MaxRetries + 1) /\ attempt' = [attempt EXCEPT ![c] = attempt[c]]
  BY DEF ExecInv, ExecTypeOK
<1>3. /\ stage' \in [Calls -> Stages] /\ outcome' \in [Calls -> Outcomes]
      /\ attempt' \in [Calls -> 0..(MaxRetries + 1)]
      /\ FlowInOrder' /\ CallsInOrder' /\ LosersAsked' /\ asked' \subseteq Calls
  BY <1>1, <1>2, CallMoves
<1>4. /\ stored' \in [CallIds -> Calls \union {NoCall}]
      /\ tokenSet' \in [Calls -> BOOLEAN] /\ CancelReachesInvocation'
  BY <1>1, TokenMoves
<1> QED
  BY <1>3, <1>4 DEF ExecInv, ExecTypeOK

\* execute() keeps it.
LEMMA ExecuteKeeps ==
  ASSUME ExecInv, NEW c \in Calls, Execute(c)
  PROVE  ExecInv'
<1>1. /\ stage[c] # "done" /\ (stage[c] = "idle" => c \notin Members)
      /\ c \notin asked /\ UNCHANGED <<engineUp, asked, flow>>
  BY NotAsked DEF Execute
<1>2. CASE StartAttempt(c, 1)
  <2>1. 1 \in 1..(MaxRetries + 1)
    BY ExecutionAssumption
  <2> QED
    BY <1>1, <1>2, <2>1, AttemptKeeps DEF Execute
<1>3. CASE /\ stage' = [stage EXCEPT ![c] = "done"]
           /\ outcome' = [outcome EXCEPT ![c] = "failed"]
           /\ UNCHANGED <<attempt, tokenSet, stored, contexts>>
  <2>1. "failed" \in Outcomes
    BY DEF Outcomes
  <2> QED
    BY <1>1, <1>3, <2>1, CallEnds
<1> QED
  BY <1>2, <1>3 DEF Execute

\* So does the retry after the backoff.
LEMMA BackoffKeeps ==
  ASSUME ExecInv, NEW c \in Calls, BackoffElapses(c)
  PROVE  ExecInv'
<1>1. /\ stage[c] = "backoff" /\ c \notin asked /\ StartAttempt(c, attempt[c] + 1)
      /\ UNCHANGED <<engineUp, asked, flow>>
  BY DEF BackoffElapses
<1>2. attempt[c] \in 0..(MaxRetries + 1) /\ attempt[c] <= MaxRetries
  BY <1>1 DEF ExecInv, ExecTypeOK, CallsInOrder
<1>3. attempt[c] + 1 \in 1..(MaxRetries + 1)
  BY <1>2, ExecutionAssumption
<1> QED
  BY <1>1, <1>3, AttemptKeeps

\* So does the end of an invocation or of a stream.
LEMMA InvokeEndsKeeps ==
  ASSUME ExecInv, NEW c \in Calls, InvokeEnds(c) \/ StreamEnds(c)
  PROVE  ExecInv'
<1>1. /\ stage[c] \in {"invoking", "streaming"} /\ Unregister(c)
      /\ c \notin asked /\ UNCHANGED <<engineUp, tokenSet, asked, flow>>
  <2>1. CASE InvokeEnds(c)
    BY <2>1 DEF InvokeEnds, InvokeCompletes, InvokeFails, HardTimeout, Invoking
  <2>2. CASE StreamEnds(c)
    <3>1. c \in Streams
      BY <2>2 DEF StreamEnds, ExecInv, CallsInOrder
    <3> QED
      BY <2>2, <3>1, NotAsked DEF StreamEnds
  <2> QED
    BY <2>1, <2>2
<1>2. /\ outcome \in [Calls -> Outcomes] /\ outcome[c] = "none"
      /\ outcome = [outcome EXCEPT ![c] = "none"]
  BY <1>1 DEF ExecInv, ExecTypeOK, CallsInOrder
<1>3. /\ contexts' \subseteq contexts /\ UNCHANGED attempt
      /\ \E to \in {"done", "backoff"}, res \in Outcomes :
           /\ stage' = [stage EXCEPT ![c] = to]
           /\ outcome' = [outcome EXCEPT ![c] = res]
           /\ to = "done" \/ (res = "none" /\ attempt[c] <= MaxRetries)
  <2>1. {"none", "completed", "failed", "timed_out", "streamed"} \subseteq Outcomes
    BY DEF Outcomes
  <2>2. CASE \E res \in {"completed", "failed", "timed_out", "streamed"} :
               Return(c, res) /\ UNCHANGED attempt
    BY <2>1, <2>2 DEF Return
  <2>3. CASE /\ attempt[c] <= MaxRetries
             /\ stage' = [stage EXCEPT ![c] = "backoff"]
             /\ UNCHANGED <<attempt, outcome, contexts>>
    BY <1>2, <2>1, <2>3
  <2> QED
    BY <2>2, <2>3
       DEF InvokeEnds, InvokeCompletes, InvokeFails, HardTimeout, StreamEnds, RetryOrFail
<1> QED
  BY <1>1, <1>3, CallEnds

\* So does the CancelledError in a task that was asked to cancel.
LEMMA CancelledKeeps ==
  ASSUME ExecInv, NEW c \in Calls, Cancelled(c)
  PROVE  ExecInv'
<1>1. /\ c \in asked /\ asked' = asked \ {c}
      /\ stage' = [stage EXCEPT ![c] = "done"]
      /\ outcome' = [outcome EXCEPT ![c] = "dropped"]
      /\ Unregister(c) \/ UNCHANGED stored
      /\ UNCHANGED <<engineUp, attempt, tokenSet, contexts, flow>>
  BY DEF Cancelled
<1>2. stage[c] # "done" /\ stage[c] # "idle" /\ "dropped" \in Outcomes
  BY <1>1, NotAsked DEF ExecInv, LosersAsked, Done, Outcomes
<1>3. contexts' \subseteq contexts
  BY <1>1
<1> QED
  BY <1>1, <1>2, <1>3, CallEnds

\* So does stream().
LEMMA ExecuteStreamKeeps ==
  ASSUME ExecInv, NEW c \in Calls, ExecuteStream(c)
  PROVE  ExecInv'
<1>1. /\ c \in Streams /\ stage[c] = "idle" /\ Register(c)
      /\ stage' = [stage EXCEPT ![c] = "streaming"]
      /\ c \notin asked /\ UNCHANGED <<engineUp, attempt, asked, outcome, flow>>
  BY NotAsked DEF ExecuteStream
<1>2. "streaming" \in Stages /\ "streaming" # "backoff"
  BY DEF Stages
<1>3. /\ attempt[c] \in 0..(MaxRetries + 1) /\ attempt' = [attempt EXCEPT ![c] = attempt[c]]
      /\ outcome[c] \in Outcomes /\ outcome' = [outcome EXCEPT ![c] = outcome[c]]
      /\ outcome[c] = "none"
  BY <1>1 DEF ExecInv, ExecTypeOK, CallsInOrder
<1>4. /\ stage' \in [Calls -> Stages] /\ outcome' \in [Calls -> Outcomes]
      /\ attempt' \in [Calls -> 0..(MaxRetries + 1)]
      /\ FlowInOrder' /\ CallsInOrder' /\ LosersAsked' /\ asked' \subseteq Calls
  <2> DEFINE n == attempt[c]
             res == outcome[c]
  <2>1. n \in 0..(MaxRetries + 1) /\ res \in Outcomes /\ res = "none"
    BY <1>3
  <2>2. attempt' = [attempt EXCEPT ![c] = n] /\ outcome' = [outcome EXCEPT ![c] = res]
    BY <1>3
  <2>3. stage[c] # "done" /\ UNCHANGED flow
    BY <1>1
  <2> HIDE DEF n, res
  <2> QED
    BY <1>1, <1>2, <2>1, <2>2, <2>3, CallMoves
<1>5. /\ stored' \in [CallIds -> Calls \union {NoCall}]
      /\ tokenSet' \in [Calls -> BOOLEAN] /\ CancelReachesInvocation'
  BY <1>1, <1>2, TokenMoves
<1>6. contexts' \subseteq CallIds
  BY IdKnown DEF ExecuteStream, ExecInv, ExecTypeOK
<1> QED
  BY <1>1, <1>4, <1>5, <1>6 DEF ExecInv, ExecTypeOK

\* Steps that leave the calls and the strategy alone.
LEMMA CallsStay ==
  ASSUME ExecInv, UNCHANGED <<stage, attempt, asked, outcome, flow>>
  PROVE  FlowInOrder' /\ CallsInOrder' /\ LosersAsked'
  BY DEF ExecInv, FlowInOrder, CallsInOrder, LosersAsked, Launched, Done, Decided

\* The Event cancel() takes out of the store is set.
LEMMA CancelKeeps ==
  ASSUME ExecInv, NEW i \in CallIds, Cancel(i)
  PROVE  ExecInv'
<1>1. /\ stored \in [CallIds -> Calls \union {NoCall}] /\ tokenSet \in [Calls -> BOOLEAN]
      /\ stored[i] \in Calls
      /\ tokenSet' = [tokenSet EXCEPT ![stored[i]] = TRUE]
      /\ stored' = [stored EXCEPT ![i] = NoCall]
      /\ UNCHANGED <<engineUp, stage, attempt, contexts, asked, outcome, flow>>
  BY DEF Cancel, ExecInv, ExecTypeOK
<1>2. stored' \in [CallIds -> Calls \union {NoCall}] /\ tokenSet' \in [Calls -> BOOLEAN]
  BY <1>1
<1>3. ASSUME NEW c \in Calls, stage[c] = "invoking", ~Sharing(c)
      PROVE  stored'[IdOf[c]] = c \/ tokenSet'[c]
  <2>1. stored[IdOf[c]] = c \/ tokenSet[c]
    BY <1>3 DEF ExecInv, CancelReachesInvocation
  <2>2. tokenSet[c] => tokenSet'[c]
    BY <1>1
  <2>3. stored[IdOf[c]] = c => stored'[IdOf[c]] = c \/ tokenSet'[c]
    BY <1>1, IdKnown
  <2> QED
    BY <2>1, <2>2, <2>3
<1>4. CancelReachesInvocation'
  BY <1>1, <1>3 DEF CancelReachesInvocation, Sharing
<1> QED
  BY <1>1, <1>2, <1>4, CallsStay DEF ExecInv, ExecTypeOK

\* stop() cancels what runs and keeps it.
LEMMA EngineStopKeeps ==
  ASSUME ExecInv, EngineStop
  PROVE  ExecInv'
<1> DEFINE hit == {stored[i] : i \in contexts} \ {NoCall}
<1>1. /\ contexts \subseteq CallIds
      /\ stored \in [CallIds -> Calls \union {NoCall}] /\ tokenSet \in [Calls -> BOOLEAN]
      /\ engineUp' = FALSE
      /\ tokenSet' = [c \in Calls |-> tokenSet[c] \/ c \in hit]
      /\ stored' = [i \in CallIds |-> IF i \in contexts THEN NoCall ELSE stored[i]]
      /\ contexts' = {}
      /\ UNCHANGED <<stage, attempt, asked, outcome, flow>>
  BY DEF EngineStop, ExecInv, ExecTypeOK
<1>2. stored' \in [CallIds -> Calls \union {NoCall}] /\ tokenSet' \in [Calls -> BOOLEAN]
  BY <1>1
<1>3. ASSUME NEW c \in Calls, stage[c] = "invoking", ~Sharing(c)
      PROVE  stored'[IdOf[c]] = c \/ tokenSet'[c]
  <2>1. stored[IdOf[c]] = c \/ tokenSet[c]
    BY <1>3 DEF ExecInv, CancelReachesInvocation
  <2>2. tokenSet[c] => tokenSet'[c]
    BY <1>1
  <2>3. CASE stored[IdOf[c]] = c /\ IdOf[c] \in contexts
    <3>1. c \in hit
      BY <2>3, ExecutionAssumption
    <3> QED
      BY <1>1, <3>1
  <2>4. CASE stored[IdOf[c]] = c /\ IdOf[c] \notin contexts
    BY <1>1, <2>4, IdKnown
  <2> QED
    BY <2>1, <2>2, <2>3, <2>4
<1>4. CancelReachesInvocation'
  BY <1>1, <1>3 DEF CancelReachesInvocation, Sharing
<1> QED
  BY <1>1, <1>2, <1>4, CallsStay DEF ExecInv, ExecTypeOK

\* Steps that touch no Event and begin no invocation.
LEMMA TokensStay ==
  ASSUME ExecInv, UNCHANGED <<stored, tokenSet>>,
         \A c \in Calls : stage'[c] = "invoking" => stage[c] = "invoking"
  PROVE  CancelReachesInvocation'
  BY DEF ExecInv, CancelReachesInvocation, Sharing

\* The members of a flow are calls, and those launched come first.
LEMMA MembersAreCalls ==
  ASSUME ExecInv
  PROVE  /\ flow.launched \in Nat /\ Len(flow.members) \in Nat
         /\ flow.launched <= Len(flow.members)
         /\ \A k \in 1..Len(flow.members) : flow.members[k] \in Calls
         /\ Launched \subseteq Calls
<1>1. /\ flow.launched \in Nat /\ flow.members \in Seq(Calls)
      /\ flow.launched <= Len(flow.members)
  BY DEF ExecInv, ExecTypeOK, FlowState, FlowInOrder
<1> QED
  BY <1>1 DEF Launched

\* The start of a parallel or race execution keeps the invariant.
LEMMA FlowStartKeeps ==
  ASSUME ExecInv, NEW kind \in FlowKinds, NEW m \in Pairs, FlowStart(kind, m)
  PROVE  ExecInv'
<1>1. /\ m \in Seq(Calls) /\ Len(m) = 2 /\ m[1] # m[2]
      /\ \A k \in 1..2 : m[k] \in Calls /\ m[k] \notin Streams
  <2>1. m \in [1..2 -> Calls \ Streams] /\ m[1] # m[2]
    BY DEF Pairs
  <2>2. m \in [1..2 -> Calls]
    BY <2>1
  <2>3. m \in Seq(Calls) /\ Len(m) = 2
    <3> DEFINE n == 2
    <3>1. m \in Seq(Calls)
      <4>1. n \in Nat /\ m \in [1..n -> Calls]
        BY <2>2
      <4> HIDE DEF n
      <4> QED
        BY <4>1, SeqDef, Zenon
    <3>2. DOMAIN m = 1..Len(m) /\ Len(m) \in Nat
      BY <3>1
    <3> QED
      BY <2>2, <3>1, <3>2
  <2> QED
    BY <2>1, <2>2, <2>3
<1>2. /\ \A k \in 1..2 : stage[m[k]] = "idle"
      /\ UNCHANGED <<engineUp, attempt, tokenSet, stored, contexts, asked, outcome>>
      /\ asked = {}
  <2>1. flow.launched = 0
    BY DEF FlowStart, NoFlow
  <2> QED
    BY <1>1, <2>1 DEF FlowStart, ExecInv, LosersAsked, Launched
<1>3. stage \in [Calls -> Stages] /\ {"scheduled", "idle"} \subseteq Stages
  BY DEF ExecInv, ExecTypeOK, Stages
<1>4. ASSUME NEW n \in 1..2,
             flow' = [kind |-> kind, members |-> m, launched |-> n, result |-> "none"],
             stage' = [c \in Calls |-> IF \E k \in 1..n : m[k] = c THEN "scheduled" ELSE stage[c]]
      PROVE  ExecInv'
  <2>1. /\ flow' \in FlowState /\ flow'.members = m /\ flow'.launched = n
        /\ flow'.result = "none"
    BY <1>1, <1>4 DEF FlowState, Outcomes
  <2>2. stage' \in [Calls -> Stages]
    BY <1>3, <1>4
  <2>3. \A c \in Calls : stage'[c] = stage[c] \/ (stage'[c] = "scheduled" /\ stage[c] = "idle")
    BY <1>1, <1>2, <1>4
  <2>4. \A k \in 1..2 : k > n <=> stage'[m[k]] = "idle"
    BY <1>1, <1>2, <1>4
  <2>5. FlowInOrder'
    <3>1. Len(flow'.members) = 2 /\ flow'.launched <= 2
      BY <1>1, <2>1
    <3>2. \A j, k \in 1..2 : j # k => m[j] # m[k]
      BY <1>1
    <3> QED
      BY <1>1, <2>1, <2>4, <3>1, <3>2 DEF FlowInOrder
  <2>6. CallsInOrder'
    BY <1>2, <2>3 DEF ExecInv, CallsInOrder
  <2>7. LosersAsked'
    BY <1>2, <2>1 DEF LosersAsked, Decided
  <2>8. CancelReachesInvocation'
    BY <1>2, <2>3, TokensStay
  <2> QED
    BY <1>2, <2>1, <2>2, <2>5, <2>6, <2>7, <2>8 DEF ExecInv, ExecTypeOK
<1>5. CASE /\ flow' = [kind |-> kind, members |-> <<>>, launched |-> 0, result |-> "failed"]
           /\ UNCHANGED stage
  <2>1. /\ flow' \in FlowState /\ flow'.members = <<>> /\ flow'.launched = 0
        /\ flow'.result = "failed"
    BY <1>5 DEF FlowState, Outcomes
  <2>2. FlowInOrder'
    BY <2>1 DEF FlowInOrder
  <2>3. Launched' = {}
    BY <2>1 DEF Launched
  <2>4. LosersAsked'
    BY <1>2, <2>3 DEF LosersAsked
  <2>5. CallsInOrder' /\ CancelReachesInvocation'
    BY <1>2, <1>5, TokensStay DEF ExecInv, CallsInOrder
  <2> QED
    BY <1>2, <1>5, <2>1, <2>2, <2>4, <2>5 DEF ExecInv, ExecTypeOK
<1>6. \/ \E n \in 1..2 :
           /\ flow' = [kind |-> kind, members |-> m, launched |-> n, result |-> "none"]
           /\ stage' = [c \in Calls |-> IF \E k \in 1..n : m[k] = c
                                       THEN "scheduled" ELSE stage[c]]
      \/ /\ flow' = [kind |-> kind, members |-> <<>>, launched |-> 0, result |-> "failed"]
         /\ UNCHANGED stage
  BY <1>1 DEF FlowStart
<1> QED
  BY <1>4, <1>5, <1>6

\* So does the launch of the next member.
LEMMA LaunchKeeps ==
  ASSUME ExecInv, Active, LaunchNext
  PROVE  ExecInv'
<1> DEFINE n == flow.launched + 1
           c == flow.members[n]
<1>1. /\ n \in 1..Len(flow.members) /\ c \in Calls /\ n > flow.launched
      /\ flow \in FlowState /\ flow.result = "none"
  BY MembersAreCalls DEF LaunchNext, Active, ExecInv, ExecTypeOK
<1>2. stage[c] = "idle" /\ outcome[c] = "none"
  <2>1. stage[c] = "idle"
    BY <1>1 DEF ExecInv, FlowInOrder
  <2> QED
    BY <1>1, <2>1 DEF ExecInv, CallsInOrder
<1>3. /\ flow' = [flow EXCEPT !.launched = n]
      /\ stage' = [stage EXCEPT ![c] = "scheduled"]
      /\ UNCHANGED <<engineUp, attempt, tokenSet, stored, contexts, asked, outcome>>
  BY DEF LaunchNext
<1>4. flow' \in FlowState /\ flow'.result = "none" /\ flow'.members = flow.members
      /\ flow'.launched = n
  BY SMTT(30), <1>1, <1>3, MembersAreCalls DEF FlowState
<1>5. /\ stage' \in [Calls -> Stages] /\ stage'[c] = "scheduled"
      /\ \A d \in Calls \ {c} : stage'[d] = stage[d]
  BY <1>1, <1>3 DEF ExecInv, ExecTypeOK, Stages
<1>6. ASSUME NEW k \in 1..Len(flow.members)
      PROVE  k > n <=> stage'[flow.members[k]] = "idle"
  <2>1. CASE k = n
    BY <1>1, <1>5, <2>1, MembersAreCalls
  <2>2. CASE k # n
    <3>1. flow.members[k] # c /\ (k > flow.launched <=> stage[flow.members[k]] = "idle")
      BY <1>1, <2>2 DEF ExecInv, FlowInOrder
    <3>2. k > n <=> k > flow.launched
      BY <1>1, <2>2, MembersAreCalls
    <3> QED
      BY <1>5, <3>1, <3>2, MembersAreCalls
  <2> QED
    BY <2>1, <2>2
<1> HIDE DEF c
<1>7. FlowInOrder'
  BY <1>1, <1>4, <1>6 DEF FlowInOrder, ExecInv
<1>8. CallsInOrder'
  BY <1>1, <1>2, <1>3, <1>5 DEF CallsInOrder, ExecInv
<1>9. LosersAsked'
  <2>1. ~Decided'
    BY <1>4 DEF Decided
  <2>2. ASSUME NEW d \in asked PROVE d \in Launched' /\ ~Done(d)'
    <3>1. d \in Launched /\ ~Done(d) /\ d \in Calls
      BY MembersAreCalls DEF ExecInv, LosersAsked
    <3>2. d \in Launched'
      BY <1>1, <1>4, <3>1, MembersAreCalls DEF Launched
    <3>3. stage[d] # "done" => stage'[d] # "done"
      BY <1>5, <3>1
    <3> QED
      BY <3>1, <3>2, <3>3 DEF Done
  <2>3. asked' = asked
    BY <1>3
  <2> QED
    BY <2>1, <2>2, <2>3 DEF LosersAsked
<1>10. CancelReachesInvocation'
  BY <1>3, <1>5, TokensStay
<1> QED
  BY <1>3, <1>4, <1>5, <1>7, <1>8, <1>9, <1>10 DEF ExecInv, ExecTypeOK

\* A strategy returns; that its losers have been asked to stop is for the caller to show.
LEMMA ReturnKeeps ==
  ASSUME ExecInv, NEW result \in Outcomes, FlowReturns(result)
  PROVE  /\ flow' \in FlowState /\ flow'.kind = flow.kind /\ flow'.result = result
         /\ flow'.members = flow.members /\ flow'.launched = flow.launched
         /\ Launched' = Launched
<1>1. flow \in FlowState /\ flow' = [flow EXCEPT !.result = result]
  BY DEF ExecInv, ExecTypeOK, FlowReturns
<1>2. /\ flow' \in FlowState /\ flow'.kind = flow.kind /\ flow'.result = result
      /\ flow'.members = flow.members /\ flow'.launched = flow.launched
  BY <1>1 DEF FlowState
<1> QED
  BY <1>2 DEF Launched

\* A return keeps the invariant, if nobody has lost or the tasks pending are cancelled.
LEMMA ReturnsKeeps ==
  ASSUME ExecInv, Active, NEW result \in Outcomes, FlowReturns(result),
         UNCHANGED <<engineUp, stage, attempt, tokenSet, stored, contexts, outcome>>,
         \/ CancelPending
         \/ /\ UNCHANGED asked
            /\ flow.kind # "race"
            /\ flow.kind \in {"hedged", "speculative"} /\ result = "completed"
                 => \A c \in Launched : Done(c)
  PROVE  ExecInv'
<1>1. /\ flow' \in FlowState /\ flow'.kind = flow.kind /\ flow'.result = result
      /\ flow'.members = flow.members /\ flow'.launched = flow.launched
      /\ Launched' = Launched
  BY ReturnKeeps
<1>2. FlowInOrder' /\ CallsInOrder'
  BY <1>1 DEF ExecInv, FlowInOrder, CallsInOrder
<1>3. LosersAsked' /\ asked' \subseteq Calls
  <2>1. \A c : Done(c)' <=> Done(c)
    BY DEF Done
  <2>2. Launched \subseteq Calls
    BY MembersAreCalls
  <2>3. CASE CancelPending
    BY <1>1, <2>1, <2>2, <2>3 DEF CancelPending, LosersAsked, ExecInv, ExecTypeOK
  <2>4. CASE /\ UNCHANGED asked
             /\ flow.kind # "race"
             /\ flow.kind \in {"hedged", "speculative"} /\ result = "completed"
                  => \A c \in Launched : Done(c)
    BY <1>1, <2>1, <2>4 DEF LosersAsked, Decided, ExecInv, ExecTypeOK
  <2> QED
    BY <2>3, <2>4
<1>4. CancelReachesInvocation'
  BY TokensStay
<1> QED
  BY <1>1, <1>2, <1>3, <1>4 DEF ExecInv, ExecTypeOK

\* So does every step of the flow.
LEMMA FlowStepKeeps ==
  ASSUME ExecInv, FlowStep
  PROVE  ExecInv'
<1>1. {"completed", "failed"} \subseteq Outcomes
  BY DEF Outcomes
<1>2. CASE GatherReturns
  BY <1>1, <1>2, ReturnsKeeps DEF GatherReturns, FlowStep
<1>3. CASE FirstReturns
  BY <1>1, <1>3, ReturnsKeeps DEF FirstReturns, FlowStep
<1>4. CASE RaceReturns
  BY <1>1, <1>4, ReturnsKeeps DEF RaceReturns, FlowStep
<1>5. CASE PrimaryReturns
  <2>1. flow.members[1] \in Calls /\ Launched = {flow.members[1]}
    BY <1>5, MembersAreCalls DEF PrimaryReturns, Launched
  <2>2. Done(flow.members[1])
    BY <1>5, <2>1 DEF PrimaryReturns, Succeeded, Done, ExecInv, CallsInOrder
  <2> QED
    BY <1>1, <1>5, <2>1, <2>2, ReturnsKeeps DEF PrimaryReturns, FlowStep
<1>6. CASE LaunchSecondary
  BY <1>6, LaunchKeeps DEF FlowStep, LaunchSecondary
<1>7. CASE SequenceStep
  <2>1. flow.kind \notin {"race", "hedged", "speculative"}
    BY <1>7 DEF SequenceStep, Sequential
  <2>2. CASE LaunchNext
    BY <2>2, LaunchKeeps DEF FlowStep
  <2>3. CASE /\ \E result \in {"completed", "failed"} : FlowReturns(result)
             /\ UNCHANGED <<engineUp, stage, attempt, tokenSet, stored, contexts, asked, outcome>>
    BY <1>1, <2>1, <2>3, ReturnsKeeps DEF FlowStep
  <2> QED
    BY <1>7, <2>2, <2>3 DEF SequenceStep
<1> QED
  BY <1>2, <1>3, <1>4, <1>5, <1>6, <1>7 DEF FlowStep

\* An engine without executions satisfies the invariant.
LEMMA ExecInitially == ExecInit => ExecInv
<1> SUFFICES ASSUME ExecInit PROVE ExecInv
  OBVIOUS
<1>1. flow \in FlowState /\ flow.members = <<>> /\ flow.launched = 0 /\ flow.result = "none"
  BY DEF ExecInit, NoFlow, FlowState, Outcomes
<1>2. ExecTypeOK
  <2>1. /\ stage \in [Calls -> Stages] /\ outcome \in [Calls -> Outcomes]
        /\ engineUp \in BOOLEAN /\ tokenSet \in [Calls -> BOOLEAN]
    BY DEF ExecInit, Stages, Outcomes
  <2>2. attempt \in [Calls -> 0..(MaxRetries + 1)]
    BY ExecutionAssumption DEF ExecInit
  <2>3. /\ stored \in [CallIds -> Calls \union {NoCall}] /\ contexts \subseteq CallIds
        /\ asked \subseteq Calls
    BY DEF ExecInit
  <2> QED
    BY <1>1, <2>1, <2>2, <2>3 DEF ExecTypeOK
<1>3. FlowInOrder
  BY <1>1 DEF FlowInOrder
<1>4. LosersAsked
  BY <1>1 DEF LosersAsked, Decided, ExecInit
<1>5. CallsInOrder /\ CancelReachesInvocation
  BY DEF ExecInit, CallsInOrder, CancelReachesInvocation
<1> QED
  BY <1>2, <1>3, <1>4, <1>5 DEF ExecInv

\* Every step of the engine keeps it.
LEMMA ExecInductive == ExecInv /\ [ExecNext]_execVars => ExecInv'
<1> SUFFICES ASSUME ExecInv, [ExecNext]_execVars PROVE ExecInv'
  OBVIOUS
<1>1. CASE EngineStart \/ UNCHANGED execVars
  <2>1. /\ UNCHANGED <<stage, attempt, tokenSet, stored, contexts, asked, outcome, flow>>
        /\ engineUp' \in BOOLEAN
    BY <1>1 DEF EngineStart, execVars, ExecInv, ExecTypeOK
  <2> QED
    BY <2>1, CallsStay, TokensStay DEF ExecInv, ExecTypeOK
<1>2. CASE ExecNext /\ ~EngineStart
  BY <1>2, EngineStopKeeps, ExecuteKeeps, BackoffKeeps, InvokeEndsKeeps, CancelledKeeps, ExecuteStreamKeeps,
     CancelKeeps, FlowStartKeeps, FlowStepKeeps DEF ExecNext
<1> QED
  BY <1>1, <1>2

\* cancel(id) reaches a call that awaits its provider, if the id is its own,
\* whatever other calls, retries, timeouts, strategies and restarts of the engine
\* do to the store (_CancellationStore, execute).
THEOREM CancelReaches == ExecSpec => []CancelReachesInvocation
<1>1. ExecInv => CancelReachesInvocation
  BY DEF ExecInv
<1> QED
  BY ExecInitially, ExecInductive, <1>1, PTL DEF ExecSpec

\* What a step may do to a call that was asked to cancel, after the strategy's result.
LEMMA LoserStep ==
  ASSUME ExecInv, ExecNext, Decided, NEW c \in Launched, ~Done(c)
  PROVE  attempt'[c] = attempt[c] /\ outcome'[c] \in {"none", "dropped"}
<1>1. c \in asked /\ c \in Calls /\ c \notin Streams /\ c \in Members /\ stage[c] # "idle"
  BY NotAsked, MembersAreCalls DEF ExecInv, LosersAsked
<1>2. outcome[c] = "none"
  BY <1>1 DEF ExecInv, CallsInOrder, Done
<1>3. attempt \in [Calls -> 0..(MaxRetries + 1)] /\ outcome \in [Calls -> Outcomes]
  BY DEF ExecInv, ExecTypeOK
<1>4. flow # NoFlow /\ ~Active
  BY DEF Decided, NoFlow, Active
<1>5. ASSUME NEW d \in Calls, NEW n, StartAttempt(d, n), d # c
      PROVE  attempt'[c] = attempt[c] /\ outcome'[c] = outcome[c]
  BY <1>1, <1>3, <1>5 DEF StartAttempt, Return
<1>6. ASSUME NEW d \in Calls, Execute(d) PROVE attempt'[c] = attempt[c] /\ outcome'[c] = outcome[c]
  <2>1. d # c
    BY <1>1, <1>6 DEF Execute
  <2> QED
    BY <1>1, <1>3, <1>5, <1>6, <2>1 DEF Execute
<1>7. ASSUME NEW d \in Calls, BackoffElapses(d)
      PROVE  attempt'[c] = attempt[c] /\ outcome'[c] = outcome[c]
  BY <1>1, <1>5, <1>7 DEF BackoffElapses
<1>8. ASSUME NEW d \in Calls, InvokeEnds(d)
      PROVE  attempt'[c] = attempt[c] /\ outcome'[c] = outcome[c]
  <2>1. d # c /\ UNCHANGED attempt
    BY <1>1, <1>8 DEF InvokeEnds, InvokeCompletes, InvokeFails, HardTimeout, Invoking, RetryOrFail
  <2> QED
    BY <1>1, <1>3, <1>8, <2>1
       DEF InvokeEnds, InvokeCompletes, InvokeFails, HardTimeout, RetryOrFail, Return
<1>9. ASSUME NEW d \in Calls, StreamEnds(d)
      PROVE  attempt'[c] = attempt[c] /\ outcome'[c] = outcome[c]
  <2>1. d # c
    BY <1>1, <1>9 DEF StreamEnds, ExecInv, CallsInOrder
  <2> QED
    BY <1>1, <1>3, <1>9, <2>1 DEF StreamEnds, Return
<1>10. ASSUME NEW d \in Calls, Cancelled(d)
       PROVE  attempt'[c] = attempt[c] /\ outcome'[c] \in {outcome[c], "dropped"}
  BY <1>1, <1>3, <1>10 DEF Cancelled
<1>11. ASSUME \/ EngineStart \/ EngineStop
              \/ \E d \in Calls : ExecuteStream(d)
              \/ \E i \in CallIds : Cancel(i)
       PROVE  attempt'[c] = attempt[c] /\ outcome'[c] = outcome[c]
  BY <1>11 DEF EngineStart, EngineStop, ExecuteStream, Cancel
<1>12. ~\E kind \in FlowKinds, m \in Pairs : FlowStart(kind, m)
  BY <1>4 DEF FlowStart
<1>13. ~FlowStep
  BY <1>4 DEF FlowStep
<1> QED
  BY <1>2, <1>6, <1>7, <1>8, <1>9, <1>10, <1>11, <1>12, <1>13 DEF ExecNext

\* Between the result of a hedged, speculative or race execution and the moment its
\* losers have stopped, no loser calls a provider again and none completes, for any
\* number of calls and retries (execute_hedged, execute_speculative, execute_race).
THEOREM LosersNeverGoOn == ExecSpec => LosersStop
<1>1. ExecInv /\ [ExecNext]_execVars
        => [Decided => \A c \in Launched : ~Done(c) =>
              attempt'[c] = attempt[c] /\ outcome'[c] \in {"none", "dropped"}]_execVars
  BY LoserStep
<1> QED
  BY ExecInitially, ExecInductive, <1>1, PTL DEF ExecSpec, LosersStop

(***************************************************************************)
(* The scheduler                                                           *)
(***************************************************************************)
\* A finite set of naturals that is not empty has a greatest element.
LEMMA GreatestOfFinite ==
  ASSUME NEW S \in SUBSET Nat, IsFiniteSet(S), S # {}
  PROVE  \E x \in S : \A y \in S : x >= y
<1> DEFINE Bad == {T \in SUBSET S : T # {} /\ ~\E x \in T : \A y \in T : x >= y}
           Sizes == {Cardinality(T) : T \in Bad}
<1> SUFFICES ASSUME S \in Bad PROVE FALSE
  OBVIOUS
<1>1. \A T \in SUBSET S : IsFiniteSet(T) /\ Cardinality(T) \in Nat
  BY FS_Subset, FS_CardinalityType
<1>2. Sizes \in SUBSET Nat /\ Sizes # {}
  BY <1>1
<1>3. PICK n \in Sizes : \A m \in Sizes : n <= m
  BY <1>2, Least
<1>4. PICK T \in Bad : Cardinality(T) = n
  BY <1>3
<1>5. PICK t \in T : TRUE
  OBVIOUS
<1> DEFINE R == T \ {t}
<1>6. IsFiniteSet(R) /\ Cardinality(R) = n - 1 /\ n \in Nat
  BY <1>1, <1>4, <1>5, FS_RemoveElement
<1>7. R \notin Bad
  <2>1. Cardinality(R) \notin Sizes
    BY <1>6, <1>3
  <2> HIDE DEF Bad, R
  <2> QED
    BY <2>1
<1>8. CASE R = {}
  BY <1>5, <1>8
<1>9. CASE R # {}
  <2>1. PICK x \in R : \A y \in R : x >= y
    BY <1>7, <1>9
  <2>2. T \subseteq Nat
    OBVIOUS
  <2>3. x \in Nat /\ t \in Nat /\ x \in T
    BY <2>1, <2>2
  <2>4. CASE x >= t
    BY <2>1, <2>3, <2>4
  <2>5. CASE ~(x >= t)
    <3>1. \A y \in T : t >= y
      BY <2>1, <2>2, <2>3, <2>5
    <3> QED
      BY <3>1
  <2> QED
    BY <2>4, <2>5
<1> QED
  BY <1>8, <1>9

\* float("inf") is a number here.
LEMMA ForeverIsANumber == Forever \in Nat /\ Forever > MaxTime
<1> DEFINE S == Delays \union {0}
<1>1. IsFiniteSet(S) /\ S \in SUBSET Nat /\ S # {}
  BY SchedulerAssumption, FS_AddElement
<1>2. \E x \in S : \A y \in S : x >= y
  BY <1>1, GreatestOfFinite
<1>3. Max(S) \in S
  BY <1>2 DEF Max
<1>4. Max(S) \in Nat
  BY <1>1, <1>3
<1> QED
  BY <1>4, SchedulerAssumption DEF Forever

-----------------------------------------------------------------------------
(* The heap. *)

\* The entries of an array.
HeapEntries(h) == {h[k] : k \in DOMAIN h}
\* No two entries are of one request.
Separate(h) == \A j, k \in DOMAIN h : h[j].item = h[k].item => j = k

\* g has the entries of h in another order.
Rearranged(g, h) ==
  /\ g \in Seq(Entry) /\ Len(g) = Len(h)
  /\ HeapEntries(g) = HeapEntries(h)
  /\ Separate(h) => Separate(g)

\* Rearranging a rearranged array rearranges the array.
LEMMA RearrangedTwice ==
  ASSUME NEW h, NEW g, Rearranged(g, h), NEW r, Rearranged(r, g)
  PROVE  Rearranged(r, h)
  BY DEF Rearranged

\* Swapping two entries is a rearrangement.
LEMMA ExchangeRearranges ==
  ASSUME NEW h \in Seq(Entry), NEW j \in DOMAIN h, NEW k \in DOMAIN h
  PROVE  Rearranged(Exchange(h, j, k), h)
<1> DEFINE g == Exchange(h, j, k)
           D == DOMAIN h
<1>1. D = 1..Len(h) /\ Len(h) \in Nat /\ \A i \in D : h[i] \in Entry
  BY LenProperties, ElementOfSeq
<1>2. DOMAIN g = D /\ \A i \in D : g[i] = IF i = k THEN h[j] ELSE IF i = j THEN h[k] ELSE h[i]
  BY DEF Exchange
<1>3. g \in [D -> Entry]
  BY <1>1, <1>2 DEF Exchange
<1> HIDE DEF g
<1>4. g \in Seq(Entry) /\ Len(g) = Len(h)
  BY <1>1, <1>3, IsASeq, LenProperties
<1>5. HeapEntries(g) \subseteq HeapEntries(h)
  BY <1>2 DEF HeapEntries
<1>6. ASSUME NEW e \in HeapEntries(h) PROVE e \in HeapEntries(g)
  <2>1. PICK i \in D : h[i] = e
    BY DEF HeapEntries
  <2>2. g[IF i = j THEN k ELSE IF i = k THEN j ELSE i] = e
    BY <1>2, <2>1
  <2> QED
    BY <1>2, <2>2 DEF HeapEntries
<1>7. Separate(h) => Separate(g)
  BY <1>2 DEF Separate
<1> QED
  BY <1>4, <1>5, <1>6, <1>7 DEF Rearranged, g

\* The recursions of the heap have solutions.
LEMMA RaiseSolved ==
  Raise = [p \in Position |->
             IF p.at > 1 /\ Before(p.heap[p.at], p.heap[p.at \div 2])
             THEN Raise[At(Exchange(p.heap, p.at, p.at \div 2), p.at \div 2)] ELSE p.heap]
<1> DEFINE V == Seq(Entry)
           E(f) == [p \in Position |->
                      IF p.at > 1 /\ Before(p.heap[p.at], p.heap[p.at \div 2])
                      THEN f[At(Exchange(p.heap, p.at, p.at \div 2), p.at \div 2)] ELSE p.heap]
           F == [f \in [Position -> V] |-> E(f)]
           m == [p \in Position |-> p.at]
           start == [p \in Position |-> p.heap]
<1>1. m \in [Position -> Nat] /\ start \in [Position -> V]
  BY DEF Position
<1>2. ASSUME NEW p \in Position, p.at > 1
      PROVE  /\ At(Exchange(p.heap, p.at, p.at \div 2), p.at \div 2) \in Position
             /\ p.at \div 2 < p.at
             /\ At(Exchange(p.heap, p.at, p.at \div 2), p.at \div 2).at = p.at \div 2
  <2>1. p.heap \in V /\ p.at \in 1..Len(p.heap) /\ p.at \in Nat /\ p.at > 1
    BY <1>2 DEF Position
  <2>2. p.at \div 2 \in Nat /\ p.at \div 2 \in 1..Len(p.heap) /\ p.at \div 2 < p.at
    BY <2>1
  <2>3. Rearranged(Exchange(p.heap, p.at, p.at \div 2), p.heap)
    BY <2>1, <2>2, ExchangeRearranges, LenProperties
  <2> QED
    BY <2>1, <2>2, <2>3 DEF Rearranged, Position, At
<1>3. ASSUME NEW f \in [Position -> V] PROVE E(f) \in [Position -> V]
  <2>1. ASSUME NEW p \in Position PROVE E(f)[p] \in V
    BY <1>2 DEF Position
  <2> QED
    BY <2>1
<1>4. F \in [[Position -> V] -> [Position -> V]]
  BY <1>3
<1>5. ASSUME NEW f \in [Position -> V], NEW g \in [Position -> V], NEW p \in Position,
             \A q \in Position : m[q] < m[p] => f[q] = g[q]
      PROVE  F[f][p] = F[g][p]
  <2>1. F[f][p] = E(f)[p] /\ F[g][p] = E(g)[p]
    OBVIOUS
  <2>2. CASE p.at > 1
    BY <1>2, <1>5, <2>1, <2>2
  <2>3. CASE ~(p.at > 1)
    BY <2>1, <2>3
  <2> QED
    BY <2>2, <2>3
<1> HIDE DEF m, start, F
<1>6. Decreases(F, m, Position, V)
  BY <1>1, <1>4, <1>5 DEF Decreases
<1>7. \E f : f = E(f)
  <2> HIDE DEF V, E
  <2>1. PICK f : f = F[f] /\ f \in [Position -> V]
    BY <1>1, <1>6, Solution
  <2> QED
    BY <2>1 DEF F
<1>8. Raise = CHOOSE f : f = E(f)
  BY DEF Raise
<1>9. Raise = E(Raise)
  BY <1>7, <1>8
<1> QED
  BY <1>9

\* An entry that rises only rearranges the array.
LEMMA RaiseRearranges ==
  ASSUME NEW p \in Position
  PROVE  Rearranged(Raise[p], p.heap)
<1> DEFINE Bad == {q \in Position : ~Rearranged(Raise[q], q.heap)}
           Spots == {q.at : q \in Bad}
<1> SUFFICES ASSUME Bad # {} PROVE FALSE
  OBVIOUS
<1>1. Spots \in SUBSET Nat /\ Spots # {}
  BY DEF Position
<1>2. PICK n \in Spots : \A k \in Spots : n <= k
  BY <1>1, Least
<1>3. PICK q \in Bad : q.at = n
  BY <1>2
<1>4. q \in Position /\ q.heap \in Seq(Entry) /\ q.at \in 1..Len(q.heap) /\ q.at \in Nat
  BY <1>3 DEF Position
<1>5. Rearranged(q.heap, q.heap)
  BY <1>4 DEF Rearranged
<1> DEFINE up == q.at \div 2
           r == At(Exchange(q.heap, q.at, up), up)
<1>6. Raise[q] = IF q.at > 1 /\ Before(q.heap[q.at], q.heap[up]) THEN Raise[r] ELSE q.heap
  BY <1>4, RaiseSolved
<1>7. q.at > 1
  BY <1>3, <1>5, <1>6
<1>8. up \in 1..Len(q.heap) /\ up < q.at /\ up \in Nat
  BY <1>4, <1>7
<1>9. Rearranged(Exchange(q.heap, q.at, up), q.heap)
  BY <1>4, <1>8, ExchangeRearranges, LenProperties
<1> HIDE DEF up
<1>10. r \in Position /\ r.at = up /\ r.heap = Exchange(q.heap, q.at, up)
  BY <1>8, <1>9 DEF Rearranged, Position, At
<1> HIDE DEF r
<1>11. r \notin Bad
  <2>1. up \notin Spots
    <3> HIDE DEF Spots
    <3> QED
      BY <1>1, <1>2, <1>3, <1>8
  <2> HIDE DEF Bad
  <2> QED
    BY <2>1, <1>10
<1>12. Rearranged(Raise[r], q.heap)
  BY <1>9, <1>10, <1>11, RearrangedTwice
<1> QED
  BY <1>3, <1>5, <1>6, <1>12

\* A place with children has its child in the array, further down.
LEMMA ChildBelow ==
  ASSUME NEW p \in Position, ~(2 * p.at > Len(p.heap))
  PROVE  LET c == Child(p.heap, p.at)
             r == At(Exchange(p.heap, p.at, c), c)
         IN /\ c \in 1..Len(p.heap) /\ c > p.at
            /\ r \in Position /\ r.at = c /\ Rearranged(r.heap, p.heap)
<1> DEFINE c == Child(p.heap, p.at)
           r == At(Exchange(p.heap, p.at, c), c)
<1>1. p.heap \in Seq(Entry) /\ p.at \in 1..Len(p.heap) /\ p.at \in Nat
  BY DEF Position
<1>2. Len(p.heap) \in Nat /\ DOMAIN p.heap = 1..Len(p.heap)
  BY <1>1, LenProperties
<1>3. c \in 1..Len(p.heap) /\ c > p.at /\ c \in Nat
  BY <1>1, <1>2 DEF Child
<1> HIDE DEF c
<1>4. Rearranged(Exchange(p.heap, p.at, c), p.heap)
  BY <1>1, <1>2, <1>3, ExchangeRearranges
<1>5. r \in Position /\ r.at = c /\ r.heap = Exchange(p.heap, p.at, c)
  BY <1>3, <1>4 DEF Rearranged, Position, At
<1> QED
  BY <1>3, <1>4, <1>5 DEF c

\* The recursion of heapq._siftup is well founded, at being larger at each
\* step: Sink is the function that its definition asks for.
LEMMA SinkSolved ==
  Sink = [p \in Position |->
            IF 2 * p.at > Len(p.heap) THEN Raise[p]
            ELSE Sink[At(Exchange(p.heap, p.at, Child(p.heap, p.at)), Child(p.heap, p.at))]]
<1> DEFINE V == Seq(Entry)
           next(p) == At(Exchange(p.heap, p.at, Child(p.heap, p.at)), Child(p.heap, p.at))
           E(f) == [p \in Position |-> IF 2 * p.at > Len(p.heap) THEN Raise[p] ELSE f[next(p)]]
           F == [f \in [Position -> V] |-> E(f)]
           m == [p \in Position |-> Len(p.heap) - p.at]
           start == [p \in Position |-> p.heap]
<1>1. m \in [Position -> Nat] /\ start \in [Position -> V]
  <2>1. ASSUME NEW p \in Position PROVE Len(p.heap) - p.at \in Nat /\ p.heap \in V
    <3>1. p.heap \in V /\ p.at \in 1..Len(p.heap) /\ p.at \in Nat /\ Len(p.heap) \in Nat
      BY LenProperties DEF Position
    <3> QED
      BY <3>1
  <2> QED
    BY <2>1
<1>2. ASSUME NEW p \in Position, ~(2 * p.at > Len(p.heap))
      PROVE  next(p) \in Position /\ m[next(p)] < m[p]
  <2>1. /\ next(p) \in Position /\ next(p).at > p.at
        /\ Rearranged(next(p).heap, p.heap)
    BY <1>2, ChildBelow
  <2> HIDE DEF next
  <2>2. Len(next(p).heap) = Len(p.heap)
    BY <2>1 DEF Rearranged
  <2>3. p.at \in Nat /\ next(p).at \in Nat /\ Len(p.heap) \in Nat
    BY <2>1, LenProperties DEF Position
  <2> QED
    BY <2>1, <2>2, <2>3
<1>3. \A p \in Position : Raise[p] \in V
  BY RaiseRearranges DEF Rearranged
<1> HIDE DEF next, m, start
<1>4. ASSUME NEW f \in [Position -> V] PROVE E(f) \in [Position -> V]
  <2>1. ASSUME NEW p \in Position PROVE E(f)[p] \in V
    BY <1>2, <1>3
  <2> QED
    BY <2>1
<1>5. F \in [[Position -> V] -> [Position -> V]]
  BY <1>4
<1>6. ASSUME NEW f \in [Position -> V], NEW g \in [Position -> V], NEW p \in Position,
             \A q \in Position : m[q] < m[p] => f[q] = g[q]
      PROVE  F[f][p] = F[g][p]
  <2>1. F[f][p] = E(f)[p] /\ F[g][p] = E(g)[p]
    OBVIOUS
  <2>2. CASE 2 * p.at > Len(p.heap)
    BY <2>1, <2>2
  <2>3. CASE ~(2 * p.at > Len(p.heap))
    BY <1>2, <1>6, <2>1, <2>3
  <2> QED
    BY <2>2, <2>3
<1> HIDE DEF F
<1>7. Decreases(F, m, Position, V)
  BY <1>1, <1>5, <1>6 DEF Decreases
<1>8. \E f : f = E(f)
  <2> HIDE DEF V, E
  <2>1. PICK f : f = F[f] /\ f \in [Position -> V]
    BY <1>1, <1>7, Solution
  <2> QED
    BY <2>1 DEF F
<1>9. Sink = CHOOSE f : f = E(f)
  BY DEF Sink, next
<1>10. Sink = E(Sink)
  BY <1>8, <1>9
<1> QED
  BY <1>10 DEF next

\* An entry that sinks only rearranges the array.
LEMMA SinkRearranges ==
  ASSUME NEW p \in Position
  PROVE  Rearranged(Sink[p], p.heap)
<1> DEFINE Bad == {q \in Position : ~Rearranged(Sink[q], q.heap)}
           m(q) == Len(q.heap) - q.at
           Below == {m(q) : q \in Bad}
<1> SUFFICES ASSUME Bad # {} PROVE FALSE
  OBVIOUS
<1>1. ASSUME NEW q \in Position
      PROVE  /\ q.heap \in Seq(Entry) /\ q.at \in Nat /\ Len(q.heap) \in Nat
             /\ q.at \in 1..Len(q.heap) /\ m(q) \in Nat
  <2>1. q.heap \in Seq(Entry) /\ q.at \in 1..Len(q.heap) /\ q.at \in Nat /\ Len(q.heap) \in Nat
    BY LenProperties DEF Position
  <2> QED
    BY <2>1
<1>2. Below \in SUBSET Nat /\ Below # {}
  BY <1>1
<1>3. PICK n \in Below : \A k \in Below : n <= k
  BY <1>2, Least
<1>4. PICK q \in Bad : m(q) = n
  BY <1>3
<1>5. q \in Position /\ ~Rearranged(Sink[q], q.heap)
  BY <1>4
<1> DEFINE c == Child(q.heap, q.at)
           r == At(Exchange(q.heap, q.at, c), c)
<1>6. Sink[q] = IF 2 * q.at > Len(q.heap) THEN Raise[q] ELSE Sink[r]
  BY <1>5, SinkSolved
<1>7. ~(2 * q.at > Len(q.heap))
  BY <1>5, <1>6, RaiseRearranges
<1>8. r \in Position /\ r.at > q.at /\ Rearranged(r.heap, q.heap)
  BY <1>5, <1>7, ChildBelow
<1> HIDE DEF r, c
<1>9. m(r) < n
  <2>1. Len(r.heap) = Len(q.heap)
    BY <1>8 DEF Rearranged
  <2> QED
    BY <1>1, <1>4, <1>5, <1>8, <2>1
<1>10. r \notin Bad
  <2>1. m(r) \notin Below
    <3>1. m(r) \in Nat
      BY <1>1, <1>8
    <3> HIDE DEF Below, m
    <3> QED
      BY <1>2, <1>3, <1>9, <3>1
  <2> HIDE DEF Bad, m
  <2> QED
    BY <2>1
<1>11. Rearranged(Sink[r], q.heap)
  BY <1>8, <1>10, RearrangedTwice
<1> QED
  BY <1>5, <1>6, <1>7, <1>11

\* An entry is pushed: it is added, the others stay.
LEMMA HeapPushAdds ==
  ASSUME NEW h \in Seq(Entry), Separate(h), NEW e \in Entry, \A k \in DOMAIN h : h[k].item # e.item
  PROVE  /\ HeapPush(h, e) \in Seq(Entry) /\ Separate(HeapPush(h, e))
         /\ HeapEntries(HeapPush(h, e)) = HeapEntries(h) \union {e}
<1> DEFINE g == Append(h, e)
           p == At(g, Len(h) + 1)
<1>1. /\ g \in Seq(Entry) /\ Len(g) = Len(h) + 1 /\ Len(h) \in Nat
      /\ DOMAIN h = 1..Len(h) /\ DOMAIN g = 1..(Len(h) + 1)
      /\ g[Len(h) + 1] = e /\ \A k \in 1..Len(h) : g[k] = h[k]
  BY AppendProperties, LenProperties
<1> HIDE DEF g
<1>2. p \in Position /\ p.heap = g
  BY <1>1 DEF Position, At
<1>3. Rearranged(Raise[p], g)
  BY <1>2, RaiseRearranges
<1>4. HeapPush(h, e) = Raise[p]
  BY DEF HeapPush, g
<1>5. HeapEntries(g) = HeapEntries(h) \union {e}
  BY <1>1 DEF HeapEntries
<1>6. Separate(g)
  BY <1>1 DEF Separate
<1> QED
  BY <1>3, <1>4, <1>5, <1>6 DEF Rearranged

\* A function on 1..(n-1) is a sequence of n-1 elements.
LEMMA SeqOfLength ==
  ASSUME NEW S, NEW n \in Nat, n > 0, NEW g \in [1..(n - 1) -> S]
  PROVE  g \in Seq(S) /\ Len(g) = n - 1
<1>1. n - 1 \in Nat
  OBVIOUS
<1>2. g \in Seq(S)
  BY <1>1, SeqDef
<1> QED
  BY <1>1, <1>2, LenProperties

\* The first entry is popped: it is gone, the others stay.
LEMMA HeapPopRemoves ==
  ASSUME NEW h \in Seq(Entry), h # <<>>
  PROVE  /\ HeapPop(h) \in Seq(Entry) /\ Len(HeapPop(h)) = Len(h) - 1
         /\ Separate(h) => Separate(HeapPop(h)) /\ HeapEntries(HeapPop(h)) = HeapEntries(h) \ {h[1]}
<1> DEFINE n == Len(h)
<1>1. n \in Nat /\ n > 0 /\ DOMAIN h = 1..n /\ \A k \in 1..n : h[k] \in Entry
  BY LenProperties, EmptySeq, ElementOfSeq
<1> HIDE DEF n
<1>2. CASE n = 1
  <2>1. HeapPop(h) = <<>>
    BY <1>2 DEF HeapPop, n
  <2>2. <<>> \in Seq(Entry) /\ Len(<<>>) = 0 /\ DOMAIN <<>> = {}
    BY EmptySeq
  <2> QED
    BY <1>1, <1>2, <2>1, <2>2 DEF Separate, HeapEntries, n
<1>3. CASE n # 1
  <2> DEFINE f == SubSeq(h, 1, n - 1)
             g == [f EXCEPT ![1] = h[n]]
             p == At(g, 1)
  <2>1. f \in Seq(Entry) /\ Len(f) = n - 1 /\ DOMAIN f = 1..(n - 1) /\ \A k \in 1..(n - 1) : f[k] = h[k]
    BY <1>1, <1>3, SubSeqProperties, LenProperties DEF n
  <2> HIDE DEF f
  <2>2. /\ DOMAIN g = 1..(n - 1) /\ g[1] = h[n]
        /\ \A k \in 2..(n - 1) : g[k] = h[k]
    BY <1>1, <1>3, <2>1
  <2>3. g \in Seq(Entry) /\ Len(g) = n - 1
    <3>1. g \in [1..(n - 1) -> Entry]
      BY <1>1, <1>3, <2>1
    <3> HIDE DEF g
    <3> QED
      BY <1>1, <3>1, SeqOfLength
  <2> HIDE DEF g
  <2>4. p \in Position /\ p.heap = g
    BY <1>1, <1>3, <2>3 DEF Position, At
  <2>5. Rearranged(Sink[p], g)
    BY <2>4, SinkRearranges
  <2>6. HeapPop(h) = Sink[p]
    BY <1>3 DEF HeapPop, Front, Last, g, f, n
  <2>7. Separate(h) => Separate(g)
    BY <1>1, <1>3, <2>2 DEF Separate
  <2>8. Separate(h) => HeapEntries(g) \subseteq HeapEntries(h) \ {h[1]}
    <3> SUFFICES ASSUME Separate(h) PROVE HeapEntries(g) \subseteq HeapEntries(h) \ {h[1]}
      OBVIOUS
    <3>1. \A k \in 1..(n - 1) : \E j \in 2..n : g[k] = h[j]
      BY <1>1, <1>3, <2>2
    <3>2. \A j \in 2..n : h[j] # h[1] /\ j \in 1..n
      BY <1>1, <1>3 DEF Separate
    <3> QED
      BY <1>1, <2>2, <3>1, <3>2 DEF HeapEntries
  <2>9. HeapEntries(h) \ {h[1]} \subseteq HeapEntries(g)
    <3>1. ASSUME NEW e \in HeapEntries(h), e # h[1] PROVE e \in HeapEntries(g)
      <4>1. PICK j \in 1..n : h[j] = e
        BY <1>1 DEF HeapEntries
      <4>2. j \in 2..n
        BY <1>1, <3>1, <4>1
      <4>3. CASE j = n
        BY <1>1, <1>3, <2>2, <4>1, <4>3 DEF HeapEntries
      <4>4. CASE j # n
        <5>1. j \in 2..(n - 1) /\ j \in 1..(n - 1)
          BY <1>1, <4>2, <4>4
        <5> QED
          BY <2>2, <4>1, <5>1 DEF HeapEntries
      <4> QED
        BY <4>3, <4>4
    <3> QED
      BY <3>1
  <2> QED
    BY <2>3, <2>5, <2>6, <2>7, <2>8, <2>9 DEF Rearranged, n
<1> QED
  BY <1>2, <1>3

\* So is that of the loop that pops expired entries, the heap being shorter
\* at each step.
LEMMA PopsSolved ==
  ASSUME NEW t
  PROVE  PopsUntil(t) = [h \in Seq(Entry) |->
                           IF h # <<>> /\ h[1].deadline <= t THEN PopsUntil(t)[HeapPop(h)] ELSE h]
<1> DEFINE V == Seq(Entry)
           E(f) == [h \in V |-> IF h # <<>> /\ h[1].deadline <= t THEN f[HeapPop(h)] ELSE h]
           F == [f \in [V -> V] |-> E(f)]
           m == [h \in V |-> Len(h)]
           start == [h \in V |-> h]
<1>1. m \in [V -> Nat] /\ start \in [V -> V]
  BY LenProperties
<1>2. ASSUME NEW h \in V, h # <<>> PROVE HeapPop(h) \in V /\ m[HeapPop(h)] < m[h]
  <2>1. HeapPop(h) \in V /\ Len(HeapPop(h)) = Len(h) - 1 /\ Len(h) \in Nat
    BY <1>2, HeapPopRemoves, LenProperties
  <2> QED
    BY <2>1
<1> HIDE DEF m, start, V
<1>3. ASSUME NEW f \in [V -> V] PROVE E(f) \in [V -> V]
  <2>1. ASSUME NEW h \in V PROVE E(f)[h] \in V
    BY <1>2
  <2> QED
    BY <2>1
<1>4. F \in [[V -> V] -> [V -> V]]
  BY <1>3
<1>5. ASSUME NEW f \in [V -> V], NEW g \in [V -> V], NEW h \in V,
             \A e \in V : m[e] < m[h] => f[e] = g[e]
      PROVE  F[f][h] = F[g][h]
  <2>1. F[f][h] = E(f)[h] /\ F[g][h] = E(g)[h]
    OBVIOUS
  <2>2. CASE h = <<>>
    BY <2>1, <2>2
  <2>3. CASE h # <<>>
    BY <1>2, <1>5, <2>1, <2>3
  <2> QED
    BY <2>2, <2>3
<1> HIDE DEF F
<1>6. Decreases(F, m, V, V)
  BY <1>1, <1>4, <1>5 DEF Decreases
<1>7. \E f : f = E(f)
  <2> HIDE DEF E
  <2>1. PICK f : f = F[f] /\ f \in [V -> V]
    BY <1>1, <1>6, Solution
  <2> QED
    BY <2>1 DEF F
<1>8. PopsUntil(t) = CHOOSE f : f = E(f)
  BY DEF PopsUntil, V
<1>9. PopsUntil(t) = E(PopsUntil(t))
  BY <1>7, <1>8
<1> QED
  BY <1>9 DEF V

\* What expired() leaves: entries of the array, the first of which is not due.
Leaves(g, h, t) ==
  /\ g \in Seq(Entry) /\ Separate(g) /\ HeapEntries(g) \subseteq HeapEntries(h)
  /\ g # <<>> => ~(g[1].deadline <= t)

\* The loop leaves the entries that are not due at the top, and pops no
\* others than due ones.
LEMMA PopsLeave ==
  ASSUME NEW t, NEW h \in Seq(Entry), Separate(h)
  PROVE  Leaves(PopsUntil(t)[h], h, t)
<1> DEFINE Bad == {q \in Seq(Entry) : Separate(q) /\ ~Leaves(PopsUntil(t)[q], q, t)}
           Sizes == {Len(q) : q \in Bad}
<1> SUFFICES ASSUME Bad # {} PROVE FALSE
  OBVIOUS
<1>1. Sizes \in SUBSET Nat /\ Sizes # {}
  <2>1. \A q \in Seq(Entry) : Len(q) \in Nat
    BY LenProperties
  <2> QED
    BY <2>1
<1>2. PICK n \in Sizes : \A k \in Sizes : n <= k
  BY <1>1, Least
<1>3. PICK q \in Bad : Len(q) = n
  BY <1>2
<1>4. q \in Seq(Entry) /\ Separate(q) /\ ~Leaves(PopsUntil(t)[q], q, t)
  BY <1>3
<1>5. PopsUntil(t)[q] = IF q # <<>> /\ q[1].deadline <= t THEN PopsUntil(t)[HeapPop(q)] ELSE q
  BY <1>4, PopsSolved
<1>6. q # <<>> /\ q[1].deadline <= t
  BY <1>4, <1>5 DEF Leaves
<1> DEFINE r == HeapPop(q)
<1>7. r \in Seq(Entry) /\ Len(r) = Len(q) - 1 /\ Separate(r) /\ HeapEntries(r) \subseteq HeapEntries(q)
  BY <1>4, <1>6, HeapPopRemoves
<1> HIDE DEF r
<1>8. r \notin Bad
  <2>1. Len(r) \notin Sizes
    <3>1. n \in Nat /\ Len(r) = n - 1
      BY <1>1, <1>2, <1>3, <1>7
    <3> HIDE DEF Sizes
    <3> QED
      BY <1>2, <3>1
  <2> HIDE DEF Bad
  <2> QED
    BY <2>1
<1>9. Leaves(PopsUntil(t)[r], r, t)
  BY <1>7, <1>8
<1> QED
  BY <1>4, <1>5, <1>6, <1>7, <1>9 DEF Leaves, r

-----------------------------------------------------------------------------
(* Queues of requests. *)

\* The requests in the queues q.
Elements(q) == {i \in Items : \E x \in DOMAIN q : \E k \in DOMAIN q[x] : q[x][k] = i}
\* No request is twice in them.
Once(q) ==
  \A x, y \in DOMAIN q : \A j \in DOMAIN q[x], k \in DOMAIN q[y] : q[x][j] = q[y][k] => x = y /\ j = k

\* r is q with i added to the queue x.
Grown(r, q, x, i) == r = [q EXCEPT ![x] = Append(@, i)]

\* Appending a request that is in no queue.
LEMMA AppendedTo ==
  ASSUME NEW I, NEW q \in [I -> Seq(Items)], Once(q), NEW x \in I, NEW i \in Items, i \notin Elements(q),
         NEW r, Grown(r, q, x, i)
  PROVE  r \in [I -> Seq(Items)] /\ Once(r) /\ Elements(r) = Elements(q) \union {i}
<1> DEFINE s == Append(q[x], i)
           n == Len(q[x])
<1>1. \A y \in I : DOMAIN q[y] = 1..Len(q[y]) /\ Len(q[y]) \in Nat /\ \A k \in DOMAIN q[y] : q[y][k] \in Items
  BY LenProperties, ElementOfSeq
<1>2. /\ s \in Seq(Items) /\ DOMAIN s = 1..(n + 1) /\ n \in Nat
      /\ s[n + 1] = i /\ \A k \in 1..n : s[k] = q[x][k]
  BY AppendProperties, LenProperties
<1>3. r \in [I -> Seq(Items)] /\ r[x] = s /\ \A y \in I \ {x} : r[y] = q[y]
  <2>1. r = [q EXCEPT ![x] = s]
    BY DEF Grown
  <2> HIDE DEF s
  <2> QED
    BY <1>2, <2>1
<1> HIDE DEF s
<1>4. ASSUME NEW y \in I, NEW k \in DOMAIN r[y]
      PROVE  (y = x /\ k = n + 1 /\ r[y][k] = i) \/ (k \in DOMAIN q[y] /\ r[y][k] = q[y][k])
  <2>1. CASE y = x
    <3>1. k \in 1..(n + 1)
      BY <1>2, <1>3, <2>1
    <3>2. k = n + 1 \/ k \in 1..n
      BY <1>2, <3>1
    <3> QED
      BY <1>1, <1>2, <1>3, <2>1, <3>2
  <2>2. CASE y # x
    BY <1>3, <2>2
  <2> QED
    BY <2>1, <2>2
<1>5. ASSUME NEW y \in I, NEW k \in DOMAIN q[y] PROVE k \in DOMAIN r[y] /\ r[y][k] = q[y][k]
  <2>1. CASE y = x
    BY <1>1, <1>2, <1>3, <2>1
  <2>2. CASE y # x
    BY <1>3, <2>2
  <2> QED
    BY <2>1, <2>2
<1>6. \A y \in I : \A k \in DOMAIN q[y] : q[y][k] # i
  BY DEF Elements
<1>7. Once(r)
  BY <1>3, <1>4, <1>6 DEF Once
<1>8. Elements(r) \subseteq Elements(q) \union {i}
  BY <1>3, <1>4 DEF Elements
<1>9. Elements(q) \subseteq Elements(r)
  BY <1>3, <1>5 DEF Elements
<1>10. i \in Elements(r)
  BY <1>2, <1>3 DEF Elements
<1> QED
  BY <1>3, <1>7, <1>8, <1>9, <1>10

\* r is s without its entry at k.
Shorter(r, s, k, S) ==
  /\ r \in Seq(S) /\ Len(r) = Len(s) - 1
  /\ \A j \in 1..Len(r) : r[j] = s[IF j < k THEN j ELSE j + 1]

\* A queue without its head.
LEMMA TailShorter ==
  ASSUME NEW S, NEW s \in Seq(S), s # <<>>
  PROVE  Shorter(Tail(s), s, 1, S) /\ 1 \in DOMAIN s /\ Head(s) = s[1]
<1>1. Tail(s) \in Seq(S) /\ Len(Tail(s)) = Len(s) - 1 /\ \A j \in 1..Len(Tail(s)) : Tail(s)[j] = s[j + 1]
  BY HeadTailProperties
<1>2. DOMAIN s = 1..Len(s) /\ Len(s) \in Nat /\ Len(s) # 0
  BY LenProperties, EmptySeq
<1>3. Head(s) = s[1]
  BY HeadTailProperties
<1> QED
  BY <1>1, <1>2, <1>3 DEF Shorter

\* A queue without one of its entries.
LEMMA RemoveAtShorter ==
  ASSUME NEW S, NEW s \in Seq(S), NEW k \in DOMAIN s
  PROVE  Shorter(RemoveAt(s, k), s, k, S)
<1> DEFINE n == Len(s)
           a == SubSeq(s, 1, k - 1)
           b == SubSeq(s, k + 1, n)
<1>1. n \in Nat /\ DOMAIN s = 1..n /\ k \in 1..n /\ \A j \in 1..n : s[j] \in S
  BY LenProperties, ElementOfSeq
<1> HIDE DEF n
<1>2. /\ a \in Seq(S) /\ Len(a) = k - 1
      /\ \A j \in 1..(k - 1) : a[j] = s[j]
  <2>1. \A j \in 1..(k - 1) : s[j] \in S
    BY <1>1
  <2>2. /\ a \in Seq(S) /\ Len(a) = IF 1 <= k - 1 THEN (k - 1) - 1 + 1 ELSE 0
        /\ \A j \in 1..((k - 1) - 1 + 1) : a[j] = s[1 + j - 1]
    BY <1>1, <2>1, SubSeqProperties
  <2> QED
    BY <1>1, <2>2
<1>3. /\ b \in Seq(S) /\ Len(b) = n - k
      /\ \A j \in 1..(n - k) : b[j] = s[k + j]
  <2>1. \A j \in (k + 1)..n : s[j] \in S
    BY <1>1
  <2>2. /\ b \in Seq(S) /\ Len(b) = IF k + 1 <= n THEN n - (k + 1) + 1 ELSE 0
        /\ \A j \in 1..(n - (k + 1) + 1) : b[j] = s[(k + 1) + j - 1]
    BY <1>1, <2>1, SubSeqProperties
  <2> QED
    BY <1>1, <2>2
<1> HIDE DEF a, b
<1>4. /\ a \o b \in Seq(S) /\ Len(a \o b) = n - 1
      /\ \A j \in 1..(n - 1) : (a \o b)[j] = IF j <= k - 1 THEN a[j] ELSE b[j - (k - 1)]
  <2>1. /\ a \o b \in Seq(S) /\ Len(a \o b) = Len(a) + Len(b)
        /\ \A j \in 1..(Len(a) + Len(b)) :
             (a \o b)[j] = IF j <= Len(a) THEN a[j] ELSE b[j - Len(a)]
    BY <1>2, <1>3, ConcatProperties
  <2>2. Len(a) = k - 1 /\ Len(a) + Len(b) = n - 1
    BY <1>1, <1>2, <1>3
  <2> QED
    BY <2>1, <2>2
<1>5. ASSUME NEW j \in 1..(n - 1) PROVE (a \o b)[j] = s[IF j < k THEN j ELSE j + 1]
  <2>1. CASE j < k
    <3>1. j \in 1..(k - 1) /\ j <= k - 1
      BY <1>1, <2>1
    <3> QED
      BY <1>2, <1>4, <2>1, <3>1
  <2>2. CASE ~(j < k)
    <3>1. j - (k - 1) \in 1..(n - k) /\ k + (j - (k - 1)) = j + 1 /\ ~(j <= k - 1)
      BY <1>1, <2>2
    <3> QED
      BY <1>3, <1>4, <2>2, <3>1
  <2> QED
    BY <2>1, <2>2
<1>6. RemoveAt(s, k) = a \o b
  BY DEF RemoveAt, a, b, n
<1> QED
  BY <1>4, <1>5, <1>6 DEF Shorter, n

\* Every other place of the longer sequence has its place in the shorter one.
LEMMA ShorterKeeps ==
  ASSUME NEW S, NEW s \in Seq(S), NEW k \in DOMAIN s, NEW r, Shorter(r, s, k, S)
  PROVE  /\ \A j \in DOMAIN r : LET l == IF j < k THEN j ELSE j + 1
                                IN l \in DOMAIN s /\ l # k /\ r[j] = s[l]
         /\ \A l \in DOMAIN s \ {k} : LET j == IF l < k THEN l ELSE l - 1
                                      IN j \in DOMAIN r /\ r[j] = s[l]
<1>1. /\ Len(s) \in Nat /\ DOMAIN s = 1..Len(s) /\ k \in 1..Len(s)
      /\ DOMAIN r = 1..Len(r) /\ Len(r) = Len(s) - 1
      /\ \A j \in 1..Len(r) : r[j] = s[IF j < k THEN j ELSE j + 1]
  BY LenProperties DEF Shorter
<1>2. ASSUME NEW l \in DOMAIN s \ {k}
      PROVE  LET j == IF l < k THEN l ELSE l - 1 IN j \in DOMAIN r /\ r[j] = s[l]
  <2>1. CASE l < k
    BY <1>1, <2>1
  <2>2. CASE ~(l < k)
    <3>1. l - 1 \in 1..Len(r) /\ ~(l - 1 < k) /\ (l - 1) + 1 = l
      BY <1>1, <2>2
    <3> QED
      BY <1>1, <2>2, <3>1
  <2> QED
    BY <2>1, <2>2
<1> QED
  BY <1>1, <1>2

\* r is q without the entry at k of the queue x.
Cut(r, q, x, k) ==
  k \in DOMAIN q[x] /\ \E s \in Seq(Items) : Shorter(s, q[x], k, Items) /\ r = [q EXCEPT ![x] = s]

\* What is taken from a queue in which it was once is in none.
LEMMA TakenFrom ==
  ASSUME NEW I, NEW q \in [I -> Seq(Items)], Once(q), NEW x \in I, NEW k, NEW r, Cut(r, q, x, k)
  PROVE  /\ r \in [I -> Seq(Items)] /\ Once(r) /\ Elements(r) = Elements(q) \ {q[x][k]}
         /\ q[x][k] \in Elements(q)
<1>0. k \in DOMAIN q[x]
  BY DEF Cut
<1>00. PICK s \in Seq(Items) : Shorter(s, q[x], k, Items) /\ r = [q EXCEPT ![x] = s]
  BY DEF Cut
<1> DEFINE to(y, j) == IF y = x /\ ~(j < k) THEN j + 1 ELSE j
<1>1. \A y \in I : /\ DOMAIN q[y] = 1..Len(q[y]) /\ Len(q[y]) \in Nat
                   /\ \A j \in DOMAIN q[y] : q[y][j] \in Items
  BY LenProperties, ElementOfSeq
<1>2. s \in Seq(Items) /\ DOMAIN s \subseteq Nat
  BY <1>00, LenProperties DEF Shorter
<1>3. r \in [I -> Seq(Items)] /\ r[x] = s /\ \A y \in I \ {x} : r[y] = q[y]
  BY <1>00, <1>2
<1>4. \A j \in DOMAIN s : LET l == IF j < k THEN j ELSE j + 1
                          IN l \in DOMAIN q[x] /\ l # k /\ s[j] = q[x][l]
  BY <1>0, <1>00, ShorterKeeps
<1>5. \A l \in DOMAIN q[x] \ {k} : \E j \in DOMAIN s : s[j] = q[x][l]
  BY <1>0, <1>00, ShorterKeeps
<1>6. ASSUME NEW y \in I, NEW j \in DOMAIN r[y]
      PROVE  to(y, j) \in DOMAIN q[y] /\ r[y][j] = q[y][to(y, j)] /\ (y = x => to(y, j) # k) /\ j \in Nat
  <2>1. CASE y = x
    BY <1>1, <1>2, <1>3, <1>4, <2>1
  <2>2. CASE y # x
    BY <1>1, <1>3, <2>2
  <2> QED
    BY <2>1, <2>2
<1>7. Once(r)
  <2> SUFFICES ASSUME NEW y \in I, NEW z \in I, NEW j \in DOMAIN r[y], NEW l \in DOMAIN r[z],
                      r[y][j] = r[z][l]
               PROVE  y = z /\ j = l
    BY <1>3 DEF Once
  <2>1. y = z /\ to(y, j) = to(z, l)
    <3> HIDE DEF to
    <3> QED
      BY <1>6 DEF Once
  <2>2. j \in Nat /\ l \in Nat /\ k \in Nat
    BY <1>0, <1>1, <1>6
  <2> QED
    BY <2>1, <2>2
<1>8. ASSUME NEW i \in Elements(r) PROVE i \in Elements(q) /\ i # q[x][k]
  <2>1. PICK y \in I : \E j \in DOMAIN r[y] : r[y][j] = i
    BY <1>3 DEF Elements
  <2>2. PICK j \in DOMAIN r[y] : r[y][j] = i
    BY <2>1
  <2> DEFINE l == to(y, j)
  <2>3. l \in DOMAIN q[y] /\ q[y][l] = i /\ (y = x => l # k)
    BY <1>6, <2>2
  <2> HIDE DEF l
  <2>4. i \in Items
    BY DEF Elements
  <2> QED
    BY <1>0, <2>3, <2>4 DEF Elements, Once
<1>9. ASSUME NEW i \in Elements(q), i # q[x][k] PROVE i \in Elements(r)
  <2>1. PICK y \in I : \E j \in DOMAIN q[y] : q[y][j] = i
    BY DEF Elements
  <2>2. PICK j \in DOMAIN q[y] : q[y][j] = i
    BY <2>1
  <2>3. i \in Items
    BY DEF Elements
  <2>4. \E l \in DOMAIN r[y] : r[y][l] = i
    <3>1. CASE y = x
      BY <1>3, <1>5, <1>9, <2>2, <3>1
    <3>2. CASE y # x
      BY <1>3, <2>2, <3>2
    <3> QED
      BY <3>1, <3>2
  <2> QED
    BY <1>3, <2>3, <2>4 DEF Elements
<1>10. q[x][k] \in Elements(q)
  BY <1>0, <1>1 DEF Elements
<1> QED
  BY <1>3, <1>7, <1>8, <1>9, <1>10

-----------------------------------------------------------------------------
(* The invariant. *)

\* What may have become of a request.
Fates == {"new", "queued", "dispatched", "cancelled", "expired", "cleared"}
\* The requests in the heap.
ItemsOf(h) == {e.item : e \in HeapEntries(h)}
\* The requests whose fate is to wait.
Queued(f) == {i \in Items : f[i] = "queued"}

\* The three queues share no request, and hold together the ones that wait.
Apart(h, q, r) ==
  /\ ItemsOf(h) \intersect Elements(q) = {}
  /\ ItemsOf(h) \intersect Elements(r) = {}
  /\ Elements(q) \intersect Elements(r) = {}

\* What waits is what the queues hold.
Filed(h, q, r, f) == Apart(h, q, r) /\ Queued(f) = ItemsOf(h) \union Elements(q) \union Elements(r)

\* The queues are well formed, no request is in any twice, and they are
\* filed.
QueuesOK(h, q, r, f) ==
  /\ h \in Seq(Entry) /\ q \in [AnyGroup -> Seq(Items)] /\ r \in [Levels -> Seq(Items)]
  /\ f \in [Items -> Fates]
  /\ Separate(h) /\ Once(q) /\ Once(r)
  /\ Filed(h, q, r, f)

\* The types of everything else.
SlotsOK ==
  /\ schedulerUp \in BOOLEAN /\ paused \in BOOLEAN
  /\ algorithm \in Algorithms
  /\ now \in 0..MaxTime
  /\ deficit \in [AnyGroup -> Nat]
  /\ acquired \in 0..WorkerPool

\* The inductive invariant of the scheduler.
SchedInv == SlotsOK /\ QueuesOK(edf, fair, fifo, fate)

\* A step that adds nothing to the queues.
Shrunk ==
  /\ HeapEntries(edf') \subseteq HeapEntries(edf)
  /\ Elements(fair') \subseteq Elements(fair)
  /\ Elements(fifo') \subseteq Elements(fifo)

\* The entries of a heap and their requests.
LEMMA EntryFields ==
  ASSUME NEW h \in Seq(Entry)
  PROVE  /\ DOMAIN h = 1..Len(h) /\ Len(h) \in Nat
         /\ \A k \in DOMAIN h : h[k] \in Entry /\ h[k].item \in Items /\ h[k].deadline \in Nat
         /\ ItemsOf(h) \subseteq Items
         /\ \A i : i \in ItemsOf(h) <=> \E k \in DOMAIN h : h[k].item = i
<1>1. DOMAIN h = 1..Len(h) /\ Len(h) \in Nat /\ \A k \in DOMAIN h : h[k] \in Entry
  BY LenProperties, ElementOfSeq
<1>2. \A e \in Entry : e.item \in Items /\ e.deadline \in Nat
  BY DEF Entry
<1>3. \A i : i \in ItemsOf(h) <=> \E k \in DOMAIN h : h[k].item = i
  BY DEF ItemsOf, HeapEntries
<1> QED
  BY <1>1, <1>2, <1>3

\* Empty queues hold nothing.
LEMMA EmptyQueues ==
  ASSUME NEW q, NEW I, q = [x \in I |-> <<>>]
  PROVE  q \in [I -> Seq(Items)] /\ Once(q) /\ Elements(q) = {}
<1>1. <<>> \in Seq(Items) /\ DOMAIN <<>> = {}
  BY EmptySeq, LenProperties
<1> QED
  BY <1>1 DEF Once, Elements

\* Neither does an empty heap.
LEMMA EmptyHeap == <<>> \in Seq(Entry) /\ Separate(<<>>) /\ ItemsOf(<<>>) = {} /\ HeapEntries(<<>>) = {}
<1>1. <<>> \in Seq(Entry) /\ DOMAIN <<>> = {}
  BY EmptySeq, LenProperties
<1> QED
  BY <1>1 DEF Separate, ItemsOf, HeapEntries

\* SchedInv holds initially.
LEMMA SchedInit == SchedulerInit => SchedInv
<1> SUFFICES ASSUME SchedulerInit PROVE SchedInv
  OBVIOUS
<1>1. SlotsOK
  <2>1. 0 \in 0..MaxTime /\ 0 \in 0..WorkerPool
    BY SchedulerAssumption
  <2>2. deficit \in [AnyGroup -> Nat]
    BY DEF SchedulerInit
  <2> QED
    BY <2>1, <2>2 DEF SchedulerInit, SlotsOK
<1>2. edf \in Seq(Entry) /\ Separate(edf) /\ ItemsOf(edf) = {}
  BY EmptyHeap DEF SchedulerInit
<1>3. fair \in [AnyGroup -> Seq(Items)] /\ Once(fair) /\ Elements(fair) = {}
  BY EmptyQueues DEF SchedulerInit
<1>4. fifo \in [Levels -> Seq(Items)] /\ Once(fifo) /\ Elements(fifo) = {}
  BY EmptyQueues DEF SchedulerInit
<1>5. fate \in [Items -> Fates] /\ Queued(fate) = {}
  BY DEF SchedulerInit, Fates, Queued
<1> QED
  BY <1>1, <1>2, <1>3, <1>4, <1>5 DEF SchedInv, QueuesOK, Filed, Apart

-----------------------------------------------------------------------------
(* enqueue() *)

\* enqueue to the heap.
LEMMA PushEdf ==
  ASSUME NEW h, NEW q, NEW r, NEW f, QueuesOK(h, q, r, f),
         NEW i \in Items, f[i] # "queued", NEW d \in Nat
  PROVE  QueuesOK(HeapPush(h, [deadline |-> d, item |-> i]), q, r, [f EXCEPT ![i] = "queued"])
<1> DEFINE e == [deadline |-> d, item |-> i]
           g == HeapPush(h, e)
           f2 == [f EXCEPT ![i] = "queued"]
<1>1. e \in Entry /\ e.item = i
  BY DEF Entry
<1>2. i \notin ItemsOf(h) /\ i \notin Elements(q) /\ i \notin Elements(r)
  BY DEF QueuesOK, Filed, Queued
<1>3. h \in Seq(Entry) /\ Separate(h)
  BY DEF QueuesOK
<1>4. \A k \in DOMAIN h : h[k].item # e.item
  BY <1>1, <1>2, <1>3, EntryFields
<1> HIDE DEF e
<1>5. g \in Seq(Entry) /\ Separate(g) /\ HeapEntries(g) = HeapEntries(h) \union {e}
  BY <1>1, <1>3, <1>4, HeapPushAdds
<1> HIDE DEF g
<1>6. ItemsOf(g) = ItemsOf(h) \union {i}
  BY <1>1, <1>5 DEF ItemsOf
<1>7. f2 \in [Items -> Fates] /\ Queued(f2) = Queued(f) \union {i}
  BY DEF QueuesOK, Fates, Queued
<1> HIDE DEF f2
<1>8. QueuesOK(g, q, r, f2)
  BY <1>2, <1>5, <1>6, <1>7 DEF QueuesOK, Filed, Apart
<1> QED
  BY <1>8 DEF g, e, f2

\* enqueue to a fairness group.
LEMMA AppendFair ==
  ASSUME NEW h, NEW q, NEW r, NEW f, QueuesOK(h, q, r, f),
         NEW i \in Items, f[i] # "queued", NEW x \in AnyGroup
  PROVE  QueuesOK(h, [q EXCEPT ![x] = Append(@, i)], r, [f EXCEPT ![i] = "queued"])
<1> DEFINE g == [q EXCEPT ![x] = Append(@, i)]
           f2 == [f EXCEPT ![i] = "queued"]
<1>1. i \notin ItemsOf(h) /\ i \notin Elements(q) /\ i \notin Elements(r)
  BY DEF QueuesOK, Filed, Queued
<1>2. g \in [AnyGroup -> Seq(Items)] /\ Once(g) /\ Elements(g) = Elements(q) \union {i}
  <2>1. q \in [AnyGroup -> Seq(Items)] /\ Once(q)
    BY DEF QueuesOK
  <2>2. Grown(g, q, x, i)
    BY DEF Grown
  <2> HIDE DEF g
  <2> QED
    BY <1>1, <2>1, <2>2, AppendedTo
<1> HIDE DEF g
<1>3. f2 \in [Items -> Fates] /\ Queued(f2) = Queued(f) \union {i}
  BY DEF QueuesOK, Fates, Queued
<1> HIDE DEF f2
<1>4. QueuesOK(h, g, r, f2)
  BY <1>1, <1>2, <1>3 DEF QueuesOK, Filed, Apart
<1> QED
  BY <1>4 DEF g, f2

\* enqueue to a priority level.
LEMMA AppendFifo ==
  ASSUME NEW h, NEW q, NEW r, NEW f, QueuesOK(h, q, r, f),
         NEW i \in Items, f[i] # "queued", NEW x \in Levels
  PROVE  QueuesOK(h, q, [r EXCEPT ![x] = Append(@, i)], [f EXCEPT ![i] = "queued"])
<1> DEFINE g == [r EXCEPT ![x] = Append(@, i)]
           f2 == [f EXCEPT ![i] = "queued"]
<1>1. i \notin ItemsOf(h) /\ i \notin Elements(q) /\ i \notin Elements(r)
  BY DEF QueuesOK, Filed, Queued
<1>2. g \in [Levels -> Seq(Items)] /\ Once(g) /\ Elements(g) = Elements(r) \union {i}
  <2>1. r \in [Levels -> Seq(Items)] /\ Once(r)
    BY DEF QueuesOK
  <2>2. Grown(g, r, x, i)
    BY DEF Grown
  <2> HIDE DEF g
  <2> QED
    BY <1>1, <2>1, <2>2, AppendedTo
<1> HIDE DEF g
<1>3. f2 \in [Items -> Fates] /\ Queued(f2) = Queued(f) \union {i}
  BY DEF QueuesOK, Fates, Queued
<1> HIDE DEF f2
<1>4. QueuesOK(h, q, g, f2)
  BY <1>1, <1>2, <1>3 DEF QueuesOK, Filed, Apart
<1> QED
  BY <1>4 DEF g, f2

\* enqueue files the request in one of the three.
LEMMA EnqueueKeeps ==
  ASSUME SchedInv, NEW i \in Items, NEW delay \in Delays \union {NoDeadline},
         NEW g \in AnyGroup, NEW l \in Levels, Enqueue(i, delay, g, l)
  PROVE  SchedInv'
<1>1. SlotsOK'
  BY DEF SchedInv, SlotsOK, Enqueue
<1>2. fate[i] # "queued" /\ fate' = [fate EXCEPT ![i] = "queued"]
  BY DEF Enqueue
<1>3. QueuesOK(edf, fair, fifo, fate)
  BY DEF SchedInv
<1>4. DeadlineOf(delay) \in Nat
  <2>1. now \in Nat /\ (delay \in Nat \/ delay = -1)
    BY SchedulerAssumption DEF SchedInv, SlotsOK, NoDeadline
  <2> QED
    BY <2>1, ForeverIsANumber DEF DeadlineOf
<1>5. QueuesOK(edf', fair', fifo', fate')
  <2>1. CASE /\ edf' = HeapPush(edf, [deadline |-> DeadlineOf(delay), item |-> i])
             /\ UNCHANGED <<fair, fifo>>
    BY <1>2, <1>3, <1>4, <2>1, PushEdf
  <2>2. CASE /\ fair' = [fair EXCEPT ![g] = Append(@, i)]
             /\ UNCHANGED <<edf, fifo>>
    BY <1>2, <1>3, <2>2, AppendFair
  <2>3. CASE /\ fifo' = [fifo EXCEPT ![l] = Append(@, i)]
             /\ UNCHANGED <<edf, fair>>
    BY <1>2, <1>3, <2>3, AppendFifo
  <2> QED
    BY <2>1, <2>2, <2>3 DEF Enqueue
<1> QED
  BY <1>1, <1>5 DEF SchedInv

-----------------------------------------------------------------------------
(* dequeue() *)

\* Fewer entries are of fewer requests.
LEMMA FewerHeld ==
  ASSUME NEW h, NEW g, HeapEntries(g) \subseteq HeapEntries(h)
  PROVE  ItemsOf(g) \subseteq ItemsOf(h)
  BY DEF ItemsOf

\* What expired() leaves of the heap.
LEMMA Expires ==
  ASSUME SchedInv, NEW heap, heap = Expire(edf)
  PROVE  /\ heap \in Seq(Entry) /\ Separate(heap) /\ HeapEntries(heap) \subseteq HeapEntries(edf)
         /\ heap # <<>> => ~(heap[1].deadline <= now)
<1>1. edf \in Seq(Entry) /\ Separate(edf)
  BY DEF SchedInv, QueuesOK
<1>2. Leaves(heap, edf, now)
  BY <1>1, PopsLeave DEF Expire
<1> QED
  BY <1>2 DEF Leaves

\* Once the expired entries have left the heap and out was dispatched, the
\* requests that wait are those the queues still hold, out excepted.
LEMMA FatesFiled ==
  ASSUME SchedInv, NEW heap \in Seq(Entry), HeapEntries(heap) \subseteq HeapEntries(edf), NEW out
  PROVE  /\ FatesAfter(heap, out) \in [Items -> Fates]
         /\ Queued(FatesAfter(heap, out))
              = (ItemsOf(heap) \union Elements(fair) \union Elements(fifo)) \ out
         /\ \A i \in Items : FatesAfter(heap, out)[i] = "dispatched" => i \in out \/ fate[i] = "dispatched"
<1>1. edf \in Seq(Entry) /\ fate \in [Items -> Fates] /\ Filed(edf, fair, fifo, fate)
  BY DEF SchedInv, QueuesOK
<1>2. ItemsOf(heap) \subseteq ItemsOf(edf)
  BY FewerHeld
<1> DEFINE F == FatesAfter(heap, out)
<1>3. \A i \in Items : /\ (\E k \in 1..Len(edf) : edf[k].item = i) <=> i \in ItemsOf(edf)
                       /\ (\E k \in 1..Len(heap) : heap[k].item = i) <=> i \in ItemsOf(heap)
  BY <1>1, EntryFields
<1>4. F = [i \in Items |-> IF i \in out THEN "dispatched"
                           ELSE IF i \in ItemsOf(edf) /\ ~(i \in ItemsOf(heap)) THEN "expired" ELSE fate[i]]
  BY <1>3 DEF FatesAfter
<1> HIDE DEF F
<1>5. F \in [Items -> Fates]
  BY <1>1, <1>4 DEF Fates
<1>6. ItemsOf(edf) \subseteq Items
  BY <1>1, EntryFields
<1>7. Queued(F) = {i \in Items : i \notin out /\ i \notin ItemsOf(edf) \ ItemsOf(heap) /\ fate[i] = "queued"}
  BY <1>4 DEF Queued
<1>8. {i \in Items : fate[i] = "queued"} = ItemsOf(edf) \union Elements(fair) \union Elements(fifo)
  BY <1>1 DEF Filed, Queued
<1>9. Queued(F) = (ItemsOf(heap) \union Elements(fair) \union Elements(fifo)) \ out
  BY <1>1, <1>2, <1>6, <1>7, <1>8 DEF Filed, Apart
<1>10. \A i \in Items : F[i] = "dispatched" => i \in out \/ fate[i] = "dispatched"
  BY <1>4
<1> QED
  BY <1>5, <1>9, <1>10 DEF F

\* Dispatching the head of the heap.
LEMMA PopEdfKeeps ==
  ASSUME SchedInv, NEW heap, heap = Expire(edf), heap # <<>>, PopEdf(heap)
  PROVE  QueuesOK(edf', fair', fifo', fate') /\ deficit' = deficit /\ Shrunk
<1>1. heap \in Seq(Entry) /\ Separate(heap) /\ HeapEntries(heap) \subseteq HeapEntries(edf)
  BY Expires
<1> DEFINE out == {heap[1].item}
<1>2. /\ edf' \in Seq(Entry) /\ Separate(edf') /\ HeapEntries(edf') = HeapEntries(heap) \ {heap[1]}
  BY <1>1, HeapPopRemoves DEF PopEdf
<1>3. fate' \in [Items -> Fates]
      /\ Queued(fate') = (ItemsOf(heap) \union Elements(fair) \union Elements(fifo)) \ out
  BY <1>1, FatesFiled DEF PopEdf
<1>4. 1 \in DOMAIN heap
  BY <1>1, EntryFields, EmptySeq
<1>5. ItemsOf(edf') = ItemsOf(heap) \ out
  <2>1. \A e \in HeapEntries(heap) : e.item = heap[1].item => e = heap[1]
    BY <1>4, <1>1 DEF HeapEntries, Separate
  <2> QED
    BY <1>2, <2>1 DEF ItemsOf
<1>6. heap[1].item \in ItemsOf(heap) /\ ItemsOf(heap) \subseteq ItemsOf(edf)
  BY <1>1, <1>4, FewerHeld DEF ItemsOf, HeapEntries
<1>7. fair' = fair /\ fifo' = fifo /\ deficit' = deficit
  BY DEF PopEdf
<1>8. Filed(edf', fair, fifo, fate')
  BY <1>3, <1>5, <1>6 DEF SchedInv, QueuesOK, Filed, Apart
<1>9. Shrunk
  BY <1>1, <1>2, <1>7 DEF Shrunk
<1> QED
  BY <1>2, <1>3, <1>7, <1>8, <1>9 DEF SchedInv, QueuesOK

\* Dispatching the first request of a fairness group.
LEMMA PopFairKeeps ==
  ASSUME SchedInv, NEW heap, heap = Expire(edf), NEW g \in AnyGroup, fair[g] # <<>>, PopFair(heap, g)
  PROVE  /\ QueuesOK(edf', fair', fifo', fate') /\ deficit' \in [AnyGroup -> Nat]
         /\ Head(fair[g]) \in Elements(fair) /\ Shrunk
<1>1. heap \in Seq(Entry) /\ Separate(heap) /\ HeapEntries(heap) \subseteq HeapEntries(edf)
  BY Expires
<1> DEFINE i == Head(fair[g])
<1>2. fair \in [AnyGroup -> Seq(Items)] /\ Once(fair)
  BY DEF SchedInv, QueuesOK
<1>3. Shorter(Tail(fair[g]), fair[g], 1, Items) /\ 1 \in DOMAIN fair[g] /\ Head(fair[g]) = fair[g][1]
  BY <1>2, TailShorter
<1>4. Cut(fair', fair, g, 1)
  BY <1>3 DEF PopFair, Cut, Shorter
<1>5. /\ fair' \in [AnyGroup -> Seq(Items)] /\ Once(fair')
      /\ Elements(fair') = Elements(fair) \ {fair[g][1]} /\ fair[g][1] \in Elements(fair)
  BY <1>2, <1>4, TakenFrom
<1>6. fate' \in [Items -> Fates]
      /\ Queued(fate') = (ItemsOf(heap) \union Elements(fair) \union Elements(fifo)) \ {i}
  BY <1>1, FatesFiled DEF PopFair
<1>7. ItemsOf(heap) \subseteq ItemsOf(edf)
  BY <1>1, FewerHeld
<1>8. edf' = heap /\ fifo' = fifo
  BY DEF PopFair
<1>9. deficit' \in [AnyGroup -> Nat]
  BY DEF SchedInv, SlotsOK, PopFair
<1>10. Filed(heap, fair', fifo, fate')
  BY <1>3, <1>5, <1>6, <1>7 DEF SchedInv, QueuesOK, Filed, Apart
<1>11. Shrunk
  BY <1>1, <1>5, <1>8 DEF Shrunk
<1> QED
  BY <1>1, <1>3, <1>5, <1>6, <1>8, <1>9, <1>10, <1>11 DEF SchedInv, QueuesOK

\* Dispatching the first request of a priority level.
LEMMA PopFifoKeeps ==
  ASSUME SchedInv, NEW heap, heap = Expire(edf), NEW l \in Levels, fifo[l] # <<>>, PopFifo(heap, l)
  PROVE  /\ QueuesOK(edf', fair', fifo', fate') /\ deficit' = deficit
         /\ Head(fifo[l]) \in Elements(fifo) /\ Shrunk
<1>1. heap \in Seq(Entry) /\ Separate(heap) /\ HeapEntries(heap) \subseteq HeapEntries(edf)
  BY Expires
<1> DEFINE i == Head(fifo[l])
<1>2. fifo \in [Levels -> Seq(Items)] /\ Once(fifo)
  BY DEF SchedInv, QueuesOK
<1>3. Shorter(Tail(fifo[l]), fifo[l], 1, Items) /\ 1 \in DOMAIN fifo[l] /\ Head(fifo[l]) = fifo[l][1]
  BY <1>2, TailShorter
<1>4. Cut(fifo', fifo, l, 1)
  BY <1>3 DEF PopFifo, Cut, Shorter
<1>5. /\ fifo' \in [Levels -> Seq(Items)] /\ Once(fifo')
      /\ Elements(fifo') = Elements(fifo) \ {fifo[l][1]} /\ fifo[l][1] \in Elements(fifo)
  BY <1>2, <1>4, TakenFrom
<1>6. fate' \in [Items -> Fates]
      /\ Queued(fate') = (ItemsOf(heap) \union Elements(fair) \union Elements(fifo)) \ {i}
  BY <1>1, FatesFiled DEF PopFifo
<1>7. ItemsOf(heap) \subseteq ItemsOf(edf)
  BY <1>1, FewerHeld
<1>8. edf' = heap /\ fair' = fair /\ deficit' = deficit
  BY DEF PopFifo
<1>9. Filed(heap, fair, fifo', fate')
  BY <1>3, <1>5, <1>6, <1>7 DEF SchedInv, QueuesOK, Filed, Apart
<1>10. Shrunk
  BY <1>1, <1>5, <1>8 DEF Shrunk
<1> QED
  BY <1>1, <1>3, <1>5, <1>6, <1>8, <1>9, <1>10 DEF SchedInv, QueuesOK

\* A dequeue that only expires.
LEMMA PopNoneKeeps ==
  ASSUME SchedInv, NEW heap, heap = Expire(edf), edf' = heap, fate' = FatesAfter(heap, {}),
         UNCHANGED <<fair, deficit, fifo>>
  PROVE  QueuesOK(edf', fair', fifo', fate') /\ Shrunk
<1>1. heap \in Seq(Entry) /\ Separate(heap) /\ HeapEntries(heap) \subseteq HeapEntries(edf)
  BY Expires
<1>2. fate' \in [Items -> Fates]
      /\ Queued(fate') = ItemsOf(heap) \union Elements(fair) \union Elements(fifo)
  <2>1. fate' \in [Items -> Fates]
        /\ Queued(fate') = (ItemsOf(heap) \union Elements(fair) \union Elements(fifo)) \ {}
    BY <1>1, FatesFiled
  <2> QED
    BY <2>1
<1>3. ItemsOf(heap) \subseteq ItemsOf(edf)
  BY <1>1, FewerHeld
<1>4. Filed(heap, fair, fifo, fate')
  BY <1>2, <1>3 DEF SchedInv, QueuesOK, Filed, Apart
<1>5. Shrunk
  BY <1>1 DEF Shrunk
<1> QED
  BY <1>1, <1>2, <1>4, <1>5 DEF SchedInv, QueuesOK

\* The four things dequeue() can do.
LEMMA DequeueCases ==
  ASSUME SchedInv, Dequeue
  PROVE  LET heap == Expire(edf)
         IN \/ heap # <<>> /\ PopEdf(heap)
            \/ \E g \in AnyGroup : fair[g] # <<>> /\ PopFair(heap, g)
            \/ \E l \in Levels : fifo[l] # <<>> /\ PopFifo(heap, l)
            \/ edf' = heap /\ fate' = FatesAfter(heap, {}) /\ UNCHANGED <<fair, deficit, fifo>>
<1> DEFINE heap == Expire(edf)
<1> HIDE DEF heap
<1>1. ASSUME FirstWithEntry("edf", heap) PROVE heap # <<>>
  BY <1>1 DEF FirstWithEntry, HasEntry
<1>2. ASSUME NEW g \in NextGroups PROVE g \in AnyGroup /\ fair[g] # <<>>
  BY DEF NextGroups, FairWaiting
<1>3. ASSUME NEW l \in FifoWaiting PROVE l \in Levels /\ fifo[l] # <<>>
  BY DEF FifoWaiting
<1>4. \/ FirstWithEntry("edf", heap) /\ PopEdf(heap)
      \/ \E g \in NextGroups : PopFair(heap, g)
      \/ \E l \in FifoWaiting : PopFifo(heap, l)
      \/ edf' = heap /\ fate' = FatesAfter(heap, {}) /\ UNCHANGED <<fair, deficit, fifo>>
  BY DEF Dequeue, heap
<1> QED
  BY <1>1, <1>2, <1>3, <1>4 DEF heap

\* dequeue keeps SchedInv, whichever queue it serves.
LEMMA DequeueKeeps ==
  ASSUME SchedInv, Dequeue
  PROVE  SchedInv' /\ Shrunk
<1> DEFINE heap == Expire(edf)
<1>1. QueuesOK(edf', fair', fifo', fate') /\ deficit' \in [AnyGroup -> Nat] /\ Shrunk
  <2>0. deficit \in [AnyGroup -> Nat]
    BY DEF SchedInv, SlotsOK
  <2>1. CASE heap # <<>> /\ PopEdf(heap)
    BY <2>0, <2>1, PopEdfKeeps
  <2>2. CASE \E g \in AnyGroup : fair[g] # <<>> /\ PopFair(heap, g)
    BY <2>2, PopFairKeeps
  <2>3. CASE \E l \in Levels : fifo[l] # <<>> /\ PopFifo(heap, l)
    BY <2>0, <2>3, PopFifoKeeps
  <2>4. CASE edf' = heap /\ fate' = FatesAfter(heap, {}) /\ UNCHANGED <<fair, deficit, fifo>>
    BY <2>0, <2>4, PopNoneKeeps
  <2> QED
    BY <2>1, <2>2, <2>3, <2>4, DequeueCases
<1>2. acquired' \in 0..WorkerPool
  BY SchedulerAssumption DEF Dequeue, SchedInv, SlotsOK
<1>3. UNCHANGED <<schedulerUp, paused, algorithm, now>>
  BY DEF Dequeue
<1> QED
  BY <1>1, <1>2, <1>3 DEF SchedInv, SlotsOK

-----------------------------------------------------------------------------
(* cancel() and stop() *)

\* The waiting request i leaves the fates as cancel() does.
LEMMA CancelFates ==
  ASSUME SchedInv, NEW i \in Items
  PROVE  LET f == [fate EXCEPT ![i] = "cancelled"]
         IN f \in [Items -> Fates] /\ Queued(f) = Queued(fate) \ {i}
  BY DEF SchedInv, QueuesOK, Fates, Queued

\* Removing one entry of one queue.
LEMMA CutAt ==
  ASSUME NEW I, NEW q \in [I -> Seq(Items)], NEW x \in I, NEW k \in DOMAIN q[x],
         NEW r, r = [q EXCEPT ![x] = RemoveAt(@, k)]
  PROVE  Cut(r, q, x, k)
<1>1. Shorter(RemoveAt(q[x], k), q[x], k, Items)
  BY RemoveAtShorter
<1> QED
  BY <1>1 DEF Cut, Shorter

\* cancel removes an entry of the heap without restoring its order.
LEMMA HeapRemoveKeeps ==
  ASSUME NEW h \in Seq(Entry), Separate(h), NEW k \in DOMAIN h
  PROVE  LET g == RemoveAt(h, k)
         IN /\ g \in Seq(Entry) /\ Separate(g) /\ ItemsOf(g) = ItemsOf(h) \ {h[k].item}
            /\ HeapEntries(g) \subseteq HeapEntries(h)
<1> DEFINE g == RemoveAt(h, k)
           to(j) == IF j < k THEN j ELSE j + 1
<1>1. Shorter(g, h, k, Entry)
  BY RemoveAtShorter
<1> HIDE DEF g
<1>2. g \in Seq(Entry)
  BY <1>1 DEF Shorter
<1>3. \A j \in DOMAIN g : to(j) \in DOMAIN h /\ to(j) # k /\ g[j] = h[to(j)]
  BY <1>1, ShorterKeeps
<1>4. \A l \in DOMAIN h \ {k} : \E j \in DOMAIN g : g[j] = h[l]
  BY <1>1, ShorterKeeps
<1>5. DOMAIN g \subseteq Nat /\ k \in Nat
  BY <1>2, EntryFields
<1>6. \A j, l \in DOMAIN g : to(j) = to(l) => j = l
  BY <1>5
<1> HIDE DEF to
<1>7. Separate(g)
  BY <1>3, <1>6 DEF Separate
<1>8. ASSUME NEW i \in ItemsOf(g) PROVE i \in ItemsOf(h) \ {h[k].item}
  <2>1. PICK j \in DOMAIN g : g[j].item = i
    BY <1>2, EntryFields
  <2>2. to(j) \in DOMAIN h /\ h[to(j)].item = i /\ to(j) # k
    BY <1>3, <2>1
  <2> QED
    BY <2>2, EntryFields DEF Separate
<1>9. ASSUME NEW i \in ItemsOf(h) \ {h[k].item} PROVE i \in ItemsOf(g)
  <2>1. PICK l \in DOMAIN h : h[l].item = i
    BY EntryFields
  <2>2. PICK j \in DOMAIN g : g[j] = h[l]
    BY <1>4, <2>1
  <2> QED
    BY <1>2, <2>1, <2>2, EntryFields
<1>10. HeapEntries(g) \subseteq HeapEntries(h)
  BY <1>3 DEF HeapEntries
<1> QED
  BY <1>2, <1>7, <1>8, <1>9, <1>10 DEF g

\* cancel removes the request from the queue that holds it.
LEMMA CancelRequestKeeps ==
  ASSUME SchedInv, NEW i \in Items, CancelRequest(i)
  PROVE  SchedInv' /\ Shrunk
<1> DEFINE f == [fate EXCEPT ![i] = "cancelled"]
<1>1. SlotsOK'
  BY DEF SchedInv, SlotsOK, CancelRequest
<1>2. fate' = f /\ f \in [Items -> Fates] /\ Queued(f) = Queued(fate) \ {i}
  BY CancelFates DEF CancelRequest
<1> HIDE DEF f
<1>3. /\ edf \in Seq(Entry) /\ Separate(edf)
      /\ fair \in [AnyGroup -> Seq(Items)] /\ Once(fair)
      /\ fifo \in [Levels -> Seq(Items)] /\ Once(fifo)
      /\ Filed(edf, fair, fifo, fate)
  BY DEF SchedInv, QueuesOK
<1>4. QueuesOK(edf', fair', fifo', fate') /\ Shrunk
  <2>1. CASE DropFifo(i)
    <3>1. PICK l \in Levels : \E k \in DOMAIN fifo[l] :
                 fifo[l][k] = i /\ fifo' = [fifo EXCEPT ![l] = RemoveAt(@, k)]
      BY <2>1 DEF DropFifo
    <3>2. PICK k \in DOMAIN fifo[l] : fifo[l][k] = i /\ fifo' = [fifo EXCEPT ![l] = RemoveAt(@, k)]
      BY <3>1
    <3>3. Cut(fifo', fifo, l, k)
      BY <1>3, <3>2, CutAt
    <3>4. /\ fifo' \in [Levels -> Seq(Items)] /\ Once(fifo')
          /\ Elements(fifo') = Elements(fifo) \ {i} /\ i \in Elements(fifo)
      <4>1. /\ fifo' \in [Levels -> Seq(Items)] /\ Once(fifo')
            /\ Elements(fifo') = Elements(fifo) \ {fifo[l][k]} /\ fifo[l][k] \in Elements(fifo)
        BY <1>3, <3>3, TakenFrom
      <4> QED
        BY <3>2, <4>1
    <3>5. edf' = edf /\ fair' = fair
      BY <2>1 DEF DropFifo
    <3> QED
      BY <1>2, <1>3, <3>4, <3>5 DEF QueuesOK, Filed, Apart, Shrunk
  <2>2. CASE HeapRemove(i)
    <3>1. PICK k \in DOMAIN edf : edf[k].item = i /\ edf' = RemoveAt(edf, k)
      BY <2>2 DEF HeapRemove
    <3>2. /\ edf' \in Seq(Entry) /\ Separate(edf') /\ ItemsOf(edf') = ItemsOf(edf) \ {i}
          /\ HeapEntries(edf') \subseteq HeapEntries(edf)
      BY <1>3, <3>1, HeapRemoveKeeps
    <3>3. i \in ItemsOf(edf)
      BY <1>3, <3>1, EntryFields
    <3>4. fifo' = fifo /\ fair' = fair
      BY <2>2 DEF HeapRemove
    <3> QED
      BY <1>2, <1>3, <3>2, <3>3, <3>4 DEF QueuesOK, Filed, Apart, Shrunk
  <2>3. CASE DropFair(i)
    <3>1. PICK g \in AnyGroup : \E k \in DOMAIN fair[g] :
                 fair[g][k] = i /\ fair' = [fair EXCEPT ![g] = RemoveAt(@, k)]
      BY <2>3 DEF DropFair
    <3>2. PICK k \in DOMAIN fair[g] : fair[g][k] = i /\ fair' = [fair EXCEPT ![g] = RemoveAt(@, k)]
      BY <3>1
    <3>3. Cut(fair', fair, g, k)
      BY <1>3, <3>2, CutAt
    <3>4. /\ fair' \in [AnyGroup -> Seq(Items)] /\ Once(fair')
          /\ Elements(fair') = Elements(fair) \ {i} /\ i \in Elements(fair)
      <4>1. /\ fair' \in [AnyGroup -> Seq(Items)] /\ Once(fair')
            /\ Elements(fair') = Elements(fair) \ {fair[g][k]} /\ fair[g][k] \in Elements(fair)
        BY <1>3, <3>3, TakenFrom
      <4> QED
        BY <3>2, <4>1
    <3>5. edf' = edf /\ fifo' = fifo
      BY <2>3 DEF DropFair
    <3> QED
      BY <1>2, <1>3, <3>4, <3>5 DEF QueuesOK, Filed, Apart, Shrunk
  <2> QED
    BY <2>1, <2>2, <2>3 DEF CancelRequest
<1> QED
  BY <1>1, <1>4 DEF SchedInv

\* stop clears the queues and what waited in them.
LEMMA StopKeeps ==
  ASSUME SchedInv, SchedulerStop
  PROVE  SchedInv' /\ Shrunk
<1>1. SlotsOK'
  BY DEF SchedInv, SlotsOK, SchedulerStop
<1>2. edf' \in Seq(Entry) /\ Separate(edf') /\ ItemsOf(edf') = {} /\ HeapEntries(edf') = {}
  BY EmptyHeap DEF SchedulerStop
<1>3. fair' \in [AnyGroup -> Seq(Items)] /\ Once(fair') /\ Elements(fair') = {}
  BY EmptyQueues DEF SchedulerStop
<1>4. fifo' \in [Levels -> Seq(Items)] /\ Once(fifo') /\ Elements(fifo') = {}
  BY EmptyQueues DEF SchedulerStop
<1>5. fate' \in [Items -> Fates] /\ Queued(fate') = {}
  BY DEF SchedInv, QueuesOK, SchedulerStop, Fates, Queued
<1> QED
  BY <1>1, <1>2, <1>3, <1>4, <1>5 DEF SchedInv, QueuesOK, Filed, Apart, Shrunk

\* Every step keeps SchedInv.
LEMMA SchedStep ==
  ASSUME SchedInv, [SchedulerNext]_schedulerVars
  PROVE  SchedInv'
<1>1. CASE SchedulerStart
  BY <1>1 DEF SchedulerStart, SchedInv, SlotsOK
<1>2. CASE SchedulerStop
  BY <1>2, StopKeeps
<1>3. CASE \E value \in BOOLEAN : SetPaused(value)
  BY <1>3 DEF SetPaused, SchedInv, SlotsOK
<1>4. CASE \E i \in Items, delay \in Delays \union {NoDeadline}, g \in AnyGroup, l \in Levels :
             Enqueue(i, delay, g, l)
  BY <1>4, EnqueueKeeps
<1>5. CASE Dequeue
  BY <1>5, DequeueKeeps
<1>6. CASE \E i \in Items : CancelRequest(i)
  BY <1>6, CancelRequestKeeps
<1>7. CASE ClockTick
  <2>1. now' \in 0..MaxTime
    BY <1>7, SchedulerAssumption DEF ClockTick, SchedInv, SlotsOK
  <2> QED
    BY <1>7, <2>1 DEF ClockTick, SchedInv, SlotsOK
<1>8. CASE UNCHANGED schedulerVars
  BY <1>8 DEF schedulerVars, SchedInv, SlotsOK
<1> QED
  BY <1>1, <1>2, <1>3, <1>4, <1>5, <1>6, <1>7, <1>8 DEF SchedulerNext

\* SchedInv is an invariant.
LEMMA SchedInvariant == SchedulerSpec => []SchedInv
  BY SchedInit, SchedStep, PTL DEF SchedulerSpec

\* A request that is filed once has one place.
LEMMA OnePlace ==
  ASSUME SchedInv, NEW i \in Items
  PROVE  Cardinality(Places(i)) = (IF fate[i] = "queued" THEN 1 ELSE 0)
<1> DEFINE E == {<<"edf", k>> : k \in {j \in DOMAIN edf : edf[j].item = i}}
           G == UNION {{<<"fair", g, k>> : k \in {j \in DOMAIN fair[g] : fair[g][j] = i}} : g \in AnyGroup}
           L == UNION {{<<"fifo", l, k>> : k \in {j \in DOMAIN fifo[l] : fifo[l][j] = i}} : l \in Levels}
<1>0. Places(i) = E \union G \union L
  BY DEF Places
<1>1. /\ edf \in Seq(Entry) /\ Separate(edf)
      /\ fair \in [AnyGroup -> Seq(Items)] /\ Once(fair)
      /\ fifo \in [Levels -> Seq(Items)] /\ Once(fifo)
      /\ Filed(edf, fair, fifo, fate)
  BY DEF SchedInv, QueuesOK
<1>2. fate[i] = "queued" <=> i \in ItemsOf(edf) \/ i \in Elements(fair) \/ i \in Elements(fifo)
  BY <1>1 DEF Filed, Queued
<1>3. i \in ItemsOf(edf) => \E p : E = {p}
  <2> SUFFICES ASSUME i \in ItemsOf(edf) PROVE \E p : E = {p}
    OBVIOUS
  <2>1. PICK k \in DOMAIN edf : edf[k].item = i
    BY <1>1, EntryFields
  <2>2. {j \in DOMAIN edf : edf[j].item = i} = {k}
    BY <1>1, <2>1 DEF Separate
  <2>3. E = {<<"edf", k>>}
    BY <2>2
  <2> QED
    BY <2>3
<1>4. i \notin ItemsOf(edf) => E = {}
  BY <1>1, EntryFields
<1>5. i \in Elements(fair) => \E p : G = {p}
  <2> SUFFICES ASSUME i \in Elements(fair) PROVE \E p : G = {p}
    OBVIOUS
  <2>1. PICK g \in AnyGroup : \E k \in DOMAIN fair[g] : fair[g][k] = i
    BY <1>1 DEF Elements
  <2>2. PICK k \in DOMAIN fair[g] : fair[g][k] = i
    BY <2>1
  <2>3. \A h \in AnyGroup : \A j \in DOMAIN fair[h] : fair[h][j] = i => h = g /\ j = k
    BY <1>1, <2>2 DEF Once
  <2>4. G = {<<"fair", g, k>>}
    BY <2>2, <2>3
  <2> QED
    BY <2>4
<1>6. i \notin Elements(fair) => G = {}
  BY <1>1 DEF Elements
<1>7. i \in Elements(fifo) => \E p : L = {p}
  <2> SUFFICES ASSUME i \in Elements(fifo) PROVE \E p : L = {p}
    OBVIOUS
  <2>1. PICK g \in Levels : \E k \in DOMAIN fifo[g] : fifo[g][k] = i
    BY <1>1 DEF Elements
  <2>2. PICK k \in DOMAIN fifo[g] : fifo[g][k] = i
    BY <2>1
  <2>3. \A h \in Levels : \A j \in DOMAIN fifo[h] : fifo[h][j] = i => h = g /\ j = k
    BY <1>1, <2>2 DEF Once
  <2>4. L = {<<"fifo", g, k>>}
    BY <2>2, <2>3
  <2> QED
    BY <2>4
<1>8. i \notin Elements(fifo) => L = {}
  BY <1>1 DEF Elements
<1> HIDE DEF E, G, L
<1>9. IF fate[i] = "queued" THEN \E p : Places(i) = {p} ELSE Places(i) = {}
  BY <1>0, <1>1, <1>2, <1>3, <1>4, <1>5, <1>6, <1>7, <1>8 DEF Filed, Apart
<1>10. \A p : Cardinality({p}) = 1
  BY FS_Singleton
<1>11. Cardinality({}) = 0
  BY FS_EmptySet
<1> QED
  BY <1>9, <1>10, <1>11

\* WaitsInOnePlace is an invariant: whatever the algorithm, whatever enqueue,
\* dequeue, cancel, pause, stop and the clock do and in whichever order, a
\* request that waits is in exactly one place of exactly one queue, and a
\* request that was dispatched, cancelled, expired or cleared is in none.
THEOREM SchedulerWaitsInOnePlace == SchedulerSpec => []WaitsInOnePlace
<1>1. SchedInv => WaitsInOnePlace
  BY OnePlace DEF WaitsInOnePlace
<1> QED
  BY <1>1, SchedInvariant, PTL

\* dequeue expires before it dispatches, and the loop ends only at a head
\* that is not due.
LEMMA DispatchInTime ==
  ASSUME SchedInv, [SchedulerNext]_schedulerVars
  PROVE  \A k \in 1..Len(edf) : fate'[edf[k].item] = "dispatched" => edf[k].deadline > now
<1> SUFFICES ASSUME NEW k \in 1..Len(edf), fate'[edf[k].item] = "dispatched"
             PROVE  edf[k].deadline > now
  OBVIOUS
<1> DEFINE i == edf[k].item
           heap == Expire(edf)
<1>1. edf \in Seq(Entry) /\ Separate(edf) /\ fate \in [Items -> Fates]
      /\ Filed(edf, fair, fifo, fate) /\ now \in Nat
  BY SchedulerAssumption DEF SchedInv, QueuesOK, SlotsOK
<1>2. k \in DOMAIN edf /\ i \in Items /\ edf[k].deadline \in Nat /\ i \in ItemsOf(edf)
  BY <1>1, EntryFields
<1>3. fate[i] = "queued"
  BY <1>1, <1>2 DEF Filed, Queued
<1>4. ~(i \in Elements(fair)) /\ ~(i \in Elements(fifo))
  BY <1>1, <1>2 DEF Filed, Apart
<1>5. CASE Dequeue
  <2>1. /\ heap \in Seq(Entry) /\ HeapEntries(heap) \subseteq HeapEntries(edf)
        /\ heap # <<>> => ~(heap[1].deadline <= now)
    BY Expires
  <2>2. \A out : FatesAfter(heap, out)[i] = "dispatched" => i \in out
    BY <1>2, <1>3, <2>1, FatesFiled
  <2> HIDE DEF heap
  <2>3. CASE heap # <<>> /\ PopEdf(heap)
    <3>1. i = heap[1].item
      BY <2>2, <2>3 DEF PopEdf
    <3>2. 1 \in DOMAIN heap
      BY <2>1, <2>3, EntryFields, EmptySeq
    <3>3. heap[1] \in HeapEntries(edf)
      BY <2>1, <3>2 DEF HeapEntries
    <3>4. heap[1] = edf[k]
      BY <1>1, <1>2, <3>1, <3>3 DEF HeapEntries, Separate
    <3> QED
      BY <1>1, <1>2, <2>1, <2>3, <3>4
  <2>4. CASE \E g \in AnyGroup : fair[g] # <<>> /\ PopFair(heap, g)
    BY <1>4, <2>2, <2>4, PopFairKeeps DEF PopFair, heap
  <2>5. CASE \E l \in Levels : fifo[l] # <<>> /\ PopFifo(heap, l)
    BY <1>4, <2>2, <2>5, PopFifoKeeps DEF PopFifo, heap
  <2>6. CASE fate' = FatesAfter(heap, {})
    BY <2>2, <2>6
  <2> QED
    BY <1>5, <2>3, <2>4, <2>5, <2>6, DequeueCases DEF heap
<1>6. CASE ~Dequeue
  <2>1. \/ fate' = fate
        \/ \E j \in Items : fate' = [fate EXCEPT ![j] = "queued"]
        \/ \E j \in Items : fate' = [fate EXCEPT ![j] = "cancelled"]
        \/ fate' = [j \in Items |-> IF fate[j] = "queued" THEN "cleared" ELSE fate[j]]
    BY <1>6 DEF SchedulerNext, SchedulerStart, SchedulerStop, SetPaused, Enqueue, CancelRequest,
                ClockTick, schedulerVars
  <2> QED
    BY <1>1, <1>2, <1>3, <2>1
<1> QED
  BY <1>5, <1>6

\* The entries of the heap carry the deadlines of their requests, and under the
\* algorithms that keep deadlines a request that has one waits there.
DeadlinesFiled ==
  /\ deadlines \in [Items -> Nat]
  /\ \A e \in HeapEntries(edf) : e.deadline = deadlines[e.item]
  /\ KeepsDeadlines => \A i \in Items : fate[i] = "queued" /\ deadlines[i] # Forever => i \in ItemsOf(edf)

\* A step that adds nothing leaves the requests that still wait where they were.
LEMMA ShrunkKeeps ==
  ASSUME SchedInv, SchedInv', DeadlinesFiled, Shrunk, UNCHANGED <<algorithm, deadlines>>,
         \A i \in Items : fate'[i] = "queued" => fate[i] = "queued"
  PROVE  DeadlinesFiled'
<1>1. deadlines' \in [Items -> Nat] /\ \A e \in HeapEntries(edf') : e.deadline = deadlines'[e.item]
  BY DEF DeadlinesFiled, Shrunk
<1>2. ASSUME KeepsDeadlines', NEW i \in Items, fate'[i] = "queued", deadlines'[i] # Forever
      PROVE  i \in ItemsOf(edf')
  <2>1. i \in ItemsOf(edf)
    BY <1>2 DEF DeadlinesFiled, KeepsDeadlines
  <2>2. i \notin Elements(fair') /\ i \notin Elements(fifo')
    BY <2>1 DEF SchedInv, QueuesOK, Filed, Apart, Shrunk
  <2>3. i \in ItemsOf(edf') \union Elements(fair') \union Elements(fifo')
    BY <1>2 DEF SchedInv, QueuesOK, Filed, Queued
  <2> QED
    BY <2>2, <2>3
<1>3. Forever' = Forever
  BY DEF Forever
<1> QED
  BY <1>1, <1>2, <1>3 DEF DeadlinesFiled

\* enqueue() files the deadline where the algorithm looks for it.
LEMMA EnqueueFiles ==
  ASSUME SchedInv, DeadlinesFiled, NEW i \in Items, NEW delay \in Delays \union {NoDeadline},
         NEW g \in AnyGroup, NEW l \in Levels, Enqueue(i, delay, g, l)
  PROVE  DeadlinesFiled'
<1>1. /\ fate[i] # "queued" /\ fate' = [fate EXCEPT ![i] = "queued"]
      /\ deadlines' = [deadlines EXCEPT ![i] = DeadlineOf(delay)]
      /\ UNCHANGED algorithm
  BY DEF Enqueue
<1>2. edf \in Seq(Entry) /\ Separate(edf) /\ fate \in [Items -> Fates] /\ i \notin ItemsOf(edf)
  BY <1>1 DEF SchedInv, QueuesOK, Filed, Queued
<1>3. DeadlineOf(delay) \in Nat /\ (delay = NoDeadline => DeadlineOf(delay) = Forever)
  <2>1. now \in Nat /\ (delay \in Nat \/ delay = -1)
    BY SchedulerAssumption DEF SchedInv, SlotsOK, NoDeadline
  <2> QED
    BY <2>1, ForeverIsANumber DEF DeadlineOf, NoDeadline
<1>4. deadlines' \in [Items -> Nat] /\ deadlines'[i] = DeadlineOf(delay)
      /\ \A j \in Items \ {i} : deadlines'[j] = deadlines[j] /\ fate'[j] = fate[j]
  BY <1>1, <1>2, <1>3 DEF DeadlinesFiled
<1>5. \A e \in HeapEntries(edf) : e.item \in Items \ {i}
  <2>1. \A e \in HeapEntries(edf) : e.item \in ItemsOf(edf)
    BY DEF ItemsOf
  <2> QED
    BY <1>2, <2>1, EntryFields
<1>6. \A e \in HeapEntries(edf) : e.deadline = deadlines'[e.item]
  BY <1>4, <1>5 DEF DeadlinesFiled
<1>7. \A j \in Items \ {i} : KeepsDeadlines /\ fate'[j] = "queued" /\ deadlines'[j] # Forever
                             => j \in ItemsOf(edf)
  BY <1>4 DEF DeadlinesFiled
<1>8. (KeepsDeadlines' <=> KeepsDeadlines) /\ Forever' = Forever
  BY <1>1 DEF KeepsDeadlines, Forever
<1>9. CASE edf' = HeapPush(edf, [deadline |-> DeadlineOf(delay), item |-> i])
  <2> DEFINE e == [deadline |-> DeadlineOf(delay), item |-> i]
  <2>1. e \in Entry /\ e.item = i /\ e.deadline = DeadlineOf(delay)
    BY <1>3 DEF Entry
  <2>2. \A k \in DOMAIN edf : edf[k].item # e.item
    BY <1>2, <2>1, EntryFields
  <2> HIDE DEF e
  <2>3. HeapEntries(HeapPush(edf, e)) = HeapEntries(edf) \union {e}
    BY <1>2, <2>1, <2>2, HeapPushAdds
  <2>4. HeapEntries(edf') = HeapEntries(edf) \union {e}
    BY <1>9, <2>3 DEF e
  <2>5. \A e2 \in HeapEntries(edf') : e2.deadline = deadlines'[e2.item]
    BY <1>4, <1>6, <2>1, <2>4
  <2>6. i \in ItemsOf(edf') /\ ItemsOf(edf) \subseteq ItemsOf(edf')
    BY <2>1, <2>4 DEF ItemsOf
  <2> QED
    BY <1>4, <1>7, <1>8, <2>5, <2>6 DEF DeadlinesFiled
<1>10. CASE edf' = edf /\ QueueFor(delay, g) \in {"fair", "fifo"}
  <2>1. KeepsDeadlines => deadlines'[i] = Forever
    BY <1>3, <1>4, <1>10 DEF QueueFor, KeepsDeadlines
  <2> QED
    BY <1>4, <1>6, <1>7, <1>8, <1>10, <2>1 DEF DeadlinesFiled
<1> QED
  BY <1>9, <1>10 DEF Enqueue

\* Every step keeps the deadlines filed.
LEMMA DeadlinesStep ==
  ASSUME SchedInv, DeadlinesFiled, [SchedulerNext]_schedulerVars
  PROVE  DeadlinesFiled'
<1>0. SchedInv' /\ fate \in [Items -> Fates]
  BY SchedStep DEF SchedInv, QueuesOK
<1>1. CASE \E i \in Items, delay \in Delays \union {NoDeadline}, g \in AnyGroup, l \in Levels :
             Enqueue(i, delay, g, l)
  BY <1>1, EnqueueFiles
<1>2. CASE Dequeue
  <2>1. Shrunk /\ UNCHANGED <<algorithm, deadlines>>
    BY <1>2, DequeueKeeps DEF Dequeue
  <2>2. ASSUME NEW i \in Items, fate'[i] = "queued" PROVE fate[i] = "queued"
    <3>1. i \in ItemsOf(edf') \union Elements(fair') \union Elements(fifo')
      BY <1>0, <2>2 DEF SchedInv, QueuesOK, Filed, Queued
    <3>2. i \in ItemsOf(edf) \union Elements(fair) \union Elements(fifo)
      BY <2>1, <3>1 DEF Shrunk, ItemsOf
    <3> QED
      BY <3>2 DEF SchedInv, QueuesOK, Filed, Queued
  <2> QED
    BY <1>0, <2>1, <2>2, ShrunkKeeps
<1>3. CASE \E i \in Items : CancelRequest(i)
  <2>1. Shrunk /\ UNCHANGED <<algorithm, deadlines>>
    BY <1>3, CancelRequestKeeps DEF CancelRequest
  <2>2. \A i \in Items : fate'[i] = "queued" => fate[i] = "queued"
    BY <1>0, <1>3 DEF CancelRequest
  <2> QED
    BY <1>0, <2>1, <2>2, ShrunkKeeps
<1>4. CASE SchedulerStop
  <2>1. Shrunk /\ UNCHANGED <<algorithm, deadlines>>
    BY <1>4, StopKeeps DEF SchedulerStop
  <2>2. \A i \in Items : fate'[i] = "queued" => fate[i] = "queued"
    BY <1>4 DEF SchedulerStop
  <2> QED
    BY <1>0, <2>1, <2>2, ShrunkKeeps
<1>5. CASE \/ SchedulerStart \/ ClockTick \/ UNCHANGED schedulerVars
           \/ \E value \in BOOLEAN : SetPaused(value)
  <2>1. UNCHANGED <<algorithm, edf, fair, fifo, deadlines, fate>>
    BY <1>5 DEF SchedulerStart, ClockTick, SetPaused, schedulerVars
  <2> QED
    BY <2>1 DEF DeadlinesFiled, KeepsDeadlines, ItemsOf, HeapEntries, Forever
<1> QED
  BY <1>1, <1>2, <1>3, <1>4, <1>5 DEF SchedulerNext

\* They are filed from the start.
LEMMA DeadlinesInit == SchedulerInit => DeadlinesFiled
<1> SUFFICES ASSUME SchedulerInit PROVE DeadlinesFiled
  OBVIOUS
<1>1. HeapEntries(edf) = {}
  BY EmptyHeap DEF SchedulerInit
<1>2. deadlines \in [Items -> Nat]
  BY ForeverIsANumber DEF SchedulerInit
<1>3. \A i \in Items : fate[i] # "queued"
  BY DEF SchedulerInit
<1> QED
  BY <1>1, <1>2, <1>3 DEF DeadlinesFiled

\* What is dispatched under an algorithm that keeps deadlines is not due.
LEMMA DispatchKeepsDeadline ==
  ASSUME SchedInv, DeadlinesFiled, [SchedulerNext]_schedulerVars, KeepsDeadlines,
         NEW i \in Items, fate[i] # "dispatched", fate'[i] = "dispatched"
  PROVE  deadlines[i] > now
<1>0. SchedInv' /\ fate \in [Items -> Fates] /\ fate' \in [Items -> Fates]
  <2>1. SchedInv'
    BY SchedStep
  <2> QED
    BY <2>1 DEF SchedInv, QueuesOK
<1>1. fate[i] = "queued"
  <2>1. CASE Dequeue
    <3> DEFINE heap == Expire(edf)
    <3>1. heap \in Seq(Entry) /\ HeapEntries(heap) \subseteq HeapEntries(edf)
      BY Expires
    <3>2. \A out : FatesAfter(heap, out)[i] = "dispatched" => i \in out
      BY <3>1, FatesFiled
    <3>3. i \in ItemsOf(edf) \union Elements(fair) \union Elements(fifo)
      <4> HIDE DEF heap
      <4>1. CASE heap # <<>> /\ PopEdf(heap)
        <5>1. i = heap[1].item
          BY <3>2, <4>1 DEF PopEdf
        <5>2. 1 \in DOMAIN heap
          BY <3>1, <4>1, EntryFields, EmptySeq
        <5>3. i \in ItemsOf(heap)
          BY <5>1, <5>2 DEF ItemsOf, HeapEntries
        <5> QED
          BY <3>1, <5>3, FewerHeld
      <4>2. CASE \E g \in AnyGroup : fair[g] # <<>> /\ PopFair(heap, g)
        <5>1. PICK g \in AnyGroup : fair[g] # <<>> /\ PopFair(heap, g)
          BY <4>2
        <5>2. i = Head(fair[g])
          BY <3>2, <5>1 DEF PopFair
        <5>3. Head(fair[g]) \in Elements(fair)
          BY <5>1, PopFairKeeps DEF heap
        <5> QED
          BY <5>2, <5>3
      <4>3. CASE \E l \in Levels : fifo[l] # <<>> /\ PopFifo(heap, l)
        <5>1. PICK l \in Levels : fifo[l] # <<>> /\ PopFifo(heap, l)
          BY <4>3
        <5>2. i = Head(fifo[l])
          BY <3>2, <5>1 DEF PopFifo
        <5>3. Head(fifo[l]) \in Elements(fifo)
          BY <5>1, PopFifoKeeps DEF heap
        <5> QED
          BY <5>2, <5>3
      <4>4. CASE fate' = FatesAfter(heap, {})
        BY <3>2, <4>4
      <4> QED
        BY <2>1, <4>1, <4>2, <4>3, <4>4, DequeueCases DEF heap
    <3> QED
      BY <3>3 DEF SchedInv, QueuesOK, Filed, Queued
  <2>2. CASE ~Dequeue
    <3>1. \/ fate' = fate
          \/ \E j \in Items : fate' = [fate EXCEPT ![j] = "queued"]
          \/ \E j \in Items : fate' = [fate EXCEPT ![j] = "cancelled"]
          \/ fate' = [j \in Items |-> IF fate[j] = "queued" THEN "cleared" ELSE fate[j]]
      BY <2>2 DEF SchedulerNext, SchedulerStart, SchedulerStop, SetPaused, Enqueue, CancelRequest,
                  ClockTick, schedulerVars
    <3> QED
      BY <1>0, <3>1
  <2> QED
    BY <2>1, <2>2
<1>2. CASE deadlines[i] = Forever
  <2>1. Forever > now
    BY ForeverIsANumber, SchedulerAssumption DEF SchedInv, SlotsOK
  <2> QED
    BY <1>2, <2>1
<1>3. CASE deadlines[i] # Forever
  <2>1. i \in ItemsOf(edf) /\ edf \in Seq(Entry)
    BY <1>1, <1>3 DEF DeadlinesFiled, SchedInv, QueuesOK
  <2>2. PICK k \in DOMAIN edf : edf[k].item = i
    BY <2>1, EntryFields
  <2>3. k \in 1..Len(edf)
    BY <2>1, <2>2, EntryFields
  <2>4. edf[k].deadline > now
    BY <2>2, <2>3, DispatchInTime
  <2>5. edf[k].deadline = deadlines[i]
    BY <2>2 DEF DeadlinesFiled, HeapEntries
  <2> QED
    BY <2>4, <2>5
<1> QED
  BY <1>2, <1>3

\* Under edf, adaptive_hybrid, rr and wrr no request is dispatched after its
\* deadline, wherever it waits, for any number of requests, groups and levels.  The
\* array of the deadline queue need not be a heap for that, and after a cancel it is
\* not one: whatever _EDFQueue.pop takes is the head, and dequeue has just found it
\* not to be due.
THEOREM SchedulerKeepsDeadlines == SchedulerSpec => DeadlinesKept
<1>1. SchedInv /\ DeadlinesFiled /\ [SchedulerNext]_schedulerVars
        => [KeepsDeadlines =>
              \A i \in Items : fate[i] # "dispatched" /\ fate'[i] = "dispatched"
                                 => deadlines[i] > now]_schedulerVars
  BY DispatchKeepsDeadline
<1> QED
  BY <1>1, SchedInvariant, DeadlinesInit, DeadlinesStep, PTL DEF SchedulerSpec, DeadlinesKept

(***************************************************************************)
(* The rate limiter                                                        *)
(***************************************************************************)
\* A quotient is the number of times the divisor fits.
LEMMA Fits ==
  ASSUME NEW n \in Nat, NEW d \in Nat \ {0}
  PROVE  /\ n \div d \in Nat /\ d * (n \div d) <= n /\ n < d * ((n \div d) + 1)
  OBVIOUS

\* Multiplication is monotone.
LEMMA TimesMonotone ==
  ASSUME NEW d \in Nat, NEW x \in Int, NEW y \in Int, x <= y
  PROVE  d * x <= d * y
  OBVIOUS

\* What division by d means.
LEMMA FitsOnly ==
  ASSUME NEW n \in Nat, NEW d \in Nat \ {0}, NEW q \in Nat, d * q <= n, n < d * (q + 1)
  PROVE  n \div d = q
<1> DEFINE p == n \div d
<1>1. p \in Nat /\ d * p <= n /\ n < d * (p + 1)
  BY Fits
<1> HIDE DEF p
<1>2. d * p < d * (q + 1) /\ d * q < d * (p + 1)
  <2>1. d * p \in Int /\ d * (q + 1) \in Int /\ d * q \in Int /\ d * (p + 1) \in Int
    BY <1>1
  <2> QED
    BY <1>1, <2>1
<1>3. ~(p >= q + 1)
  BY <1>1, <1>2, TimesMonotone
<1>4. ~(q >= p + 1)
  BY <1>1, <1>2, TimesMonotone
<1> QED
  BY <1>1, <1>3, <1>4 DEF p

\* Quotients grow with the dividend, by one when the divisor is added.
LEMMA QuotientGrows ==
  ASSUME NEW n \in Nat, NEW m \in Nat, NEW d \in Nat \ {0}, n <= m
  PROVE  n \div d <= m \div d
<1> DEFINE p == n \div d
           q == m \div d
<1>1. p \in Nat /\ d * p <= n /\ q \in Nat /\ m < d * (q + 1)
  BY Fits
<1> HIDE DEF p, q
<1>2. d * p < d * (q + 1)
  <2>1. d * p \in Int /\ d * (q + 1) \in Int
    BY <1>1
  <2> QED
    BY <1>1, <2>1
<1>3. ~(p >= q + 1)
  BY <1>1, <1>2, TimesMonotone
<1> QED
  BY <1>1, <1>3 DEF p, q

\* One more d is one more in the quotient.
LEMMA QuotientNext ==
  ASSUME NEW n \in Nat, NEW d \in Nat \ {0}
  PROVE  (n + d) \div d = (n \div d) + 1
<1> DEFINE p == n \div d
<1>1. p \in Nat /\ d * p <= n /\ n < d * (p + 1)
  BY Fits
<1> HIDE DEF p
<1>2. d * (p + 1) = d * p + d /\ d * ((p + 1) + 1) = d * (p + 1) + d
  BY <1>1
<1>3. d * p \in Int /\ d * (p + 1) \in Int /\ d * ((p + 1) + 1) \in Int
  BY <1>1
<1>4. d * (p + 1) <= n + d /\ n + d < d * ((p + 1) + 1)
  BY <1>1, <1>2, <1>3
<1>5. p + 1 \in Nat /\ n + d \in Nat
  BY <1>1
<1>6. (n + d) \div d = p + 1
  BY <1>4, <1>5, FitsOnly
<1> QED
  BY <1>6 DEF p

\* Division undoes multiplication.
LEMMA QuotientOfProduct ==
  ASSUME NEW d \in Nat \ {0}, NEW q \in Nat
  PROVE  (d * q) \div d = q
<1>1. d * q \in Nat /\ d * q <= d * q
  OBVIOUS
<1>2. d * q < d * (q + 1)
  <2>1. d * (q + 1) = d * q + d
    OBVIOUS
  <2> QED
    BY <1>1, <2>1
<1> QED
  BY <1>1, <1>2, FitsOnly

-----------------------------------------------------------------------------
(* Flow of tokens, and windows. *)

\* What flows in n ticks.
Flows(n) == (n * RefillRate) \div RefillInterval

\* Whole tokens flow per tick, so flows add up.
LEMMA FlowsAdd ==
  ASSUME NEW n \in Nat, NEW m \in Nat
  PROVE  Flows(n) \in Nat /\ Flows(n + m) = Flows(n) + Flows(m)
<1>1. RefillRate \in Nat /\ RefillInterval \in Nat \ {0} /\ RefillRate % RefillInterval = 0
  BY LimiterAssumption
<1> DEFINE q == RefillRate \div RefillInterval
<1>2. q \in Nat /\ RefillRate = RefillInterval * q
  BY <1>1
<1> HIDE DEF q
<1>3. ASSUME NEW k \in Nat PROVE Flows(k) = k * q /\ k * q \in Nat
  <2>1. k * q \in Nat
    BY <1>2
  <2>2. k * RefillRate = RefillInterval * (k * q)
    BY <1>1, <1>2
  <2> QED
    BY <1>1, <2>1, <2>2, QuotientOfProduct DEF Flows
<1>4. n + m \in Nat /\ (n + m) * q = n * q + m * q
  BY <1>2
<1> QED
  BY <1>3, <1>4

\* What n ticks of windows of d ticks allow, but for the window that is begun.
InWindows(n, d) == WindowMax * (n \div d)

\* A longer time has no fewer windows.
LEMMA WindowsGrow ==
  ASSUME NEW n \in Nat, NEW m \in Nat, NEW d \in Nat \ {0}, n <= m
  PROVE  InWindows(n, d) \in Nat /\ InWindows(m, d) \in Nat /\ InWindows(n, d) <= InWindows(m, d)
<1>1. WindowMax \in Nat
  BY LimiterAssumption
<1> DEFINE p == n \div d
           q == m \div d
<1>2. p \in Nat /\ q \in Nat /\ p <= q
  BY Fits, QuotientGrows
<1> HIDE DEF p, q
<1>3. WindowMax * p \in Nat /\ WindowMax * q \in Nat /\ WindowMax * p <= WindowMax * q
  BY <1>1, <1>2, TimesMonotone
<1> QED
  BY <1>3 DEF InWindows, p, q

\* One window more.
LEMMA WindowAdded ==
  ASSUME NEW n \in Nat, NEW d \in Nat \ {0}
  PROVE  InWindows(n + d, d) = InWindows(n, d) + WindowMax
<1>1. WindowMax \in Nat
  BY LimiterAssumption
<1> DEFINE p == n \div d
<1>2. p \in Nat /\ (n + d) \div d = p + 1
  BY Fits, QuotientNext
<1> HIDE DEF p
<1>3. WindowMax * (p + 1) = WindowMax * p + WindowMax
  BY <1>1, <1>2
<1> QED
  BY <1>2, <1>3 DEF InWindows, p

-----------------------------------------------------------------------------
(* Counting. *)

\* The indices that Passes counts.
Passings(s, a, b) == {k \in DOMAIN s : s[k] \in a..b}

\* A number of passes is a natural number, at most the length of the sequence.
LEMMA PassesNat ==
  ASSUME NEW s \in Seq(Int), NEW a \in Int, NEW b \in Int
  PROVE  /\ IsFiniteSet(Passings(s, a, b)) /\ Passes(s, a, b) = Cardinality(Passings(s, a, b))
         /\ Passes(s, a, b) \in Nat /\ Passes(s, a, b) <= Len(s)
<1>1. DOMAIN s = 1..Len(s) /\ Len(s) \in Nat
  OBVIOUS
<1>2. IsFiniteSet(1..Len(s)) /\ Cardinality(1..Len(s)) = Len(s)
  BY SMTT(30), <1>1, FS_Interval
<1>3. Passings(s, a, b) \in SUBSET (1..Len(s))
  BY <1>1 DEF Passings
<1>4. IsFiniteSet(Passings(s, a, b)) /\ Cardinality(Passings(s, a, b)) <= Len(s)
  BY <1>2, <1>3, FS_Subset
<1>5. Cardinality(Passings(s, a, b)) \in Nat
  BY <1>4, FS_CardinalityType
<1> QED
  BY <1>4, <1>5 DEF Passes, Passings

\* A longer stretch of time has no fewer passes.
LEMMA PassesMore ==
  ASSUME NEW s \in Seq(Int), NEW a \in Int, NEW b \in Int, NEW c \in Int, NEW d \in Int,
         \A k \in DOMAIN s : s[k] \in a..b => s[k] \in c..d
  PROVE  Passes(s, a, b) <= Passes(s, c, d)
<1>1. Passings(s, a, b) \in SUBSET Passings(s, c, d)
  BY DEF Passings
<1> QED
  BY <1>1, PassesNat, FS_Subset

\* Passes of two stretches of time.
LEMMA PassesSplit ==
  ASSUME NEW s \in Seq(Int), NEW a \in Int, NEW b \in Int, NEW c \in Int
  PROVE  Passes(s, a, b) <= Passes(s, a, c) + Passes(s, c + 1, b)
<1> DEFINE X == Passings(s, a, c)
           Y == Passings(s, c + 1, b)
           Z == Passings(s, a, b)
<1>1. \A k \in DOMAIN s : s[k] \in Int
  OBVIOUS
<1>2. Z \in SUBSET (X \union Y)
  BY <1>1 DEF Passings
<1>3. /\ IsFiniteSet(X) /\ IsFiniteSet(Y) /\ Passes(s, a, c) = Cardinality(X)
      /\ Passes(s, c + 1, b) = Cardinality(Y) /\ Passes(s, a, b) = Cardinality(Z) /\ IsFiniteSet(Z)
  BY PassesNat
<1> HIDE DEF X, Y, Z
<1>4. /\ IsFiniteSet(X \union Y) /\ IsFiniteSet(X \intersect Y)
      /\ Cardinality(X \union Y) = Cardinality(X) + Cardinality(Y) - Cardinality(X \intersect Y)
  BY <1>3, FS_Union, FS_Intersection
<1>5. Cardinality(Z) <= Cardinality(X \union Y)
  BY <1>2, <1>4, FS_Subset
<1>6. /\ Cardinality(X) \in Nat /\ Cardinality(Y) \in Nat /\ Cardinality(Z) \in Nat
      /\ Cardinality(X \intersect Y) \in Nat /\ Cardinality(X \union Y) \in Nat
  BY <1>3, <1>4, FS_CardinalityType
<1> QED
  BY <1>3, <1>4, <1>5, <1>6

\* No passes.
LEMMA PassesNone ==
  ASSUME NEW s \in Seq(Int), NEW a \in Int, NEW b \in Int, \A k \in DOMAIN s : s[k] \notin a..b
  PROVE  Passes(s, a, b) = 0
<1>1. Passings(s, a, b) = {}
  BY DEF Passings
<1> QED
  BY <1>1, PassesNat, FS_EmptySet

\* Nothing is counted after the last time.
LEMMA PassesEnd ==
  ASSUME NEW s \in Seq(Int), NEW a \in Int, NEW b \in Int, NEW c \in Int,
         \A k \in DOMAIN s : s[k] <= b /\ s[k] <= c
  PROVE  Passes(s, a, b) = Passes(s, a, c)
<1>1. \A k \in DOMAIN s : s[k] \in Int
  OBVIOUS
<1>2. Passings(s, a, b) = Passings(s, a, c)
  BY <1>1 DEF Passings
<1> QED
  BY <1>2, PassesNat

\* n more passes at time t.
Later(s, q, n, t) ==
  /\ q \in Seq(Int) /\ Len(q) = Len(s) + n
  /\ \A k \in DOMAIN s : q[k] = s[k]
  /\ \A k \in (Len(s) + 1)..(Len(s) + n) : q[k] = t

\* Letting n requests through at time t counts wherever t does.
LEMMA PassesLater ==
  ASSUME NEW s \in Seq(Int), NEW n \in Nat, NEW t \in Int, NEW q, Later(s, q, n, t),
         NEW a \in Int, NEW b \in Int
  PROVE  Passes(q, a, b) = Passes(s, a, b) + (IF t \in a..b THEN n ELSE 0)
<1> DEFINE X == Passings(s, a, b)
           Y == (Len(s) + 1)..(Len(s) + n)
           Z == Passings(q, a, b)
<1>1. /\ q \in Seq(Int) /\ Len(q) = Len(s) + n /\ Len(s) \in Nat
      /\ \A k \in DOMAIN s : q[k] = s[k]
      /\ \A k \in Y : q[k] = t
  BY DEF Later
<1>2. DOMAIN s = 1..Len(s) /\ DOMAIN q = 1..(Len(s) + n)
  BY <1>1
<1>3. DOMAIN q = DOMAIN s \union Y /\ DOMAIN s \intersect Y = {}
  BY <1>1, <1>2
<1>4. IsFiniteSet(X) /\ Passes(s, a, b) = Cardinality(X) /\ Passes(q, a, b) = Cardinality(Z)
  BY <1>1, PassesNat
<1>5. IsFiniteSet(Y) /\ Cardinality(Y) = n
  BY <1>1, FS_Interval
<1>6. CASE t \in a..b
  <2>1. \A k \in Y : q[k] \in a..b
    <3> HIDE DEF Y
    <3> QED
      BY <1>1, <1>6
  <2> HIDE DEF Y
  <2>2. Z = X \union Y /\ X \intersect Y = {}
    BY <1>1, <1>3, <2>1 DEF Passings
  <2> HIDE DEF X, Z
  <2>3. Cardinality(X \union Y) = Cardinality(X) + Cardinality(Y)
    <3>1. Cardinality(X \union Y) = Cardinality(X) + Cardinality(Y) - Cardinality(X \intersect Y)
      BY <1>4, <1>5, FS_Union
    <3>2. Cardinality(X \intersect Y) = 0
      BY <2>2, FS_EmptySet
    <3>3. Cardinality(X) \in Nat
      BY <1>4, FS_CardinalityType
    <3> QED
      BY <1>5, <3>1, <3>2, <3>3
  <2> QED
    BY <1>4, <1>5, <1>6, <2>2, <2>3
<1>7. CASE t \notin a..b
  <2>1. \A k \in Y : q[k] \notin a..b
    <3> HIDE DEF Y
    <3> QED
      BY <1>1, <1>7
  <2> HIDE DEF Y
  <2>2. Z = X
    BY <1>1, <1>3, <2>1 DEF Passings
  <2>3. Passes(s, a, b) \in Nat
    BY PassesNat
  <2> QED
    BY <1>4, <1>7, <2>2, <2>3
<1> QED
  BY <1>6, <1>7

\* Appending a time, or n times of it.
LEMMA AppendLater ==
  ASSUME NEW s \in Seq(Int), NEW t \in Int
  PROVE  Later(s, Append(s, t), 1, t)
<1>1. Len(s) \in Nat /\ DOMAIN s = 1..Len(s)
  OBVIOUS
<1>2. /\ Append(s, t) \in Seq(Int) /\ Len(Append(s, t)) = Len(s) + 1
      /\ \A k \in 1..Len(s) : Append(s, t)[k] = s[k]
      /\ Append(s, t)[Len(s) + 1] = t
  OBVIOUS
<1> QED
  BY <1>1, <1>2 DEF Later

\* consume() lets n through at once.
LEMMA ConcatLater ==
  ASSUME NEW s \in Seq(Int), NEW t \in Int, NEW n \in Nat
  PROVE  Later(s, s \o [k \in 1..n |-> t], n, t)
<1> DEFINE u == [k \in 1..n |-> t]
<1>1. Len(s) \in Nat /\ DOMAIN s = 1..Len(s)
  OBVIOUS
<1>2. u \in Seq(Int) /\ Len(u) = n
  OBVIOUS
<1>3. \A k \in 1..n : u[k] = t
  OBVIOUS
<1> HIDE DEF u
<1>4. /\ s \o u \in Seq(Int) /\ Len(s \o u) = Len(s) + n
      /\ \A k \in 1..Len(s) : (s \o u)[k] = s[k]
      /\ \A k \in (Len(s) + 1)..(Len(s) + n) : (s \o u)[k] = u[k - Len(s)]
  BY <1>1, <1>2
<1>5. \A k \in (Len(s) + 1)..(Len(s) + n) : k - Len(s) \in 1..n
  BY <1>1
<1> QED
  BY <1>1, <1>3, <1>4, <1>5 DEF Later, u

\* A sequence without what stood left of m.
LEMMA SubSeqRight ==
  ASSUME NEW X, NEW s \in Seq(X), NEW m \in 1..(Len(s) + 1)
  PROVE  /\ SubSeq(s, m, Len(s)) \in Seq(X) /\ Len(SubSeq(s, m, Len(s))) = Len(s) - m + 1
         /\ Len(SubSeq(s, m, Len(s))) <= Len(s)
         /\ \A k \in 1..(Len(s) - m + 1) : SubSeq(s, m, Len(s))[k] = s[k + m - 1]
  OBVIOUS

\* What leaves a sequence at its left before the time c is not counted from c on.
LEMMA PassesKeptLeft ==
  ASSUME NEW s \in Seq(Int), NEW m \in 1..(Len(s) + 1), NEW c \in Int, NEW b \in Int,
         \A k \in 1..(m - 1) : s[k] < c
  PROVE  Passes(s, c, b) <= Passes(SubSeq(s, m, Len(s)), c, b)
<1> DEFINE q == SubSeq(s, m, Len(s))
           X == Passings(s, c, b)
           Y == Passings(q, c, b)
           f == [k \in X |-> k - m + 1]
<1>1. Len(s) \in Nat /\ DOMAIN s = 1..Len(s) /\ m \in Nat
  OBVIOUS
<1>2. /\ q \in Seq(Int) /\ Len(q) = Len(s) - m + 1
      /\ \A k \in 1..(Len(s) - m + 1) : q[k] = s[k + m - 1]
  BY <1>1
<1>3. DOMAIN q = 1..(Len(s) - m + 1)
  BY <1>1, <1>2
<1> HIDE DEF q
<1>4. ASSUME NEW k \in X PROVE k \in Nat /\ k - m + 1 \in Y
  <2>1. k \in 1..Len(s) /\ s[k] \in c..b /\ s[k] \in Int
    BY <1>1 DEF Passings
  <2>2. k >= m
    BY <1>1, <2>1
  <2>3. k - m + 1 \in 1..(Len(s) - m + 1) /\ (k - m + 1) + m - 1 = k
    BY <1>1, <2>1, <2>2
  <2>4. q[k - m + 1] = s[k]
    BY <1>2, <2>3
  <2> QED
    BY <1>3, <2>1, <2>3, <2>4 DEF Passings
<1>5. IsFiniteSet(Y) /\ Passes(q, c, b) = Cardinality(Y) /\ Passes(s, c, b) = Cardinality(X)
  BY <1>2, PassesNat
<1> HIDE DEF X, Y
<1>6. f \in Injection(X, Y)
  <2>1. f \in [X -> Y]
    BY <1>4
  <2>2. \A j, k \in X : f[j] = f[k] => j = k
    BY <1>1, <1>4
  <2> QED
    BY <2>1, <2>2 DEF Injection, IsInjective
<1>7. Cardinality(X) <= Cardinality(Y)
  BY <1>5, <1>6, FS_Injection
<1> QED
  BY <1>5, <1>7 DEF q

-----------------------------------------------------------------------------
(* What the state of a policy says about what it let through. *)

\* A refill or a drain that is not due leaves at most this much to flow at time a.
Interval == RefillInterval - 1

\* What the state r of a policy and the times s of the requests that it let
\* through have to do with each other at time t.
TokensKept(r, s, t) ==
  /\ r.level <= Capacity + Burst
  /\ \A a \in 0..t : Passes(s, a, t) = 0 \/
       /\ r.since + Interval >= a
       /\ Passes(s, a, t) + r.level <= Capacity + Burst + r.burst + Flows(r.since + Interval - a)

\* The queue of the leaky bucket, or what has drained from it since, accounts
\* for the requests let through since a.
LeakKept(r, s, t) ==
  /\ r.level <= LeakDepth
  /\ \A a \in 0..t : Passes(s, a, t) = 0 \/
       /\ r.since + Interval >= a
       /\ Passes(s, a, t) <= r.level + Flows(r.since + Interval - a)

\* The entries of the sliding window are at least the requests let through in
\* it.
EntriesKept(r, s, t) ==
  /\ Len(r.entries) <= WindowMax /\ \A k \in DOMAIN r.entries : r.entries[k] <= t
  /\ \A c \in Int : c >= t - WindowTicks => Passes(s, c, t) <= Passes(r.entries, c, t)

\* The count of the fixed window covers the requests since its start; those
\* before fell into whole windows and the one that was cut off.
WindowKept(r, s, t) ==
  /\ r.level <= WindowMax
  /\ \A k \in DOMAIN s : s[k] < r.since + WindowTicks
  /\ \A a \in 0..t :
       /\ a >= r.since => Passes(s, a, t) <= r.level
       /\ a < r.since => Passes(s, a, t) <= r.level + WindowMax + InWindows(r.since - a - 1, WindowTicks)

\* The account of the policy's own kind.
Kept(r, s, t) ==
  /\ s \in Seq(0..t) /\ r.since <= t
  /\ r.kind = "token_bucket" => TokensKept(r, s, t)
  /\ r.kind = "leaky_bucket" => LeakKept(r, s, t)
  /\ r.kind = "sliding_window" => EntriesKept(r, s, t)
  /\ r.kind = "fixed_window" => WindowKept(r, s, t)

\* A bucket or window that is brought up to date.
Current(r, t) ==
  /\ r.kind \in {"token_bucket", "leaky_bucket"} => t <= r.since + Interval
  /\ r.kind = "fixed_window" => t < r.since + WindowTicks

\* The assumption on the constants, one by one.
LEMMA Sizes ==
  /\ Capacity \in Nat /\ RefillRate \in Nat /\ Burst \in Nat /\ LeakDepth \in Nat /\ WindowMax \in Nat
  /\ DelayQueue \in Nat /\ PermitTtl \in Nat /\ MaxCount \in Nat /\ MaxPermits \in Nat /\ MaxTicks \in Nat
  /\ RefillInterval \in Nat \ {0} /\ WindowTicks \in Nat \ {0} /\ Interval \in Nat
  /\ Interval = RefillInterval - 1
  BY LimiterAssumption DEF Interval

\* The fields of a policy's state.
LEMMA RuleFields ==
  ASSUME NEW r \in Rule
  PROVE  /\ r.kind \in LimitKinds /\ r.enabled \in BOOLEAN /\ r.level \in Nat /\ r.since \in 0..MaxTicks
         /\ r.burst \in 0..Burst /\ r.entries \in Seq(0..MaxTicks)
  BY Sizes DEF Rule

\* The times of passes are integers.
LEMMA Times ==
  ASSUME NEW t \in Nat, NEW s \in Seq(0..t)
  PROVE  s \in Seq(Int) /\ \A k \in DOMAIN s : s[k] \in Nat /\ s[k] <= t
  OBVIOUS

\* The flow of a longer time is no less.
LEMMA FlowsGrow ==
  ASSUME NEW n \in Nat, NEW m \in Nat, n <= m
  PROVE  Flows(n) \in Nat /\ Flows(m) \in Nat /\ Flows(n) <= Flows(m)
<1>1. PICK d \in Nat : m = n + d
  <2>1. m - n \in Nat /\ m = n + (m - n)
    OBVIOUS
  <2> QED
    BY <2>1
<1>2. Flows(n) \in Nat /\ Flows(d) \in Nat /\ Flows(m) \in Nat /\ Flows(m) = Flows(n) + Flows(d)
  BY <1>1, FlowsAdd
<1> QED
  BY <1>2

-----------------------------------------------------------------------------
(* Bringing up to date. *)

\* _TokenBucketState.refill keeps the account and leaves no refill due.
LEMMA RefillKeeps ==
  ASSUME NEW r \in Rule, r.kind = "token_bucket", ticks \in 0..MaxTicks, NEW s, Kept(r, s, ticks)
  PROVE  /\ Refill(r) \in Rule /\ Refill(r).kind = r.kind
         /\ Kept(Refill(r), s, ticks) /\ Current(Refill(r), ticks)
<1> DEFINE u == Refill(r)
<1>1. /\ r.level \in Nat /\ r.since \in Nat /\ r.burst \in Nat /\ ticks \in Nat /\ r.since <= ticks
      /\ s \in Seq(Int)
  BY RuleFields, Sizes, Times DEF Kept
<1>2. CASE ~Due(r)
  <2>1. u = r
    BY <1>2 DEF Refill
  <2>2. ticks <= r.since + Interval
    BY <1>1, <1>2, Sizes DEF Due, Elapsed
  <2> QED
    BY <2>1, <2>2 DEF Current
<1>3. CASE Due(r)
  <2> DEFINE x == Lesser(Capacity + Burst, r.level + Flow(r))
  <2>1. Flow(r) = Flows(ticks - r.since) /\ ticks - r.since \in Nat
    BY <1>1 DEF Flow, Flows, Elapsed
  <2>2. Flow(r) \in Nat
    BY <2>1, FlowsGrow
  <2>3. x \in 0..(Capacity + Burst) /\ x <= r.level + Flow(r)
    BY <1>1, <2>2, Sizes DEF Lesser
  <2>4. u = [r EXCEPT !.level = x, !.since = ticks]
    BY <1>3 DEF Refill
  <2> HIDE DEF x
  <2>5. x \in 0..(Capacity + Burst + LeakDepth + WindowMax)
    BY <2>3, Sizes
  <2>6. u \in Rule /\ u.kind = r.kind /\ u.level = x /\ u.since = ticks /\ u.burst = r.burst
    BY <2>4, <2>5 DEF Rule
  <2> HIDE DEF u
  <2>7. TokensKept(u, s, ticks)
    <3>1. u.level <= Capacity + Burst
      BY <2>3, <2>6, Sizes
    <3>2. ASSUME NEW a \in 0..ticks, Passes(s, a, ticks) # 0
          PROVE  /\ u.since + Interval >= a
                 /\ Passes(s, a, ticks) + u.level <= Capacity + Burst + u.burst + Flows(u.since + Interval - a)
      <4>1. /\ r.since + Interval >= a
            /\ Passes(s, a, ticks) + r.level <= Capacity + Burst + r.burst + Flows(r.since + Interval - a)
        BY <3>2 DEF Kept, TokensKept
      <4>2. r.since + Interval - a \in Nat /\ ticks + Interval - a = (r.since + Interval - a) + (ticks - r.since)
        BY SMTT(30), <1>1, <4>1, Sizes
      <4>3. Flows(ticks + Interval - a) = Flows(r.since + Interval - a) + Flow(r)
            /\ Flows(r.since + Interval - a) \in Nat
        BY <2>1, <4>2, FlowsAdd
      <4>4. Passes(s, a, ticks) \in Nat
        BY <1>1, PassesNat
      <4>5. Flows(u.since + Interval - a) = Flows(r.since + Interval - a) + Flow(r)
        BY <2>6, <4>3
      <4>6. u.since + Interval >= a
        BY <1>1, <2>6, Sizes
      <4>7. u.level \in Nat /\ u.level <= r.level + Flow(r) /\ u.burst = r.burst
        BY <2>3, <2>6, Sizes
      <4>8. \A p, l, c, f, g, v \in Nat : p + l <= c + f /\ v <= l + g => p + v <= c + (f + g)
        OBVIOUS
      <4>9. Capacity + Burst + r.burst \in Nat /\ r.level \in Nat
        BY <1>1, Sizes
      <4>10. Passes(s, a, ticks) + u.level <=
               Capacity + Burst + r.burst + (Flows(r.since + Interval - a) + Flow(r))
        BY <2>2, <4>1, <4>3, <4>4, <4>7, <4>8, <4>9
      <4> QED
        BY <4>5, <4>6, <4>7, <4>10
    <3> QED
      BY <3>1, <3>2 DEF TokensKept
  <2>8. Kept(u, s, ticks)
    BY <2>6, <2>7 DEF Kept
  <2>9. Current(u, ticks)
    BY <1>1, <2>6, Sizes DEF Current
  <2> QED
    BY <2>6, <2>8, <2>9 DEF u
<1> QED
  BY <1>2, <1>3

\* _LeakyBucketState.drain likewise.
LEMMA DrainKeeps ==
  ASSUME NEW r \in Rule, r.kind = "leaky_bucket", ticks \in 0..MaxTicks, NEW s, Kept(r, s, ticks)
  PROVE  /\ Drain(r) \in Rule /\ Drain(r).kind = r.kind
         /\ Kept(Drain(r), s, ticks) /\ Current(Drain(r), ticks)
<1> DEFINE u == Drain(r)
<1>1. /\ r.level \in Nat /\ r.since \in Nat /\ ticks \in Nat /\ r.since <= ticks /\ s \in Seq(Int)
      /\ r.level <= LeakDepth
  BY RuleFields, Sizes, Times DEF Kept, LeakKept
<1>2. CASE ~Due(r)
  <2>1. u = r
    BY <1>2 DEF Drain
  <2>2. ticks <= r.since + Interval
    BY <1>1, <1>2, Sizes DEF Due, Elapsed
  <2> QED
    BY <2>1, <2>2 DEF Current
<1>3. CASE Due(r)
  <2> DEFINE x == r.level - Lesser(r.level, Flow(r))
  <2>1. Flow(r) = Flows(ticks - r.since) /\ ticks - r.since \in Nat
    BY <1>1 DEF Flow, Flows, Elapsed
  <2>2. Flow(r) \in Nat
    BY <2>1, FlowsGrow
  <2>3. x \in 0..LeakDepth /\ x >= r.level - Flow(r)
    BY <1>1, <2>2, Sizes DEF Lesser
  <2>4. u = [r EXCEPT !.level = x, !.since = ticks]
    BY <1>3 DEF Drain
  <2> HIDE DEF x
  <2>5. x \in 0..(Capacity + Burst + LeakDepth + WindowMax)
    BY <2>3, Sizes
  <2>6. u \in Rule /\ u.kind = r.kind /\ u.level = x /\ u.since = ticks
    BY <2>4, <2>5 DEF Rule
  <2> HIDE DEF u
  <2>7. LeakKept(u, s, ticks)
    <3>1. u.level <= LeakDepth
      BY <2>3, <2>6, Sizes
    <3>2. ASSUME NEW a \in 0..ticks, Passes(s, a, ticks) # 0
          PROVE  /\ u.since + Interval >= a
                 /\ Passes(s, a, ticks) <= u.level + Flows(u.since + Interval - a)
      <4>1. /\ r.since + Interval >= a
            /\ Passes(s, a, ticks) <= r.level + Flows(r.since + Interval - a)
        BY <3>2 DEF Kept, LeakKept
      <4>2. r.since + Interval - a \in Nat /\ ticks + Interval - a = (r.since + Interval - a) + (ticks - r.since)
        BY <1>1, <4>1, Sizes
      <4>3. Flows(ticks + Interval - a) = Flows(r.since + Interval - a) + Flow(r)
            /\ Flows(r.since + Interval - a) \in Nat
        BY <2>1, <4>2, FlowsAdd
      <4>4. Passes(s, a, ticks) \in Nat
        BY <1>1, PassesNat
      <4>5. Flows(u.since + Interval - a) = Flows(r.since + Interval - a) + Flow(r)
        BY <2>6, <4>3
      <4>6. u.since + Interval >= a
        BY <1>1, <2>6, Sizes
      <4>7. u.level \in Nat /\ u.level >= r.level - Flow(r)
        BY <2>3, <2>6, Sizes
      <4> QED
        BY SMTT(30), <1>1, <2>2, <4>1, <4>3, <4>4, <4>5, <4>6, <4>7, Sizes
    <3> QED
      BY <3>1, <3>2 DEF LeakKept
  <2>8. Kept(u, s, ticks)
    BY <2>6, <2>7 DEF Kept
  <2>9. Current(u, ticks)
    BY <1>1, <2>6, Sizes DEF Current
  <2> QED
    BY <2>6, <2>8, <2>9 DEF u
<1> QED
  BY <1>2, <1>3

\* _RateSlidingWindow.expire drops only what is out of the window.
LEMMA ExpireKeeps ==
  ASSUME NEW r \in Rule, r.kind = "sliding_window", ticks \in 0..MaxTicks, NEW s, Kept(r, s, ticks)
  PROVE  /\ Expire1m(r) \in Rule /\ Expire1m(r).kind = r.kind
         /\ Kept(Expire1m(r), s, ticks) /\ Current(Expire1m(r), ticks)
<1> DEFINE u == Expire1m(r)
           e == r.entries
           m == CHOOSE k \in Unexpired(e) : \A j \in Unexpired(e) : k <= j
           q == SubSeq(e, m, Len(e))
<1>1. e \in Seq(0..MaxTicks) /\ ticks \in Nat /\ MaxTicks \in Nat /\ s \in Seq(Int) /\ WindowTicks \in Nat
  BY RuleFields, Sizes, Times DEF Kept
<1>2. Len(e) \in Nat /\ DOMAIN e = 1..Len(e) /\ e \in Seq(Int)
  BY <1>1
<1>3. Unexpired(e) \subseteq Nat /\ Len(e) + 1 \in Unexpired(e)
  BY <1>2 DEF Unexpired
<1>4. m \in Unexpired(e) /\ \A j \in Unexpired(e) : m <= j
  <2>1. \E k \in Unexpired(e) : \A j \in Unexpired(e) : k <= j
    BY <1>3, Least
  <2> QED
    BY <2>1
<1>5. u = [r EXCEPT !.entries = q]
  BY DEF Expire1m
<1> HIDE DEF m
<1>6. m \in 1..(Len(e) + 1)
  BY <1>4 DEF Unexpired
<1>7. ASSUME NEW k \in 1..(m - 1) PROVE e[k] < ticks - WindowTicks
  <2>1. k \in 1..(Len(e) + 1) /\ k \notin Unexpired(e) /\ k \in DOMAIN e
    BY <1>2, <1>4, <1>6
  <2>2. e[k] \in Int
    BY <1>2, <2>1
  <2> QED
    BY <1>1, <2>1, <2>2 DEF Unexpired
<1>8. /\ q \in Seq(0..MaxTicks) /\ Len(q) = Len(e) - m + 1 /\ Len(q) <= Len(e)
      /\ \A k \in 1..(Len(e) - m + 1) : q[k] = e[k + m - 1]
  <2> HIDE DEF e
  <2> QED
    BY <1>1, <1>2, <1>6, SubSeqRight
<1>9. \A k \in DOMAIN q : q[k] <= ticks
  <2> SUFFICES ASSUME NEW k \in DOMAIN q PROVE q[k] <= ticks
    OBVIOUS
  <2>1. k \in 1..(Len(e) - m + 1) /\ k + m - 1 \in DOMAIN e
    BY <1>2, <1>6, <1>8
  <2> QED
    BY <1>8, <2>1 DEF Kept, EntriesKept
<1>10. \A c \in Int : c >= ticks - WindowTicks => Passes(s, c, ticks) <= Passes(q, c, ticks)
  <2> SUFFICES ASSUME NEW c \in Int, c >= ticks - WindowTicks PROVE Passes(s, c, ticks) <= Passes(q, c, ticks)
    OBVIOUS
  <2>1. Passes(s, c, ticks) <= Passes(e, c, ticks)
    BY DEF Kept, EntriesKept
  <2>2. \A k \in 1..(m - 1) : e[k] < c
    <3> SUFFICES ASSUME NEW k \in 1..(m - 1) PROVE e[k] < c
      OBVIOUS
    <3>1. e[k] < ticks - WindowTicks /\ k \in DOMAIN e
      BY <1>2, <1>6, <1>7
    <3>2. e[k] \in Int
      BY <1>2, <3>1
    <3> QED
      BY <1>1, <3>1, <3>2
  <2>3. Passes(e, c, ticks) <= Passes(q, c, ticks)
    <3> HIDE DEF e
    <3> QED
      BY <1>1, <1>2, <1>6, <2>2, PassesKeptLeft
  <2>4. q \in Seq(Int)
    BY <1>8
  <2>5. Passes(s, c, ticks) \in Nat /\ Passes(e, c, ticks) \in Nat /\ Passes(q, c, ticks) \in Nat
    <3> HIDE DEF e, q
    <3> QED
      BY <1>1, <1>2, <2>4, PassesNat
  <2> QED
    BY <2>1, <2>3, <2>5
<1>11. Len(q) <= WindowMax
  BY <1>2, <1>6, <1>8, Sizes DEF Kept, EntriesKept
<1> HIDE DEF q, e
<1>12. u \in Rule /\ u.kind = r.kind /\ u.since = r.since /\ u.entries = q
  BY <1>5, <1>8 DEF Rule
<1> HIDE DEF u
<1>13. EntriesKept(u, s, ticks)
  BY <1>9, <1>10, <1>11, <1>12 DEF EntriesKept
<1>14. Kept(u, s, ticks)
  BY <1>12, <1>13 DEF Kept
<1>15. Current(u, ticks)
  BY <1>12 DEF Current
<1> QED
  BY <1>12, <1>14, <1>15 DEF u

\* _FixedWindowCounter._check_reset starts a window no earlier than the end
\* of the last.
LEMMA ResetKeeps ==
  ASSUME NEW r \in Rule, r.kind = "fixed_window", ticks \in 0..MaxTicks, NEW s, Kept(r, s, ticks)
  PROVE  /\ CheckReset(r) \in Rule /\ CheckReset(r).kind = r.kind
         /\ Kept(CheckReset(r), s, ticks) /\ Current(CheckReset(r), ticks)
<1> DEFINE u == CheckReset(r)
<1>1. /\ r.level \in Nat /\ r.since \in Nat /\ ticks \in Nat /\ r.since <= ticks /\ s \in Seq(Int)
      /\ r.level <= WindowMax /\ \A k \in DOMAIN s : s[k] \in Nat /\ s[k] < r.since + WindowTicks
  BY RuleFields, Sizes, Times DEF Kept, WindowKept
<1>2. CASE ~(Elapsed(r) >= WindowTicks)
  <2>1. u = r
    BY <1>2 DEF CheckReset
  <2>2. ticks < r.since + WindowTicks
    BY <1>1, <1>2, Sizes DEF Elapsed
  <2> QED
    BY <2>1, <2>2 DEF Current
<1>3. CASE Elapsed(r) >= WindowTicks
  <2>1. ticks >= r.since + WindowTicks
    BY <1>1, <1>3, Sizes DEF Elapsed
  <2>2. u = [r EXCEPT !.level = 0, !.since = ticks]
    BY <1>3 DEF CheckReset
  <2>3. 0 \in 0..(Capacity + Burst + LeakDepth + WindowMax)
    BY Sizes
  <2>4. u \in Rule /\ u.kind = r.kind /\ u.level = 0 /\ u.since = ticks
    BY <2>2, <2>3 DEF Rule
  <2> HIDE DEF u
  <2>5. \A k \in DOMAIN s : s[k] < u.since + WindowTicks
    BY <1>1, <2>1, <2>4, Sizes
  <2>6. Passes(s, ticks, ticks) = 0
    <3>1. \A k \in DOMAIN s : s[k] \notin ticks..ticks
      BY <1>1, <2>1, Sizes
    <3> QED
      BY <1>1, <3>1, PassesNone
  <2>7. ASSUME NEW a \in 0..ticks, a < ticks
        PROVE  Passes(s, a, ticks) <= WindowMax + InWindows(ticks - a - 1, WindowTicks)
    <3>1. Passes(s, a, ticks) \in Nat /\ ticks - a - 1 \in Nat
      BY <1>1, <2>7, PassesNat
    <3>2. CASE a >= r.since
      <4>1. Passes(s, a, ticks) <= r.level
        BY <3>2 DEF Kept, WindowKept
      <4>2. InWindows(ticks - a - 1, WindowTicks) \in Nat
        BY <3>1, Sizes, WindowsGrow
      <4> QED
        BY <1>1, <3>1, <4>1, <4>2, Sizes
    <3>3. CASE a < r.since
      <4> DEFINE n == r.since - a - 1
      <4>1. Passes(s, a, ticks) <= r.level + WindowMax + InWindows(n, WindowTicks)
        BY <3>3 DEF Kept, WindowKept
      <4>2. n \in Nat /\ n + WindowTicks \in Nat /\ n + WindowTicks <= ticks - a - 1
        BY SMTT(30), <1>1, <2>1, <3>3, Sizes
      <4> HIDE DEF n
      <4>3. InWindows(n + WindowTicks, WindowTicks) = InWindows(n, WindowTicks) + WindowMax
        BY <4>2, Sizes, WindowAdded
      <4>4. /\ InWindows(n, WindowTicks) \in Nat /\ InWindows(ticks - a - 1, WindowTicks) \in Nat
            /\ InWindows(n + WindowTicks, WindowTicks) <= InWindows(ticks - a - 1, WindowTicks)
        BY SMTT(30), <3>1, <4>2, Sizes, WindowsGrow
      <4> QED
        BY SMTT(30), <1>1, <3>1, <4>1, <4>3, <4>4, Sizes
    <3> QED
      BY <1>1, <3>2, <3>3
  <2>8. WindowKept(u, s, ticks)
    <3>1. u.level <= WindowMax
      BY <2>4, Sizes
    <3>2. ASSUME NEW a \in 0..ticks, a >= ticks PROVE Passes(s, a, ticks) <= 0
      <4>1. a = ticks
        BY <1>1, <3>2
      <4> QED
        BY <2>6, <4>1
    <3>3. ASSUME NEW a \in 0..ticks, a < ticks
          PROVE  Passes(s, a, ticks) <= 0 + WindowMax + InWindows(ticks - a - 1, WindowTicks)
      <4>1. InWindows(ticks - a - 1, WindowTicks) \in Nat /\ ticks - a - 1 \in Nat
        <5>1. ticks - a - 1 \in Nat
          BY <1>1, <3>3
        <5> QED
          BY <5>1, Sizes, WindowsGrow
      <4> QED
        BY <2>7, <3>3, <4>1, Sizes
    <3> QED
      BY <2>4, <2>5, <3>1, <3>2, <3>3 DEF WindowKept
  <2>9. Kept(u, s, ticks)
    BY <2>4, <2>8 DEF Kept
  <2>10. Current(u, ticks)
    BY <1>1, <2>4, Sizes DEF Current
  <2> QED
    BY <2>4, <2>9, <2>10 DEF u
<1> QED
  BY <1>2, <1>3

\* Bringing a policy up to date forgets nothing that it let through.
LEMMA UpToDateKeeps ==
  ASSUME NEW r \in Rule, ticks \in 0..MaxTicks, NEW s, Kept(r, s, ticks)
  PROVE  /\ UpToDate(r) \in Rule /\ UpToDate(r).kind = r.kind
         /\ Kept(UpToDate(r), s, ticks) /\ Current(UpToDate(r), ticks)
<1>1. r.kind \in {"token_bucket", "leaky_bucket", "sliding_window", "fixed_window"}
  BY RuleFields, LimiterAssumption
<1>2. CASE r.kind = "token_bucket"
  BY <1>2, RefillKeeps DEF UpToDate
<1>3. CASE r.kind = "leaky_bucket"
  BY <1>3, DrainKeeps DEF UpToDate
<1>4. CASE r.kind = "sliding_window"
  BY <1>4, ExpireKeeps DEF UpToDate
<1>5. CASE r.kind = "fixed_window"
  BY <1>5, ResetKeeps DEF UpToDate
<1> QED
  BY <1>1, <1>2, <1>3, <1>4, <1>5

-----------------------------------------------------------------------------
(* Letting through. *)

\* The times of more passes.
LEMMA LaterTimes ==
  ASSUME NEW t \in Nat, NEW s \in Seq(0..t), NEW n \in Nat, NEW q, Later(s, q, n, t)
  PROVE  /\ q \in Seq(0..t) /\ s \in Seq(Int)
         /\ \A a \in Int, b \in Int : Passes(q, a, b) = Passes(s, a, b) + (IF t \in a..b THEN n ELSE 0)
<1>1. s \in Seq(Int) /\ Len(s) \in Nat /\ DOMAIN s = 1..Len(s)
  OBVIOUS
<1>2. /\ q \in Seq(Int) /\ Len(q) = Len(s) + n
      /\ \A k \in DOMAIN s : q[k] = s[k]
      /\ \A k \in (Len(s) + 1)..(Len(s) + n) : q[k] = t
  BY DEF Later
<1>3. \A k \in 1..Len(q) : k \in DOMAIN s \/ k \in (Len(s) + 1)..(Len(s) + n)
  BY <1>1, <1>2
<1>4. \A k \in 1..Len(q) : q[k] \in 0..t
  <2>1. \A k \in DOMAIN s : s[k] \in 0..t
    OBVIOUS
  <2>2. t \in 0..t
    OBVIOUS
  <2> QED
    BY <1>2, <1>3, <2>1, <2>2
<1>5. q \in Seq(0..t)
  <2>1. q = [k \in 1..Len(q) |-> q[k]] /\ Len(q) \in Nat
    BY <1>2
  <2> QED
    BY <1>4, <2>1, IsASeq
<1> QED
  BY <1>1, <1>5, PassesLater

\* The passes up to now of n more, and of one more.
LEMMA LaterNow ==
  ASSUME NEW t \in Nat, NEW s \in Seq(0..t), NEW n \in Nat, NEW q, Later(s, q, n, t)
  PROVE  /\ q \in Seq(0..t) /\ s \in Seq(Int) /\ q \in Seq(Int)
         /\ \A a \in 0..t : Passes(q, a, t) = Passes(s, a, t) + n /\ Passes(s, a, t) \in Nat
<1>1. q \in Seq(0..t) /\ s \in Seq(Int)
  BY LaterTimes
<1>2. q \in Seq(Int)
  BY DEF Later
<1>3. ASSUME NEW a \in 0..t PROVE Passes(q, a, t) = Passes(s, a, t) + n /\ Passes(s, a, t) \in Nat
  <2>1. a \in Int /\ t \in Int /\ t \in a..t
    OBVIOUS
  <2>2. Passes(s, a, t) \in Nat
    BY <1>1, <2>1, PassesNat
  <2>3. Passes(q, a, t) = Passes(s, a, t) + (IF t \in a..t THEN n ELSE 0)
    BY <2>1, LaterTimes
  <2> QED
    BY <2>1, <2>2, <2>3
<1> QED
  BY <1>1, <1>2, <1>3

\* One more request.
LEMMA LaterOne ==
  ASSUME NEW t \in Nat, NEW s \in Seq(0..t), NEW q, Later(s, q, 1, t)
  PROVE  /\ q \in Seq(0..t) /\ s \in Seq(Int) /\ q \in Seq(Int)
         /\ \A a \in 0..t : Passes(q, a, t) = Passes(s, a, t) + 1 /\ Passes(s, a, t) \in Nat
<1>1. 1 \in Nat
  OBVIOUS
<1> QED
  BY <1>1, LaterNow

\* What windows allow is a natural number.
LEMMA WindowsNat ==
  ASSUME NEW n \in Nat, NEW d \in Nat \ {0}
  PROVE  InWindows(n, d) \in Nat
<1>1. n <= n
  OBVIOUS
<1> QED
  BY <1>1, WindowsGrow

\* n tokens leave the bucket.
LEMMA TokensLeave ==
  ASSUME NEW r \in Rule, r.kind = "token_bucket", NEW t \in Nat, NEW s, Kept(r, s, t), Current(r, t),
         NEW n \in Nat, r.level >= n, NEW q, Later(s, q, n, t)
  PROVE  LET v == [r EXCEPT !.level = @ - n] IN v \in Rule /\ v.kind = r.kind /\ Kept(v, q, t)
<1> DEFINE v == [r EXCEPT !.level = @ - n]
<1>1. /\ r.level \in Nat /\ r.since \in Nat /\ r.burst \in Nat /\ r.since <= t /\ s \in Seq(0..t)
      /\ r.level <= Capacity + Burst /\ t <= r.since + Interval
  BY RuleFields, Sizes DEF Kept, TokensKept, Current
<1>2. /\ q \in Seq(0..t) /\ s \in Seq(Int) /\ q \in Seq(Int)
      /\ \A a \in 0..t : Passes(q, a, t) = Passes(s, a, t) + n /\ Passes(s, a, t) \in Nat
  BY <1>1, LaterNow
<1>3. r.level - n \in 0..(Capacity + Burst + LeakDepth + WindowMax)
  BY <1>1, Sizes
<1>4. v \in Rule /\ v.kind = r.kind /\ v.level = r.level - n /\ v.since = r.since /\ v.burst = r.burst
  BY <1>3 DEF Rule
<1> HIDE DEF v
<1>5. ASSUME NEW a \in 0..t
      PROVE  /\ v.since + Interval >= a
             /\ Passes(q, a, t) + v.level <= Capacity + Burst + v.burst + Flows(v.since + Interval - a)
  <2>1. v.since + Interval >= a
    BY <1>1, <1>4, Sizes
  <2>2. Passes(q, a, t) = Passes(s, a, t) + n /\ Passes(s, a, t) \in Nat
    BY <1>2
  <2> DEFINE f == Flows(r.since + Interval - a)
  <2>3. f \in Nat
    <3>1. r.since + Interval - a \in Nat
      BY <1>1, <1>4, <2>1, Sizes
    <3> QED
      BY <3>1, FlowsGrow
  <2>4. Passes(s, a, t) + r.level <= Capacity + Burst + r.burst + f
    <3>1. CASE Passes(s, a, t) = 0
      BY SMTT(30), <1>1, <2>3, <3>1, Sizes
    <3>2. CASE Passes(s, a, t) # 0
      BY <3>2 DEF Kept, TokensKept
    <3> QED
      BY <3>1, <3>2
  <2>5. \A p, l, c : p \in Nat /\ l \in Nat /\ p + l <= c => (p + n) + (l - n) <= c
    OBVIOUS
  <2>6. Passes(q, a, t) + v.level <= Capacity + Burst + r.burst + f
    BY <1>1, <1>4, <2>2, <2>4, <2>5
  <2> QED
    BY <1>4, <2>1, <2>6
<1>6. TokensKept(v, q, t)
  <2>1. v.level <= Capacity + Burst
    BY <1>1, <1>4, Sizes
  <2> QED
    BY <1>5, <2>1 DEF TokensKept
<1>7. Kept(v, q, t)
  BY <1>1, <1>2, <1>4, <1>6 DEF Kept
<1> QED
  BY <1>4, <1>7 DEF v

\* A request borrows from the burst.
LEMMA BurstUsed ==
  ASSUME NEW r \in Rule, r.kind = "token_bucket", NEW t \in Nat, NEW s, Kept(r, s, t), Current(r, t),
         r.level < 1, r.level + Burst - r.burst >= 1, NEW q, Later(s, q, 1, t)
  PROVE  LET v == [r EXCEPT !.burst = @ + 1] IN v \in Rule /\ v.kind = r.kind /\ Kept(v, q, t)
<1> DEFINE v == [r EXCEPT !.burst = @ + 1]
<1>1. /\ r.level = 0 /\ r.since \in Nat /\ r.burst \in 0..Burst /\ r.burst \in Nat /\ r.since <= t /\ s \in Seq(0..t)
      /\ t <= r.since + Interval
  BY RuleFields, Sizes DEF Kept, TokensKept, Current
<1>2. /\ q \in Seq(0..t) /\ s \in Seq(Int) /\ q \in Seq(Int)
      /\ \A a \in 0..t : Passes(q, a, t) = Passes(s, a, t) + 1 /\ Passes(s, a, t) \in Nat
  BY <1>1, LaterOne
<1>3. r.burst + 1 \in 0..Burst
  BY <1>1, Sizes
<1>4. v \in Rule /\ v.kind = r.kind /\ v.level = r.level /\ v.since = r.since /\ v.burst = r.burst + 1
  BY <1>3 DEF Rule
<1> HIDE DEF v
<1>5. ASSUME NEW a \in 0..t
      PROVE  /\ v.since + Interval >= a
             /\ Passes(q, a, t) + v.level <= Capacity + Burst + v.burst + Flows(v.since + Interval - a)
  <2>1. v.since + Interval >= a
    BY <1>1, <1>4, Sizes
  <2>2. Passes(q, a, t) = Passes(s, a, t) + 1 /\ Passes(s, a, t) \in Nat
    BY <1>2
  <2> DEFINE f == Flows(r.since + Interval - a)
  <2>3. f \in Nat
    <3>1. r.since + Interval - a \in Nat
      BY <1>1, <1>4, <2>1, Sizes
    <3> QED
      BY <3>1, FlowsGrow
  <2> HIDE DEF f
  <2>4. Passes(s, a, t) <= Capacity + Burst + r.burst + f
    <3>1. CASE Passes(s, a, t) = 0
      BY <1>1, <2>3, <3>1, Sizes
    <3>2. CASE Passes(s, a, t) # 0
      <4>1. Passes(s, a, t) + r.level <= Capacity + Burst + r.burst + f
        BY <3>2 DEF Kept, TokensKept, f
      <4> QED
        BY <1>1, <2>2, <4>1
    <3> QED
      BY <3>1, <3>2
  <2>5. Passes(q, a, t) + v.level <= Capacity + Burst + v.burst + f
    BY SMTT(30), <1>1, <1>4, <2>2, <2>3, <2>4, Sizes
  <2> QED
    BY <1>4, <2>1, <2>5 DEF f
<1>6. TokensKept(v, q, t)
  <2>1. v.level <= Capacity + Burst
    BY <1>1, <1>4, Sizes
  <2> QED
    BY <1>5, <2>1 DEF TokensKept
<1>7. Kept(v, q, t)
  BY <1>1, <1>2, <1>4, <1>6 DEF Kept
<1> QED
  BY <1>4, <1>7 DEF v

\* A request that joins the queue of the leaky bucket.
LEMMA QueueGrows ==
  ASSUME NEW r \in Rule, r.kind = "leaky_bucket", NEW t \in Nat, NEW s, Kept(r, s, t), Current(r, t),
         r.level < LeakDepth, NEW q, Later(s, q, 1, t)
  PROVE  LET v == [r EXCEPT !.level = @ + 1] IN v \in Rule /\ v.kind = r.kind /\ Kept(v, q, t)
<1> DEFINE v == [r EXCEPT !.level = @ + 1]
<1>1. r.level \in Nat /\ r.since \in Nat /\ r.since <= t /\ s \in Seq(0..t) /\ t <= r.since + Interval
  BY RuleFields, Sizes DEF Kept, LeakKept, Current
<1>2. /\ q \in Seq(0..t) /\ s \in Seq(Int) /\ q \in Seq(Int)
      /\ \A a \in 0..t : Passes(q, a, t) = Passes(s, a, t) + 1 /\ Passes(s, a, t) \in Nat
  BY <1>1, LaterOne
<1>3. r.level + 1 \in 0..(Capacity + Burst + LeakDepth + WindowMax)
  BY <1>1, Sizes
<1>4. v \in Rule /\ v.kind = r.kind /\ v.level = r.level + 1 /\ v.since = r.since
  BY <1>3 DEF Rule
<1> HIDE DEF v
<1>5. ASSUME NEW a \in 0..t
      PROVE  v.since + Interval >= a /\ Passes(q, a, t) <= v.level + Flows(v.since + Interval - a)
  <2>1. v.since + Interval >= a
    BY <1>1, <1>4, Sizes
  <2>2. Passes(q, a, t) = Passes(s, a, t) + 1 /\ Passes(s, a, t) \in Nat
    BY <1>2
  <2> DEFINE f == Flows(r.since + Interval - a)
  <2>3. f \in Nat
    <3>1. r.since + Interval - a \in Nat
      BY <1>1, <1>4, <2>1, Sizes
    <3> QED
      BY <3>1, FlowsGrow
  <2> HIDE DEF f
  <2>4. Passes(s, a, t) <= r.level + f
    <3>1. CASE Passes(s, a, t) = 0
      BY <1>1, <2>3, <3>1
    <3>2. CASE Passes(s, a, t) # 0
      BY <3>2 DEF Kept, LeakKept, f
    <3> QED
      BY <3>1, <3>2
  <2>5. Passes(q, a, t) <= v.level + f
    BY <1>1, <1>4, <2>2, <2>3, <2>4
  <2> QED
    BY <1>4, <2>1, <2>5 DEF f
<1>6. LeakKept(v, q, t)
  <2>1. v.level <= LeakDepth
    BY <1>1, <1>4, Sizes
  <2> QED
    BY <1>5, <2>1 DEF LeakKept
<1>7. Kept(v, q, t)
  BY <1>1, <1>2, <1>4, <1>6 DEF Kept
<1> QED
  BY <1>4, <1>7 DEF v

\* A request entered in the sliding window.
LEMMA EntryAdded ==
  ASSUME NEW r \in Rule, r.kind = "sliding_window", NEW t \in 0..MaxTicks, NEW s, Kept(r, s, t),
         Len(r.entries) < WindowMax, NEW q, Later(s, q, 1, t)
  PROVE  LET v == [r EXCEPT !.entries = Append(@, t)] IN v \in Rule /\ v.kind = r.kind /\ Kept(v, q, t)
<1> DEFINE v == [r EXCEPT !.entries = Append(@, t)]
           e == r.entries
           f == Append(e, t)
<1>1. /\ s \in Seq(0..t) /\ r.since <= t /\ t \in Nat /\ e \in Seq(0..MaxTicks)
      /\ \A k \in DOMAIN e : e[k] <= t
  BY RuleFields, Sizes DEF Kept, EntriesKept
<1>2. q \in Seq(0..t) /\ s \in Seq(Int)
  BY <1>1, LaterOne
<1>3. \A a \in Int, b \in Int : Passes(q, a, b) = Passes(s, a, b) + (IF t \in a..b THEN 1 ELSE 0)
  <2>1. 1 \in Nat
    OBVIOUS
  <2> QED
    BY <1>1, <1>2, <2>1, PassesLater
<1>4. Len(e) \in Nat /\ DOMAIN e = 1..Len(e) /\ e \in Seq(Int)
  BY <1>1, Sizes
<1>5. \A c \in Int : c >= t - WindowTicks => Passes(s, c, t) <= Passes(e, c, t)
  BY DEF Kept, EntriesKept
<1>6. v = [r EXCEPT !.entries = f] /\ Len(e) < WindowMax
  OBVIOUS
<1> HIDE DEF e
<1>7. \A a \in Int, b \in Int : Passes(f, a, b) = Passes(e, a, b) + (IF t \in a..b THEN 1 ELSE 0)
  <2>1. 1 \in Nat /\ Later(e, f, 1, t)
    BY <1>1, <1>4, AppendLater
  <2> HIDE DEF f
  <2> QED
    BY <1>1, <1>4, <2>1, PassesLater
<1>8. /\ f \in Seq(0..MaxTicks) /\ Len(f) = Len(e) + 1 /\ DOMAIN f = 1..(Len(e) + 1)
      /\ \A k \in 1..Len(e) : f[k] = e[k]
      /\ f[Len(e) + 1] = t
  BY <1>1, <1>4
<1> HIDE DEF f
<1>9. v \in Rule /\ v.kind = r.kind /\ v.since = r.since /\ v.entries = f
  BY <1>6, <1>8 DEF Rule
<1> HIDE DEF v
<1>10. \A k \in DOMAIN f : f[k] <= t
  <2>1. \A k \in DOMAIN f : k \in 1..Len(e) \/ k = Len(e) + 1
    BY <1>4, <1>8
  <2>2. t <= t
    BY <1>1
  <2> QED
    BY <1>1, <1>4, <1>8, <2>1, <2>2
<1>11. \A c \in Int : c >= t - WindowTicks => Passes(q, c, t) <= Passes(f, c, t)
  <2> SUFFICES ASSUME NEW c \in Int, c >= t - WindowTicks PROVE Passes(q, c, t) <= Passes(f, c, t)
    OBVIOUS
  <2>1. Passes(s, c, t) \in Nat /\ Passes(e, c, t) \in Nat /\ Passes(s, c, t) <= Passes(e, c, t)
    BY <1>1, <1>2, <1>4, <1>5, PassesNat
  <2>2. t \in Int
    BY <1>1
  <2>3. Passes(q, c, t) = Passes(s, c, t) + (IF t \in c..t THEN 1 ELSE 0)
    BY <1>3, <2>2
  <2>4. Passes(f, c, t) = Passes(e, c, t) + (IF t \in c..t THEN 1 ELSE 0)
    BY <1>7, <2>2
  <2> QED
    BY <2>1, <2>3, <2>4
<1>12. EntriesKept(v, q, t)
  BY <1>4, <1>6, <1>8, <1>9, <1>10, <1>11, Sizes DEF EntriesKept
<1>13. Kept(v, q, t)
  BY <1>1, <1>2, <1>9, <1>12 DEF Kept
<1> QED
  BY <1>9, <1>13 DEF v

\* A request counted in the fixed window.
LEMMA WindowCounts ==
  ASSUME NEW r \in Rule, r.kind = "fixed_window", NEW t \in Nat, NEW s, Kept(r, s, t), Current(r, t),
         r.level < WindowMax, NEW q, Later(s, q, 1, t)
  PROVE  LET v == [r EXCEPT !.level = @ + 1] IN v \in Rule /\ v.kind = r.kind /\ Kept(v, q, t)
<1> DEFINE v == [r EXCEPT !.level = @ + 1]
<1>1. /\ r.level \in Nat /\ r.since \in Nat /\ r.since <= t /\ s \in Seq(0..t) /\ t < r.since + WindowTicks
      /\ \A k \in DOMAIN s : s[k] < r.since + WindowTicks
  BY RuleFields, Sizes DEF Kept, WindowKept, Current
<1>2. /\ q \in Seq(0..t) /\ s \in Seq(Int) /\ q \in Seq(Int)
      /\ \A a \in 0..t : Passes(q, a, t) = Passes(s, a, t) + 1 /\ Passes(s, a, t) \in Nat
  BY <1>1, LaterOne
<1>3. r.level + 1 \in 0..(Capacity + Burst + LeakDepth + WindowMax)
  BY <1>1, Sizes
<1>4. v \in Rule /\ v.kind = r.kind /\ v.level = r.level + 1 /\ v.since = r.since
  BY <1>3 DEF Rule
<1> HIDE DEF v
<1>5. \A k \in DOMAIN q : q[k] < v.since + WindowTicks
  <2>1. \A k \in DOMAIN q : q[k] \in Nat /\ q[k] <= t
    BY <1>2, Times
  <2> QED
    BY <1>1, <1>4, <2>1, Sizes
<1>6. ASSUME NEW a \in 0..t
      PROVE  /\ a >= r.since => Passes(q, a, t) <= v.level
             /\ a < r.since => Passes(q, a, t) <= v.level + WindowMax + InWindows(r.since - a - 1, WindowTicks)
  <2>1. Passes(q, a, t) = Passes(s, a, t) + 1 /\ Passes(s, a, t) \in Nat
    BY <1>2
  <2>2. /\ a >= r.since => Passes(s, a, t) <= r.level
        /\ a < r.since => Passes(s, a, t) <= r.level + WindowMax + InWindows(r.since - a - 1, WindowTicks)
    BY DEF Kept, WindowKept
  <2>3. a < r.since => InWindows(r.since - a - 1, WindowTicks) \in Nat
    <3> SUFFICES ASSUME a < r.since PROVE InWindows(r.since - a - 1, WindowTicks) \in Nat
      OBVIOUS
    <3>1. r.since - a - 1 \in Nat
      BY <1>1
    <3> QED
      BY <3>1, Sizes, WindowsNat
  <2> QED
    BY SMTT(30), <1>1, <1>4, <2>1, <2>2, <2>3, Sizes
<1>7. WindowKept(v, q, t)
  BY <1>1, <1>4, <1>5, <1>6, Sizes DEF WindowKept
<1>8. Kept(v, q, t)
  BY <1>1, <1>2, <1>4, <1>7 DEF Kept
<1> QED
  BY <1>4, <1>8 DEF v

-----------------------------------------------------------------------------
(* Rates. *)

\* The property, of one policy.
RatesOf(s, kind, t) == \A a \in 0..t : \A b \in a..t : Passes(s, a, b) <= Allowance(kind, b - a)

\* The allowances in terms of flows and windows.
LEMMA Allowances ==
  ASSUME NEW n \in Nat
  PROVE  /\ Allowance("token_bucket", n) = Capacity + 2 * Burst + Flows(n + Interval)
         /\ Allowance("leaky_bucket", n) = LeakDepth + Flows(n + Interval)
         /\ Allowance("sliding_window", n) = WindowMax + InWindows(n, WindowTicks + 1)
         /\ Allowance("fixed_window", n) = 2 * WindowMax + InWindows(n, WindowTicks)
<1>1. n + Interval = n + RefillInterval - 1
  BY Sizes
<1>2. Allowance("token_bucket", n) = Capacity + 2 * Burst + Flows(n + Interval)
  BY <1>1 DEF Allowance, Flows
<1>3. Allowance("leaky_bucket", n) = LeakDepth + Flows(n + Interval)
  BY <1>1 DEF Allowance, Flows
<1>4. \A k \in Nat : WindowMax * (1 + k) = WindowMax + WindowMax * k /\ WindowMax * (2 + k) = 2 * WindowMax + WindowMax * k
  BY Sizes
<1>5. n \div (WindowTicks + 1) \in Nat /\ n \div WindowTicks \in Nat
  BY Sizes, Fits
<1>6. Allowance("sliding_window", n) = WindowMax * (1 + n \div (WindowTicks + 1))
  BY DEF Allowance
<1>7. Allowance("fixed_window", n) = WindowMax * (2 + n \div WindowTicks)
  BY DEF Allowance
<1> QED
  BY <1>2, <1>3, <1>4, <1>5, <1>6, <1>7 DEF InWindows

\* What is kept up to now bounds what passed up to now.
LEMMA RatesNow ==
  ASSUME NEW r \in Rule, NEW t \in Nat, NEW s, Kept(r, s, t),
         NEW a \in 0..t, \A b \in a..t : b < t => Passes(s, a, b) <= Allowance(r.kind, b - a)
  PROVE  Passes(s, a, t) <= Allowance(r.kind, t - a)
<1>1. /\ r.level \in Nat /\ r.since \in Nat /\ r.burst \in 0..Burst /\ r.since <= t /\ s \in Seq(Int)
      /\ Passes(s, a, t) \in Nat /\ t - a \in Nat
      /\ r.kind \in {"token_bucket", "leaky_bucket", "sliding_window", "fixed_window"}
  <2>1. r.level \in Nat /\ r.since \in 0..MaxTicks /\ r.burst \in 0..Burst /\ r.kind \in LimitKinds
    BY RuleFields
  <2>2. s \in Seq(0..t) /\ r.since <= t
    BY DEF Kept
  <2>3. s \in Seq(Int)
    BY <2>2, Times
  <2>4. a \in Int /\ t \in Int /\ t - a \in Nat
    OBVIOUS
  <2>5. Passes(s, a, t) \in Nat
    BY <2>3, <2>4, PassesNat
  <2>6. r.since \in Nat
    BY <2>1, Sizes
  <2> QED
    BY <2>1, <2>2, <2>3, <2>4, <2>5, <2>6, LimiterAssumption
<1>2. CASE r.kind \in {"token_bucket", "leaky_bucket"}
  <2>1. Flows((t - a) + Interval) \in Nat
    <3>1. (t - a) + Interval \in Nat
      BY <1>1, Sizes
    <3> QED
      BY <3>1, FlowsGrow
  <2>2. CASE Passes(s, a, t) = 0
    <3>1. /\ Allowance("token_bucket", t - a) = Capacity + 2 * Burst + Flows((t - a) + Interval)
          /\ Allowance("leaky_bucket", t - a) = LeakDepth + Flows((t - a) + Interval)
      BY <1>1, Allowances
    <3>2. Capacity + 2 * Burst + Flows((t - a) + Interval) >= 0 /\ LeakDepth + Flows((t - a) + Interval) >= 0
      BY <2>1, Sizes
    <3> QED
      BY <1>2, <2>2, <3>1, <3>2
  <2>3. CASE Passes(s, a, t) # 0
    <3> DEFINE f == Flows(r.since + Interval - a)
    <3>1. r.since + Interval >= a
      BY <1>2, <2>3 DEF Kept, TokensKept, LeakKept
    <3>2. f \in Nat /\ f <= Flows((t - a) + Interval)
      <4>1. r.since + Interval - a \in Nat /\ (t - a) + Interval \in Nat
            /\ r.since + Interval - a <= (t - a) + Interval
        BY <1>1, <3>1, Sizes
      <4> QED
        BY <4>1, FlowsGrow
    <3>3. CASE r.kind = "token_bucket"
      <4>1. Passes(s, a, t) + r.level <= Capacity + Burst + r.burst + f
        BY <2>3, <3>3 DEF Kept, TokensKept
      <4> HIDE DEF f
      <4>2. Passes(s, a, t) <= Capacity + 2 * Burst + Flows((t - a) + Interval)
        <5>1. \A n, l, c, w, x, f1, f2 \in Nat :
                n + l <= c + w + x + f1 /\ x <= w /\ f1 <= f2 => n <= c + 2 * w + f2
          OBVIOUS
        <5>2. r.burst \in Nat /\ r.burst <= Burst /\ Capacity \in Nat /\ Burst \in Nat
          BY <1>1, Sizes
        <5> QED
          BY <1>1, <2>1, <3>2, <4>1, <5>1, <5>2
      <4> QED
        BY <1>1, <3>3, <4>2, Allowances
    <3>4. CASE r.kind = "leaky_bucket"
      <4>1. Passes(s, a, t) <= r.level + f /\ r.level <= LeakDepth
        BY <2>3, <3>4 DEF Kept, LeakKept
      <4> HIDE DEF f
      <4>2. Passes(s, a, t) <= LeakDepth + Flows((t - a) + Interval)
        BY <1>1, <2>1, <3>2, <4>1, Sizes
      <4> QED
        BY <1>1, <3>4, <4>2, Allowances
    <3> QED
      BY <1>2, <3>3, <3>4
  <2> QED
    BY <2>2, <2>3
<1>3. CASE r.kind = "sliding_window"
  <2> DEFINE c == t - WindowTicks
             W == WindowTicks + 1
  <2>1. c \in Int /\ c - 1 \in Int /\ W \in Nat \ {0} /\ WindowMax \in Nat
    BY Sizes
  <2>2. Passes(s, c, t) \in Nat /\ Passes(s, c, t) <= WindowMax
    <3>1. r.entries \in Seq(Int) /\ Len(r.entries) \in Nat
      BY RuleFields, Sizes, Times
    <3>2. Passes(s, c, t) <= Passes(r.entries, c, t) /\ Len(r.entries) <= WindowMax
      BY <1>3, <2>1, Sizes DEF Kept, EntriesKept
    <3>3. Passes(r.entries, c, t) \in Nat /\ Passes(r.entries, c, t) <= Len(r.entries)
      BY <2>1, <3>1, PassesNat
    <3>4. Passes(s, c, t) \in Nat
      BY <1>1, <2>1, PassesNat
    <3> QED
      BY <2>1, <3>1, <3>2, <3>3, <3>4
  <2>3. InWindows(t - a, W) \in Nat
    BY <1>1, <2>1, WindowsNat
  <2>4. Allowance(r.kind, t - a) = WindowMax + InWindows(t - a, W)
    BY <1>1, <1>3, Allowances
  <2>5. CASE c <= a
    <3>1. Passes(s, a, t) <= Passes(s, c, t)
      <4>1. \A k \in DOMAIN s : s[k] \in a..t => s[k] \in c..t
        BY <2>1, <2>5
      <4> QED
        BY <1>1, <2>1, <4>1, PassesMore
    <3> QED
      BY <1>1, <2>1, <2>2, <2>3, <2>4, <3>1
  <2>6. CASE a < c
    <3> DEFINE b == c - 1
               n == b - a
    <3>1. b \in a..t /\ b < t /\ n \in Nat /\ t - a = n + W /\ b + 1 = c /\ b \in Int
      BY <1>1, <2>1, <2>6, Sizes
    <3>2. Passes(s, a, t) <= Passes(s, a, b) + Passes(s, c, t)
      <4>1. Passes(s, a, t) <= Passes(s, a, b) + Passes(s, b + 1, t)
        BY <1>1, <3>1, PassesSplit
      <4> QED
        BY <3>1, <4>1
    <3>3. Passes(s, a, b) <= WindowMax + InWindows(n, W)
      <4>1. Passes(s, a, b) <= Allowance(r.kind, n)
        BY <3>1
      <4> QED
        BY <1>3, <3>1, <4>1, Allowances
    <3>4. InWindows(n + W, W) = InWindows(n, W) + WindowMax /\ InWindows(n, W) \in Nat
      <4> HIDE DEF b, n, W
      <4> QED
        BY <2>1, <3>1, WindowAdded, WindowsNat
    <3>5. Passes(s, a, b) \in Nat
      BY <1>1, <3>1, PassesNat
    <3> HIDE DEF b, n, c, W
    <3> QED
      BY SMTT(30), <1>1, <2>1, <2>2, <2>4, <3>1, <3>2, <3>3, <3>4, <3>5
  <2> QED
    BY <1>1, <2>1, <2>5, <2>6
<1>4. CASE r.kind = "fixed_window"
  <2>1. InWindows(t - a, WindowTicks) \in Nat
    BY <1>1, Sizes, WindowsNat
  <2>2. r.level <= WindowMax
    BY <1>4 DEF Kept, WindowKept
  <2>3. Passes(s, a, t) <= 2 * WindowMax + InWindows(t - a, WindowTicks)
    <3>1. CASE a >= r.since
      <4>1. Passes(s, a, t) <= r.level
        BY <1>4, <3>1 DEF Kept, WindowKept
      <4> QED
        BY <1>1, <2>1, <2>2, <4>1, Sizes
    <3>2. CASE a < r.since
      <4>1. Passes(s, a, t) <= r.level + WindowMax + InWindows(r.since - a - 1, WindowTicks)
        BY <1>4, <3>2 DEF Kept, WindowKept
      <4>2. r.since - a - 1 \in Nat /\ r.since - a - 1 <= t - a
        BY <1>1, <3>2
      <4>3. /\ InWindows(r.since - a - 1, WindowTicks) \in Nat
            /\ InWindows(r.since - a - 1, WindowTicks) <= InWindows(t - a, WindowTicks)
        BY <1>1, <4>2, Sizes, WindowsGrow
      <4>4. \A n, l, w, x, y \in Nat : n <= l + w + x /\ l <= w /\ x <= y => n <= 2 * w + y
        OBVIOUS
      <4> QED
        BY <1>1, <2>1, <2>2, <4>1, <4>3, <4>4, Sizes
    <3> QED
      BY <1>1, <3>1, <3>2
  <2> QED
    BY <1>1, <1>4, <2>3, Allowances
<1> QED
  BY <1>1, <1>2, <1>3, <1>4

\* Rates are kept as soon as what passed before now is within them.
LEMMA RatesUpTo ==
  ASSUME NEW r \in Rule, NEW t \in Nat, NEW s, Kept(r, s, t),
         \A a \in 0..t : \A b \in a..t : b < t => Passes(s, a, b) <= Allowance(r.kind, b - a)
  PROVE  RatesOf(s, r.kind, t)
<1> SUFFICES ASSUME NEW a \in 0..t, NEW b \in a..t PROVE Passes(s, a, b) <= Allowance(r.kind, b - a)
  BY DEF RatesOf
<1>1. CASE b < t
  BY <1>1
<1>2. CASE b = t
  BY <1>2, RatesNow
<1> QED
  BY <1>1, <1>2

-----------------------------------------------------------------------------
(* A policy and its history. *)

\* A policy's state accounts for its history, and its rates are kept.
Sound(r, s, t) == r \in Rule /\ Kept(r, s, t) /\ RatesOf(s, r.kind, t)

\* The invariant.
LInv == LimiterTypeOK /\ \A p \in LimitIds : rules[p] # NoRule => Sound(rules[p], passed[p], ticks)

\* A policy that is brought up to date stays sound.
LEMMA SoundUpToDate ==
  ASSUME NEW r, NEW s, ticks \in 0..MaxTicks, Sound(r, s, ticks)
  PROVE  /\ Sound(UpToDate(r), s, ticks) /\ Current(UpToDate(r), ticks) /\ UpToDate(r).kind = r.kind
<1>1. UpToDate(r) \in Rule /\ UpToDate(r).kind = r.kind /\ Kept(UpToDate(r), s, ticks) /\ Current(UpToDate(r), ticks)
  BY UpToDateKeeps DEF Sound
<1> QED
  BY <1>1 DEF Sound

\* So does one that lets n requests through now.
LEMMA SoundLater ==
  ASSUME NEW r, NEW s, NEW t \in Nat, Sound(r, s, t), NEW n \in Nat, NEW q, Later(s, q, n, t),
         NEW v \in Rule, v.kind = r.kind, Kept(v, q, t)
  PROVE  Sound(v, q, t)
<1>1. s \in Seq(0..t) /\ r \in Rule /\ RatesOf(s, r.kind, t)
  BY DEF Sound, Kept
<1>2. s \in Seq(Int)
  BY <1>1, Times
<1>3. ASSUME NEW a \in 0..t, NEW b \in a..t, b < t PROVE Passes(q, a, b) <= Allowance(v.kind, b - a)
  <2>1. a \in Int /\ b \in Int /\ t \in Int /\ t \notin a..b
    BY <1>3
  <2>2. Passes(s, a, b) \in Nat
    BY <1>2, <2>1, PassesNat
  <2>3. Passes(q, a, b) = Passes(s, a, b) + (IF t \in a..b THEN n ELSE 0)
    BY <1>2, <2>1, PassesLater
  <2>4. Passes(q, a, b) = Passes(s, a, b)
    BY <2>1, <2>2, <2>3
  <2> QED
    BY <1>1, <2>4 DEF RatesOf
<1>4. RatesOf(q, v.kind, t)
  BY <1>3, RatesUpTo
<1> QED
  BY <1>4 DEF Sound

\* A bucket or window that was just made.
LEMMA SoundNew ==
  ASSUME NEW t \in 0..MaxTicks, NEW r \in Rule, r.since = t, r.entries = <<>>,
         r.level = IF r.kind = "token_bucket" THEN Capacity ELSE 0
  PROVE  Sound(r, <<>>, t)
<1>1. /\ t \in Nat /\ <<>> \in Seq(0..t) /\ <<>> \in Seq(Int) /\ DOMAIN <<>> = {} /\ Len(<<>>) = 0
      /\ r.burst \in Nat /\ r.kind \in LimitKinds
  BY Sizes, RuleFields
<1>2. ASSUME NEW a \in Int, NEW b \in Int PROVE Passes(<<>>, a, b) = 0
  BY <1>1, PassesNone
<1>3. r.kind = "token_bucket" => TokensKept(r, <<>>, t)
  BY <1>1, <1>2, Sizes DEF TokensKept
<1>4. r.kind = "leaky_bucket" => LeakKept(r, <<>>, t)
  BY <1>1, <1>2, Sizes DEF LeakKept
<1>5. r.kind = "sliding_window" => EntriesKept(r, <<>>, t)
  <2>1. \A c \in Int : Passes(<<>>, c, t) <= Passes(<<>>, c, t)
    BY <1>1, <1>2
  <2> QED
    BY <1>1, <2>1, Sizes DEF EntriesKept
<1>6. r.kind = "fixed_window" => WindowKept(r, <<>>, t)
  <2> SUFFICES ASSUME r.kind = "fixed_window" PROVE WindowKept(r, <<>>, t)
    OBVIOUS
  <2>1. r.level = 0 /\ 0 <= WindowMax
    BY Sizes
  <2>2. ASSUME NEW a \in 0..t
        PROVE  /\ a >= r.since => Passes(<<>>, a, t) <= r.level
               /\ a < r.since => Passes(<<>>, a, t) <= r.level + WindowMax + InWindows(r.since - a - 1, WindowTicks)
    <3>1. Passes(<<>>, a, t) = 0
      BY <1>1, <1>2
    <3>2. a < r.since => InWindows(r.since - a - 1, WindowTicks) \in Nat
      <4> SUFFICES ASSUME a < r.since PROVE InWindows(r.since - a - 1, WindowTicks) \in Nat
        OBVIOUS
      <4>1. r.since - a - 1 \in Nat
        BY <1>1
      <4> QED
        BY <4>1, Sizes, WindowsNat
    <3> QED
      BY <2>1, <3>1, <3>2, Sizes
  <2> QED
    BY <1>1, <2>1, <2>2 DEF WindowKept
<1>7. Kept(r, <<>>, t)
  BY <1>1, <1>3, <1>4, <1>5, <1>6 DEF Kept
<1>8. ASSUME NEW a \in 0..t, NEW b \in a..t, b < t PROVE Passes(<<>>, a, b) <= Allowance(r.kind, b - a)
  <2>1. b - a \in Nat /\ Passes(<<>>, a, b) = 0
    BY <1>1, <1>2
  <2>2. Flows((b - a) + Interval) \in Nat
    <3>1. (b - a) + Interval \in Nat /\ (b - a) + Interval <= (b - a) + Interval
      BY <2>1, Sizes
    <3> QED
      BY <3>1, FlowsGrow
  <2>3. InWindows(b - a, WindowTicks + 1) \in Nat /\ InWindows(b - a, WindowTicks) \in Nat
    <3>1. WindowTicks + 1 \in Nat \ {0} /\ WindowTicks \in Nat \ {0}
      BY Sizes
    <3> QED
      BY <2>1, <3>1, WindowsNat
  <2>4. /\ Allowance("token_bucket", b - a) >= 0 /\ Allowance("leaky_bucket", b - a) >= 0
        /\ Allowance("sliding_window", b - a) >= 0 /\ Allowance("fixed_window", b - a) >= 0
    <3>1. /\ Allowance("token_bucket", b - a) = Capacity + 2 * Burst + Flows((b - a) + Interval)
          /\ Allowance("leaky_bucket", b - a) = LeakDepth + Flows((b - a) + Interval)
          /\ Allowance("sliding_window", b - a) = WindowMax + InWindows(b - a, WindowTicks + 1)
          /\ Allowance("fixed_window", b - a) = 2 * WindowMax + InWindows(b - a, WindowTicks)
      BY <2>1, Allowances
    <3>2. \A c, d, n \in Nat : c + 2 * d + n >= 0 /\ c + n >= 0 /\ 2 * c + n >= 0
      OBVIOUS
    <3>3. Capacity \in Nat /\ Burst \in Nat /\ LeakDepth \in Nat /\ WindowMax \in Nat
      BY Sizes
    <3>4. Allowance("token_bucket", b - a) >= 0 /\ Allowance("leaky_bucket", b - a) >= 0
      BY ONLY <2>2, <3>1, <3>2, <3>3
    <3>5. Allowance("sliding_window", b - a) >= 0 /\ Allowance("fixed_window", b - a) >= 0
      BY ONLY <2>3, <3>1, <3>2, <3>3
    <3> QED
      BY <3>4, <3>5
  <2> QED
    BY <1>1, <2>1, <2>4, LimiterAssumption
<1>9. RatesOf(<<>>, r.kind, t)
  BY <1>1, <1>7, <1>8, RatesUpTo
<1> QED
  BY <1>7, <1>9 DEF Sound

\* Time passes: what was kept up to t is kept up to t + 1.
LEMMA SoundTime ==
  ASSUME NEW r, NEW s, NEW t \in Nat, Sound(r, s, t)
  PROVE  Sound(r, s, t + 1)
<1>1. /\ r \in Rule /\ s \in Seq(0..t) /\ r.since <= t /\ RatesOf(s, r.kind, t) /\ t + 1 \in Nat
      /\ r.kind = "token_bucket" => TokensKept(r, s, t)
      /\ r.kind = "leaky_bucket" => LeakKept(r, s, t)
      /\ r.kind = "sliding_window" => EntriesKept(r, s, t)
      /\ r.kind = "fixed_window" => WindowKept(r, s, t)
  BY DEF Sound, Kept
<1>2. /\ s \in Seq(Int) /\ r.level \in Nat /\ r.since \in Nat
      /\ \A k \in DOMAIN s : s[k] \in Nat /\ s[k] <= t
  BY <1>1, Times, RuleFields, Sizes
<1>3. ASSUME NEW a \in Int PROVE Passes(s, a, t + 1) = Passes(s, a, t)
  <2>1. \A k \in DOMAIN s : s[k] <= t + 1 /\ s[k] <= t
    BY <1>2
  <2> QED
    BY <1>1, <1>2, <2>1, PassesEnd
<1>4. Passes(s, t + 1, t + 1) = 0
  <2>1. \A k \in DOMAIN s : s[k] \notin (t + 1)..(t + 1)
    BY <1>2
  <2> QED
    BY <1>1, <1>2, <2>1, PassesNone
<1>5. \A a \in 0..(t + 1) : a \in Int /\ (a \in 0..t \/ a = t + 1)
  OBVIOUS
<1>6. r.kind = "token_bucket" => TokensKept(r, s, t + 1)
  BY <1>1, <1>3, <1>4, <1>5 DEF TokensKept
<1>7. r.kind = "leaky_bucket" => LeakKept(r, s, t + 1)
  BY <1>1, <1>3, <1>4, <1>5 DEF LeakKept
<1>8. r.kind = "sliding_window" => EntriesKept(r, s, t + 1)
  <2> SUFFICES ASSUME r.kind = "sliding_window" PROVE EntriesKept(r, s, t + 1)
    OBVIOUS
  <2> DEFINE e == r.entries
  <2>1. e \in Seq(Int) /\ Len(e) <= WindowMax /\ \A k \in DOMAIN e : e[k] \in Int /\ e[k] <= t
    BY <1>1, RuleFields, Sizes, Times DEF EntriesKept
  <2>2. ASSUME NEW c \in Int, c >= (t + 1) - WindowTicks PROVE Passes(s, c, t + 1) <= Passes(e, c, t + 1)
    <3>1. \A k \in DOMAIN e : e[k] <= t + 1 /\ e[k] <= t
      BY <2>1
    <3>2. Passes(e, c, t + 1) = Passes(e, c, t)
      BY <1>1, <2>1, <3>1, PassesEnd
    <3>3. c >= t - WindowTicks
      BY <2>2, Sizes
    <3>4. Passes(s, c, t) <= Passes(e, c, t)
      BY <1>1, <3>3 DEF EntriesKept
    <3> QED
      BY <1>3, <3>2, <3>4
  <2>3. \A k \in DOMAIN e : e[k] <= t + 1
    BY <2>1
  <2> QED
    BY <2>1, <2>2, <2>3 DEF EntriesKept
<1>9. r.kind = "fixed_window" => WindowKept(r, s, t + 1)
  <2> SUFFICES ASSUME r.kind = "fixed_window" PROVE WindowKept(r, s, t + 1)
    OBVIOUS
  <2>1. t + 1 >= r.since /\ ~(t + 1 < r.since) /\ 0 <= r.level
    BY <1>1, <1>2
  <2> QED
    BY <1>1, <1>3, <1>4, <1>5, <2>1 DEF WindowKept
<1>10. s \in Seq(0..(t + 1)) /\ r.since <= t + 1
  BY <1>1, <1>2
<1>11. Kept(r, s, t + 1)
  BY <1>6, <1>7, <1>8, <1>9, <1>10 DEF Kept
<1>12. ASSUME NEW a \in 0..(t + 1), NEW b \in a..(t + 1), b < t + 1
       PROVE  Passes(s, a, b) <= Allowance(r.kind, b - a)
  <2>1. a \in 0..t /\ b \in a..t
    BY <1>12
  <2> QED
    BY <1>1, <2>1 DEF RatesOf
<1>13. RatesOf(s, r.kind, t + 1)
  BY <1>1, <1>11, <1>12, RatesUpTo
<1> QED
  BY <1>1, <1>11, <1>13 DEF Sound

-----------------------------------------------------------------------------
(* Requests and consumptions. *)

\* What a bucket or window that is up to date lets through is sound.
LEMMA SoundLetsThrough ==
  ASSUME NEW r, NEW s, ticks \in 0..MaxTicks, Sound(r, s, ticks), Current(r, ticks), NEW v \in LetsThrough(r, 1)
  PROVE  Sound(v, Append(s, ticks), ticks)
<1> DEFINE q == Append(s, ticks)
<1>1. r \in Rule /\ Kept(r, s, ticks) /\ s \in Seq(Int) /\ ticks \in Nat /\ 1 \in Nat /\ ticks \in Int
  BY Times, Sizes DEF Sound, Kept
<1>2. Later(s, q, 1, ticks)
  BY <1>1, AppendLater
<1>3. r.kind \in {"token_bucket", "leaky_bucket", "sliding_window", "fixed_window"} /\ r.level \in Nat
  BY <1>1, RuleFields, LimiterAssumption
<1> HIDE DEF q
<1>4. v \in Rule /\ v.kind = r.kind /\ Kept(v, q, ticks)
  <2>1. CASE r.kind = "token_bucket"
    <3>1. r.level >= 1 /\ v = [r EXCEPT !.level = @ - 1]
      BY <1>3, <2>1 DEF LetsThrough
    <3> QED
      BY <1>1, <1>2, <2>1, <3>1, TokensLeave
  <2>2. CASE r.kind = "leaky_bucket"
    <3>1. r.level < LeakDepth /\ v = [r EXCEPT !.level = @ + 1]
      BY <2>2 DEF LetsThrough
    <3> QED
      BY <1>1, <1>2, <2>2, <3>1, QueueGrows
  <2>3. CASE r.kind = "sliding_window"
    <3>1. Len(r.entries) < WindowMax /\ v = [r EXCEPT !.entries = Append(@, ticks)]
      BY <2>3 DEF LetsThrough
    <3> QED
      BY <1>1, <1>2, <2>3, <3>1, EntryAdded
  <2>4. CASE r.kind = "fixed_window"
    <3>1. r.level < WindowMax /\ v = [r EXCEPT !.level = @ + 1]
      BY <2>4 DEF LetsThrough
    <3> QED
      BY <1>1, <1>2, <2>4, <3>1, WindowCounts
  <2> QED
    BY <1>3, <2>1, <2>2, <2>3, <2>4
<1> QED
  BY <1>1, <1>2, <1>4, SoundLater DEF q

\* So is what it lends of its burst, when it has no token left.
LEMMA SoundBursts ==
  ASSUME NEW r, NEW s, ticks \in 0..MaxTicks, Sound(r, s, ticks), Current(r, ticks),
         LetsThrough(r, 1) = {}, NEW v \in Bursts(r)
  PROVE  Sound(v, Append(s, ticks), ticks)
<1> DEFINE q == Append(s, ticks)
<1>1. r \in Rule /\ Kept(r, s, ticks) /\ s \in Seq(Int) /\ ticks \in Nat /\ 1 \in Nat /\ ticks \in Int
  BY Times, Sizes DEF Sound, Kept
<1>2. Later(s, q, 1, ticks)
  BY <1>1, AppendLater
<1>3. r.kind = "token_bucket" /\ r.level + Burst - r.burst >= 1 /\ v = [r EXCEPT !.burst = @ + 1]
  BY DEF Bursts
<1>4. r.level < 1
  <2>1. ~(r.level >= 1)
    BY <1>3 DEF LetsThrough
  <2> QED
    BY <1>1, <2>1, RuleFields
<1> HIDE DEF q
<1>5. v \in Rule /\ v.kind = r.kind /\ Kept(v, q, ticks)
  BY <1>1, <1>2, <1>3, <1>4, BurstUsed
<1> QED
  BY <1>1, <1>2, <1>5, SoundLater DEF q

\* Letting a request through that the policy accepts keeps the policy sound.
LEMMA SoundPassing ==
  ASSUME LInv, NEW p \in LimitIds, rules[p] # NoRule, NEW v \in Passing(p)
  PROVE  Sound(v, Append(passed[p], ticks), ticks)
<1> DEFINE u == UpToDate(rules[p])
<1>1. ticks \in 0..MaxTicks /\ Sound(rules[p], passed[p], ticks)
  BY DEF LInv, LimiterTypeOK
<1>2. Sound(u, passed[p], ticks) /\ Current(u, ticks)
  BY <1>1, SoundUpToDate
<1>3. IF LetsThrough(u, 1) # {} THEN v \in LetsThrough(u, 1) ELSE v \in Bursts(u)
  BY DEF Passing
<1> HIDE DEF u
<1> QED
  BY <1>1, <1>2, <1>3, SoundLetsThrough, SoundBursts

-----------------------------------------------------------------------------
(* The steps. *)

\* The invariant holds initially.
LEMMA LimiterStarts ==
  ASSUME LimiterInit
  PROVE  LInv
<1>1. rules \in [LimitIds -> Rule \union {NoRule}] /\ passed \in [LimitIds -> Seq(0..MaxTicks)]
  <2>1. <<>> \in Seq(0..MaxTicks)
    OBVIOUS
  <2> QED
    BY <2>1 DEF LimiterInit
<1>2. ticks \in 0..MaxTicks /\ delayed \in 0..DelayQueue
  BY Sizes DEF LimiterInit
<1>3. LimiterTypeOK
  <2>1. limiterUp \in BOOLEAN
    BY DEF LimiterInit
  <2> QED
    BY <1>1, <1>2, <2>1 DEF LimiterInit, LimiterTypeOK
<1> QED
  BY <1>3 DEF LimiterInit, LInv

\* What a change of one policy has to show.
LEMMA OneRule ==
  ASSUME LInv, NEW p \in LimitIds, NEW r, NEW s,
         rules' = [rules EXCEPT ![p] = r], passed' = [passed EXCEPT ![p] = s],
         UNCHANGED <<limiterUp, ticks, delayed, permits>>,
         s \in Seq(0..MaxTicks), r = NoRule \/ Sound(r, s, ticks)
  PROVE  LInv'
<1>1. /\ rules \in [LimitIds -> Rule \union {NoRule}] /\ passed \in [LimitIds -> Seq(0..MaxTicks)]
      /\ limiterUp \in BOOLEAN /\ ticks \in 0..MaxTicks /\ delayed \in 0..DelayQueue
      /\ permits \in Seq([status : {"reserved", "granted", "released", "rolled_back", "expired"},
                          expires : 0..(MaxTicks + PermitTtl)])
  BY DEF LInv, LimiterTypeOK
<1>2. r \in Rule \union {NoRule}
  BY DEF Sound
<1>3. rules' \in [LimitIds -> Rule \union {NoRule}] /\ passed' \in [LimitIds -> Seq(0..MaxTicks)]
  BY <1>1, <1>2
<1>4. LimiterTypeOK'
  BY <1>1, <1>3 DEF LimiterTypeOK
<1>5. ASSUME NEW x \in LimitIds, rules'[x] # NoRule PROVE Sound(rules'[x], passed'[x], ticks)
  <2>1. CASE x = p
    <3>1. rules'[x] = r /\ passed'[x] = s
      BY <1>1, <2>1
    <3> QED
      BY <1>5, <3>1
  <2>2. CASE x # p
    <3>1. rules'[x] = rules[x] /\ passed'[x] = passed[x]
      BY <1>1, <2>2
    <3> QED
      BY <1>5, <3>1 DEF LInv
  <2> QED
    BY <2>1, <2>2
<1>6. ticks' = ticks
  OBVIOUS
<1> QED
  BY <1>4, <1>5, <1>6 DEF LInv

\* create_policy starts a policy with an empty history.
LEMMA SetLimitSound ==
  ASSUME LInv, NEW p \in LimitIds, NEW kind \in LimitKinds, NEW on \in BOOLEAN, SetLimit(p, kind, on)
  PROVE  LInv'
<1> DEFINE r == [kind |-> kind, enabled |-> on, since |-> ticks, burst |-> 0,
                 level |-> IF kind = "token_bucket" THEN Capacity ELSE 0, entries |-> <<>>]
<1>1. ticks \in 0..MaxTicks
  BY DEF LInv, LimiterTypeOK
<1>2. r \in Rule
  <2>1. (IF kind = "token_bucket" THEN Capacity ELSE 0) \in 0..(Capacity + Burst + LeakDepth + WindowMax)
    BY Sizes
  <2>2. 0 \in 0..Burst /\ <<>> \in Seq(0..MaxTicks)
    BY Sizes
  <2> QED
    BY <1>1, <2>1, <2>2 DEF Rule
<1>3. Sound(r, <<>>, ticks)
  <2>1. r.since = ticks /\ r.entries = <<>> /\ r.level = IF r.kind = "token_bucket" THEN Capacity ELSE 0
    OBVIOUS
  <2> HIDE DEF r
  <2> QED
    BY <1>1, <1>2, <2>1, SoundNew
<1>4. rules' = [rules EXCEPT ![p] = r] /\ passed' = [passed EXCEPT ![p] = <<>>]
      /\ UNCHANGED <<limiterUp, ticks, delayed, permits>>
  BY DEF SetLimit
<1>5. <<>> \in Seq(0..MaxTicks)
  OBVIOUS
<1> HIDE DEF r
<1> QED
  BY <1>3, <1>4, <1>5, OneRule

\* delete_policy forgets the policy.
LEMMA DeleteLimitSound ==
  ASSUME LInv, NEW p \in LimitIds, DeleteLimit(p)
  PROVE  LInv'
<1>1. rules' = [rules EXCEPT ![p] = NoRule] /\ passed' = [passed EXCEPT ![p] = <<>>]
      /\ UNCHANGED <<limiterUp, ticks, delayed, permits>>
  BY DEF DeleteLimit
<1>2. <<>> \in Seq(0..MaxTicks)
  OBVIOUS
<1> QED
  BY <1>1, <1>2, OneRule

\* consume brings the policy up to date and takes as many as it was asked
\* for, or none.
LEMMA ConsumeSound ==
  ASSUME LInv, NEW p \in LimitIds, NEW n \in 1..MaxCount, Consume(p, n)
  PROVE  LInv'
<1> DEFINE r == Refill(rules[p])
           v == [r EXCEPT !.level = @ - n]
           s == passed[p]
           q == s \o [k \in 1..n |-> ticks]
<1>1. /\ rules[p] # NoRule /\ rules[p].kind = "token_bucket"
      /\ rules' = [rules EXCEPT ![p] = IF r.level >= n THEN v ELSE r]
      /\ passed' = [passed EXCEPT ![p] = IF r.level >= n THEN @ \o [k \in 1..n |-> ticks] ELSE @]
      /\ UNCHANGED <<limiterUp, ticks, delayed, permits>>
  BY DEF Consume, Enabled
<1>2. /\ ticks \in 0..MaxTicks /\ ticks \in Nat /\ ticks \in Int /\ n \in Nat /\ s \in Seq(0..MaxTicks)
      /\ Sound(rules[p], s, ticks) /\ passed \in [LimitIds -> Seq(0..MaxTicks)]
  <2>1. ticks \in 0..MaxTicks /\ passed \in [LimitIds -> Seq(0..MaxTicks)]
    BY DEF LInv, LimiterTypeOK
  <2>2. s \in Seq(0..MaxTicks)
    BY <2>1
  <2>3. Sound(rules[p], s, ticks)
    BY <1>1 DEF LInv
  <2>4. ticks \in Nat /\ ticks \in Int /\ n \in Nat
    BY <2>1, Sizes
  <2> QED
    BY <2>1, <2>2, <2>3, <2>4
<1>3. passed' = [passed EXCEPT ![p] = IF r.level >= n THEN q ELSE s]
  BY <1>1, <1>2
<1>4. Sound(r, s, ticks) /\ Current(r, ticks) /\ r.kind = "token_bucket"
  <2>1. UpToDate(rules[p]) = r
    BY <1>1 DEF UpToDate
  <2> QED
    BY <1>1, <1>2, <2>1, SoundUpToDate
<1>5. s \in Seq(Int)
  BY <1>2, Sizes
<1>6. Later(s, q, n, ticks)
  BY <1>2, <1>5, ConcatLater
<1>7. q \in Seq(0..MaxTicks)
  <2>1. [k \in 1..n |-> ticks] \in Seq(0..MaxTicks)
    BY <1>2
  <2> QED
    BY <1>2, <2>1
<1> HIDE DEF r, s, q
<1>8. CASE r.level >= n
  <2>1. v \in Rule /\ v.kind = r.kind /\ Kept(v, q, ticks)
    BY <1>2, <1>4, <1>6, <1>8, TokensLeave DEF Sound
  <2> HIDE DEF v
  <2>2. Sound(v, q, ticks)
    BY <1>2, <1>4, <1>6, <2>1, SoundLater
  <2>3. rules' = [rules EXCEPT ![p] = v] /\ passed' = [passed EXCEPT ![p] = q]
    BY <1>1, <1>3, <1>8
  <2> QED
    BY <1>1, <1>7, <2>2, <2>3, OneRule
<1>9. CASE ~(r.level >= n)
  <2>1. rules' = [rules EXCEPT ![p] = r] /\ passed' = [passed EXCEPT ![p] = s]
    BY <1>1, <1>3, <1>9
  <2> QED
    BY <1>1, <1>2, <1>4, <2>1, OneRule
<1> QED
  BY <1>8, <1>9

\* evaluate consumes from the policies before the first that refuses and only
\* brings that one up to date.
LEMMA EvaluateLimitsSound ==
  ASSUME LInv, NEW matching \in SUBSET LimitIds, EvaluateLimits(matching)
  PROVE  LInv'
<1> DEFINE refusing == {k \in DOMAIN Limits : Limits[k] \in matching /\ Passing(Limits[k]) = {}}
           before == {k \in DOMAIN Limits : Limits[k] \in matching /\ \A j \in refusing : k < j}
           decides == {k \in refusing : \A j \in refusing : k <= j}
           Counts(p) == \E k \in before : p = Limits[k]
           Decides(p) == \E k \in decides : p = Limits[k]
<1>1. /\ \A p \in matching : Enabled(p)
      /\ rules' = [p \in LimitIds |-> IF Counts(p) THEN CHOOSE r \in Passing(p) : TRUE
                                      ELSE IF Decides(p) THEN UpToDate(rules[p]) ELSE rules[p]]
      /\ passed' = [p \in LimitIds |-> IF Counts(p) THEN Append(passed[p], ticks) ELSE passed[p]]
      /\ delayed' = (IF \E p \in LimitIds : Decides(p) /\ Queues(p) THEN delayed + 1 ELSE delayed)
      /\ UNCHANGED <<limiterUp, ticks, permits>>
  BY DEF EvaluateLimits
<1>2. /\ rules \in [LimitIds -> Rule \union {NoRule}] /\ passed \in [LimitIds -> Seq(0..MaxTicks)]
      /\ limiterUp \in BOOLEAN /\ ticks \in 0..MaxTicks /\ delayed \in 0..DelayQueue
      /\ permits \in Seq([status : {"reserved", "granted", "released", "rolled_back", "expired"},
                          expires : 0..(MaxTicks + PermitTtl)])
  BY DEF LInv, LimiterTypeOK
<1>3. ASSUME NEW p \in LimitIds, Counts(p) PROVE rules[p] # NoRule /\ Passing(p) # {}
  <2>1. PICK k \in before : p = Limits[k]
    BY <1>3
  <2>2. Limits[k] \in matching /\ k \notin refusing
    <3>1. k \in Int
      BY LimiterAssumption
    <3> QED
      BY <2>1, <3>1
  <2> QED
    BY <1>1, <2>1, <2>2 DEF Enabled
<1>4. ASSUME NEW p \in LimitIds, Decides(p) PROVE rules[p] # NoRule
  <2>1. p \in matching
    BY <1>4
  <2> QED
    BY <1>1, <2>1 DEF Enabled
<1>5. delayed' \in 0..DelayQueue
  BY <1>1, <1>2, Sizes DEF Queues
<1> HIDE DEF Counts, Decides
<1>6. ASSUME NEW p \in LimitIds
      PROVE  /\ rules'[p] \in Rule \union {NoRule} /\ passed'[p] \in Seq(0..MaxTicks)
             /\ rules'[p] # NoRule => Sound(rules'[p], passed'[p], ticks)
  <2>1. CASE Counts(p)
    <3> DEFINE v == CHOOSE r \in Passing(p) : TRUE
    <3>1. v \in Passing(p) /\ rules[p] # NoRule
      BY <1>3, <2>1
    <3>2. rules'[p] = v /\ passed'[p] = Append(passed[p], ticks)
      BY <1>1, <2>1
    <3> HIDE DEF v
    <3>3. Sound(v, Append(passed[p], ticks), ticks)
      BY <3>1, SoundPassing
    <3>4. Append(passed[p], ticks) \in Seq(0..MaxTicks)
      BY <1>2
    <3> QED
      BY <3>2, <3>3, <3>4 DEF Sound
  <2>2. CASE ~Counts(p) /\ Decides(p)
    <3>1. rules'[p] = UpToDate(rules[p]) /\ passed'[p] = passed[p] /\ rules[p] # NoRule
      BY <1>1, <1>4, <2>2
    <3>2. Sound(rules[p], passed[p], ticks)
      BY <3>1 DEF LInv
    <3>3. Sound(UpToDate(rules[p]), passed[p], ticks)
      BY <1>2, <3>2, SoundUpToDate
    <3> QED
      BY <1>2, <3>1, <3>3 DEF Sound
  <2>3. CASE ~Counts(p) /\ ~Decides(p)
    <3>1. rules'[p] = rules[p] /\ passed'[p] = passed[p]
      BY <1>1, <2>3
    <3> QED
      BY <1>2, <3>1 DEF LInv
  <2> QED
    BY <2>1, <2>2, <2>3
<1>7. rules' \in [LimitIds -> Rule \union {NoRule}] /\ passed' \in [LimitIds -> Seq(0..MaxTicks)]
  <2>1. DOMAIN rules' = LimitIds /\ rules' = [p \in LimitIds |-> rules'[p]]
    BY <1>1
  <2>2. passed' = [p \in LimitIds |-> passed'[p]]
    BY <1>1
  <2> QED
    BY <1>6, <2>1, <2>2
<1>8. LimiterTypeOK'
  BY <1>1, <1>2, <1>5, <1>7 DEF LimiterTypeOK
<1>9. ticks' = ticks
  BY <1>1
<1> QED
  BY <1>6, <1>8, <1>9 DEF LInv

\* Time alone lets nothing through.
LEMMA TimePassesSound ==
  ASSUME LInv, TimePasses
  PROVE  LInv'
<1>1. /\ ticks \in Nat /\ ticks' = ticks + 1 /\ ticks' \in 0..MaxTicks /\ rules' = rules /\ passed' = passed
      /\ UNCHANGED <<limiterUp, delayed, permits>>
  BY Sizes DEF LInv, LimiterTypeOK, TimePasses
<1>2. LimiterTypeOK'
  BY <1>1 DEF LInv, LimiterTypeOK
<1>3. ASSUME NEW p \in LimitIds, rules[p] # NoRule PROVE Sound(rules[p], passed[p], ticks + 1)
  BY <1>1, <1>3, SoundTime DEF LInv
<1> QED
  BY <1>1, <1>2, <1>3 DEF LInv

\* The steps that leave the policies alone, or drop all of them.
LEMMA OtherStepsSound ==
  ASSUME LInv, LimiterStart \/ (\E dispose \in BOOLEAN : LimiterStop(dispose)) \/ PermitSteps \/ UNCHANGED limiterVars
  PROVE  LInv'
<1> DEFINE P == [status : {"reserved", "granted", "released", "rolled_back", "expired"},
                 expires : 0..(MaxTicks + PermitTtl)]
<1>1. /\ rules \in [LimitIds -> Rule \union {NoRule}] /\ passed \in [LimitIds -> Seq(0..MaxTicks)]
      /\ limiterUp \in BOOLEAN /\ ticks \in 0..MaxTicks /\ delayed \in 0..DelayQueue
      /\ permits \in Seq(P)
  BY DEF LInv, LimiterTypeOK
<1>2. CASE LimiterStart
  BY <1>2 DEF LInv, LimiterTypeOK, LimiterStart
<1>3. CASE \E dispose \in BOOLEAN : LimiterStop(dispose)
  <2>1. PICK dispose \in BOOLEAN : LimiterStop(dispose)
    BY <1>3
  <2>2. CASE dispose
    <3>1. /\ rules' = [p \in LimitIds |-> NoRule] /\ passed' = [p \in LimitIds |-> <<>>] /\ limiterUp' = FALSE
          /\ UNCHANGED <<ticks, delayed, permits>>
      BY <2>1, <2>2 DEF LimiterStop
    <3>2. rules' \in [LimitIds -> Rule \union {NoRule}] /\ passed' \in [LimitIds -> Seq(0..MaxTicks)]
      <4>1. <<>> \in Seq(0..MaxTicks)
        OBVIOUS
      <4> QED
        BY <3>1, <4>1
    <3>3. LimiterTypeOK'
      BY <1>1, <3>1, <3>2 DEF LimiterTypeOK
    <3> QED
      BY <3>1, <3>3 DEF LInv
  <2>3. CASE ~dispose
    <3>1. rules' = rules /\ passed' = passed /\ limiterUp' = FALSE /\ UNCHANGED <<ticks, delayed, permits>>
      BY <2>1, <2>3 DEF LimiterStop
    <3> QED
      BY <3>1 DEF LInv, LimiterTypeOK
  <2> QED
    BY <2>2, <2>3
<1>4. CASE PermitSteps
  <2>1. UNCHANGED <<limiterUp, ticks, rules, delayed, passed>>
    BY <1>4 DEF PermitSteps, ReservePermit, GrantPermit, ReleasePermit, RollbackPermit, SettlePermit
  <2>2. permits' \in Seq(P)
    <3>1. CASE ReservePermit
      <4>1. [status |-> "reserved", expires |-> ticks + PermitTtl] \in P
        BY <1>1, Sizes
      <4> HIDE DEF P
      <4> QED
        BY <1>1, <3>1, <4>1 DEF ReservePermit
    <3>2. CASE \E i \in DOMAIN permits : GrantPermit(i) \/ ReleasePermit(i) \/ RollbackPermit(i)
      <4>1. PICK i \in DOMAIN permits, to \in {"granted", "released", "rolled_back", "expired"} :
              permits' = [permits EXCEPT ![i].status = to]
        BY <3>2 DEF GrantPermit, ReleasePermit, RollbackPermit, SettlePermit
      <4>2. permits[i] \in P
        <5> HIDE DEF P
        <5> QED
          BY <1>1
      <4>3. [permits[i] EXCEPT !.status = to] \in P
        BY <4>2
      <4> HIDE DEF P
      <4>4. permits' = [permits EXCEPT ![i] = [permits[i] EXCEPT !.status = to]]
        BY <4>1
      <4> QED
        BY <1>1, <4>3, <4>4
    <3> QED
      BY <1>4, <3>1, <3>2 DEF PermitSteps
  <2>3. LimiterTypeOK'
    BY <1>1, <2>1, <2>2 DEF LimiterTypeOK
  <2> QED
    BY <2>1, <2>3 DEF LInv
<1>5. CASE UNCHANGED limiterVars
  BY <1>5 DEF LInv, LimiterTypeOK, limiterVars
<1> QED
  BY <1>2, <1>3, <1>4, <1>5

\* LInv is an invariant.
LEMMA LimitInvariant == LimiterSpec => []LInv
<1>1. LimiterInit => LInv
  BY LimiterStarts
<1>2. LInv /\ [LimiterNext]_limiterVars => LInv'
  <2> SUFFICES ASSUME LInv, [LimiterNext]_limiterVars PROVE LInv'
    OBVIOUS
  <2>1. CASE \E p \in LimitIds : \E kind \in LimitKinds, on \in BOOLEAN : SetLimit(p, kind, on)
    BY <2>1, SetLimitSound
  <2>2. CASE \E p \in LimitIds : DeleteLimit(p)
    BY <2>2, DeleteLimitSound
  <2>3. CASE \E p \in LimitIds : \E n \in 1..MaxCount : Consume(p, n)
    BY <2>3, ConsumeSound
  <2>4. CASE \E matching \in SUBSET LimitIds : EvaluateLimits(matching)
    BY <2>4, EvaluateLimitsSound
  <2>5. CASE TimePasses
    BY <2>5, TimePassesSound
  <2>6. CASE LimiterStart \/ (\E dispose \in BOOLEAN : LimiterStop(dispose)) \/ PermitSteps \/ UNCHANGED limiterVars
    BY <2>6, OtherStepsSound
  <2> QED
    BY <2>1, <2>2, <2>3, <2>4, <2>5, <2>6 DEF LimiterNext, LimitSteps
<1> QED
  BY <1>1, <1>2, PTL DEF LimiterSpec

\* RatesKept is an invariant: for every configuration of the four kinds of
\* limit, and although evaluate and consume bring a bucket or a window up to
\* date only when they are asked, no stretch of time sees a policy let
\* through more than its capacity, burst, rate and window allow.
THEOREM LimiterRatesKept == LimiterSpec => []RatesKept
<1>1. LInv => RatesKept
  BY DEF LInv, Sound, RatesOf, RatesKept
<1> QED
  BY <1>1, LimitInvariant, PTL

\* LimiterTypeOK is an invariant: token counts, queues and windows stay
\* within the configured sizes, and so does the queue of delayed requests.
THEOREM LimiterTyped == LimiterSpec => []LimiterTypeOK
<1>1. LInv => LimiterTypeOK
  BY DEF LInv
<1> QED
  BY <1>1, LimitInvariant, PTL

(***************************************************************************)
(* The budgets                                                             *)
(***************************************************************************)
-----------------------------------------------------------------------------
(* Sums. *)

\* f has the partial sums of the amounts s.
Sums(f, s) ==
  /\ f \in [0..Len(s) -> Nat] /\ f[0] = 0
  /\ \A k \in 1..Len(s) : f[k] = f[k - 1] + s[k]

\* Partial sums exist, and are what Total adds up.
LEMMA SumsExist ==
  ASSUME NEW s \in Seq(Nat)
  PROVE  \E f : Sums(f, s)
<1> DEFINE n == Len(s)
           V == Nat
           z == 0
           G == [k \in 1..n |-> [a \in V |-> a + s[k]]]
<1>1. n \in Nat /\ \A k \in 1..n : s[k] \in Nat
  OBVIOUS
<1>2. G \in [1..n -> [V -> V]]
  BY <1>1
<1>3. PICK f : Course(f, n, V, z, G)
  <2>1. z \in V
    OBVIOUS
  <2> HIDE DEF G, n, V, z
  <2> QED
    BY <1>1, <1>2, <2>1, LoopRuns
<1>4. ASSUME NEW k \in 1..n PROVE f[k] = f[k - 1] + s[k]
  <2>1. k - 1 \in 0..n
    BY <1>1
  <2>2. f[k - 1] \in Nat
    BY <1>3, <2>1 DEF Course
  <2> QED
    BY <1>3, <2>2 DEF Course
<1> QED
  BY <1>3, <1>4 DEF Sums, Course

\* Total is the last of the partial sums.
LEMMA TotalIs ==
  ASSUME NEW s \in Seq(Nat), NEW f, Sums(f, s)
  PROVE  Total(s) = f[Len(s)] /\ Total(s) \in Nat
<1> DEFINE E(g) == [k \in 0..Len(s) |-> IF k = 0 THEN 0 ELSE g[k - 1] + s[k]]
           h == CHOOSE g : g = E(g)
<1>1. Len(s) \in Nat
  OBVIOUS
<1>2. f = E(f)
  <2>1. f \in [0..Len(s) -> Nat]
    BY DEF Sums
  <2>2. ASSUME NEW k \in 0..Len(s) PROVE f[k] = E(f)[k]
    <3>1. CASE k = 0
      BY <3>1 DEF Sums
    <3>2. CASE k # 0
      <4>1. k \in 1..Len(s)
        BY <1>1, <3>2
      <4> QED
        BY <4>1 DEF Sums
    <3> QED
      BY <3>1, <3>2
  <2> QED
    BY <2>1, <2>2
<1>3. h = E(h)
  BY <1>2
<1>4. Total(s) = h[Len(s)]
  BY DEF Total
<1> HIDE DEF h
<1>5. f[Len(s)] = h[Len(s)] /\ f[Len(s)] \in Nat
  <2> DEFINE Same == {k \in Nat : k <= Len(s) => f[k] = h[k]}
  <2>1. 0 \in Same
    <3>1. f[0] = 0 /\ 0 \in 0..Len(s)
      BY <1>1 DEF Sums
    <3>2. h[0] = 0
      BY <1>3, <3>1
    <3> QED
      BY <3>1, <3>2
  <2>2. ASSUME NEW k \in Nat, k \in Same PROVE k + 1 \in Same
    <3>1. CASE k + 1 <= Len(s)
      <4>1. k + 1 \in 1..Len(s) /\ k + 1 \in 0..Len(s) /\ k + 1 # 0 /\ (k + 1) - 1 = k /\ k <= Len(s)
        BY <1>1, <3>1
      <4>2. f[k + 1] = f[k] + s[k + 1]
        BY <4>1 DEF Sums
      <4>3. h[k + 1] = h[k] + s[k + 1]
        BY <1>3, <4>1
      <4> QED
        BY <2>2, <4>1, <4>2, <4>3
    <3>2. CASE ~(k + 1 <= Len(s))
      BY <3>2
    <3> QED
      BY <3>1, <3>2
  <2>3. Nat \subseteq Same
    <3> HIDE DEF Same
    <3> QED
      BY <2>1, <2>2, Induction
  <2>4. f[Len(s)] = h[Len(s)]
    BY <1>1, <2>3
  <2>5. f[Len(s)] \in Nat
    BY <1>1 DEF Sums
  <2> QED
    BY <2>4, <2>5
<1> QED
  BY <1>4, <1>5

\* The total of no amounts, of one more, and after one has changed.
LEMMA TotalEmpty == Total(<<>>) = 0
<1>1. <<>> \in Seq(Nat) /\ Len(<<>>) = 0
  OBVIOUS
<1>2. PICK f : Sums(f, <<>>)
  BY <1>1, SumsExist
<1> QED
  BY <1>1, <1>2, TotalIs DEF Sums

\* One amount more.
LEMMA TotalAppend ==
  ASSUME NEW s \in Seq(Nat), NEW c \in Nat
  PROVE  Total(s) \in Nat /\ Total(Append(s, c)) = Total(s) + c
<1> DEFINE q == Append(s, c)
           n == Len(s)
<1>1. PICK f : Sums(f, s)
  BY SumsExist
<1>2. f \in [0..n -> Nat] /\ f[0] = 0 /\ \A k \in 1..n : f[k] = f[k - 1] + s[k]
  BY <1>1 DEF Sums
<1>3. n \in Nat /\ q \in Seq(Nat) /\ Len(q) = n + 1 /\ q[n + 1] = c /\ \A k \in 1..n : q[k] = s[k]
  OBVIOUS
<1> DEFINE g == [k \in 0..(n + 1) |-> IF k = n + 1 THEN f[n] + c ELSE f[k]]
<1> HIDE DEF n, q
<1>4. f[n] \in Nat /\ \A k \in 0..(n + 1) : k = n + 1 \/ k \in 0..n
  BY <1>2, <1>3
<1>5. g \in [0..(n + 1) -> Nat]
  <2>1. ASSUME NEW k \in 0..(n + 1) PROVE (IF k = n + 1 THEN f[n] + c ELSE f[k]) \in Nat
    BY <1>2, <1>4
  <2> QED
    BY <2>1
<1>6. g[0] = 0 /\ g[n + 1] = f[n] + c
  BY <1>2, <1>3
<1>7. ASSUME NEW k \in 1..(n + 1) PROVE g[k] = g[k - 1] + q[k]
  <2>1. k - 1 \in 0..n /\ k \in 0..(n + 1) /\ k - 1 \in 0..(n + 1) /\ k - 1 # n + 1
    BY <1>3
  <2>2. g[k - 1] = f[k - 1]
    BY <2>1
  <2>3. CASE k = n + 1
    <3>1. k - 1 = n
      BY <1>3, <2>3
    <3> QED
      BY <1>3, <1>6, <2>2, <2>3, <3>1
  <2>4. CASE k # n + 1
    <3>1. k \in 1..n
      BY <1>3, <2>4
    <3>2. g[k] = f[k]
      BY <2>1, <2>4
    <3> QED
      BY <1>2, <1>3, <2>2, <3>1, <3>2
  <2> QED
    BY <2>3, <2>4
<1> HIDE DEF g
<1>8. Sums(g, q)
  BY <1>3, <1>5, <1>6, <1>7 DEF Sums
<1>9. Total(q) = g[n + 1]
  BY <1>3, <1>8, TotalIs
<1>10. Total(s) = f[n] /\ Total(s) \in Nat
  BY <1>1, TotalIs DEF n
<1> QED
  BY <1>6, <1>9, <1>10 DEF q

\* One amount replaced by another.
LEMMA TotalChanged ==
  ASSUME NEW s \in Seq(Nat), NEW q \in Seq(Nat), Len(q) = Len(s), NEW i \in 1..Len(s),
         \A k \in 1..Len(s) : k # i => q[k] = s[k]
  PROVE  Total(s) \in Nat /\ Total(q) \in Nat /\ Total(q) + s[i] = Total(s) + q[i]
<1> DEFINE n == Len(s)
<1>1. PICK f : Sums(f, s)
  BY SumsExist
<1>2. PICK g : Sums(g, q)
  BY SumsExist
<1>3. /\ f \in [0..n -> Nat] /\ f[0] = 0 /\ \A k \in 1..n : f[k] = f[k - 1] + s[k]
      /\ g \in [0..n -> Nat] /\ g[0] = 0 /\ \A k \in 1..n : g[k] = g[k - 1] + q[k]
  BY <1>1, <1>2 DEF Sums
<1>4. n \in Nat /\ i \in 1..n /\ \A k \in 1..n : s[k] \in Nat /\ q[k] \in Nat /\ (k # i => q[k] = s[k])
  OBVIOUS
<1>5. Total(s) = f[n] /\ Total(s) \in Nat /\ Total(q) = g[n] /\ Total(q) \in Nat
  BY <1>1, <1>2, TotalIs
<1> HIDE DEF n
<1> DEFINE P == {k \in Nat : k <= n => IF k < i THEN g[k] = f[k] ELSE g[k] + s[i] = f[k] + q[i]}
<1>6. 0 \in P
  BY <1>3, <1>4
<1>7. ASSUME NEW k \in Nat, k \in P PROVE k + 1 \in P
  <2> SUFFICES ASSUME k + 1 <= n PROVE IF k + 1 < i THEN g[k + 1] = f[k + 1] ELSE g[k + 1] + s[i] = f[k + 1] + q[i]
    OBVIOUS
  <2>1. k + 1 \in 1..n /\ k \in 0..n /\ k + 1 \in 0..n /\ (k + 1) - 1 = k
    BY <1>4
  <2>2. f[k + 1] = f[k] + s[k + 1] /\ g[k + 1] = g[k] + q[k + 1]
    BY <1>3, <2>1
  <2>3. f[k] \in Nat /\ g[k] \in Nat /\ s[k + 1] \in Nat /\ q[k + 1] \in Nat /\ s[i] \in Nat /\ q[i] \in Nat
    BY <1>3, <1>4, <2>1
  <2>4. IF k < i THEN g[k] = f[k] ELSE g[k] + s[i] = f[k] + q[i]
    BY <1>4, <1>7, <2>1
  <2>5. CASE k + 1 < i
    BY <1>4, <2>1, <2>2, <2>4, <2>5
  <2>6. CASE k + 1 = i
    BY <1>4, <2>2, <2>3, <2>4, <2>6
  <2>7. CASE k + 1 > i
    <3>1. q[k + 1] = s[k + 1] /\ ~(k < i)
      BY <1>4, <2>1, <2>7
    <3>2. g[k] + s[i] = f[k] + q[i]
      BY <2>4, <3>1
    <3> DEFINE a == g[k]
               b == f[k]
               c == s[i]
               d == q[i]
               e == s[k + 1]
               x == g[k + 1]
               y == f[k + 1]
    <3>3. /\ a \in Nat /\ b \in Nat /\ c \in Nat /\ d \in Nat /\ e \in Nat
          /\ x = a + e /\ y = b + e /\ a + c = b + d
      BY <2>2, <2>3, <3>1, <3>2
    <3>4. x + c = y + d
      <4> HIDE DEF a, b, c, d, e, x, y
      <4> QED
        BY ONLY <3>3
    <3> QED
      BY <1>4, <2>7, <3>4
  <2> QED
    BY <1>4, <2>5, <2>6, <2>7
<1>8. Nat \subseteq P
  <2> HIDE DEF P
  <2> QED
    BY <1>6, <1>7, Induction
<1>9. g[n] + s[i] = f[n] + q[i]
  BY <1>4, <1>8
<1> QED
  BY <1>5, <1>9

-----------------------------------------------------------------------------
(* Usage and reservations. *)

\* The usage u of the policies agrees with the reservations rs.
Booked(u, rs) ==
  /\ u \in [PolicyIds -> Usage] /\ rs \in Seq(Reservation)
  /\ \A k \in 1..Len(rs) : rs[k].charges <= 1 /\ (rs[k].status = "open" => rs[k].charges = 0)
  /\ \A x \in PolicyIds : /\ u[x].spent = Total(ChargedTo(x, rs))
                          /\ u[x].reserved <= Total(HeldOn(x, rs))

\* The invariant.
BInv == BudgetTypeOK /\ Booked(usage, reservations)

\* The fields of a reservation.
LEMMA ReservationFields ==
  ASSUME NEW r \in Reservation
  PROVE  /\ r.policy \in PolicyIds \union {NoPolicy} /\ r.cost \in Costs /\ r.cost \in Nat
         /\ r.status \in {"open", "committed", "rolled_back", "released"} /\ r.due \in BOOLEAN /\ r.charges \in Nat
  BY BudgetAssumption DEF Reservation

\* The fields of a policy's usage.
LEMMA UsageFields ==
  ASSUME NEW v \in Usage
  PROVE  v.spent \in Nat /\ v.daily \in Nat /\ v.stale \in BOOLEAN /\ v.reserved \in Int
  BY DEF Usage

\* What a reservation holds of its policy.
Held(r) == IF r.status = "open" THEN r.cost ELSE 0

\* What the reservations charge to a policy and hold on it.
LEMMA Amounts ==
  ASSUME NEW rs \in Seq(Reservation), NEW x
  PROVE  /\ ChargedTo(x, rs) \in Seq(Nat) /\ Len(ChargedTo(x, rs)) = Len(rs)
         /\ HeldOn(x, rs) \in Seq(Nat) /\ Len(HeldOn(x, rs)) = Len(rs)
         /\ \A k \in 1..Len(rs) : /\ rs[k] \in Reservation
                                  /\ ChargedTo(x, rs)[k] = IF rs[k].policy = x THEN rs[k].cost * rs[k].charges ELSE 0
                                  /\ HeldOn(x, rs)[k] = IF rs[k].policy = x THEN Held(rs[k]) ELSE 0
<1>1. Len(rs) \in Nat
  OBVIOUS
<1>2. ASSUME NEW k \in 1..Len(rs) PROVE rs[k] \in Reservation /\ rs[k].cost \in Nat /\ rs[k].charges \in Nat
  <2>1. rs[k] \in Reservation
    OBVIOUS
  <2> QED
    BY <2>1, ReservationFields
<1> DEFINE c(k) == IF rs[k].policy = x THEN rs[k].cost * rs[k].charges ELSE 0
           h(k) == IF rs[k].policy = x /\ rs[k].status = "open" THEN rs[k].cost ELSE 0
<1>3. \A k \in 1..Len(rs) : c(k) \in Nat /\ h(k) \in Nat
  <2> SUFFICES ASSUME NEW k \in 1..Len(rs) PROVE c(k) \in Nat /\ h(k) \in Nat
    OBVIOUS
  <2>1. rs[k].cost * rs[k].charges \in Nat
    BY <1>2
  <2> QED
    BY <1>2, <2>1
<1>4. ChargedTo(x, rs) = [k \in 1..Len(rs) |-> c(k)] /\ HeldOn(x, rs) = [k \in 1..Len(rs) |-> h(k)]
  BY DEF ChargedTo, HeldOn
<1>5. \A k \in 1..Len(rs) : h(k) = IF rs[k].policy = x THEN Held(rs[k]) ELSE 0
  BY DEF Held
<1>6. /\ [k \in 1..Len(rs) |-> c(k)] \in Seq(Nat) /\ Len([k \in 1..Len(rs) |-> c(k)]) = Len(rs)
      /\ [k \in 1..Len(rs) |-> h(k)] \in Seq(Nat) /\ Len([k \in 1..Len(rs) |-> h(k)]) = Len(rs)
  <2> HIDE DEF c, h
  <2> QED
    BY <1>1, <1>3
<1> QED
  BY <1>2, <1>4, <1>5, <1>6

\* In q, reservation i of rs became v.
Becomes(rs, q, i, v) ==
  /\ q \in Seq(Reservation) /\ Len(q) = Len(rs) /\ q[i] = v
  /\ \A k \in 1..Len(rs) : k # i => q[k] = rs[k]

\* Replacing one reservation replaces the amounts of that one.
LEMMA ReservationBecomes ==
  ASSUME NEW rs \in Seq(Reservation), NEW i \in 1..Len(rs), NEW v \in Reservation
  PROVE  Becomes(rs, [rs EXCEPT ![i] = v], i, v)
  BY DEF Becomes

\* The totals after it.
LEMMA ReservationChanged ==
  ASSUME NEW rs \in Seq(Reservation), NEW i \in 1..Len(rs), NEW v \in Reservation,
         v.policy = rs[i].policy, v.cost = rs[i].cost, NEW q, Becomes(rs, q, i, v), NEW x
  PROVE  /\ Total(ChargedTo(x, q)) \in Nat /\ Total(ChargedTo(x, rs)) \in Nat
         /\ Total(HeldOn(x, q)) \in Nat /\ Total(HeldOn(x, rs)) \in Nat
         /\ v.policy # x => /\ Total(ChargedTo(x, q)) = Total(ChargedTo(x, rs))
                            /\ Total(HeldOn(x, q)) = Total(HeldOn(x, rs))
         /\ v.policy = x => /\ Total(ChargedTo(x, q)) + v.cost * rs[i].charges = Total(ChargedTo(x, rs)) + v.cost * v.charges
                            /\ Total(HeldOn(x, q)) + Held(rs[i]) = Total(HeldOn(x, rs)) + Held(v)
<1>1. q \in Seq(Reservation) /\ Len(q) = Len(rs) /\ q[i] = v /\ \A k \in 1..Len(rs) : k # i => q[k] = rs[k]
  BY DEF Becomes
<1> DEFINE a == ChargedTo(x, rs)
           b == ChargedTo(x, q)
           c == HeldOn(x, rs)
           d == HeldOn(x, q)
<1>2. /\ a \in Seq(Nat) /\ b \in Seq(Nat) /\ c \in Seq(Nat) /\ d \in Seq(Nat)
      /\ Len(a) = Len(rs) /\ Len(b) = Len(rs) /\ Len(c) = Len(rs) /\ Len(d) = Len(rs)
      /\ \A k \in 1..Len(rs) : k # i => b[k] = a[k] /\ d[k] = c[k]
      /\ a[i] = (IF v.policy = x THEN v.cost * rs[i].charges ELSE 0)
      /\ b[i] = (IF v.policy = x THEN v.cost * v.charges ELSE 0)
      /\ c[i] = (IF v.policy = x THEN Held(rs[i]) ELSE 0)
      /\ d[i] = (IF v.policy = x THEN Held(v) ELSE 0)
  <2>1. /\ a \in Seq(Nat) /\ b \in Seq(Nat) /\ c \in Seq(Nat) /\ d \in Seq(Nat)
        /\ Len(a) = Len(rs) /\ Len(b) = Len(rs) /\ Len(c) = Len(rs) /\ Len(d) = Len(rs)
    BY <1>1, Amounts
  <2>2. \A k \in 1..Len(rs) : /\ a[k] = IF rs[k].policy = x THEN rs[k].cost * rs[k].charges ELSE 0
                              /\ c[k] = IF rs[k].policy = x THEN Held(rs[k]) ELSE 0
    BY Amounts
  <2>3. \A k \in 1..Len(rs) : /\ b[k] = IF q[k].policy = x THEN q[k].cost * q[k].charges ELSE 0
                              /\ d[k] = IF q[k].policy = x THEN Held(q[k]) ELSE 0
    <3>1. \A k \in 1..Len(q) : /\ b[k] = IF q[k].policy = x THEN q[k].cost * q[k].charges ELSE 0
                               /\ d[k] = IF q[k].policy = x THEN Held(q[k]) ELSE 0
      BY <1>1, Amounts
    <3> HIDE DEF b, d
    <3> QED
      BY <1>1, <3>1
  <2> HIDE DEF a, b, c, d
  <2>4. \A k \in 1..Len(rs) : k # i => b[k] = a[k] /\ d[k] = c[k]
    BY <1>1, <2>2, <2>3
  <2> QED
    BY <1>1, <2>1, <2>2, <2>3, <2>4
<1> HIDE DEF a, b, c, d
<1>3. Total(a) \in Nat /\ Total(b) \in Nat /\ Total(b) + a[i] = Total(a) + b[i]
  <2>1. Len(b) = Len(a) /\ i \in 1..Len(a) /\ \A k \in 1..Len(a) : k # i => b[k] = a[k]
    BY <1>2
  <2>2. a \in Seq(Nat) /\ b \in Seq(Nat)
    BY <1>2
  <2> QED
    BY <2>1, <2>2, TotalChanged
<1>4. Total(c) \in Nat /\ Total(d) \in Nat /\ Total(d) + c[i] = Total(c) + d[i]
  <2>1. Len(d) = Len(c) /\ i \in 1..Len(c) /\ \A k \in 1..Len(c) : k # i => d[k] = c[k]
    BY <1>2
  <2>2. c \in Seq(Nat) /\ d \in Seq(Nat)
    BY <1>2
  <2> QED
    BY <2>1, <2>2, TotalChanged
<1>5. v.policy # x => Total(b) = Total(a) /\ Total(d) = Total(c)
  BY <1>2, <1>3, <1>4
<1>6. v.policy = x => /\ Total(b) + v.cost * rs[i].charges = Total(a) + v.cost * v.charges
                      /\ Total(d) + Held(rs[i]) = Total(c) + Held(v)
  BY <1>2, <1>3, <1>4
<1> QED
  BY <1>1, <1>3, <1>4, <1>5, <1>6 DEF a, b, c, d

\* What remove_reservation does to the usage of one policy.
Removes(u, w, p, c) ==
  /\ w \in [PolicyIds -> Usage]
  /\ \A x \in PolicyIds :
       /\ w[x].spent = u[x].spent
       /\ x # p => w[x].reserved = u[x].reserved
       /\ x = p => w[x].reserved = IF u[x].reserved <= 0 THEN u[x].reserved ELSE u[x].reserved - c

\* remove_reservation gives the amount back, unless nothing is held.
LEMMA Removed ==
  ASSUME NEW u \in [PolicyIds -> Usage], NEW p \in PolicyIds \union {NoPolicy}, NEW c \in Nat
  PROVE  Removes(u, RemoveReservation(u, p, c), p, c)
<1> DEFINE w == RemoveReservation(u, p, c)
<1>1. CASE p = NoPolicy \/ u[p].reserved <= 0
  <2>1. w = u
    BY <1>1 DEF RemoveReservation
  <2>2. \A x \in PolicyIds : x = p => p # NoPolicy
    BY BudgetAssumption
  <2> QED
    BY <1>1, <2>1, <2>2 DEF Removes
<1>2. CASE ~(p = NoPolicy \/ u[p].reserved <= 0)
  <2> DEFINE y == [u[p] EXCEPT !.reserved = @ - c]
  <2>1. p \in PolicyIds /\ u[p] \in Usage /\ u[p].reserved \in Int
    BY <1>2, UsageFields
  <2>2. w = [u EXCEPT ![p] = y]
    BY <1>2, <2>1 DEF RemoveReservation
  <2>3. y \in Usage /\ y.spent = u[p].spent /\ y.reserved = u[p].reserved - c
    BY <2>1 DEF Usage
  <2> HIDE DEF y, w
  <2>4. w \in [PolicyIds -> Usage] /\ w[p] = y /\ \A x \in PolicyIds : x # p => w[x] = u[x]
    BY <2>1, <2>2, <2>3
  <2> QED
    BY <1>2, <2>3, <2>4 DEF w, Removes
<1> QED
  BY <1>1, <1>2

\* A reservation ends without spending.
LEMMA EndKeeps ==
  ASSUME NEW u, NEW rs, Booked(u, rs), NEW i \in 1..Len(rs), NEW v \in Reservation,
         v.policy = rs[i].policy, v.cost = rs[i].cost, v.charges = rs[i].charges, v.status # "open"
  PROVE  Booked(RemoveReservation(u, rs[i].policy, rs[i].cost), [rs EXCEPT ![i] = v])
<1> DEFINE w == RemoveReservation(u, rs[i].policy, rs[i].cost)
           q == [rs EXCEPT ![i] = v]
<1>1. u \in [PolicyIds -> Usage] /\ rs \in Seq(Reservation) /\ rs[i] \in Reservation
  BY DEF Booked
<1>2. rs[i].policy \in PolicyIds \union {NoPolicy} /\ rs[i].cost \in Nat /\ v.cost \in Nat /\ rs[i].charges \in Nat
  BY <1>1, ReservationFields
<1>3. /\ w \in [PolicyIds -> Usage]
      /\ \A x \in PolicyIds :
           /\ w[x].spent = u[x].spent
           /\ x # v.policy => w[x].reserved = u[x].reserved
           /\ x = v.policy => w[x].reserved = IF u[x].reserved <= 0 THEN u[x].reserved ELSE u[x].reserved - v.cost
  <2>1. Removes(u, w, v.policy, v.cost)
    BY <1>1, <1>2, Removed
  <2> HIDE DEF w
  <2> QED
    BY <2>1 DEF Removes
<1> HIDE DEF w
<1>4. Becomes(rs, q, i, v)
  BY <1>1, ReservationBecomes
<1> HIDE DEF q
<1>5. \A k \in 1..Len(q) : q[k].charges <= 1 /\ (q[k].status = "open" => q[k].charges = 0)
  BY <1>4 DEF Booked, Becomes
<1>6. ASSUME NEW x \in PolicyIds
      PROVE  w[x].spent = Total(ChargedTo(x, q)) /\ w[x].reserved <= Total(HeldOn(x, q))
  <2>1. /\ Total(ChargedTo(x, q)) \in Nat /\ Total(ChargedTo(x, rs)) \in Nat
        /\ Total(HeldOn(x, q)) \in Nat /\ Total(HeldOn(x, rs)) \in Nat
        /\ v.policy # x => /\ Total(ChargedTo(x, q)) = Total(ChargedTo(x, rs))
                           /\ Total(HeldOn(x, q)) = Total(HeldOn(x, rs))
        /\ v.policy = x => /\ Total(ChargedTo(x, q)) + v.cost * rs[i].charges = Total(ChargedTo(x, rs)) + v.cost * v.charges
                           /\ Total(HeldOn(x, q)) + Held(rs[i]) = Total(HeldOn(x, rs)) + Held(v)
    BY <1>1, <1>4, ReservationChanged
  <2>2. u[x].spent = Total(ChargedTo(x, rs)) /\ u[x].reserved <= Total(HeldOn(x, rs)) /\ u[x].reserved \in Int
    BY <1>1, UsageFields DEF Booked
  <2>3. CASE v.policy # x
    BY <1>3, <2>1, <2>2, <2>3
  <2>4. CASE v.policy = x
    <3>1. v.cost * v.charges = v.cost * rs[i].charges /\ v.cost * v.charges \in Nat
      BY <1>2
    <3>2. Total(ChargedTo(x, q)) = Total(ChargedTo(x, rs))
      BY <2>1, <2>4, <3>1
    <3>3. Held(v) = 0 /\ Held(rs[i]) \in Nat /\ Held(rs[i]) <= v.cost
      BY <1>2 DEF Held
    <3>4. Total(HeldOn(x, q)) + Held(rs[i]) = Total(HeldOn(x, rs))
      BY <2>1, <2>4, <3>3
    <3>5. w[x].reserved <= Total(HeldOn(x, q))
      <4>1. CASE u[x].reserved <= 0
        BY <1>3, <2>1, <2>2, <2>4, <4>1
      <4>2. CASE ~(u[x].reserved <= 0)
        <5>1. w[x].reserved = u[x].reserved - v.cost
          BY <1>3, <2>4, <4>2
        <5> QED
          BY SMTT(30), <1>2, <2>1, <2>2, <3>3, <3>4, <5>1
      <4> QED
        BY <4>1, <4>2
    <3> QED
      BY <1>3, <2>2, <3>2, <3>5
  <2> QED
    BY <2>3, <2>4
<1> QED
  BY <1>3, <1>4, <1>5, <1>6 DEF Booked, Becomes, w, q

\* A reservation changes in nothing that counts.
LEMMA SameKeeps ==
  ASSUME NEW u, NEW rs, Booked(u, rs), NEW i \in 1..Len(rs), NEW v \in Reservation,
         v.policy = rs[i].policy, v.cost = rs[i].cost, v.charges = rs[i].charges, v.status = rs[i].status
  PROVE  Booked(u, [rs EXCEPT ![i] = v])
<1> DEFINE q == [rs EXCEPT ![i] = v]
<1>1. u \in [PolicyIds -> Usage] /\ rs \in Seq(Reservation) /\ rs[i] \in Reservation
  BY DEF Booked
<1>2. v.cost \in Nat /\ v.charges \in Nat
  BY ReservationFields
<1>3. Becomes(rs, q, i, v)
  BY <1>1, ReservationBecomes
<1> HIDE DEF q
<1>4. \A k \in 1..Len(q) : q[k].charges <= 1 /\ (q[k].status = "open" => q[k].charges = 0)
  BY <1>3 DEF Booked, Becomes
<1>5. ASSUME NEW x \in PolicyIds
      PROVE  u[x].spent = Total(ChargedTo(x, q)) /\ u[x].reserved <= Total(HeldOn(x, q))
  <2>1. /\ Total(ChargedTo(x, q)) \in Nat /\ Total(ChargedTo(x, rs)) \in Nat
        /\ Total(HeldOn(x, q)) \in Nat /\ Total(HeldOn(x, rs)) \in Nat
        /\ v.policy # x => /\ Total(ChargedTo(x, q)) = Total(ChargedTo(x, rs))
                           /\ Total(HeldOn(x, q)) = Total(HeldOn(x, rs))
        /\ v.policy = x => /\ Total(ChargedTo(x, q)) + v.cost * rs[i].charges = Total(ChargedTo(x, rs)) + v.cost * v.charges
                           /\ Total(HeldOn(x, q)) + Held(rs[i]) = Total(HeldOn(x, rs)) + Held(v)
    BY <1>1, <1>3, ReservationChanged
  <2>2. v.cost * v.charges = v.cost * rs[i].charges /\ v.cost * v.charges \in Nat
    BY <1>2
  <2>3. Held(v) = Held(rs[i]) /\ Held(v) \in Nat
    BY <1>2 DEF Held
  <2>4. Total(ChargedTo(x, q)) = Total(ChargedTo(x, rs)) /\ Total(HeldOn(x, q)) = Total(HeldOn(x, rs))
    BY <2>1, <2>2, <2>3
  <2> QED
    BY <2>4 DEF Booked
<1> QED
  BY <1>1, <1>3, <1>4, <1>5 DEF Booked, Becomes, q

\* What record_spend does to the usage of one policy.
Spends(u, w, p, c) ==
  /\ w \in [PolicyIds -> Usage]
  /\ \A x \in PolicyIds : /\ w[x].reserved = u[x].reserved
                          /\ x # p => w[x].spent = u[x].spent
                          /\ x = p => w[x].spent = u[x].spent + c

\* record_spend charges the policy of the reservation and no other.
LEMMA Spent ==
  ASSUME NEW u \in [PolicyIds -> Usage], NEW p \in PolicyIds \union {NoPolicy}, NEW c \in Nat
  PROVE  Spends(u, RecordSpend(u, p, c), p, c)
<1> DEFINE w == RecordSpend(u, p, c)
<1>1. CASE p = NoPolicy
  <2>1. w = u
    BY <1>1 DEF RecordSpend
  <2>2. \A x \in PolicyIds : x # p
    BY <1>1, BudgetAssumption
  <2> QED
    BY <2>1, <2>2 DEF Spends
<1>2. CASE p # NoPolicy
  <2> DEFINE d == IF u[p].stale THEN c ELSE u[p].daily + c
             y == [u[p] EXCEPT !.spent = @ + c, !.daily = d, !.stale = FALSE]
  <2>1. p \in PolicyIds /\ u[p] \in Usage /\ u[p].spent \in Nat /\ u[p].daily \in Nat
    BY <1>2, UsageFields
  <2>2. w = [u EXCEPT ![p] = y]
    BY <1>2, <2>1 DEF RecordSpend
  <2>3. d \in Nat /\ u[p].spent + c \in Nat
    BY <2>1
  <2> HIDE DEF d
  <2>4. y \in Usage /\ y.spent = u[p].spent + c /\ y.reserved = u[p].reserved
    BY <2>1, <2>3 DEF Usage
  <2> HIDE DEF y, w
  <2>5. w \in [PolicyIds -> Usage] /\ w[p] = y /\ \A x \in PolicyIds : x # p => w[x] = u[x]
    BY <2>1, <2>2, <2>4
  <2> QED
    BY <2>4, <2>5 DEF Spends, w
<1> QED
  BY <1>1, <1>2

\* An open reservation is committed.
LEMMA CommitKeeps ==
  ASSUME NEW u, NEW rs, Booked(u, rs), NEW i \in 1..Len(rs), NEW v \in Reservation, rs[i].status = "open",
         v.policy = rs[i].policy, v.cost = rs[i].cost, v.charges = rs[i].charges + 1, v.status # "open"
  PROVE  Booked(RecordSpend(RemoveReservation(u, rs[i].policy, rs[i].cost), rs[i].policy, rs[i].cost),
                [rs EXCEPT ![i] = v])
<1> DEFINE w == RemoveReservation(u, rs[i].policy, rs[i].cost)
           z == RecordSpend(w, rs[i].policy, rs[i].cost)
           q == [rs EXCEPT ![i] = v]
<1>1. u \in [PolicyIds -> Usage] /\ rs \in Seq(Reservation) /\ rs[i] \in Reservation
  BY DEF Booked
<1>2. /\ rs[i].policy \in PolicyIds \union {NoPolicy} /\ rs[i].cost \in Nat /\ v.cost \in Nat
      /\ rs[i].charges = 0 /\ v.charges = 1
  BY <1>1, ReservationFields DEF Booked
<1>3. Removes(u, w, v.policy, v.cost) /\ w \in [PolicyIds -> Usage]
  <2>1. Removes(u, w, v.policy, v.cost)
    BY <1>1, <1>2, Removed
  <2> HIDE DEF w
  <2> QED
    BY <2>1 DEF Removes
<1>4. Spends(w, z, v.policy, v.cost)
  <2> HIDE DEF w
  <2> QED
    BY <1>2, <1>3, Spent
<1> HIDE DEF w, z
<1>5. Becomes(rs, q, i, v)
  BY <1>1, ReservationBecomes
<1> HIDE DEF q
<1>6. \A k \in 1..Len(q) : q[k].charges <= 1 /\ (q[k].status = "open" => q[k].charges = 0)
  BY <1>2, <1>5 DEF Booked, Becomes
<1>7. ASSUME NEW x \in PolicyIds
      PROVE  z[x].spent = Total(ChargedTo(x, q)) /\ z[x].reserved <= Total(HeldOn(x, q))
  <2>1. /\ Total(ChargedTo(x, q)) \in Nat /\ Total(ChargedTo(x, rs)) \in Nat
        /\ Total(HeldOn(x, q)) \in Nat /\ Total(HeldOn(x, rs)) \in Nat
        /\ v.policy # x => /\ Total(ChargedTo(x, q)) = Total(ChargedTo(x, rs))
                           /\ Total(HeldOn(x, q)) = Total(HeldOn(x, rs))
        /\ v.policy = x => /\ Total(ChargedTo(x, q)) + v.cost * rs[i].charges = Total(ChargedTo(x, rs)) + v.cost * v.charges
                           /\ Total(HeldOn(x, q)) + Held(rs[i]) = Total(HeldOn(x, rs)) + Held(v)
    BY <1>1, <1>5, ReservationChanged
  <2>2. u[x].spent = Total(ChargedTo(x, rs)) /\ u[x].reserved <= Total(HeldOn(x, rs)) /\ u[x].reserved \in Int
    BY <1>1, UsageFields DEF Booked
  <2>3. /\ w[x].spent = u[x].spent /\ z[x].reserved = w[x].reserved
        /\ x # v.policy => w[x].reserved = u[x].reserved /\ z[x].spent = w[x].spent
        /\ x = v.policy => /\ z[x].spent = w[x].spent + v.cost
                           /\ w[x].reserved = IF u[x].reserved <= 0 THEN u[x].reserved ELSE u[x].reserved - v.cost
    BY <1>3, <1>4 DEF Removes, Spends
  <2>4. CASE v.policy # x
    BY <2>1, <2>2, <2>3, <2>4
  <2>5. CASE v.policy = x
    <3>1. v.cost * v.charges = v.cost /\ v.cost * rs[i].charges = 0
      BY <1>2
    <3>2. Held(v) = 0 /\ Held(rs[i]) = v.cost
      BY DEF Held
    <3>3. Total(ChargedTo(x, q)) = Total(ChargedTo(x, rs)) + v.cost /\ Total(HeldOn(x, q)) + v.cost = Total(HeldOn(x, rs))
      BY <1>2, <2>1, <2>5, <3>1, <3>2
    <3> QED
      BY <1>2, <2>1, <2>2, <2>3, <2>5, <3>3
  <2> QED
    BY <2>4, <2>5
<1> QED
  BY <1>4, <1>5, <1>6, <1>7 DEF Booked, Becomes, Spends, w, z, q

\* What add_reservation does to the usage of one policy.
Adds(u, w, p, c) ==
  /\ w \in [PolicyIds -> Usage]
  /\ \A x \in PolicyIds : /\ w[x].spent = u[x].spent
                          /\ x # p => w[x].reserved = u[x].reserved
                          /\ x = p => w[x].reserved = u[x].reserved + c

\* add_reservation holds the amount on the policy and no other.
LEMMA Added ==
  ASSUME NEW u \in [PolicyIds -> Usage], NEW p \in PolicyIds \union {NoPolicy}, NEW c \in Nat
  PROVE  Adds(u, AddReservation(u, p, c), p, c)
<1> DEFINE w == AddReservation(u, p, c)
<1>1. CASE p = NoPolicy
  <2>1. w = u
    BY <1>1 DEF AddReservation
  <2>2. \A x \in PolicyIds : x # p
    BY <1>1, BudgetAssumption
  <2> QED
    BY <2>1, <2>2 DEF Adds
<1>2. CASE p # NoPolicy
  <2> DEFINE y == [u[p] EXCEPT !.reserved = @ + c]
  <2>1. p \in PolicyIds /\ u[p] \in Usage /\ u[p].reserved \in Int
    BY <1>2, UsageFields
  <2>2. w = [u EXCEPT ![p] = y]
    BY <1>2, <2>1 DEF AddReservation
  <2>3. y \in Usage /\ y.spent = u[p].spent /\ y.reserved = u[p].reserved + c
    BY <2>1 DEF Usage
  <2> HIDE DEF y, w
  <2>4. w \in [PolicyIds -> Usage] /\ w[p] = y /\ \A x \in PolicyIds : x # p => w[x] = u[x]
    BY <2>1, <2>2, <2>3
  <2> QED
    BY <2>3, <2>4 DEF Adds, w
<1> QED
  BY <1>1, <1>2

\* A reservation starts open and uncharged.
LEMMA NewReservationFields ==
  ASSUME NEW p \in PolicyIds \union {NoPolicy}, NEW c \in Costs
  PROVE  LET r == NewReservation(p, c) IN
         r \in Reservation /\ r.policy = p /\ r.cost = c /\ r.status = "open" /\ r.charges = 0
  BY DEF NewReservation, Reservation

\* A reservation is made.
LEMMA AddKeeps ==
  ASSUME NEW u, NEW rs, Booked(u, rs), NEW p \in PolicyIds \union {NoPolicy}, NEW c \in Costs
  PROVE  Booked(AddReservation(u, p, c), Append(rs, NewReservation(p, c)))
<1> DEFINE w == AddReservation(u, p, c)
           r == NewReservation(p, c)
           q == Append(rs, r)
<1>1. u \in [PolicyIds -> Usage] /\ rs \in Seq(Reservation) /\ c \in Nat /\ Len(rs) \in Nat
  BY BudgetAssumption DEF Booked
<1>2. Adds(u, w, p, c)
  BY <1>1, Added
<1>3. r \in Reservation /\ r.policy = p /\ r.cost = c /\ r.status = "open" /\ r.charges = 0
  BY NewReservationFields
<1> HIDE DEF w, r
<1>4. /\ q \in Seq(Reservation) /\ Len(q) = Len(rs) + 1 /\ q[Len(rs) + 1] = r
      /\ \A k \in 1..Len(rs) : q[k] = rs[k]
  BY <1>1, <1>3
<1> HIDE DEF q
<1>5. \A k \in 1..Len(q) : k \in 1..Len(rs) \/ k = Len(rs) + 1
  BY <1>1, <1>4
<1>6. \A k \in 1..Len(q) : q[k].charges <= 1 /\ (q[k].status = "open" => q[k].charges = 0)
  BY <1>3, <1>4, <1>5 DEF Booked
<1>7. ASSUME NEW x \in PolicyIds
      PROVE  w[x].spent = Total(ChargedTo(x, q)) /\ w[x].reserved <= Total(HeldOn(x, q))
  <2> DEFINE h == IF p = x THEN c ELSE 0
  <2>1. Total(ChargedTo(x, q)) = Total(ChargedTo(x, rs)) /\ Total(ChargedTo(x, rs)) \in Nat
    <3> DEFINE a == ChargedTo(x, rs)
               b == ChargedTo(x, q)
    <3>1. a \in Seq(Nat) /\ b \in Seq(Nat) /\ Len(a) = Len(rs) /\ Len(b) = Len(rs) + 1
      BY <1>1, <1>4, Amounts
    <3>2. \A k \in 1..Len(rs) : a[k] = IF rs[k].policy = x THEN rs[k].cost * rs[k].charges ELSE 0
      BY <1>1, Amounts
    <3>3. \A k \in 1..Len(q) : b[k] = IF q[k].policy = x THEN q[k].cost * q[k].charges ELSE 0
      BY <1>4, Amounts
    <3> HIDE DEF a, b
    <3>4. \A k \in 1..Len(rs) : k \in 1..Len(q) /\ b[k] = a[k]
      BY SMTT(30), <1>1, <1>4, <3>2, <3>3
    <3>5. b[Len(rs) + 1] = 0
      <4>1. Len(rs) + 1 \in 1..Len(q)
        BY <1>1, <1>4
      <4> QED
        BY <1>1, <1>3, <1>4, <3>3, <4>1
    <3>6. b = Append(a, 0)
      BY <1>1, <3>1, <3>4, <3>5
    <3>7. Total(Append(a, 0)) = Total(a) + 0 /\ Total(a) \in Nat
      BY <3>1, TotalAppend
    <3> QED
      BY <3>6, <3>7 DEF a, b
  <2>2. Total(HeldOn(x, q)) = Total(HeldOn(x, rs)) + h /\ Total(HeldOn(x, rs)) \in Nat /\ h \in Nat
    <3> DEFINE a == HeldOn(x, rs)
               b == HeldOn(x, q)
    <3>1. a \in Seq(Nat) /\ b \in Seq(Nat) /\ Len(a) = Len(rs) /\ Len(b) = Len(rs) + 1
      BY <1>1, <1>4, Amounts
    <3>2. \A k \in 1..Len(rs) : a[k] = IF rs[k].policy = x THEN Held(rs[k]) ELSE 0
      BY <1>1, Amounts
    <3>3. \A k \in 1..Len(q) : b[k] = IF q[k].policy = x THEN Held(q[k]) ELSE 0
      BY <1>4, Amounts
    <3> HIDE DEF a, b
    <3>4. \A k \in 1..Len(rs) : k \in 1..Len(q) /\ b[k] = a[k]
      BY <1>1, <1>4, <3>2, <3>3
    <3>5. b[Len(rs) + 1] = h
      <4>1. Len(rs) + 1 \in 1..Len(q)
        BY <1>1, <1>4
      <4>2. Held(r) = c
        BY <1>3 DEF Held
      <4> QED
        BY <1>3, <1>4, <3>3, <4>1, <4>2
    <3>6. h \in Nat
      BY <1>1
    <3> HIDE DEF h
    <3>7. b = Append(a, h)
      BY <1>1, <3>1, <3>4, <3>5, <3>6
    <3>8. Total(Append(a, h)) = Total(a) + h /\ Total(a) \in Nat
      BY <3>1, <3>6, TotalAppend
    <3> QED
      BY <3>6, <3>7, <3>8 DEF a, b
  <2>3. u[x].spent = Total(ChargedTo(x, rs)) /\ u[x].reserved <= Total(HeldOn(x, rs)) /\ u[x].reserved \in Int
    BY <1>1, UsageFields DEF Booked
  <2>4. w[x].spent = u[x].spent /\ w[x].reserved = u[x].reserved + h
    BY <1>2, <2>3 DEF Adds
  <2> HIDE DEF h
  <2> QED
    BY <2>1, <2>2, <2>3, <2>4
<1> QED
  BY <1>2, <1>4, <1>6, <1>7 DEF Booked, Adds, w, q, r

-----------------------------------------------------------------------------
(* Cleaning up and booking. *)

\* Reservation r after a cleanup.
CleanedOne(r) == IF Expired(r) THEN [r EXCEPT !.status = "released", !.due = FALSE] ELSE r

\* _cleanup_expired_reservations_locked closes what has expired and nothing else.
LEMMA CleanedFields ==
  ASSUME NEW r \in Reservation
  PROVE  LET v == CleanedOne(r) IN
         /\ v \in Reservation /\ v.policy = r.policy /\ v.cost = r.cost /\ v.charges = r.charges
         /\ Expired(r) => v.status # "open"
         /\ ~Expired(r) => v = r
  BY DEF CleanedOne, Expired, Reservation

\* A cleanup keeps usage and reservations in agreement: so does each of its
\* rounds, with the reservations before it cleaned up.
LEMMA CleanKeeps ==
  ASSUME Booked(usage, reservations)
  PROVE  Booked(CleanUsage, CleanReservations)
<1> DEFINE rs == reservations
           n == Len(rs)
           V == [PolicyIds -> Usage]
           p(k) == rs[k].policy
           c(k) == rs[k].cost
           G == [k \in 1..n |-> [u \in V |-> IF Expired(rs[k]) THEN RemoveReservation(u, p(k), c(k)) ELSE u]]
           E(f) == [k \in 0..n |-> IF k = 0 THEN usage
                                   ELSE IF Expired(rs[k]) THEN RemoveReservation(f[k - 1], p(k), c(k)) ELSE f[k - 1]]
           h == CHOOSE f : f = E(f)
           R(j) == [k \in 1..n |-> IF k <= j THEN CleanedOne(rs[k]) ELSE rs[k]]
<1>1. usage \in V /\ rs \in Seq(Reservation) /\ n \in Nat /\ \A k \in 1..n : rs[k] \in Reservation
  BY DEF Booked
<1>2. ASSUME NEW k \in 1..n PROVE p(k) \in PolicyIds \union {NoPolicy} /\ c(k) \in Nat
  BY <1>1, ReservationFields
<1>3. G \in [1..n -> [V -> V]]
  <2>1. ASSUME NEW k \in 1..n, NEW u \in V PROVE (IF Expired(rs[k]) THEN RemoveReservation(u, p(k), c(k)) ELSE u) \in V
    <3>1. Removes(u, RemoveReservation(u, p(k), c(k)), p(k), c(k))
      BY <1>2, Removed
    <3> QED
      BY <3>1 DEF Removes
  <2> HIDE DEF V, n, rs, p, c
  <2> QED
    BY <2>1
<1>4. PICK f : Course(f, n, V, usage, G)
  <2> HIDE DEF V, n, G
  <2> QED
    BY <1>1, <1>3, LoopRuns
<1>5. f = E(f)
  <2>1. f \in [0..n -> V] /\ f[0] = usage /\ \A k \in 1..n : f[k] = G[k][f[k - 1]]
    BY <1>4 DEF Course
  <2>2. ASSUME NEW k \in 0..n PROVE f[k] = IF k = 0 THEN usage
                                   ELSE IF Expired(rs[k]) THEN RemoveReservation(f[k - 1], p(k), c(k)) ELSE f[k - 1]
    <3>1. CASE k = 0
      BY <2>1, <3>1
    <3>2. CASE k # 0
      <4>1. k \in 1..n /\ k - 1 \in 0..n
        BY <1>1, <3>2
      <4>2. f[k - 1] \in V
        BY <2>1, <4>1
      <4> HIDE DEF V, n, rs, p, c
      <4> QED
        BY <2>1, <3>2, <4>1, <4>2
    <3> QED
      BY <3>1, <3>2
  <2> HIDE DEF V, n, rs, p, c
  <2> QED
    BY <2>1, <2>2
<1>6. h = E(h)
  BY <1>5
<1>7. CleanUsage = h[n]
  BY DEF CleanUsage
<1> HIDE DEF h
<1>8. h[0] = usage /\ \A k \in 1..n : h[k] = IF Expired(rs[k]) THEN RemoveReservation(h[k - 1], p(k), c(k)) ELSE h[k - 1]
  <2>1. 0 \in 0..n /\ \A k \in 1..n : k \in 0..n /\ k # 0
    BY <1>1
  <2> HIDE DEF n, rs, p, c
  <2> QED
    BY <1>6, <2>1
<1> DEFINE P == {k \in Nat : k <= n => Booked(h[k], R(k))}
<1>9. 0 \in P
  <2>1. R(0) = rs
    <3>1. R(0) = [k \in 1..n |-> rs[k]]
      BY <1>1
    <3> QED
      BY <1>1, <3>1
  <2> HIDE DEF R
  <2> QED
    BY <1>8, <2>1
<1>10. ASSUME NEW j \in Nat, j \in P PROVE j + 1 \in P
  <2> SUFFICES ASSUME j + 1 <= n PROVE Booked(h[j + 1], R(j + 1))
    OBVIOUS
  <2> DEFINE i == j + 1
             v == CleanedOne(rs[i])
  <2>1. i \in 1..n /\ i - 1 = j /\ j <= n
    BY <1>1
  <2>2. Booked(h[j], R(j))
    BY <1>10, <2>1
  <2>3. R(j) \in Seq(Reservation) /\ Len(R(j)) = n
    <3>1. R(j) \in Seq(Reservation)
      BY <2>2 DEF Booked
    <3>2. Len([k \in 1..n |-> IF k <= j THEN CleanedOne(rs[k]) ELSE rs[k]]) = n
      BY <1>1
    <3> QED
      BY <3>1, <3>2
  <2>4. R(j)[i] = rs[i]
    BY <1>1, <2>1
  <2>5. /\ v \in Reservation /\ v.policy = rs[i].policy /\ v.cost = rs[i].cost /\ v.charges = rs[i].charges
        /\ Expired(rs[i]) => v.status # "open"
        /\ ~Expired(rs[i]) => v = rs[i]
    <3>1. rs[i] \in Reservation
      BY <1>1, <2>1
    <3> QED
      BY <3>1, CleanedFields
  <2>6. R(i) = [R(j) EXCEPT ![i] = v]
    <3>1. \A k \in 1..n : k <= i <=> (k <= j \/ k = i)
      BY <1>1, <2>1
    <3>2. \A k \in 1..n : R(i)[k] = [R(j) EXCEPT ![i] = v][k]
      <4> HIDE DEF v, rs, n
      <4> QED
        BY <3>1, <2>1, <2>4 DEF v
    <3> QED
      BY <3>2
  <2>7. h[i] = IF Expired(rs[i]) THEN RemoveReservation(h[j], rs[i].policy, rs[i].cost) ELSE h[j]
    BY <1>8, <2>1
  <2> DEFINE q == R(j)
  <2>8. q \in Seq(Reservation) /\ Len(q) = n /\ q[i] = rs[i] /\ R(i) = [q EXCEPT ![i] = v] /\ Booked(h[j], q)
    BY <2>2, <2>3, <2>4, <2>6
  <2> HIDE DEF R, v, q, n, rs, i
  <2>9. CASE Expired(rs[i])
    <3>1. h[i] = RemoveReservation(h[j], q[i].policy, q[i].cost)
      BY <2>7, <2>8, <2>9
    <3>2. Booked(RemoveReservation(h[j], q[i].policy, q[i].cost), [q EXCEPT ![i] = v])
      BY <2>1, <2>5, <2>8, <2>9, EndKeeps
    <3> QED
      BY <2>8, <3>1, <3>2 DEF i
  <2>10. CASE ~Expired(rs[i])
    <3>1. [q EXCEPT ![i] = v] = q
      BY <2>1, <2>5, <2>8, <2>10
    <3> QED
      BY <2>7, <2>8, <2>10, <3>1 DEF i
  <2> QED
    BY <2>9, <2>10
<1>11. Nat \subseteq P
  <2> HIDE DEF P
  <2> QED
    BY <1>9, <1>10, Induction
<1>12. Booked(h[n], R(n))
  <2>1. n <= n
    BY <1>1
  <2> HIDE DEF R
  <2> QED
    BY <1>1, <1>11, <2>1
<1>13. R(n) = CleanReservations
  <2>1. \A k \in 1..n : k <= n
    BY <1>1
  <2> QED
    BY <2>1 DEF CleanReservations, CleanedOne
<1> QED
  BY <1>7, <1>12, <1>13

\* The policy that reservations are booked on is a policy, or none.
LEMMA EffectiveType ==
  ASSUME policies \subseteq PolicyIds
  PROVE  EffectivePolicy \in PolicyIds \union {NoPolicy}
<1>1. CASE policies = {}
  BY <1>1 DEF EffectivePolicy
<1>2. CASE policies # {}
  <2> DEFINE n == Len(Policies)
             S == {k \in 1..n : Policies[k] \in policies}
  <2>1. n \in Nat /\ S \in SUBSET (0..n)
    BY BudgetAssumption
  <2>2. S # {}
    BY <1>2 DEF PolicyIds
  <2>3. \E x \in S : \A y \in S : x >= y
    <3> HIDE DEF S, n
    <3> QED
      BY <2>1, <2>2, Greatest
  <2>4. Max(S) \in S
    <3> HIDE DEF S
    <3> QED
      BY <2>3 DEF Max
  <2>5. Policies[Max(S)] \in policies
    BY <2>4
  <2>6. EffectivePolicy = Policies[Max(S)]
    BY <1>2 DEF EffectivePolicy
  <2> QED
    BY <2>5, <2>6
<1> QED
  BY <1>1, <1>2

\* Evaluating candidates keeps usage and reservations in agreement.
LEMMA EvaluateKeeps ==
  ASSUME Booked(usage, reservations), policies \subseteq PolicyIds, NEW costs \in Seq(Costs), Evaluate(costs)
  PROVE  Booked(usage', reservations')
<1> DEFINE x == EffectivePolicy
           n == Len(costs)
           V == [usage : [PolicyIds -> Usage], reservations : Seq(Reservation)]
           a == [usage |-> CleanUsage, reservations |-> CleanReservations]
           N(b, c) == [usage |-> AddReservation(b.usage, x, c),
                       reservations |-> Append(b.reservations, NewReservation(x, c))]
           G == [k \in 1..n |-> [b \in V |-> IF Approves(costs[k]) THEN N(b, costs[k]) ELSE b]]
           E(f) == [k \in 0..n |-> IF k = 0 THEN a ELSE IF Approves(costs[k]) THEN N(f[k - 1], costs[k]) ELSE f[k - 1]]
           h == CHOOSE f : f = E(f)
<1>1. x \in PolicyIds \union {NoPolicy} /\ n \in Nat /\ \A k \in 1..n : costs[k] \in Costs
  BY EffectiveType
<1>2. Booked(a.usage, a.reservations)
  BY CleanKeeps
<1>3. a \in V
  BY <1>2 DEF Booked
<1> HIDE DEF a, x
<1>4. ASSUME NEW b \in V, NEW c \in Costs PROVE N(b, c) \in V
  <2>1. b.usage \in [PolicyIds -> Usage] /\ b.reservations \in Seq(Reservation) /\ c \in Nat
    BY BudgetAssumption
  <2>2. Adds(b.usage, AddReservation(b.usage, x, c), x, c)
    BY <1>1, <2>1, Added
  <2>3. AddReservation(b.usage, x, c) \in [PolicyIds -> Usage]
    BY <2>2 DEF Adds
  <2>4. NewReservation(x, c) \in Reservation
    BY <1>1, NewReservationFields
  <2>5. Append(b.reservations, NewReservation(x, c)) \in Seq(Reservation)
    BY <2>1, <2>4
  <2> QED
    BY <2>3, <2>5
<1>5. h = E(h) /\ usage' = h[n].usage /\ reservations' = h[n].reservations
  <2>1. G \in [1..n -> [V -> V]]
    <3> HIDE DEF V, N, n
    <3> QED
      BY <1>1, <1>4
  <2>2. PICK f : Course(f, n, V, a, G)
    <3> HIDE DEF V, n, G
    <3> QED
      BY <1>1, <1>3, <2>1, LoopRuns
  <2>3. f \in [0..n -> V] /\ f[0] = a /\ \A k \in 1..n : f[k] = G[k][f[k - 1]]
    BY <2>2 DEF Course
  <2>4. ASSUME NEW k \in 0..n
        PROVE  f[k] = IF k = 0 THEN a ELSE IF Approves(costs[k]) THEN N(f[k - 1], costs[k]) ELSE f[k - 1]
    <3>1. CASE k = 0
      BY <2>3, <3>1
    <3>2. CASE k # 0
      <4>1. k \in 1..n /\ k - 1 \in 0..n
        BY <1>1, <3>2
      <4>2. f[k - 1] \in V
        BY <2>3, <4>1
      <4> HIDE DEF V, n, N
      <4> QED
        BY <2>3, <3>2, <4>1, <4>2
    <3> QED
      BY <3>1, <3>2
  <2>5. f = E(f)
    <3> HIDE DEF V, n, N
    <3> QED
      BY <2>3, <2>4
  <2>6. h = E(h)
    BY <2>5
  <2>7. usage' = h[n].usage /\ reservations' = h[n].reservations
    BY DEF Evaluate, a, x
  <2> QED
    BY <2>6, <2>7
<1> HIDE DEF h
<1>6. h[0] = a /\ \A k \in 1..n : h[k] = IF Approves(costs[k]) THEN N(h[k - 1], costs[k]) ELSE h[k - 1]
  <2>1. 0 \in 0..n /\ \A k \in 1..n : k \in 0..n /\ k # 0
    BY <1>1
  <2> HIDE DEF n, N
  <2> QED
    BY <1>5, <2>1
<1> DEFINE P == {k \in Nat : k <= n => Booked(h[k].usage, h[k].reservations)}
<1>7. 0 \in P
  BY <1>2, <1>6
<1>8. ASSUME NEW j \in Nat, j \in P PROVE j + 1 \in P
  <2> SUFFICES ASSUME j + 1 <= n PROVE Booked(h[j + 1].usage, h[j + 1].reservations)
    OBVIOUS
  <2>1. j + 1 \in 1..n /\ (j + 1) - 1 = j /\ j <= n
    BY <1>1
  <2>2. Booked(h[j].usage, h[j].reservations) /\ costs[j + 1] \in Costs
    BY <1>1, <1>8, <2>1
  <2>3. CASE Approves(costs[j + 1])
    <3>1. h[j + 1] = N(h[j], costs[j + 1])
      BY <1>6, <2>1, <2>3
    <3>2. Booked(AddReservation(h[j].usage, x, costs[j + 1]), Append(h[j].reservations, NewReservation(x, costs[j + 1])))
      BY <1>1, <2>2, AddKeeps
    <3> QED
      BY <3>1, <3>2
  <2>4. CASE ~Approves(costs[j + 1])
    BY <1>6, <2>1, <2>2, <2>4
  <2> QED
    BY <2>3, <2>4
<1>9. Nat \subseteq P
  <2> HIDE DEF P
  <2> QED
    BY <1>7, <1>8, Induction
<1>10. n <= n
  BY <1>1
<1> QED
  BY <1>1, <1>5, <1>9, <1>10

-----------------------------------------------------------------------------
(* The steps. *)

\* No usage agrees with no reservations.
LEMMA NothingBooked == Booked(NoUsage, <<>>)
<1>1. NoUsage \in [PolicyIds -> Usage]
  BY DEF NoUsage, Usage
<1>2. <<>> \in Seq(Reservation) /\ Len(<<>>) = 0
  OBVIOUS
<1>3. ASSUME NEW x \in PolicyIds PROVE Total(ChargedTo(x, <<>>)) = 0 /\ Total(HeldOn(x, <<>>)) = 0
  <2>1. ChargedTo(x, <<>>) = <<>> /\ HeldOn(x, <<>>) = <<>>
    <3>1. ChargedTo(x, <<>>) \in Seq(Nat) /\ Len(ChargedTo(x, <<>>)) = 0
      BY <1>2, Amounts
    <3>2. HeldOn(x, <<>>) \in Seq(Nat) /\ Len(HeldOn(x, <<>>)) = 0
      BY <1>2, Amounts
    <3> QED
      BY <3>1, <3>2, EmptySeq
  <2> QED
    BY <2>1, TotalEmpty
<1> QED
  <2>1. \A x \in PolicyIds : NoUsage[x].spent = 0 /\ NoUsage[x].reserved = 0
    BY DEF NoUsage
  <2>2. \A x \in PolicyIds : NoUsage[x].spent = Total(ChargedTo(x, <<>>)) /\ NoUsage[x].reserved <= Total(HeldOn(x, <<>>))
    BY <1>3, <2>1
  <2> QED
    BY <1>1, <1>2, <2>2 DEF Booked

\* The invariant holds initially.
LEMMA BudgetStarts ==
  ASSUME BudgetInit
  PROVE  BInv
<1>1. Booked(NoUsage, <<>>) /\ NoUsage \in [PolicyIds -> Usage] /\ <<>> \in Seq(Reservation)
  BY NothingBooked DEF Booked
<1>2. BudgetTypeOK
  BY <1>1 DEF BudgetInit, BudgetTypeOK
<1> QED
  BY <1>1, <1>2 DEF BudgetInit, BInv

\* The type invariant follows from what a step does to policies and overrides.
LEMMA TypeFollows ==
  ASSUME BInv, Booked(usage', reservations'), policies' \subseteq PolicyIds, overrides' \subseteq PolicyIds,
         emergency' \in BOOLEAN
  PROVE  BInv'
<1>1. usage' \in [PolicyIds -> Usage] /\ reservations' \in Seq(Reservation)
  BY DEF Booked
<1>2. BudgetTypeOK'
  BY <1>1 DEF BudgetTypeOK
<1>3. Booked(usage, reservations)'
  BY DEF Booked
<1> QED
  BY <1>2, <1>3 DEF BInv

\* commit charges an open reservation once and gives back what it held.
LEMMA CommitBooked ==
  ASSUME BInv, NEW k \in 1..Len(reservations), Commit(k)
  PROVE  Booked(usage', reservations')
<1> DEFINE r == reservations[k]
           v == [r EXCEPT !.status = "committed", !.charges = @ + 1]
<1>1. Booked(usage, reservations) /\ reservations \in Seq(Reservation) /\ r \in Reservation
  BY DEF BInv, Booked
<1>2. r.charges + 1 \in Nat
  BY <1>1, ReservationFields
<1>3. v \in Reservation /\ v.policy = r.policy /\ v.cost = r.cost /\ v.charges = r.charges + 1 /\ v.status # "open"
  BY <1>1, <1>2 DEF Reservation
<1>4. reservations' = [reservations EXCEPT ![k] = v] /\ r.status = "open"
  BY <1>1 DEF Commit, CanCommit
<1>5. usage' = RecordSpend(RemoveReservation(usage, r.policy, r.cost), r.policy, r.cost)
  BY DEF Commit
<1> HIDE DEF v
<1> QED
  BY <1>1, <1>3, <1>4, <1>5, CommitKeeps

\* rollback and release give back what was held and charge nothing.
LEMMA EndBooked ==
  ASSUME BInv, NEW k \in 1..Len(reservations), NEW status \in {"rolled_back", "released"}, EndReservation(k, status)
  PROVE  Booked(usage', reservations')
<1> DEFINE r == reservations[k]
           v == [r EXCEPT !.status = status, !.due = FALSE]
<1>1. Booked(usage, reservations) /\ reservations \in Seq(Reservation) /\ r \in Reservation
  BY DEF BInv, Booked
<1>2. v \in Reservation /\ v.policy = r.policy /\ v.cost = r.cost /\ v.charges = r.charges /\ v.status # "open"
  BY <1>1 DEF Reservation
<1>3. reservations' = [reservations EXCEPT ![k] = v] /\ usage' = RemoveReservation(usage, r.policy, r.cost)
  BY <1>1 DEF EndReservation
<1> HIDE DEF v
<1> QED
  BY <1>1, <1>2, <1>3, EndKeeps

\* A reservation that falls due still holds its amount.
LEMMA DueBooked ==
  ASSUME BInv, NEW k \in 1..Len(reservations), ReservationFallsDue(k)
  PROVE  Booked(usage', reservations')
<1> DEFINE r == reservations[k]
           v == [r EXCEPT !.due = TRUE]
<1>1. Booked(usage, reservations) /\ reservations \in Seq(Reservation) /\ r \in Reservation
  BY DEF BInv, Booked
<1>2. v \in Reservation /\ v.policy = r.policy /\ v.cost = r.cost /\ v.charges = r.charges /\ v.status = r.status
  BY <1>1 DEF Reservation
<1>3. reservations' = [reservations EXCEPT ![k] = v] /\ usage' = usage
  BY <1>1 DEF ReservationFallsDue
<1> HIDE DEF v
<1> QED
  BY <1>1, <1>2, <1>3, SameKeeps

\* A new day changes no amount.
LEMMA NewDayBooked ==
  ASSUME BInv, NewDay
  PROVE  Booked(usage', reservations')
<1>1. Booked(usage, reservations) /\ usage \in [PolicyIds -> Usage] /\ reservations' = reservations
  BY DEF BInv, Booked, NewDay
<1>2. ASSUME NEW x \in PolicyIds
      PROVE  usage'[x] \in Usage /\ usage'[x].spent = usage[x].spent /\ usage'[x].reserved = usage[x].reserved
  <2> DEFINE s == usage[x].stale \/ usage[x].daily > 0
  <2>1. usage'[x] = [usage[x] EXCEPT !.stale = s]
    BY DEF NewDay
  <2>2. usage[x] \in Usage /\ s \in BOOLEAN
    BY <1>1
  <2> HIDE DEF s
  <2> QED
    BY <2>1, <2>2 DEF Usage
<1>3. usage' \in [PolicyIds -> Usage]
  <2>1. usage' = [x \in PolicyIds |-> usage'[x]]
    BY DEF NewDay
  <2> QED
    BY <1>2, <2>1
<1> QED
  BY <1>1, <1>2, <1>3 DEF Booked

\* BInv is an invariant.
LEMMA BudgetInvariant == BudgetSpec => []BInv
<1>1. BudgetInit => BInv
  BY BudgetStarts
<1>2. BInv /\ [BudgetNext]_budgetVars => BInv'
  <2> SUFFICES ASSUME BInv, [BudgetNext]_budgetVars PROVE BInv'
    OBVIOUS
  <2>1. Booked(usage, reservations) /\ policies \subseteq PolicyIds /\ overrides \subseteq PolicyIds /\ emergency \in BOOLEAN
    BY DEF BInv, BudgetTypeOK
  <2>2. CASE \E costs \in CandidateCosts : Evaluate(costs)
    <3>1. PICK costs \in CandidateCosts : Evaluate(costs)
      BY <2>2
    <3>2. costs \in Seq(Costs)
      <4>1. PICK n \in 1..MaxReservations : costs \in [1..n -> Costs]
        BY DEF CandidateCosts
      <4>2. n \in Nat
        BY BudgetAssumption
      <4> QED
        BY <4>1, <4>2, SeqDef
    <3>3. Booked(usage', reservations')
      BY <2>1, <3>1, <3>2, EvaluateKeeps
    <3>4. UNCHANGED <<policies, overrides, emergency>>
      BY <3>1 DEF Evaluate
    <3> QED
      BY <2>1, <3>3, <3>4, TypeFollows
  <2>3. CASE \E cost \in Costs : Reserve(cost)
    <3>1. PICK cost \in Costs : Reserve(cost)
      BY <2>3
    <3>2. Booked(CleanUsage, CleanReservations)
      BY <2>1, CleanKeeps
    <3>3. NoPolicy \in PolicyIds \union {NoPolicy}
      OBVIOUS
    <3>4. Booked(AddReservation(CleanUsage, NoPolicy, cost), Append(CleanReservations, NewReservation(NoPolicy, cost)))
      BY <3>2, <3>3, AddKeeps
    <3>5. AddReservation(CleanUsage, NoPolicy, cost) = CleanUsage
      BY DEF AddReservation
    <3>6. usage' = CleanUsage /\ reservations' = Append(CleanReservations, NewReservation(NoPolicy, cost))
          /\ UNCHANGED <<policies, overrides, emergency>>
      BY <3>1 DEF Reserve
    <3> QED
      BY <2>1, <3>4, <3>5, <3>6, TypeFollows
  <2>4. CASE BudgetSnapshot
    <3>1. usage' = CleanUsage /\ reservations' = CleanReservations /\ UNCHANGED <<policies, overrides, emergency>>
      BY <2>4 DEF BudgetSnapshot
    <3>2. Booked(CleanUsage, CleanReservations)
      BY <2>1, CleanKeeps
    <3> QED
      BY <2>1, <3>1, <3>2, TypeFollows
  <2>5. CASE \E k \in 1..Len(reservations) : Commit(k)
    <3>1. Booked(usage', reservations') /\ UNCHANGED <<policies, overrides, emergency>>
      BY <2>5, CommitBooked DEF Commit
    <3> QED
      BY <2>1, <3>1, TypeFollows
  <2>6. CASE \E k \in 1..Len(reservations) : Rollback(k)
    <3>1. PICK k \in 1..Len(reservations) : EndReservation(k, "rolled_back")
      BY <2>6 DEF Rollback
    <3>2. Booked(usage', reservations')
      BY <3>1, EndBooked
    <3>3. UNCHANGED <<policies, overrides, emergency>>
      BY <3>1 DEF EndReservation
    <3> QED
      BY <2>1, <3>2, <3>3, TypeFollows
  <2>7. CASE \E k \in 1..Len(reservations) : Release(k)
    <3>1. PICK k \in 1..Len(reservations) : EndReservation(k, "released")
      BY <2>7 DEF Release
    <3>2. Booked(usage', reservations')
      BY <3>1, EndBooked
    <3>3. UNCHANGED <<policies, overrides, emergency>>
      BY <3>1 DEF EndReservation
    <3> QED
      BY <2>1, <3>2, <3>3, TypeFollows
  <2>8. CASE \E k \in 1..Len(reservations) : ReservationFallsDue(k)
    <3>1. Booked(usage', reservations') /\ UNCHANGED <<policies, overrides, emergency>>
      BY <2>8, DueBooked DEF ReservationFallsDue
    <3> QED
      BY <2>1, <3>1, TypeFollows
  <2>9. CASE \E x \in PolicyIds : ChangePolicy(x)
    <3>1. usage' = usage /\ reservations' = reservations /\ policies' \subseteq PolicyIds /\ UNCHANGED <<overrides, emergency>>
      BY <2>1, <2>9 DEF ChangePolicy
    <3> QED
      BY <2>1, <3>1, TypeFollows
  <2>10. CASE \E x \in PolicyIds : ChangeOverride(x)
    <3>1. usage' = usage /\ reservations' = reservations /\ overrides' \subseteq PolicyIds /\ UNCHANGED <<policies, emergency>>
      BY <2>1, <2>10 DEF ChangeOverride
    <3> QED
      BY <2>1, <3>1, TypeFollows
  <2>11. CASE SetEmergencyMode
    <3>1. usage' = usage /\ reservations' = reservations /\ UNCHANGED <<policies, overrides>>
      BY <2>11 DEF SetEmergencyMode
    <3>2. emergency' \in BOOLEAN
      BY <2>11 DEF SetEmergencyMode
    <3> QED
      BY <2>1, <3>1, <3>2, TypeFollows
  <2>12. CASE BudgetDispose
    <3>1. policies' = {} /\ overrides' = {} /\ usage' = NoUsage /\ reservations' = <<>> /\ emergency' = emergency
      BY <2>12 DEF BudgetDispose
    <3>2. Booked(NoUsage, <<>>)
      BY NothingBooked
    <3> QED
      BY <2>1, <3>1, <3>2, TypeFollows
  <2>13. CASE NewDay
    <3>1. Booked(usage', reservations') /\ UNCHANGED <<policies, overrides, emergency>>
      BY <2>13, NewDayBooked DEF NewDay
    <3> QED
      BY <2>1, <3>1, TypeFollows
  <2>14. CASE UNCHANGED budgetVars
    <3>1. UNCHANGED <<policies, overrides, emergency, usage, reservations>>
      BY <2>14 DEF budgetVars
    <3> QED
      BY <2>1, <3>1, TypeFollows
  <2> QED
    BY <2>2, <2>3, <2>4, <2>5, <2>6, <2>7, <2>8, <2>9, <2>10, <2>11, <2>12, <2>13, <2>14 DEF BudgetNext
<1> QED
  BY <1>1, <1>2, PTL DEF BudgetSpec

\* ChargedOnce is an invariant: however evaluate, commit, rollback, release and
\* the expiry of reservations follow each other, a reservation is spent at most
\* once, and what a policy has spent is the sum of what was charged to it.
THEOREM BudgetChargedOnce == BudgetSpec => []ChargedOnce
<1>1. BInv => ChargedOnce
  BY DEF BInv, Booked, ChargedOnce
<1> QED
  BY <1>1, BudgetInvariant, PTL

\* NothingStaysBlocked is an invariant: active_reservations never exceeds what
\* the open reservations of the policy hold, although remove_reservation gives
\* nothing back once the amount is used up and the others give it back twice.
THEOREM BudgetNothingBlocked == BudgetSpec => []NothingStaysBlocked
<1>1. BInv => NothingStaysBlocked
  BY DEF BInv, Booked, NothingStaysBlocked
<1> QED
  BY <1>1, BudgetInvariant, PTL
=============================================================================
