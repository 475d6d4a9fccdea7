--------------------------- MODULE CircuitBreaker ---------------------------
(***************************************************************************)
(* CircuitBreakerEngineImpl (core/omniroute/failover.py): one three-state  *)
(* machine per provider.  Every operation runs under one asyncio.Lock, so  *)
(* it is one step.  total_requests, consecutive_failures and the windows   *)
(* are only compared with thresholds: they saturate there.  Timestamps are *)
(* abstracted to "the recovery timeout has run out" and to any number of   *)
(* window entries being recent; failure kinds and metrics are left out.    *)
(***************************************************************************)
EXTENDS Integers, FiniteSets

CONSTANTS
  Providers,
  Threshold,    \* config.failure_threshold
  MinRequests,  \* config.minimum_request_count
  ProbeCount,   \* config.half_open_probe_count
  WindowSize    \* size of the failure window and config.sliding_window_size

ASSUME BreakerAssumption == /\ Threshold \in Nat \ {0}
                            /\ MinRequests \in Nat
                            /\ ProbeCount \in Nat \ {0}
                            /\ WindowSize \in Nat \ {0}

VARIABLES
  breakerUp,    \* _started
  circuit,      \* circuit[p]: the _ProviderState of p (a missing one is a fresh one)
  due,          \* due[p]: circuit_open_until has passed
  admitted      \* admitted[p]: requests let through since the circuit last became HALF_OPEN

breakerVars == <<breakerUp, circuit, due, admitted>>

Saturate(n, limit) == IF n > limit THEN limit ELSE n

CircuitState == [state : {"closed", "open", "half_open"},
                 total : 0..MinRequests, consecutive : 0..Threshold,
                 failures : 0..WindowSize, successes : 0..WindowSize,
                 attempts : 0..ProbeCount, probes : 0..ProbeCount]

\* _get_or_create, and what reset() puts in place.
FreshCircuit == [state |-> "closed", total |-> 0, consecutive |-> 0,
                 failures |-> 0, successes |-> 0, attempts |-> 0, probes |-> 0]

BreakerTypeOK ==
  /\ breakerUp \in BOOLEAN
  /\ circuit \in [Providers -> CircuitState]
  /\ due \in [Providers -> BOOLEAN]
  /\ admitted \in [Providers -> Nat]

BreakerInit ==
  /\ breakerUp \in BOOLEAN
  /\ circuit = [p \in Providers |-> FreshCircuit]
  /\ due = [p \in Providers |-> FALSE]
  /\ admitted = [p \in Providers |-> 0]

----------------------------------------------------------------------------
\* The sliding-window rule with rf recent failures and rs recent successes.
WindowTrips(rf, rs) ==
  /\ rf + rs >= MinRequests
  /\ rf * WindowSize >= Threshold * (rf + rs)
  /\ rf >= Threshold

\* should_trip: the answers possible, given that any of the entries may be recent.
ShouldTrip(b) ==
  IF b.total < MinRequests THEN {FALSE}
  ELSE IF b.consecutive >= Threshold THEN {TRUE}
  ELSE IF b.failures < WindowSize THEN {FALSE}
  ELSE {WindowTrips(rf, rs) : rf \in 1..b.failures, rs \in 0..b.successes}

\* _transition: nothing at all when the state does not change.
Transition(b, to) ==
  IF b.state = to THEN b
  ELSE CASE to = "open" -> [b EXCEPT !.state = to]
         [] to = "half_open" -> [b EXCEPT !.state = to, !.attempts = 0, !.probes = 0]
         [] to = "closed" -> [b EXCEPT !.state = to, !.consecutive = 0, !.failures = 0,
                                       !.attempts = 0, !.probes = 0]

\* The circuit of p becomes b; a newly OPEN one gets a recovery timeout, and
\* the requests let through (n more) are counted from the entry to HALF_OPEN.
SetCircuit(p, b, n) ==
  /\ circuit' = [circuit EXCEPT ![p] = b]
  /\ due' = [due EXCEPT ![p] = @ /\ ~(b.state = "open" /\ circuit[p].state # "open")]
  /\ admitted' = [admitted EXCEPT ![p] =
                    IF b.state # "half_open" THEN 0
                    ELSE IF circuit[p].state = "half_open" THEN @ + n ELSE n]
  /\ UNCHANGED breakerUp

----------------------------------------------------------------------------
RecordSuccess(p) ==
  /\ breakerUp
  /\ LET b == [circuit[p] EXCEPT !.total = Saturate(@ + 1, MinRequests),
                                 !.consecutive = 0,
                                 !.successes = Saturate(@ + 1, WindowSize)]
     IN SetCircuit(p,
          IF b.state # "half_open" THEN b
          ELSE IF b.probes + 1 >= ProbeCount
               THEN Transition([b EXCEPT !.probes = ProbeCount], "closed")
               ELSE [b EXCEPT !.probes = @ + 1], 0)

RecordFailure(p) ==
  /\ breakerUp
  /\ LET b == [circuit[p] EXCEPT !.total = Saturate(@ + 1, MinRequests),
                                 !.consecutive = Saturate(@ + 1, Threshold),
                                 !.failures = Saturate(@ + 1, WindowSize)]
     IN \/ /\ b.state = "closed"
           /\ \E trip \in ShouldTrip(b) :
                SetCircuit(p, IF trip THEN Transition(b, "open") ELSE b, 0)
        \/ /\ b.state # "closed"
           /\ SetCircuit(p, Transition(b, "open"), 0)

\* Mutant: the probe budget is tested after the count.
AllowedMoreProbes(p) ==
  \/ ~breakerUp
  \/ circuit[p].state = "closed"
  \/ circuit[p].state = "open" /\ due[p]
  \/ circuit[p].state = "half_open" /\ circuit[p].attempts <= ProbeCount

\* The answer of allow_request.
Allowed(p) ==
  \/ ~breakerUp
  \/ circuit[p].state = "closed"
  \/ circuit[p].state = "open" /\ due[p]
  \/ circuit[p].state = "half_open" /\ circuit[p].attempts < ProbeCount

\* allow_request: the request that turns an OPEN circuit HALF_OPEN is let
\* through without being counted as a probe.
AllowRequest(p) ==
  \/ /\ breakerUp /\ Allowed(p) /\ circuit[p].state = "open"
     /\ SetCircuit(p, Transition(circuit[p], "half_open"), 1)
  \/ /\ breakerUp /\ Allowed(p) /\ circuit[p].state = "half_open"
     /\ SetCircuit(p, [circuit[p] EXCEPT !.attempts = Saturate(@ + 1, ProbeCount)], 1)
  \/ /\ breakerUp => ~Allowed(p) \/ circuit[p].state = "closed"
     /\ UNCHANGED breakerVars

\* trip(), half_open() and close().
ForceState(p, to) == SetCircuit(p, Transition(circuit[p], to), 0)

ResetCircuit(p) == SetCircuit(p, FreshCircuit, 0)

BreakerStart ==
  /\ ~breakerUp
  /\ breakerUp' = TRUE
  /\ UNCHANGED <<circuit, due, admitted>>

\* stop() keeps the circuits, dispose() forgets them.
BreakerStop ==
  /\ breakerUp
  /\ breakerUp' = FALSE
  /\ \/ UNCHANGED <<circuit, due, admitted>>
     \/ /\ circuit' = [p \in Providers |-> FreshCircuit]
        /\ due' = [p \in Providers |-> FALSE]
        /\ admitted' = [p \in Providers |-> 0]

RecoveryTimeout(p) ==
  /\ circuit[p].state = "open"
  /\ ~due[p]
  /\ due' = [due EXCEPT ![p] = TRUE]
  /\ UNCHANGED <<breakerUp, circuit, admitted>>

BreakerNext ==
  \/ BreakerStart
  \/ BreakerStop
  \/ \E p \in Providers :
       \/ RecordSuccess(p)
       \/ RecordFailure(p)
       \/ AllowRequest(p)
       \/ RecoveryTimeout(p)
       \/ ResetCircuit(p)
       \/ \E to \in {"open", "half_open", "closed"} : ForceState(p, to)

BreakerSpec == BreakerInit /\ [][BreakerNext]_breakerVars
----------------------------------------------------------------------------
(***************************************************************************)
(* Properties                                                              *)
(***************************************************************************)
\* "HALF_OPEN probe traffic limiting": between two changes of state a HALF_OPEN
\* circuit lets at most half_open_probe_count requests through, and the one
\* request that opened it half; late reports do not renew the allowance.
ProbeTrafficLimited ==
  \A p \in Providers : admitted[p] <= ProbeCount + 1
=============================================================================
