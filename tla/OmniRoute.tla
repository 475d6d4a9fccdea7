----------------------------- MODULE OmniRoute -----------------------------
(***************************************************************************)
(* RouterEngineImpl.route (core/omniroute/router.py) together with the     *)
(* circuit breaker it consults: every candidate of a request is put to     *)
(* allow_request, one of those left is selected, and whoever sent the      *)
(* request reports the outcome (external: nothing in the repository calls  *)
(* record_success or record_failure).  The awaits between two questions    *)
(* let other requests in.  The other filters, the scoring and the policy   *)
(* engine decide which candidate is selected, which is left open.          *)
(***************************************************************************)
EXTENDS CircuitBreaker, Sequences

CONSTANTS
  Requests,     \* concurrent route() callers
  Candidates    \* the providers of the candidates, one entry for each model

ASSUME RouteAssumption == Candidates \in Seq(Providers)

VARIABLE route  \* route[r]: the candidates still to ask about, those allowed, the one selected

omniVars == <<breakerVars, route>>

NoProvider == "no provider"
NoRoute == [at |-> "idle", todo |-> <<>>, allowed |-> {}, selected |-> NoProvider]

RouteState == [at : {"idle", "filtering", "in_flight"}, todo : Seq(Providers),
               allowed : SUBSET Providers, selected : Providers \union {NoProvider}]

RouteTypeOK == BreakerTypeOK /\ route \in [Requests -> RouteState]

OmniInit == BreakerInit /\ route = [r \in Requests |-> NoRoute]

----------------------------------------------------------------------------
\* route() up to _filter_circuit_breaker.
RouteBegins(r) ==
  /\ route[r].at = "idle"
  /\ route' = [route EXCEPT ![r] = [NoRoute EXCEPT !.at = "filtering", !.todo = Candidates]]
  /\ UNCHANGED breakerVars

\* _filter_circuit_breaker asks about the next candidate.
AskBreaker(r) ==
  /\ route[r].at = "filtering"
  /\ route[r].todo # <<>>
  /\ LET p == Head(route[r].todo) IN
       /\ AllowRequest(p)
       /\ route' = [route EXCEPT ![r].todo = Tail(@),
                                 ![r].allowed = IF Allowed(p) THEN @ \union {p} ELSE @]

\* The rest of route(): a candidate is selected, or the breaker left none.
RouteEnds(r) ==
  /\ route[r].at = "filtering"
  /\ route[r].todo = <<>>
  /\ \/ \E p \in route[r].allowed :
          route' = [route EXCEPT ![r] = [NoRoute EXCEPT !.at = "in_flight", !.selected = p]]
     \/ /\ route[r].allowed = {}
        /\ route' = [route EXCEPT ![r] = NoRoute]
  /\ UNCHANGED breakerVars

\* The filters after the breaker (capabilities, context, budget, latency) drop
\* every candidate: the request fails and its permits are not given back.
LaterFiltersExclude(r) ==
  /\ route[r].at = "filtering"
  /\ route[r].todo = <<>>
  /\ route[r].allowed # {}
  /\ route' = [route EXCEPT ![r] = NoRoute]
  /\ UNCHANGED breakerVars

\* The caller reports how the request to the selected provider went; a stopped
\* breaker ignores the report.
ReportOutcome(r) ==
  /\ route[r].at = "in_flight"
  /\ \/ RecordSuccess(route[r].selected)
     \/ RecordFailure(route[r].selected)
     \/ ~breakerUp /\ UNCHANGED breakerVars
  /\ route' = [route EXCEPT ![r] = NoRoute]

\* The breaker's own operations, and time.
Operate ==
  /\ \/ BreakerStart
     \/ BreakerStop
     \/ \E p \in Providers : \/ ResetCircuit(p)
                             \/ \E to \in {"open", "half_open", "closed"} : ForceState(p, to)
  /\ UNCHANGED route

TimeoutRunsOut(p) == RecoveryTimeout(p) /\ UNCHANGED route

Traffic ==
  \/ \E r \in Requests : RouteBegins(r)
  \/ \E r \in Requests : AskBreaker(r)
  \/ \E r \in Requests : RouteEnds(r)
  \/ \E r \in Requests : ReportOutcome(r)
  \/ \E p \in Providers : TimeoutRunsOut(p)

OmniNext == Traffic \/ Operate \/ \E r \in Requests : LaterFiltersExclude(r)

OmniSpec == OmniInit /\ [][OmniNext]_omniVars

(***************************************************************************)
(* A running breaker that no operator touches: requests keep coming, every *)
(* one with a candidate the breaker allows is sent and reported, and       *)
(* recovery timeouts run out.                                              *)
(***************************************************************************)
TrafficSpec ==
  /\ OmniInit /\ breakerUp = TRUE
  /\ [][Traffic]_omniVars
  /\ \A r \in Requests : /\ WF_omniVars(RouteBegins(r))
                         /\ WF_omniVars(AskBreaker(r))
                         /\ WF_omniVars(RouteEnds(r))
                         /\ WF_omniVars(ReportOutcome(r))
  /\ \A p \in Providers : WF_omniVars(TimeoutRunsOut(p))
----------------------------------------------------------------------------
\* "HALF_OPEN -> (probe success) -> CLOSED, HALF_OPEN -> (probe fails) -> OPEN":
\* a provider on trial is tried, and then admitted or refused.
HalfOpenResolves ==
  \A p \in Providers : circuit[p].state = "half_open" ~> circuit[p].state # "half_open"
=============================================================================
