------------------------ MODULE DistributedExecutor ------------------------
(***************************************************************************)
(* DistributedExecutor (core/distributed/distributed_executor.py): a task  *)
(* handed to a peer over HTTP.  dispatch() suspends only while it awaits   *)
(* NodeTransport.dispatch_task; acknowledgements and completions arrive by *)
(* other requests, late, repeated or out of order, and overwrite the       *)
(* status whatever it is.  A task may be dispatched again, its retries     *)
(* kept, but not while a dispatch() of it awaits the transport.            *)
(* Statistics and events are left out.                                     *)
(***************************************************************************)
EXTENDS Integers, FiniteSets

CONSTANTS
  DTasks,           \* the tasks of this node
  DispatchRetries   \* DistributedTask.max_retries

ASSUME DispatchAssumption == DispatchRetries \in Nat

VARIABLES
  dstatus,      \* DistributedTask.status
  retries,      \* DistributedTask.retries
  assigned,     \* assigned_node_id: a peer, or this node ("" counts as this node)
  dispatching,  \* where the dispatch() call of the task is
  requested     \* the tasks whose dispatch request has been sent to a peer

dispatchVars == <<dstatus, retries, assigned, dispatching, requested>>

DStatuses == {"pending", "dispatched", "acknowledged", "completed", "failed", "timeout"}

DispatchTypeOK ==
  /\ dstatus \in [DTasks -> DStatuses]
  /\ retries \in [DTasks -> 0..DispatchRetries]
  /\ assigned \in [DTasks -> {"local", "peer"}]
  /\ dispatching \in [DTasks -> {"idle", "awaiting"}]
  /\ requested \subseteq DTasks

DispatchInit ==
  /\ dstatus = [t \in DTasks |-> "pending"]
  /\ retries = [t \in DTasks |-> 0]
  /\ assigned = [t \in DTasks |-> "local"]
  /\ dispatching = [t \in DTasks |-> "idle"]
  /\ requested = {}

----------------------------------------------------------------------------
\* The body of dispatch() up to the await: local tasks complete at once.
BeginDispatch(t, node) ==
  \/ /\ node = "local"
     /\ dstatus' = [dstatus EXCEPT ![t] = "completed"]
     /\ dispatching' = [dispatching EXCEPT ![t] = "idle"]
     /\ UNCHANGED requested
  \/ /\ node = "peer"
     /\ dstatus' = [dstatus EXCEPT ![t] = "dispatched"]
     /\ dispatching' = [dispatching EXCEPT ![t] = "awaiting"]
     /\ requested' = requested \union {t}

\* schedule_and_dispatch: assigns the selected node and dispatches.
Dispatch(t, node) ==
  /\ dispatching[t] = "idle"
  /\ assigned' = [assigned EXCEPT ![t] = node]
  /\ BeginDispatch(t, node)
  /\ UNCHANGED retries

\* The transport returned an answer.
PeerAnswers(t) ==
  /\ dispatching[t] = "awaiting"
  /\ dstatus' = [dstatus EXCEPT ![t] = "acknowledged"]
  /\ dispatching' = [dispatching EXCEPT ![t] = "idle"]
  /\ UNCHANGED <<retries, assigned, requested>>

\* Mutant: the retry is not counted.
RetryDispatchUncounted(t) ==
  /\ BeginDispatch(t, assigned[t])
  /\ UNCHANGED retries

\* dispatch() calls itself, with whatever node an acknowledgement has assigned since.
RetryDispatch(t) ==
  /\ retries[t] < DispatchRetries
  /\ retries' = [retries EXCEPT ![t] = @ + 1]
  /\ BeginDispatch(t, assigned[t])

\* The transport returned None: no connection, an error status or the timeout
\* of the request, which the peer may have received all the same.
NoAnswer(t) ==
  /\ dispatching[t] = "awaiting"
  /\ \/ RetryDispatch(t)
     \/ /\ retries[t] >= DispatchRetries
        /\ dstatus' = [dstatus EXCEPT ![t] = "failed"]
        /\ dispatching' = [dispatching EXCEPT ![t] = "idle"]
        /\ UNCHANGED <<retries, requested>>
  /\ UNCHANGED assigned

\* receive_acknowledgement
ReceiveAcknowledgement(t, node, accepted) ==
  /\ t \in requested
  /\ assigned' = [assigned EXCEPT ![t] = node]
  /\ dstatus' = [dstatus EXCEPT ![t] = IF accepted THEN "acknowledged" ELSE "failed"]
  /\ UNCHANGED <<retries, dispatching, requested>>

\* receive_completion
ReceiveCompletion(t, success) ==
  /\ t \in requested
  /\ dstatus' = [dstatus EXCEPT ![t] = IF success THEN "completed" ELSE "failed"]
  /\ UNCHANGED <<retries, assigned, dispatching, requested>>

\* check_timeouts: of the tasks under way, those dispatched long enough ago.
CheckTaskTimeouts(late) ==
  /\ late # {}
  /\ late \subseteq {t \in DTasks : dstatus[t] \in {"dispatched", "acknowledged"}}
  /\ dstatus' = [t \in DTasks |-> IF t \in late THEN "timeout" ELSE dstatus[t]]
  /\ UNCHANGED <<retries, assigned, dispatching, requested>>

TransportReturns(t) == PeerAnswers(t) \/ NoAnswer(t)

DispatchNext ==
  \/ \E t \in DTasks, node \in {"local", "peer"} : Dispatch(t, node)
  \/ \E t \in DTasks : TransportReturns(t)
  \/ \E t \in DTasks, node \in {"local", "peer"}, accepted \in BOOLEAN :
       ReceiveAcknowledgement(t, node, accepted)
  \/ \E t \in DTasks, success \in BOOLEAN : ReceiveCompletion(t, success)
  \/ \E late \in SUBSET DTasks : CheckTaskTimeouts(late)

DispatchSpec == DispatchInit /\ [][DispatchNext]_dispatchVars

\* Every HTTP request of the transport ends within its ten seconds.
DispatchFairness == \A t \in DTasks : WF_dispatchVars(TransportReturns(t))
----------------------------------------------------------------------------
(***************************************************************************)
(* Properties                                                              *)
(***************************************************************************)
\* dispatch() calls itself after a failed request: whatever acknowledgements,
\* completions and timeouts do to the tasks meanwhile, and however often a task
\* is dispatched, no call of its awaits the transport for ever.
DispatchReturns == \A t \in DTasks : []<>(dispatching[t] # "awaiting")
=============================================================================
