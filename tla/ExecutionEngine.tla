-------------------------- MODULE ExecutionEngine --------------------------
(***************************************************************************)
(* ExecutionEngineImpl (core/omniroute/executor.py): execute() with its    *)
(* retries, hard timeout and cancellation tokens, execute_stream(), and    *)
(* the strategies that run several execute() calls.                        *)
(*                                                                         *)
(* A coroutine suspends where it awaits the provider's adapter (external:  *)
(* ProviderAdapter), a backoff sleep or other tasks; neither the locks nor *)
(* publish() on an unsaturated bus suspend, so the code between two such   *)
(* points is one step.  Metrics, latencies and events are left out.        *)
(***************************************************************************)
EXTENDS Integers, Sequences, FiniteSets

CONSTANTS
  Calls,       \* the execute() and execute_stream() coroutines
  Streams,     \* the ones that are execute_stream()
  IdOf,        \* IdOf[c]: request.request_id of the call, which need not be unique
  NoCall,      \* no Event is stored
  MaxRetries   \* _RetryCalculator.max_retries_for_policy of every request

ASSUME ExecutionAssumption == /\ MaxRetries \in Nat
                              /\ NoCall \notin Calls
                              /\ Streams \subseteq Calls

VARIABLES
  engineUp,    \* ExecutionEngineImpl._running
  stage,       \* stage[c]: where the coroutine is
  attempt,     \* attempt[c]: the loop variable of execute()
  tokenSet,    \* tokenSet[c]: the Event of the call's current attempt is set
  stored,      \* _CancellationStore._tokens: stored[i] is the call whose Event is stored
  contexts,    \* the keys of _contexts
  asked,       \* the calls whose task was asked to cancel and has not run since
  outcome,     \* outcome[c]: the state of the result the call returned
  flow         \* the strategy call: its kind, its calls, how many it launched, its result

execVars == <<engineUp, stage, attempt, tokenSet, stored, contexts, asked, outcome, flow>>

CallIds == {IdOf[c] : c \in Calls}
Sharing(c) == \E d \in Calls \ {c} : IdOf[d] = IdOf[c]

\* execute_parallel and execute_quorum gather; execute_fallback and
\* execute_mirror (shadow and canary with one request) run in sequence.
Concurrent == {"gather", "hedged", "race"}
Sequential == {"fallback", "mirror"}
FlowKinds == Concurrent \union Sequential \union {"speculative"}
Outcomes == {"none", "completed", "failed", "timed_out", "cancelled", "dropped", "streamed"}
Stages == {"idle", "scheduled", "invoking", "backoff", "streaming", "done"}
FlowState == [kind : FlowKinds \union {"none"}, members : Seq(Calls),
              launched : Nat, result : Outcomes]
NoFlow == [kind |-> "none", members |-> <<>>, launched |-> 0, result |-> "none"]

ExecTypeOK ==
  /\ engineUp \in BOOLEAN
  /\ stage \in [Calls -> Stages]
  /\ attempt \in [Calls -> 0..(MaxRetries + 1)]
  /\ tokenSet \in [Calls -> BOOLEAN]
  /\ stored \in [CallIds -> Calls \union {NoCall}]
  /\ contexts \subseteq CallIds
  /\ asked \subseteq Calls
  /\ outcome \in [Calls -> Outcomes]
  /\ flow \in FlowState

ExecInit ==
  /\ engineUp = FALSE
  /\ stage = [c \in Calls |-> "idle"]
  /\ attempt = [c \in Calls |-> 0]
  /\ tokenSet = [c \in Calls |-> FALSE]
  /\ stored = [i \in CallIds |-> NoCall]
  /\ contexts = {}
  /\ asked = {}
  /\ outcome = [c \in Calls |-> "none"]
  /\ flow = NoFlow

----------------------------------------------------------------------------
(***************************************************************************)
(* The cancellation store                                                  *)
(***************************************************************************)
Members == {flow.members[k] : k \in 1..Len(flow.members)}
Launched == {flow.members[k] : k \in 1..flow.launched}

\* _CancellationStore.is_cancelled: looks the Event up under the id.
IsCancelled(i) == stored[i] # NoCall /\ tokenSet[stored[i]]

\* register: a fresh Event replaces whatever the id had.
Register(c) ==
  /\ stored' = [stored EXCEPT ![IdOf[c]] = c]
  /\ tokenSet' = [tokenSet EXCEPT ![c] = FALSE]

\* unregister: drops the id's Event, whoever registered it.
Unregister(c) == stored' = [stored EXCEPT ![IdOf[c]] = NoCall]

\* _remove_context (which unregisters as well) after _record_execution, and the
\* result is returned.
Return(c, state) ==
  /\ stage' = [stage EXCEPT ![c] = "done"]
  /\ outcome' = [outcome EXCEPT ![c] = state]
  /\ contexts' = contexts \ {IdOf[c]}

----------------------------------------------------------------------------
(***************************************************************************)
(* execute()                                                               *)
(***************************************************************************)
\* Mutant: the Event is registered once per request instead of once per attempt.
StartAttemptOnce(c, n) ==
  /\ attempt' = [attempt EXCEPT ![c] = n]
  /\ IF n = 1 THEN Register(c) ELSE UNCHANGED <<stored, tokenSet>>
  /\ stage' = [stage EXCEPT ![c] = "invoking"]
  /\ contexts' = IF n = 1 THEN contexts \union {IdOf[c]} ELSE contexts
  /\ UNCHANGED outcome

\* One turn of the loop up to the await of the adapter.  cancel() pops what it
\* sets, so the second alternative is never taken.
StartAttempt(c, n) ==
  \/ /\ ~IsCancelled(IdOf[c])
     /\ attempt' = [attempt EXCEPT ![c] = n]
     /\ Register(c)
     /\ stage' = [stage EXCEPT ![c] = "invoking"]
     /\ contexts' = IF n = 1 THEN contexts \union {IdOf[c]} ELSE contexts
     /\ UNCHANGED outcome
  \/ /\ IsCancelled(IdOf[c])
     /\ attempt' = [attempt EXCEPT ![c] = n]
     /\ Unregister(c)
     /\ Return(c, "cancelled")
     /\ UNCHANGED tokenSet

\* execute() from its start: a client's call, or a task's first step.
Execute(c) ==
  /\ \/ stage[c] = "idle" /\ c \notin Members \union Streams
     \/ stage[c] = "scheduled" /\ c \notin asked
  /\ \/ engineUp /\ StartAttempt(c, 1)
     \/ /\ ~engineUp
        /\ stage' = [stage EXCEPT ![c] = "done"]
        /\ outcome' = [outcome EXCEPT ![c] = "failed"]
        /\ UNCHANGED <<attempt, tokenSet, stored, contexts>>
  /\ UNCHANGED <<engineUp, asked, flow>>

\* The backoff sleep ends; nobody asks whether the engine still runs.
BackoffElapses(c) ==
  /\ stage[c] = "backoff" /\ c \notin asked
  /\ StartAttempt(c, attempt[c] + 1)
  /\ UNCHANGED <<engineUp, asked, flow>>

\* Mutant: the attempts are not counted against max_retries.
RetryOrFailAgain(c) ==
  /\ stage' = [stage EXCEPT ![c] = "backoff"]
  /\ attempt' = [attempt EXCEPT ![c] = 0]
  /\ UNCHANGED <<outcome, contexts>>

\* A result that is neither COMPLETED nor TIMED_OUT: retried while attempts are left.
RetryOrFail(c) ==
  \/ /\ attempt[c] <= MaxRetries
     /\ stage' = [stage EXCEPT ![c] = "backoff"]
     /\ UNCHANGED <<attempt, outcome, contexts>>
  \/ /\ attempt[c] > MaxRetries
     /\ Return(c, "failed")
     /\ UNCHANGED attempt

Invoking(c) == stage[c] = "invoking" /\ c \notin asked

\* The adapter completes, and the Event of this attempt is not set.
InvokeCompletes(c) ==
  /\ Invoking(c)
  /\ ~tokenSet[c]
  /\ Unregister(c)
  /\ Return(c, "completed")
  /\ UNCHANGED <<engineUp, attempt, tokenSet, asked, flow>>

\* The adapter fails or raises, or its result came too late for a set Event.
InvokeFails(c) ==
  /\ Invoking(c)
  /\ Unregister(c)
  /\ RetryOrFail(c)
  /\ UNCHANGED <<engineUp, tokenSet, asked, flow>>

\* asyncio.wait_for gives up after hard_timeout_s: no retry.
HardTimeout(c) ==
  /\ Invoking(c)
  /\ Unregister(c)
  /\ Return(c, "timed_out")
  /\ UNCHANGED <<engineUp, attempt, tokenSet, asked, flow>>

----------------------------------------------------------------------------
(***************************************************************************)
(* execute_stream(), cancel(), start(), stop()                             *)
(***************************************************************************)
ExecuteStream(c) ==
  /\ engineUp
  /\ c \in Streams
  /\ stage[c] = "idle"
  /\ Register(c)
  /\ stage' = [stage EXCEPT ![c] = "streaming"]
  /\ contexts' = contexts \union {IdOf[c]}
  /\ UNCHANGED <<engineUp, attempt, asked, outcome, flow>>

\* The chunks run out, the Event is found set, or the consumer leaves.
StreamEnds(c) ==
  /\ stage[c] = "streaming"
  /\ Unregister(c)
  /\ Return(c, "streamed")
  /\ UNCHANGED <<engineUp, attempt, tokenSet, asked, flow>>

\* cancel(): pops the Event of the id and sets it; False when there is none.
Cancel(i) ==
  /\ stored[i] # NoCall
  /\ tokenSet' = [tokenSet EXCEPT ![stored[i]] = TRUE]
  /\ stored' = [stored EXCEPT ![i] = NoCall]
  /\ UNCHANGED <<engineUp, stage, attempt, contexts, asked, outcome, flow>>

EngineStart ==
  /\ ~engineUp
  /\ engineUp' = TRUE
  /\ UNCHANGED <<stage, attempt, tokenSet, stored, contexts, asked, outcome, flow>>

\* stop() and dispose(): cancels what has a context, then forgets the contexts.
EngineStop ==
  LET hit == {stored[i] : i \in contexts} \ {NoCall} IN
  /\ engineUp
  /\ engineUp' = FALSE
  /\ tokenSet' = [c \in Calls |-> tokenSet[c] \/ c \in hit]
  /\ stored' = [i \in CallIds |-> IF i \in contexts THEN NoCall ELSE stored[i]]
  /\ contexts' = {}
  /\ UNCHANGED <<stage, attempt, asked, outcome, flow>>

----------------------------------------------------------------------------
(***************************************************************************)
(* Strategies.  A task's cancel() is a request: CancelledError is raised   *)
(* when the task runs next, whatever it waited for (asyncio of Python      *)
(* 3.12, external: wait_for does not swallow it).  Until then other        *)
(* coroutines go on.                                                       *)
(***************************************************************************)
Active == flow.kind # "none" /\ flow.result = "none"
Done(c) == stage[c] = "done"
Succeeded(c) == outcome[c] = "completed"

FlowStart(kind, members) ==
  /\ flow = NoFlow
  /\ \A k \in 1..Len(members) : stage[members[k]] = "idle"
  /\ \/ /\ engineUp \/ kind = "mirror"    \* execute_mirror does not ask
        /\ LET n == IF kind \in Concurrent THEN Len(members) ELSE 1 IN
             /\ flow' = [kind |-> kind, members |-> members, launched |-> n, result |-> "none"]
             /\ stage' = [c \in Calls |-> IF \E k \in 1..n : members[k] = c
                                          THEN "scheduled" ELSE stage[c]]
     \/ /\ ~engineUp /\ kind # "mirror"
        /\ flow' = [kind |-> kind, members |-> <<>>, launched |-> 0, result |-> "failed"]
        /\ UNCHANGED stage
  /\ UNCHANGED <<engineUp, attempt, tokenSet, stored, contexts, asked, outcome>>

FlowReturns(result) == flow' = [flow EXCEPT !.result = result]

\* The next call of a sequence, or the secondary of a speculative pair.
LaunchNext ==
  /\ flow.launched < Len(flow.members)
  /\ flow' = [flow EXCEPT !.launched = @ + 1]
  /\ stage' = [stage EXCEPT ![flow.members[flow.launched + 1]] = "scheduled"]
  /\ UNCHANGED <<engineUp, attempt, tokenSet, stored, contexts, asked, outcome>>

\* Mutant: the tasks still pending are left alone.
LeavePending == UNCHANGED asked

\* pt.cancel() for the tasks that are not done.
CancelPending == asked' = asked \union {c \in Launched : ~Done(c)}

\* CancelledError in the coroutine of c: a task that has not begun never does; in
\* the provider the finally clause of _with_timeout unregisters what the id has by
\* now; nothing else is done, so the context stays.
Cancelled(c) ==
  /\ c \in asked
  /\ asked' = asked \ {c}
  /\ stage' = [stage EXCEPT ![c] = "done"]
  /\ outcome' = [outcome EXCEPT ![c] = "dropped"]
  /\ IF stage[c] = "invoking" THEN Unregister(c) ELSE UNCHANGED stored
  /\ UNCHANGED <<engineUp, attempt, tokenSet, contexts, flow>>

\* asyncio.gather returns when every call has.
GatherReturns ==
  /\ flow.kind = "gather"
  /\ \A c \in Members : Done(c)
  /\ FlowReturns(IF \E c \in Members : Succeeded(c) THEN "completed" ELSE "failed")
  /\ UNCHANGED <<engineUp, stage, attempt, tokenSet, stored, contexts, asked, outcome>>

\* asyncio.wait(FIRST_COMPLETED) has returned: a completed result wins and
\* cancels the rest, else any finished result is returned and the rest runs on.
FirstReturns ==
  /\ \/ flow.kind = "hedged"
     \/ flow.kind = "speculative" /\ flow.launched = Len(flow.members)
  /\ \E c \in Launched : Done(c)
  /\ \/ /\ \E c \in Launched : Succeeded(c)
        /\ CancelPending
        /\ FlowReturns("completed")
     \/ /\ ~\E c \in Launched : Succeeded(c)
        /\ FlowReturns("failed")
        /\ UNCHANGED asked
  /\ UNCHANGED <<engineUp, stage, attempt, tokenSet, stored, contexts, outcome>>

\* execute_race: the first finished result, whatever it says; the rest is cancelled.
RaceReturns ==
  /\ flow.kind = "race"
  /\ \E c \in Launched :
       /\ Done(c)
       /\ FlowReturns(IF Succeeded(c) THEN "completed" ELSE "failed")
  /\ CancelPending
  /\ UNCHANGED <<engineUp, stage, attempt, tokenSet, stored, contexts, outcome>>

\* execute_speculative: the primary completed within its soft timeout ...
PrimaryReturns ==
  /\ flow.kind = "speculative"
  /\ flow.launched = 1
  /\ Succeeded(flow.members[1])
  /\ FlowReturns("completed")
  /\ UNCHANGED <<engineUp, stage, attempt, tokenSet, stored, contexts, asked, outcome>>

\* ... or it was too slow, or finished without completing.
LaunchSecondary ==
  /\ flow.kind = "speculative"
  /\ flow.launched = 1
  /\ LaunchNext

\* execute_fallback stops at the first success, execute_mirror runs them all.
SequenceStep ==
  /\ flow.kind \in Sequential
  /\ Done(flow.members[flow.launched])
  /\ LET ok == flow.kind = "fallback" /\ Succeeded(flow.members[flow.launched]) IN
       \/ ~ok /\ LaunchNext
       \/ /\ ok \/ flow.launched = Len(flow.members)
          /\ FlowReturns(IF ok THEN "completed" ELSE "failed")
          /\ UNCHANGED <<engineUp, stage, attempt, tokenSet, stored, contexts, asked, outcome>>

FlowStep ==
  /\ Active
  /\ \/ GatherReturns
     \/ FirstReturns
     \/ RaceReturns
     \/ PrimaryReturns
     \/ LaunchSecondary
     \/ SequenceStep

----------------------------------------------------------------------------
Pairs == {m \in [1..2 -> Calls \ Streams] : m[1] # m[2]}
InvokeEnds(c) == InvokeCompletes(c) \/ InvokeFails(c) \/ HardTimeout(c)

ExecNext ==
  \/ EngineStart
  \/ EngineStop
  \/ \E c \in Calls : Execute(c)
  \/ \E c \in Calls : BackoffElapses(c)
  \/ \E c \in Calls : InvokeEnds(c)
  \/ \E c \in Calls : Cancelled(c)
  \/ \E c \in Calls : ExecuteStream(c)
  \/ \E c \in Calls : StreamEnds(c)
  \/ \E i \in CallIds : Cancel(i)
  \/ \E kind \in FlowKinds, m \in Pairs : FlowStart(kind, m)
  \/ FlowStep

ExecSpec == ExecInit /\ [][ExecNext]_execVars

(***************************************************************************)
(* Fairness: a scheduled task runs, a sleep ends, the hard timeout bounds  *)
(* a provider call, a cancelled task runs once more, and a strategy whose  *)
(* await is over goes on.  Nothing bounds a stream: streaming_timeout_s    *)
(* and idle_timeout_s are never read.                                      *)
(***************************************************************************)
ExecFairness ==
  /\ \A c \in Calls : /\ WF_execVars(stage[c] = "scheduled" /\ Execute(c))
                      /\ WF_execVars(BackoffElapses(c))
                      /\ WF_execVars(InvokeEnds(c))
                      /\ WF_execVars(Cancelled(c))
  /\ WF_execVars(FlowStep)

ExecFairSpec == ExecSpec /\ ExecFairness
----------------------------------------------------------------------------
(***************************************************************************)
(* Properties                                                              *)
(***************************************************************************)
\* While a call with an id of its own awaits its provider, cancel(id) reaches
\* it: its Event is the stored one, or it has been set.  An unregister of an
\* earlier attempt or of another call never takes it away.
CancelReachesInvocation ==
  \A c \in Calls : stage[c] = "invoking" /\ ~Sharing(c)
                     => stored[IdOf[c]] = c \/ tokenSet[c]

Decided ==
  \/ flow.kind \in {"hedged", "speculative"} /\ flow.result = "completed"
  \/ flow.kind = "race" /\ flow.result # "none"

\* execute_hedged "first successful response wins, cancel rest", execute_race
\* and execute_speculative: from the result of the strategy on, while the losers
\* have only been asked to stop, none of them calls a provider again, and a late
\* answer no longer makes one complete.  (That they stop is in ExecutionsEnd.)
LosersStop ==
  [][Decided => \A c \in Launched : ~Done(c) =>
       attempt'[c] = attempt[c] /\ outcome'[c] \in {"none", "dropped"}]_execVars

\* Retries, timeouts and cancellations come to an end: the engine is again and
\* again without a call under way and without a strategy that waits, so (a call
\* being started once) every call and every strategy returns.
ExecutionsEnd ==
  []<>(/\ \A c \in Calls : stage[c] \notin {"scheduled", "invoking", "backoff"}
       /\ ~Active)
=============================================================================
