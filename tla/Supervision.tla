---------------------------- MODULE Supervision ----------------------------
(***************************************************************************)
(* The supervised execution of tasks: the Orchestrator                     *)
(* (core/orchestrator.py), the HealthMonitor (core/health.py) and the      *)
(* RecoveryManager (core/recovery.py) over the agent and provider          *)
(* registries (core/registry.py), joined by the event bus.                 *)
(*                                                                         *)
(* The bus is the default LocalBus: a FIFO queue emptied by a fixed number *)
(* of workers.  A handler holds its worker until it returns, and the       *)
(* handlers of task.dispatched and agent.failed await a provider's         *)
(* execute(), so a slow provider keeps a worker busy.  publish() on the    *)
(* unsaturated queue does not suspend: between two awaits of               *)
(* provider.execute() a handler is one step.                               *)
(***************************************************************************)
EXTENDS Integers, Sequences, FiniteSets

CONSTANTS
  Tasks,        \* the tasks clients create
  Providers,    \* the provider adapters known to the installation
  Mock,         \* the mock adapter (one of Providers, or not installed)
  Default,      \* settings.provider_default
  Capable,      \* Capable[t]: the providers whose capabilities fit t's role
  TestTasks,    \* tasks titled "fail on purpose", which follow the mock's path
  UnknownRoles, \* tasks created with a role nobody registered
  Volatile,     \* providers that may be unbound, rebound or reported down
  MaxAttempts,  \* settings.max_attempts
  WorkerCount,  \* worker coroutines of the bus
  PromptLoop,   \* TRUE: no synchronous stretch of the loop outlasts a heartbeat window
  MaxBacklog    \* bound: health.degraded is published onto a queue shorter than this

ASSUME BoundsAssumption == /\ MaxAttempts \in Nat
                           /\ WorkerCount \in Nat \ {0}
                           /\ MaxBacklog \in Nat
                           /\ PromptLoop \in BOOLEAN
ASSUME CapableAssumption == Capable \in [Tasks -> SUBSET Providers]
ASSUME SubsetAssumption == /\ TestTasks \subseteq Tasks
                           /\ UnknownRoles \subseteq Tasks
                           /\ Volatile \subseteq Providers

VARIABLES
  status,       \* status[t]: the task's status, "absent" before create_task
  attempts,     \* attempts[t]: task.attempts
  execs,        \* execs[t]: execution_log records, one per provider.execute call
  agents,       \* AgentRegistry._agents in insertion order; an agent is its index
  runs,         \* the _run_provider coroutines awaiting provider.execute
  bus,          \* LocalBus._queue
  failed,       \* Orchestrator._failed_providers still in their cooldown
  registered,   \* ProviderRegistry._providers
  mockFallback  \* MockProvider._fallback_mode

taskVars == <<status, attempts, execs>>
providerVars == <<failed, registered, mockFallback>>
vars == <<status, attempts, execs, agents, runs, bus, failed, registered, mockFallback>>

NoAgent == 0

TaskStatus == {"pending", "planned", "dispatched", "in_progress",
               "completed", "plan_generated", "failed"}
Terminal == {"completed", "plan_generated", "failed"}
AgentStatus == {"running", "completed", "failed", "recovering"}
PipelineTopics == {"task.created", "task.planned", "task.dispatched"}
Topics == PipelineTopics \union {"agent.failed", "health.degraded"}

Agent == [task : Tasks, provider : Providers, status : AgentStatus, stale : BOOLEAN]
Run == [agent : Nat \ {0}, step : 1..3, fallback : Nat, usable : BOOLEAN]
Event == [topic : Topics, task : Tasks, agent : Nat]

TypeOK ==
  /\ status \in [Tasks -> TaskStatus \union {"absent"}]
  /\ attempts \in [Tasks -> Nat]
  /\ execs \in [Tasks -> Nat]
  /\ agents \in Seq(Agent)
  /\ runs \subseteq Run
  /\ bus \in Seq(Event)
  /\ failed \subseteq Providers
  /\ registered \subseteq Providers
  /\ mockFallback \in BOOLEAN

Init ==
  /\ status = [t \in Tasks |-> "absent"]
  /\ attempts = [t \in Tasks |-> 0]
  /\ execs = [t \in Tasks |-> 0]
  /\ agents = <<>>
  /\ runs = {}
  /\ bus = <<>>
  /\ failed = {}
  /\ registered = Providers
  /\ mockFallback = FALSE

----------------------------------------------------------------------------
(***************************************************************************)
(* Helpers                                                                 *)
(***************************************************************************)
Msg(topic, t, a) == [topic |-> topic, task |-> t, agent |-> a]

\* AgentRegistry.spawn followed by Agent.mark_running: the only way an agent starts.
NewAgent(t, p) == [task |-> t, provider |-> p, status |-> "running", stale |-> FALSE]

\* Agent.mark_completed, mark_failed and mark_recovering on the registry.
Mark(ags, a, s) == [ags EXCEPT ![a].status = s]

\* The filters both selection loops apply: not the mock, not cooling down,
\* capabilities fit.  The preferred-agent, agent-kind and round-robin choices
\* only narrow the set, so any candidate may come out.
Candidates(t) == (registered \cap Capable[t]) \ (failed \union {Mock})

\* _select_provider: a candidate, else the default provider, else the first
\* registered one; the empty set is None.
SelectProvider(t) ==
  IF Candidates(t) # {} THEN Candidates(t)
  ELSE IF Default \in registered THEN {Default} ELSE registered

\* The mock selected while real providers cool down goes to fallback mode.
MockFallbackAfter(t, p) ==
  mockFallback \/ (Candidates(t) = {} /\ p = Mock /\ failed # {})

\* _pick_fallback_provider after _mark_provider_failed(current).
PickFallbackProvider(t, current) == Candidates(t) \ {current}

\* A worker is free to take the event at the head of the queue.
Delivers(topic) ==
  /\ bus # <<>>
  /\ Head(bus).topic = topic
  /\ Cardinality(runs) < WorkerCount

\* provider.execute() of the mock in fallback mode always raises.
Usable(p, fallbackMode) == ~(p = Mock /\ fallbackMode)

\* A _run_provider coroutine awaiting the execute() of its attempt n.
Attempt(a, n, fb, usable) ==
  [agent |-> a, step |-> n, fallback |-> fb, usable |-> usable]

\* _run_provider up to the first await of provider.execute.
Running(a, p, fallbackMode) ==
  Attempt(a, 1, NoAgent, Usable(p, fallbackMode))

TaskOf(r) == agents[r.agent].task
ProviderOf(r) == agents[r.agent].provider

\* The agent whose execute() the run awaits.
Executor(r) == IF r.step = 3 THEN r.fallback ELSE r.agent

----------------------------------------------------------------------------
(***************************************************************************)
(* The pipeline task.created -> task.planned -> task.dispatched            *)
(***************************************************************************)
CreateTask(t) ==
  /\ status[t] = "absent"
  /\ status' = [status EXCEPT ![t] = "pending"]
  /\ bus' = Append(bus, Msg("task.created", t, NoAgent))
  /\ UNCHANGED <<attempts, execs, agents, runs, providerVars>>

OnTaskCreated ==
  /\ Delivers("task.created")
  /\ LET t == Head(bus).task IN
       /\ status' = [status EXCEPT ![t] = "planned"]
       /\ bus' = Append(Tail(bus), Msg("task.planned", t, NoAgent))
  /\ UNCHANGED <<attempts, execs, agents, runs, providerVars>>

OnTaskPlanned ==
  /\ Delivers("task.planned")
  /\ LET t == Head(bus).task IN
       \/ \E p \in SelectProvider(t) :
            /\ t \notin UnknownRoles
            /\ agents' = Append(agents, NewAgent(t, p))
            /\ status' = [status EXCEPT ![t] = "dispatched"]
            /\ bus' = Append(Tail(bus), Msg("task.dispatched", t, Len(agents) + 1))
            /\ mockFallback' = MockFallbackAfter(t, p)
       \/ /\ SelectProvider(t) = {}
          /\ bus' = Tail(bus)
          /\ UNCHANGED <<status, agents, mockFallback>>
       \/ \E p \in SelectProvider(t) :    \* spawn raises KeyError, the bus swallows it
            /\ t \in UnknownRoles
            /\ bus' = Tail(bus)
            /\ mockFallback' = MockFallbackAfter(t, p)
            /\ UNCHANGED <<status, agents>>
  /\ UNCHANGED <<attempts, execs, runs, failed, registered>>

OnTaskDispatched ==
  /\ Delivers("task.dispatched")
  /\ LET t == Head(bus).task
         a == Head(bus).agent
         p == agents[a].provider
     IN \/ /\ p \in registered
           /\ status' = [status EXCEPT ![t] = "in_progress"]
           /\ execs' = [execs EXCEPT ![t] = @ + 1]
           /\ runs' = runs \union {Running(a, p, mockFallback)}
           /\ bus' = Tail(bus)
           /\ UNCHANGED agents
        \/ /\ p \notin registered          \* _fail_task: the provider was unbound
           /\ status' = [status EXCEPT ![t] = "failed"]
           /\ agents' = Mark(agents, a, "failed")
           /\ bus' = Append(Tail(bus), Msg("agent.failed", t, a))
           /\ UNCHANGED <<execs, runs>>
  /\ UNCHANGED <<attempts, providerVars>>

----------------------------------------------------------------------------
(***************************************************************************)
(* _run_provider: three attempts, each ending in _finalize_attempt         *)
(***************************************************************************)
\* Mutant: a plan without artifacts leaves the task's status alone.
AttemptSucceedsSilently(r) ==
  /\ r.usable
  /\ \E outcome \in {"completed", "in_progress"} :
       status' = [status EXCEPT ![TaskOf(r)] = outcome]
  /\ agents' = Mark(agents, Executor(r), "completed")
  /\ runs' = runs \ {r}
  /\ UNCHANGED <<attempts, execs, bus, providerVars>>

\* The attempt returned usable output: the artifacts are verified or they are not.
AttemptSucceeds(r) ==
  /\ r.usable
  /\ \E outcome \in {"completed", "plan_generated"} :
       status' = [status EXCEPT ![TaskOf(r)] = outcome]
  /\ agents' = Mark(agents, Executor(r), "completed")
  /\ runs' = runs \ {r}
  /\ UNCHANGED <<attempts, execs, bus, providerVars>>

\* Mutant: the retry does not count as an attempt.
RetryUncounted(r) ==
  /\ r.step = 1
  /\ attempts[TaskOf(r)] < MaxAttempts
  /\ execs' = [execs EXCEPT ![TaskOf(r)] = @ + 1]
  /\ runs' = (runs \ {r}) \union
               {Attempt(r.agent, 2, r.fallback, Usable(ProviderOf(r), mockFallback))}
  /\ UNCHANGED <<status, attempts, agents, bus, providerVars>>

\* Attempt 1 failed: retry on the same provider while the task has attempts left.
RetrySameProvider(r) ==
  /\ r.step = 1
  /\ attempts[TaskOf(r)] < MaxAttempts
  /\ attempts' = [attempts EXCEPT ![TaskOf(r)] = @ + 1]
  /\ execs' = [execs EXCEPT ![TaskOf(r)] = @ + 1]
  /\ runs' = (runs \ {r}) \union
               {Attempt(r.agent, 2, r.fallback, Usable(ProviderOf(r), mockFallback))}
  /\ UNCHANGED <<status, agents, bus, providerVars>>

\* The provider failed for good: attempt 2 did, or no attempt 2 was left.
ProviderSpent(r) == r.step = 2 \/ (r.step = 1 /\ attempts[TaskOf(r)] >= MaxAttempts)

\* Attempt 3: another healthy provider, driven by an agent of its own.
FallbackProvider(r) ==
  LET t == TaskOf(r) IN
  /\ ProviderSpent(r)
  /\ attempts[t] < MaxAttempts
  /\ \E p \in PickFallbackProvider(t, ProviderOf(r)) :
       agents' = Append(agents, NewAgent(t, p))
  /\ failed' = failed \union {ProviderOf(r)}
  /\ attempts' = [attempts EXCEPT ![t] = @ + 1]
  /\ execs' = [execs EXCEPT ![t] = @ + 1]
  /\ runs' = (runs \ {r}) \union
               {Attempt(r.agent, 3, Len(agents) + 1, TRUE)}
  /\ UNCHANGED <<status, bus, registered, mockFallback>>

\* Mutant: agent.failed is not published.
FailTaskQuietly(r, failing, ags) ==
  /\ status' = [status EXCEPT ![TaskOf(r)] = "failed"]
  /\ agents' = Mark(ags, failing, "failed")
  /\ runs' = runs \ {r}
  /\ UNCHANGED bus

\* _fail_task and _execute_autonomous_fallback leave the same state behind.
FailTask(r, failing, ags) ==
  /\ status' = [status EXCEPT ![TaskOf(r)] = "failed"]
  /\ agents' = Mark(ags, failing, "failed")
  /\ bus' = Append(bus, Msg("agent.failed", TaskOf(r), failing))
  /\ runs' = runs \ {r}

\* No attempt 3: no fallback provider, or no attempts left.
GiveUp(r) ==
  /\ ProviderSpent(r)
  /\ \/ attempts[TaskOf(r)] >= MaxAttempts
     \/ PickFallbackProvider(TaskOf(r), ProviderOf(r)) = {}
  /\ failed' = failed \union {ProviderOf(r)}
  /\ FailTask(r, r.agent, agents)
  /\ UNCHANGED <<attempts, execs, registered, mockFallback>>

\* Attempt 3 returned error output: the original agent is failed.
FallbackReturnsError(r) ==
  /\ r.step = 3
  /\ FailTask(r, r.agent, agents)
  /\ UNCHANGED <<attempts, execs, providerVars>>

\* Attempt 3 raised: the fallback agent is failed, the original one only on the mock path.
FallbackRaises(r) ==
  /\ r.step = 3
  /\ FailTask(r, r.fallback,
              IF ProviderOf(r) = Mock \/ TaskOf(r) \in TestTasks
              THEN Mark(agents, r.agent, "failed") ELSE agents)
  /\ UNCHANGED <<attempts, execs, providerVars>>

RunStep(r) ==
  \/ AttemptSucceeds(r)
  \/ RetrySameProvider(r)
  \/ FallbackProvider(r)
  \/ GiveUp(r)
  \/ FallbackReturnsError(r)
  \/ FallbackRaises(r)

----------------------------------------------------------------------------
(***************************************************************************)
(* HealthMonitorImpl._tick and RecoveryManagerImpl                         *)
(***************************************************************************)
\* The heartbeat window of a running agent closes; nothing refreshes it meanwhile.
\* On a prompt loop an event waits that long only while every worker is held.
HeartbeatLapses(a) ==
  /\ PromptLoop => (bus = <<>> \/ Cardinality(runs) = WorkerCount)
  /\ agents[a].status = "running"
  /\ ~agents[a].stale
  /\ agents' = [agents EXCEPT ![a].stale = TRUE]
  /\ UNCHANGED <<taskVars, runs, bus, providerVars>>

\* Mutant: agents of finished tasks are skipped as idle noise.
HealthTickSkippingFinished(a) ==
  /\ agents[a].status = "running"
  /\ agents[a].stale
  /\ status[agents[a].task] \notin Terminal \union {"in_progress"}
  /\ Len(bus) < MaxBacklog
  /\ bus' = Append(bus, Msg("health.degraded", agents[a].task, a))
  /\ UNCHANGED <<taskVars, agents, runs, providerVars>>

HealthTick(a) ==
  /\ agents[a].status = "running"
  /\ agents[a].stale
  /\ status[agents[a].task] # "in_progress"
  /\ Len(bus) < MaxBacklog
  /\ bus' = Append(bus, Msg("health.degraded", agents[a].task, a))
  /\ UNCHANGED <<taskVars, agents, runs, providerVars>>

OnDegraded ==
  /\ Delivers("health.degraded")
  /\ LET a == Head(bus).agent IN
       \/ /\ agents[a].status = "running"
          /\ agents' = Mark(agents, a, "failed")
          /\ bus' = Append(Tail(bus), Msg("agent.failed", agents[a].task, a))
       \/ /\ agents[a].status # "running"
          /\ bus' = Tail(bus)
          /\ UNCHANGED agents
  /\ UNCHANGED <<taskVars, runs, providerVars>>

\* handle_failure with the task's attempts used up.
RecoveryExhausted(t, a) ==
  /\ attempts[t] >= MaxAttempts
  /\ status' = [status EXCEPT ![t] = "failed"]
  /\ agents' = Mark(agents, a, "failed")
  /\ UNCHANGED <<attempts, execs, runs, mockFallback>>

\* Mutant: the cap is tested with <= instead of <.
RecoveryRetriesOnceMore(t, a) ==
  /\ attempts[t] <= MaxAttempts
  /\ \E p \in SelectProvider(t) :
       /\ attempts' = [attempts EXCEPT ![t] = @ + 1]
       /\ execs' = [execs EXCEPT ![t] = @ + 1]
       /\ status' = [status EXCEPT ![t] = "in_progress"]
       /\ agents' = Append(Mark(agents, a, "recovering"), NewAgent(t, p))
       /\ runs' = runs \union {Running(Len(agents) + 1, p, MockFallbackAfter(t, p))}
       /\ mockFallback' = MockFallbackAfter(t, p)

\* Mutant: the failed agent is run again instead of a fresh one.
RecoveryRetriesSameAgent(t, a) ==
  /\ attempts[t] < MaxAttempts
  /\ \E p \in SelectProvider(t) :
       /\ attempts' = [attempts EXCEPT ![t] = @ + 1]
       /\ execs' = [execs EXCEPT ![t] = @ + 1]
       /\ status' = [status EXCEPT ![t] = "in_progress"]
       /\ agents' = Mark(agents, a, "running")
       /\ runs' = runs \union {Running(a, p, MockFallbackAfter(t, p))}
       /\ mockFallback' = MockFallbackAfter(t, p)

\* handle_failure with attempts left: dispatch_task, which finds a provider or returns.
RecoveryRetries(t, a) ==
  /\ attempts[t] < MaxAttempts
  /\ \/ \E p \in SelectProvider(t) :
          /\ attempts' = [attempts EXCEPT ![t] = @ + 1]
          /\ execs' = [execs EXCEPT ![t] = @ + 1]
          /\ status' = [status EXCEPT ![t] = "in_progress"]
          /\ agents' = Append(Mark(agents, a, "recovering"), NewAgent(t, p))
          /\ runs' = runs \union {Running(Len(agents) + 1, p, MockFallbackAfter(t, p))}
          /\ mockFallback' = MockFallbackAfter(t, p)
     \/ /\ SelectProvider(t) = {}
        /\ agents' = Mark(agents, a, "recovering")
        /\ UNCHANGED <<taskVars, runs, mockFallback>>

\* Mutant: exhaustion is announced as agent.failed, the topic recovery consumes.
OnFailedRepublishes ==
  /\ Delivers("agent.failed")
  /\ LET a == Head(bus).agent IN
       \/ /\ RecoveryExhausted(agents[a].task, a)
          /\ bus' = Append(Tail(bus), Msg("agent.failed", agents[a].task, a))
       \/ /\ RecoveryRetries(agents[a].task, a)
          /\ bus' = Tail(bus)
  /\ UNCHANGED <<failed, registered>>

OnFailed ==
  /\ Delivers("agent.failed")
  /\ LET a == Head(bus).agent IN
       \/ RecoveryExhausted(agents[a].task, a)
       \/ RecoveryRetries(agents[a].task, a)
  /\ bus' = Tail(bus)
  /\ UNCHANGED <<failed, registered>>

----------------------------------------------------------------------------
(***************************************************************************)
(* Providers come, go, cool down and report their health                   *)
(***************************************************************************)
OnProviderHealth(p) ==
  /\ Cardinality(runs) < WorkerCount
  /\ \/ p \in Volatile /\ failed' = failed \union {p}
     \/ p \in failed /\ failed' = failed \ {p}
  /\ UNCHANGED <<taskVars, agents, runs, bus, registered, mockFallback>>

CooldownElapses(p) ==
  /\ p \in failed
  /\ failed' = failed \ {p}
  /\ UNCHANGED <<taskVars, agents, runs, bus, registered, mockFallback>>

RebindProvider(p) ==
  /\ p \in Volatile
  /\ \/ p \in registered /\ registered' = registered \ {p}
     \/ p \notin registered /\ registered' = registered \union {p}
  /\ UNCHANGED <<taskVars, agents, runs, bus, failed, mockFallback>>

----------------------------------------------------------------------------
Handler == OnTaskCreated \/ OnTaskPlanned \/ OnTaskDispatched \/ OnDegraded \/ OnFailed

Next ==
  \/ \E t \in Tasks : CreateTask(t)
  \/ OnTaskCreated
  \/ OnTaskPlanned
  \/ OnTaskDispatched
  \/ \E r \in runs : RunStep(r)
  \/ \E a \in 1..Len(agents) : HeartbeatLapses(a)
  \/ \E a \in 1..Len(agents) : HealthTick(a)
  \/ OnDegraded
  \/ OnFailed
  \/ \E p \in Providers : OnProviderHealth(p)
  \/ \E p \in Providers : CooldownElapses(p)
  \/ \E p \in Providers : RebindProvider(p)

Spec == Init /\ [][Next]_vars

(***************************************************************************)
(* Fairness: a free worker takes the queue's head (the event loop is       *)
(* fair); provider.execute returns or raises (adapters run the CLI under a *)
(* timeout); time passes, and the scheduler runs the health tick.          *)
(***************************************************************************)
Fairness ==
  /\ WF_vars(Handler)
  /\ WF_vars(\E r \in runs : RunStep(r))
  /\ WF_vars(\E a \in 1..Len(agents) : HeartbeatLapses(a))
  /\ WF_vars(\E a \in 1..Len(agents) : HealthTick(a))

FairSpec == Spec /\ Fairness
----------------------------------------------------------------------------
(***************************************************************************)
(* Properties                                                              *)
(***************************************************************************)
RunsOf(t) == {r \in runs : TaskOf(r) = t}
Queued(topics, t) == \E i \in 1..Len(bus) : bus[i].topic \in topics /\ bus[i].task = t

\* ADR-0005: task.attempts is the one budget every retry, fallback and
\* re-dispatch draws from, and it never exceeds settings.max_attempts, whatever
\* the interleaving of concurrent runs of the same task.
AttemptsBounded == \A t \in Tasks : attempts[t] <= MaxAttempts

\* ADR-0005 "attempt accounting is correct across re-dispatches": every call of
\* provider.execute after the first one was paid for with an attempt.
ExecutionsAccounted == \A t \in Tasks : execs[t] <= attempts[t] + 1

\* Two execution loops never drive the same agent, so mark_completed and
\* mark_failed of one loop cannot speak for another.
OneLoopPerAgent ==
  \A r1, r2 \in runs :
    r1 # r2 => {r1.agent, r1.fallback} \cap {r2.agent, r2.fallback} \subseteq {NoAgent}

\* recovery.py: "After exhaustion it marks the task FAILED and stops".  While a
\* task is FAILED with attempts left, its recovery is still on its way.
\* (For installations whose providers stay registered.)
FailedOnlyWhenExhausted ==
  \A t \in Tasks :
    status[t] = "failed" =>
      \/ attempts[t] = MaxAttempts
      \/ Queued({"agent.failed"}, t)
      \/ RunsOf(t) # {}

\* ADR-0005 "recovery is guaranteed to terminate": the retries, fallbacks,
\* degradations and re-dispatches of all tasks come to an end.
RecoveryTerminates == <>[](runs = {} /\ bus = <<>>)

\* Every created task ends in a terminal status and stays there, even when
\* several runs of it overlapped.  (Some provider is registered, the role exists.)
TasksSettle ==
  \A t \in Tasks \ UnknownRoles : [](status[t] # "absent" => <>[](status[t] \in Terminal))

\* No agent is left RUNNING without an execution: the ones a fallback orphaned
\* are found by the health monitor.
NoGhostAgents == <>[](\A a \in 1..Len(agents) : agents[a].status # "running")

\* health.py: "Do not false-degrade an agent whose task is actively executing:
\* [...] recovery would re-dispatch a healthy execution".
NoConcurrentExecution == \A t \in Tasks : Cardinality(RunsOf(t)) <= 1

=============================================================================
