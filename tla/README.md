# AgenticOS: a TLA+ verification project

AgenticOS is an asyncio kernel that accepts tasks, plans them, hands them to
external coding agents through provider adapters, watches their health and
recovers from their failures. Around this core lie a job scheduler, a durable
queue, workflow and pipeline engines, the model router OmniRoute with its
limits and budgets, a distributed runtime, MCP servers and many service layers.
Within one process everything modelled here runs on one event loop: two steps
never overlap, but any two coroutines may interleave at each `await`, and that
is where the program is hard to get right and hard to test. Between nodes of the
distributed runtime messages are lost, repeated and reordered.

Paths below are relative to `src/agentic_os/` of the repository unless they
start with another directory. `PROJECT.json` gives the source lines of each
definition (`map`), the runs, the mutants, the hazards and the theorems.

## 1. Inventory

### Modelled

| Component | State | Operations | Interacts with |
|---|---|---|---|
| Task supervision: `core/orchestrator.py`, `core/health.py`, `core/recovery.py`, `core/registry.py` | status and attempts of each task, agents, provider bindings, failed providers, coroutines awaiting `provider.execute` | handlers of `task.created`, `task.planned`, `task.dispatched`, `agent.failed`, `health.degraded`, `provider.health`; three-attempt execution; health tick | events on the bus; providers; the clock |
| `DurableTaskQueue`: `core/persistent/scheduler_queue.py` | `_queues`, `_leased`, `_dead_letter`, the fields of each `QueueTask` | enqueue, lease, ack, nack, check_timeouts | workers that may die or answer late; files on disk |
| `BackgroundJobScheduler`: same file | `_jobs`, `_tasks`, `_handlers`, `_started`, one coroutine per job | start, stop, register_handler, schedule, cancel, pause, resume | handlers; files on disk |
| `WorkflowEngine`: `core/workflow/engine.py` | the definition, `_executions`, `_execution_tasks`, one coroutine per execution | create, update, activate, delete, execute, replay, approve, cancel, pause, resume | event bus (whose publications may raise), nodes |
| `LocalBus`: `adapters/bus/local.py` | `_queue`, `_pending`, `_workers`, `_topics` | start, stop, subscribe, unsubscribe, publish | every other component, as publisher and as handler |
| OmniRoute execution engine: `core/omniroute/executor.py` | calls with their attempt and stage, cancellation tokens by request id, contexts, the running strategy | execute with retries and hard timeout, execute_stream, parallel, quorum, hedged, race, speculative, fallback, mirror, cancel, start, stop | provider adapters |
| Circuit breaker: `core/omniroute/failover.py`; routing: `core/omniroute/router.py` | one three-state machine per provider; the candidates of each request | record_success, record_failure, allow_request, trip, half_open, close, reset, start, stop; route | the router asks the breaker about each candidate |
| OmniRoute budgets: `core/omniroute/budgets.py` | policies, overrides, usage per policy, reservations | evaluate, reserve, commit, rollback, release, cleanup of expired ones, emergency mode | the router asks before it selects |
| OmniRoute scheduler: `core/omniroute/scheduler.py` | deadline heap, fair queues, priority queues, worker slots | enqueue, dequeue, cancel, pause, resume, start, stop | clients |
| OmniRoute rate limiter: `core/omniroute/rate_limiter.py` | bucket or window of each policy, queue of delayed requests, permits | policies, evaluate, consume, permits, start, stop, dispose | clients, the clock |
| Distributed runtime: `core/distributed/` | tasks handed to peers; seen events and replicated entries; heartbeats, term and leader of each node | dispatch, acknowledgement, completion, timeouts; propagation and replication; heartbeats, elections, join and leave | other nodes over HTTP |
| `PipelineEngine`: `core/pipeline/engine.py` | the definition and its schedule, `_executions`, `_execution_tasks`, one coroutine per execution | create, update, delete, schedule, execute, rollback, cancel, pause, resume | event bus, stages |
| MCP servers: `core/mcp/registry.py`, `core/mcp/manager.py` | the server's entry, its client, its lock, calls under way, the monitor | register, update, start, stop, restart, reload, delete, check_health; start and shutdown of the manager, automatic restarts | server processes |
| MCP client: `core/mcp/client.py` (stdio) | process, `_connected`, readers, pending requests, reconnecting loops | connect, requests with timeouts, answers, notifications, reconnection, disconnect | the server's process |

What makes each of them correct, and what is hard:

* **Supervision.** One budget of attempts (ADR-0005) must hold although
  retries, fallbacks and re-dispatches of one task run in overlapping
  coroutines; recovery must end; no agent may stay RUNNING for ever; a verdict
  about an agent's health may be old when it is acted upon.
* **Queue.** A task must be in exactly one place, through leases that run out,
  workers that die or reply late, and sweeps that other operations overtake.
* **Jobs.** One loop per job, reachable through `_tasks`, however fast clients
  pause, resume, cancel, stop and start: `task.cancel()` is only a request, and
  `start()` replaces the job objects under the feet of ending loops.
* **Workflows.** The loop works on a copy of the execution and overwrites what
  clients stored; cancellation awaits the loop and then uses what it read
  before; nodes must run in order and once.
* **Bus.** A delivery is made once, in order and eventually, although the queue
  is bounded, handlers publish into the queue their workers drain, and `start()`
  may come while `stop()` waits.
* **Executions.** A call may be cancelled between any two attempts, and each
  attempt has a token of its own; what a strategy no longer needs must stop;
  everything must return.
* **Circuit breaker.** A provider on trial gets few requests, late reports do
  not change that, and the trial ends.
* **Budgets.** A reservation ends in one of four ways that test different flags:
  its cost is charged at most once, and nothing stays blocked.
* **Request scheduler.** A request waits in one of three queues and leaves it
  once; a request that is queued by its deadline is not dispatched after it,
  although `cancel` leaves the array of the heap out of order.
* **Rate limiter.** Buckets and windows are brought up to date only when a
  request asks; no distribution of requests over time may get more through
  than the configuration says.
* **Distributed runtime.** Dispatches must return whatever arrives meanwhile;
  an event is published once per node, the newest version of an entry is kept,
  and the announced leader is the one that is followed.
* **Pipelines.** As for workflows, with retries: a stage is executed no more
  often than its policy says, and the outcome is what the stages earned.
* **MCP servers.** Starts, stops, restarts, reloads, deletions and health checks
  overlap: none may lose the client of another, and a running server has a
  client.
* **MCP client.** Readers of earlier processes, late answers and reconnecting
  loops act on the same fields; a client that says it is connected must listen.

### Not modelled

Listed with reasons under `components` in `PROJECT.json`:

* *possible next* (section 7): the HTTP transports of the MCP client, the kernel
  lifecycle, snapshots and recovery of the persistent OS, multi-agent orchestration, the
  manager of engine sessions in the root services;
* *constructed only by tests*: `RuntimeSupervisor`, `RuntimeRecovery` and
  `MCPConnectionPool`;
* *no protocol to check*: the other filters and the scores of the router,
  aggregation of results, the cognitive, executive, evolution, ecosystem and
  learning layers (heuristics over floating-point statistics), registries filled
  once, pure planners, data classes and ports;
* *input and output*: HTTP and WebSocket API, command line, user interface,
  desktop integration, discovery of installed tools, worktrees, provider
  adapters, Redis and NATS clients, installers and scripts.

The lines that are modelled are a small share, about a twentieth, of the
repository. The API alone has ten thousand lines that hand requests on, the domain package is data
classes, and most of the layers above the kernel compute scores from lists they
keep themselves. None of that has steps of several actors that could be
ordered wrongly, and a model of it would restate it. Within a modelled file the
lines left out are metrics, statistics, reports, forecasts and logging.

## 2. Modules

| Module | Models | Checked by | Proofs |
|---|---|---|---|
| `Supervision` | task supervision | `MCSupervision` | `SupervisionProofs` |
| `LeaseQueue` | what a leasing queue promises (abstract) | through `DurableTaskQueue` | |
| `DurableTaskQueue` | the queue and its workers | `MCDurableTaskQueue` | `DurableTaskQueueProofs` |
| `BackgroundJobs` | the job scheduler | `MCBackgroundJobs` | `BackgroundJobsProofs` |
| `WorkflowEngine` | the workflow engine | `MCWorkflowEngine` | `EngineProofs` |
| `LocalBus` | the event bus | `MCLocalBus` | `MessagingProofs` |
| `ExecutionEngine` | execution of requests and strategies | `MCServices` | `OmniRouteProofs` |
| `CircuitBreaker` | the circuit breaker | through `OmniRoute` | `OmniRouteProofs` |
| `OmniRoute` | the router with the breaker (composition) | `MCServices`, `MCOmniRoute` | `OmniRouteProofs` |
| `BudgetEngine` | budgets and reservations | `MCServices` | `OmniRouteProofs` |
| `RequestScheduler` | the request scheduler | `MCServices` | `OmniRouteProofs` |
| `RateLimiter` | rate limits and permits | `MCServices` | `OmniRouteProofs` |
| `DistributedExecutor` | tasks handed to peers | `MCServices` | |
| `PeerState` | events and entries between nodes | `MCServices` | `MessagingProofs` |
| `LeaderElection` | heartbeats and elections | `MCServices`, itself | |
| `PipelineEngine` | the pipeline engine | `MCServices` | `EngineProofs` |
| `McpServers` | registry and manager of MCP servers | `MCServices` | `McpProofs` |
| `McpClient` | the client of one MCP server over stdio | `MCServices` | `McpProofs` |
| `Recursion` | nothing of the code: induction and recursive functions, for the proofs | | itself |

In every module a step is what the code does between two awaits at which
something else can really run. Names of variables and actions follow the code;
each variable is commented with the field it stands for. Definitions whose
name says what they get wrong (`LeaseKeepsEntry`, `RetryDispatchUncounted`,
`DisconnectNothing`, ...) stand before the definition they vary. They are
not part of the specification: they are the mutants that show that a property
can fail (section 4).

### Supervision

`status`, `attempts` and `execs` (records of the execution log) describe the
tasks; `agents` is the registry in order of insertion; `runs` the
`_run_provider` coroutines suspended in `provider.execute`, each with its agent,
its attempt (1: first, 2: same provider, 3: fallback) and its fallback agent;
`bus` the queue of pipeline events; `failed`, `registered`, `mockFallback` the
providers.

`CreateTask`, `OnTaskCreated`, `OnTaskPlanned` and `OnTaskDispatched` are the
handlers of the pipeline; `RunStep` is a return or an exception of
`provider.execute` with all that follows up to the next one (`AttemptSucceeds`,
`RetrySameProvider`, `FallbackProvider`, `GiveUp`, `FallbackReturnsError`,
`FallbackRaises`); `HeartbeatLapses` and `HealthTick` are the clock and the
monitor; `OnDegraded` and `OnFailed` the recovery manager, whose
`handle_failure` is `RecoveryExhausted` or `RecoveryRetries`.
`OnProviderHealth`, `CooldownElapses` and `RebindProvider` change the providers.
Each handler holds one of `WorkerCount` bus workers while it awaits a provider,
which is why a busy bus delays a dispatch beyond a heartbeat window.

The verification of artifacts is a free choice (an attempt ends well or not);
prompts, worktrees and notifications without a handler are left out.
A task can have several runs at once, and a completed one can be dispatched
again; both happen in the two runs that pass. `PromptLoop` says that no synchronous stretch of the event loop outlasts a
heartbeat window. The runs that report a disagreement assume it, so that they do
not rest on a stalled loop; the runs that pass do not, and are the stronger for it.

### DurableTaskQueue and LeaseQueue

`queue[id]`, `leased` and `dead[id]` are the three containers, as counts, for a
list may hold a task twice. `lapsed` are the leases whose time is over, `held`
what the workers are busy with, `sweep` the progress of `check_timeouts`, which
suspends at each save between reading `_leased` and popping what it requeued.
`Enqueue`, `Lease`, `Ack`, `Nack`, `SweepBegins`, `SweepRequeues` and
`SweepEnds` are the code; `LeaseExpires`, `WorkerDies` and `Restart` the
environment. A restart forgets what was in memory: the queue writes its tasks to
disk, but nothing reads them back.

`LeaseQueue` has one variable, the place of each task, and the five moves a
leasing queue may make. The refinement mapping `Places` reads the place off the
containers; a task in two of them is "torn", one in none "lost", and neither is
a place of `LeaseQueue`. The history variable `orderly` is true until a worker
replies after its lease ran out, another operation overtakes a sweep on a task
it noted, or the process restarts. `KeepsPromise` says that every step of an
orderly history is a step of `LeaseQueue` or leaves it alone.

### BackgroundJobs

A job object is a job and a generation (0: made by `schedule()`, n: read from
disk by the n-th `start()`); `current[j]` is the one in `_jobs`. `loops` are the
asyncio tasks with the await they are suspended in and a flag for a requested
cancellation; `handle[j]` is the one in `_tasks`. `Schedule`, `SaveWritten` and
`ScheduleReturns` split `schedule()` at its await, `Start` and `StartLoads`
split `start()`. `Halt` is both `cancel` and `pause`, which differ in the
status they write. `LoopBegins`, `LoopWakes`, `HandlerReturns`,
`HandlerRaises`, `LoopContinues` and `LoopCancelled` are the loops of both kinds
of jobs. The history variable `early` holds the jobs on which clients acted
while their `schedule()` still awaited its save; those can have two loops, and
the properties say so by excluding them.

### WorkflowEngine

One workflow with its executions. A loop has its own copy `e` of the execution,
the set `ready` of queued nodes and the await it is suspended in. `Turn` is what
the loop does from one await to the next; `Store` writes the copy to
`_executions`. `CancelExecution` ends where it awaits the loop and
`CancelReturns` goes on from there with the stale copy. `IsValid` is
`validate_workflow` without its warnings, Kahn's algorithm taken in rounds
(`Sorted`); it serves as the reference for what the loop can complete. `overlapped`
records executions resumed while an earlier loop of theirs was alive, for which
the code gives no guarantee, and `misled` those of which `cancel_execution`
removed the task of a later loop; `resumed` and `runs` serve the properties.

### LocalBus

One topic. A publication is the list of deliveries it has still to `put`;
`Feed` puts as many as fit, and `PutResumes` and `RelayResumes` go on when there
is room. Workers and the tasks of single deliveries (published while no queue
exists) are `workers`, those in `_workers` are `listed`. `stop()` is
`StopBegins`, `StopCancels`, `StopCloses` and `StopReturns`, one per await.
A queue is identified by the `start()` that made it (`qid`), because workers of
an old queue may outlive it. `due`, `begun`, `events`, `stopped` and `raced` are
history.

`Supervision` uses the bus as a FIFO queue with a fixed number of workers that
is never full. `DeliveredOnce`, `InOrder` and `Delivered` are what justifies
this view for a bus with room; the two are not composed.

### ExecutionEngine

`stage[c]` says where the coroutine of a call is suspended: in its provider, in a
backoff, in a stream. `stored` is the store of cancellation tokens, which has one
Event per request id and not per call; each attempt registers a new one
(`StartAttempt`) and unregisters it. `InvokeCompletes`, `InvokeFails` and
`HardTimeout` end an attempt and go on to the next backoff or the result;
`Cancel`, `EngineStart` and `EngineStop` come from clients. A strategy is `flow`:
its calls, how many are launched, its result. When a strategy cancels the calls it
no longer needs, `task.cancel()` is a request: the calls join `asked`
(`CancelPending`), and each ends in a step of its own (`Cancelled`), before which
tokens may be set, the engine stopped and other calls go on. `GatherReturns`, `FirstReturns`,
`RaceReturns`, `PrimaryReturns`, `LaunchSecondary` and `SequenceStep` are what
the strategies do when they wake. Two calls share a request id, as the default
id is empty.

### CircuitBreaker and OmniRoute

`circuit[p]` holds the state, the counters (saturated at what they are compared
with) and the windows of a provider; `due[p]` that its recovery timeout is over.
How many entries of a window are recent is a free choice. `OmniRoute` adds the
requests: `AskBreaker` puts one candidate to `allow_request`, with an await
between two of them, `RouteEnds` selects one of those left, `ReportOutcome`
records what became of it. `TrafficSpec` is a running breaker without
operators, with fair traffic.

### BudgetEngine

`reservations` in the order they were made, each with its policy, cost and
status; `usage` per policy with the daily amount and whether it is of today.
`Evaluate` reserves for every candidate that fits; it, `Reserve` and
`BudgetSnapshot` first clean up what has expired (`CleanUsage`,
`CleanReservations`). `charges` is history.

### RequestScheduler

The deadline queue is the array on which `heapq` works: `HeapPush` and `HeapPop`
move entries as the library does (external; `Raise` and `Sink` are the two sifts),
and `HeapRemove` takes an entry out of the array without restoring the heap, as
the code does. `Expire` is the loop that pops while the head is due. `Dequeue` looks at the sources in
the order of the algorithm. `fate` is history.

### RateLimiter

`rules[p]` is the runtime state of a policy of one of the four kinds. `UpToDate`
is what the code does to it when a request asks (`Refill`, `Drain`, `Expire1m`,
`CheckReset`); `EvaluateLimits` goes through the policies that match, in order,
and consumes from each until one refuses. Time is counted in ticks, and rates
are whole tokens per tick. `passed` is history.

### DistributedExecutor, PeerState and LeaderElection

Three modules without common state, as in the code. `Dispatch`, `PeerAnswers`
and `NoAnswer` are `dispatch()` around its await; a task whose `dispatch()` has
returned may be dispatched again. `ReceiveAcknowledgement`,
`ReceiveCompletion` and `CheckTaskTimeouts` write the status whenever they come.
In `PeerState` and `LeaderElection` what was sent stays in a set, from which it
may be received late, repeatedly or never; `PeerRestart` and `NodeRestart` lose
what is in memory. `RunElection` is `run_election` as it is called, without
explicit votes.

### PipelineEngine

Built like `WorkflowEngine`, with stages that fail (`StageRaises`, `StageFailed`),
wait (`StageRetried`) and are executed again. `PTurn` is what a loop does
between two awaits and `PStore` writes its copy of the execution back.
`disturbed` are the executions of which a publication raised or that were resumed
under a running loop.

### McpServers

A caller (a request, the kernel or the monitor) has the list of operations it
has still to perform and the await it is suspended in; `lock` is the queue of the
server's lock. Each operation runs from one await to the next while nobody else
does (`NoneRuns`). `Disconnect` leaves the connection among the `forgotten`,
because the reader that a `disconnect()` ends reconnects later (`Reconnects`), or
finds nothing to do (`StaysDisconnected`). `strayed` and `overtaken` mark what the
code loses or overwrites in known ways (section 6), so that the properties are
about all the rest. `add_server_to_monitoring` and `remove_server_from_monitoring`
of the manager are left out: no code of the repository calls them.

### McpClient

`readers` are the `_read_stdout` tasks, one per connection, each with the process
whose line it awaits; it looks up `_process` again for the next line
(`ReaderGoesOn`), and at its end resets `_connected` and starts a loop
(`ReaderLeaves`). `awaiting` are the entries of `_pending_requests` by who waits:
a user, a reader that handles a notification, or a loop. A future that is
cancelled by a timeout or with its task stays in its entry for a while or for
good, and `ReaderMeetsCancelled` is the answer that comes then. `DisconnectBegins`,
`DisconnectJoined`, `KillTimeout` and `DisconnectEnds` are `disconnect()`, one per
await. The history variable `crossed` says that the client connected while one was
under way. `McpServers` sees of all this a connection that opens, answers or fails,
closes, and opens again by itself.

## 3. Runs

| Run | Bounds | Distinct states | Shows |
|---|---|---|---|
| `supervision_safety` | 2 tasks (one with an unknown role), 2 providers of which one comes and goes, the mock, 2 attempts, 2 workers | 77 000 | the attempts of a task bound its executions and its agents, and two loops never share an agent |
| `supervision_settles` | 1 task, 2 providers, 3 attempts (the default), 2 workers, fair | 58 000 | recovery terminates, the task ends in a terminal status although runs of it overlap and it is dispatched again when completed, no agent stays RUNNING, a task is FAILED for good only when its attempts are used up |
| `supervision_degrade` | 3 tasks, 1 provider, 3 attempts, 2 workers | violation | a task is executed twice at once |
| `queue_promise` | 2 tasks of different priority, 2 workers, 2 attempts, 3 leases each | 580 000 | the queue implements `LeaseQueue` while it is used in order; waiting tasks are in the queue whatever happens |
| `jobs_control` | 1 job, 1 retry, 2 loops, 2 starts, fair | 557 000 | every loop is reachable and there is one per job, cancelled and paused jobs are quiet, jobs that are shown as scheduled while the scheduler is started run, runs end |
| `workflow_order` | 3 nodes and an unknown id, 7 graphs (chain, fork, join, shortcut, cycle, a dangling edge that is reached and one that is not), replay from anywhere, 1 loop, fair | 42 000 | an execution completes all its nodes on valid graphs, and all of them only on graphs that can be sorted; loops end, but for replays from a node with dependencies |
| `workflow_control` | 2 nodes in a chain, the second an approval gate, 1 execution, 3 loops, 1 waiting cancellation | 2 001 000 | no node runs twice, no work goes on behind an ended execution, each loop can be reached, outcomes stand |
| `workflow_approval` | 2 nodes, 1 execution | violation | an approved execution is running without a task |
| `bus` | a handler that publishes and one that does not, 1 client, 2 places, 2 workers, 2 events, 2 starts, fair | 567 000 | deliveries are made once, in order and eventually; the pool of workers matches the state of the bus |
| `services` | see below | 683 000 | the promises of the twelve modules behind `MCServices` |
| `half_open` | 2 providers, 1 probe, fair traffic | violation | a provider stays on trial for ever |
| `leader_election` | 2 nodes, 2 heartbeats, 2 terms | violation | a node announces a leader it does not follow |

**`services`** looks at one component in each behaviour: `focus`, chosen in the
initial state, says which. They share no variable, so nothing is lost by that,
and one run has room for all. Its foci and bounds:

| Focus | Bounds | Properties |
|---|---|---|
| execution | 3 calls, one of them a stream, two with the same id, 1 retry, one strategy of two calls | `CancelReachesInvocation`, `LosersStop`, `ExecutionsEnd` |
| routing | 1 provider with two models, 2 requests, thresholds and probes 2 | `ProbeTrafficLimited` |
| budget | 2 policies (one with a total, one with a daily limit), costs 1 and 2, 2 reservations, at most one override and none in an emergency | `ChargedOnce`, `NothingStaysBlocked` |
| scheduler | 6 algorithms, 2 groups, 2 levels, 3 requests, delays of 0 and 1, a priority queue of depth 1, 2 slots, time 2 | `WaitsInOnePlace`, `DeadlinesKept` |
| limit, limits, permits | 4 kinds of one policy in 5 ticks; two policies in 1; permits in 2 | `RatesKept` |
| dispatch | 2 tasks, 2 retries | `DispatchReturns` |
| events, entries | 3 nodes, 2 of which send, 2 events with a cache of 1, 1 key with 2 versions per writer | `PublishedOnce`, `NewestKept` |
| election | 2 nodes, 1 heartbeat and 1 term each | every action of elections is taken; its property is that of `leader_election` |
| schedule, stages, resumption | definitions with schedules; graphs of two stages (unrelated, chain, cycle) with one loop; one stage with two executions and two loops; 1 retry | `RetryPolicyKept`, `OutcomeEarned` |
| requests, monitoring | 2 requests; 1 request, the manager and the monitor; 2 connections, restart limit 1 | `ConnectionsAccounted`, `RunningIsServed` |
| client | 1 user, 2 processes, 2 loops, 2 retries | `ConnectedListens` |

**Why these bounds.** Interference needs two of everything that interferes:
tasks for a bus worker, workers for a leased task, loops for a job,
three for an execution, starts for a stop between them, calls for a
lock. Two attempts are the least with which a retry, a fallback and a re-dispatch
compete for the last one; three leases the least with which a task outlives a
late reply and a sweep. With three attempts and two workers two runs of one task
overlap, fall back and fail in every order, and `status` goes from completed back
to dispatched. A bus queue of two places can hold two deliveries to one handler
for two workers, and is full when two publications to two handlers meet, so that
dispatches are cut in two; with two workers a handler can wait in `put` while the
other worker makes room. Three nodes are enough
for a join, a shortcut and a cycle. With one loop at most in `workflow_order`
and one job in `jobs_control` nothing is lost: loops of different executions and
jobs share no state but the dictionaries they have their own keys in. With three
loops a cancellation can wait for a loop that is cancelled before it ran while a
third is started; with two, three properties of `workflow_control` held that are
false, as an attempt to prove them showed, and they now say when. Jobs with
two loops bounded by 2 see every overlap of an old and a new loop, not one of
three. Three requests make a heap in which a removal leaves the array out of
order. Five ticks are two intervals of refill and an odd one, and two windows;
the bound of `RatesKept` is reached for each kind of policy. A cache of one id
is exceeded by the second event. Three peers give an entry two sources and a
reader.

**Deadlock** is not checked: each of these systems may stop. The bounds on
events, leases, loops and starts are used up, or all tasks have settled. That the
bus does not stop too early is the liveness property `Delivered`; that executions
and dispatches do not, `ExecutionsEnd` and `DispatchReturns`.

**Fairness** is weak and on the program's own steps only, never on clients:
the event loop runs every ready coroutine, timers fire, and what a coroutine
awaits ends. `provider.execute` ends because adapters run their command with a
timeout; that handlers of jobs, nodes of workflows and handlers of the bus end is an
assumption the code does not enforce (`Job.timeout_s` is never read), and the
liveness properties depend on it. In `Supervision` time and the health tick are
fair too, for the kernel schedules the tick at an interval. In `ExecutionEngine`
the hard timeout bounds each provider call; nothing bounds a stream, so streams
have no fairness and `ExecutionsEnd` does not speak of them. In
`DistributedExecutor` the HTTP client's timeout of ten seconds bounds each
request. `TrafficSpec` also assumes that requests keep coming and are reported:
`half_open` shows that even then the trial may not end.

## 4. Mutants

For each property of a passing run `PROJECT.json` names a mutant: a mapped
definition and a variant of it as a plausible slip would produce it (a retry
that is not counted, a sweep that does not clear `_leased`, a resume that does not
register its task, a dispatch that starts again after waiting, a refill that
does not move its clock, a disconnect that is forgotten). With the variant
in place of the definition TLC refutes the property under the run's own
configuration.

## 5. Proofs

All constants are arbitrary, within the assumptions named in the modules
(`BoundsAssumption`, `QueueAssumption`, `JobsAssumption`, `WorkflowAssumption`,
`PipelineAssumption`, `PeerAssumption`, `RouteAssumption`, `BreakerAssumption`,
`ExecutionAssumption`, `McpAssumption`, `BudgetAssumption`,
`SchedulerAssumption`, `LimiterAssumption`, `BusAssumption`); the bounds of the
runs play no part. The assumptions say what the constants are, that graphs are
finite and, for the rate limiter, that a whole number of tokens flows per tick,
as its model counts tokens. Each property was first checked by TLC on the instance
of its run, and so were the inductive invariants that TLC can evaluate there.
They were then proved: `Init` implies the invariant, every step keeps it, it implies
the property. There is one lemma per handler or group of handlers,
resting on lemmas about sequences, records and the helpers of the model.

Every invariant and every action property that a passing run checks is proved;
what is left to TLC is liveness.

| Module | Theorems | Property of a run |
|---|---|---|
| `SupervisionProofs` | `TypeCorrect`, `AttemptsAreBounded`, `ExecutionsAreAccounted`, `LoopsAreExclusive`, `FailureIsFinal` | `AttemptsBounded`, `ExecutionsAccounted`, `OneLoopPerAgent`, `FailedOnlyWhenExhausted` |
| `DurableTaskQueueProofs` | `ImplementsLeaseQueue`, `WaitingStaysQueued`, `LeasesStay`, `BuriedWhenExhausted` | `KeepsPromise`, `WaitingIsQueued` |
| `BackgroundJobsProofs` | `LoopsAreReached`, `StoppedStaysQuiet` | `NoOrphanLoops`, `StoppedIsQuiet` |
| `EngineProofs` | `EachNodeOnce`, `NoWorkAfterTheEnd`, `CancelFindsLoops`, `OutcomesStand`, `ValidGraphsComplete`, `RetriesKept`, `OutcomesEarned` | `NodesRunOnce`, `EndedMeansIdle`, `LoopsAreReachable`, `OutcomeStands`, `CompletesValidGraphs`, `RetryPolicyKept`, `OutcomeEarned` |
| `OmniRouteProofs` | `BreakerLimitsProbes`, `RoutingUsesBreaker`, `RoutingLimitsProbes`, `CancelReaches`, `LosersNeverGoOn`, `SchedulerWaitsInOnePlace`, `SchedulerKeepsDeadlines`, `LimiterRatesKept`, `LimiterTyped`, `BudgetChargedOnce`, `BudgetNothingBlocked` | `ProbeTrafficLimited`, `CancelReachesInvocation`, `LosersStop`, `WaitsInOnePlace`, `DeadlinesKept`, `RatesKept`, `ChargedOnce`, `NothingStaysBlocked` |
| `MessagingProofs` | `EventsPublishedOnce`, `EntriesNewest`, `BusTypes`, `PoolComplete`, `DeliveriesInOnePlace`, `ClientOrderKept` | `PublishedOnce`, `NewestKept`, `PoolMatches`, `DeliveredOnce`, `InOrder` |
| `McpProofs` | `ConnectedClientListens`, `ConnectionsStayAccounted`, `RunningStaysServed` | `ConnectedListens`, `ConnectionsAccounted`, `RunningIsServed` |

**`SupervisionProofs`.** None of the bounds is inductive. A task may be executed
once for free, and that this happens only once depends on its pipeline event
being in the queue at most once. `IInv` therefore follows that event: a task has
at most one pipeline event in the queue (`OneEach`), before its first execution
it has not spent what it will get (`Budget`), an agent whose dispatch waits has
no run yet (`Waiting`), events and runs name registered agents (`Addressed`,
`RunsRegistered`), and no two runs share an agent (`Exclusive`). `FailureIsFinal`
needs besides that events and third attempts agree with the registry about tasks
(`Matching`, `FallbackTasks`). Its hypothesis `[](registered # {})` is needed:
`handle_failure` without a provider returns and leaves the task FAILED. In the
runs only the providers in `Volatile` come and go, so one is always registered;
the API can unregister every one of them (`api/app.py:8192`, `8205`).

**`DurableTaskQueueProofs`.** The invariant has two halves. `AdverseInv` holds
whatever happens. `OrderlyInv` holds while the history is orderly: the status of
a task decides which containers it is in (`Filed`), and what a sweep has noted is
still so (`SweepNoted`). In an orderly state the abstract place is then a
function of the status (`PlaceIsStatus`), and each action moves one status
(`StepSimulation`). That only exhausted tasks are dead-lettered
(`BuriedWhenExhausted`) and that leases keep their entries (`LeasesStay`, which
`KeepsPromise` contains) is proved and no longer in a run.

**`BackgroundJobsProofs`.** A job whose `schedule()` awaits its save, and on which
nobody acted meanwhile, has neither a loop nor a status set by a client
(`SavingIsNew`), so that the loop `schedule()` then starts is the only one.
`StoppedIsQuiet` speaks of interval jobs; resuming needs that paused one-shots
have no live loop either (`HaltedIsQuiet`).

**`Recursion`.** The library's induction theorems take an operator, which no
installed prover can instantiate. Here induction is about sets: a set of numbers
that has 0 and with each number the next has all of them (`Induction`), which
follows from least elements (`Least`). From it: a function on functions whose
value at a point depends on points of smaller measure only has a fixed point
(`Solution`), a loop over a sequence has a course (`LoopRuns`), and a bounded set
of numbers has a greatest element (`Greatest`). So a recursive function of the
model is shown to satisfy its own equation, and what it computes is proved with
`Induction` over the set of arguments for which it is so.

**`EngineProofs`, workflows.** The nodes a loop has executed are known to its own
copy (`LoopKnows`); they are known to the stored execution whenever no loop is
alive that will still store (`StoreKnows`), which is when `resume_execution` may
read it. One loop lives per execution (`OneLoop`), with a status that suits where
it is (`StatusFits`), and `_execution_tasks` names it or a loop cancelled before
it ran (`TaskOwn`, `TaskFits`). `OutcomesStand` is an action property that follows
from the same invariant.

`ValidGraphsComplete` compares the loop, which takes ready nodes one at a time in
any order, with the rounds of `validate_workflow`. Its invariant `KInv` says of a
loop that runs from the start that what it has completed was completed in an order
that respects the edges (`Sound`), and that no node whose predecessors are
completed was overlooked (`Offered`). At the end nothing is ready, so the
completed nodes contain every round and, being sound, are contained in the last
(`RoundsStayIn`, `RoundsTakeAll`). The property had been stated as
"completes all nodes if and only if the graph is valid". The attempt to prove
that failed for a reason: an edge between two ids that are no nodes makes a graph
invalid, but the loop never reaches it and completes every node. The property now says what holds, and
`workflow_order` has such a graph (`Stray`).

**`EngineProofs`, pipelines.** Executions of a stage are counted against the retries
of the task's own copy: at most one more, and no more when the stage is about to
be executed; where no stage is under way, what was executed is completed
(`TasksCounted`). For the outcomes `QInv` adds that an undisturbed execution has
one task, that the stored status fits where the task is (`Fit`), that its copy has
as failed at most the stage in hand and as completed what it ran itself
(`Steady`), and that the outcome was earned (`Earned`). `EntriesOwn` (an entry of
`_execution_tasks` is a task of its execution) is needed for cancellations.

**`OmniRouteProofs`, routing and execution.** While HALF_OPEN all admitted requests
but one are in `attempts` (`ProbesCounted`). The router's specification implies
the breaker's, each step of a request being one of the breaker or a stutter, so
the limit holds for routed requests by refinement. For executions: a call has a
result when it has returned (`CallsInOrder`), and the calls of a strategy differ
and begin in order (`FlowInOrder`). Once a strategy is decided, each of its calls has
returned or has been asked to cancel, and a call that was asked does nothing but end.

**`OmniRouteProofs`, the scheduler.** The two sifts of `heapq` only rearrange the
array (`Rearranged`), so a push adds one entry and a pop removes one, whether or
not the array is a heap: `HeapRemove` leaves it out of order, and nothing in the
proof needs the order. The loop that expires requests leaves the others and stops
at a head that is not due (`PopsLeave`). `SchedInv` then says that the three
queues share no request and hold together exactly the waiting ones (`Filed`).
`SchedulerKeepsDeadlines` adds that an entry of the heap has the deadline of its
request, and under the algorithms it speaks of a request elsewhere has none
(`DeadlinesFiled`).

**`OmniRouteProofs`, the rate limiter.** The state of a policy accounts for its
history (`Kept`): for every time `a`, the requests since `a` are bounded by what
is missing from the bucket and has flowed in since, by what is in the queue and
has drained from it, by the entries of the window, or by the count of the current
window and the whole windows before it. Bringing the state up to date keeps that,
letting a request through keeps it, and together with the bounds on levels it
gives the allowance for the stretches that end now; those that ended earlier were
within it then.

**`OmniRouteProofs`, the budgets.** `Booked`: an open reservation was never charged,
any other at most once, the spend of a policy is the sum of its charges, and its
reserved amount is at most the sum of what its open reservations hold. It is an
inequality because `remove_reservation` gives nothing back once the amount is
zero or less, and otherwise gives it back in full even if it becomes negative.
Sums are recursive functions whose change is proved for one appended and one
replaced amount (`TotalAppend`, `TotalChanged`); the cleanup and `Evaluate` are
loops, and `Booked` is carried through them one reservation at a time.

**`MessagingProofs`.** Between nodes: what a node published is in its cache or was
dropped from it (`Remembered`); `NewestKept` is inductive with the types.

On the bus three invariants build on each other. `TypeInv`: the types, and
nothing is queued, waits or is a task that was not decided on. `PoolInv`: what
each phase of `stop()` has done to the queue, the list of workers and
`_started` (`Phases`), and which workers are alive (`Pool`); a `start()` that
overtakes a `stop()` breaks it for good, and `raced` says so. `OnceInv`: a
handler subscribes once, the events still to be dispatched (`Events`) differ and
nothing of them was decided on, no two places hold the same delivery (`Apart`),
and unless `stop()` was called each delivery has a place or has begun (`Kept`).
For `ClientOrderKept` it contains `Order`: the queue has the events of a client in
order, a client that waits for room does so with its last event, and what comes
from `start()`, from handlers and from tasks of single deliveries is of no client.
A delivery begins at the head of the queue, so what is before it has begun.
What `_dispatch` does with a sequence of events is computed, not stepped through,
so the proof rests on `Splits`: what fits in the queue, what the suspended `put`
still holds and the events not yet dispatched have nothing in common, repeat
nothing and lose nothing. `Division` and `DeliveryAt` give the event and the
subscriber a position stands for.

**`McpProofs`.** `ConnectedListens` is inductive once the readers have their shape
(`Shape`): each step that ends a reader or changes `_process` starts a reader,
moves one to the current process, or resets `_connected`; a client that is connected
without a process, or while `disconnect()` waits, connected during a `disconnect()`
(`Crossing`), which is the one exception. The two properties of
servers rest on what the lock protects: its holder is at the head of its queue
and is the only call inside (`LockHeld`); the connection of a start is open,
named by that start only and not yet the client (`StartsOwn`); a client that is
still registered while the server is down, or while a start is under way, was
lost before (`DownIsLost`); and a deletion whose client is still the registered
one left no entry that says RUNNING, unless a health check has stored one since
(`RemovalShows`). `UnlockedStep` shows that deletions and health checks, which
take no lock, disturb none of this. The monitor's call is idle while it is not
listed (`MonitorOff`); otherwise `start_health_monitoring` would overwrite it.

Only model-checked is liveness, for fairness and ENABLED are out of the prover's
reach: `RecoveryTerminates`, `TasksSettle`, `NoGhostAgents`, `ScheduledJobsRun`,
`RunsEnd`, `LoopsEnd`, `Delivered`, `ExecutionsEnd` and `DispatchReturns`. Of
`DistributedExecutor` and `LeaderElection` nothing is proved: what the first
promises is liveness, and of the second the runs show that what its comment says
does not hold.

## 6. Where code and text disagree

Four runs end in a violation; `findings` in `PROJECT.json` quotes the text and
the lines.

1. `supervision_degrade`: the health monitor checks that a task is not executing
   when it publishes `health.degraded`; recovery does not check again when it
   handles it.
2. `workflow_approval`: `approve_workflow` starts no task.
3. `half_open`: the router asks `allow_request` about every candidate, each answer
   uses up a probe, and only one candidate is tried. HALF_OPEN has no timeout.
4. `leader_election`: the winner has one vote, and with two nodes a majority is two;
   the event is published whoever leads.

Behaviours met while modelling that no run reports. The models contain them,
unless noted; history variables keep them apart from the properties.

* *Supervision.* Recovery never looks at the status of a task: the agent orphaned
  by a successful fallback brings a completed task back.
* *Queue.* A late `ack` completes a requeued task and leaves it in the queue, to
  be leased again. A task leased again while a sweep is under way loses its new
  lease when the sweep ends. A restart loses every task. Nothing calls
  `check_timeouts`, and what it requeues is not counted against `max_attempts`.
* *Jobs.* `load_jobs` does not restore the status that `start()` tests, so no
  persisted job is scheduled after a restart: the jobs are PENDING, and
  `ScheduledJobsRun` says nothing about them. A one-shot job is COMPLETED whether
  its handler returned or raised, and one that is paused ends up CANCELLED.
  Pausing and resuming a job while `schedule()` saves it leaves two loops.
  `timeout_s` and `dependencies` are not read, and cron jobs run at an interval.
* *Workflows.* A replay from a node with dependencies never ends. A resumed loop
  skips the completed nodes without queueing their successors, so it reports
  COMPLETED with nodes that never ran. A pause can be lost under the copy the loop
  stores. `cancel_execution` of an execution whose loop had begun ends in a
  `KeyError`, after the loop was cancelled. If the loop had not begun, and the
  execution is paused and resumed before the cancellation goes on, it removes the
  task of the new loop and stores CANCELLED while that loop runs. A paused execution whose workflow is
  deleted becomes RUNNING when it is resumed, and the call then raises. A raised
  publication turns COMPLETED into FAILED. `create_workflow` accepts cycles, and an
  update of nodes or edges that keeps all their ids is ignored.
* *Bus.* With all workers in `put` on a full queue the bus stands still. A
  `start()` during `stop()` leaves a started bus without a queue and workers
  nobody lists. Publications that wait in `put` when the bus stops wait for ever.
  Events published while `start()` flushes can overtake buffered ones once the
  queue is full. A handler that unsubscribed is still called with what is queued.
* *Executions.* `cancel` takes the Event out of the store; a call that is cancelled
  in its provider is retried with a new one, and may complete. Calls with the
  same request id share one token. The context of a cancelled call stays.
* *Circuit breaker.* The request that finds the recovery timeout over is not
  counted as a probe, so one more than `half_open_probe_count` get through.
* *Budgets.* Limits do not count what is reserved. A released reservation may
  be rolled back and a committed one released: its amount is given back twice. A daily amount is
  renewed by a commit only: a limit once reached is never lifted by a new day.
* *Scheduler.* Under `fair`, `fifo` and `priority` requests with deadlines are queued
  like the rest and dispatched after their deadline. Worker slots are never given back, so `dequeue` hands out
  `worker_pool` requests in all. After `cancel` the earliest deadline need not
  come first. Round robin never serves requests with a deadline, and a deadline
  of 0 seconds is none.
* *Rate limiter.* Policies asked before the one that refuses keep the tokens they
  took. Delayed requests are never taken out of their queue, so it fills for
  good. Permits touch no bucket, and granted ones do not expire; nothing calls
  `expire_stale`. The sliding window is always a minute. Every update of a policy
  renews its bucket. Refills go over the capacity by the burst, and the borrowed
  burst is never renewed.
* *Distributed runtime.* A late acknowledgement or timeout overwrites a
  completion. Heartbeats and versions of a restarted node are rejected until its
  counters have caught up. Votes are stored and not read. An event is
  published again once its id has left the cache, and `hop_count` is never raised.
* *Pipelines.* A pause is lost under the next copy the loop stores; resuming then
  gives a second loop, which counts the retries of a stage anew. A cancellation ends in `KeyError` after the loop was
  cancelled, and a pending execution cannot be cancelled. Schedules are stored and
  never run; a rollback executes the current definition. A stage whose
  completion could not be published is retried, found completed, and skipped
  without its successors.
* *MCP servers.* A health check that a stop overtakes stores RUNNING again, one that
  a deletion overtakes brings the server back, and one that an update overtakes
  undoes it. A stop that ends after a deletion re-adds the server. A deletion
  raises `KeyError`, or removes the client of a newer start. A cancelled start
  leaves STARTING for ever, a failed one leaves its connection open. A client that a
  stop disconnected and the registry dropped starts its server again a second
  later, with a process nobody will end. Servers that
  were not running at the manager's start are not monitored, and a monitor whose
  ping is cancelled by a disconnect ends and stays listed.
* *MCP client.* A `list_changed` notification makes the reader wait for an answer
  only it could read; after thirty seconds it ends and the client reconnects.
  So does the answer to a request that was cancelled, and the end of an earlier
  process. No reconnection ends the process it replaces. The reader that
  `disconnect()` ends starts a loop, which connects again after a second; if
  the disconnect still waits, it then kills or forgets the new process, and the
  client stays connected without one.

## 7. Plan

Done: the components above and the proofs of section 5. What is left to model, most
useful first:

1. `McpServers` over `McpClient`: the connection of the one as what the other does.
2. `Lifecycle` (`core/lifecycle.py`): phases, parallel starts with timeouts, the
   reverse order of a stop. The kernel starts and stops phases in sequence; the
   repair of failed services, the part that could race, is called by tests only.
3. `Snapshots` (`core/persistent/snapshot_engine.py`): crashes between two writes.
4. An abstract FIFO bus that `LocalBus` implements while it is not saturated, used
   by `Supervision`.

A proof to follow is that the abstract FIFO bus of point 4 is implemented while
there is room.
