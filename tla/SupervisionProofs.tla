------------------------- MODULE SupervisionProofs -------------------------
(***************************************************************************)
(* Proofs about Supervision, for any number of tasks, providers, bus       *)
(* workers and attempts.                                                   *)
(*                                                                         *)
(* The attempt budget is not inductive by itself: that the first execution *)
(* of a task is free only once depends on the event that starts it being   *)
(* in the queue at most once.  The inductive invariant IInv therefore      *)
(* follows the pipeline event of each task through the queue.              *)
(***************************************************************************)
EXTENDS Supervision, TLAPS

\* The queue q holds a pipeline event of task t.
InQueue(q, t) == \E i \in 1..Len(q) : q[i].topic \in PipelineTopics /\ q[i].task = t

\* A task has at most one pipeline event in the queue.
OneEach(q) ==
  \A i, j \in 1..Len(q) :
    (/\ q[i].topic \in PipelineTopics
     /\ q[j].topic \in PipelineTopics
     /\ q[i].task = q[j].task) => i = j

\* Events about an agent name one of the n registered agents.
Addressed(q, n) ==
  \A i \in 1..Len(q) :
    q[i].topic \notin {"task.created", "task.planned"} => q[i].agent \in 1..n

\* An agent waiting to be dispatched waits in one event only and has no run yet.
Waiting(q, rs) ==
  /\ \A i \in 1..Len(q) : q[i].topic = "task.dispatched" =>
       \A r \in rs : q[i].agent # r.agent /\ q[i].agent # r.fallback
  /\ \A i, j \in 1..Len(q) :
       (/\ q[i].topic = "task.dispatched"
        /\ q[j].topic = "task.dispatched"
        /\ q[i].agent = q[j].agent) => i = j

\* The runs' agents are registered.
RunsRegistered(rs, n) == \A r \in rs : r.agent \in 1..n /\ r.fallback \in 0..n
                                       /\ (r.step = 3 => r.fallback # 0)

Exclusive(rs) ==
  \A r1, r2 \in rs :
    r1 # r2 => /\ r1.agent # r2.agent
               /\ r1.agent # r2.fallback
               /\ r1.fallback = r2.fallback => r1.fallback = 0

Budget(q, st, at, ex) ==
  \A t \in Tasks :
    /\ at[t] <= MaxAttempts
    /\ ex[t] <= at[t] + 1
    /\ (st[t] = "absent" \/ InQueue(q, t)) => ex[t] <= at[t]
    /\ st[t] = "absent" => ~InQueue(q, t)

IInv ==
  /\ TypeOK
  /\ OneEach(bus)
  /\ Addressed(bus, Len(agents))
  /\ Waiting(bus, runs)
  /\ RunsRegistered(runs, Len(agents))
  /\ Exclusive(runs)
  /\ Budget(bus, status, attempts, execs)

----------------------------------------------------------------------------
(***************************************************************************)
(* Lemmas about the queue and the registry                                 *)
(***************************************************************************)
\* Appending an event to the queue: types, and every index but the last is as before.
LEMMA AppendShape ==
  ASSUME NEW q \in Seq(Event), NEW e \in Event
  PROVE  /\ Append(q, e) \in Seq(Event)
         /\ Len(Append(q, e)) = Len(q) + 1
         /\ Append(q, e)[Len(q) + 1] = e
         /\ \A i \in 1..Len(q) : Append(q, e)[i] = q[i]
  OBVIOUS

\* Taking the head of the queue: types, and the rest moves up by one.
LEMMA TailShape ==
  ASSUME NEW q \in Seq(Event), q # <<>>
  PROVE  /\ Tail(q) \in Seq(Event)
         /\ Len(q) \in Nat \ {0}
         /\ Len(Tail(q)) = Len(q) - 1
         /\ \A i \in 1..Len(Tail(q)) : Tail(q)[i] = q[i + 1]
         /\ Head(q) = q[1]
         /\ Head(q) \in Event
  OBVIOUS

\* An event that starts no execution keeps the pipeline events as they were.
LEMMA AppendPlain ==
  ASSUME NEW q \in Seq(Event), NEW e \in Event, e.topic \notin PipelineTopics, OneEach(q)
  PROVE  /\ OneEach(Append(q, e))
         /\ \A t \in Tasks : InQueue(Append(q, e), t) <=> InQueue(q, t)
<1>1. Len(q) \in Nat
  OBVIOUS
<1>2. /\ Len(Append(q, e)) = Len(q) + 1
      /\ Append(q, e)[Len(q) + 1] = e
      /\ \A i \in 1..Len(q) : Append(q, e)[i] = q[i]
  BY AppendShape
<1>3. \A i \in 1..Len(Append(q, e)) : i \in 1..Len(q) \/ i = Len(q) + 1
  BY <1>1, <1>2
<1>4. OneEach(Append(q, e))
  BY <1>1, <1>2, <1>3 DEF OneEach
<1>5. \A t \in Tasks : InQueue(Append(q, e), t) <=> InQueue(q, t)
  BY <1>1, <1>2, <1>3 DEF InQueue
<1> QED BY <1>4, <1>5

\* A pipeline event of a task that had none in the queue.
LEMMA AppendPipeline ==
  ASSUME NEW q \in Seq(Event), NEW e \in Event, OneEach(q), ~InQueue(q, e.task)
  PROVE  /\ OneEach(Append(q, e))
         /\ \A t \in Tasks : InQueue(Append(q, e), t) => InQueue(q, t) \/ t = e.task
<1>1. Len(q) \in Nat
  OBVIOUS
<1>2. /\ Len(Append(q, e)) = Len(q) + 1
      /\ Append(q, e)[Len(q) + 1] = e
      /\ \A i \in 1..Len(q) : Append(q, e)[i] = q[i]
  BY AppendShape
<1>3. \A i \in 1..Len(Append(q, e)) : i \in 1..Len(q) \/ i = Len(q) + 1
  BY <1>1, <1>2
<1>4. OneEach(Append(q, e))
  BY <1>1, <1>2, <1>3 DEF OneEach, InQueue
<1>5. \A t \in Tasks : InQueue(Append(q, e), t) => InQueue(q, t) \/ t = e.task
  BY <1>1, <1>2, <1>3 DEF InQueue
<1> QED BY <1>4, <1>5

\* Handling the head of the queue: no new pipeline event, and the one handled is gone.
LEMMA TailPipeline ==
  ASSUME NEW q \in Seq(Event), q # <<>>, OneEach(q)
  PROVE  /\ OneEach(Tail(q))
         /\ \A t \in Tasks : InQueue(Tail(q), t) => InQueue(q, t)
         /\ Head(q).topic \in PipelineTopics =>
              InQueue(q, Head(q).task) /\ ~InQueue(Tail(q), Head(q).task)
<1>1. /\ Len(q) \in Nat \ {0}
      /\ Len(Tail(q)) = Len(q) - 1
      /\ \A i \in 1..Len(Tail(q)) : Tail(q)[i] = q[i + 1]
      /\ Head(q) = q[1]
  BY TailShape
<1>2. \A i \in 1..Len(Tail(q)) : i + 1 \in 1..Len(q) /\ i + 1 # 1
  BY <1>1
<1>3. OneEach(Tail(q))
  BY <1>1, <1>2 DEF OneEach
<1>4. \A t \in Tasks : InQueue(Tail(q), t) => InQueue(q, t)
  BY <1>1, <1>2 DEF InQueue
<1>5. ASSUME Head(q).topic \in PipelineTopics
      PROVE  InQueue(q, Head(q).task) /\ ~InQueue(Tail(q), Head(q).task)
  <2>1. 1 \in 1..Len(q)
    BY <1>1
  <2>2. InQueue(q, Head(q).task)
    BY <1>1, <2>1, <1>5 DEF InQueue
  <2>3. ASSUME NEW i \in 1..Len(Tail(q)), Tail(q)[i].topic \in PipelineTopics,
               Tail(q)[i].task = Head(q).task
        PROVE  FALSE
    BY <1>1, <1>2, <2>1, <2>3, <1>5 DEF OneEach
  <2> QED BY <2>2, <2>3 DEF InQueue
<1> QED BY <1>3, <1>4, <1>5

\* Appending an event about a registered agent keeps events addressed.
LEMMA AppendAddressed ==
  ASSUME NEW q \in Seq(Event), NEW e \in Event, NEW n \in Nat, NEW m \in Nat, n <= m,
         Addressed(q, n),
         e.topic \notin {"task.created", "task.planned"} => e.agent \in 1..m
  PROVE  Addressed(Append(q, e), m)
<1>1. Len(q) \in Nat
  OBVIOUS
<1>2. /\ Len(Append(q, e)) = Len(q) + 1
      /\ Append(q, e)[Len(q) + 1] = e
      /\ \A i \in 1..Len(q) : Append(q, e)[i] = q[i]
  BY AppendShape
<1>3. \A i \in 1..Len(Append(q, e)) : i \in 1..Len(q) \/ i = Len(q) + 1
  BY <1>1, <1>2
<1> QED BY <1>1, <1>2, <1>3 DEF Addressed

\* Taking the head keeps events addressed, and the head names a registered agent.
LEMMA TailAddressed ==
  ASSUME NEW q \in Seq(Event), q # <<>>, NEW n \in Nat, NEW m \in Nat, n <= m, Addressed(q, n)
  PROVE  /\ Addressed(Tail(q), m)
         /\ Head(q).topic \notin {"task.created", "task.planned"} => Head(q).agent \in 1..n
<1>1. /\ Len(q) \in Nat \ {0}
      /\ Len(Tail(q)) = Len(q) - 1
      /\ \A i \in 1..Len(Tail(q)) : Tail(q)[i] = q[i + 1]
      /\ Head(q) = q[1]
  BY TailShape
<1>2. \A i \in 1..Len(Tail(q)) : i + 1 \in 1..Len(q)
  BY <1>1
<1> QED BY <1>1, <1>2 DEF Addressed

\* An event that dispatches nobody keeps the waiting agents as they were.
LEMMA AppendWaitingPlain ==
  ASSUME NEW q \in Seq(Event), NEW e \in Event, NEW rs, e.topic # "task.dispatched",
         Waiting(q, rs)
  PROVE  Waiting(Append(q, e), rs)
<1>1. Len(q) \in Nat
  OBVIOUS
<1>2. /\ Len(Append(q, e)) = Len(q) + 1
      /\ Append(q, e)[Len(q) + 1] = e
      /\ \A i \in 1..Len(q) : Append(q, e)[i] = q[i]
  BY AppendShape
<1>3. \A i \in 1..Len(Append(q, e)) : i \in 1..Len(q) \/ i = Len(q) + 1
  BY <1>1, <1>2
<1> QED BY <1>1, <1>2, <1>3 DEF Waiting

\* Taking the head keeps the waiting agents; a dispatched one waits no longer.
LEMMA TailWaiting ==
  ASSUME NEW q \in Seq(Event), q # <<>>, NEW rs, Waiting(q, rs)
  PROVE  /\ Waiting(Tail(q), rs)
         /\ Head(q).topic = "task.dispatched" =>
              /\ \A r \in rs : Head(q).agent # r.agent /\ Head(q).agent # r.fallback
              /\ \A i \in 1..Len(Tail(q)) :
                   Tail(q)[i].topic = "task.dispatched" => Tail(q)[i].agent # Head(q).agent
<1>1. /\ Len(q) \in Nat \ {0}
      /\ Len(Tail(q)) = Len(q) - 1
      /\ \A i \in 1..Len(Tail(q)) : Tail(q)[i] = q[i + 1]
      /\ Head(q) = q[1]
  BY TailShape
<1>2. \A i \in 1..Len(Tail(q)) : i + 1 \in 1..Len(q) /\ i + 1 # 1
  BY <1>1
<1>3. \A i, j \in 1..Len(Tail(q)) : i + 1 = j + 1 => i = j
  BY <1>1
<1>4. Waiting(Tail(q), rs)
  BY <1>1, <1>2, <1>3 DEF Waiting
<1>5. 1 \in 1..Len(q)
  BY <1>1
<1> QED BY <1>1, <1>2, <1>4, <1>5 DEF Waiting

\* Agent.mark_* keeps the registry's shape.
LEMMA MarkShape ==
  ASSUME NEW ags \in Seq(Agent), NEW a \in 1..Len(ags), NEW s \in AgentStatus
  PROVE  /\ Mark(ags, a, s) \in Seq(Agent)
         /\ Len(Mark(ags, a, s)) = Len(ags)
<1> DEFINE marked == [ags[a] EXCEPT !.status = s]
<1>1. ags[a] \in Agent
  OBVIOUS
<1>2. marked \in Agent
  BY <1>1 DEF Agent
<1>3. Mark(ags, a, s) = [ags EXCEPT ![a] = marked]
  BY DEF Mark
<1> HIDE DEF marked
<1>4. [ags EXCEPT ![a] = marked] \in Seq(Agent) /\ Len([ags EXCEPT ![a] = marked]) = Len(ags)
  BY <1>2
<1> QED BY <1>3, <1>4

\* A spawned agent takes the next index.
LEMMA SpawnShape ==
  ASSUME NEW ags \in Seq(Agent), NEW t \in Tasks, NEW p \in Providers
  PROVE  /\ Append(ags, NewAgent(t, p)) \in Seq(Agent)
         /\ Len(Append(ags, NewAgent(t, p))) = Len(ags) + 1
  BY DEF NewAgent, Agent, AgentStatus

\* The events the handlers publish are events.
LEMMA MsgType ==
  ASSUME NEW topic \in Topics, NEW t \in Tasks, NEW a \in Nat
  PROVE  /\ Msg(topic, t, a) \in Event
         /\ Msg(topic, t, a).topic = topic
         /\ Msg(topic, t, a).task = t
         /\ Msg(topic, t, a).agent = a
  BY DEF Msg, Event

\* What _select_provider and _pick_fallback_provider return is a known provider.
LEMMA SelectType ==
  ASSUME TypeOK, NEW t \in Tasks
  PROVE  SelectProvider(t) \subseteq Providers /\ Candidates(t) \subseteq Providers
  BY DEF SelectProvider, Candidates, TypeOK

\* A larger registry keeps events and runs addressed; fewer runs keep them exclusive.
LEMMA Monotone ==
  ASSUME NEW q \in Seq(Event), NEW rs \in SUBSET Run, NEW rs2 \in SUBSET rs,
         NEW n \in Nat, NEW m \in Nat, n <= m,
         Addressed(q, n), Waiting(q, rs), RunsRegistered(rs, n), Exclusive(rs)
  PROVE  /\ Addressed(q, m)
         /\ Waiting(q, rs2)
         /\ RunsRegistered(rs2, m)
         /\ Exclusive(rs2)
<1>1. Addressed(q, m)
  BY DEF Addressed
<1>2. Waiting(q, rs2)
  BY DEF Waiting
<1>3. RunsRegistered(rs2, m)
  BY DEF RunsRegistered
<1>4. Exclusive(rs2)
  BY DEF Exclusive
<1> QED BY <1>1, <1>2, <1>3, <1>4

\* A new run of an agent that no run and no waiting event holds.
LEMMA AddRun ==
  ASSUME NEW q \in Seq(Event), NEW rs \in SUBSET Run, NEW n \in Nat, NEW m \in Nat, n <= m,
         Waiting(q, rs), RunsRegistered(rs, n), Exclusive(rs),
         NEW x \in Run, x.agent \in 1..m, x.fallback = 0, x.step # 3,
         \A r \in rs : x.agent # r.agent /\ x.agent # r.fallback,
         \A i \in 1..Len(q) : q[i].topic = "task.dispatched" => q[i].agent # x.agent /\ q[i].agent # 0
  PROVE  /\ Waiting(q, rs \union {x})
         /\ RunsRegistered(rs \union {x}, m)
         /\ Exclusive(rs \union {x})
<1>1. Waiting(q, rs \union {x})
  BY DEF Waiting
<1>2. RunsRegistered(rs \union {x}, m)
  BY DEF RunsRegistered
<1>3. \A r \in rs : r.agent # 0
  BY DEF RunsRegistered
<1>4. x.agent # 0
  OBVIOUS
<1>5. Exclusive(rs \union {x})
  BY <1>3, <1>4 DEF Exclusive
<1> QED BY <1>1, <1>2, <1>5

\* A run that goes on to its next attempt, with its old fallback agent or a new one.
LEMMA ReplaceRun ==
  ASSUME NEW q \in Seq(Event), NEW rs \in SUBSET Run, NEW n \in Nat, NEW m \in Nat, n <= m,
         Addressed(q, n), Waiting(q, rs), RunsRegistered(rs, n), Exclusive(rs),
         NEW r \in rs, NEW x \in Run, x.agent = r.agent,
         \/ x.fallback = r.fallback /\ x.step # 3
         \/ x.fallback \in 1..m /\ n < x.fallback
  PROVE  /\ Waiting(q, (rs \ {r}) \union {x})
         /\ RunsRegistered((rs \ {r}) \union {x}, m)
         /\ Exclusive((rs \ {r}) \union {x})
<1>1. ASSUME NEW i \in 1..Len(q), q[i].topic = "task.dispatched"
      PROVE  q[i].agent # x.agent /\ q[i].agent # x.fallback
  <2>1. q[i].agent \in 1..n
    BY <1>1 DEF Addressed
  <2>2. q[i].agent # r.agent /\ q[i].agent # r.fallback
    BY <1>1 DEF Waiting
  <2> QED BY <2>1, <2>2
<1>2. Waiting(q, (rs \ {r}) \union {x})
  BY <1>1 DEF Waiting
<1>3. RunsRegistered((rs \ {r}) \union {x}, m)
  BY DEF RunsRegistered
<1>4. \A y \in rs : y.agent \in 1..n /\ y.fallback \in 0..n
  BY DEF RunsRegistered
<1>5. \A y \in rs \ {r} : /\ y.agent # x.agent
                          /\ y.agent # x.fallback
                          /\ x.agent # y.fallback
                          /\ y.fallback = x.fallback => y.fallback = 0
  BY <1>4 DEF Exclusive
<1>6. Exclusive((rs \ {r}) \union {x})
  BY <1>5 DEF Exclusive, Run
<1> QED BY <1>2, <1>3, <1>6

\* The budget of a task is respected by a step that leaves the counters alone,
\* starts no new pipeline event and makes no task absent.
LEMMA BudgetKept ==
  ASSUME NEW q, NEW q2, NEW st, NEW st2, NEW at, NEW ex,
         Budget(q, st, at, ex),
         \A t \in Tasks : InQueue(q2, t) => InQueue(q, t),
         \A t \in Tasks : st2[t] = "absent" => st[t] = "absent"
  PROVE  Budget(q2, st2, at, ex)
  BY DEF Budget

\* An execution paid for with an attempt.
LEMMA BudgetPaid ==
  ASSUME NEW q, NEW q2, NEW st, NEW st2,
         NEW at \in [Tasks -> Nat], NEW ex \in [Tasks -> Nat], NEW u \in Tasks,
         Budget(q, st, at, ex), at[u] < MaxAttempts,
         \A t \in Tasks : InQueue(q2, t) => InQueue(q, t),
         \A t \in Tasks : st2[t] = "absent" => st[t] = "absent"
  PROVE  Budget(q2, st2, [at EXCEPT ![u] = @ + 1], [ex EXCEPT ![u] = @ + 1])
  BY BoundsAssumption DEF Budget
----------------------------------------------------------------------------
(***************************************************************************)
(* Every action preserves the inductive invariant                          *)
(***************************************************************************)
\* create_task puts the one pipeline event of a task into the queue.
LEMMA CreateTaskStep ==
  ASSUME IInv, NEW t \in Tasks, CreateTask(t)
  PROVE  IInv'
<1> DEFINE e == Msg("task.created", t, NoAgent)
<1>1. e \in Event /\ e.topic = "task.created" /\ e.task = t
  BY MsgType DEF Topics, PipelineTopics, NoAgent
<1>2. bus \in Seq(Event) /\ bus' = Append(bus, e) /\ Len(agents) \in Nat
  BY DEF IInv, TypeOK, CreateTask
<1>3. ~InQueue(bus, t) /\ OneEach(bus)
  BY DEF IInv, Budget, CreateTask
<1> HIDE DEF e
<1>4. OneEach(bus') /\ \A u \in Tasks : InQueue(bus', u) => InQueue(bus, u) \/ u = t
  BY <1>1, <1>2, <1>3, AppendPipeline
<1>5. Addressed(bus', Len(agents'))
  BY <1>1, <1>2, AppendAddressed DEF IInv, CreateTask
<1>6. Waiting(bus', runs')
  BY <1>1, <1>2, AppendWaitingPlain DEF IInv, CreateTask
<1>7. TypeOK'
  <2>1. bus' \in Seq(Event)
    BY <1>1, <1>2, AppendShape
  <2> QED BY <2>1 DEF IInv, TypeOK, CreateTask, TaskStatus, providerVars
<1>8. Budget(bus', status', attempts', execs')
  <2>1. \A u \in Tasks : status'[u] = IF u = t THEN "pending" ELSE status[u]
    BY DEF CreateTask, IInv, TypeOK
  <2>2. attempts' = attempts /\ execs' = execs /\ status[t] = "absent"
    BY DEF CreateTask
  <2> QED BY <1>4, <2>1, <2>2 DEF IInv, Budget
<1>9. RunsRegistered(runs', Len(agents')) /\ Exclusive(runs')
  BY DEF IInv, CreateTask
<1> QED BY <1>4, <1>5, <1>6, <1>7, <1>8, <1>9 DEF IInv

\* _on_task_created replaces task.created by task.planned.
LEMMA OnTaskCreatedStep ==
  ASSUME IInv, OnTaskCreated
  PROVE  IInv'
<1> DEFINE t == Head(bus).task
           e == Msg("task.planned", t, NoAgent)
           q == Tail(bus)
<1>1. bus \in Seq(Event) /\ bus # <<>> /\ Len(agents) \in Nat /\ Head(bus).topic = "task.created"
  BY DEF IInv, TypeOK, OnTaskCreated, Delivers
<1>2. t \in Tasks /\ q \in Seq(Event)
  BY <1>1, TailShape DEF Event
<1>3. e \in Event /\ e.topic = "task.planned" /\ e.task = t
  BY <1>2, MsgType DEF Topics, PipelineTopics, NoAgent
<1>4. /\ OneEach(q)
      /\ \A u \in Tasks : InQueue(q, u) => InQueue(bus, u)
      /\ InQueue(bus, t)
      /\ ~InQueue(q, t)
  BY <1>1, TailPipeline DEF IInv, PipelineTopics
<1>5. /\ bus' = Append(q, e)
      /\ status' = [status EXCEPT ![t] = "planned"]
      /\ UNCHANGED <<attempts, execs, agents, runs, failed, registered, mockFallback>>
  BY DEF OnTaskCreated, providerVars
<1>6. Addressed(q, Len(agents)) /\ Waiting(q, runs)
  BY <1>1, TailAddressed, TailWaiting DEF IInv
<1> HIDE DEF e, q, t
<1>7. OneEach(bus') /\ \A u \in Tasks : InQueue(bus', u) => InQueue(bus, u)
  BY <1>2, <1>3, <1>4, <1>5, AppendPipeline
<1>8. Addressed(bus', Len(agents'))
  BY <1>1, <1>2, <1>3, <1>5, <1>6, AppendAddressed
<1>9. Waiting(bus', runs')
  BY <1>2, <1>3, <1>5, <1>6, AppendWaitingPlain
<1>10. TypeOK'
  <2>1. bus' \in Seq(Event)
    BY <1>2, <1>3, <1>5, AppendShape
  <2> QED BY <1>2, <1>5, <2>1 DEF IInv, TypeOK, TaskStatus
<1>11. Budget(bus', status', attempts', execs')
  <2>1. \A u \in Tasks : status'[u] = "absent" => status[u] = "absent"
    BY <1>5 DEF IInv, TypeOK
  <2> QED BY <1>5, <1>7, <2>1, BudgetKept DEF IInv
<1>12. RunsRegistered(runs', Len(agents')) /\ Exclusive(runs')
  BY <1>5 DEF IInv
<1> QED BY <1>7, <1>8, <1>9, <1>10, <1>11, <1>12 DEF IInv

\* A queue the handlers may leave behind: no pipeline event that was not there.
QueueKept(q) ==
  /\ q \in Seq(Event)
  /\ OneEach(q)
  /\ \A t \in Tasks : InQueue(q, t) => InQueue(bus, t)
  /\ Addressed(q, Len(agents))
  /\ Waiting(q, runs)

\* The queue itself and the queue without its head are such queues.
LEMMA KeptBase ==
  ASSUME IInv
  PROVE  QueueKept(bus) /\ (bus # <<>> => QueueKept(Tail(bus)))
<1>1. bus \in Seq(Event) /\ Len(agents) \in Nat /\ OneEach(bus)
      /\ Addressed(bus, Len(agents)) /\ Waiting(bus, runs)
  BY DEF IInv, TypeOK
<1>2. QueueKept(bus)
  BY <1>1 DEF QueueKept
<1>3. ASSUME bus # <<>> PROVE QueueKept(Tail(bus))
  <2>1. Tail(bus) \in Seq(Event)
    BY <1>1, <1>3, TailShape
  <2>2. OneEach(Tail(bus)) /\ \A t \in Tasks : InQueue(Tail(bus), t) => InQueue(bus, t)
    BY <1>1, <1>3, TailPipeline
  <2>3. Addressed(Tail(bus), Len(agents))
    BY <1>1, <1>3, TailAddressed
  <2>4. Waiting(Tail(bus), runs)
    BY <1>1, <1>3, TailWaiting
  <2> QED BY <2>1, <2>2, <2>3, <2>4 DEF QueueKept
<1> QED BY <1>2, <1>3

\* Announcing the failure or degradation of a registered agent keeps it so.
LEMMA KeptAnnounce ==
  ASSUME IInv, NEW q, QueueKept(q), NEW topic \in {"agent.failed", "health.degraded"},
         NEW t \in Tasks, NEW a \in 1..Len(agents)
  PROVE  QueueKept(Append(q, Msg(topic, t, a)))
<1> DEFINE e == Msg(topic, t, a)
<1>1. q \in Seq(Event) /\ Len(agents) \in Nat
  BY DEF QueueKept, IInv, TypeOK
<1>2. /\ e \in Event
      /\ e.topic = topic
      /\ e.agent = a
  <2>1. topic \in Topics /\ a \in Nat
    BY <1>1 DEF Topics
  <2> QED BY <2>1, MsgType
<1>3. e.topic \notin PipelineTopics /\ e.topic # "task.dispatched"
  BY <1>2 DEF PipelineTopics
<1> HIDE DEF e
<1>4. Append(q, e) \in Seq(Event)
  BY <1>1, <1>2, AppendShape
<1>5. OneEach(Append(q, e)) /\ \A u \in Tasks : InQueue(Append(q, e), u) => InQueue(bus, u)
  BY <1>1, <1>2, <1>3, AppendPlain DEF QueueKept
<1>6. Addressed(Append(q, e), Len(agents))
  BY <1>1, <1>2, AppendAddressed DEF QueueKept
<1>7. Waiting(Append(q, e), runs)
  BY <1>1, <1>2, <1>3, AppendWaitingPlain DEF QueueKept
<1>8. QueueKept(Append(q, e))
  BY <1>4, <1>5, <1>6, <1>7 DEF QueueKept
<1> QED BY <1>8 DEF e

\* Steps that start no execution: they may end runs and change what agents,
\* providers and tasks are marked as.
LEMMA QuietStep ==
  ASSUME IInv, QueueKept(bus'),
         agents' \in Seq(Agent), Len(agents') = Len(agents),
         UNCHANGED <<attempts, execs>>,
         runs' \subseteq runs,
         status' \in [Tasks -> TaskStatus \union {"absent"}],
         \A t \in Tasks : status'[t] = "absent" => status[t] = "absent",
         failed' \subseteq Providers, registered' \subseteq Providers, mockFallback' \in BOOLEAN
  PROVE  IInv'
<1>1. bus' \in Seq(Event) /\ Len(agents) \in Nat /\ runs \in SUBSET Run
  BY DEF IInv, TypeOK, QueueKept
<1>2. TypeOK'
  BY <1>1 DEF IInv, TypeOK
<1>3. /\ Addressed(bus', Len(agents'))
      /\ Waiting(bus', runs')
      /\ RunsRegistered(runs', Len(agents'))
      /\ Exclusive(runs')
  BY <1>1, Monotone DEF IInv, QueueKept
<1>4. Budget(bus', status', attempts', execs')
  BY BudgetKept DEF IInv, QueueKept
<1> QED BY <1>2, <1>3, <1>4 DEF IInv, QueueKept

\* A worker takes an event: what its head names, and what is left of the queue.
LEMMA DeliverFacts ==
  ASSUME IInv, NEW topic \in Topics, Delivers(topic)
  PROVE  /\ Head(bus) \in Event
         /\ Head(bus).topic = topic
         /\ Head(bus).task \in Tasks
         /\ QueueKept(Tail(bus))
         /\ topic \notin {"task.created", "task.planned"} =>
              /\ Head(bus).agent \in 1..Len(agents)
              /\ agents[Head(bus).agent] \in Agent
              /\ agents[Head(bus).agent].task \in Tasks
              /\ agents[Head(bus).agent].provider \in Providers
<1>1. bus \in Seq(Event) /\ bus # <<>> /\ Len(agents) \in Nat /\ agents \in Seq(Agent)
      /\ Head(bus).topic = topic
  BY DEF IInv, TypeOK, Delivers
<1>2. Head(bus) \in Event /\ Head(bus).task \in Tasks
  BY <1>1, TailShape DEF Event
<1>3. QueueKept(Tail(bus))
  BY <1>1, KeptBase
<1>4. ASSUME topic \notin {"task.created", "task.planned"}
      PROVE  Head(bus).agent \in 1..Len(agents)
  BY <1>1, <1>4, TailAddressed DEF IInv
<1>5. \A a \in 1..Len(agents) : agents[a] \in Agent /\ agents[a].task \in Tasks
                                /\ agents[a].provider \in Providers
  <2>1. \A a \in 1..Len(agents) : agents[a] \in Agent
    BY <1>1
  <2>2. \A x \in Agent : x.task \in Tasks /\ x.provider \in Providers
    BY DEF Agent
  <2> QED BY <2>1, <2>2
<1> QED BY <1>1, <1>2, <1>3, <1>4, <1>5

\* The agents a run names are registered and belong to known tasks.
LEMMA RunFacts ==
  ASSUME IInv, NEW r \in runs
  PROVE  /\ r \in Run
         /\ r.agent \in 1..Len(agents)
         /\ TaskOf(r) \in Tasks
         /\ ProviderOf(r) \in Providers
         /\ r.step = 3 => r.fallback \in 1..Len(agents)
         /\ Executor(r) \in 1..Len(agents)
<1>1. r \in Run /\ agents \in Seq(Agent) /\ Len(agents) \in Nat
  BY DEF IInv, TypeOK
<1>2. r.agent \in 1..Len(agents) /\ (r.step = 3 => r.fallback \in 1..Len(agents))
  BY <1>1 DEF IInv, RunsRegistered
<1>3. agents[r.agent] \in Agent
  BY <1>1, <1>2
<1> QED BY <1>1, <1>2, <1>3 DEF TaskOf, ProviderOf, Executor, Agent

\* _on_task_planned spawns a fresh agent and sends it to wait for its dispatch.
LEMMA OnTaskPlannedStep ==
  ASSUME IInv, OnTaskPlanned
  PROVE  IInv'
<1> DEFINE t == Head(bus).task
           q == Tail(bus)
<1>1. /\ Delivers("task.planned")
      /\ UNCHANGED <<attempts, execs, runs, failed, registered>>
  BY DEF OnTaskPlanned
<1>2. Head(bus) \in Event /\ Head(bus).topic = "task.planned" /\ t \in Tasks /\ QueueKept(q)
  BY <1>1, DeliverFacts DEF Topics, PipelineTopics
<1>3. bus \in Seq(Event) /\ bus # <<>> /\ agents \in Seq(Agent) /\ Len(agents) \in Nat
      /\ runs \in SUBSET Run
  BY <1>1 DEF IInv, TypeOK, Delivers
<1>4. \A p : MockFallbackAfter(t, p) \in BOOLEAN
  BY DEF MockFallbackAfter, IInv, TypeOK
<1>5. CASE bus' = q /\ UNCHANGED <<status, agents>> /\ mockFallback' \in BOOLEAN
  BY <1>1, <1>2, <1>3, <1>5, QuietStep DEF IInv, TypeOK
<1>6. ASSUME NEW p \in SelectProvider(t),
             agents' = Append(agents, NewAgent(t, p)),
             status' = [status EXCEPT ![t] = "dispatched"],
             bus' = Append(q, Msg("task.dispatched", t, Len(agents) + 1)),
             mockFallback' = MockFallbackAfter(t, p)
      PROVE  IInv'
  <2> DEFINE e == Msg("task.dispatched", t, Len(agents) + 1)
  <2>1. p \in Providers
    BY <1>2, <1>6, SelectType DEF IInv
  <2>2. agents' \in Seq(Agent) /\ Len(agents') = Len(agents) + 1
    BY <1>2, <1>3, <1>6, <2>1, SpawnShape
  <2>3. e \in Event /\ e.topic = "task.dispatched" /\ e.task = t /\ e.agent = Len(agents) + 1
    BY <1>2, <1>3, MsgType DEF Topics, PipelineTopics
  <2>4. InQueue(bus, t) /\ ~InQueue(q, t)
    BY <1>2, <1>3, TailPipeline DEF IInv, PipelineTopics
  <2>5. q \in Seq(Event) /\ OneEach(q) /\ Addressed(q, Len(agents)) /\ Waiting(q, runs)
        /\ \A u \in Tasks : InQueue(q, u) => InQueue(bus, u)
    BY <1>2 DEF QueueKept
  <2>6. bus' = Append(q, e)
    BY <1>6
  <2> HIDE DEF e, q, t
  <2>7. OneEach(bus') /\ \A u \in Tasks : InQueue(bus', u) => InQueue(bus, u)
    BY <2>3, <2>4, <2>5, <2>6, AppendPipeline
  <2>8. Addressed(bus', Len(agents'))
    BY SMTT(30), <1>3, <2>2, <2>3, <2>5, <2>6, AppendAddressed
  <2>9. Waiting(bus', runs')
    <3>1. /\ Len(q) \in Nat
          /\ Len(bus') = Len(q) + 1
          /\ bus'[Len(q) + 1] = e
          /\ \A i \in 1..Len(q) : bus'[i] = q[i]
      BY <2>3, <2>5, <2>6, AppendShape
    <3>2. \A i \in 1..Len(bus') : i \in 1..Len(q) \/ i = Len(q) + 1
      BY <3>1
    <3>3. \A i \in 1..Len(q) : q[i].topic = "task.dispatched" => q[i].agent \in 1..Len(agents)
      BY <2>5 DEF Addressed
    <3>4. \A r \in runs : r.agent # Len(agents) + 1 /\ r.fallback # Len(agents) + 1
      BY <1>3 DEF IInv, RunsRegistered
    <3>5. ASSUME NEW i \in 1..Len(bus'), bus'[i].topic = "task.dispatched", NEW r \in runs
          PROVE  bus'[i].agent # r.agent /\ bus'[i].agent # r.fallback
      BY <2>3, <2>5, <3>1, <3>2, <3>4, <3>5 DEF Waiting
    <3>6. ASSUME NEW i \in 1..Len(bus'), NEW j \in 1..Len(bus'),
                 bus'[i].topic = "task.dispatched", bus'[j].topic = "task.dispatched",
                 bus'[i].agent = bus'[j].agent
          PROVE  i = j
      <4>1. CASE i \in 1..Len(q) /\ j \in 1..Len(q)
        BY <2>5, <3>1, <3>6, <4>1 DEF Waiting
      <4>2. CASE i = Len(q) + 1 \/ j = Len(q) + 1
        BY <1>3, <2>3, <3>1, <3>2, <3>3, <3>6, <4>2
      <4> QED BY <3>2, <4>1, <4>2
    <3> QED BY <1>1, <3>5, <3>6 DEF Waiting
  <2>10. bus' \in Seq(Event)
    BY <2>3, <2>5, <2>6, AppendShape
  <2>11. TypeOK'
    BY <1>1, <1>4, <1>6, <2>2, <2>10 DEF IInv, TypeOK, TaskStatus
  <2>12. RunsRegistered(runs', Len(agents')) /\ Exclusive(runs')
    BY <1>1, <1>3, <2>2, Monotone, <2>5 DEF IInv
  <2>13. Budget(bus', status', attempts', execs')
    <3>1. \A u \in Tasks : status'[u] = "absent" => status[u] = "absent"
      BY <1>6 DEF IInv, TypeOK
    <3> QED BY <1>1, <2>7, <3>1, BudgetKept DEF IInv
  <2> QED BY <2>7, <2>8, <2>9, <2>11, <2>12, <2>13 DEF IInv
<1> QED BY <1>4, <1>5, <1>6 DEF OnTaskPlanned, IInv, TypeOK
\* _on_task_dispatched starts the run its event paid for, or fails the task.
LEMMA OnTaskDispatchedStep ==
  ASSUME IInv, OnTaskDispatched
  PROVE  IInv'
<1> DEFINE t == Head(bus).task
           a == Head(bus).agent
           p == agents[a].provider
           q == Tail(bus)
           x == Running(a, p, mockFallback)
<1>1. /\ Delivers("task.dispatched")
      /\ UNCHANGED <<attempts, failed, registered, mockFallback>>
  BY DEF OnTaskDispatched, providerVars
<1>2. /\ Head(bus) \in Event
      /\ Head(bus).topic = "task.dispatched"
      /\ t \in Tasks
      /\ QueueKept(q)
      /\ a \in 1..Len(agents)
  BY <1>1, DeliverFacts DEF Topics, PipelineTopics
<1>3. bus \in Seq(Event) /\ bus # <<>> /\ agents \in Seq(Agent) /\ Len(agents) \in Nat
      /\ runs \in SUBSET Run /\ mockFallback \in BOOLEAN
  BY <1>1 DEF IInv, TypeOK, Delivers
<1>4. ASSUME status' = [status EXCEPT ![t] = "in_progress"],
             execs' = [execs EXCEPT ![t] = @ + 1],
             runs' = runs \union {x},
             bus' = q, agents' = agents
      PROVE  IInv'
  <2>1. x \in Run /\ x.agent = a /\ x.fallback = 0 /\ x.step # 3
    BY <1>2, <1>3 DEF Running, Attempt, Run, Usable, NoAgent
  <2>2. q \in Seq(Event) /\ OneEach(q) /\ Addressed(q, Len(agents)) /\ Waiting(q, runs)
        /\ \A u \in Tasks : InQueue(q, u) => InQueue(bus, u)
    BY <1>2 DEF QueueKept
  <2>3. InQueue(bus, t) /\ ~InQueue(q, t)
    BY <1>2, <1>3, TailPipeline DEF IInv, PipelineTopics
  <2>4. /\ \A r \in runs : a # r.agent /\ a # r.fallback
        /\ \A i \in 1..Len(q) : q[i].topic = "task.dispatched" => q[i].agent # a
    BY <1>2, <1>3, TailWaiting DEF IInv
  <2>5. \A i \in 1..Len(q) : q[i].topic = "task.dispatched" => q[i].agent # 0
    <3>1. \A i \in 1..Len(q) : q[i].topic = "task.dispatched" => q[i].agent \in 1..Len(agents)
      BY <2>2 DEF Addressed
    <3> QED BY <1>3, <3>1
  <2> HIDE DEF x, q, a, t
  <2>6. Waiting(bus', runs') /\ RunsRegistered(runs', Len(agents')) /\ Exclusive(runs')
    <3>1. RunsRegistered(runs, Len(agents)) /\ Exclusive(runs) /\ Len(agents) <= Len(agents)
      BY <1>3 DEF IInv
    <3>2. \A i \in 1..Len(q) : q[i].topic = "task.dispatched" => q[i].agent # x.agent /\ q[i].agent # 0
      BY <2>1, <2>4, <2>5
    <3>3. x.agent \in 1..Len(agents) /\ \A r \in runs : x.agent # r.agent /\ x.agent # r.fallback
      BY <1>2, <2>1, <2>4
    <3>4. /\ Waiting(q, runs \union {x})
          /\ RunsRegistered(runs \union {x}, Len(agents))
          /\ Exclusive(runs \union {x})
      BY <1>3, <2>1, <2>2, <3>1, <3>2, <3>3, AddRun
    <3> QED BY <1>4, <3>4
  <2>7. TypeOK'
    BY <1>1, <1>2, <1>3, <1>4, <2>1, <2>2 DEF IInv, TypeOK, TaskStatus
  <2>8. Budget(bus', status', attempts', execs')
    <3>1. attempts \in [Tasks -> Nat] /\ execs \in [Tasks -> Nat]
          /\ status \in [Tasks -> TaskStatus \union {"absent"}] /\ attempts' = attempts
      BY <1>1 DEF IInv, TypeOK
    <3>2. execs[t] <= attempts[t]
      BY <1>2, <2>3 DEF IInv, Budget
    <3>3. \A u \in Tasks : /\ execs'[u] = IF u = t THEN execs[u] + 1 ELSE execs[u]
                           /\ status'[u] = IF u = t THEN "in_progress" ELSE status[u]
      BY <1>4, <3>1
    <3> QED BY <1>2, <1>4, <2>2, <2>3, <3>1, <3>2, <3>3 DEF IInv, Budget
  <2> QED BY <1>4, <2>2, <2>6, <2>7, <2>8 DEF IInv
<1>5. ASSUME status' = [status EXCEPT ![t] = "failed"],
             agents' = Mark(agents, a, "failed"),
             bus' = Append(q, Msg("agent.failed", t, a)),
             UNCHANGED <<execs, runs>>
      PROVE  IInv'
  <2>1. agents' \in Seq(Agent) /\ Len(agents') = Len(agents)
    BY <1>2, <1>3, <1>5, MarkShape DEF AgentStatus
  <2>2. QueueKept(bus')
    BY <1>2, <1>5, KeptAnnounce
  <2>3. /\ status' \in [Tasks -> TaskStatus \union {"absent"}]
        /\ \A u \in Tasks : status'[u] = "absent" => status[u] = "absent"
    BY <1>2, <1>5 DEF IInv, TypeOK, TaskStatus
  <2> QED BY <1>1, <1>5, <2>1, <2>2, <2>3, QuietStep DEF IInv, TypeOK
<1> QED BY <1>4, <1>5 DEF OnTaskDispatched

\* Attempt ends that start no other attempt.
LEMMA RunEnds ==
  ASSUME IInv, NEW r \in runs, AttemptSucceeds(r) \/ GiveUp(r) \/ FallbackReturnsError(r)
                               \/ FallbackRaises(r)
  PROVE  IInv'
<1>1. /\ r \in Run
      /\ r.agent \in 1..Len(agents)
      /\ TaskOf(r) \in Tasks
      /\ ProviderOf(r) \in Providers
      /\ r.step = 3 => r.fallback \in 1..Len(agents)
      /\ Executor(r) \in 1..Len(agents)
  BY RunFacts
<1>2. agents \in Seq(Agent) /\ QueueKept(bus) /\ failed \union {ProviderOf(r)} \subseteq Providers
      /\ failed \subseteq Providers /\ registered \subseteq Providers /\ mockFallback \in BOOLEAN
  BY <1>1, KeptBase DEF IInv, TypeOK
<1>3. \A s \in TaskStatus :
        /\ [status EXCEPT ![TaskOf(r)] = s] \in [Tasks -> TaskStatus \union {"absent"}]
        /\ \A u \in Tasks : [status EXCEPT ![TaskOf(r)] = s][u] = "absent" => status[u] = "absent"
  BY <1>1 DEF IInv, TypeOK, TaskStatus
<1>4. ASSUME NEW ags \in Seq(Agent), NEW f \in 1..Len(agents), Len(ags) = Len(agents),
             FailTask(r, f, ags), UNCHANGED <<attempts, execs, registered, mockFallback>>,
             failed' \subseteq Providers
      PROVE  IInv'
  <2>1. agents' \in Seq(Agent) /\ Len(agents') = Len(agents)
    BY <1>4, MarkShape DEF FailTask, AgentStatus
  <2>2. QueueKept(bus')
    BY <1>1, <1>2, <1>4, KeptAnnounce DEF FailTask
  <2>3. runs' \subseteq runs /\ status' = [status EXCEPT ![TaskOf(r)] = "failed"]
    BY <1>4 DEF FailTask
  <2> QED BY <1>2, <1>3, <1>4, <2>1, <2>2, <2>3, QuietStep DEF TaskStatus
<1>5. CASE AttemptSucceeds(r)
  <2>1. agents' \in Seq(Agent) /\ Len(agents') = Len(agents)
    BY <1>1, <1>2, <1>5, MarkShape DEF AttemptSucceeds, AgentStatus
  <2>2. PICK s \in {"completed", "plan_generated"} : status' = [status EXCEPT ![TaskOf(r)] = s]
    BY <1>5 DEF AttemptSucceeds
  <2>3. runs' \subseteq runs
        /\ UNCHANGED <<attempts, execs, bus, failed, registered, mockFallback>>
    BY <1>5 DEF AttemptSucceeds, providerVars
  <2> QED BY <1>2, <1>3, <2>1, <2>2, <2>3, QuietStep DEF TaskStatus
<1>6. CASE GiveUp(r)
  BY <1>1, <1>2, <1>4, <1>6 DEF GiveUp
<1>7. CASE FallbackReturnsError(r)
  BY <1>1, <1>2, <1>4, <1>7 DEF FallbackReturnsError, providerVars
<1>8. CASE FallbackRaises(r)
  <2> DEFINE ags == IF ProviderOf(r) = Mock \/ TaskOf(r) \in TestTasks
                    THEN Mark(agents, r.agent, "failed") ELSE agents
  <2>1. ags \in Seq(Agent) /\ Len(ags) = Len(agents)
    BY <1>1, <1>2, MarkShape DEF AgentStatus
  <2>2. FailTask(r, r.fallback, ags) /\ r.fallback \in 1..Len(agents)
        /\ UNCHANGED <<attempts, execs, failed, registered, mockFallback>>
    BY <1>1, <1>8 DEF FallbackRaises, providerVars
  <2> HIDE DEF ags
  <2> QED BY <1>2, <1>4, <2>1, <2>2
<1> QED BY <1>5, <1>6, <1>7, <1>8
\* Attempt 2 and attempt 3 are paid for before they start.
LEMMA RunContinues ==
  ASSUME IInv, NEW r \in runs, RetrySameProvider(r) \/ FallbackProvider(r)
  PROVE  IInv'
<1>1. /\ r \in Run
      /\ r.agent \in 1..Len(agents)
      /\ TaskOf(r) \in Tasks
      /\ ProviderOf(r) \in Providers
  BY RunFacts
<1>2. /\ agents \in Seq(Agent)
      /\ Len(agents) \in Nat
      /\ QueueKept(bus)
      /\ attempts \in [Tasks -> Nat]
      /\ execs \in [Tasks -> Nat]
      /\ runs \in SUBSET Run
      /\ mockFallback \in BOOLEAN
      /\ failed \subseteq Providers
      /\ registered \subseteq Providers
  BY KeptBase DEF IInv, TypeOK
<1>3. /\ bus' = bus
      /\ status' = status
      /\ attempts[TaskOf(r)] < MaxAttempts
      /\ attempts' = [attempts EXCEPT ![TaskOf(r)] = @ + 1]
      /\ execs' = [execs EXCEPT ![TaskOf(r)] = @ + 1]
      /\ registered' = registered
      /\ mockFallback' = mockFallback
  BY DEF RetrySameProvider, FallbackProvider, providerVars
<1>4. Budget(bus', status', attempts', execs')
  BY <1>1, <1>2, <1>3, BudgetPaid DEF IInv
<1>5. ASSUME NEW x \in Run, NEW m \in Nat, Len(agents) <= m, x.agent = r.agent,
             \/ x.fallback = r.fallback /\ x.step # 3
             \/ x.fallback \in 1..m /\ Len(agents) < x.fallback,
             runs' = (runs \ {r}) \union {x},
             agents' \in Seq(Agent), Len(agents') = m, failed' \subseteq Providers
      PROVE  IInv'
  <2>1. bus \in Seq(Event) /\ OneEach(bus) /\ Addressed(bus, Len(agents)) /\ Waiting(bus, runs)
        /\ RunsRegistered(runs, Len(agents)) /\ Exclusive(runs)
    BY DEF IInv, TypeOK
  <2>2. Waiting(bus', runs') /\ RunsRegistered(runs', Len(agents')) /\ Exclusive(runs')
    BY <1>2, <1>3, <1>5, <2>1, ReplaceRun
  <2>3. Addressed(bus', Len(agents'))
    BY <1>2, <1>3, <1>5, <2>1, Monotone
  <2>4. TypeOK'
    <3>1. attempts' \in [Tasks -> Nat] /\ execs' \in [Tasks -> Nat]
      BY <1>1, <1>2, <1>3
    <3>2. runs' \subseteq Run
      BY <1>2, <1>5
    <3> QED BY <1>2, <1>3, <1>5, <3>1, <3>2 DEF IInv, TypeOK
  <2> QED BY <1>3, <1>4, <2>1, <2>2, <2>3, <2>4 DEF IInv
<1>6. CASE RetrySameProvider(r)
  <2> DEFINE x == Attempt(r.agent, 2, r.fallback, Usable(ProviderOf(r), mockFallback))
  <2>1. x \in Run /\ x.agent = r.agent /\ x.fallback = r.fallback /\ x.step # 3
    BY <1>1 DEF Run, Usable, Attempt
  <2>2. runs' = (runs \ {r}) \union {x} /\ agents' = agents /\ failed' = failed
    BY <1>6 DEF RetrySameProvider, providerVars
  <2> HIDE DEF x
  <2> QED BY <1>2, <1>5, <2>1, <2>2
<1>7. CASE FallbackProvider(r)
  <2> DEFINE x == Attempt(r.agent, 3, Len(agents) + 1, TRUE)
  <2>1. x \in Run /\ x.agent = r.agent /\ x.fallback = Len(agents) + 1
    BY <1>1, <1>2 DEF Run, Attempt
  <2>2. PICK p \in PickFallbackProvider(TaskOf(r), ProviderOf(r)) :
          agents' = Append(agents, NewAgent(TaskOf(r), p))
    BY <1>7 DEF FallbackProvider
  <2>3. p \in Providers
    BY <1>1, <2>2, SelectType DEF PickFallbackProvider, IInv
  <2>4. agents' \in Seq(Agent) /\ Len(agents') = Len(agents) + 1
    BY <1>1, <1>2, <2>2, <2>3, SpawnShape
  <2>5. runs' = (runs \ {r}) \union {x} /\ failed' \subseteq Providers
    BY <1>1, <1>2, <1>7 DEF FallbackProvider
  <2> HIDE DEF x
  <2>6. x.fallback \in 1..(Len(agents) + 1) /\ Len(agents) < x.fallback
        /\ Len(agents) + 1 \in Nat /\ Len(agents) <= Len(agents) + 1
    BY <1>2, <2>1
  <2> QED BY <1>5, <2>1, <2>4, <2>5, <2>6
<1> QED BY <1>6, <1>7

\* RecoveryManager: exhaustion, or a re-dispatch paid for with an attempt.
LEMMA OnFailedStep ==
  ASSUME IInv, OnFailed
  PROVE  IInv'
<1> DEFINE a == Head(bus).agent
           t == agents[a].task
           q == Tail(bus)
<1>1. Delivers("agent.failed") /\ bus' = q /\ UNCHANGED <<failed, registered>>
  BY DEF OnFailed
<1>2. a \in 1..Len(agents) /\ t \in Tasks /\ QueueKept(q)
  BY <1>1, DeliverFacts DEF Topics
<1>3. /\ agents \in Seq(Agent)
      /\ Len(agents) \in Nat
      /\ attempts \in [Tasks -> Nat]
      /\ execs \in [Tasks -> Nat]
      /\ status \in [Tasks -> TaskStatus \union {"absent"}]
      /\ runs \in SUBSET Run
      /\ mockFallback \in BOOLEAN
      /\ failed \subseteq Providers
      /\ registered \subseteq Providers
  BY DEF IInv, TypeOK
<1>4. \A s \in AgentStatus : /\ Mark(agents, a, s) \in Seq(Agent)
                             /\ Len(Mark(agents, a, s)) = Len(agents)
  BY <1>2, <1>3, MarkShape
<1> HIDE DEF a, t, q
<1>5. CASE RecoveryExhausted(t, a)
  <2>1. /\ status' = [status EXCEPT ![t] = "failed"]
        /\ agents' = Mark(agents, a, "failed")
        /\ UNCHANGED <<attempts, execs, runs, mockFallback>>
    BY <1>5 DEF RecoveryExhausted
  <2>2. /\ status' \in [Tasks -> TaskStatus \union {"absent"}]
        /\ \A u \in Tasks : status'[u] = "absent" => status[u] = "absent"
    BY <1>2, <1>3, <2>1 DEF TaskStatus
  <2> QED BY <1>1, <1>2, <1>3, <1>4, <2>1, <2>2, QuietStep DEF AgentStatus
<1>6. CASE /\ agents' = Mark(agents, a, "recovering")
           /\ UNCHANGED <<taskVars, runs, mockFallback>>
  BY <1>1, <1>2, <1>3, <1>4, <1>6, QuietStep DEF AgentStatus, taskVars
<1>7. ASSUME NEW p \in SelectProvider(t), attempts[t] < MaxAttempts,
             attempts' = [attempts EXCEPT ![t] = @ + 1],
             execs' = [execs EXCEPT ![t] = @ + 1],
             status' = [status EXCEPT ![t] = "in_progress"],
             agents' = Append(Mark(agents, a, "recovering"), NewAgent(t, p)),
             runs' = runs \union {Running(Len(agents) + 1, p, MockFallbackAfter(t, p))},
             mockFallback' = MockFallbackAfter(t, p)
      PROVE  IInv'
  <2> DEFINE n == Len(agents)
             x == Running(n + 1, p, MockFallbackAfter(t, p))
  <2>1. p \in Providers
    BY <1>2, <1>7, SelectType DEF IInv
  <2>2. agents' \in Seq(Agent) /\ Len(agents') = n + 1
    BY ZenonT(40), <1>2, <1>3, <1>4, <1>7, <2>1, SpawnShape DEF AgentStatus
  <2>3. mockFallback' \in BOOLEAN
    BY <1>3, <1>7 DEF MockFallbackAfter
  <2>4. x \in Run /\ x.agent = n + 1 /\ x.fallback = 0 /\ x.step # 3
    BY <1>3 DEF Running, Attempt, Run, Usable, NoAgent
  <2>5. q \in Seq(Event) /\ OneEach(q) /\ Addressed(q, n) /\ Waiting(q, runs)
        /\ (\A u \in Tasks : InQueue(q, u) => InQueue(bus, u))
        /\ RunsRegistered(runs, n) /\ Exclusive(runs) /\ n \in Nat
    BY <1>2, <1>3 DEF QueueKept, IInv
  <2>6. runs' = runs \union {x} /\ bus' = q
    BY <1>1, <1>7
  <2> HIDE DEF x, n
  <2>7. \A r \in runs : x.agent # r.agent /\ x.agent # r.fallback
    BY <2>4, <2>5 DEF RunsRegistered
  <2>8. \A i \in 1..Len(q) :
          q[i].topic = "task.dispatched" => q[i].agent # x.agent /\ q[i].agent # 0
    <3>1. \A i \in 1..Len(q) : q[i].topic = "task.dispatched" => q[i].agent \in 1..n
      BY <2>5 DEF Addressed
    <3> QED BY <2>4, <2>5, <3>1
  <2>9. x.agent \in 1..(n + 1) /\ n + 1 \in Nat /\ n <= n + 1
    BY <2>4, <2>5
  <2>10. Waiting(bus', runs') /\ RunsRegistered(runs', Len(agents')) /\ Exclusive(runs')
    BY <1>3, <2>2, <2>4, <2>5, <2>6, <2>7, <2>8, <2>9, AddRun
  <2>11. Addressed(bus', Len(agents'))
    BY <1>3, <2>2, <2>5, <2>6, <2>9, Monotone
  <2>12. /\ status' \in [Tasks -> TaskStatus \union {"absent"}]
         /\ \A u \in Tasks : status'[u] = "absent" => status[u] = "absent"
    BY <1>2, <1>3, <1>7 DEF TaskStatus
  <2>13. Budget(bus', status', attempts', execs')
    BY <1>2, <1>3, <1>7, <2>5, <2>6, <2>12, BudgetPaid DEF IInv
  <2>14. TypeOK'
    <3>1. attempts' \in [Tasks -> Nat] /\ execs' \in [Tasks -> Nat]
      BY <1>2, <1>3, <1>7
    <3>2. runs' \subseteq Run
      BY <1>3, <2>4, <2>6
    <3> QED BY <1>1, <1>3, <2>2, <2>3, <2>5, <2>6, <2>12, <3>1, <3>2 DEF TypeOK
  <2> QED BY <2>5, <2>6, <2>10, <2>11, <2>13, <2>14 DEF IInv
<1>8. RecoveryExhausted(t, a) \/ RecoveryRetries(t, a)
  BY DEF OnFailed, a, t
<1> QED BY <1>5, <1>6, <1>7, <1>8 DEF RecoveryRetries
\* The remaining actions announce, degrade or reconfigure, but start nothing.
LEMMA OtherSteps ==
  ASSUME IInv,
         \/ \E a \in 1..Len(agents) : HeartbeatLapses(a) \/ HealthTick(a)
         \/ OnDegraded
         \/ \E p \in Providers : OnProviderHealth(p) \/ CooldownElapses(p) \/ RebindProvider(p)
  PROVE  IInv'
<1>1. /\ agents \in Seq(Agent)
      /\ Len(agents) \in Nat
      /\ status \in [Tasks -> TaskStatus \union {"absent"}]
      /\ failed \subseteq Providers
      /\ registered \subseteq Providers
      /\ mockFallback \in BOOLEAN
      /\ QueueKept(bus)
  BY KeptBase DEF IInv, TypeOK
<1>2. \A a \in 1..Len(agents) : agents[a] \in Agent /\ agents[a].task \in Tasks
  <2>1. \A a \in 1..Len(agents) : agents[a] \in Agent
    BY <1>1
  <2> QED BY <2>1 DEF Agent
<1>3. ASSUME NEW a \in 1..Len(agents), HeartbeatLapses(a)
      PROVE  IInv'
  <2> DEFINE aged == [agents[a] EXCEPT !.stale = TRUE]
  <2>1. aged \in Agent
    BY <1>2 DEF Agent
  <2>2. /\ agents' = [agents EXCEPT ![a] = aged]
        /\ UNCHANGED <<status, attempts, execs, runs, bus, failed, registered, mockFallback>>
    BY <1>3 DEF HeartbeatLapses, taskVars, providerVars
  <2> HIDE DEF aged
  <2>3. agents' \in Seq(Agent) /\ Len(agents') = Len(agents)
    BY <1>1, <2>1, <2>2
  <2> QED BY <1>1, <2>2, <2>3, QuietStep
<1>4. ASSUME NEW a \in 1..Len(agents), HealthTick(a)
      PROVE  IInv'
  <2>1. /\ bus' = Append(bus, Msg("health.degraded", agents[a].task, a))
        /\ UNCHANGED <<status, attempts, execs, agents, runs, failed, registered, mockFallback>>
    BY <1>4 DEF HealthTick, taskVars, providerVars
  <2>2. QueueKept(bus')
    BY <1>1, <1>2, <2>1, KeptAnnounce
  <2> QED BY <1>1, <2>1, <2>2, QuietStep
<1>5. CASE OnDegraded
  <2> DEFINE a == Head(bus).agent
  <2>1. /\ Delivers("health.degraded")
        /\ UNCHANGED <<status, attempts, execs, runs, failed, registered, mockFallback>>
    BY <1>5 DEF OnDegraded, taskVars, providerVars
  <2>2. a \in 1..Len(agents) /\ QueueKept(Tail(bus))
    BY <2>1, DeliverFacts DEF Topics
  <2>3. CASE bus' = Tail(bus) /\ agents' = agents
    BY <1>1, <2>1, <2>2, <2>3, QuietStep
  <2>4. CASE /\ agents' = Mark(agents, a, "failed")
             /\ bus' = Append(Tail(bus), Msg("agent.failed", agents[a].task, a))
    <3>1. agents' \in Seq(Agent) /\ Len(agents') = Len(agents)
      BY <1>1, <2>2, <2>4, MarkShape DEF AgentStatus
    <3>2. QueueKept(bus')
      BY <1>2, <2>2, <2>4, KeptAnnounce
    <3> QED BY <1>1, <2>1, <3>1, <3>2, QuietStep
  <2> QED BY <1>5, <2>3, <2>4 DEF OnDegraded
<1>6. ASSUME NEW p \in Providers,
             OnProviderHealth(p) \/ CooldownElapses(p) \/ RebindProvider(p)
      PROVE  IInv'
  <2>1. /\ UNCHANGED <<status, attempts, execs, agents, runs, bus, mockFallback>>
        /\ failed' \subseteq Providers
        /\ registered' \subseteq Providers
    BY <1>1, <1>6 DEF OnProviderHealth, CooldownElapses, RebindProvider, taskVars
  <2> QED BY <1>1, <2>1, QuietStep
<1> QED BY <1>3, <1>4, <1>5, <1>6

\* The inductive step: one case per disjunct of the next-state relation.
LEMMA Inductive ==
  ASSUME IInv, [Next]_vars
  PROVE  IInv'
<1>1. CASE UNCHANGED vars
  BY <1>1 DEF IInv, TypeOK, vars
<1>2. CASE \E t \in Tasks : CreateTask(t)
  BY <1>2, CreateTaskStep
<1>3. CASE OnTaskCreated
  BY <1>3, OnTaskCreatedStep
<1>4. CASE OnTaskPlanned
  BY <1>4, OnTaskPlannedStep
<1>5. CASE OnTaskDispatched
  BY <1>5, OnTaskDispatchedStep
<1>6. CASE \E r \in runs : RunStep(r)
  BY <1>6, RunEnds, RunContinues DEF RunStep
<1>7. CASE OnFailed
  BY <1>7, OnFailedStep
<1>8. CASE \/ \E a \in 1..Len(agents) : HeartbeatLapses(a) \/ HealthTick(a)
           \/ OnDegraded
           \/ \E p \in Providers : OnProviderHealth(p) \/ CooldownElapses(p) \/ RebindProvider(p)
  BY <1>8, OtherSteps
<1> QED BY <1>1, <1>2, <1>3, <1>4, <1>5, <1>6, <1>7, <1>8 DEF Next

\* The initial state satisfies the inductive invariant.
LEMMA Initially == Init => IInv
<1> SUFFICES ASSUME Init PROVE IInv
  OBVIOUS
<1>1. bus = <<>> /\ Len(bus) = 0 /\ runs = {} /\ agents = <<>> /\ Len(agents) = 0
  BY DEF Init
<1>2. TypeOK
  <2>1. status \in [Tasks -> TaskStatus \union {"absent"}]
    BY DEF Init
  <2>2. attempts \in [Tasks -> Nat] /\ execs \in [Tasks -> Nat]
    BY DEF Init
  <2>3. agents \in Seq(Agent) /\ bus \in Seq(Event)
    BY <1>1
  <2>4. runs \subseteq Run /\ failed \subseteq Providers /\ registered \subseteq Providers
    BY DEF Init
  <2>5. mockFallback \in BOOLEAN
    BY DEF Init
  <2> QED BY <2>1, <2>2, <2>3, <2>4, <2>5 DEF TypeOK
<1>3. OneEach(bus) /\ Addressed(bus, Len(agents)) /\ Waiting(bus, runs)
  BY <1>1 DEF OneEach, Addressed, Waiting
<1>4. RunsRegistered(runs, Len(agents)) /\ Exclusive(runs)
  BY <1>1 DEF RunsRegistered, Exclusive
<1>5. \A t \in Tasks : ~InQueue(bus, t)
  BY <1>1 DEF InQueue
<1>6. Budget(bus, status, attempts, execs)
  BY <1>5, BoundsAssumption DEF Init, Budget
<1> QED BY <1>2, <1>3, <1>4, <1>6 DEF IInv

----------------------------------------------------------------------------
(***************************************************************************)
(* The theorems                                                            *)
(***************************************************************************)
\* The inductive invariant holds throughout every behaviour of the supervisor.
THEOREM Invariance == Spec => []IInv
  BY Initially, Inductive, PTL DEF Spec

\* Type correctness of the supervisor's state.
THEOREM TypeCorrect == Spec => []TypeOK
<1>1. IInv => TypeOK
  BY DEF IInv
<1> QED BY <1>1, Invariance, PTL

\* ADR-0005: no interleaving of retries, fallbacks, degradations and
\* re-dispatches takes a task past settings.max_attempts.
THEOREM AttemptsAreBounded == Spec => []AttemptsBounded
<1>1. IInv => AttemptsBounded
  BY DEF IInv, Budget, AttemptsBounded
<1> QED BY <1>1, Invariance, PTL

\* ADR-0005: every provider.execute after the first one was paid for.
THEOREM ExecutionsAreAccounted == Spec => []ExecutionsAccounted
<1>1. IInv => ExecutionsAccounted
  BY DEF IInv, Budget, ExecutionsAccounted
<1> QED BY <1>1, Invariance, PTL

\* Two _run_provider loops never hold the same agent.
THEOREM LoopsAreExclusive == Spec => []OneLoopPerAgent
<1>1. IInv => OneLoopPerAgent
  <2> SUFFICES ASSUME IInv, NEW r1 \in runs, NEW r2 \in runs, r1 # r2
               PROVE  {r1.agent, r1.fallback} \cap {r2.agent, r2.fallback} \subseteq {NoAgent}
    BY DEF OneLoopPerAgent
  <2> QED BY DEF IInv, Exclusive, NoAgent
<1> QED BY <1>1, Invariance, PTL

----------------------------------------------------------------------------
(***************************************************************************)
(* A failed task with attempts left is being recovered.  That a queued     *)
(* agent.failed recovers the task it names, and not another one, needs the *)
(* events and the runs to agree with the registry about tasks.             *)
(***************************************************************************)
\* Events that dispatch or fail an agent name the agent's task.
Matching(q, ags) ==
  \A i \in 1..Len(q) : q[i].topic \in {"task.dispatched", "agent.failed"} => ags[q[i].agent].task = q[i].task

\* The agent of a third attempt works on the task of the run's own agent.
FallbackTasks == \A r \in runs : r.step = 3 => agents[r.fallback].task = agents[r.agent].task

\* The failure of an agent of t is in the queue.
Announced(q, t) == \E i \in 1..Len(q) : q[i].topic = "agent.failed" /\ q[i].task = t

FInv == Matching(bus, agents) /\ FallbackTasks /\ FailedOnlyWhenExhausted

\* Agents are never removed and keep their tasks.
AgentsKept ==
  /\ Len(agents) <= Len(agents')
  /\ \A a \in 1..Len(agents) : agents'[a].task = agents[a].task

\* An appended event that matches the registry, and what it announces.
LEMMA AppendMatching ==
  ASSUME NEW q \in Seq(Event), NEW e \in Event, NEW ags, Matching(q, ags),
         e.topic \in {"task.dispatched", "agent.failed"} => ags[e.agent].task = e.task
  PROVE  /\ Matching(Append(q, e), ags)
         /\ \A t \in Tasks : Announced(q, t) => Announced(Append(q, e), t)
         /\ e.topic = "agent.failed" => Announced(Append(q, e), e.task)
<1>1. Len(q) \in Nat
  OBVIOUS
<1>2. /\ Len(Append(q, e)) = Len(q) + 1
      /\ Append(q, e)[Len(q) + 1] = e
      /\ \A i \in 1..Len(q) : Append(q, e)[i] = q[i]
  BY AppendShape
<1>3. /\ \A i \in 1..Len(Append(q, e)) : i \in 1..Len(q) \/ i = Len(q) + 1
      /\ \A i \in 1..Len(q) : i \in 1..Len(Append(q, e))
      /\ Len(q) + 1 \in 1..Len(Append(q, e))
  BY <1>1, <1>2
<1>4. Matching(Append(q, e), ags)
  BY <1>2, <1>3 DEF Matching
<1>5. \A t \in Tasks : Announced(q, t) => Announced(Append(q, e), t)
  BY <1>2, <1>3 DEF Announced
<1>6. e.topic = "agent.failed" => Announced(Append(q, e), e.task)
  BY <1>2, <1>3 DEF Announced
<1> QED BY <1>4, <1>5, <1>6

\* Taking the head: only its own announcement is gone.
LEMMA TailMatching ==
  ASSUME NEW q \in Seq(Event), q # <<>>, NEW ags, Matching(q, ags)
  PROVE  /\ Matching(Tail(q), ags)
         /\ Head(q).topic \in {"task.dispatched", "agent.failed"} => ags[Head(q).agent].task = Head(q).task
         /\ \A t \in Tasks : Announced(q, t) => Announced(Tail(q), t) \/ (Head(q).topic = "agent.failed" /\ Head(q).task = t)
<1>1. /\ Len(q) \in Nat \ {0}
      /\ Len(Tail(q)) = Len(q) - 1
      /\ \A i \in 1..Len(Tail(q)) : Tail(q)[i] = q[i + 1]
      /\ Head(q) = q[1]
  BY TailShape
<1>2. \A i \in 1..Len(Tail(q)) : i + 1 \in 1..Len(q)
  BY <1>1
<1>3. Matching(Tail(q), ags)
  BY <1>1, <1>2 DEF Matching
<1>4. 1 \in 1..Len(q)
  BY <1>1
<1>5. Head(q).topic \in {"task.dispatched", "agent.failed"} => ags[Head(q).agent].task = Head(q).task
  BY <1>1, <1>4 DEF Matching
<1>6. ASSUME NEW t \in Tasks, Announced(q, t), ~(Head(q).topic = "agent.failed" /\ Head(q).task = t)
      PROVE  Announced(Tail(q), t)
  <2>1. PICK i \in 1..Len(q) : q[i].topic = "agent.failed" /\ q[i].task = t
    BY <1>6 DEF Announced
  <2>2. i # 1
    BY <1>1, <1>6, <2>1
  <2>3. i - 1 \in 1..Len(Tail(q)) /\ (i - 1) + 1 = i
    BY <1>1, <2>2
  <2>4. Tail(q)[i - 1] = q[i]
    BY <1>1, <2>3
  <2> QED BY <2>1, <2>3, <2>4 DEF Announced
<1>7. \A t \in Tasks : Announced(q, t) => Announced(Tail(q), t) \/ (Head(q).topic = "agent.failed" /\ Head(q).task = t)
  BY ONLY <1>6
<1> QED BY ONLY <1>3, <1>5, <1>7

\* Events stay matching while the registry only grows.
LEMMA MatchingKept ==
  ASSUME IInv, AgentsKept, NEW q, Addressed(q, Len(agents)), Matching(q, agents)
  PROVE  Matching(q, agents')
<1>1. \A i \in 1..Len(q) : q[i].topic \in {"task.dispatched", "agent.failed"} => q[i].agent \in 1..Len(agents)
  BY DEF Addressed
<1> QED BY <1>1 DEF Matching, AgentsKept

\* Marking an agent, and spawning one, keep the registry.
LEMMA MarkKeeps ==
  ASSUME NEW ags \in Seq(Agent), NEW a \in 1..Len(ags), NEW s \in AgentStatus
  PROVE  \A b \in 1..Len(ags) : Mark(ags, a, s)[b].task = ags[b].task
<1>1. \A b \in 1..Len(ags) : ags[b] \in Agent
  OBVIOUS
<1>2. \A b \in 1..Len(ags) : Mark(ags, a, s)[b] = IF b = a THEN [ags[b] EXCEPT !.status = s] ELSE ags[b]
  BY DEF Mark
<1> QED BY <1>1, <1>2 DEF Agent

\* A spawned agent is added to those there are.
LEMMA SpawnKeeps ==
  ASSUME NEW ags \in Seq(Agent), NEW t \in Tasks, NEW p \in Providers
  PROVE  /\ \A b \in 1..Len(ags) : Append(ags, NewAgent(t, p))[b] = ags[b]
         /\ Append(ags, NewAgent(t, p))[Len(ags) + 1].task = t
<1>1. NewAgent(t, p) \in Agent /\ NewAgent(t, p).task = t
  BY DEF NewAgent, Agent, AgentStatus
<1> QED BY <1>1

\* What a step must not undo for a failed task t.
StillRecovered(t) ==
  /\ attempts[t] = MaxAttempts => attempts'[t] = MaxAttempts
  /\ Announced(bus, t) => Announced(bus', t)
  /\ \A r \in runs : TaskOf(r) = t => \E x \in runs' : x.agent = r.agent

\* A failed task whose recovery is under way stays with it through any step.
LEMMA StaysRecovered ==
  ASSUME IInv, FInv, AgentsKept, NEW t \in Tasks, status[t] = "failed", StillRecovered(t)
  PROVE  \/ attempts'[t] = MaxAttempts \/ Announced(bus', t) \/ \E x \in runs' : agents'[x.agent].task = t
<1>1. attempts[t] = MaxAttempts \/ Announced(bus, t) \/ \E r \in runs : TaskOf(r) = t
  BY DEF FInv, FailedOnlyWhenExhausted, Queued, Announced, RunsOf
<1>2. ASSUME NEW r \in runs, TaskOf(r) = t
      PROVE  \E x \in runs' : agents'[x.agent].task = t
  <2>1. r.agent \in 1..Len(agents)
    BY RunFacts
  <2>2. agents'[r.agent].task = t
    BY <1>2, <2>1 DEF AgentsKept, TaskOf
  <2> QED BY <1>2, <2>2 DEF StillRecovered
<1> QED BY <1>1, <1>2 DEF StillRecovered

\* A step that keeps the registry, publishes matching events, and for every
\* task it fails announces the failure or finds its attempts used up.
LEMMA RecoveryStep ==
  ASSUME IInv, FInv, AgentsKept, Matching(bus', agents'), FallbackTasks',
         \A t \in Tasks : status'[t] = "failed" =>
            \/ status[t] = "failed" /\ StillRecovered(t)
            \/ attempts'[t] = MaxAttempts
            \/ Announced(bus', t)
  PROVE  FInv'
<1>1. ASSUME NEW t \in Tasks, status'[t] = "failed"
      PROVE  \/ attempts'[t] = MaxAttempts \/ Announced(bus', t) \/ \E x \in runs' : agents'[x.agent].task = t
  BY <1>1, StaysRecovered
<1>2. FailedOnlyWhenExhausted'
  BY <1>1 DEF FailedOnlyWhenExhausted, Queued, Announced, RunsOf, TaskOf
<1> QED BY <1>2 DEF FInv

\* Runs that are kept, or dropped, keep the tasks of their agents.
LEMMA FallbackKept ==
  ASSUME IInv, FInv, AgentsKept, NEW r \in runs
  PROVE  r.step = 3 => agents'[r.fallback].task = agents'[r.agent].task
<1>1. r.agent \in 1..Len(agents) /\ (r.step = 3 => r.fallback \in 1..Len(agents))
  BY RunFacts
<1> QED BY <1>1 DEF FInv, FallbackTasks, AgentsKept

\* The pipeline fails a task only when its provider was unbound, and then announces it.
LEMMA PipelineRecovers ==
  ASSUME IInv, FInv,
         (\E t \in Tasks : CreateTask(t)) \/ OnTaskCreated \/ OnTaskPlanned \/ OnTaskDispatched
  PROVE  FInv'
<1>1. /\ bus \in Seq(Event) /\ agents \in Seq(Agent) /\ Len(agents) \in Nat /\ Addressed(bus, Len(agents))
      /\ status \in [Tasks -> TaskStatus \union {"absent"}] /\ runs \subseteq Run
  BY DEF IInv, TypeOK
<1>2. Matching(bus, agents) /\ FallbackTasks
  BY DEF FInv
<1>3. ASSUME NEW t \in Tasks, CreateTask(t)
      PROVE  FInv'
  <2> DEFINE e == Msg("task.created", t, NoAgent)
  <2>1. e \in Event /\ e.topic = "task.created"
    BY MsgType DEF NoAgent, Topics, PipelineTopics
  <2>2. bus' = Append(bus, e) /\ status' = [status EXCEPT ![t] = "pending"]
        /\ UNCHANGED <<attempts, agents, runs>>
    BY <1>3 DEF CreateTask
  <2> HIDE DEF e
  <2>3. Matching(bus', agents) /\ \A u \in Tasks : Announced(bus, u) => Announced(bus', u)
    BY <1>1, <1>2, <2>1, <2>2, AppendMatching
  <2>4. AgentsKept /\ Matching(bus', agents') /\ FallbackTasks'
    BY <1>1, <1>2, <2>2, <2>3 DEF AgentsKept, FallbackTasks
  <2>5. \A u \in Tasks : status'[u] = "failed" => status[u] = "failed" /\ StillRecovered(u)
    BY <1>1, <2>2, <2>3 DEF StillRecovered
  <2> QED BY <2>4, <2>5, RecoveryStep
<1>4. ASSUME NEW topic \in PipelineTopics, Delivers(topic)
      PROVE  /\ Tail(bus) \in Seq(Event) /\ Matching(Tail(bus), agents) /\ Addressed(Tail(bus), Len(agents))
             /\ Head(bus).task \in Tasks
             /\ \A u \in Tasks : Announced(bus, u) => Announced(Tail(bus), u)
             /\ topic = "task.dispatched" =>
                  /\ Head(bus).agent \in 1..Len(agents) /\ agents[Head(bus).agent].task = Head(bus).task
  <2>1. topic \in Topics /\ topic # "agent.failed"
    BY DEF Topics, PipelineTopics
  <2>2. /\ Head(bus).topic = topic /\ Head(bus).task \in Tasks /\ QueueKept(Tail(bus))
        /\ topic = "task.dispatched" => Head(bus).agent \in 1..Len(agents)
    BY <1>4, <2>1, DeliverFacts
  <2>3. bus # <<>>
    BY <1>4 DEF Delivers
  <2>4. /\ Matching(Tail(bus), agents)
        /\ topic = "task.dispatched" => agents[Head(bus).agent].task = Head(bus).task
        /\ \A u \in Tasks : Announced(bus, u) => Announced(Tail(bus), u)
    BY <1>1, <1>2, <2>1, <2>2, <2>3, TailMatching
  <2> QED BY <2>2, <2>4 DEF QueueKept
<1>5. CASE OnTaskCreated
  <2>1. PICK t \in Tasks : t = Head(bus).task
    BY <1>4, <1>5 DEF OnTaskCreated, PipelineTopics
  <2> DEFINE e == Msg("task.planned", t, NoAgent)
  <2>2. e \in Event /\ e.topic = "task.planned"
    BY MsgType DEF NoAgent, Topics, PipelineTopics
  <2>3. bus' = Append(Tail(bus), e) /\ status' = [status EXCEPT ![t] = "planned"]
        /\ UNCHANGED <<attempts, agents, runs>>
    BY <1>5, <2>1 DEF OnTaskCreated
  <2>4. /\ Tail(bus) \in Seq(Event) /\ Matching(Tail(bus), agents)
        /\ \A u \in Tasks : Announced(bus, u) => Announced(Tail(bus), u)
    BY <1>4, <1>5 DEF OnTaskCreated, PipelineTopics
  <2> HIDE DEF e
  <2>5. Matching(bus', agents) /\ \A u \in Tasks : Announced(bus, u) => Announced(bus', u)
    BY <2>2, <2>3, <2>4, AppendMatching
  <2>6. AgentsKept /\ Matching(bus', agents') /\ FallbackTasks'
    BY <1>1, <1>2, <2>3, <2>5 DEF AgentsKept, FallbackTasks
  <2>7. \A u \in Tasks : status'[u] = "failed" => status[u] = "failed" /\ StillRecovered(u)
    BY <1>1, <2>3, <2>5 DEF StillRecovered
  <2> QED BY <2>6, <2>7, RecoveryStep
<1>6. CASE OnTaskPlanned
  <2>1. PICK t \in Tasks : t = Head(bus).task
    BY <1>4, <1>6 DEF OnTaskPlanned, PipelineTopics
  <2>2. /\ Tail(bus) \in Seq(Event) /\ Matching(Tail(bus), agents) /\ Addressed(Tail(bus), Len(agents))
        /\ \A u \in Tasks : Announced(bus, u) => Announced(Tail(bus), u)
    BY <1>4, <1>6 DEF OnTaskPlanned, PipelineTopics
  <2>3. UNCHANGED <<attempts, runs>>
    BY <1>6 DEF OnTaskPlanned
  <2>4. CASE bus' = Tail(bus) /\ UNCHANGED <<status, agents>>
    <3>1. AgentsKept /\ Matching(bus', agents') /\ FallbackTasks'
      BY <1>1, <1>2, <2>2, <2>3, <2>4 DEF AgentsKept, FallbackTasks
    <3>2. \A u \in Tasks : status'[u] = "failed" => status[u] = "failed" /\ StillRecovered(u)
      BY <2>2, <2>3, <2>4 DEF StillRecovered
    <3> QED BY <3>1, <3>2, RecoveryStep
  <2>5. ASSUME NEW p \in SelectProvider(t), agents' = Append(agents, NewAgent(t, p)),
               status' = [status EXCEPT ![t] = "dispatched"],
               bus' = Append(Tail(bus), Msg("task.dispatched", t, Len(agents) + 1))
        PROVE  FInv'
    <3> DEFINE e == Msg("task.dispatched", t, Len(agents) + 1)
    <3>1. p \in Providers
      BY SelectType DEF IInv
    <3>2. /\ AgentsKept /\ agents'[Len(agents) + 1].task = t
      BY <1>1, <2>5, <3>1, SpawnShape, SpawnKeeps DEF AgentsKept
    <3>3. e \in Event /\ e.task = t /\ e.agent = Len(agents) + 1 /\ e.topic = "task.dispatched"
      BY <1>1, MsgType DEF Topics, PipelineTopics
    <3>4. bus' = Append(Tail(bus), e)
      BY <2>5
    <3> HIDE DEF e
    <3>5. Matching(Tail(bus), agents')
      BY <2>2, <3>2, MatchingKept
    <3>6. Matching(bus', agents') /\ \A u \in Tasks : Announced(bus, u) => Announced(bus', u)
      BY <2>2, <3>2, <3>3, <3>4, <3>5, AppendMatching
    <3>7. FallbackTasks'
      BY <2>3, <3>2, FallbackKept DEF FallbackTasks
    <3>8. \A u \in Tasks : status'[u] = "failed" => status[u] = "failed" /\ StillRecovered(u)
      BY <1>1, <2>3, <2>5, <3>6 DEF StillRecovered
    <3> QED BY <3>2, <3>6, <3>7, <3>8, RecoveryStep
  <2> QED BY <1>6, <2>1, <2>4, <2>5 DEF OnTaskPlanned
<1>7. CASE OnTaskDispatched
  <2>1. PICK t \in Tasks, a \in 1..Len(agents) :
          t = Head(bus).task /\ a = Head(bus).agent /\ agents[a].task = t
    BY <1>4, <1>7 DEF OnTaskDispatched, PipelineTopics
  <2>2. /\ Tail(bus) \in Seq(Event) /\ Matching(Tail(bus), agents) /\ Addressed(Tail(bus), Len(agents))
        /\ \A u \in Tasks : Announced(bus, u) => Announced(Tail(bus), u)
    BY <1>4, <1>7 DEF OnTaskDispatched, PipelineTopics
  <2>3. UNCHANGED attempts
    BY <1>7 DEF OnTaskDispatched
  <2>4. CASE /\ status' = [status EXCEPT ![t] = "in_progress"]
             /\ runs' = runs \union {Running(a, agents[a].provider, mockFallback)}
             /\ bus' = Tail(bus) /\ UNCHANGED agents
    <3>1. Running(a, agents[a].provider, mockFallback).step = 1
      BY DEF Running, Attempt
    <3>2. AgentsKept /\ Matching(bus', agents') /\ FallbackTasks'
      BY <1>1, <1>2, <2>2, <2>4, <3>1 DEF AgentsKept, FallbackTasks
    <3>3. \A u \in Tasks : status'[u] = "failed" => status[u] = "failed" /\ StillRecovered(u)
      BY <1>1, <2>2, <2>3, <2>4 DEF StillRecovered
    <3> QED BY <3>2, <3>3, RecoveryStep
  <2>5. CASE /\ status' = [status EXCEPT ![t] = "failed"] /\ agents' = Mark(agents, a, "failed")
             /\ bus' = Append(Tail(bus), Msg("agent.failed", t, a)) /\ UNCHANGED runs
    <3> DEFINE e == Msg("agent.failed", t, a)
    <3>1. AgentsKept
      <4>1. "failed" \in AgentStatus
        BY DEF AgentStatus
      <4>2. Len(agents') = Len(agents) /\ \A b \in 1..Len(agents) : agents'[b].task = agents[b].task
        BY <1>1, <2>5, <4>1, MarkShape, MarkKeeps
      <4> QED BY <1>1, <4>2 DEF AgentsKept
    <3>2. e \in Event /\ e.task = t /\ e.agent = a /\ e.topic = "agent.failed"
      <4>1. a \in Nat /\ "agent.failed" \in Topics
        BY <1>1 DEF Topics
      <4> QED BY <4>1, MsgType
    <3>3. bus' = Append(Tail(bus), e)
      BY <2>5
    <3> HIDE DEF e
    <3>4. Matching(Tail(bus), agents') /\ agents'[a].task = t
      BY <2>1, <2>2, <3>1, MatchingKept DEF AgentsKept
    <3>5. Matching(bus', agents') /\ Announced(bus', t) /\ \A u \in Tasks : Announced(bus, u) => Announced(bus', u)
      BY <2>2, <3>2, <3>3, <3>4, AppendMatching
    <3>6. FallbackTasks'
      BY <2>5, <3>1, FallbackKept DEF FallbackTasks
    <3>7. \A u \in Tasks : status'[u] = "failed" =>
            (status[u] = "failed" /\ StillRecovered(u)) \/ Announced(bus', u)
      BY <1>1, <2>3, <2>5, <3>5 DEF StillRecovered
    <3> QED BY <3>1, <3>5, <3>6, <3>7, RecoveryStep
  <2> QED BY <1>7, <2>1, <2>4, <2>5 DEF OnTaskDispatched
<1> QED BY <1>3, <1>5, <1>6, <1>7

\* A marked agent.
LEMMA MarkedKept ==
  ASSUME IInv, NEW a \in 1..Len(agents), NEW s \in AgentStatus, agents' = Mark(agents, a, s)
  PROVE  AgentsKept
<1>1. agents \in Seq(Agent) /\ Len(agents) \in Nat
  BY DEF IInv, TypeOK
<1>2. Len(agents') = Len(agents) /\ \A b \in 1..Len(agents) : agents'[b].task = agents[b].task
  BY <1>1, MarkShape, MarkKeeps
<1> QED BY <1>1, <1>2 DEF AgentsKept

\* The failure of registered agent a is appended to a queue q that lost no other announcement.
LEMMA FailureAnnounced ==
  ASSUME IInv, AgentsKept, NEW a \in 1..Len(agents), NEW q \in Seq(Event), Addressed(q, Len(agents)),
         Matching(q, agents), \A u \in Tasks : Announced(bus, u) => Announced(q, u),
         NEW t \in Tasks, agents[a].task = t, bus' = Append(q, Msg("agent.failed", t, a))
  PROVE  /\ Matching(bus', agents') /\ Announced(bus', t)
         /\ \A u \in Tasks : Announced(bus, u) => Announced(bus', u)
<1> DEFINE e == Msg("agent.failed", t, a)
<1>1. e \in Event /\ e.task = t /\ e.agent = a /\ e.topic = "agent.failed"
  <2>1. a \in Nat /\ "agent.failed" \in Topics
    BY DEF Topics, IInv, TypeOK
  <2> QED BY <2>1, MsgType
<1>2. bus' = Append(q, e)
  OBVIOUS
<1>3. agents'[a].task = t
  BY DEF AgentsKept
<1>4. Matching(q, agents')
  BY MatchingKept
<1> HIDE DEF e
<1> QED BY <1>1, <1>2, <1>3, <1>4, AppendMatching

\* A run that ends in success takes its task out of FAILED; one that fails announces it.
LEMMA RunRecovers ==
  ASSUME IInv, FInv, NEW r \in runs, RunStep(r)
  PROVE  FInv'
<1>1. /\ bus \in Seq(Event) /\ agents \in Seq(Agent) /\ Len(agents) \in Nat /\ Addressed(bus, Len(agents))
      /\ status \in [Tasks -> TaskStatus \union {"absent"}] /\ runs \subseteq Run
      /\ attempts \in [Tasks -> Nat]
  BY DEF IInv, TypeOK
<1>2. Matching(bus, agents) /\ FallbackTasks
  BY DEF FInv
<1>3. /\ r.agent \in 1..Len(agents) /\ TaskOf(r) \in Tasks /\ ProviderOf(r) \in Providers
      /\ (r.step = 3 => r.fallback \in 1..Len(agents)) /\ Executor(r) \in 1..Len(agents) /\ r \in Run
  BY RunFacts
<1>4. PICK t \in Tasks : t = TaskOf(r)
  BY <1>3
<1>5. agents[r.agent].task = t /\ (r.step = 3 => agents[r.fallback].task = t)
  BY <1>2, <1>4 DEF TaskOf, FallbackTasks
<1>6. CASE AttemptSucceeds(r)
  <2>1. "completed" \in AgentStatus
    BY DEF AgentStatus
  <2>2. AgentsKept
    BY <1>3, <1>6, <2>1, MarkedKept DEF AttemptSucceeds
  <2>3. PICK outcome \in {"completed", "plan_generated"} : status' = [status EXCEPT ![t] = outcome]
    BY <1>4, <1>6 DEF AttemptSucceeds
  <2>4. runs' = runs \ {r} /\ UNCHANGED <<attempts, bus>>
    BY <1>6 DEF AttemptSucceeds
  <2>5. Matching(bus', agents') /\ FallbackTasks'
    BY <1>1, <1>2, <2>2, <2>4, MatchingKept, FallbackKept DEF FallbackTasks
  <2>6. \A u \in Tasks : status'[u] = "failed" => status[u] = "failed" /\ StillRecovered(u)
    BY <1>1, <1>4, <2>3, <2>4 DEF StillRecovered
  <2> QED BY <2>2, <2>5, <2>6, RecoveryStep
<1>7. CASE RetrySameProvider(r)
  <2> DEFINE x == Attempt(r.agent, 2, r.fallback, Usable(ProviderOf(r), mockFallback))
  <2>1. x.agent = r.agent /\ x.step = 2
    BY DEF Attempt
  <2>2. /\ runs' = (runs \ {r}) \union {x} /\ UNCHANGED <<status, agents, bus>>
        /\ attempts[t] < MaxAttempts /\ attempts' = [attempts EXCEPT ![t] = @ + 1]
    BY <1>4, <1>7 DEF RetrySameProvider
  <2> HIDE DEF x
  <2>3. AgentsKept /\ Matching(bus', agents') /\ FallbackTasks'
    BY <1>1, <1>2, <2>1, <2>2 DEF AgentsKept, FallbackTasks
  <2>4. \A u \in Tasks : attempts[u] = MaxAttempts => attempts'[u] = MaxAttempts
    BY <1>1, <2>2, BoundsAssumption
  <2>5. \A u \in Tasks : status'[u] = "failed" => status[u] = "failed" /\ StillRecovered(u)
    BY <2>1, <2>2, <2>4 DEF StillRecovered
  <2> QED BY <2>3, <2>5, RecoveryStep
<1>8. CASE FallbackProvider(r)
  <2> DEFINE x == Attempt(r.agent, 3, Len(agents) + 1, TRUE)
  <2>1. x.agent = r.agent /\ x.step = 3 /\ x.fallback = Len(agents) + 1
    BY DEF Attempt
  <2>2. /\ runs' = (runs \ {r}) \union {x} /\ UNCHANGED <<status, bus>>
        /\ attempts[t] < MaxAttempts /\ attempts' = [attempts EXCEPT ![t] = @ + 1]
    BY <1>4, <1>8 DEF FallbackProvider
  <2>3. PICK p \in Providers : agents' = Append(agents, NewAgent(t, p))
    <3>1. Candidates(t) \subseteq Providers
      BY SelectType DEF IInv
    <3> QED BY <1>4, <1>8, <3>1 DEF FallbackProvider, PickFallbackProvider
  <2> HIDE DEF x
  <2>4. AgentsKept /\ agents'[Len(agents) + 1].task = t
    BY <1>1, <2>3, SpawnShape, SpawnKeeps DEF AgentsKept
  <2>5. agents'[x.fallback].task = agents'[x.agent].task
    BY <1>3, <1>5, <2>1, <2>4 DEF AgentsKept
  <2>6. Matching(bus', agents') /\ FallbackTasks'
    BY <1>1, <1>2, <2>2, <2>4, <2>5, MatchingKept, FallbackKept DEF FallbackTasks
  <2>7. \A u \in Tasks : attempts[u] = MaxAttempts => attempts'[u] = MaxAttempts
    BY <1>1, <2>2, BoundsAssumption
  <2>8. \A u \in Tasks : status'[u] = "failed" => status[u] = "failed" /\ StillRecovered(u)
    BY <2>1, <2>2, <2>7 DEF StillRecovered
  <2> QED BY <2>4, <2>6, <2>8, RecoveryStep
<1>9. ASSUME NEW a \in 1..Len(agents), agents[a].task = t, AgentsKept, UNCHANGED attempts,
             status' = [status EXCEPT ![t] = "failed"],
             bus' = Append(bus, Msg("agent.failed", t, a)), runs' = runs \ {r}
      PROVE  FInv'
  <2>1. /\ Matching(bus', agents') /\ Announced(bus', t)
        /\ \A u \in Tasks : Announced(bus, u) => Announced(bus', u)
    BY <1>1, <1>2, <1>9, FailureAnnounced
  <2>2. FallbackTasks'
    BY <1>9, FallbackKept DEF FallbackTasks
  <2>3. \A u \in Tasks : status'[u] = "failed" =>
          (status[u] = "failed" /\ StillRecovered(u)) \/ Announced(bus', u)
    BY <1>1, <1>4, <1>9, <2>1 DEF StillRecovered
  <2> QED BY <1>9, <2>1, <2>2, <2>3, RecoveryStep
<1>10. "failed" \in AgentStatus
  BY DEF AgentStatus
<1>11. CASE GiveUp(r) \/ FallbackReturnsError(r)
  <2>1. /\ agents' = Mark(agents, r.agent, "failed") /\ UNCHANGED attempts
        /\ status' = [status EXCEPT ![t] = "failed"]
        /\ bus' = Append(bus, Msg("agent.failed", t, r.agent)) /\ runs' = runs \ {r}
    BY <1>4, <1>11 DEF GiveUp, FallbackReturnsError, FailTask
  <2>2. AgentsKept
    BY <1>3, <1>10, <2>1, MarkedKept
  <2> QED BY <1>3, <1>5, <1>9, <2>1, <2>2
<1>12. CASE FallbackRaises(r)
  <2> DEFINE ags == IF ProviderOf(r) = Mock \/ TaskOf(r) \in TestTasks
                    THEN Mark(agents, r.agent, "failed") ELSE agents
  <2>1. /\ agents' = Mark(ags, r.fallback, "failed") /\ UNCHANGED attempts /\ r.step = 3
        /\ status' = [status EXCEPT ![t] = "failed"]
        /\ bus' = Append(bus, Msg("agent.failed", t, r.fallback)) /\ runs' = runs \ {r}
    BY <1>4, <1>12 DEF FallbackRaises, FailTask
  <2>2. /\ ags \in Seq(Agent) /\ Len(ags) = Len(agents)
        /\ \A b \in 1..Len(agents) : ags[b].task = agents[b].task
    <3>1. /\ Mark(agents, r.agent, "failed") \in Seq(Agent) /\ Len(Mark(agents, r.agent, "failed")) = Len(agents)
          /\ \A b \in 1..Len(agents) : Mark(agents, r.agent, "failed")[b].task = agents[b].task
      BY <1>1, <1>3, <1>10, MarkShape, MarkKeeps
    <3> QED BY <1>1, <3>1
  <2> HIDE DEF ags
  <2>3. r.fallback \in 1..Len(ags)
    BY <1>3, <2>1, <2>2
  <2>4. Len(agents') = Len(ags) /\ \A b \in 1..Len(ags) : agents'[b].task = ags[b].task
    BY <1>10, <2>1, <2>2, <2>3, MarkShape, MarkKeeps
  <2>5. AgentsKept
    BY <1>1, <2>2, <2>4 DEF AgentsKept
  <2> QED BY <1>3, <1>5, <1>9, <2>1, <2>5
<1> QED BY <1>6, <1>7, <1>8, <1>11, <1>12 DEF RunStep

\* Lapses, ticks, degradations and what happens to providers fail no task.
LEMMA OthersRecover ==
  ASSUME IInv, FInv,
         \/ \E a \in 1..Len(agents) : HeartbeatLapses(a) \/ HealthTick(a)
         \/ OnDegraded
         \/ \E p \in Providers : OnProviderHealth(p) \/ CooldownElapses(p) \/ RebindProvider(p)
         \/ UNCHANGED vars
  PROVE  FInv'
<1>1. /\ bus \in Seq(Event) /\ agents \in Seq(Agent) /\ Len(agents) \in Nat /\ Addressed(bus, Len(agents))
  BY DEF IInv, TypeOK
<1>2. Matching(bus, agents) /\ FallbackTasks
  BY DEF FInv
<1>3. SUFFICES /\ AgentsKept /\ Matching(bus', agents') /\ UNCHANGED <<status, attempts, runs>>
               /\ \A u \in Tasks : Announced(bus, u) => Announced(bus', u)
  <2>1. FallbackTasks'
    BY <1>3, FallbackKept DEF FallbackTasks
  <2>2. \A u \in Tasks : status'[u] = "failed" => status[u] = "failed" /\ StillRecovered(u)
    BY <1>3 DEF StillRecovered
  <2> QED BY <1>3, <2>1, <2>2, RecoveryStep
<1>4. ASSUME NEW a \in 1..Len(agents), HeartbeatLapses(a)
      PROVE  /\ AgentsKept /\ Matching(bus', agents') /\ UNCHANGED <<status, attempts, runs, bus>>
  <2>1. agents' = [agents EXCEPT ![a].stale = TRUE] /\ UNCHANGED <<status, attempts, runs, bus>>
    BY <1>4 DEF HeartbeatLapses, taskVars
  <2>2. \A b \in 1..Len(agents) : agents[b] \in Agent
    BY <1>1
  <2>3. Len(agents') = Len(agents) /\ \A b \in 1..Len(agents) : agents'[b].task = agents[b].task
    BY <1>1, <2>1, <2>2 DEF Agent
  <2>4. AgentsKept
    BY <1>1, <2>3 DEF AgentsKept
  <2> QED BY <1>1, <1>2, <2>1, <2>4, MatchingKept
<1>5. ASSUME NEW a \in 1..Len(agents), HealthTick(a)
      PROVE  /\ AgentsKept /\ Matching(bus', agents') /\ UNCHANGED <<status, attempts, runs>>
             /\ \A u \in Tasks : Announced(bus, u) => Announced(bus', u)
  <2> DEFINE e == Msg("health.degraded", agents[a].task, a)
  <2>1. bus' = Append(bus, e) /\ UNCHANGED <<status, attempts, agents, runs>>
    BY <1>5 DEF HealthTick, taskVars
  <2>2. agents[a] \in Agent /\ a \in Nat
    BY <1>1
  <2>3. agents[a].task \in Tasks /\ "health.degraded" \in Topics
    BY <2>2 DEF Agent, Topics
  <2>4. e \in Event /\ e.topic = "health.degraded"
    BY <2>2, <2>3, MsgType
  <2> HIDE DEF e
  <2>5. Matching(bus', agents) /\ \A u \in Tasks : Announced(bus, u) => Announced(bus', u)
    BY <1>1, <1>2, <2>1, <2>4, AppendMatching
  <2> QED BY <1>1, <2>1, <2>5 DEF AgentsKept
<1>6. ASSUME OnDegraded
      PROVE  /\ AgentsKept /\ Matching(bus', agents') /\ UNCHANGED <<status, attempts, runs>>
             /\ \A u \in Tasks : Announced(bus, u) => Announced(bus', u)
  <2>1. "health.degraded" \in Topics /\ Delivers("health.degraded") /\ UNCHANGED <<status, attempts, runs>>
    BY <1>6 DEF OnDegraded, Topics, taskVars
  <2>2. PICK a \in 1..Len(agents) : a = Head(bus).agent
    BY <2>1, DeliverFacts
  <2>3. agents[a].task \in Tasks /\ QueueKept(Tail(bus)) /\ Head(bus).topic = "health.degraded" /\ bus # <<>>
    BY <2>1, <2>2, DeliverFacts DEF Delivers
  <2>4. /\ Tail(bus) \in Seq(Event) /\ Addressed(Tail(bus), Len(agents))
    BY <2>3 DEF QueueKept
  <2>5. /\ Matching(Tail(bus), agents) /\ \A u \in Tasks : Announced(bus, u) => Announced(Tail(bus), u)
    BY <1>1, <1>2, <2>3, TailMatching
  <2>6. CASE bus' = Tail(bus) /\ UNCHANGED agents
    BY <1>1, <2>1, <2>5, <2>6 DEF AgentsKept
  <2>7. CASE agents' = Mark(agents, a, "failed") /\ bus' = Append(Tail(bus), Msg("agent.failed", agents[a].task, a))
    <3>1. "failed" \in AgentStatus
      BY DEF AgentStatus
    <3>2. AgentsKept
      BY <2>7, <3>1, MarkedKept
    <3>3. PICK t \in Tasks : t = agents[a].task
      BY <2>3
    <3>4. Matching(bus', agents') /\ \A u \in Tasks : Announced(bus, u) => Announced(bus', u)
      BY <2>4, <2>5, <2>7, <3>2, <3>3, FailureAnnounced
    <3> QED BY <2>1, <3>2, <3>4
  <2> QED BY <1>6, <2>2, <2>6, <2>7 DEF OnDegraded
<1>7. ASSUME \/ \E p \in Providers : OnProviderHealth(p) \/ CooldownElapses(p) \/ RebindProvider(p)
             \/ UNCHANGED vars
      PROVE  /\ AgentsKept /\ Matching(bus', agents') /\ UNCHANGED <<status, attempts, runs>>
             /\ \A u \in Tasks : Announced(bus, u) => Announced(bus', u)
  <2>1. UNCHANGED <<status, attempts, agents, runs, bus>>
    BY <1>7 DEF OnProviderHealth, CooldownElapses, RebindProvider, taskVars, vars
  <2> QED BY <1>1, <1>2, <2>1 DEF AgentsKept
<1> QED BY <1>4, <1>5, <1>6, <1>7

\* The RecoveryManager: an agent.failed is answered by a new run, or the
\* attempts are used up.  Some provider is registered.
LEMMA FailureRecovers ==
  ASSUME IInv, FInv, registered # {}, OnFailed
  PROVE  FInv'
<1>1. /\ bus \in Seq(Event) /\ agents \in Seq(Agent) /\ Len(agents) \in Nat /\ Addressed(bus, Len(agents))
      /\ status \in [Tasks -> TaskStatus \union {"absent"}] /\ runs \subseteq Run
      /\ attempts \in [Tasks -> Nat]
  BY DEF IInv, TypeOK
<1>2. Matching(bus, agents) /\ FallbackTasks
  BY DEF FInv
<1>3. "agent.failed" \in Topics /\ Delivers("agent.failed") /\ bus' = Tail(bus)
  BY DEF OnFailed, Topics
<1>4. PICK a \in 1..Len(agents) : a = Head(bus).agent
  BY <1>3, DeliverFacts
<1>5. QueueKept(Tail(bus)) /\ Head(bus).topic = "agent.failed" /\ bus # <<>> /\ agents[a].task \in Tasks
  BY <1>3, <1>4, DeliverFacts DEF Delivers
<1>6. PICK t \in Tasks : t = agents[a].task
  BY <1>5
<1>7. /\ Matching(bus', agents) /\ Addressed(bus', Len(agents))
      /\ \A u \in Tasks \ {t} : Announced(bus, u) => Announced(bus', u)
  <2>1. agents[Head(bus).agent].task = Head(bus).task
    BY <1>1, <1>2, <1>5, TailMatching
  <2>2. Head(bus).task = t
    BY <1>4, <1>6, <2>1
  <2> QED BY <1>1, <1>2, <1>3, <1>5, <2>2, TailMatching DEF QueueKept
<1>8. "failed" \in AgentStatus /\ "recovering" \in AgentStatus
  BY DEF AgentStatus
<1>9. CASE RecoveryExhausted(t, a)
  <2>1. /\ attempts[t] >= MaxAttempts /\ status' = [status EXCEPT ![t] = "failed"]
        /\ agents' = Mark(agents, a, "failed") /\ UNCHANGED <<attempts, runs>>
    BY <1>9 DEF RecoveryExhausted
  <2>2. attempts'[t] = MaxAttempts
    <3>1. attempts[t] <= MaxAttempts /\ attempts[t] \in Nat /\ MaxAttempts \in Nat
      BY <1>1, BoundsAssumption DEF IInv, Budget
    <3> QED BY <2>1, <3>1
  <2>3. AgentsKept
    BY <1>8, <2>1, MarkedKept
  <2>4. Matching(bus', agents') /\ FallbackTasks'
    BY <1>7, <2>1, <2>3, MatchingKept, FallbackKept DEF FallbackTasks
  <2>5. \A u \in Tasks : status'[u] = "failed" =>
          (status[u] = "failed" /\ StillRecovered(u)) \/ attempts'[u] = MaxAttempts
    BY <1>1, <1>7, <2>1, <2>2 DEF StillRecovered
  <2> QED BY <2>3, <2>4, <2>5, RecoveryStep
<1>10. CASE RecoveryRetries(t, a)
  <2>1. SelectProvider(t) # {}
    BY DEF SelectProvider, Candidates
  <2>2. PICK p \in SelectProvider(t) :
          /\ attempts' = [attempts EXCEPT ![t] = @ + 1]
          /\ status' = [status EXCEPT ![t] = "in_progress"]
          /\ agents' = Append(Mark(agents, a, "recovering"), NewAgent(t, p))
          /\ runs' = runs \union {Running(Len(agents) + 1, p, MockFallbackAfter(t, p))}
    BY <1>10, <2>1 DEF RecoveryRetries
  <2> DEFINE ags == Mark(agents, a, "recovering")
             x == Running(Len(agents) + 1, p, MockFallbackAfter(t, p))
  <2>3. /\ ags \in Seq(Agent) /\ Len(ags) = Len(agents)
        /\ \A b \in 1..Len(agents) : ags[b].task = agents[b].task
    BY <1>1, <1>8, MarkShape, MarkKeeps
  <2>4. p \in Providers
    BY SelectType DEF IInv
  <2>5. x.step = 1
    BY DEF Running, Attempt
  <2>6. agents' = Append(ags, NewAgent(t, p)) /\ runs' = runs \union {x}
    BY <2>2
  <2> HIDE DEF ags, x
  <2>7. AgentsKept
    BY <1>1, <2>3, <2>4, <2>6, SpawnShape, SpawnKeeps DEF AgentsKept
  <2>8. Matching(bus', agents') /\ FallbackTasks'
    <3>1. Matching(bus', agents')
      BY <1>7, <2>7, MatchingKept
    <3>2. \A r \in runs : r.step = 3 => agents'[r.fallback].task = agents'[r.agent].task
      BY <2>7, FallbackKept
    <3>3. runs' = runs \union {x}
      BY <2>6
    <3>4. \A r \in runs' : r.step = 3 => r \in runs
      BY ONLY <2>5, <3>3
    <3>5. FallbackTasks'
      BY ONLY <3>2, <3>4 DEF FallbackTasks
    <3> QED BY <3>1, <3>5
  <2>9. \A u \in Tasks : status'[u] = "failed" => status[u] = "failed" /\ StillRecovered(u)
    BY <1>1, <1>7, <2>2, <2>6 DEF StillRecovered
  <2> QED BY <2>7, <2>8, <2>9, RecoveryStep
<1> QED BY <1>4, <1>6, <1>9, <1>10 DEF OnFailed

\* Every step keeps failed tasks exhausted, announced or under recovery,
\* while there is a provider.
LEMMA RecoveryInductive ==
  ASSUME IInv, FInv, registered # {}, [Next]_vars
  PROVE  FInv'
<1>1. CASE (\E t \in Tasks : CreateTask(t)) \/ OnTaskCreated \/ OnTaskPlanned \/ OnTaskDispatched
  BY <1>1, PipelineRecovers
<1>2. CASE \E r \in runs : RunStep(r)
  BY <1>2, RunRecovers
<1>3. CASE OnFailed
  BY <1>3, FailureRecovers
<1>4. CASE \/ \E a \in 1..Len(agents) : HeartbeatLapses(a) \/ HealthTick(a)
           \/ OnDegraded
           \/ \E p \in Providers : OnProviderHealth(p) \/ CooldownElapses(p) \/ RebindProvider(p)
           \/ UNCHANGED vars
  BY <1>4, OthersRecover
<1> QED BY <1>1, <1>2, <1>3, <1>4 DEF Next

\* recovery.py: a task is left FAILED only with its attempts used up: while it
\* has attempts left, agent.failed is on its way to the RecoveryManager or a
\* run of it goes on.  For installations in which some provider is registered
\* at all times; handle_failure without one returns and leaves the task FAILED.
THEOREM FailureIsFinal == Spec /\ [](registered # {}) => []FailedOnlyWhenExhausted
<1>1. Init => FInv
  <2> SUFFICES ASSUME Init PROVE FInv
    OBVIOUS
  <2>1. Len(bus) = 0 /\ runs = {} /\ \A t \in Tasks : status[t] = "absent"
    BY DEF Init
  <2> QED BY <2>1 DEF FInv, Matching, FallbackTasks, FailedOnlyWhenExhausted
<1>2. FInv => FailedOnlyWhenExhausted
  BY DEF FInv
<1>3. IInv /\ FInv /\ registered # {} /\ [Next]_vars => FInv'
  BY RecoveryInductive
<1> QED BY <1>1, <1>2, <1>3, Invariance, PTL DEF Spec

=============================================================================
