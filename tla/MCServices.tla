----------------------------- MODULE MCServices -----------------------------
(***************************************************************************)
(* The components of OmniRoute and of the distributed runtime, pipelines,  *)
(* and the servers and the client of MCP on small instances.  They share   *)
(* no variable: in each behaviour one of them, the focus, moves, and the   *)
(* others stay in their initial states.  Of the nodes' exchanges, events   *)
(* and entries are looked at one at a time; of a pipeline, its schedule    *)
(* without executions, graphs of two stages with one task, and two tasks   *)
(* with one stage; of an MCP server, two requests, and one with the        *)
(* manager and its monitor; of the rate limiter, one policy of any kind,   *)
(* two policies, and permits.                                              *)
(***************************************************************************)
EXTENDS ExecutionEngine, OmniRoute, BudgetEngine, RequestScheduler,
        DistributedExecutor, PeerState, LeaderElection, PipelineEngine,
        McpServers, McpClient, RateLimiter

VARIABLE focus

vars == <<focus, execVars, omniVars, budgetVars, schedulerVars, dispatchVars, peerVars,
          electionVars, pipelineVars, mcpVars, clientVars, limiterVars>>

Foci == {"execution", "routing", "budget", "scheduler", "dispatch", "events", "entries",
         "election", "schedule", "stages", "resumption", "requests", "monitoring",
         "limit", "limits", "permits", "client"}

\* c2 and c3 have the same request id, the default being empty.
MCIdOf == [c1 |-> "a", c2 |-> "b", c3 |-> "b"]
MCCandidates == <<"p1", "p1">>
MCPolicies == <<"global", "user">>
MCTotalLimit == [x \in PolicyIds |-> IF x = "global" THEN 3 ELSE 0]
MCLimits == <<"l1", "l2">>
MCDailyLimit == [x \in PolicyIds |-> IF x = "user" THEN 2 ELSE 0]

\* One stage; two in any order, one after the other, and in a cycle.
Single == [stages |-> {"a"}, edges |-> {}]
TwoStages == {[stages |-> {"a", "b"}, edges |-> g] :
              g \in {{}, {<<"a", "b">>}, {<<"a", "b">>, <<"b", "a">>}}}
MCGraphs == TwoStages \union {Single}

\* What create_pipeline and update_pipeline leave behind.
Activated ==
  /\ pipeline = [status |-> "active", graph |-> Single, cron |-> FALSE]
  /\ schedule = FALSE /\ NothingExecuted

Init ==
  /\ focus \in Foci
  /\ ExecInit /\ OmniInit /\ BudgetInit /\ SchedulerInit
  /\ DispatchInit /\ PeerInit /\ ElectionInit
  /\ IF focus = "resumption" THEN Activated ELSE PipelineInit
  /\ McpInit /\ ClientInit /\ LimiterInit
  /\ focus # "routing" => breakerUp = FALSE
  /\ focus # "scheduler" => algorithm = "edf"

RequestFrame == UNCHANGED <<execVars, omniVars, budgetVars, schedulerVars, limiterVars>>
NodesFrame == UNCHANGED <<dispatchVars, peerVars, electionVars>>
ServersFrame == UNCHANGED <<pipelineVars, mcpVars, clientVars>>

ExecutionMoves ==
  /\ focus = "execution" /\ ExecNext
  /\ UNCHANGED <<focus, omniVars, budgetVars, schedulerVars, limiterVars>> /\ NodesFrame /\ ServersFrame

RoutingMoves ==
  /\ focus = "routing" /\ OmniNext
  /\ UNCHANGED <<focus, execVars, budgetVars, schedulerVars, limiterVars>> /\ NodesFrame /\ ServersFrame

\* Operators lift the limits of one policy at a time, and not in an emergency.
BudgetMoves ==
  /\ focus = "budget" /\ BudgetNext
  /\ overrides' = {} \/ (~emergency' /\ \E x \in PolicyIds : overrides' = {x})
  /\ UNCHANGED <<focus, execVars, omniVars, schedulerVars, limiterVars>> /\ NodesFrame /\ ServersFrame

SchedulerMoves ==
  /\ focus = "scheduler" /\ SchedulerNext
  /\ UNCHANGED <<focus, execVars, omniVars, budgetVars, limiterVars>> /\ NodesFrame /\ ServersFrame

\* One policy; two at once, for a short time; permits.
LimiterMoves ==
  /\ \/ focus = "limit" /\ LimitSteps({"l1"}, LimitKinds)
     \/ focus = "limits" /\ LimitSteps(LimitIds, {"token_bucket", "sliding_window"}) /\ ticks' <= 1
     \/ focus = "permits" /\ (LimitSteps({"l1"}, {"fixed_window"}) \/ PermitSteps) /\ ticks' <= 2
  /\ UNCHANGED <<focus, execVars, omniVars, budgetVars, schedulerVars>> /\ NodesFrame /\ ServersFrame

DispatchMoves ==
  /\ focus = "dispatch" /\ DispatchNext
  /\ UNCHANGED <<focus, peerVars, electionVars>> /\ RequestFrame /\ ServersFrame

PeersMove ==
  /\ \/ focus = "events" /\ EventTraffic
     \/ focus = "entries" /\ EntryTraffic
     \/ focus \in {"events", "entries"} /\ \E n \in Peers : PeerRestart(n)
  /\ UNCHANGED <<focus, dispatchVars, electionVars>> /\ RequestFrame /\ ServersFrame

ElectionMoves ==
  /\ focus = "election" /\ ElectionNext
  /\ UNCHANGED <<focus, dispatchVars, peerVars>> /\ RequestFrame /\ ServersFrame

PipelineMoves ==
  /\ \/ focus = "schedule" /\ DefinitionSteps(MCGraphs, BOOLEAN)
     \/ focus = "stages" /\ (DefinitionSteps(MCGraphs, {FALSE}) \/ ExecutionSteps)
                         /\ Len(ptasks') <= 1
     \/ focus = "resumption" /\ (DeletePipeline \/ ExecutionSteps)
  /\ UNCHANGED <<focus, mcpVars, clientVars>> /\ RequestFrame /\ NodesFrame

ServersMove ==
  /\ \/ focus = "requests" /\ (UpdateServer \/ \E c \in Handlers : Request(c))
     \/ focus = "monitoring" /\ (Request("h1") \/ ManagerSteps)
     \/ /\ focus \in {"requests", "monitoring"}
        /\ \/ RegisterServer
           \/ \E c \in Callers : Proceeds(c)
           \/ \E k \in 1..MaxConns : Reconnects(k) \/ StaysDisconnected(k)
  /\ UNCHANGED <<focus, pipelineVars, clientVars>> /\ RequestFrame /\ NodesFrame

ClientMoves ==
  /\ focus = "client" /\ ClientNext
  /\ UNCHANGED <<focus, pipelineVars, mcpVars>> /\ RequestFrame /\ NodesFrame

Next ==
  \/ ExecutionMoves
  \/ RoutingMoves
  \/ BudgetMoves
  \/ SchedulerMoves
  \/ LimiterMoves
  \/ DispatchMoves
  \/ PeersMove
  \/ ElectionMoves
  \/ PipelineMoves
  \/ ServersMove
  \/ ClientMoves

Spec == Init /\ [][Next]_vars /\ ExecFairness /\ DispatchFairness
=============================================================================
