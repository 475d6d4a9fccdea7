--------------------------- MODULE LeaderElection ---------------------------
(***************************************************************************)
(* Failure detection and leader election (core/distributed/                *)
(* heartbeat_manager.py and node_registry.py, started by                   *)
(* distributed_controller.py).  Heartbeats may be lost, repeated and       *)
(* reordered.  No operation here suspends between reading and writing its  *)
(* state.  run_election is only called without votes and candidates;       *)
(* received votes are stored and never read, so they are left out, as are  *)
(* the node registry's records, which the election does not look at.       *)
(***************************************************************************)
EXTENDS Integers, FiniteSets, FiniteSetsExt

CONSTANTS
  Nodes,         \* node ids, ordered as the strings are
  MaxSequence,   \* bound: heartbeats a node sends between two restarts
  MaxTerm        \* bound: elections a node runs between two restarts

ASSUME ElectionAssumption == Nodes \subseteq Nat \ {0} /\ MaxSequence \in Nat /\ MaxTerm \in Nat

VARIABLES
  started,       \* DistributedController._started
  joined,        \* NodeTransport._peers
  sequence,      \* HeartbeatManager._sequence
  packets,       \* the heartbeats sent
  heard,         \* HeartbeatManager._statuses: last_sequence and is_alive
  term,          \* _current_term
  role,          \* _state, which is CANDIDATE only within an election
  leader,        \* _current_leader
  announced      \* the winner_id of the last node.leader.elected event

electionVars == <<started, joined, sequence, packets, heard, term, role, leader, announced>>

NoNode == 0
NotHeard == [sequence |-> 0, alive |-> FALSE]

ElectionTypeOK ==
  /\ started \subseteq Nodes
  /\ joined \in [Nodes -> SUBSET Nodes]
  /\ sequence \in [Nodes -> 0..MaxSequence]
  /\ packets \subseteq [from : Nodes, to : Nodes, sequence : 1..MaxSequence]
  /\ heard \in [Nodes -> [Nodes -> [sequence : 0..MaxSequence, alive : BOOLEAN]]]
  /\ term \in [Nodes -> 0..MaxTerm]
  /\ role \in [Nodes -> {"follower", "leader"}]
  /\ leader \in [Nodes -> Nodes \union {NoNode}]
  /\ announced \in [Nodes -> Nodes \union {NoNode}]

ElectionInit ==
  /\ started = {}
  /\ joined = [n \in Nodes |-> {}]
  /\ sequence = [n \in Nodes |-> 0]
  /\ packets = {}
  /\ heard = [n \in Nodes |-> [m \in Nodes |-> NotHeard]]
  /\ term = [n \in Nodes |-> 0]
  /\ role = [n \in Nodes |-> "follower"]
  /\ leader = [n \in Nodes |-> NoNode]
  /\ announced = [n \in Nodes |-> NoNode]

----------------------------------------------------------------------------
\* _get_eligible_nodes: those heard of and alive, and the node itself.  An alive
\* node has no consecutive failures, so all have the same health score.
Eligible(n) == {m \in Nodes : heard[n][m].alive} \union {n}

\* The winner has one vote; quorum is a majority of the eligible nodes.
QuorumMet(n) == 1 >= Max({1, Cardinality(Eligible(n)) \div 2 + 1})

\* run_election, and the event its two callers publish for every winner.
RunElection(n) ==
  LET winner == Min(Eligible(n)) IN
  /\ term[n] < MaxTerm
  /\ term' = [term EXCEPT ![n] = @ + 1]
  /\ announced' = [announced EXCEPT ![n] = winner]
  /\ \/ /\ QuorumMet(n)
        /\ leader' = [leader EXCEPT ![n] = winner]
        /\ role' = [role EXCEPT ![n] = IF winner = n THEN "leader" ELSE "follower"]
     \/ /\ ~QuorumMet(n)
        /\ role' = [role EXCEPT ![n] = "follower"]
        /\ UNCHANGED leader

\* DistributedController.start: heartbeats, then a first election.
NodeStart(n) ==
  /\ n \notin started
  /\ started' = started \union {n}
  /\ RunElection(n)
  /\ UNCHANGED <<joined, sequence, packets, heard>>

\* DistributedController.stop: the heartbeats end, everything else is kept.
NodeStop(n) ==
  /\ n \in started
  /\ started' = started \ {n}
  /\ UNCHANGED <<joined, sequence, packets, heard, term, role, leader, announced>>

\* elect_leader, on request only and whether started or not.
ElectLeader(n) ==
  /\ RunElection(n)
  /\ UNCHANGED <<started, joined, sequence, packets, heard>>

StepDown(n) ==
  /\ role[n] = "leader"
  /\ role' = [role EXCEPT ![n] = "follower"]
  /\ UNCHANGED <<started, joined, sequence, packets, heard, term, leader, announced>>

\* join_cluster and leave_cluster: only the transport's peers change.
JoinOrLeave(n, m) ==
  /\ n # m
  /\ joined' = [joined EXCEPT ![n] = IF m \in @ THEN @ \ {m} ELSE @ \union {m}]
  /\ UNCHANGED <<started, sequence, packets, heard, term, role, leader, announced>>

\* _send_heartbeat
SendHeartbeat(n) ==
  /\ n \in started
  /\ sequence[n] < MaxSequence
  /\ sequence' = [sequence EXCEPT ![n] = @ + 1]
  /\ packets' = packets \union
       {[from |-> n, to |-> m, sequence |-> sequence[n] + 1] : m \in joined[n]}
  /\ UNCHANGED <<started, joined, heard, term, role, leader, announced>>

\* receive_heartbeat: a packet that is not newer than the last changes nothing,
\* so a restarted sender is not heard until its sequence has caught up.
ReceiveHeartbeat(p) ==
  /\ p.sequence > heard[p.to][p.from].sequence
  /\ heard' = [heard EXCEPT ![p.to][p.from] = [sequence |-> p.sequence, alive |-> TRUE]]
  /\ UNCHANGED <<started, joined, sequence, packets, term, role, leader, announced>>

\* _check_stale_nodes: any alive node may have been silent for long enough.
CheckStaleNodes(n, m) ==
  /\ n \in started
  /\ heard[n][m].alive
  /\ heard' = [heard EXCEPT ![n][m].alive = FALSE]
  /\ UNCHANGED <<started, joined, sequence, packets, term, role, leader, announced>>

\* The process ends and comes back: everything it knew is gone.
NodeRestart(n) ==
  /\ started' = started \ {n}
  /\ joined' = [joined EXCEPT ![n] = {}]
  /\ sequence' = [sequence EXCEPT ![n] = 0]
  /\ heard' = [heard EXCEPT ![n] = [m \in Nodes |-> NotHeard]]
  /\ term' = [term EXCEPT ![n] = 0]
  /\ role' = [role EXCEPT ![n] = "follower"]
  /\ leader' = [leader EXCEPT ![n] = NoNode]
  /\ announced' = [announced EXCEPT ![n] = NoNode]
  /\ UNCHANGED packets

ElectionNext ==
  \/ \E n \in Nodes : NodeStart(n)
  \/ \E n \in Nodes : NodeStop(n)
  \/ \E n \in Nodes : ElectLeader(n)
  \/ \E n \in Nodes : StepDown(n)
  \/ \E n, m \in Nodes : JoinOrLeave(n, m)
  \/ \E n \in Nodes : SendHeartbeat(n)
  \/ \E p \in packets : ReceiveHeartbeat(p)
  \/ \E n, m \in Nodes : CheckStaleNodes(n, m)
  \/ \E n \in Nodes : NodeRestart(n)

ElectionSpec == ElectionInit /\ [][ElectionNext]_electionVars
----------------------------------------------------------------------------
(***************************************************************************)
(* Properties                                                              *)
(***************************************************************************)
\* "multi-node mode (all nodes compute the same winner)": the node announced by
\* node.leader.elected is the one the announcing node then follows.
AnnouncedLeads ==
  \A n \in Nodes : announced[n] # NoNode => leader[n] = announced[n]
=============================================================================
