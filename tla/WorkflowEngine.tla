--------------------------- MODULE WorkflowEngine ---------------------------
(***************************************************************************)
(* WorkflowEngineImpl (core/workflow/engine.py) for one workflow: its      *)
(* definition, its executions, and the asyncio tasks (loops) that run      *)
(* _run_execution.                                                         *)
(*                                                                         *)
(* WorkflowExecution is immutable.  A loop works on a copy of its own and  *)
(* stores each new copy in _executions, over whatever clients stored       *)
(* there.  It can be overtaken wherever it awaits: in the publication of   *)
(* an event, which may also raise, in a node, and in the sleep before a    *)
(* node is looked at again.  The lists of nodes and of edges may have any  *)
(* order, so ready_queue is a set.  _running_executions is written and     *)
(* never read; it is left out, as are names, outputs and times.            *)
(***************************************************************************)
EXTENDS Integers, Sequences, FiniteSets

CONSTANTS
  Ids,         \* node ids that clients name
  Nodes,       \* those that are nodes of the workflow
  Gates,       \* those of type APPROVAL
  Points,      \* the nodes executions are replayed from; None: from the start
  Graphs,      \* the sets of edges clients may give the workflow
  MaxExecs,    \* bound: executions
  MaxLoops,    \* bound: loops
  MaxWaiting   \* bound: calls of cancel_execution that wait at the same time

None == "none"

ASSUME WorkflowAssumption ==
  /\ Gates \subseteq Nodes /\ Nodes \subseteq Ids /\ None \notin Ids /\ IsFiniteSet(Nodes)
  /\ Points \subseteq Ids \union {None}
  /\ \A g \in Graphs : g \subseteq Ids \X Ids
  /\ {MaxExecs, MaxLoops, MaxWaiting} \subseteq Nat

VARIABLES
  workflow,    \* the entry of _workflows
  execs,       \* _executions, in order of creation
  loops,       \* the tasks, in order of creation
  task,        \* task[x]: the loop in _execution_tasks, or 0
  cancellers,  \* calls of cancel_execution that await a loop
  runs,        \* history: runs[x][n] counts the calls of _execute_node
  resumed,     \* history: executions that were resumed
  overlapped,  \* history: executions resumed while a loop of theirs was alive
  misled       \* history: executions whose task cancel_execution removed
               \* though the one it had awaited was an earlier one

vars == <<workflow, execs, loops, task, cancellers, runs, resumed, overlapped, misled>>

Final == {"completed", "failed", "cancelled"}
Status == {"pending", "running", "paused", "awaiting_approval"} \union Final
Execution ==
  [status : Status, completed : SUBSET Nodes, failed : SUBSET Nodes,
   pending : Nodes \union {None}, from : Points]

\* new: not yet run.  Then the await it is suspended in: the publication of
\* WORKFLOW_STARTED, of NODE_STARTED, the node itself, the publication of
\* NODE_COMPLETED, the sleep, the last publication, or the one of the two
\* outer exception handlers.  done: ended; dead: ended by an exception.
PC == {"new", "started", "begun", "node", "noded", "sleep", "ending", "closing", "done", "dead"}
Loop ==
  [x : 1..MaxExecs, e : Execution, edges : Graphs, ready : SUBSET Ids, mine : SUBSET Nodes,
   node : Nodes \union {None}, pc : PC, cancelled : BOOLEAN]
Live(i) == loops[i].pc \notin {"done", "dead"}

Absent == [status |-> "absent"]
Deleted == [status |-> "deleted"]
Draft(g) == [status |-> "draft", edges |-> g]

TypeOK ==
  /\ workflow \in [status : {"draft", "active"}, edges : Graphs] \union {Absent, Deleted}
  /\ execs \in Seq(Execution) /\ Len(execs) <= MaxExecs
  /\ loops \in Seq(Loop) /\ Len(loops) <= MaxLoops
  /\ \A i \in DOMAIN loops : loops[i].x \in DOMAIN execs
  /\ task \in [1..MaxExecs -> 0..MaxLoops]
  /\ \A x \in DOMAIN task : task[x] <= Len(loops)
  /\ cancellers \subseteq [x : 1..MaxExecs, e : Execution, loop : 1..MaxLoops]
  /\ \A c \in cancellers : c.x \in DOMAIN execs /\ c.loop \in DOMAIN loops
  /\ runs \in [1..MaxExecs -> [Nodes -> Nat]]
  /\ resumed \subseteq DOMAIN execs /\ overlapped \subseteq resumed /\ misled \subseteq DOMAIN execs

Init ==
  /\ workflow = Absent
  /\ execs = <<>> /\ loops = <<>> /\ cancellers = {}
  /\ task = [x \in 1..MaxExecs |-> 0]
  /\ runs = [x \in 1..MaxExecs |-> [n \in Nodes |-> 0]]
  /\ resumed = {} /\ overlapped = {} /\ misled = {}

\* The workflow is in _workflows.
Exists == workflow.status \in {"draft", "active"}

Preds(n, edges) == {e[1] : e \in {d \in edges : d[2] = n}}
Succs(n, edges) == {e[2] : e \in {d \in edges : d[1] = n}}

\* validate_workflow, Kahn's algorithm in rounds: Sorted(edges)[k] are the nodes
\* that the first k rounds take off the queue.
Sorted(edges) ==
  LET sorted[k \in Nat] ==
        IF k = 0 THEN {} ELSE {n \in Nodes : Preds(n, edges) \subseteq sorted[k - 1]}
  IN sorted

IsAcyclic(edges) == Sorted(edges)[Cardinality(Nodes)] = Nodes

IsValid(edges) == edges \subseteq Nodes \X Nodes /\ IsAcyclic(edges)

-----------------------------------------------------------------------------
(* WorkflowExecution (domain/workflow.py). *)

NewExecution(from) ==
  [status |-> "pending", completed |-> {}, failed |-> {}, pending |-> None, from |-> from]
StartE(e) == [e EXCEPT !.status = "running"]
PauseE(e) == [e EXCEPT !.status = "paused"]
CompleteE(e) == [e EXCEPT !.status = "completed", !.pending = None]
FailE(e, ns) == [e EXCEPT !.status = "failed", !.failed = @ \union ns, !.pending = None]
CancelE(e) == [e EXCEPT !.status = "cancelled", !.pending = None]
CompleteNode(e, n) == [e EXCEPT !.completed = @ \union {n}]
RequestApproval(e, n) == [e EXCEPT !.status = "awaiting_approval", !.pending = n]
DecideApproval(e, n, approved) ==
  IF approved
  THEN [e EXCEPT !.status = "running", !.completed = @ \union {n}, !.pending = None]
  ELSE [e EXCEPT !.status = "failed", !.failed = @ \union {n}, !.pending = None]

-----------------------------------------------------------------------------
(* Definitions. *)

CreateWorkflow(g) ==
  /\ workflow = Absent
  /\ workflow' = Draft(g)
  /\ UNCHANGED <<execs, loops, task, cancellers, runs, resumed, overlapped, misled>>

\* New edges make a new version, a draft again; other updates leave the
\* parts of the definition that are modelled alone.
UpdateWorkflow(g) ==
  /\ Exists /\ g # workflow.edges
  /\ workflow' = Draft(g)
  /\ UNCHANGED <<execs, loops, task, cancellers, runs, resumed, overlapped, misled>>

\* Workflow.activate; the engine has no operation of its own that calls it.
Activate ==
  /\ workflow.status = "draft"
  /\ workflow' = [workflow EXCEPT !.status = "active"]
  /\ UNCHANGED <<execs, loops, task, cancellers, runs, resumed, overlapped, misled>>

\* An execution that is pending, paused or awaiting approval is no obstacle.
DeleteWorkflow ==
  /\ Exists
  /\ \A x \in DOMAIN execs : execs[x].status # "running"
  /\ workflow' = Deleted
  /\ UNCHANGED <<execs, loops, task, cancellers, runs, resumed, overlapped, misled>>

-----------------------------------------------------------------------------
(* Executions. *)

NewLoop(x, e) ==
  [x |-> x, e |-> e, edges |-> workflow.edges, ready |-> {}, mine |-> {},
   node |-> None, pc |-> "new", cancelled |-> FALSE]

Launch(from) ==
  LET x == Len(execs) + 1 IN
  /\ x <= MaxExecs /\ Len(loops) < MaxLoops
  /\ execs' = Append(execs, NewExecution(from))
  /\ loops' = Append(loops, NewLoop(x, NewExecution(from)))
  /\ task' = [task EXCEPT ![x] = Len(loops) + 1]
  /\ UNCHANGED <<workflow, cancellers, runs, resumed, overlapped, misled>>

ExecuteWorkflow(from) == workflow.status = "active" /\ Launch(from)

\* Replays what the workflow now is, active or not.
ReplayWorkflow(from) == Exists /\ Launch(from)

\* The oldest execution that waits for this node is the one decided.
ApproveWorkflow(n, approved) ==
  LET waiting == {x \in DOMAIN execs : /\ execs[x].status = "awaiting_approval"
                                       /\ execs[x].pending = n}
  IN \E x \in waiting :
       /\ \A y \in waiting : x <= y
       /\ execs' = [execs EXCEPT ![x] = DecideApproval(@, n, approved)]
       /\ UNCHANGED <<workflow, loops, task, cancellers, runs, resumed, overlapped, misled>>

\* Mutant: the task is cancelled but not awaited.
CancelAtOnce(x) ==
  /\ execs[x].status \in {"running", "paused", "awaiting_approval"}
  /\ execs' = [execs EXCEPT ![x] = CancelE(@)]
  /\ loops' = [i \in DOMAIN loops |->
                 IF i = task[x] THEN [loops[i] EXCEPT !.cancelled = TRUE] ELSE loops[i]]
  /\ UNCHANGED <<workflow, task, cancellers, runs, resumed, overlapped, misled>>

\* Without a task the execution is cancelled at once; with one, the call
\* keeps the copy it read and awaits the task.
CancelExecution(x) ==
  /\ execs[x].status \in {"running", "paused", "awaiting_approval"}
  /\ \/ /\ task[x] = 0
        /\ execs' = [execs EXCEPT ![x] = CancelE(@)]
        /\ UNCHANGED <<loops, cancellers>>
     \/ /\ task[x] # 0 /\ Cardinality(cancellers) < MaxWaiting
        /\ loops' = [loops EXCEPT ![task[x]].cancelled = TRUE]
        /\ cancellers' = cancellers \union {[x |-> x, e |-> execs[x], loop |-> task[x]]}
        /\ UNCHANGED execs
  /\ UNCHANGED <<workflow, task, runs, resumed, overlapped, misled>>

\* The awaited task has ended.  del removes the entry, whichever task it holds
\* by now, and raises KeyError when the finally clause of some loop has removed
\* it; an exception of the task ends the call as well.
CancelReturns(c) ==
  /\ ~Live(c.loop)
  /\ cancellers' = cancellers \ {c}
  /\ \/ /\ loops[c.loop].pc = "done" /\ task[c.x] # 0
        /\ task' = [task EXCEPT ![c.x] = 0]
        /\ execs' = [execs EXCEPT ![c.x] = CancelE(c.e)]
        /\ misled' = misled \union {x \in {c.x} : task[x] # c.loop}
     \/ /\ loops[c.loop].pc = "dead" \/ task[c.x] = 0
        /\ UNCHANGED <<task, execs, misled>>
  /\ UNCHANGED <<workflow, loops, runs, resumed, overlapped>>

\* Mutant: an execution is paused in any status.
PauseAny(x) ==
  /\ execs' = [execs EXCEPT ![x] = PauseE(@)]
  /\ UNCHANGED <<workflow, loops, task, cancellers, runs, resumed, overlapped, misled>>

PauseExecution(x) ==
  /\ execs[x].status = "running"
  /\ execs' = [execs EXCEPT ![x] = PauseE(@)]
  /\ UNCHANGED <<workflow, loops, task, cancellers, runs, resumed, overlapped, misled>>

\* Mutant: the new task is not registered.
ResumeUnregistered(x) ==
  /\ execs[x].status = "paused" /\ Len(loops) < MaxLoops /\ Exists
  /\ execs' = [execs EXCEPT ![x] = StartE(@)]
  /\ loops' = Append(loops, NewLoop(x, StartE(execs[x])))
  /\ resumed' = resumed \union {x}
  /\ overlapped' = overlapped \union {y \in {x} : \E i \in DOMAIN loops : loops[i].x = x /\ Live(i)}
  /\ UNCHANGED <<workflow, task, cancellers, runs, misled>>

\* A deleted workflow raises KeyError after the new status is stored.
ResumeExecution(x) ==
  /\ execs[x].status = "paused" /\ Len(loops) < MaxLoops
  /\ execs' = [execs EXCEPT ![x] = StartE(@)]
  /\ \/ /\ Exists
        /\ loops' = Append(loops, NewLoop(x, StartE(execs[x])))
        /\ task' = [task EXCEPT ![x] = Len(loops) + 1]
     \/ /\ ~Exists
        /\ UNCHANGED <<loops, task>>
  /\ resumed' = resumed \union {x}
  /\ overlapped' = overlapped \union {y \in {x} : \E i \in DOMAIN loops : loops[i].x = x /\ Live(i)}
  /\ UNCHANGED <<workflow, cancellers, runs, misled>>

-----------------------------------------------------------------------------
(* _run_execution. *)

\* Loop i, whose locals are now l, stores the copy e and awaits at pc.
Store(i, l, e, pc) ==
  /\ execs' = [execs EXCEPT ![l.x] = e]
  /\ loops' = [loops EXCEPT ![i] = [l EXCEPT !.e = e, !.pc = pc]]
  /\ UNCHANGED task

\* A loop that has ended has no locals any more.
Ended(l, pc) ==
  [l EXCEPT !.e = NewExecution(@.from), !.ready = {}, !.mine = {}, !.node = None,
            !.pc = pc, !.cancelled = FALSE]

\* The finally clause forgets the task of the execution, whichever it is.
Finally(i, pc) ==
  /\ loops' = [loops EXCEPT ![i] = Ended(@, pc)]
  /\ task' = [task EXCEPT ![loops[i].x] = 0]
  /\ UNCHANGED execs

\* Mutant: completed nodes are not skipped.
OpenAgain(l) == l.ready

\* The nodes of l that the while loop still has to visit.
Open(l) == l.ready \ l.e.completed

DepsCompleted(l, n) == Preds(n, l.edges) \subseteq l.e.completed

\* The top of the while loop, up to its next await: completed nodes are
\* skipped, an id that is no node raises KeyError, and a node whose
\* dependencies are not all completed is queued again.
Turn(i, l) ==
  \/ /\ Open(l) = {}
     /\ Store(i, l, IF l.e.failed # {} THEN FailE(l.e, {}) ELSE CompleteE(l.e), "ending")
  \/ \E n \in Open(l) \ Nodes : Store(i, l, FailE(l.e, {}), "closing")
  \/ \E n \in Open(l) \intersect Nodes :
       \/ /\ DepsCompleted(l, n)
          /\ Store(i, [l EXCEPT !.ready = Open(l) \ {n}, !.node = n], l.e, "begun")
       \/ /\ ~DepsCompleted(l, n)
          /\ loops' = [loops EXCEPT ![i] = [l EXCEPT !.ready = Open(l), !.pc = "sleep"]]
          /\ UNCHANGED <<execs, task>>

\* Loop i, not cancelled, goes on from the await at pc.
Resumes(i, pc) == loops[i].pc = pc /\ ~loops[i].cancelled

\* What every step of a loop but NodeExecutes leaves alone.
LoopFrame == UNCHANGED <<workflow, cancellers, runs, resumed, overlapped, misled>>

LoopStarts(i) ==
  /\ Resumes(i, "new")
  /\ Store(i, loops[i], StartE(loops[i].e), "started")
  /\ LoopFrame

StartNodes(l) ==
  IF l.e.from = None THEN {n \in Nodes : Preds(n, l.edges) = {}} ELSE {l.e.from}

PlanBuilt(i) ==
  /\ Resumes(i, "started")
  /\ Turn(i, [loops[i] EXCEPT !.ready = StartNodes(loops[i])])
  /\ LoopFrame

LooksAgain(i) ==
  /\ Resumes(i, "sleep")
  /\ Turn(i, loops[i])
  /\ LoopFrame

\* _execute_node raises ApprovalRequired for a gate.
NodeExecutes(i) ==
  LET l == loops[i] IN
  /\ Resumes(i, "begun")
  /\ \/ /\ l.node \in Gates
        /\ Store(i, l, RequestApproval(l.e, l.node), "ending")
     \/ /\ l.node \notin Gates
        /\ loops' = [loops EXCEPT ![i].pc = "node"]
        /\ UNCHANGED <<execs, task>>
  /\ runs' = [runs EXCEPT ![l.x][l.node] = @ + 1]
  /\ UNCHANGED <<workflow, cancellers, resumed, overlapped, misled>>

NodeReturns(i) ==
  /\ Resumes(i, "node")
  /\ Store(i, loops[i], CompleteNode(loops[i].e, loops[i].node), "noded")
  /\ LoopFrame

\* The node raises, or the publication of its completion does.
NodeRaises(i) ==
  /\ Resumes(i, "node") \/ Resumes(i, "noded")
  /\ Store(i, loops[i], FailE(loops[i].e, {loops[i].node}), "ending")
  /\ LoopFrame

\* Mutant: only the last dependency to be executed counts.
ReleasedByLast(l) ==
  {t \in Succs(l.node, l.edges) : Preds(t, l.edges) \subseteq {l.node} /\ t \notin l.e.completed}

\* Mutant: every successor is queued.
ReleasedAll(l) == Succs(l.node, l.edges) \ l.e.completed

\* in_degree counts the dependencies that this loop has not executed itself.
Released(l) ==
  {t \in Succs(l.node, l.edges) : /\ Preds(t, l.edges) \subseteq l.mine \union {l.node}
                                  /\ t \notin l.e.completed}

NodeDone(i) ==
  LET l == loops[i] IN
  /\ Resumes(i, "noded")
  /\ Turn(i, [l EXCEPT !.ready = @ \union Released(l), !.mine = @ \union {l.node}])
  /\ LoopFrame

\* The last publication is done: of the outcome, of a node's failure (break)
\* or of a request for approval (return).
LoopEnds(i) ==
  /\ Resumes(i, "ending") \/ Resumes(i, "closing")
  /\ Finally(i, "done")
  /\ LoopFrame

\* A publication outside the inner try raises.
LoopCrashes(i) ==
  /\ \E pc \in {"started", "begun", "ending"} : Resumes(i, pc)
  /\ Store(i, loops[i], FailE(loops[i].e, {}), "closing")
  /\ LoopFrame

\* The publication of an exception handler raises.
LoopDies(i) ==
  /\ Resumes(i, "closing")
  /\ Finally(i, "dead")
  /\ LoopFrame

\* CancelledError.  A task that never ran has no finally clause to run; one
\* that already is in a handler ends.
LoopCancelled(i) ==
  /\ loops[i].cancelled /\ Live(i)
  /\ \/ /\ loops[i].pc = "new"
        /\ loops' = [loops EXCEPT ![i] = Ended(@, "done")]
        /\ UNCHANGED <<execs, task>>
     \/ /\ loops[i].pc = "closing"
        /\ Finally(i, "done")
     \/ /\ loops[i].pc \notin {"new", "closing"}
        /\ Store(i, [loops[i] EXCEPT !.cancelled = FALSE], CancelE(loops[i].e), "closing")
  /\ LoopFrame

LoopSteps(i) ==
  \/ LoopStarts(i) \/ PlanBuilt(i) \/ LooksAgain(i) \/ NodeExecutes(i) \/ NodeReturns(i)
  \/ NodeRaises(i) \/ NodeDone(i) \/ LoopEnds(i) \/ LoopCrashes(i) \/ LoopDies(i) \/ LoopCancelled(i)

-----------------------------------------------------------------------------
Next ==
  \/ \E g \in Graphs : CreateWorkflow(g) \/ UpdateWorkflow(g)
  \/ Activate \/ DeleteWorkflow
  \/ \E from \in Points : ExecuteWorkflow(from) \/ ReplayWorkflow(from)
  \/ \E n \in Gates, approved \in BOOLEAN : ApproveWorkflow(n, approved)
  \/ \E x \in DOMAIN execs : CancelExecution(x) \/ PauseExecution(x) \/ ResumeExecution(x)
  \/ \E c \in cancellers : CancelReturns(c)
  \/ \E i \in DOMAIN loops : LoopSteps(i)

Spec == Init /\ [][Next]_vars

\* The event loop runs every task that is not waiting; nodes, publications
\* and sleeps end.
FairSpec ==
  /\ Spec
  /\ \A i \in 1..MaxLoops : WF_vars(i \in DOMAIN loops /\ LoopSteps(i))

-----------------------------------------------------------------------------
(* Properties. *)

\* No node is executed twice for one execution, also after it was resumed,
\* unless it was resumed while an earlier loop of it still ran.
NodesRunOnce ==
  \A x \in DOMAIN execs \ overlapped, n \in Nodes : runs[x][n] <= 1

\* An execution that runs from the start and is not resumed completes with
\* every node completed when validate_workflow accepts the graph, and otherwise
\* only when the nodes can be sorted: what is wrong with the graph is then an
\* edge into an unknown id that is never reached.
CompletesValidGraphs ==
  \A i \in DOMAIN loops :
    LET e == execs[loops[i].x] IN
    (e.status = "completed" /\ e.from = None /\ loops[i].x \notin resumed)
      => /\ IsValid(loops[i].edges) => e.completed = Nodes
         /\ e.completed = Nodes => IsAcyclic(loops[i].edges)

\* While a loop is at work on a node, cancel_execution has not yet reported
\* the execution as cancelled, and nothing else has ended it.
EndedMeansIdle ==
  \A i \in DOMAIN loops :
    (loops[i].pc \in {"begun", "node", "noded"} /\ loops[i].x \notin overlapped \union misled)
      => execs[loops[i].x].status \in {"running", "paused"}

\* cancel_execution can reach every loop of an execution, unless loops of it
\* overlapped or a call of cancel_execution removed the task of a later loop.
LoopsAreReachable ==
  \A i \in DOMAIN loops :
    (Live(i) /\ loops[i].x \notin overlapped \union misled) => task[loops[i].x] = i

\* The outcome of an execution stands, save that a completed one becomes
\* failed when the publication of its completion raises, and that a failed
\* one becomes cancelled when cancel_execution was called before it failed.
OutcomeKept ==
  \A x \in DOMAIN execs \ (overlapped \union misled') :
    execs[x].status \in Final
      => \/ execs'[x].status = execs[x].status
         \/ execs[x].status = "completed" /\ execs'[x].status = "failed"
         \/ /\ execs[x].status = "failed" /\ execs'[x].status = "cancelled"
            /\ \E c \in cancellers : c.x = x
OutcomeStands == [][OutcomeKept]_vars

\* Every loop ends: one that runs the workflow from its start nodes, and one that
\* replays it from a node without dependencies.  One that replays a node with
\* dependencies looks at that node for ever: nobody completes them.
LoopsEnd ==
  \A i \in 1..MaxLoops :
    (i \in DOMAIN loops /\ (loops[i].e.from = None \/ Preds(loops[i].e.from, loops[i].edges) = {}))
      ~> (i \in DOMAIN loops /\ ~Live(i))

\* "Execution will be resumed via approve_workflow": an execution that is
\* running has a task that runs it.
RunningHasATask ==
  \A x \in DOMAIN execs : execs[x].status = "running" => task[x] # 0
=============================================================================
